------------------------------ MODULE MCRedirector -----------------------------
(* Redirector for TLC: texts over the letters a and b, a dot and a capital. *)
EXTENDS Redirector

a == 97
b == 98
A == 65

\* Names: b, a.b, A.b., and one that is no name at all.
MCLines ==
  {[rule |-> TRUE, name |-> n, ip |-> i] :
     n \in {<<b>>, <<A, Dot, b, Dot>>}, i \in {None, "v4", "v6"}}
  \cup {[rule |-> FALSE, name |-> <<>>, ip |-> None],
        [rule |-> TRUE, name |-> <<Dot>>, ip |-> None],
        [rule |-> TRUE, name |-> <<b>>, ip |-> BadIP]}

MCSuffixes == {<<a, Dot, b>>, <<Dot>>}

\* Questions for b, a.b (spelt A.b), ab and the root, of type A and AAAA, with
\* and without something after them; these cut off anywhere; and every short
\* run of length bytes, too long ones and compression pointers among them.
Wire == {<<1, b, 0>>, <<1, A, 1, b, 0>>, <<2, a, b, 0>>, <<0>>}
Whole == {w \o <<0, t, 0, 1>> \o e : w \in Wire, t \in {1, 28}, e \in {<<>>, <<0, 0>>}}
Cut == UNION {{SubSeq(w, 1, n) : n \in 0..Len(w)} : w \in Whole}
Runs == BoundedSeq({0, 1, 64}, 3)

MCDatagrams ==
  {[header |-> TRUE, qd |-> 1, q |-> q] : q \in Cut \cup Runs}
  \cup {[header |-> TRUE, qd |-> n, q |-> <<1, b, 0, 0, 1, 0, 1>>] : n \in {0, 2}}
  \cup {[header |-> FALSE, qd |-> 0, q |-> <<>>]}
=============================================================================
