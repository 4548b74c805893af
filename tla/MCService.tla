-------------------------------- MODULE MCService ------------------------------
(* Service for TLC: lengths on both sides of every bound, overlapping prefixes. *)
EXTENDS Service

MCProxyArgs ==
  {[valid |-> TRUE, prefix |-> <<"/">>, target |-> "x"],
   [valid |-> TRUE, prefix |-> <<"/", "a">>, target |-> "y"],
   [valid |-> TRUE, prefix |-> <<"/", "a">>, target |-> "z"],
   [valid |-> FALSE, prefix |-> <<"/">>, target |-> "x"]}

MCHellos ==
  {[v |-> 2, client |-> TRUE, len |-> n, csl |-> 3, sil |-> 0, cl |-> l, offers |-> TRUE] :
     n \in {8, 9, 27, 28, 44, 45}, l \in {16, 33}}
  \cup
  {[v |-> 3, client |-> TRUE, len |-> n, sid |-> s, cs |-> 2, offers |-> TRUE] :
     n \in {3, 4, 37, 38, 39, 40, 41, 42, 43, 44, 75}, s \in {0, 1, 32}}
  \cup
  {[v |-> 3, client |-> b, len |-> 43, sid |-> 0, cs |-> 2, offers |-> ~b] : b \in BOOLEAN}

MCExchanges ==
  {[v |-> 0, client |-> TRUE, len |-> n, enc |-> e] : n \in {3, 4, 5, 6, 7}, e \in {0, 1, 2}}

Asks(path, endpoint, sendable, cl) ==
  [v |-> 1, line |-> TRUE, cl |-> cl, path |-> path, sendable |-> sendable, endpoint |-> endpoint]

MCRequests ==
  {Asks(<<"/", "a", "b">>, FALSE, TRUE, 1), Asks(<<"/", "a">>, TRUE, FALSE, 0),
   Asks(<<"/", "b">>, TRUE, TRUE, 2), Asks(<<"b">>, FALSE, TRUE, -1),
   [Asks(<<"/">>, FALSE, TRUE, 0) EXCEPT !.line = FALSE]}

MCBackends ==
  {[status |-> 200, len |-> n, readable |-> TRUE] : n \in {2, 3}}
  \cup {[status |-> 200, len |-> 1, readable |-> FALSE], [status |-> 302, len |-> 0, readable |-> TRUE]}
=============================================================================
