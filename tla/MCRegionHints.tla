----------------------------- MODULE MCRegionHints -----------------------------
(* RegionHints for TLC: the three kinds of name the README names.          *)
EXTENDS RegionHints, TLC

\* gate1.jp and gate1.eu are redirected, gate1.kr is redirected and has no
\* certificate, www01.kddi-mmbb.jp is redirected and names no region, an AAAA
\* query for gate1.eu is forwarded.
MCRegionOf ==
  "gate1.jp" :> "jp" @@ "gate1.eu" :> "eu" @@ "gate1.kr" :> "kr" @@
  "kddi" :> NoRegion @@ "gate1.eu/AAAA" :> "eu"
MCQuestions == DOMAIN MCRegionOf
MCRedirected == MCQuestions \ {"gate1.eu/AAAA"}
MCPairQuestions == {"gate1.jp", "gate1.eu"}
MCPairRegionOf == [q \in MCPairQuestions |-> MCRegionOf[q]]
=============================================================================
