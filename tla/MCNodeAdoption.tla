-------------------------- MODULE MCNodeAdoption --------------------------
EXTENDS NodeAdoption, TLC

CONSTANTS m1, m2, ip1, ip2, ip3, c1, c2, t1, t2

\* m1 may move to a second address, m2 keeps its own.
MovingIps == m1 :> {ip1, ip2} @@ m2 :> {ip3}

\* Clients configure m1, in two ways.
FirstNodeConfigs == m1 :> {c1, c2} @@ m2 :> {}

\* The two addresses of m1 are alike, and so are its configurations.
Symmetry == Permutations(Txns) \cup Permutations({c1, c2}) \cup Permutations({ip1, ip2})
===========================================================================
