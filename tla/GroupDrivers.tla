--------------------------- MODULE GroupDrivers ---------------------------
(***************************************************************************)
(* What the output mapper promises, with no objects and no buffers: every  *)
(* group of the datastore is driven by at most one effect, the effect of   *)
(* the last request that named it, and a request changes nothing for the   *)
(* groups it does not name.                                                *)
(***************************************************************************)
CONSTANTS
  Groups,    \* ids of the groups in the datastore
  Effects,   \* identities of running effects
  NoEffect   \* a group that nothing drives

VARIABLE driver

TypeOK == driver \in [Groups -> Effects \cup {NoEffect}]

Init == driver = [g \in Groups |-> NoEffect]

\* A new effect e takes over the groups ids.
Assign(e, ids) ==
  /\ \A g \in Groups : driver[g] # e
  /\ driver' = [g \in Groups |-> IF g \in ids THEN e ELSE driver[g]]

\* Whatever drives g stops driving it.
Release(g) == driver' = [driver EXCEPT ![g] = NoEffect]

Next ==
  \/ \E e \in Effects, ids \in SUBSET Groups : Assign(e, ids)
  \/ \E g \in Groups : Release(g)

Spec == Init /\ [][Next]_driver
===========================================================================
