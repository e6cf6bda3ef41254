-------------------------- MODULE MCOfflineQueue --------------------------
(* Instances of OfflineQueue for TLC. *)
EXTENDS OfflineQueue, TLC

CONSTANTS t1, t2, n1, n2, c1, c2, u1, u2, e1, e2, q1, q2, q3, body, noone

KeysOfCreates == Tenants \X Creates
Plan(visited, open, making, written) ==
  [spaces |-> visited, tabs |-> open, makes |-> making, versions |-> written]

\* A creation with two tabs, and with a change of workspace; two edits with one tab, one with two.
EachKind == {Plan({n1}, {t1, t2}, {c1}, 0), Plan({n1, n2}, {t1}, {c1}, 0),
             Plan({n1}, {t1}, {e1, e2}, 2), Plan({n1}, {t1, t2}, {e1}, 1)}

Symmetry == Permutations(Requests) \cup Permutations(Tabs)
=============================================================================
