------------------------------ MODULE MCBoard ------------------------------
(* Instances of Board for TLC. *)
EXTENDS Board, TLC

CONSTANTS a, b, c, d, e, r1, r2, noone

Card(n, at, where, of) ==
  [status |-> where, position |-> at, parent |-> of, deleted |-> FALSE, version |-> 1, number |-> n]

\* Two cards next to each other, a third below them, one in the other column:
\* the gap has been halved until it is too small.  Or a gap that has not been
\* halved, with a subtask at the end of the column.
Tight  == a :> Card(1, 8, "todo", noone) @@ b :> Card(2, 10, "todo", noone) @@
          d :> Card(3, 18, "todo", noone) @@ c :> Card(4, 8, "done", noone)
Loose  == a :> Card(1, 8, "todo", noone) @@ b :> Card(2, 16, "todo", c) @@ c :> Card(3, 8, "done", noone)
Board0(p, w, f) == [board |-> p, writes |-> w, faults |-> f]
AllPlans == {Board0(Tight, 2, 1), Board0(Loose, 3, 1)}
Symmetry == Permutations(Requests)
=============================================================================
