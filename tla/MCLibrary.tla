----------------------------- MODULE MCLibrary -----------------------------
(* Instances of Library for TLC. *)
EXTENDS Library, TLC

CONSTANTS f1, f2, f3, x1, x2, v1, v2, v3, r1, r2, top, noone

Plan(tree, place, ops, n, lost) ==
  [parents |-> f1 :> tree[1] @@ f2 :> tree[2] @@ f3 :> tree[3],
   homes |-> x1 :> place @@ x2 :> noone,
   holds |-> x1 :> (IF place = noone THEN noone ELSE v1) @@ x2 :> noone,
   operations |-> ops, left |-> n, faults |-> lost]

\* Folders moved about; in and out of the trash; purged while they are used; a file and its versions.
Moving   == Plan(<<top, top, noone>>, noone, {"create", "move", "trash", "restore"}, 4, 0)
Trashing == Plan(<<top, f1, f2>>, f2, {"trash", "restore", "trashFile", "restoreFile", "moveFile"}, 5, 0)
Purging  == Plan(<<top, f1, noone>>, f2, {"trash", "restore", "purge", "expire", "upload", "create"}, 4, 1)
Versioning == Plan(<<noone, noone, noone>>, top, {"renew", "copy", "trashFile", "restoreFile", "purgeFile", "upload"}, 5, 1)
AllPlans == {Moving, Trashing, Purging, Versioning}
Symmetry == Permutations({r1, r2})
=============================================================================
