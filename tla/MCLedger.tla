------------------------------ MODULE MCLedger ------------------------------
(* Instances of Ledger for TLC. *)
EXTENDS Ledger, TLC

CONSTANTS u1, u2, r1, r2, r3, cash, sales, noone

AcctAll  == {cash, sales}
NoAccts  == {}
SalesOnly == {sales}

\* A sale, the same sale for another amount, and one that does not balance.
Sale(n)   == [dr |-> cash, cr |-> sales, debit |-> n, credit |-> n]
OneLine   == {Sale(1)}
TwoLines  == {Sale(1), Sale(2)}
OneUnbalanced == OneLine \cup {[Sale(1) EXCEPT !.credit = 2]}

Settings(approval, segregation, locks0) ==
  [requireApproval : approval, segregation : segregation, lockDate : locks0]

ApprovalOnly    == Settings({TRUE}, {FALSE}, {None})
AnyApproval     == Settings(BOOLEAN, {FALSE}, {None})
AlwaysSegregated == Settings(BOOLEAN, {TRUE}, {None})

Symmetry == Permutations(Requests)
=============================================================================
