----------------------------- MODULE LedgerBook -----------------------------
(***************************************************************************)
(* What the general ledger promises, without requests, locks or drafts: a  *)
(* book of postings that only ever grows.  The position of a posting is    *)
(* its document number, so numbers are gapless by the shape of the data.   *)
(* A posting either records balanced lines or mirrors one earlier posting; *)
(* a posting is mirrored at most once and a mirror never.                  *)
(*                                                                         *)
(* Ledger implements this module; see Ledger!Book.                         *)
(***************************************************************************)
EXTENDS Naturals, Sequences

CONSTANTS
  Dates,        \* accounting dates, ordered as naturals
  Lines         \* what an entry can book

VARIABLE book

Balanced(l) == l.debit = l.credit /\ l.debit > 0

\* The same lines with debit and credit sides exchanged.
Mirror(l) == [l EXCEPT !.dr = l.cr, !.cr = l.dr, !.debit = l.credit, !.credit = l.debit]

NotAReversal == 0

Reversed(n) == \E m \in 1..Len(book) : book[m].reverses = n

Init == book = << >>

\* An entry enters the book under the next number.
Post ==
  \E date \in Dates, l \in Lines :
    /\ Balanced(l)
    /\ book' = Append(book, [date |-> date, lines |-> l, reverses |-> NotAReversal])

\* A posting that is neither a reversal nor reversed yet gets its mirror
\* image, dated no earlier than the posting itself.
Reverse ==
  \E n \in 1..Len(book), date \in Dates :
    /\ book[n].reverses = NotAReversal
    /\ ~Reversed(n)
    /\ book[n].date <= date
    /\ book' = Append(book, [date     |-> date,
                             lines    |-> Mirror(book[n].lines),
                             reverses |-> n])

Next == Post \/ Reverse

Spec == Init /\ [][Next]_book
=============================================================================
