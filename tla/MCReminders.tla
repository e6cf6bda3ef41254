---------------------------- MODULE MCReminders ----------------------------
(* Instances of Reminders for TLC. *)
EXTENDS Reminders

CONSTANTS alarm, serial, w1, w2, noone

Plan(run, make, mailed, times, moves, writes, lost) ==
  [workers |-> run, makes |-> make, mails |-> mailed, occurs |-> times, moves |-> moves, edits |-> writes, faults |-> lost]

\* Snoozed or dismissed while two workers are about; rolled forward; moved or cancelled
\* with its event; with e-mail; two due at once.
Snoozing == Plan({w1, w2}, {alarm}, {}, {}, {}, 1, 1)
Rolling  == Plan({w1, w2}, {serial}, {}, {1, 2}, {}, 0, 1)
Moving   == Plan({w1}, {serial}, {}, {1, 3}, {{2}, {}}, 1, 1)
Mailing  == Plan({w1}, {serial}, {serial}, {2}, {}, 0, 1)
Both     == Plan({w1}, {alarm, serial}, {}, {2}, {}, 0, 0)
AllPlans == {Snoozing, Rolling, Moving, Mailing, Both}
=============================================================================
