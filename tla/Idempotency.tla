---------------------------- MODULE Idempotency ----------------------------
(* The idempotency interceptor of the API: the HTTP requests that carry an   *)
(* Idempotency-Key, the table idempotency_keys of the tenant database and    *)
(* the rows their handlers create.  A request claims its key, runs its       *)
(* handler and stores the answer; these are three database transactions, and *)
(* the process may stop, or a statement fail, between any two of them.       *)
(* Clients are the environment here: Send and Receive are theirs.            *)
EXTENDS Naturals, FiniteSets

CONSTANTS
  Keys,       \* Idempotency-Keys, each namespaced by its caller
  Bodies,     \* the hashes of method, path and body
  Requests,   \* slots for the requests in flight; a slot is used again
  MaxFaults   \* bound: how many things go wrong

ASSUME FaultsAssumption == MaxFaults \in Nat

VARIABLES
  req,        \* requests: where each one is, its key and its body
  table,      \* idempotency_keys: the state of each key and the body it was claimed with
  rows,       \* how often the handler of a key has committed
  givenUp,    \* history: keys deleted although their handler had committed, or purged
  faults      \* things that went wrong so far

server == <<req, table, rows, givenUp, faults>>

InServer == {"refused", "running", "handled", "failed"}
Answers  == {"ok", "rejected", "lost"}
Free     == [at |-> "free"]
Absent   == [state |-> "none"]
Request  == [at : {"sent"} \cup InServer \cup Answers, key : Keys, body : Bodies] \cup {Free}
KeyRow   == [state : {"claimed", "stored"}, body : Bodies] \cup {Absent}

\* The type of every variable.
ServerTypeOK ==
  /\ req \in [Requests -> Request]
  /\ table \in [Keys -> KeyRow]
  /\ rows \in [Keys -> Nat]
  /\ givenUp \subseteq Keys
  /\ faults \in 0..MaxFaults

ServerInit ==
  /\ req = [r \in Requests |-> Free]
  /\ table = [k \in Keys |-> Absent]
  /\ rows = [k \in Keys |-> 0]
  /\ givenUp = {}
  /\ faults = 0

-----------------------------------------------------------------------------
KeyOf(r)     == table[req[r].key]
Goes(r, at)  == req' = [req EXCEPT ![r].at = at]
SetKey(r, s) == table' = [table EXCEPT ![req[r].key] = s]
Fault        == faults < MaxFaults /\ faults' = faults + 1
Executes(r)  == rows' = [rows EXCEPT ![req[r].key] = @ + 1]
GiveUp(k)    == givenUp' = givenUp \cup {k}

(* -- the clients and the network ----------------------------------------- *)
Send(r, k, b) ==
  /\ req[r] = Free
  /\ req' = [req EXCEPT ![r] = [at |-> "sent", key |-> k, body |-> b]]
  /\ UNCHANGED <<table, rows, givenUp, faults>>

\* The client reads the answer, or nobody waits for it any more.
Receive(r) ==
  /\ req[r].at \in Answers
  /\ req' = [req EXCEPT ![r] = Free]
  /\ UNCHANGED <<table, rows, givenUp, faults>>

\* The request never reaches the server.
Lose(r) ==
  /\ req[r].at = "sent"
  /\ Fault /\ Goes(r, "lost")
  /\ UNCHANGED <<table, rows, givenUp>>

(* -- the interceptor ------------------------------------------------------ *)
\* Mutant: ON CONFLICT DO UPDATE, which always returns the row.
ClaimUpserts(r) ==
  /\ req[r].at = "sent"
  /\ SetKey(r, [state |-> "claimed", body |-> req[r].body])
  /\ Goes(r, "running")
  /\ UNCHANGED <<rows, givenUp, faults>>

\* INSERT ... ON CONFLICT DO NOTHING returned the row: the key is ours.
Claim(r) ==
  /\ req[r].at = "sent" /\ KeyOf(r) = Absent
  /\ SetKey(r, [state |-> "claimed", body |-> req[r].body])
  /\ Goes(r, "running")
  /\ UNCHANGED <<rows, givenUp, faults>>

\* It returned nothing: the key is looked up, which is another statement.
Refuse(r) ==
  /\ req[r].at = "sent" /\ KeyOf(r) # Absent
  /\ Goes(r, "refused")
  /\ UNCHANGED <<table, rows, givenUp, faults>>

\* The stored answer is replayed; a missing row, another body or a request
\* that is still being processed is a conflict.
Lookup(r) ==
  /\ req[r].at = "refused"
  /\ Goes(r, IF KeyOf(r) = [state |-> "stored", body |-> req[r].body] THEN "ok" ELSE "rejected")
  /\ UNCHANGED <<table, rows, givenUp, faults>>

\* The handler's transaction commits.
Commit(r) ==
  /\ req[r].at = "running"
  /\ Executes(r) /\ Goes(r, "handled")
  /\ UNCHANGED <<table, givenUp, faults>>

\* The handler throws and has changed nothing.
Reject(r) ==
  /\ req[r].at = "running"
  /\ Goes(r, "failed")
  /\ UNCHANGED <<table, rows, givenUp, faults>>

\* The handler throws after its transaction: the audit event, reading the row back.
FailLate(r) ==
  /\ req[r].at = "running"
  /\ Fault /\ Executes(r) /\ GiveUp(req[r].key) /\ Goes(r, "failed")
  /\ UNCHANGED table

\* The answer is stored before it is sent (an UPDATE: a purged key stays away).
Store(r) ==
  /\ req[r].at = "handled"
  /\ SetKey(r, IF KeyOf(r) = Absent THEN Absent ELSE [KeyOf(r) EXCEPT !.state = "stored"])
  /\ Goes(r, "ok")
  /\ UNCHANGED <<rows, givenUp, faults>>

\* That UPDATE fails, which is an error of the request like any other.
StoreFails(r) ==
  /\ req[r].at = "handled"
  /\ Fault /\ GiveUp(req[r].key) /\ Goes(r, "failed")
  /\ UNCHANGED <<table, rows>>

\* A failed request does not consume its key.
Release(r) ==
  /\ req[r].at = "failed"
  /\ SetKey(r, Absent) /\ Goes(r, "rejected")
  /\ UNCHANGED <<rows, givenUp, faults>>

\* The API stops: what it was doing ends where it was, its clients see a gateway error.
ServerStops ==
  /\ \E r \in Requests : req[r].at \in InServer
  /\ Fault
  /\ req' = [r \in Requests |-> IF req[r].at \in InServer THEN [req[r] EXCEPT !.at = "lost"] ELSE req[r]]
  /\ UNCHANGED <<table, rows, givenUp>>

\* Maintenance deletes the keys that have expired, 24 hours after their claim.
Purge(k) ==
  /\ table[k] # Absent
  /\ Fault /\ GiveUp(k)
  /\ table' = [table EXCEPT ![k] = Absent]
  /\ UNCHANGED <<req, rows>>

Process(r) ==
  \/ Claim(r) \/ Refuse(r) \/ Lookup(r) \/ Commit(r) \/ Reject(r) \/ Store(r) \/ Release(r)
Breaks(r) == FailLate(r) \/ StoreFails(r)

ServerNext ==
  \/ \E r \in Requests :
       \/ \E k \in Keys, b \in Bodies : Send(r, k, b)
       \/ Receive(r) \/ Lose(r) \/ Process(r) \/ Breaks(r)
  \/ ServerStops
  \/ \E k \in Keys : Purge(k)

ServerSpec == ServerInit /\ [][ServerNext]_server

-----------------------------------------------------------------------------
\* A key is executed a second time only after it was given up: its handler or
\* the storing of its answer failed behind the commit, or it expired.  No
\* number of retries, of concurrent requests and of stops does it otherwise.
ExecutedOnce == \A k \in Keys : rows[k] > 1 => k \in givenUp
=============================================================================
