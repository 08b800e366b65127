-------------------------- MODULE IdempotentCommand --------------------------
(***************************************************************************)
(* The requests that carry one idempotency key of one user and operation:  *)
(* the transaction that reserves the key, does the work and completes the  *)
(* record, its retries, the second transaction that settles a rejection,   *)
(* and the recovery that asks what became of a checkout.                   *)
(*                                                                         *)
(* Sources: platform/idempotent-command-executor.ts, platform/             *)
(* transaction-executor.ts, pos/pos-service.ts and pos/recovery-service.ts *)
(* under apps/api/src.                                                     *)
(*                                                                         *)
(* The database is the row of idempotency_records with its unique index:   *)
(* record is what is committed, holder the transaction with an uncommitted *)
(* insert, for which every other insert of the key waits.  A statement is  *)
(* an action.  The processes run side by side, any of them may crash, lose *)
(* its client or pass its deadline, and any statement may be the victim of *)
(* a deadlock, a lock wait timeout or a write conflict.                    *)
(***************************************************************************)
EXTENDS Naturals

CONSTANTS
  Requests,      \* calls of execute with the key
  Fingerprints,  \* the bodies they carry
  MaxAttempts    \* attempts of a transaction


VARIABLES
  record,    \* the committed record of the key
  holder,    \* who has an uncommitted record of the key
  asked,     \* the fingerprint of each request
  answer,    \* what each request was answered
  request,   \* where each request is in execute
  effects,   \* how often the work of the command was committed
  recovered  \* what recovery has said so far

vars == <<record, holder, asked, answer, request, effects, recovered>>

Undecided == [kind |-> "UNDECIDED"]
Nothing == "NOTHING"
Nobody == "NOBODY"
Orphan == "ORPHAN"     \* a transaction whose process is gone or was told otherwise

ASSUME CommandAssumption ==
  /\ MaxAttempts \in Nat \ {0}
  /\ Nobody \notin Requests /\ Orphan \notin Requests
  /\ Nothing \notin Fingerprints

Outcomes == [kind : {"SUCCEEDED", "REJECTED"}, fingerprint : Fingerprints]
Answers == {"SUCCEEDED", "REJECTED", "MISMATCH", "ERROR"}

\* START an attempt, the key read ABSENT, its record INSERTED, all READY to commit.
Phase == {"NEW", "START", "ABSENT", "INSERTED", "READY", "COMMITTED", "REREAD",
          "ANSWERED", "LOST"}

\* In mode REJECT the transaction is the one of finalizeRejection.
RequestType == [phase : Phase, mode : {"WORK", "REJECT"}, attempt : 1 .. MaxAttempts,
                late : BOOLEAN]

-----------------------------------------------------------------------------
Go(r, phase) == request' = [request EXCEPT ![r].phase = phase]

\* The call is over, and its local variables with it.
Over(phase) == [phase |-> phase, mode |-> "WORK", attempt |-> 1, late |-> FALSE]

Reply(r, a) ==
  /\ request' = [request EXCEPT ![r] = Over("ANSWERED")]
  /\ answer' = [answer EXCEPT ![r] = a]

\* Mutant of Resolve: the bodies of the requests are not compared.
ResolveAnyBody(r) == Reply(r, IF request[r].late THEN "ERROR" ELSE record.kind)

\* resolveExisting; the client may be gone, or the deadline past, when it is back.
Resolve(r) ==
  \/ /\ ~ request[r].late
     /\ Reply(r, IF record.fingerprint = asked[r] THEN record.kind ELSE "MISMATCH")
  \/ request[r].late /\ Reply(r, "ERROR")

Arrive(r, f) ==
  /\ request[r].phase = "NEW"
  /\ asked' = [asked EXCEPT ![r] = f]
  /\ Go(r, "START")
  /\ UNCHANGED <<record, holder, answer, effects, recovered>>

\* throwIfCancelled and findUnique of an attempt.
Begin(r) ==
  /\ request[r].phase = "START"
  /\ \/ request[r].late /\ Reply(r, "ERROR")
     \/ ~ request[r].late /\ record # Undecided /\ Resolve(r)
     \/ ~ request[r].late /\ record = Undecided /\ Go(r, "ABSENT") /\ UNCHANGED answer
  /\ UNCHANGED <<record, holder, asked, effects, recovered>>

\* Mutant of Insert: the key has no unique index.
InsertAnyway(r) ==
  /\ request[r].phase = "ABSENT"
  /\ holder = Nobody
  /\ holder' = r
  /\ Go(r, IF request[r].mode = "WORK" THEN "INSERTED" ELSE "READY")
  /\ UNCHANGED <<record, asked, answer, effects, recovered>>

\* create waits for another transaction's insert of the same key to end.
Insert(r) ==
  /\ request[r].phase = "ABSENT"
  /\ holder = Nobody
  /\ record = Undecided
  /\ holder' = r
  /\ Go(r, IF request[r].mode = "WORK" THEN "INSERTED" ELSE "READY")
  /\ UNCHANGED <<record, asked, answer, effects, recovered>>

\* The other transaction committed: P2002.
UniqueConflict(r) ==
  /\ request[r].phase = "ABSENT"
  /\ record # Undecided
  /\ Go(r, "REREAD")
  /\ UNCHANGED <<record, holder, asked, answer, effects, recovered>>

Reread(r) ==
  /\ request[r].phase = "REREAD"
  /\ IF record = Undecided THEN Reply(r, "ERROR") ELSE Resolve(r)
  /\ UNCHANGED <<record, holder, asked, effects, recovered>>

-----------------------------------------------------------------------------
(* The work of the command, in the transaction that holds the key.         *)

Release(r) == holder' = IF holder = r THEN Nobody ELSE holder

WorkSucceeds(r) ==
  /\ request[r].phase = "INSERTED"
  /\ Go(r, "READY")
  /\ UNCHANGED <<record, holder, asked, answer, effects, recovered>>

\* An error of the domain that is no terminal rejection.
WorkFails(r) ==
  /\ request[r].phase = "INSERTED"
  /\ Release(r)
  /\ Reply(r, "ERROR")
  /\ UNCHANGED <<record, asked, effects, recovered>>

\* The work violates a unique index of its own, which looks like a lost race.
WorkConflicts(r) ==
  /\ request[r].phase = "INSERTED"
  /\ Release(r)
  /\ IF request[r].late THEN Reply(r, "ERROR") ELSE Go(r, "REREAD") /\ UNCHANGED answer
  /\ UNCHANGED <<record, asked, effects, recovered>>

\* A terminal rejection is a candidate only: the rollback may not have reached
\* the database, and finalizeRejection inserts the record of the rejection.
WorkRejected(r) ==
  /\ request[r].phase = "INSERTED"
  /\ holder' \in {Nobody, Orphan}
  /\ IF request[r].late
     THEN Reply(r, "ERROR")
     ELSE /\ request' = [request EXCEPT ![r].phase = "START", ![r].mode = "REJECT",
                                        ![r].attempt = 1]
          /\ UNCHANGED answer
  /\ UNCHANGED <<record, asked, effects, recovered>>

\* Mutant of Abort: one attempt too many.
AbortOnceMore(r) ==
  /\ request[r].phase \in {"ABSENT", "INSERTED", "READY"}
  /\ Release(r)
  /\ IF request[r].attempt <= MaxAttempts /\ ~ request[r].late
     THEN /\ request' = [request EXCEPT ![r].phase = "START", ![r].attempt = @ + 1]
          /\ UNCHANGED answer
     ELSE Reply(r, "ERROR")
  /\ UNCHANGED <<record, asked, effects, recovered>>

\* Mutant of Abort: the attempts are not counted.
AbortUncounted(r) ==
  /\ request[r].phase \in {"ABSENT", "INSERTED", "READY"}
  /\ Release(r)
  /\ IF request[r].late THEN Reply(r, "ERROR") ELSE Go(r, "START") /\ UNCHANGED answer
  /\ UNCHANGED <<record, asked, effects, recovered>>

\* A deadlock, a lock wait timeout or a write conflict; the transaction is tried
\* again, at most MaxAttempts times and not past the deadline.
Abort(r) ==
  /\ request[r].phase \in {"ABSENT", "INSERTED", "READY"}
  /\ Release(r)
  /\ IF request[r].attempt < MaxAttempts /\ ~ request[r].late
     THEN /\ request' = [request EXCEPT ![r].phase = "START", ![r].attempt = @ + 1]
          /\ UNCHANGED answer
     ELSE Reply(r, "ERROR")
  /\ UNCHANGED <<record, asked, effects, recovered>>

Commit(r) ==
  /\ request[r].phase = "READY"
  /\ holder' = Nobody
  /\ IF request[r].mode = "WORK"
     THEN /\ record' = [kind |-> "SUCCEEDED", fingerprint |-> asked[r]]
          /\ effects' = effects + 1
     ELSE /\ record' = [kind |-> "REJECTED", fingerprint |-> asked[r]]
          /\ UNCHANGED effects
  /\ Go(r, "COMMITTED")
  /\ UNCHANGED <<asked, answer, recovered>>

\* The acknowledgement of the commit is lost, or comes too late.
Return(r) ==
  /\ request[r].phase = "COMMITTED"
  /\ Resolve(r) \/ Reply(r, "ERROR")
  /\ UNCHANGED <<record, holder, asked, effects, recovered>>

-----------------------------------------------------------------------------
(* Deadlines, crashes and recovery.                                        *)

Active(r) == request[r].phase \notin {"NEW", "ANSWERED", "LOST"}

\* The deadline passes, or the client disconnects.
Expire(r) ==
  /\ Active(r)
  /\ ~ request[r].late
  /\ request' = [request EXCEPT ![r].late = TRUE]
  /\ UNCHANGED <<record, holder, asked, answer, effects, recovered>>

\* The process dies; the database notices later.
Crash(r) ==
  /\ Active(r)
  /\ holder' = IF holder = r THEN Orphan ELSE holder
  /\ request' = [request EXCEPT ![r] = Over("LOST")]
  /\ UNCHANGED <<record, asked, answer, effects, recovered>>

RollBackOrphan ==
  /\ holder = Orphan
  /\ holder' = Nobody
  /\ UNCHANGED <<record, asked, answer, request, effects, recovered>>

\* Mutant of Recover: a key without a record is taken for a failed checkout.
RecoverAbsent ==
  /\ recovered' = recovered \cup
       {IF record # Undecided /\ record.kind = "SUCCEEDED" THEN "CONFIRMED" ELSE "REJECTED"}
  /\ UNCHANGED <<record, holder, asked, answer, request, effects>>

\* PosRecoveryService.recover; while the key is undecided it answers UNKNOWN.
Recover ==
  /\ record # Undecided
  /\ recovered' = recovered \cup
       {IF record.kind = "SUCCEEDED" THEN "CONFIRMED" ELSE "REJECTED"}
  /\ UNCHANGED <<record, holder, asked, answer, request, effects>>

-----------------------------------------------------------------------------
Init ==
  /\ record = Undecided
  /\ holder = Nobody
  /\ asked = [r \in Requests |-> Nothing]
  /\ answer = [r \in Requests |-> Nothing]
  /\ request = [r \in Requests |-> Over("NEW")]
  /\ effects = 0
  /\ recovered = {}

\* What a running request does next; aborts and crashes are nobody's duty.
Progress(r) ==
  \/ Begin(r) \/ Insert(r) \/ UniqueConflict(r) \/ Reread(r)
  \/ WorkSucceeds(r) \/ WorkFails(r) \/ WorkConflicts(r) \/ WorkRejected(r)
  \/ Commit(r) \/ Return(r)

Next ==
  \/ \E r \in Requests :
       \/ \E f \in Fingerprints : Arrive(r, f)
       \/ Progress(r) \/ Abort(r) \/ Expire(r) \/ Crash(r)
  \/ RollBackOrphan
  \/ Recover

\* A transaction ends, by its timeout at the latest, and the database rolls
\* back the transaction of a lost connection.
Fairness == WF_vars(RollBackOrphan) /\ \A r \in Requests : WF_vars(Progress(r) \/ Abort(r))

Spec == Init /\ [][Next]_vars /\ Fairness

-----------------------------------------------------------------------------
(* What the component promises.                                            *)

(***************************************************************************)
(* The type of every variable: the columns of idempotency_records and the  *)
(* local variables of execute.                                             *)
(***************************************************************************)
TypeOK ==
  /\ record \in Outcomes \cup {Undecided}
  /\ holder \in Requests \cup {Nobody, Orphan}
  /\ asked \in [Requests -> Fingerprints \cup {Nothing}]
  /\ answer \in [Requests -> Answers \cup {Nothing}]
  /\ request \in [Requests -> RequestType]
  /\ effects \in Nat
  /\ recovered \subseteq {"CONFIRMED", "REJECTED"}

(***************************************************************************)
(* The work of the command is committed once when the key says success,    *)
(* and never when it says anything else: no retry, duplicate or crash does *)
(* it twice, and no rejection is recorded of work that was done.           *)
(***************************************************************************)
DoneOnceIffSucceeded ==
  effects = (IF record # Undecided /\ record.kind = "SUCCEEDED" THEN 1 ELSE 0)

(***************************************************************************)
(* What recovery has confirmed or rejected is the truth and stays it: once *)
(* it says rejected, none of the requests still under way can commit the   *)
(* work or be answered success, so the cashier may sell again.             *)
(***************************************************************************)
RecoveryIsProof ==
  /\ "REJECTED" \in recovered =>
       /\ effects = 0 /\ "CONFIRMED" \notin recovered
       /\ \A r \in Requests : answer[r] # "SUCCEEDED"
  /\ "CONFIRMED" \in recovered =>
       /\ effects = 1
       /\ \A r \in Requests : answer[r] # "REJECTED"

\* What the key promises to those who carry it.
Promise == INSTANCE CommandOnce

(***************************************************************************)
(* The executor implements that promise: the key is decided once, and what *)
(* is answered follows from it, whoever wins the race.                     *)
(***************************************************************************)
KeepsPromise == Promise!Spec

(***************************************************************************)
(* Every request is answered, unless its process dies: no request waits    *)
(* for the key for ever, and none retries for ever.                        *)
(***************************************************************************)
EventuallyAnswered ==
  \A r \in Requests :
    request[r].phase = "START" ~> request[r].phase \in {"ANSWERED", "LOST"}
=============================================================================
