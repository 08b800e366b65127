---------------------------- MODULE OutboxWorker ----------------------------
(***************************************************************************)
(* The transactional outbox: events appended with the command they tell    *)
(* of, and the workers (one per process of the API) that claim them under  *)
(* a lease, hand them to a handler, and mark them processed, retried or    *)
(* failed.                                                                 *)
(*                                                                         *)
(* Sources: outbox/outbox.ts, outbox/outbox-worker.ts and server.ts under  *)
(* apps/api/src.                                                           *)
(*                                                                         *)
(* Each statement on outbox_events is an action of its own: a worker       *)
(* selects a candidate, claims it with a compare-and-set, and finishes it  *)
(* with another, and anything happens in between.  Time is what is left or *)
(* has passed, in units of the handler timeout's granularity: Tick waits   *)
(* for a worker whose next statement is due, unless the worker is stalled  *)
(* (a paused process, a slow statement).  A crash, a stall, a stop and an  *)
(* answer lost by the database are faults, of which there are at most      *)
(* MaxFaults.  An error of the database in a cycle is a Crash followed by  *)
(* a Restart, for both lose the claim and nothing else.                    *)
(*                                                                         *)
(* A worker has at most one claim, and its newest one on an event replaces *)
(* the older token, so the lock token is the name of the worker.  The      *)
(* processes' clocks are taken to agree.                                   *)
(***************************************************************************)
EXTENDS Integers, FiniteSets, FiniteSetsExt

CONSTANTS
  Events, Workers,
  Lease,         \* leaseMs
  Timeout,       \* handlerTimeoutMs
  MaxBackoff,    \* MAX_BACKOFF_MS; the base backoff is one unit
  BatchSize,
  MaxAttempts,   \* OUTBOX_MAX_ATTEMPTS
  MaxFaults,     \* bound on the faults
  MaxStall       \* bound on the time from selecting a candidate to claiming it

\* config.ts refuses a lease that is not longer than the handler timeout.
ASSUME OutboxAssumption ==
  /\ Timeout \in Nat \ {0} /\ Lease \in Nat /\ Lease > Timeout
  /\ MaxBackoff \in Nat \ {0} /\ BatchSize \in Nat \ {0} /\ MaxAttempts \in Nat \ {0}
  /\ MaxFaults \in Nat /\ MaxStall \in Nat

VARIABLES
  row,         \* outbox_events
  worker,      \* the local state of each worker's loop
  attempted,   \* attemptedIds of each worker's batch
  delivered,   \* the events some handler has dealt with
  faults

vars == <<row, worker, attempted, delivered, faults>>

NoEvent == "NO_EVENT"
NoToken == "NO_TOKEN"
RowStatus == {"NONE", "PENDING", "PROCESSING", "PROCESSED", "FAILED", "DELETED"}
Phase == {"IDLE", "SELECTED", "HANDLING", "COMPLETING", "FAILING", "DOWN"}

\* available is the time until availableAt, negative when past; locked the
\* time since lockedAt.  Both stop where no comparison can tell any more.
RowType == [status : RowStatus, available : -MaxStall .. MaxBackoff,
            locked : 0 .. Lease + MaxStall, token : Workers \cup {NoToken}, attempts : Nat]

\* age is the time since claimedAt, timer what is left of the handler timeout.
WorkerType == [phase : Phase, event : Events \cup {NoEvent}, attempt : Nat,
               age : 0 .. MaxStall, timer : 0 .. Timeout, collisions : 0 .. 2,
               permanent : BOOLEAN, stopping : BOOLEAN, stalled : BOOLEAN, late : BOOLEAN]

\* A worker between two batches with nothing left of the last one.
Idle == [phase |-> "IDLE", event |-> NoEvent, attempt |-> 0, age |-> 0, timer |-> 0,
         collisions |-> 0, permanent |-> FALSE, stopping |-> FALSE,
         stalled |-> FALSE, late |-> FALSE]

-----------------------------------------------------------------------------
\* PrismaOutboxAppender.append, in the transaction of the command.
Append(e) ==
  /\ row[e].status = "NONE"
  /\ row' = [row EXCEPT ![e].status = "PENDING"]
  /\ UNCHANGED <<worker, attempted, delivered, faults>>

\* Mutant of Claimable: any event being processed may be taken over.
ClaimableAtOnce(w, e, age) ==
  /\ e \notin attempted[w]
  /\ row[e].available <= 0 - age
  /\ row[e].status \in {"PENDING", "PROCESSING"}

\* Mutant of Claimable: expired leases are not recovered.
ClaimablePending(w, e, age) ==
  /\ e \notin attempted[w]
  /\ row[e].available <= 0 - age
  /\ row[e].status = "PENDING"

\* The where clause of claimOne, for a worker that read its clock age ago.
Claimable(w, e, age) ==
  /\ e \notin attempted[w]
  /\ row[e].available <= 0 - age
  /\ \/ row[e].status = "PENDING"
     \/ row[e].status = "PROCESSING" /\ row[e].locked >= Lease + age

At(w, phase) == worker[w].phase = phase /\ ~ worker[w].stalled

Become(w, state) == worker' = [worker EXCEPT ![w] = state]

\* The loop looks at stopRequested between batches only.
InBatch(w) == attempted[w] # {} \/ worker[w].collisions > 0

\* findFirst by availableAt; ties are broken by nobody in particular.
Select(w) ==
  /\ At(w, "IDLE")
  /\ worker[w].stopping => InBatch(w)
  /\ Cardinality(attempted[w]) < BatchSize
  /\ \E e \in Events :
       /\ Claimable(w, e, 0)
       /\ \A f \in Events : Claimable(w, f, 0) => row[e].available <= row[f].available
       /\ Become(w, [worker[w] EXCEPT !.phase = "SELECTED", !.event = e,
                                      !.attempt = row[e].attempts + 1,
                                      !.age = 0, !.late = FALSE])
  /\ UNCHANGED <<row, attempted, delivered, faults>>

\* updateMany with the same where clause.  Without a handler for the type the
\* event fails for good at once.
Claim(w) ==
  LET e == worker[w].event
  IN  /\ At(w, "SELECTED")
      /\ Claimable(w, e, worker[w].age)
      /\ row' = [row EXCEPT ![e].status = "PROCESSING", ![e].token = w,
                            ![e].locked = worker[w].age, ![e].attempts = @ + 1]
      /\ attempted' = [attempted EXCEPT ![w] = @ \cup {e}]
      /\ \/ Become(w, [worker[w] EXCEPT !.phase = "HANDLING", !.timer = Timeout,
                                        !.age = 0, !.collisions = 0])
         \/ Become(w, [worker[w] EXCEPT !.phase = "FAILING", !.permanent = TRUE,
                                        !.age = 0, !.collisions = 0])
      /\ UNCHANGED <<delivered, faults>>

\* Another worker was first; the third collision ends the batch.
Collide(w) ==
  /\ At(w, "SELECTED")
  /\ ~ Claimable(w, worker[w].event, worker[w].age)
  /\ LET last == worker[w].collisions = 2
     IN  /\ Become(w, [Idle EXCEPT !.stopping = worker[w].stopping,
                         !.collisions = IF last THEN 0 ELSE worker[w].collisions + 1])
         /\ attempted' = IF last THEN [attempted EXCEPT ![w] = {}] ELSE attempted
  /\ UNCHANGED <<row, delivered, faults>>

EndBatch(w) ==
  /\ At(w, "IDLE")
  /\ InBatch(w)
  /\ \/ Cardinality(attempted[w]) >= BatchSize
     \/ \A e \in Events : ~ Claimable(w, e, 0)
  /\ attempted' = [attempted EXCEPT ![w] = {}]
  /\ Become(w, [worker[w] EXCEPT !.collisions = 0])
  /\ UNCHANGED <<row, delivered, faults>>

-----------------------------------------------------------------------------
(* Handling a claimed event.                                               *)

\* After stop() has aborted the handler, its answer no longer counts.
HandlerResolves(w) ==
  /\ At(w, "HANDLING")
  /\ delivered' = delivered \cup {worker[w].event}
  /\ \/ Become(w, [worker[w] EXCEPT !.phase = "COMPLETING"])
     \/ /\ worker[w].stopping
        /\ Become(w, [worker[w] EXCEPT !.phase = "FAILING"])
  /\ UNCHANGED <<row, attempted, faults>>

HandlerRejects(w) ==
  /\ At(w, "HANDLING")
  /\ \E permanent \in BOOLEAN :
       Become(w, [worker[w] EXCEPT !.phase = "FAILING", !.permanent = permanent])
  /\ UNCHANGED <<row, attempted, delivered, faults>>

\* Mutant of TimeOut: what the handler answers after its deadline is not awaited,
\* and taken for a success.
TimeOutSilently(w) ==
  /\ At(w, "HANDLING")
  /\ worker[w].timer = 0
  /\ Become(w, [worker[w] EXCEPT !.phase = "COMPLETING"])
  /\ UNCHANGED <<row, attempted, delivered, faults>>

\* The handler may have done its work, and be past cancelling.
TimeOut(w) ==
  /\ At(w, "HANDLING")
  /\ worker[w].timer = 0
  /\ delivered' \in {delivered, delivered \cup {worker[w].event}}
  /\ Become(w, [worker[w] EXCEPT !.phase = "FAILING"])
  /\ UNCHANGED <<row, attempted, faults>>

Done(w) == [Idle EXCEPT !.stopping = worker[w].stopping]

\* Mutant of Owns: the event is found by its id alone.
OwnsById(w) == row[worker[w].event].status # "DELETED"

\* The where clause of the finishing updates.
Owns(w) ==
  /\ row[worker[w].event].status = "PROCESSING"
  /\ row[worker[w].event].token = w

\* The finishing update; without the lease it changes nothing.
Finish(w, status, available) ==
  LET e == worker[w].event
  IN  row' = IF Owns(w)
             THEN [row EXCEPT ![e].status = status, ![e].token = NoToken,
                              ![e].locked = 0, ![e].available = available]
             ELSE row

Complete(w) ==
  /\ At(w, "COMPLETING")
  /\ Finish(w, "PROCESSED", 0)
  /\ Become(w, Done(w))
  /\ UNCHANGED <<attempted, delivered, faults>>

\* The update fails, committed or not, and is caught like an error of the handler.
CompleteLost(w) ==
  /\ At(w, "COMPLETING")
  /\ faults < MaxFaults
  /\ Finish(w, "PROCESSED", 0) \/ UNCHANGED row
  /\ Become(w, [worker[w] EXCEPT !.phase = "FAILING"])
  /\ faults' = faults + 1
  /\ UNCHANGED <<attempted, delivered>>

\* Mutant of Backoffs: the ceiling has no cap.
BackoffsUncapped(attempt) == 1 .. 2 ^ attempt

\* outboxBackoffMs: at least one unit, up to a ceiling that doubles.
Backoffs(attempt) == {b \in 1 .. MaxBackoff : b <= 2 ^ (attempt - 1)}

\* Mutant of FinishFailure: an event is retried once too often.
FinishFailureLate(w) ==
  /\ At(w, "FAILING")
  /\ IF worker[w].permanent \/ worker[w].attempt > MaxAttempts
     THEN Finish(w, "FAILED", 0)
     ELSE \E b \in Backoffs(worker[w].attempt) : Finish(w, "PENDING", b)
  /\ Become(w, Done(w))
  /\ UNCHANGED <<attempted, delivered, faults>>

FinishFailure(w) ==
  /\ At(w, "FAILING")
  /\ IF worker[w].permanent \/ worker[w].attempt >= MaxAttempts
     THEN Finish(w, "FAILED", 0)
     ELSE \E b \in Backoffs(worker[w].attempt) : Finish(w, "PENDING", b)
  /\ Become(w, Done(w))
  /\ UNCHANGED <<attempted, delivered, faults>>

\* cleanupProcessed, after the retention; any process may be the one to do it.
Cleanup(e) ==
  /\ row[e].status = "PROCESSED"
  /\ row' = [row EXCEPT ![e].status = "DELETED"]
  /\ UNCHANGED <<worker, attempted, delivered, faults>>

-----------------------------------------------------------------------------
(* Time and faults.                                                        *)

\* A prompt worker lets no time pass before its next statement.
Prompt(w) ==
  /\ worker[w].phase \notin {"SELECTED", "COMPLETING", "FAILING"}
  /\ worker[w].phase = "HANDLING" => worker[w].timer > 0

Later(r) ==
  [r EXCEPT !.available = IF r.status \in {"PENDING", "PROCESSING"}
                          THEN Max({r.available - 1, 0 - MaxStall}) ELSE r.available,
            !.locked = IF r.status = "PROCESSING"
                       THEN Min({r.locked + 1, Lease + MaxStall}) ELSE r.locked]

Tick ==
  /\ \A w \in Workers :
       IF worker[w].stalled THEN worker[w].age < MaxStall ELSE Prompt(w)
  /\ row' = [e \in Events |-> Later(row[e])]
  /\ worker' = [w \in Workers |->
       [worker[w] EXCEPT !.timer = IF @ > 0 THEN @ - 1 ELSE 0,
                         !.age = IF worker[w].phase = "SELECTED" THEN @ + 1 ELSE @]]
  /\ UNCHANGED <<attempted, delivered, faults>>

Fault(w, state) ==
  /\ faults < MaxFaults
  /\ faults' = faults + 1
  /\ Become(w, state)
  /\ UNCHANGED <<row, delivered>>

Stall(w) ==
  /\ worker[w].phase \in {"SELECTED", "HANDLING", "COMPLETING", "FAILING"}
  /\ ~ worker[w].stalled
  /\ Fault(w, [worker[w] EXCEPT !.stalled = TRUE, !.late = TRUE])
  /\ UNCHANGED attempted

Resume(w) ==
  /\ worker[w].stalled
  /\ Become(w, [worker[w] EXCEPT !.stalled = FALSE])
  /\ UNCHANGED <<row, attempted, delivered, faults>>

Crash(w) ==
  /\ worker[w].phase # "DOWN"
  /\ Fault(w, [Idle EXCEPT !.phase = "DOWN"])
  /\ attempted' = [attempted EXCEPT ![w] = {}]

\* stop(), on SIGTERM.
Stop(w) ==
  /\ worker[w].phase # "DOWN"
  /\ ~ worker[w].stopping /\ ~ worker[w].stalled
  /\ Fault(w, [worker[w] EXCEPT !.stopping = TRUE])
  /\ UNCHANGED attempted

\* The loop ends where it looks at stopRequested.
Exit(w) ==
  /\ At(w, "IDLE")
  /\ worker[w].stopping /\ ~ InBatch(w)
  /\ Become(w, [Idle EXCEPT !.phase = "DOWN"])
  /\ UNCHANGED <<row, attempted, delivered, faults>>

Restart(w) ==
  /\ worker[w].phase = "DOWN"
  /\ Become(w, Idle)
  /\ UNCHANGED <<row, attempted, delivered, faults>>

-----------------------------------------------------------------------------
Init ==
  /\ row = [e \in Events |-> [status |-> "NONE", available |-> 0, locked |-> 0,
                              token |-> NoToken, attempts |-> 0]]
  /\ worker = [w \in Workers |-> Idle]
  /\ attempted = [w \in Workers |-> {}]
  /\ delivered = {}
  /\ faults = 0

\* What a running process does by itself; a handler may never answer.
Progress(w) ==
  \/ Select(w) \/ Claim(w) \/ Collide(w) \/ EndBatch(w)
  \/ TimeOut(w) \/ Complete(w) \/ FinishFailure(w)
  \/ Resume(w) \/ Exit(w) \/ Restart(w)

Next ==
  \/ \E e \in Events : Append(e) \/ Cleanup(e)
  \/ \E w \in Workers :
       \/ Progress(w)
       \/ HandlerResolves(w) \/ HandlerRejects(w) \/ CompleteLost(w)
       \/ Stall(w) \/ Crash(w) \/ Stop(w)
  \/ Tick

\* The event loop runs what is due, time passes, and a process that went down
\* is started again.
Fairness == WF_vars(Tick) /\ \A w \in Workers : WF_vars(Progress(w))

Spec == Init /\ [][Next]_vars /\ Fairness

-----------------------------------------------------------------------------
(* What the component promises.                                            *)

(***************************************************************************)
(* The type of every variable: the columns of outbox_events and the local  *)
(* variables of the worker's loop.                                         *)
(***************************************************************************)
TypeOK ==
  /\ row \in [Events -> RowType]
  /\ worker \in [Workers -> WorkerType]
  /\ attempted \in [Workers -> SUBSET Events]
  /\ delivered \subseteq Events
  /\ faults \in 0 .. MaxFaults

(***************************************************************************)
(* No event is marked processed, and later deleted, that no handler has    *)
(* dealt with: delivery is at least once, whatever crashes, times out or   *)
(* answers late.                                                           *)
(***************************************************************************)
ProcessedWasDelivered ==
  \A e \in Events : row[e].status \in {"PROCESSED", "DELETED"} => e \in delivered

(***************************************************************************)
(* Each fault costs an event at most one attempt more than it is allowed.  *)
(* The attempt a worker counts was read before its claim and is compared   *)
(* after its handler, while others claim, fail and reschedule the event;   *)
(* and an expired lease is taken over whatever the count.                  *)
(***************************************************************************)
AttemptsWithinFaults ==
  \A e \in Events :
    /\ row[e].attempts <= MaxAttempts + faults
    /\ row[e].status = "PENDING" => row[e].attempts < MaxAttempts + faults

(***************************************************************************)
(* A worker loses its lease to another only when it was late with that     *)
(* event: as the lease outlasts the handler timeout, two workers that keep *)
(* time never wait for a handler of one event together.  This is about the *)
(* workers: a handler that ignores the abort of its timeout goes on by     *)
(* itself, and may overlap with the next delivery.                         *)
(***************************************************************************)
LeaseLostOnlyWhenLate ==
  \A w \in Workers :
    worker[w].phase \in {"HANDLING", "COMPLETING"} /\ ~ Owns(w) => worker[w].late

(***************************************************************************)
(* A verdict is final: no worker that lost its lease and answers late      *)
(* retries a processed event, or revives a failed one.                     *)
(***************************************************************************)
VerdictIsFinal ==
  [][\A e \in Events :
       /\ row[e].status = "PROCESSED" => row'[e].status \in {"PROCESSED", "DELETED"}
       /\ row[e].status = "FAILED" => row'[e].status = "FAILED"]_vars

(***************************************************************************)
(* Every event appended is eventually processed or, its attempts used up,  *)
(* kept as failed, although handlers may hang and workers crash, stall and *)
(* stop with the event in hand.                                            *)
(***************************************************************************)
EventuallyDecided ==
  \A e \in Events :
    row[e].status = "PENDING" ~> row[e].status \in {"PROCESSED", "FAILED", "DELETED"}

(***************************************************************************)
(* An event is attempted at most OUTBOX_MAX_ATTEMPTS times, as             *)
(* docs/production-operations.md says; claimOne takes over an expired      *)
(* lease without looking at the count.                                     *)
(***************************************************************************)
AttemptsBounded == \A e \in Events : row[e].attempts <= MaxAttempts
=============================================================================
