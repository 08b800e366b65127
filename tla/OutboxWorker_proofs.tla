------------------------ MODULE OutboxWorker_proofs ------------------------
(***************************************************************************)
(* Theorems about OutboxWorker, for any number of events and workers and   *)
(* any lease, timeout and number of faults within OutboxAssumption.        *)
(***************************************************************************)
EXTENDS OutboxWorker, FiniteSetTheorems, TLAPS

Busy == {"SELECTED", "HANDLING", "COMPLETING", "FAILING"}

\* A worker past its selection has an event in hand.
HoldsEvent == \A w \in Workers : worker[w].phase \in Busy => worker[w].event \in Events

\* What a worker is about to mark processed has been dealt with.
CompletingDelivered ==
  \A w \in Workers : worker[w].phase = "COMPLETING" => worker[w].event \in delivered

\* A worker that is not late claims what it has just selected, and the time
\* since its claim and what is left of its handler's timeout make up the timeout.
OnTime ==
  \A w \in Workers : ~ worker[w].late =>
    /\ ~ worker[w].stalled
    /\ worker[w].phase = "SELECTED" => worker[w].age = 0
    /\ worker[w].phase \in {"HANDLING", "COMPLETING"} =>
         /\ Owns(w)
         /\ row[worker[w].event].locked + worker[w].timer <= Timeout

IInv == TypeOK /\ HoldsEvent /\ ProcessedWasDelivered /\ CompletingDelivered /\ OnTime

-----------------------------------------------------------------------------
(* Operators.                                                              *)

LEMMA MaxOfTwo ==
  ASSUME NEW a \in Int, NEW b \in Int
  PROVE  Max({a, b}) = IF a >= b THEN a ELSE b
<1> DEFINE m == IF a >= b THEN a ELSE b
<1>1. m \in {a, b} /\ \A y \in {a, b} : m >= y
  OBVIOUS
<1>2. \A x \in {a, b} : (\A y \in {a, b} : x >= y) => x = m
  OBVIOUS
<1> HIDE DEF m
<1>3. (CHOOSE x \in {a, b} : \A y \in {a, b} : x >= y) = m
  BY <1>1, <1>2
<1> QED BY <1>3 DEF Max, m

LEMMA MinOfTwo ==
  ASSUME NEW a \in Int, NEW b \in Int
  PROVE  Min({a, b}) = IF a <= b THEN a ELSE b
<1> DEFINE m == IF a <= b THEN a ELSE b
<1>1. m \in {a, b} /\ \A y \in {a, b} : m <= y
  OBVIOUS
<1>2. \A x \in {a, b} : (\A y \in {a, b} : x <= y) => x = m
  OBVIOUS
<1> HIDE DEF m
<1>3. (CHOOSE x \in {a, b} : \A y \in {a, b} : x <= y) = m
  BY <1>1, <1>2
<1> QED BY <1>3 DEF Min, m

\* A tick keeps a row's type and status, and ages a lease by one unit at most.
LEMMA LaterRow ==
  ASSUME OutboxAssumption, NEW r \in RowType
  PROVE  /\ Later(r) \in RowType
         /\ Later(r).status = r.status /\ Later(r).token = r.token
         /\ Later(r).locked <= r.locked + 1
<1>1. /\ r.available \in Int /\ r.locked \in Int /\ Lease \in Nat /\ MaxStall \in Nat
      /\ r.available <= MaxBackoff /\ 0 - MaxStall <= r.available
      /\ 0 <= r.locked /\ r.locked <= Lease + MaxStall /\ MaxBackoff \in Nat
  BY DEF OutboxAssumption, RowType
<1>2. Max({r.available - 1, 0 - MaxStall}) \in -MaxStall .. MaxBackoff
  <2>1. r.available - 1 \in Int /\ 0 - MaxStall \in Int
    BY <1>1
  <2> QED BY <1>1, <2>1, MaxOfTwo
<1>3. /\ Min({r.locked + 1, Lease + MaxStall}) \in 0 .. Lease + MaxStall
      /\ Min({r.locked + 1, Lease + MaxStall}) <= r.locked + 1
  <2>1. r.locked + 1 \in Int /\ Lease + MaxStall \in Int
    BY <1>1
  <2> QED BY <1>1, <2>1, MinOfTwo
<1> DEFINE a == Max({r.available - 1, 0 - MaxStall})
           l == Min({r.locked + 1, Lease + MaxStall})
<1>4. /\ a \in -MaxStall .. MaxBackoff /\ l \in 0 .. Lease + MaxStall /\ l <= r.locked + 1
  BY <1>2, <1>3
<1>5. Later(r) = [r EXCEPT
        !.available = IF r.status \in {"PENDING", "PROCESSING"} THEN a ELSE r.available,
        !.locked = IF r.status = "PROCESSING" THEN l ELSE r.locked]
  BY DEF Later
<1> HIDE DEF a, l
<1>6. Later(r) \in RowType
  BY <1>1, <1>4, <1>5 DEF RowType
<1>7. Later(r).status = r.status /\ Later(r).token = r.token
  BY <1>5 DEF RowType
<1>8. Later(r).locked <= r.locked + 1
  BY <1>1, <1>4, <1>5 DEF RowType
<1> QED BY <1>6, <1>7, <1>8

\* The finishing update keeps the rows' type; it decides an event only when the
\* lease is still held, and touches no other event.
LEMMA FinishRow ==
  ASSUME OutboxAssumption, TypeOK, NEW w \in Workers, worker[w].event \in Events,
         NEW status \in RowStatus, NEW available \in -MaxStall .. MaxBackoff,
         Finish(w, status, available)
  PROVE  /\ row' \in [Events -> RowType]
         /\ ~ Owns(w) => row' = row
         /\ \A e \in Events : e # worker[w].event => row'[e] = row[e]
         /\ Owns(w) => row'[worker[w].event].status = status
<1> DEFINE e == worker[w].event
           r == [row[e] EXCEPT !.status = status, !.token = NoToken,
                               !.locked = 0, !.available = available]
<1>1. row \in [Events -> RowType]
  BY DEF TypeOK
<1>2. r \in RowType /\ r.status = status
  <2>1. row[e] \in RowType
    BY <1>1
  <2>2. 0 \in 0 .. Lease + MaxStall
    BY DEF OutboxAssumption
  <2> HIDE DEF e
  <2> QED BY <2>1, <2>2 DEF RowType
<1>3. row' = IF Owns(w) THEN [row EXCEPT ![e] = r] ELSE row
  <2>1. [row EXCEPT ![e].status = status, ![e].token = NoToken,
                    ![e].locked = 0, ![e].available = available] = [row EXCEPT ![e] = r]
    BY <1>1
  <2> QED BY <2>1 DEF Finish
<1> HIDE DEF r
<1> QED BY <1>1, <1>2, <1>3

-----------------------------------------------------------------------------
(* Types.                                                                  *)

LEMMA TypeInit == ASSUME OutboxAssumption, Init PROVE TypeOK
<1>1. 0 \in -MaxStall .. MaxBackoff /\ 0 \in 0 .. Lease + MaxStall /\ 0 \in 0 .. MaxStall
      /\ 0 \in 0 .. Timeout /\ 0 \in 0 .. MaxFaults
  BY DEF OutboxAssumption
<1>2. row \in [Events -> RowType]
  BY <1>1 DEF Init, RowType, RowStatus
<1>3. Idle \in WorkerType
  BY <1>1 DEF Idle, WorkerType, Phase
<1> QED BY <1>1, <1>2, <1>3 DEF Init, TypeOK

\* Small facts about zero that every step which resets a column needs.
LEMMA Zeros ==
  ASSUME OutboxAssumption
  PROVE  /\ 0 \in -MaxStall .. MaxBackoff /\ 0 \in 0 .. Lease + MaxStall
         /\ 0 \in 0 .. MaxStall /\ 0 \in 0 .. Timeout /\ Timeout \in 0 .. Timeout
         /\ Idle \in WorkerType
BY DEF OutboxAssumption, Idle, WorkerType, Phase

LEMMA IdleVariants ==
  ASSUME OutboxAssumption, TypeOK, NEW w \in Workers
  PROVE  Done(w) \in WorkerType
<1>1. worker[w].stopping \in BOOLEAN
  BY DEF TypeOK, WorkerType
<1> QED BY <1>1, Zeros DEF Done, Idle, WorkerType

\* A worker whose new state has the type leaves the workers with theirs.
LEMMA BecomeType ==
  ASSUME TypeOK, NEW w \in Workers, NEW state \in WorkerType, Become(w, state)
  PROVE  /\ worker' \in [Workers -> WorkerType]
         /\ worker'[w] = state
         /\ \A v \in Workers : v # w => worker'[v] = worker[v]
BY DEF TypeOK, Become

LEMMA TypeSelect ==
  ASSUME OutboxAssumption, TypeOK, HoldsEvent, NEW w \in Workers, Select(w)
  PROVE  TypeOK' /\ HoldsEvent'
<1>1. PICK e \in Events :
        Become(w, [worker[w] EXCEPT !.phase = "SELECTED", !.event = e,
                                    !.attempt = row[e].attempts + 1,
                                    !.age = 0, !.late = FALSE])
  BY DEF Select
<1> DEFINE state == [worker[w] EXCEPT !.phase = "SELECTED", !.event = e,
                                      !.attempt = row[e].attempts + 1,
                                      !.age = 0, !.late = FALSE]
<1>2. worker[w] \in WorkerType /\ row[e].attempts + 1 \in Nat
  BY DEF TypeOK, RowType
<1>3. state \in WorkerType /\ state.event = e
  BY <1>2, Zeros DEF WorkerType, Phase
<1> HIDE DEF state
<1>4. /\ worker' \in [Workers -> WorkerType]
      /\ worker'[w] = state
      /\ \A v \in Workers : v # w => worker'[v] = worker[v]
  BY <1>1, <1>3, BecomeType DEF state
<1> QED BY <1>3, <1>4 DEF Select, TypeOK, HoldsEvent

LEMMA TypeClaim ==
  ASSUME OutboxAssumption, TypeOK, HoldsEvent, NEW w \in Workers, Claim(w)
  PROVE  TypeOK' /\ HoldsEvent'
<1> DEFINE e == worker[w].event
           handling == [worker[w] EXCEPT !.phase = "HANDLING", !.timer = Timeout,
                                         !.age = 0, !.collisions = 0]
           failing == [worker[w] EXCEPT !.phase = "FAILING", !.permanent = TRUE,
                                        !.age = 0, !.collisions = 0]
           r == [row[e] EXCEPT !.status = "PROCESSING", !.token = w,
                               !.locked = worker[w].age, !.attempts = @ + 1]
<1>1. e \in Events /\ worker[w] \in WorkerType /\ worker[w].age \in 0 .. MaxStall
  BY DEF Claim, At, HoldsEvent, Busy, TypeOK, WorkerType
<1>2. handling \in WorkerType /\ failing \in WorkerType
  <2>1. Timeout \in 0 .. Timeout /\ 0 \in 0 .. MaxStall /\ 0 \in 0 .. 2
    BY Zeros
  <2> DEFINE h == [worker[w] EXCEPT !.phase = "HANDLING", !.timer = Timeout, !.age = 0]
             f == [worker[w] EXCEPT !.phase = "FAILING", !.permanent = TRUE, !.age = 0]
  <2>2. h \in WorkerType /\ f \in WorkerType
    BY <1>1, <2>1 DEF WorkerType, Phase
  <2>3. handling = [h EXCEPT !.collisions = 0] /\ failing = [f EXCEPT !.collisions = 0]
    OBVIOUS
  <2> HIDE DEF h, f, handling, failing
  <2>4. handling \in WorkerType
    BY <2>1, <2>2, <2>3 DEF WorkerType
  <2>5. failing \in WorkerType
    BY <2>1, <2>2, <2>3 DEF WorkerType
  <2> QED BY <2>4, <2>5
<1>3. handling.event = e /\ failing.event = e
  BY <1>1 DEF WorkerType
<1>4. row' \in [Events -> RowType]
  <2>1. row[e] \in RowType /\ worker[w].age \in 0 .. Lease + MaxStall
    BY <1>1 DEF TypeOK, OutboxAssumption
  <2>2. row \in [Events -> RowType]
    BY DEF TypeOK
  <2>3. row' = [row EXCEPT ![e] = r]
    <3>1. [row EXCEPT ![e].status = "PROCESSING", ![e].token = w,
                      ![e].locked = worker[w].age, ![e].attempts = @ + 1]
            = [row EXCEPT ![e] = r]
      BY <1>1, <2>2
    <3> QED BY <3>1 DEF Claim
  <2>4. r \in RowType
    <3> HIDE DEF e
    <3>1. row[e].attempts + 1 \in Nat
      BY <2>1 DEF RowType
    <3>2. r = [row[e] EXCEPT !.status = "PROCESSING", !.token = w,
                             !.locked = worker[w].age, !.attempts = row[e].attempts + 1]
      BY <2>1 DEF RowType
    <3> QED BY <2>1, <3>1, <3>2 DEF RowType, RowStatus
  <2> HIDE DEF r, e
  <2> QED BY <2>2, <2>3, <2>4
<1>5. Become(w, handling) \/ Become(w, failing)
  BY DEF Claim
<1> HIDE DEF handling, failing, e
<1>6. PICK state \in {handling, failing} : Become(w, state)
  BY <1>5
<1>7. /\ worker' \in [Workers -> WorkerType]
      /\ worker'[w] = state
      /\ \A v \in Workers : v # w => worker'[v] = worker[v]
  BY <1>2, <1>6, BecomeType
<1>8. HoldsEvent'
  BY <1>1, <1>3, <1>6, <1>7 DEF HoldsEvent
<1>9. attempted' = [attempted EXCEPT ![w] = @ \cup {e}]
  BY DEF Claim, e
<1>10. attempted' \in [Workers -> SUBSET Events]
  BY <1>1, <1>9 DEF TypeOK
<1>11. delivered' = delivered /\ faults' = faults
  BY DEF Claim
<1>12. TypeOK'
  BY <1>4, <1>7, <1>10, <1>11 DEF TypeOK
<1> QED BY <1>8, <1>12

\* The steps of a worker that leave the row alone.
LEMMA TypeOfMove ==
  ASSUME TypeOK, HoldsEvent, NEW w \in Workers, NEW state \in WorkerType, Become(w, state),
         state.phase \in Busy => state.event \in Events,
         row' \in [Events -> RowType], attempted' \in [Workers -> SUBSET Events],
         delivered' \in SUBSET Events, faults' \in 0 .. MaxFaults
  PROVE  TypeOK' /\ HoldsEvent'
BY BecomeType DEF TypeOK, HoldsEvent

LEMMA TypeCollide ==
  ASSUME OutboxAssumption, TypeOK, HoldsEvent, NEW w \in Workers, Collide(w)
  PROVE  TypeOK' /\ HoldsEvent'
<1> DEFINE state == [Idle EXCEPT !.stopping = worker[w].stopping,
                      !.collisions = IF worker[w].collisions = 2 THEN 0
                                     ELSE worker[w].collisions + 1]
<1>1. worker[w].stopping \in BOOLEAN /\ worker[w].collisions \in 0 .. 2
  BY DEF TypeOK, WorkerType
<1>2. state \in WorkerType /\ state.phase \notin Busy
  <2> DEFINE n == IF worker[w].collisions = 2 THEN 0 ELSE worker[w].collisions + 1
  <2>1. n \in 0 .. 2
    BY <1>1
  <2> HIDE DEF n
  <2>2. Idle \in WorkerType /\ Idle.phase = "IDLE"
    BY Zeros DEF Idle
  <2>3. state = [Idle EXCEPT !.stopping = worker[w].stopping, !.collisions = n]
    BY DEF n
  <2> QED BY <1>1, <2>1, <2>2, <2>3 DEF WorkerType, Busy
<1>3. Become(w, state)
  BY DEF Collide
<1>4. attempted' \in [Workers -> SUBSET Events]
  BY DEF Collide, TypeOK
<1> HIDE DEF state
<1> QED BY <1>2, <1>3, <1>4, TypeOfMove DEF Collide, TypeOK

LEMMA TypeEndBatch ==
  ASSUME OutboxAssumption, TypeOK, HoldsEvent, NEW w \in Workers, EndBatch(w)
  PROVE  TypeOK' /\ HoldsEvent'
<1> DEFINE state == [worker[w] EXCEPT !.collisions = 0]
<1>1. state \in WorkerType /\ state.phase \notin Busy
  BY DEF EndBatch, At, TypeOK, WorkerType, Busy
<1>2. Become(w, state)
  BY DEF EndBatch
<1>3. attempted' \in [Workers -> SUBSET Events]
  BY DEF EndBatch, TypeOK
<1> HIDE DEF state
<1> QED BY <1>1, <1>2, <1>3, TypeOfMove DEF EndBatch, TypeOK

\* A worker that goes on with the event it has.
LEMMA TypeGoesOn ==
  ASSUME OutboxAssumption, TypeOK, HoldsEvent, NEW w \in Workers,
         worker[w].phase \in Busy,
         NEW phase \in Phase, NEW permanent \in BOOLEAN,
         Become(w, [worker[w] EXCEPT !.phase = phase])
           \/ Become(w, [worker[w] EXCEPT !.phase = phase, !.permanent = permanent]),
         row' \in [Events -> RowType], attempted' = attempted,
         delivered' \in SUBSET Events, faults' \in 0 .. MaxFaults
  PROVE  TypeOK' /\ HoldsEvent'
<1> DEFINE s == [worker[w] EXCEPT !.phase = phase]
           t == [worker[w] EXCEPT !.phase = phase, !.permanent = permanent]
<1>1. worker[w] \in WorkerType /\ worker[w].event \in Events
  BY DEF TypeOK, HoldsEvent
<1>2. s \in WorkerType /\ t \in WorkerType
  BY <1>1 DEF WorkerType
<1>3. s.event \in Events /\ t.event \in Events
  BY <1>1 DEF WorkerType
<1> HIDE DEF s, t
<1>4. PICK state \in {s, t} : Become(w, state)
  BY DEF s, t
<1> QED BY <1>2, <1>3, <1>4, TypeOfMove DEF TypeOK

LEMMA TypeHandler ==
  ASSUME OutboxAssumption, TypeOK, HoldsEvent, NEW w \in Workers,
         HandlerResolves(w) \/ HandlerRejects(w) \/ TimeOut(w)
  PROVE  TypeOK' /\ HoldsEvent'
<1>1. worker[w].phase \in Busy /\ worker[w].event \in Events
  BY DEF HandlerResolves, HandlerRejects, TimeOut, At, Busy, HoldsEvent
<1>2. /\ row' \in [Events -> RowType] /\ attempted' = attempted
      /\ delivered' \in SUBSET Events /\ faults' \in 0 .. MaxFaults
  BY <1>1 DEF HandlerResolves, HandlerRejects, TimeOut, TypeOK
<1>3. "COMPLETING" \in Phase /\ "FAILING" \in Phase
  BY DEF Phase
<1>4. CASE HandlerResolves(w)
  <2>1. CASE Become(w, [worker[w] EXCEPT !.phase = "COMPLETING"])
    BY <1>1, <1>2, <1>3, <2>1, TypeGoesOn
  <2>2. CASE Become(w, [worker[w] EXCEPT !.phase = "FAILING"])
    BY <1>1, <1>2, <1>3, <2>2, TypeGoesOn
  <2> QED BY <1>4, <2>1, <2>2 DEF HandlerResolves
<1>5. CASE HandlerRejects(w)
  <2>1. PICK permanent \in BOOLEAN :
          Become(w, [worker[w] EXCEPT !.phase = "FAILING", !.permanent = permanent])
    BY <1>5 DEF HandlerRejects
  <2> QED BY <1>1, <1>2, <1>3, <2>1, TypeGoesOn
<1>6. CASE TimeOut(w)
  <2>1. Become(w, [worker[w] EXCEPT !.phase = "FAILING"])
    BY <1>6 DEF TimeOut
  <2> QED BY <1>1, <1>2, <1>3, <2>1, TypeGoesOn
<1> QED BY <1>4, <1>5, <1>6

\* What a worker in one of these phases writes with its finishing update.
LEMMA Finishes ==
  ASSUME OutboxAssumption, TypeOK, HoldsEvent, NEW w \in Workers,
         Complete(w) \/ CompleteLost(w) \/ FinishFailure(w)
  PROVE  /\ worker[w].phase \in {"COMPLETING", "FAILING"} /\ worker[w].event \in Events
         /\ row' \in [Events -> RowType]
         /\ \/ row' = row
            \/ /\ Owns(w)
               /\ \A e \in Events : e # worker[w].event => row'[e] = row[e]
               /\ \/ /\ worker[w].phase = "COMPLETING"
                     /\ row'[worker[w].event].status = "PROCESSED"
                  \/ row'[worker[w].event].status \in {"PENDING", "FAILED"}
<1>1. worker[w].phase \in {"COMPLETING", "FAILING"} /\ worker[w].event \in Events
  BY DEF Complete, CompleteLost, FinishFailure, At, HoldsEvent, Busy
<1>2. row \in [Events -> RowType] /\ 0 \in -MaxStall .. MaxBackoff
  BY Zeros DEF TypeOK
<1>3. {"PROCESSED", "FAILED", "PENDING"} \subseteq RowStatus
  BY DEF RowStatus
<1>4. CASE Finish(w, "PROCESSED", 0) /\ worker[w].phase = "COMPLETING"
  <2>1. /\ row' \in [Events -> RowType]
        /\ ~ Owns(w) => row' = row
        /\ \A e \in Events : e # worker[w].event => row'[e] = row[e]
        /\ Owns(w) => row'[worker[w].event].status = "PROCESSED"
    BY <1>1, <1>2, <1>3, <1>4, FinishRow
  <2> QED BY <1>1, <1>4, <2>1
<1>5. CASE UNCHANGED row
  BY <1>1, <1>2, <1>5
<1>6. CASE \E status \in {"FAILED", "PENDING"} : \E b \in -MaxStall .. MaxBackoff :
             Finish(w, status, b)
  <2>1. PICK status \in {"FAILED", "PENDING"}, b \in -MaxStall .. MaxBackoff :
               Finish(w, status, b)
    BY <1>6
  <2>2. /\ row' \in [Events -> RowType]
        /\ ~ Owns(w) => row' = row
        /\ \A e \in Events : e # worker[w].event => row'[e] = row[e]
        /\ Owns(w) => row'[worker[w].event].status = status
    BY <1>1, <1>2, <1>3, <2>1, FinishRow
  <2> QED BY <1>1, <2>2
<1>7. CASE FinishFailure(w)
  <2>1. \A n \in Nat : Backoffs(n) \subseteq -MaxStall .. MaxBackoff
    BY DEF Backoffs, OutboxAssumption
  <2>2. worker[w].attempt \in Nat
    BY DEF TypeOK, WorkerType
  <2>3. \E status \in {"FAILED", "PENDING"} : \E b \in -MaxStall .. MaxBackoff :
             Finish(w, status, b)
    <3>1. CASE Finish(w, "FAILED", 0)
      BY <1>2, <3>1
    <3>2. CASE \E b \in Backoffs(worker[w].attempt) : Finish(w, "PENDING", b)
      BY <2>1, <2>2, <3>2
    <3> QED BY <1>7, <3>1, <3>2 DEF FinishFailure
  <2> QED BY <1>6, <2>3
<1>8. CASE Complete(w)
  BY <1>4, <1>8 DEF Complete, At
<1>9. CASE CompleteLost(w)
  BY <1>4, <1>5, <1>9 DEF CompleteLost, At
<1> QED BY <1>7, <1>8, <1>9

LEMMA TypeFinish ==
  ASSUME OutboxAssumption, TypeOK, HoldsEvent, NEW w \in Workers,
         Complete(w) \/ CompleteLost(w) \/ FinishFailure(w)
  PROVE  TypeOK' /\ HoldsEvent'
<1>1. row' \in [Events -> RowType] /\ worker[w].phase \in Busy
  BY Finishes DEF Busy
<1>2. attempted' = attempted /\ attempted' \in [Workers -> SUBSET Events]
  BY DEF Complete, CompleteLost, FinishFailure, TypeOK
<1>3. delivered' \in SUBSET Events /\ faults' \in 0 .. MaxFaults
  BY DEF Complete, CompleteLost, FinishFailure, TypeOK, OutboxAssumption
<1>4. CASE Become(w, Done(w))
  <2>1. Done(w) \in WorkerType /\ Done(w).phase \notin Busy
    BY IdleVariants DEF Done, Idle, Busy
  <2> QED BY <1>1, <1>2, <1>3, <1>4, <2>1, TypeOfMove
<1>5. CASE Become(w, [worker[w] EXCEPT !.phase = "FAILING"])
  <2>1. "FAILING" \in Phase /\ TRUE \in BOOLEAN
    BY DEF Phase
  <2> QED BY <1>1, <1>2, <1>3, <1>5, <2>1, TypeGoesOn
<1> QED BY <1>4, <1>5 DEF Complete, CompleteLost, FinishFailure

LEMMA TypeOfRows ==
  ASSUME OutboxAssumption, TypeOK, HoldsEvent, NEW e \in Events, Append(e) \/ Cleanup(e)
  PROVE  TypeOK' /\ HoldsEvent'
<1>1. row[e] \in RowType
  BY DEF TypeOK
<1>2. \A s \in RowStatus : [row[e] EXCEPT !.status = s] \in RowType
  BY <1>1 DEF RowType
<1>3. PICK s \in RowStatus : row' = [row EXCEPT ![e].status = s]
  BY DEF Append, Cleanup, RowStatus
<1>4. row' \in [Events -> RowType]
  BY <1>2, <1>3 DEF TypeOK
<1> QED BY <1>4 DEF Append, Cleanup, TypeOK, HoldsEvent

LEMMA TypeTick ==
  ASSUME OutboxAssumption, TypeOK, HoldsEvent, Tick
  PROVE  TypeOK' /\ HoldsEvent'
<1>1. row' \in [Events -> RowType]
  BY LaterRow DEF Tick, TypeOK
<1>2. ASSUME NEW w \in Workers
      PROVE  /\ worker'[w] \in WorkerType
             /\ worker'[w].phase = worker[w].phase /\ worker'[w].event = worker[w].event
  <2> DEFINE t == IF worker[w].timer > 0 THEN worker[w].timer - 1 ELSE 0
             a == IF worker[w].phase = "SELECTED" THEN worker[w].age + 1 ELSE worker[w].age
  <2>1. /\ worker[w] \in WorkerType /\ worker[w].timer \in 0 .. Timeout
        /\ worker[w].age \in 0 .. MaxStall /\ Timeout \in Nat /\ MaxStall \in Nat
    BY DEF TypeOK, WorkerType, OutboxAssumption
  <2>2. IF worker[w].stalled THEN worker[w].age < MaxStall ELSE Prompt(w)
    BY DEF Tick
  <2>3. t \in 0 .. Timeout /\ a \in 0 .. MaxStall
    BY <2>1, <2>2 DEF Prompt
  <2>4. worker'[w] = [worker[w] EXCEPT !.timer = t, !.age = a]
    BY <2>1 DEF Tick, WorkerType
  <2> HIDE DEF t, a
  <2> QED BY <2>1, <2>3, <2>4 DEF WorkerType
<1>3. worker' \in [Workers -> WorkerType]
  BY <1>2 DEF Tick
<1> QED BY <1>1, <1>2, <1>3 DEF Tick, TypeOK, HoldsEvent

LEMMA TypeFault ==
  ASSUME OutboxAssumption, TypeOK, HoldsEvent, NEW w \in Workers,
         Stall(w) \/ Resume(w) \/ Crash(w) \/ Stop(w) \/ Exit(w) \/ Restart(w)
  PROVE  TypeOK' /\ HoldsEvent'
<1>1. worker[w] \in WorkerType /\ Idle \in WorkerType
  BY Zeros DEF TypeOK
<1> DEFINE states == { [worker[w] EXCEPT !.stalled = TRUE, !.late = TRUE],
                       [worker[w] EXCEPT !.stalled = FALSE],
                       [worker[w] EXCEPT !.stopping = TRUE],
                       [Idle EXCEPT !.phase = "DOWN"], Idle }
<1>2. \E state \in states : Become(w, state)
  BY DEF Stall, Resume, Crash, Stop, Exit, Restart, Fault
<1>3. \A state \in states :
        state \in WorkerType /\ (state.phase \in Busy => state.event \in Events)
  <2> DEFINE fits(state) == state \in WorkerType
                              /\ (state.phase \in Busy => state.event \in Events)
  <2>1. worker[w].phase \in Busy => worker[w].event \in Events
    BY DEF HoldsEvent
  <2>2. fits([worker[w] EXCEPT !.stalled = TRUE, !.late = TRUE])
    BY <1>1, <2>1 DEF WorkerType
  <2>3. fits([worker[w] EXCEPT !.stalled = FALSE])
    BY <1>1, <2>1 DEF WorkerType
  <2>4. fits([worker[w] EXCEPT !.stopping = TRUE])
    BY <1>1, <2>1 DEF WorkerType
  <2>5. fits([Idle EXCEPT !.phase = "DOWN"])
    BY <1>1 DEF WorkerType, Phase, Busy
  <2>6. fits(Idle)
    BY <1>1 DEF Idle, Busy
  <2> HIDE DEF fits
  <2>7. \A state \in states : fits(state)
    BY <2>2, <2>3, <2>4, <2>5, <2>6
  <2> QED BY <2>7 DEF fits
<1>5. /\ row' \in [Events -> RowType] /\ attempted' \in [Workers -> SUBSET Events]
      /\ delivered' \in SUBSET Events /\ faults' \in 0 .. MaxFaults
  BY DEF Stall, Resume, Crash, Stop, Exit, Restart, Fault, TypeOK, OutboxAssumption
<1> HIDE DEF states
<1> QED BY <1>2, <1>3, <1>5, TypeOfMove

LEMMA TypeStep ==
  ASSUME OutboxAssumption, TypeOK, HoldsEvent, [Next]_vars
  PROVE  TypeOK' /\ HoldsEvent'
<1>1. CASE UNCHANGED vars
  BY <1>1 DEF vars, TypeOK, HoldsEvent
<1>2. CASE \E e \in Events : Append(e) \/ Cleanup(e)
  BY <1>2, TypeOfRows
<1>3. CASE Tick
  BY <1>3, TypeTick
<1>4. ASSUME NEW w \in Workers, Progress(w) PROVE TypeOK' /\ HoldsEvent'
  BY <1>4, TypeSelect, TypeClaim, TypeCollide, TypeEndBatch, TypeHandler, TypeFinish,
     TypeFault DEF Progress
<1>5. ASSUME NEW w \in Workers,
             \/ HandlerResolves(w) \/ HandlerRejects(w) \/ CompleteLost(w)
             \/ Stall(w) \/ Crash(w) \/ Stop(w)
      PROVE  TypeOK' /\ HoldsEvent'
  BY <1>5, TypeHandler, TypeFinish, TypeFault
<1> QED BY <1>1, <1>2, <1>3, <1>4, <1>5 DEF Next

-----------------------------------------------------------------------------
(* What a step does to the rows.                                           *)

\* The steps that write no row.
Quiet(w) ==
  \/ Select(w) \/ Collide(w) \/ EndBatch(w) \/ Resume(w) \/ Exit(w) \/ Restart(w)
  \/ HandlerResolves(w) \/ HandlerRejects(w) \/ TimeOut(w)
  \/ Stall(w) \/ Crash(w) \/ Stop(w)

LEMMA QuietRows ==
  ASSUME NEW w \in Workers, Quiet(w)
  PROVE  row' = row
BY DEF Quiet, Select, Collide, EndBatch, Resume, Exit, Restart, HandlerResolves,
       HandlerRejects, TimeOut, Stall, Crash, Stop, Fault

\* A claim takes a row that is pending, or whose lease has expired.
LEMMA ClaimRows ==
  ASSUME OutboxAssumption, TypeOK, HoldsEvent, NEW w \in Workers, Claim(w)
  PROVE  LET e == worker[w].event
         IN  /\ e \in Events
             /\ \/ row[e].status = "PENDING"
                \/ row[e].status = "PROCESSING" /\ row[e].locked >= Lease
             /\ row'[e].status = "PROCESSING" /\ row'[e].token = w
             /\ row'[e].locked = worker[w].age
             /\ \A f \in Events : f # e => row'[f] = row[f]
<1> DEFINE e == worker[w].event
<1>1. e \in Events /\ worker[w].age \in 0 .. MaxStall /\ row[e] \in RowType
  BY DEF Claim, At, HoldsEvent, Busy, TypeOK, WorkerType
<1>2. \/ row[e].status = "PENDING"
      \/ row[e].status = "PROCESSING" /\ row[e].locked >= Lease + worker[w].age
  BY DEF Claim, Claimable
<1>3. row[e].locked >= Lease + worker[w].age => row[e].locked >= Lease
  BY <1>1 DEF RowType, OutboxAssumption
<1>4. row' = [row EXCEPT ![e].status = "PROCESSING", ![e].token = w,
                         ![e].locked = worker[w].age, ![e].attempts = @ + 1]
  BY DEF Claim
<1>5. row \in [Events -> RowType]
  BY DEF TypeOK
<1>6. /\ row'[e].status = "PROCESSING" /\ row'[e].token = w
      /\ row'[e].locked = worker[w].age
  BY <1>1, <1>4, <1>5 DEF RowType
<1>7. \A f \in Events : f # e => row'[f] = row[f]
  BY <1>1, <1>4, <1>5
<1> QED BY <1>1, <1>2, <1>3, <1>6, <1>7

LEMMA RowsOfCommand ==
  ASSUME TypeOK, NEW e \in Events, Append(e) \/ Cleanup(e)
  PROVE  /\ \A f \in Events : f # e => row'[f] = row[f]
         /\ \/ row[e].status = "NONE" /\ row'[e].status = "PENDING"
            \/ row[e].status = "PROCESSED" /\ row'[e].status = "DELETED"
BY DEF TypeOK, RowType, Append, Cleanup

LEMMA TickRows ==
  ASSUME OutboxAssumption, TypeOK, Tick
  PROVE  \A e \in Events : /\ row'[e].status = row[e].status /\ row'[e].token = row[e].token
                           /\ row'[e].locked <= row[e].locked + 1
BY LaterRow DEF Tick, TypeOK

\* Every step is one of these.
LEMMA Steps ==
  ASSUME [Next]_vars
  PROVE  \/ UNCHANGED vars \/ Tick
         \/ \E e \in Events : Append(e) \/ Cleanup(e)
         \/ \E w \in Workers : \/ Claim(w) \/ Quiet(w)
                               \/ Complete(w) \/ CompleteLost(w) \/ FinishFailure(w)
BY DEF Next, Progress, Quiet

\* How the status of an event may change.
LEMMA StatusStep ==
  ASSUME OutboxAssumption, TypeOK, HoldsEvent, CompletingDelivered, [Next]_vars,
         NEW e \in Events
  PROVE  \/ row'[e].status = row[e].status
         \/ /\ row[e].status \in {"NONE", "PENDING", "PROCESSING"}
            /\ row'[e].status \in {"PENDING", "PROCESSING", "FAILED"}
         \/ /\ row[e].status = "PROCESSING" /\ row'[e].status = "PROCESSED"
            /\ e \in delivered
         \/ row[e].status = "PROCESSED" /\ row'[e].status = "DELETED"
<1>1. CASE UNCHANGED vars
  BY <1>1 DEF vars
<1>2. CASE Tick
  BY <1>2, TickRows
<1>3. CASE \E f \in Events : Append(f) \/ Cleanup(f)
  BY <1>3, RowsOfCommand
<1>4. ASSUME NEW w \in Workers, Claim(w)
      PROVE  \/ row'[e] = row[e]
             \/ /\ row[e].status \in {"PENDING", "PROCESSING"}
                /\ row'[e].status = "PROCESSING"
  BY <1>4, ClaimRows
<1>5. ASSUME NEW w \in Workers, Quiet(w) PROVE row'[e] = row[e]
  BY <1>5, QuietRows
<1>6. ASSUME NEW w \in Workers, Complete(w) \/ CompleteLost(w) \/ FinishFailure(w)
      PROVE  \/ row'[e] = row[e]
             \/ row[e].status = "PROCESSING" /\ row'[e].status \in {"PENDING", "FAILED"}
             \/ /\ row[e].status = "PROCESSING" /\ row'[e].status = "PROCESSED"
                /\ e \in delivered
  BY <1>6, Finishes DEF Owns, CompletingDelivered
<1> QED BY <1>1, <1>2, <1>3, <1>4, <1>5, <1>6, Steps

-----------------------------------------------------------------------------
(* Delivery.                                                               *)

\* Whoever is about to complete has just resolved its handler, or was so before.
LEMMA CompletingStep ==
  ASSUME OutboxAssumption, TypeOK, HoldsEvent, CompletingDelivered, [Next]_vars
  PROVE  CompletingDelivered' /\ delivered \subseteq delivered'
<1>1. delivered \subseteq delivered'
  BY Steps DEF vars, Tick, Append, Cleanup, Claim, Quiet, Complete, CompleteLost,
     FinishFailure, Select, Collide, EndBatch, Resume, Exit, Restart, HandlerResolves,
     HandlerRejects, TimeOut, Stall, Crash, Stop, Fault
<1>2. ASSUME NEW w \in Workers, worker'[w].phase = "COMPLETING"
      PROVE  worker'[w].event \in delivered'
  <2>1. CASE worker[w].phase = "COMPLETING" /\ worker'[w].event = worker[w].event
    BY <1>1, <2>1 DEF CompletingDelivered
  <2>2. CASE UNCHANGED worker
    BY <1>2, <2>1, <2>2
  <2>3. CASE Tick
    <3>1. worker[w] \in WorkerType
      BY DEF TypeOK
    <3>2. worker'[w].phase = worker[w].phase /\ worker'[w].event = worker[w].event
      BY <2>3, <3>1 DEF Tick, WorkerType
    <3> QED BY <1>2, <2>1, <3>2
  <2>4. CASE \E e \in Events : Append(e) \/ Cleanup(e)
    BY <2>2, <2>4 DEF Append, Cleanup
  <2>5. ASSUME NEW v \in Workers, NEW state, Become(v, state)
        PROVE  worker'[v] = state /\ \A u \in Workers : u # v => worker'[u] = worker[u]
    BY <2>5 DEF Become, TypeOK
  <2>6. ASSUME NEW v \in Workers, NEW state, Become(v, state),
               \/ state.phase # "COMPLETING"
               \/ state.phase = worker[v].phase /\ state.event = worker[v].event
        PROVE  worker'[w].event \in delivered'
    BY <1>2, <2>1, <2>5, <2>6
  <2>7. ASSUME NEW v \in Workers,
               \/ Claim(v) \/ Quiet(v) \/ Complete(v) \/ CompleteLost(v) \/ FinishFailure(v)
        PROVE  worker'[w].event \in delivered'
    <3> DEFINE x == worker[v]
    <3>1. x \in WorkerType
      BY DEF TypeOK
    <3>2. CASE Claim(v)
      BY <2>6, <3>1, <3>2 DEF Claim, WorkerType
    <3>3. CASE Complete(v) \/ CompleteLost(v) \/ FinishFailure(v)
      BY <2>6, <3>1, <3>3 DEF Complete, CompleteLost, FinishFailure, Done, Idle, WorkerType
    <3>4. CASE Quiet(v) /\ ~ HandlerResolves(v)
      BY <2>6, <3>1, <3>4 DEF Quiet, Select, Collide, EndBatch, Resume, Exit, Restart,
         HandlerRejects, TimeOut, Stall, Crash, Stop, Fault, Idle, WorkerType
    <3>5. CASE HandlerResolves(v)
      <4>1. CASE Become(v, [x EXCEPT !.phase = "COMPLETING"])
        <5>1. CASE w = v
          BY <2>5, <3>1, <3>5, <4>1, <5>1 DEF HandlerResolves, WorkerType
        <5>2. CASE w # v
          BY <1>2, <2>1, <2>5, <4>1, <5>2
        <5> QED BY <5>1, <5>2
      <4>2. CASE Become(v, [x EXCEPT !.phase = "FAILING"])
        BY <2>6, <3>1, <4>2 DEF WorkerType
      <4> QED BY <3>5, <4>1, <4>2 DEF HandlerResolves
    <3> QED BY <2>7, <3>2, <3>3, <3>4, <3>5
  <2>8. CASE UNCHANGED vars
    BY <2>2, <2>8 DEF vars
  <2> QED BY <2>3, <2>4, <2>7, <2>8, Steps
<1> QED BY <1>1, <1>2 DEF CompletingDelivered

-----------------------------------------------------------------------------
(* Leases.                                                                 *)

\* What OnTime says of one worker.
Keeps(w) ==
  ~ worker[w].late =>
    /\ ~ worker[w].stalled
    /\ worker[w].phase = "SELECTED" => worker[w].age = 0
    /\ worker[w].phase \in {"HANDLING", "COMPLETING"} =>
         /\ Owns(w)
         /\ row[worker[w].event].locked + worker[w].timer <= Timeout

\* A worker that keeps time holds a lease nobody may take over.
LEMMA LeaseRuns ==
  ASSUME OutboxAssumption, TypeOK, HoldsEvent, NEW w \in Workers, Keeps(w),
         ~ worker[w].late, worker[w].phase \in {"HANDLING", "COMPLETING"}
  PROVE  /\ worker[w].event \in Events
         /\ row[worker[w].event].status = "PROCESSING"
         /\ row[worker[w].event].token = w
         /\ row[worker[w].event].locked < Lease
<1>1. worker[w].event \in Events
  BY DEF HoldsEvent, Busy
<1>2. row[worker[w].event].locked \in Int /\ worker[w].timer \in Nat
  BY <1>1 DEF TypeOK, RowType, WorkerType, OutboxAssumption
<1> QED BY <1>1, <1>2 DEF Keeps, Owns, OutboxAssumption

\* So no step of another writes its row.
LEMMA OthersLeave ==
  ASSUME OutboxAssumption, TypeOK, HoldsEvent, NEW w \in Workers, Keeps(w),
         NEW v \in Workers, v # w, worker'[w] = worker[w],
         \/ Claim(v) \/ Quiet(v) \/ Complete(v) \/ CompleteLost(v) \/ FinishFailure(v)
  PROVE  Keeps(w)'
<1>1. CASE worker[w].late \/ worker[w].phase \notin {"HANDLING", "COMPLETING"}
  BY <1>1 DEF Keeps
<1>2. CASE ~ worker[w].late /\ worker[w].phase \in {"HANDLING", "COMPLETING"}
  <2> DEFINE e == worker[w].event
  <2>1. /\ e \in Events /\ row[e].status = "PROCESSING" /\ row[e].token = w
        /\ row[e].locked < Lease
    BY <1>2, LeaseRuns
  <2>2. row[e].locked \in Int /\ Lease \in Int
    BY <2>1 DEF TypeOK, RowType, OutboxAssumption
  <2>3. row'[e] = row[e]
    <3>1. CASE Claim(v)
      <4>1. e # worker[v].event
        BY <2>1, <2>2, <3>1, ClaimRows
      <4> QED BY <2>1, <3>1, <4>1, ClaimRows
    <3>2. CASE Quiet(v)
      BY <3>2, QuietRows
    <3>3. CASE Complete(v) \/ CompleteLost(v) \/ FinishFailure(v)
      <4>1. Owns(v) => e # worker[v].event
        BY <2>1 DEF Owns
      <4> QED BY <2>1, <3>3, <4>1, Finishes
    <3> QED BY <3>1, <3>2, <3>3
  <2> QED BY <1>2, <2>3 DEF Keeps, Owns
<1> QED BY <1>1, <1>2

LEMMA OwnStep ==
  ASSUME OutboxAssumption, TypeOK, HoldsEvent, NEW w \in Workers, Keeps(w),
         \/ Claim(w) \/ Quiet(w) \/ Complete(w) \/ CompleteLost(w) \/ FinishFailure(w)
  PROVE  Keeps(w)'
<1> DEFINE x == worker[w]
           y == worker'[w]
<1>1. x \in WorkerType
  BY DEF TypeOK
<1>2. ASSUME NEW state, Become(w, state) PROVE worker'[w] = state
  BY <1>2 DEF Become, TypeOK
<1>3. ASSUME y.phase \notin {"SELECTED", "HANDLING", "COMPLETING"},
             ~ y.stalled \/ y.late
      PROVE  Keeps(w)'
  BY <1>3 DEF Keeps
<1>4. CASE Select(w)
  <2>1. /\ y.phase = "SELECTED" /\ y.age = 0 /\ y.stalled = x.stalled
    BY <1>1, <1>2, <1>4 DEF Select, WorkerType
  <2> QED BY <1>4, <2>1 DEF Select, At, Keeps
<1>5. CASE Claim(w)
  <2>1. ~ x.stalled /\ x.phase = "SELECTED"
    BY <1>5 DEF Claim, At
  <2>2. CASE Become(w, [x EXCEPT !.phase = "HANDLING", !.timer = Timeout,
                                 !.age = 0, !.collisions = 0])
    <3>1. /\ y.phase = "HANDLING" /\ y.timer = Timeout /\ y.event = x.event
          /\ y.stalled = x.stalled /\ y.late = x.late
      BY <1>1, <1>2, <2>2 DEF WorkerType
    <3>2. /\ row'[x.event].status = "PROCESSING" /\ row'[x.event].token = w
          /\ row'[x.event].locked = x.age
      BY <1>5, ClaimRows
    <3>3. ~ x.late => x.age = 0
      BY <2>1 DEF Keeps
    <3>4. Timeout \in Nat
      BY DEF OutboxAssumption
    <3> HIDE DEF x, y
    <3> QED BY <2>1, <3>1, <3>2, <3>3, <3>4 DEF Keeps, Owns, x, y
  <2>3. CASE Become(w, [x EXCEPT !.phase = "FAILING", !.permanent = TRUE,
                                 !.age = 0, !.collisions = 0])
    <3>1. y.phase = "FAILING" /\ y.stalled = x.stalled
      BY <1>1, <1>2, <2>3 DEF WorkerType
    <3> QED BY <1>3, <2>1, <3>1
  <2> QED BY <1>5, <2>2, <2>3 DEF Claim
<1>6. CASE HandlerResolves(w)
  <2>1. ~ x.stalled /\ x.phase = "HANDLING"
    BY <1>6 DEF HandlerResolves, At
  <2>2. /\ y.event = x.event /\ y.timer = x.timer /\ y.stalled = x.stalled
        /\ y.late = x.late /\ y.phase \in {"COMPLETING", "FAILING"}
    BY <1>1, <1>2, <1>6 DEF HandlerResolves, WorkerType
  <2>3. row' = row
    BY <1>6 DEF HandlerResolves
  <2> QED BY <2>1, <2>2, <2>3 DEF Keeps, Owns
<1>7. CASE HandlerRejects(w) \/ TimeOut(w) \/ CompleteLost(w)
  <2>1. ~ x.stalled
    BY <1>7 DEF HandlerRejects, TimeOut, CompleteLost, At
  <2>2. y.phase = "FAILING" /\ y.stalled = x.stalled
    BY <1>1, <1>2, <1>7 DEF HandlerRejects, TimeOut, CompleteLost, WorkerType
  <2> QED BY <1>3, <2>1, <2>2
<1>8. CASE Collide(w) \/ EndBatch(w) \/ Exit(w) \/ Restart(w) \/ Crash(w)
             \/ Complete(w) \/ FinishFailure(w)
  <2>1. CASE EndBatch(w)
    <3>1. x.phase = "IDLE" /\ ~ x.stalled
      BY <2>1 DEF EndBatch, At
    <3>2. y.phase = x.phase /\ y.stalled = x.stalled
      BY <1>1, <1>2, <2>1 DEF EndBatch, WorkerType
    <3> QED BY <1>3, <3>1, <3>2
  <2>2. CASE Collide(w)
    <3>1. y.phase = "IDLE" /\ ~ y.stalled
      BY <1>2, <2>2 DEF Collide, Idle
    <3> QED BY <1>3, <3>1
  <2>3. CASE Exit(w) \/ Restart(w) \/ Crash(w) \/ Complete(w) \/ FinishFailure(w)
    <3>1. y.phase \in {"IDLE", "DOWN"} /\ ~ y.stalled
      BY <1>2, <2>3 DEF Exit, Restart, Crash, Fault, Complete, FinishFailure, Done, Idle
    <3> QED BY <1>3, <3>1
  <2> QED BY <1>8, <2>1, <2>2, <2>3
<1>9. CASE Stall(w) \/ Resume(w)
  <2>1. y.late
    <3>1. CASE Stall(w)
      BY <1>1, <1>2, <3>1 DEF Stall, Fault, WorkerType
    <3>2. CASE Resume(w)
      <4>1. x.late = TRUE
        BY <1>1, <3>2 DEF Resume, Keeps, WorkerType
      <4>2. y = [x EXCEPT !.stalled = FALSE]
        BY <1>2, <3>2 DEF Resume
      <4> QED BY <1>1, <4>1, <4>2 DEF WorkerType
    <3> QED BY <1>9, <3>1, <3>2
  <2> QED BY <2>1 DEF Keeps
<1>10. CASE Stop(w)
  <2>1. /\ y.phase = x.phase /\ y.event = x.event /\ y.timer = x.timer /\ y.age = x.age
        /\ y.stalled = x.stalled /\ y.late = x.late
    BY <1>1, <1>2, <1>10 DEF Stop, Fault, WorkerType
  <2>2. row' = row
    BY <1>10 DEF Stop, Fault
  <2> QED BY <2>1, <2>2 DEF Keeps, Owns
<1> QED BY <1>4, <1>5, <1>6, <1>7, <1>8, <1>9, <1>10 DEF Quiet

LEMMA TickKeeps ==
  ASSUME OutboxAssumption, TypeOK, HoldsEvent, NEW w \in Workers, Keeps(w), Tick
  PROVE  Keeps(w)'
<1> DEFINE x == worker[w]
           y == worker'[w]
<1>1. x \in WorkerType /\ x.timer \in Nat /\ x.age \in Nat
  BY DEF TypeOK, WorkerType, OutboxAssumption
<1>2. y = [x EXCEPT !.timer = IF @ > 0 THEN @ - 1 ELSE 0,
                    !.age = IF x.phase = "SELECTED" THEN @ + 1 ELSE @]
  BY DEF Tick
<1>3. /\ y.phase = x.phase /\ y.event = x.event /\ y.stalled = x.stalled /\ y.late = x.late
      /\ y.timer = IF x.timer > 0 THEN x.timer - 1 ELSE 0
  BY <1>1, <1>2 DEF WorkerType
<1>4. CASE x.late
  BY <1>3, <1>4 DEF Keeps
<1>5. CASE ~ x.late
  <2>1. ~ x.stalled /\ x.phase \notin {"SELECTED", "COMPLETING"}
    BY <1>5 DEF Tick, Prompt, Keeps
  <2>2. CASE x.phase # "HANDLING"
    BY <1>3, <2>1, <2>2 DEF Keeps
  <2>3. CASE x.phase = "HANDLING"
    <3> DEFINE e == x.event
    <3>1. x.timer > 0
      BY <1>1, <2>1, <2>3 DEF Tick, Prompt
    <3>2. e \in Events /\ row[e].status = "PROCESSING" /\ row[e].token = w
          /\ row[e].locked + x.timer <= Timeout
      BY <1>5, <2>3 DEF Keeps, Owns, HoldsEvent, Busy
    <3>3. row[e].locked \in Int /\ row'[e].locked \in Int /\ Timeout \in Int
      BY <3>2, TypeTick DEF TypeOK, RowType, OutboxAssumption
    <3>4. /\ row'[e].status = row[e].status /\ row'[e].token = row[e].token
          /\ row'[e].locked <= row[e].locked + 1
      BY <3>2, TickRows
    <3>5. row'[e].locked + y.timer <= Timeout
      BY <1>1, <1>3, <3>1, <3>2, <3>3, <3>4
    <3> HIDE DEF x, y
    <3>6. Owns(w)'
      BY <1>3, <3>2, <3>4 DEF Owns, x, y
    <3> QED BY <1>3, <2>1, <2>3, <3>5, <3>6 DEF Keeps, x, y
  <2> QED BY <2>2, <2>3
<1> QED BY <1>4, <1>5

LEMMA OnTimeStep ==
  ASSUME OutboxAssumption, TypeOK, HoldsEvent, OnTime, [Next]_vars
  PROVE  OnTime'
<1> SUFFICES ASSUME NEW w \in Workers PROVE Keeps(w)'
  BY DEF OnTime, Keeps
<1>1. Keeps(w)
  BY DEF OnTime, Keeps
<1>2. CASE UNCHANGED vars
  BY <1>1, <1>2 DEF vars, Keeps, Owns
<1>3. CASE Tick
  BY <1>1, <1>3, TickKeeps
<1>4. ASSUME NEW e \in Events, Append(e) \/ Cleanup(e)
      PROVE  Keeps(w)'
  <2>1. worker' = worker
    BY <1>4 DEF Append, Cleanup
  <2>2. CASE worker[w].late \/ worker[w].phase \notin {"HANDLING", "COMPLETING"}
    BY <1>1, <2>1, <2>2 DEF Keeps
  <2>3. CASE ~ worker[w].late /\ worker[w].phase \in {"HANDLING", "COMPLETING"}
    <3>1. worker[w].event \in Events /\ row[worker[w].event].status = "PROCESSING"
      BY <1>1, <2>3, LeaseRuns
    <3>2. row'[worker[w].event] = row[worker[w].event]
      BY <1>4, <3>1, RowsOfCommand
    <3> QED BY <1>1, <2>1, <2>3, <3>2 DEF Keeps, Owns
  <2> QED BY <2>2, <2>3
<1>5. ASSUME NEW v \in Workers,
             \/ Claim(v) \/ Quiet(v) \/ Complete(v) \/ CompleteLost(v) \/ FinishFailure(v)
      PROVE  Keeps(w)'
  <2>1. CASE v = w
    BY <1>1, <1>5, <2>1, OwnStep
  <2>2. CASE v # w
    <3>1. \E state : Become(v, state)
      BY <1>5 DEF Claim, Quiet, Complete, CompleteLost, FinishFailure, Select, Collide,
         EndBatch, Resume, Exit, Restart, HandlerResolves, HandlerRejects, TimeOut, Stall,
         Crash, Stop, Fault
    <3>2. worker'[w] = worker[w]
      BY <2>2, <3>1 DEF Become, TypeOK
    <3> QED BY <1>1, <1>5, <2>2, <3>2, OthersLeave
  <2> QED BY <2>1, <2>2
<1> QED BY <1>2, <1>3, <1>4, <1>5, Steps

-----------------------------------------------------------------------------
(* Attempts.                                                               *)

Held == {"HANDLING", "COMPLETING", "FAILING"}

\* What Claimable asks of the row.
Open(r, age) ==
  /\ r.available <= 0 - age
  /\ \/ r.status = "PENDING"
     \/ r.status = "PROCESSING" /\ r.locked >= Lease + age

\* The late workers, and those of them whose claim of an event would succeed: an
\* attempt more that nobody counts.
LateWorkers == {w \in Workers : worker[w].late}
LateOn(e) == {w \in LateWorkers : /\ worker[w].phase = "SELECTED" /\ worker[w].event = e
                                  /\ Claimable(w, e, worker[w].age)}
Waiting(e) == Cardinality(LateOn(e))

\* Somebody holds the event and keeps time, so it will not be taken over.
Kept(e) ==
  \E w \in Workers : /\ worker[w].phase \in Held /\ worker[w].event = e
                     /\ Owns(w) /\ ~ worker[w].late

\* A late worker has cost a fault.
LateFew == IsFiniteSet(LateWorkers) /\ Cardinality(LateWorkers) <= faults

\* A worker's event has been appended.
BusyKnown ==
  \A w \in Workers : worker[w].phase \in Busy => row[worker[w].event].status # "NONE"

\* The lease of a worker that keeps time is younger than the handler timeout,
\* until the worker has finished.
Young ==
  \A w \in Workers :
    worker[w].phase \in Held /\ ~ worker[w].late /\ Owns(w)
      => row[worker[w].event].locked <= Timeout

\* There is room for the attempts of the late workers waiting to claim and, if the
\* event may be claimed or taken over by another, for that one.
CountedAt(e) ==
  /\ row[e].status = "NONE" => row[e].attempts = 0
  /\ row[e].attempts <= MaxAttempts + faults
  /\ row[e].status = "PENDING" => row[e].attempts + Waiting(e) < MaxAttempts + faults
  /\ row[e].status = "PROCESSING" =>
       /\ row[e].attempts + Waiting(e) <= MaxAttempts + faults
       /\ Kept(e) \/ row[e].attempts + Waiting(e) < MaxAttempts + faults

\* What a worker takes for the number of its attempt is too low by a fault for
\* each attempt it does not know of.
FreshAt(w) ==
  LET e == worker[w].event
  IN  /\ worker[w].phase = "SELECTED" /\ Claimable(w, e, worker[w].age) =>
           row[e].attempts + 1 + Waiting(e) <= worker[w].attempt + faults
      /\ worker[w].phase \in Held /\ Owns(w) =>
           row[e].attempts <= worker[w].attempt + faults

Counted == \A e \in Events : CountedAt(e)
Fresh == \A w \in Workers : FreshAt(w)

CountInv == LateFew /\ BusyKnown /\ Young /\ Counted /\ Fresh

\* A worker goes on with what it has, or lets go of it.
GoesOn(w) ==
  /\ worker'[w].event = worker[w].event /\ worker'[w].attempt = worker[w].attempt
  /\ worker'[w].age = worker[w].age
  /\ \/ worker'[w].phase = worker[w].phase
     \/ {worker[w].phase, worker'[w].phase} \subseteq Held
  /\ attempted' = attempted

LetsGo(w) ==
  /\ worker'[w].phase \notin Busy
  /\ worker'[w].late => worker[w].late
  /\ worker[w].phase \in Held => Crash(w) \/ Complete(w) \/ FinishFailure(w)

\* How a worker's own state changes with its step, and what it costs.
LEMMA Moves ==
  ASSUME OutboxAssumption, TypeOK, HoldsEvent, NEW w \in Workers,
         \/ Claim(w) \/ Quiet(w) \/ Complete(w) \/ CompleteLost(w) \/ FinishFailure(w)
  PROVE  /\ \A u \in Workers : u # w => worker'[u] = worker[u] /\ attempted'[u] = attempted[u]
         /\ faults' \in {faults, faults + 1}
         /\ Stall(w) \/ Crash(w) \/ CompleteLost(w) => faults' = faults + 1
         /\ \/ /\ GoesOn(w) /\ (Quiet(w) \/ CompleteLost(w))
               /\ worker'[w].late = worker[w].late
            \/ GoesOn(w) /\ Stall(w) /\ worker'[w].late
            \/ Select(w) \/ Claim(w) \/ LetsGo(w)
<1> DEFINE x == worker[w]
           y == worker'[w]
<1>1. x \in WorkerType
  BY DEF TypeOK
<1>2. ASSUME NEW state, Become(w, state)
      PROVE  y = state /\ \A u \in Workers : u # w => worker'[u] = worker[u]
  BY <1>2 DEF Become, TypeOK
<1>3. \A u \in Workers : u # w => worker'[u] = worker[u]
  BY <1>2 DEF Claim, Quiet, Complete, CompleteLost, FinishFailure, Select, Collide,
     EndBatch, Resume, Exit, Restart, HandlerResolves, HandlerRejects, TimeOut, Stall,
     Crash, Stop, Fault
<1>4. \A u \in Workers : u # w => attempted'[u] = attempted[u]
  BY DEF TypeOK, Claim, Quiet, Complete, CompleteLost, FinishFailure, Select, Collide,
     EndBatch, Resume, Exit, Restart, HandlerResolves, HandlerRejects, TimeOut, Stall,
     Crash, Stop, Fault
<1>5. /\ faults' \in {faults, faults + 1}
      /\ Stall(w) \/ Crash(w) \/ CompleteLost(w) => faults' = faults + 1
  BY DEF Claim, Quiet, Complete, CompleteLost, FinishFailure, Select, Collide,
     EndBatch, Resume, Exit, Restart, HandlerResolves, HandlerRejects, TimeOut, Stall,
     Crash, Stop, Fault
<1>6. CASE HandlerResolves(w)
  <2>1. x.phase \in Held /\ attempted' = attempted
    BY <1>6 DEF HandlerResolves, At, Held
  <2>2. /\ y.event = x.event /\ y.attempt = x.attempt /\ y.age = x.age
        /\ y.late = x.late /\ y.phase \in Held
    BY <1>1, <1>2, <1>6 DEF HandlerResolves, WorkerType, Held
  <2> QED BY <1>3, <1>4, <1>5, <1>6, <2>1, <2>2 DEF GoesOn, Quiet
<1>7. CASE HandlerRejects(w)
  <2>1. x.phase \in Held /\ attempted' = attempted
    BY <1>7 DEF HandlerRejects, At, Held
  <2>2. /\ y.event = x.event /\ y.attempt = x.attempt /\ y.age = x.age
        /\ y.late = x.late /\ y.phase \in Held
    <3>1. PICK permanent \in BOOLEAN :
            Become(w, [x EXCEPT !.phase = "FAILING", !.permanent = permanent])
      BY <1>7 DEF HandlerRejects
    <3>2. y = [x EXCEPT !.phase = "FAILING", !.permanent = permanent]
      BY <1>2, <3>1
    <3> HIDE DEF x, y
    <3> QED BY <1>1, <3>2 DEF WorkerType, Held
  <2> QED BY <1>3, <1>4, <1>5, <1>7, <2>1, <2>2 DEF GoesOn, Quiet
<1>8. CASE TimeOut(w) \/ CompleteLost(w)
  <2>1. x.phase \in Held /\ attempted' = attempted
    BY <1>8 DEF TimeOut, CompleteLost, At, Held
  <2>2. Become(w, [x EXCEPT !.phase = "FAILING"])
    BY <1>8 DEF TimeOut, CompleteLost
  <2>3. /\ y.event = x.event /\ y.attempt = x.attempt /\ y.age = x.age
        /\ y.late = x.late /\ y.phase \in Held
    BY <1>1, <1>2, <2>2 DEF WorkerType, Held
  <2> QED BY <1>3, <1>4, <1>5, <1>8, <2>1, <2>3 DEF GoesOn, Quiet
<1>9. CASE Resume(w) \/ Stop(w)
  <2>1. attempted' = attempted
    BY <1>9 DEF Resume, Stop
  <2>2. Become(w, [x EXCEPT !.stalled = FALSE]) \/ Become(w, [x EXCEPT !.stopping = TRUE])
    BY <1>9 DEF Resume, Stop, Fault
  <2>3. /\ y.event = x.event /\ y.attempt = x.attempt /\ y.age = x.age
        /\ y.late = x.late /\ y.phase = x.phase
    <3>1. y = [x EXCEPT !.stalled = FALSE] \/ y = [x EXCEPT !.stopping = TRUE]
      BY <1>2, <2>2
    <3> HIDE DEF x, y
    <3> QED BY <1>1, <3>1 DEF WorkerType
  <2> QED BY <1>3, <1>4, <1>5, <1>9, <2>1, <2>3 DEF GoesOn, Quiet
<1>10. CASE Stall(w)
  <2>1. attempted' = attempted
    BY <1>10 DEF Stall
  <2>2. Become(w, [x EXCEPT !.stalled = TRUE, !.late = TRUE])
    BY <1>10 DEF Stall, Fault
  <2>3. /\ y.event = x.event /\ y.attempt = x.attempt /\ y.age = x.age
        /\ y.late = TRUE /\ y.phase = x.phase
    <3>1. y = [x EXCEPT !.stalled = TRUE, !.late = TRUE]
      BY <1>2, <2>2
    <3> HIDE DEF x, y
    <3> QED BY <1>1, <3>1 DEF WorkerType
  <2> QED BY <1>3, <1>4, <1>5, <1>10, <2>1, <2>3 DEF GoesOn
<1>11. CASE EndBatch(w)
  <2>1. x.phase = "IDLE"
    BY <1>11 DEF EndBatch, At
  <2>2. y.phase = x.phase /\ y.late = x.late
    BY <1>1, <1>2, <1>11 DEF EndBatch, WorkerType
  <2> QED BY <1>3, <1>4, <1>5, <2>1, <2>2 DEF LetsGo, Busy, Held
<1>12. CASE Collide(w) \/ Exit(w) \/ Restart(w)
  <2>1. x.phase \notin Held
    BY <1>12 DEF Collide, Exit, Restart, At, Held
  <2>2. y.phase \in {"IDLE", "DOWN"} /\ y.late = FALSE
    <3>1. CASE Collide(w)
      <4> DEFINE n == IF x.collisions = 2 THEN 0 ELSE x.collisions + 1
                 state == [Idle EXCEPT !.stopping = x.stopping, !.collisions = n]
      <4>1. Become(w, state)
        BY <3>1 DEF Collide
      <4>2. state.phase = "IDLE" /\ state.late = FALSE
        BY DEF Idle
      <4> HIDE DEF n, state
      <4> QED BY <1>2, <4>1, <4>2
    <3>2. CASE Exit(w) \/ Restart(w)
      BY <1>2, <3>2 DEF Exit, Restart, Idle
    <3> QED BY <1>12, <3>1, <3>2
  <2> QED BY <1>3, <1>4, <1>5, <2>1, <2>2 DEF LetsGo, Busy
<1>13. CASE Crash(w) \/ Complete(w) \/ FinishFailure(w)
  <2>1. y.phase \in {"IDLE", "DOWN"} /\ y.late = FALSE
    BY <1>2, <1>13 DEF Crash, Fault, Complete, FinishFailure, Done, Idle
  <2> QED BY <1>3, <1>4, <1>5, <1>13, <2>1 DEF LetsGo, Busy
<1>14. CASE Select(w) \/ Claim(w)
  BY <1>3, <1>4, <1>5, <1>14
<1> QED BY <1>6, <1>7, <1>8, <1>9, <1>10, <1>11, <1>12, <1>13, <1>14 DEF Quiet

\* A worker's claim of an event turns on the row and on its own batch.
LEMMA ClaimableOpen ==
  ASSUME NEW w, NEW e, NEW age
  PROVE  Claimable(w, e, age) <=> e \notin attempted[w] /\ Open(row[e], age)
BY DEF Claimable, Open

\* The count of the waiting workers, before and after a step.
LEMMA WaitingFew ==
  ASSUME TypeOK, LateFew, NEW e
  PROVE  /\ IsFiniteSet(LateOn(e)) /\ Waiting(e) \in Nat /\ Waiting(e) <= faults
         /\ LateOn(e) = {} => Waiting(e) = 0
<1>1. LateOn(e) \in SUBSET LateWorkers
  BY DEF LateOn
<1>2. IsFiniteSet(LateOn(e)) /\ Cardinality(LateOn(e)) <= Cardinality(LateWorkers)
  BY <1>1, FS_Subset DEF LateFew
<1>3. Cardinality(LateOn(e)) \in Nat /\ Cardinality(LateWorkers) \in Nat
  BY <1>2, FS_CardinalityType DEF LateFew
<1>4. faults \in Int
  BY DEF TypeOK
<1>5. LateOn(e) = {} => Cardinality(LateOn(e)) = 0
  BY FS_EmptySet
<1> QED BY <1>2, <1>3, <1>4, <1>5 DEF Waiting, LateFew

LEMMA WaitingShrinks ==
  ASSUME TypeOK, LateFew, NEW e, LateOn(e)' \subseteq LateOn(e)
  PROVE  Waiting(e)' \in Nat /\ Waiting(e)' <= Waiting(e)
<1>1. IsFiniteSet(LateOn(e))
  BY WaitingFew
<1> DEFINE S == LateOn(e)
           T == LateOn(e)'
<1>2. IsFiniteSet(S) /\ T \in SUBSET S
  BY <1>1
<1> HIDE DEF S, T
<1>3. IsFiniteSet(T) /\ Cardinality(T) <= Cardinality(S)
  BY <1>2, FS_Subset
<1>4. Cardinality(T) \in Nat
  BY <1>3, FS_CardinalityType
<1> QED BY <1>3, <1>4 DEF S, T, Waiting

LEMMA WaitingGrows ==
  ASSUME TypeOK, LateFew, NEW e, NEW w, LateOn(e)' \subseteq LateOn(e) \cup {w}
  PROVE  Waiting(e)' \in Nat /\ Waiting(e)' <= Waiting(e) + 1
<1> DEFINE S == LateOn(e)
           T == LateOn(e)'
<1>1. IsFiniteSet(S) /\ T \subseteq S \cup {w} /\ Cardinality(S) \in Nat
  BY WaitingFew DEF Waiting
<1> HIDE DEF S, T
<1>2. IsFiniteSet(S \cup {w}) /\ Cardinality(S \cup {w}) <= Cardinality(S) + 1
  BY <1>1, FS_AddElement
<1>3. IsFiniteSet(T) /\ Cardinality(T) <= Cardinality(S \cup {w})
  BY <1>1, <1>2, FS_Subset
<1>4. Cardinality(T) \in Nat /\ Cardinality(S \cup {w}) \in Nat
  BY <1>2, <1>3, FS_CardinalityType
<1>5. Cardinality(T) <= Cardinality(S) + 1
  BY <1>1, <1>2, <1>3, <1>4
<1> QED BY <1>4, <1>5 DEF S, T, Waiting

LEMMA WaitingOneLess ==
  ASSUME TypeOK, LateFew, NEW e, NEW w, w \in LateOn(e), LateOn(e)' \subseteq LateOn(e) \ {w}
  PROVE  Waiting(e)' \in Nat /\ Waiting(e)' + 1 <= Waiting(e)
<1> DEFINE S == LateOn(e)
           T == LateOn(e)'
<1>1. IsFiniteSet(S) /\ T \subseteq S \ {w} /\ w \in S /\ Cardinality(S) \in Nat
  BY WaitingFew DEF Waiting
<1> HIDE DEF S, T
<1>2. IsFiniteSet(S \ {w}) /\ Cardinality(S \ {w}) = Cardinality(S) - 1
  BY <1>1, FS_RemoveElement
<1>3. IsFiniteSet(T) /\ Cardinality(T) <= Cardinality(S \ {w})
  BY <1>1, <1>2, FS_Subset
<1>4. Cardinality(T) \in Nat
  BY <1>3, FS_CardinalityType
<1>5. Cardinality(T) + 1 <= Cardinality(S)
  BY <1>1, <1>2, <1>3, <1>4
<1> QED BY <1>4, <1>5 DEF S, T, Waiting

-----------------------------------------------------------------------------
(* What a step leaves to claim.                                            *)

\* A claim counts the attempt and leaves availableAt alone.
LEMMA ClaimCounts ==
  ASSUME OutboxAssumption, TypeOK, HoldsEvent, NEW w \in Workers, Claim(w)
  PROVE  LET e == worker[w].event
         IN  /\ row'[e].available = row[e].available
             /\ row'[e].attempts = row[e].attempts + 1
             /\ Claimable(w, e, worker[w].age)
             /\ ~ worker[w].stalled /\ worker[w].phase = "SELECTED"
             /\ worker'[w].phase \in {"HANDLING", "FAILING"}
             /\ worker'[w].event = e /\ worker'[w].attempt = worker[w].attempt
             /\ worker'[w].late = worker[w].late
             /\ attempted' = [attempted EXCEPT ![w] = @ \cup {e}]
             /\ faults' = faults
<1> DEFINE e == worker[w].event
           x == worker[w]
           y == worker'[w]
<1>1. e \in Events /\ x \in WorkerType /\ row[e] \in RowType /\ row \in [Events -> RowType]
  BY DEF Claim, At, HoldsEvent, Busy, TypeOK
<1>2. row' = [row EXCEPT ![e].status = "PROCESSING", ![e].token = w,
                         ![e].locked = worker[w].age, ![e].attempts = @ + 1]
  BY DEF Claim
<1>3. row'[e].available = row[e].available /\ row'[e].attempts = row[e].attempts + 1
  BY <1>1, <1>2 DEF RowType
<1>4. \/ y = [x EXCEPT !.phase = "HANDLING", !.timer = Timeout, !.age = 0, !.collisions = 0]
      \/ y = [x EXCEPT !.phase = "FAILING", !.permanent = TRUE, !.age = 0, !.collisions = 0]
  BY DEF Claim, Become, TypeOK
<1> HIDE DEF x, y
<1>5. /\ y.phase \in {"HANDLING", "FAILING"} /\ y.event = x.event
      /\ y.attempt = x.attempt /\ y.late = x.late
  BY <1>1, <1>4 DEF WorkerType
<1> QED BY <1>3, <1>5 DEF Claim, At, x, y

\* Only a failure of an attempt before the last one reschedules an event, later.
LEMMA FinishCounts ==
  ASSUME OutboxAssumption, TypeOK, HoldsEvent, NEW w \in Workers,
         Complete(w) \/ CompleteLost(w) \/ FinishFailure(w)
  PROVE  LET e == worker[w].event
         IN  \/ row' = row /\ (Owns(w) => CompleteLost(w))
             \/ /\ Owns(w) /\ e \in Events
                /\ \A f \in Events : f # e => row'[f] = row[f]
                /\ row'[e].attempts = row[e].attempts
                /\ \/ row'[e].status \in {"PROCESSED", "FAILED"}
                   \/ /\ row'[e].status = "PENDING" /\ row'[e].available > 0
                      /\ worker[w].phase = "FAILING" /\ worker[w].attempt < MaxAttempts
<1> DEFINE e == worker[w].event
<1>1. e \in Events /\ row \in [Events -> RowType] /\ row[e] \in RowType
      /\ worker[w] \in WorkerType
  BY Finishes DEF TypeOK
<1>2. ASSUME NEW status, NEW b, Owns(w), Finish(w, status, b)
      PROVE  /\ \A f \in Events : f # e => row'[f] = row[f]
             /\ row'[e].attempts = row[e].attempts
             /\ row'[e].status = status /\ row'[e].available = b
  <2>1. row' = [row EXCEPT ![e].status = status, ![e].token = NoToken,
                           ![e].locked = 0, ![e].available = b]
    BY <1>2 DEF Finish
  <2> HIDE DEF e
  <2> QED BY <1>1, <2>1 DEF RowType
<1>3. ASSUME NEW status, NEW b, ~ Owns(w), Finish(w, status, b)
      PROVE  row' = row
  BY <1>3 DEF Finish
<1>4. CASE Complete(w) \/ CompleteLost(w)
  <2>1. \/ Finish(w, "PROCESSED", 0)
        \/ row' = row /\ CompleteLost(w)
    BY <1>4 DEF Complete, CompleteLost
  <2> QED BY <1>1, <1>2, <1>3, <2>1
<1>5. CASE FinishFailure(w)
  <2>1. worker[w].phase = "FAILING"
    BY <1>5 DEF FinishFailure, At
  <2>2. CASE Finish(w, "FAILED", 0)
    BY <1>1, <1>2, <1>3, <2>2
  <2>3. CASE /\ ~ (worker[w].attempt >= MaxAttempts)
             /\ \E b \in Backoffs(worker[w].attempt) : Finish(w, "PENDING", b)
    <3>1. PICK b \in Backoffs(worker[w].attempt) : Finish(w, "PENDING", b)
      BY <2>3
    <3>2. b > 0
      BY <3>1 DEF Backoffs
    <3>3. worker[w].attempt < MaxAttempts
      BY <1>1, <2>3 DEF WorkerType, OutboxAssumption
    <3> QED BY <1>1, <1>2, <1>3, <2>1, <3>1, <3>2, <3>3
  <2> QED BY <1>5, <2>2, <2>3 DEF FinishFailure
<1> QED BY <1>4, <1>5

\* A selection reads the row and writes nothing of it.
LEMMA SelectTakes ==
  ASSUME OutboxAssumption, TypeOK, NEW w \in Workers, Select(w)
  PROVE  LET e == worker'[w].event
         IN  /\ e \in Events /\ Claimable(w, e, 0)
             /\ worker'[w].phase = "SELECTED" /\ worker'[w].late = FALSE
             /\ worker'[w].age = 0 /\ worker'[w].attempt = row[e].attempts + 1
             /\ row' = row /\ attempted' = attempted /\ faults' = faults
<1> DEFINE x == worker[w]
           y == worker'[w]
<1>1. PICK e \in Events :
        /\ Claimable(w, e, 0)
        /\ Become(w, [x EXCEPT !.phase = "SELECTED", !.event = e,
                               !.attempt = row[e].attempts + 1, !.age = 0, !.late = FALSE])
  BY DEF Select
<1>2. x \in WorkerType
  BY DEF TypeOK
<1>3. y = [x EXCEPT !.phase = "SELECTED", !.event = e,
                    !.attempt = row[e].attempts + 1, !.age = 0, !.late = FALSE]
  BY <1>1 DEF Become, TypeOK
<1> HIDE DEF x, y
<1>4. /\ y.event = e /\ y.phase = "SELECTED" /\ y.late = FALSE /\ y.age = 0
      /\ y.attempt = row[e].attempts + 1
  BY <1>2, <1>3 DEF WorkerType
<1> QED BY <1>1, <1>4 DEF Select, y

\* No worker's step makes an event claimable.
LEMMA OpenShrinks ==
  ASSUME OutboxAssumption, TypeOK, HoldsEvent, NEW w \in Workers,
         \/ Claim(w) \/ Quiet(w) \/ Complete(w) \/ CompleteLost(w) \/ FinishFailure(w),
         NEW e \in Events, NEW age \in 0 .. MaxStall, Open(row'[e], age)
  PROVE  Open(row[e], age)
<1>1. /\ row[e] \in RowType /\ row[e].locked \in Int /\ row[e].available \in Int
      /\ Lease \in Nat /\ MaxStall \in Nat /\ age \in Int /\ age >= 0
  BY DEF TypeOK, RowType, OutboxAssumption
<1>2. CASE Quiet(w)
  BY <1>2, QuietRows
<1>3. CASE Complete(w) \/ CompleteLost(w) \/ FinishFailure(w)
  <2>1. CASE row' = row \/ e # worker[w].event
    BY <1>3, <2>1, FinishCounts
  <2>2. CASE row'[e].status \in {"PROCESSED", "FAILED"}
    BY <2>2 DEF Open
  <2>3. CASE row'[e].available > 0
    <3>1. row'[e].available \in Int
      BY <1>3, Finishes DEF RowType
    <3> QED BY <1>1, <2>3, <3>1 DEF Open
  <2> QED BY <1>3, <2>1, <2>2, <2>3, FinishCounts
<1>4. CASE Claim(w)
  <2>1. CASE e # worker[w].event
    BY <1>4, <2>1, ClaimRows
  <2>2. CASE e = worker[w].event
    <3>1. worker[w].age \in Int
      BY DEF TypeOK, WorkerType
    <3>2. Open(row[e], worker[w].age)
      BY <1>4, <2>2, ClaimCounts, ClaimableOpen
    <3>3. row'[e].available = row[e].available /\ row'[e].locked = worker[w].age
          /\ row'[e].status = "PROCESSING"
      BY <1>4, <2>2, ClaimCounts, ClaimRows
    <3> QED BY <1>1, <3>1, <3>2, <3>3 DEF Open
  <2> QED BY <2>1, <2>2
<1> QED BY <1>2, <1>3, <1>4

\* So the late workers whose claim would succeed only become fewer, but for one
\* that stalls, and a claim takes the claimer off.
LEMMA LateShrinks ==
  ASSUME OutboxAssumption, TypeOK, HoldsEvent, NEW w \in Workers,
         \/ Claim(w) \/ Quiet(w) \/ Complete(w) \/ CompleteLost(w) \/ FinishFailure(w),
         NEW e \in Events
  PROVE  /\ ~ Stall(w) => LateOn(e)' \subseteq LateOn(e)
         /\ LateOn(e)' \subseteq LateOn(e) \cup {w}
         /\ Claim(w) => w \notin LateOn(e)'
         /\ worker[w].phase # "SELECTED" \/ worker[w].event # e => LateOn(e)' \subseteq LateOn(e)
<1>1. ASSUME NEW u \in Workers, u \in LateOn(e)', u # w
      PROVE  u \in LateOn(e)
  <2>1. worker'[u] = worker[u] /\ attempted'[u] = attempted[u]
    BY <1>1, Moves
  <2>2. /\ worker[u].late /\ worker[u].phase = "SELECTED" /\ worker[u].event = e
        /\ e \notin attempted[u] /\ Open(row'[e], worker[u].age)
    BY <1>1, <2>1, ClaimableOpen DEF LateOn, LateWorkers, Claimable, Open
  <2>3. worker[u].age \in 0 .. MaxStall
    BY DEF TypeOK, WorkerType
  <2> QED BY <2>2, <2>3, OpenShrinks, ClaimableOpen DEF LateOn, LateWorkers
<1>2. ASSUME w \in LateOn(e)'
      PROVE  /\ GoesOn(w) /\ ~ Claim(w) /\ worker[w].phase = "SELECTED" /\ worker[w].event = e
             /\ ~ Stall(w) => w \in LateOn(e)
  <2>1. /\ worker'[w].late /\ worker'[w].phase = "SELECTED" /\ worker'[w].event = e
        /\ e \notin attempted'[w] /\ Open(row'[e], worker'[w].age)
    BY <1>2 DEF LateOn, LateWorkers, Claimable, Open
  <2>2. ~ Claim(w)
    BY <2>1, ClaimCounts
  <2>3. ~ Select(w)
    BY <2>1, SelectTakes
  <2>4. GoesOn(w) /\ (worker'[w].late = worker[w].late \/ Stall(w))
    BY <2>1, <2>2, <2>3, Moves DEF LetsGo, Busy
  <2>5. /\ worker[w].phase = "SELECTED" /\ worker[w].event = e
        /\ e \notin attempted[w] /\ Open(row'[e], worker[w].age)
    BY <2>1, <2>4 DEF GoesOn, Held
  <2>6. worker[w].age \in 0 .. MaxStall
    BY DEF TypeOK, WorkerType
  <2> QED BY <2>1, <2>2, <2>4, <2>5, <2>6, OpenShrinks, ClaimableOpen DEF LateOn, LateWorkers
<1>3. \A u \in LateOn(e)' : u \in Workers
  BY DEF LateOn, LateWorkers
<1> QED BY <1>1, <1>2, <1>3

LEMMA WaitingOfStep ==
  ASSUME OutboxAssumption, TypeOK, HoldsEvent, LateFew, NEW w \in Workers,
         \/ Claim(w) \/ Quiet(w) \/ Complete(w) \/ CompleteLost(w) \/ FinishFailure(w),
         NEW e \in Events
  PROVE  /\ Waiting(e) \in Nat /\ Waiting(e)' \in Nat
         /\ ~ Stall(w) => Waiting(e)' <= Waiting(e)
         /\ Waiting(e)' <= Waiting(e) + 1
         /\ worker[w].phase # "SELECTED" \/ worker[w].event # e => Waiting(e)' <= Waiting(e)
         /\ Claim(w) /\ worker[w].late /\ worker[w].event = e => Waiting(e)' + 1 <= Waiting(e)
<1>1. Waiting(e) \in Nat
  BY WaitingFew
<1>2. Waiting(e)' \in Nat /\ Waiting(e)' <= Waiting(e) + 1
  BY LateShrinks, WaitingGrows
<1>3. ASSUME LateOn(e)' \subseteq LateOn(e) PROVE Waiting(e)' <= Waiting(e)
  BY <1>3, WaitingShrinks
<1>4. ASSUME Claim(w), worker[w].late, worker[w].event = e
      PROVE  Waiting(e)' + 1 <= Waiting(e)
  <2>1. w \in LateOn(e)
    BY <1>4, ClaimCounts DEF LateOn, LateWorkers
  <2>2. ~ Stall(w)
    <3>1. worker[w].phase = "SELECTED" /\ ~ worker[w].stalled
      BY <1>4, ClaimCounts
    <3>2. worker'[w].phase # "SELECTED"
      BY <1>4, ClaimCounts
    <3>3. Stall(w) => worker'[w].phase = worker[w].phase
      BY DEF Stall, Fault, Become, TypeOK, WorkerType
    <3> QED BY <3>1, <3>2, <3>3
  <2>3. LateOn(e)' \subseteq LateOn(e) \ {w}
    BY <1>4, <2>2, LateShrinks
  <2> QED BY <2>1, <2>3, WaitingOneLess
<1>5. ASSUME ~ Stall(w) PROVE Waiting(e)' <= Waiting(e)
  BY <1>3, <1>5, LateShrinks
<1>6. ASSUME worker[w].phase # "SELECTED" \/ worker[w].event # e
      PROVE  Waiting(e)' <= Waiting(e)
  BY <1>3, <1>6, LateShrinks
<1> QED BY <1>1, <1>2, <1>4, <1>5, <1>6

LEMMA LateFewStep ==
  ASSUME OutboxAssumption, TypeOK, HoldsEvent, LateFew, [Next]_vars
  PROVE  LateFew' /\ faults' \in {faults, faults + 1}
<1>1. faults \in Int /\ Cardinality(LateWorkers) \in Nat
  BY FS_CardinalityType DEF TypeOK, LateFew
<1>2. ASSUME LateWorkers' \subseteq LateWorkers, faults' \in {faults, faults + 1}
      PROVE  LateFew'
  <2> DEFINE S == LateWorkers
             T == LateWorkers'
  <2>1. IsFiniteSet(S) /\ T \subseteq S /\ Cardinality(S) <= faults
    BY <1>2 DEF LateFew
  <2> HIDE DEF S, T
  <2>2. IsFiniteSet(T) /\ Cardinality(T) <= Cardinality(S)
    BY <2>1, FS_Subset
  <2>3. Cardinality(T) \in Nat /\ Cardinality(S) \in Nat
    BY <2>1, <2>2, FS_CardinalityType
  <2>4. Cardinality(T) <= faults'
    BY <1>1, <1>2, <2>1, <2>2, <2>3
  <2> QED BY <2>2, <2>4 DEF LateFew, T
<1>3. ASSUME NEW w, LateWorkers' \subseteq LateWorkers \cup {w}, faults' = faults + 1
      PROVE  LateFew'
  <2> DEFINE S == LateWorkers
             T == LateWorkers'
  <2>1. IsFiniteSet(S) /\ T \subseteq S \cup {w} /\ Cardinality(S) <= faults
        /\ Cardinality(S) \in Nat
    BY <1>1, <1>3 DEF LateFew
  <2> HIDE DEF S, T
  <2>2. IsFiniteSet(S \cup {w}) /\ Cardinality(S \cup {w}) <= Cardinality(S) + 1
    BY <2>1, FS_AddElement
  <2>3. IsFiniteSet(T) /\ Cardinality(T) <= Cardinality(S \cup {w})
    BY <2>1, <2>2, FS_Subset
  <2>4. Cardinality(T) \in Nat /\ Cardinality(S \cup {w}) \in Nat
    BY <2>2, <2>3, FS_CardinalityType
  <2>5. Cardinality(T) <= faults'
    BY <1>1, <1>3, <2>1, <2>2, <2>3, <2>4
  <2> QED BY <2>3, <2>5 DEF LateFew, T
<1>4. CASE UNCHANGED vars
  BY <1>2, <1>4 DEF vars, LateWorkers
<1>5. CASE Tick
  <2>1. \A w \in Workers : worker'[w].late = worker[w].late
    BY <1>5 DEF Tick, TypeOK, WorkerType
  <2> QED BY <1>2, <1>5, <2>1 DEF Tick, LateWorkers
<1>6. CASE \E e \in Events : Append(e) \/ Cleanup(e)
  BY <1>2, <1>6 DEF Append, Cleanup, LateWorkers
<1>7. ASSUME NEW w \in Workers,
             \/ Claim(w) \/ Quiet(w) \/ Complete(w) \/ CompleteLost(w) \/ FinishFailure(w)
      PROVE  LateFew' /\ faults' \in {faults, faults + 1}
  <2>1. /\ \A u \in Workers : u # w => worker'[u] = worker[u]
        /\ faults' \in {faults, faults + 1}
        /\ Stall(w) => faults' = faults + 1
    BY <1>7, Moves
  <2>2. CASE Stall(w)
    <3>1. LateWorkers' \subseteq LateWorkers \cup {w}
      BY <2>1 DEF LateWorkers
    <3> QED BY <1>3, <2>1, <2>2, <3>1
  <2>3. CASE worker'[w].late => worker[w].late
    <3>1. ASSUME NEW u \in Workers, worker'[u].late PROVE worker[u].late
      BY <2>1, <2>3, <3>1
    <3>2. LateWorkers' \subseteq LateWorkers
      BY <3>1 DEF LateWorkers
    <3> QED BY <1>2, <2>1, <3>2
  <2>4. CASE Select(w)
    BY <2>3, <2>4, SelectTakes
  <2>5. CASE Claim(w)
    BY <2>3, <2>5, ClaimCounts
  <2> QED BY <1>7, <2>2, <2>3, <2>4, <2>5, Moves DEF LetsGo
<1> QED BY <1>4, <1>5, <1>6, <1>7, Steps DEF vars, Tick, Append, Cleanup

\* Nothing becomes unknown again.
LEMMA KnownStays ==
  ASSUME OutboxAssumption, TypeOK, HoldsEvent, [Next]_vars,
         NEW e \in Events, row'[e].status = "NONE"
  PROVE  row[e].status = "NONE"
<1>1. CASE UNCHANGED vars
  BY <1>1 DEF vars
<1>2. CASE Tick
  BY <1>2, TickRows
<1>3. CASE \E f \in Events : Append(f) \/ Cleanup(f)
  BY <1>3, RowsOfCommand
<1>4. ASSUME NEW w \in Workers, Claim(w) PROVE row[e].status = "NONE"
  BY <1>4, ClaimRows
<1>5. ASSUME NEW w \in Workers, Quiet(w) PROVE row[e].status = "NONE"
  BY <1>5, QuietRows
<1>6. ASSUME NEW w \in Workers, Complete(w) \/ CompleteLost(w) \/ FinishFailure(w)
      PROVE  row[e].status = "NONE"
  BY <1>6, FinishCounts
<1> QED BY <1>1, <1>2, <1>3, <1>4, <1>5, <1>6, Steps

\* What a tick changes of a worker, and what it leaves to claim.
LEMMA TickLate ==
  ASSUME OutboxAssumption, TypeOK, HoldsEvent, Tick, NEW w \in Workers
  PROVE  /\ worker'[w].phase = worker[w].phase /\ worker'[w].event = worker[w].event
         /\ worker'[w].attempt = worker[w].attempt /\ worker'[w].late = worker[w].late
         /\ worker[w].phase = "SELECTED" /\ Claimable(w, worker[w].event, worker[w].age)'
              => Claimable(w, worker[w].event, worker[w].age)
<1> DEFINE x == worker[w]
           y == worker'[w]
           e == x.event
<1>1. x \in WorkerType
  BY DEF TypeOK
<1>2. y = [x EXCEPT !.timer = IF @ > 0 THEN @ - 1 ELSE 0,
                    !.age = IF x.phase = "SELECTED" THEN @ + 1 ELSE @]
  BY DEF Tick
<1>3. /\ y.phase = x.phase /\ y.event = x.event /\ y.attempt = x.attempt
      /\ y.late = x.late
      /\ x.phase = "SELECTED" => y.age = x.age + 1
  BY <1>1, <1>2 DEF WorkerType
<1>4. ASSUME x.phase = "SELECTED", Open(row'[e], x.age + 1)
      PROVE  Open(row[e], x.age)
  <2>1. e \in Events /\ row[e] \in RowType /\ row'[e] = Later(row[e])
    BY <1>4 DEF HoldsEvent, Busy, TypeOK, Tick
  <2>2. /\ row[e].available \in Int /\ row[e].locked \in Int /\ x.age \in Int
        /\ Lease \in Int /\ MaxStall \in Nat
    BY <1>1, <2>1 DEF RowType, WorkerType, OutboxAssumption
  <2>3. row'[e].status = row[e].status /\ row[e].status \in {"PENDING", "PROCESSING"}
    BY <1>4, <2>1, LaterRow DEF Open
  <2>4. row'[e].available = Max({row[e].available - 1, 0 - MaxStall})
    BY <2>1, <2>3 DEF Later, RowType
  <2>5. row[e].status = "PROCESSING" =>
          row'[e].locked = Min({row[e].locked + 1, Lease + MaxStall})
    BY <2>1 DEF Later, RowType
  <2>6. row'[e].available >= row[e].available - 1 /\ row'[e].available \in Int
    <3>1. row[e].available - 1 \in Int /\ 0 - MaxStall \in Int
      BY <2>2
    <3>2. Max({row[e].available - 1, 0 - MaxStall})
            = IF row[e].available - 1 >= 0 - MaxStall THEN row[e].available - 1
              ELSE 0 - MaxStall
      BY <3>1, MaxOfTwo
    <3> QED BY <2>2, <2>4, <3>2
  <2>7. row[e].status = "PROCESSING" =>
          row'[e].locked <= row[e].locked + 1 /\ row'[e].locked \in Int
    <3>1. row[e].locked + 1 \in Int /\ Lease + MaxStall \in Int
      BY <2>2
    <3>2. Min({row[e].locked + 1, Lease + MaxStall})
            = IF row[e].locked + 1 <= Lease + MaxStall THEN row[e].locked + 1
              ELSE Lease + MaxStall
      BY <3>1, MinOfTwo
    <3> QED BY <2>2, <2>5, <3>2
  <2> QED BY <1>4, <2>2, <2>3, <2>6, <2>7 DEF Open
<1>5. attempted' = attempted
  BY DEF Tick
<1>6. x.phase = "SELECTED" /\ Claimable(w, x.event, x.age)' => Claimable(w, x.event, x.age)
  <2> SUFFICES ASSUME x.phase = "SELECTED", Claimable(w, x.event, x.age)'
               PROVE  Claimable(w, x.event, x.age)
    OBVIOUS
  <2>1. y.event = e /\ y.age = x.age + 1
    BY <1>3
  <2>2. e \notin attempted[w] /\ Open(row'[e], x.age + 1)
    BY <1>5, <2>1 DEF Claimable, Open
  <2> QED BY <1>4, <2>2, ClaimableOpen
<1> QED BY <1>3, <1>6

LEMMA BusyKnownStep ==
  ASSUME OutboxAssumption, TypeOK, HoldsEvent, BusyKnown, [Next]_vars
  PROVE  BusyKnown'
<1> SUFFICES ASSUME NEW u \in Workers, worker'[u].phase \in Busy
             PROVE  row'[worker'[u].event].status # "NONE"
  BY DEF BusyKnown
<1>1. CASE worker[u].phase \in Busy /\ worker'[u].event = worker[u].event
  BY <1>1, KnownStays DEF BusyKnown, HoldsEvent
<1>2. CASE UNCHANGED vars
  BY <1>1, <1>2 DEF vars
<1>3. CASE Tick
  BY <1>1, <1>3, TickLate
<1>4. CASE \E e \in Events : Append(e) \/ Cleanup(e)
  BY <1>1, <1>4 DEF Append, Cleanup
<1>5. ASSUME NEW w \in Workers,
             \/ Claim(w) \/ Quiet(w) \/ Complete(w) \/ CompleteLost(w) \/ FinishFailure(w)
      PROVE  row'[worker'[u].event].status # "NONE"
  <2>1. CASE u # w
    BY <1>1, <1>5, <2>1, Moves
  <2>2. CASE u = w /\ GoesOn(w)
    BY <1>1, <2>2 DEF GoesOn, Held, Busy
  <2>3. CASE u = w /\ Select(w)
    BY <2>3, SelectTakes DEF Claimable
  <2>4. CASE u = w /\ Claim(w)
    BY <1>1, <2>4, ClaimCounts DEF Busy
  <2>5. CASE u = w /\ LetsGo(w)
    BY <2>5 DEF LetsGo
  <2> QED BY <1>5, <2>1, <2>2, <2>3, <2>4, <2>5, Moves
<1> QED BY <1>2, <1>3, <1>4, <1>5, Steps

\* What Young says of one worker.
YoungAt(w) ==
  worker[w].phase \in Held /\ ~ worker[w].late /\ Owns(w)
    => row[worker[w].event].locked <= Timeout

LEMMA YoungStep ==
  ASSUME OutboxAssumption, TypeOK, HoldsEvent, OnTime, Young, [Next]_vars
  PROVE  Young'
<1> SUFFICES ASSUME NEW u \in Workers PROVE YoungAt(u)'
  BY DEF Young, YoungAt
<1>1. YoungAt(u) /\ Keeps(u)
  BY DEF Young, YoungAt, OnTime, Keeps
<1>2. CASE UNCHANGED vars
  BY <1>1, <1>2 DEF vars, YoungAt, Owns
<1>3. CASE Tick
  <2> SUFFICES ASSUME worker'[u].phase \in Held, ~ worker'[u].late
               PROVE  row'[worker'[u].event].locked <= Timeout
    BY DEF YoungAt
  <2>1. Keeps(u)'
    BY <1>1, <1>3, TickKeeps
  <2>2. worker[u].phase # "FAILING"
    <3>1. ~ worker[u].late /\ worker'[u].phase = worker[u].phase
      BY <1>3, TickLate
    <3> QED BY <1>1, <1>3, <3>1 DEF Keeps, Tick, Prompt
  <2>3. worker'[u].phase \in {"HANDLING", "COMPLETING"}
    BY <1>3, <2>2, TickLate DEF Held
  <2>4. row'[worker'[u].event].locked + worker'[u].timer <= Timeout
    BY <2>1, <2>3 DEF Keeps
  <2>5. TypeOK' /\ HoldsEvent'
    BY <1>3, TypeTick
  <2>6. worker'[u].event \in Events /\ worker'[u] \in WorkerType
    BY <2>3, <2>5 DEF HoldsEvent, Busy, TypeOK
  <2>7. row'[worker'[u].event].locked \in Int /\ worker'[u].timer \in Nat /\ Timeout \in Int
    BY <2>5, <2>6 DEF TypeOK, RowType, WorkerType, OutboxAssumption
  <2> QED BY <2>4, <2>7
<1>4. ASSUME NEW e \in Events, Append(e) \/ Cleanup(e)
      PROVE  YoungAt(u)'
  <2> SUFFICES ASSUME worker'[u].phase \in Held, ~ worker'[u].late, Owns(u)'
               PROVE  row'[worker'[u].event].locked <= Timeout
    BY DEF YoungAt
  <2>1. worker' = worker /\ worker[u].event \in Events
    BY <1>4 DEF Append, Cleanup, HoldsEvent, Held, Busy
  <2>2. worker[u].event # e
    BY <1>4, <2>1, RowsOfCommand DEF Owns
  <2>3. row'[worker[u].event] = row[worker[u].event]
    BY <1>4, <2>1, <2>2, RowsOfCommand
  <2> QED BY <1>1, <2>1, <2>3 DEF YoungAt, Owns
<1>5. ASSUME NEW w \in Workers,
             \/ Claim(w) \/ Quiet(w) \/ Complete(w) \/ CompleteLost(w) \/ FinishFailure(w)
      PROVE  YoungAt(u)'
  <2> SUFFICES ASSUME worker'[u].phase \in Held, ~ worker'[u].late, Owns(u)'
               PROVE  row'[worker'[u].event].locked <= Timeout
    BY DEF YoungAt
  <2>1. CASE /\ worker[u].phase \in Held /\ ~ worker[u].late
             /\ worker'[u].event = worker[u].event /\ (u = w => ~ Claim(w))
    <3> DEFINE e == worker[u].event
    <3>1. e \in Events /\ row'[e].status = "PROCESSING" /\ row'[e].token = u
      BY <2>1 DEF HoldsEvent, Held, Busy, Owns
    <3>2. row'[e] = row[e]
      <4>1. CASE Claim(w)
        BY <2>1, <3>1, <4>1, ClaimRows
      <4>2. CASE Quiet(w)
        BY <4>2, QuietRows
      <4>3. CASE Complete(w) \/ CompleteLost(w) \/ FinishFailure(w)
        BY <3>1, <4>3, FinishCounts
      <4> QED BY <1>5, <4>1, <4>2, <4>3
    <3>3. Owns(u)
      BY <3>1, <3>2 DEF Owns
    <3> QED BY <1>1, <2>1, <3>2, <3>3 DEF YoungAt
  <2>2. CASE u # w
    BY <1>5, <2>1, <2>2, Moves
  <2>3. CASE u = w /\ GoesOn(w) /\ ~ Claim(w)
    <3>1. worker'[w].late = worker[w].late
      BY <1>5, <2>3, Moves, SelectTakes DEF LetsGo, Held, Busy
    <3> QED BY <2>1, <2>3, <3>1 DEF GoesOn, Held
  <2>4. CASE u = w /\ Claim(w)
    <3>1. row'[worker[w].event].locked = worker[w].age /\ worker'[w].event = worker[w].event
      BY <2>4, ClaimRows, ClaimCounts
    <3>2. worker[w].phase = "SELECTED" /\ ~ worker[w].late
      BY <2>4, ClaimCounts
    <3>3. worker[w].age = 0
      BY <1>1, <2>4, <3>2 DEF Keeps
    <3> QED BY <2>4, <3>1, <3>3 DEF OutboxAssumption
  <2>5. CASE u = w /\ (Select(w) \/ LetsGo(w))
    BY <2>5, SelectTakes DEF LetsGo, Held, Busy
  <2> QED BY <1>5, <2>2, <2>3, <2>4, <2>5, Moves
<1> QED BY <1>2, <1>3, <1>4, <1>5, Steps

\* The numbers of an event and a worker.
LEMMA Numbers ==
  ASSUME OutboxAssumption, TypeOK, NEW e \in Events
  PROVE  row[e].attempts \in Nat /\ faults \in Nat /\ MaxAttempts \in Nat
BY DEF TypeOK, RowType, OutboxAssumption

\* Nobody takes over an event from a worker that keeps time.
LEMMA KeptNotTaken ==
  ASSUME OutboxAssumption, TypeOK, HoldsEvent, Young, NEW w \in Workers, Claim(w)
  PROVE  ~ Kept(worker[w].event)
<1> DEFINE e == worker[w].event
<1> SUFFICES ASSUME Kept(e) PROVE FALSE
  OBVIOUS
<1>1. PICK u \in Workers : /\ worker[u].phase \in Held /\ worker[u].event = e
                           /\ Owns(u) /\ ~ worker[u].late
  BY DEF Kept
<1>2. row[e].locked <= Timeout /\ row[e].status = "PROCESSING"
  BY <1>1 DEF Young, Owns
<1>3. e \in Events /\ row[e].locked >= Lease
  BY <1>2, ClaimRows
<1>4. row[e].locked \in Int
  BY <1>3 DEF TypeOK, RowType
<1> QED BY <1>2, <1>3, <1>4 DEF OutboxAssumption

\* A step that leaves an event's row alone, or only ages it, keeps what is counted,
\* if what it costs is paid for with a fault.
LEMMA CountedKept ==
  ASSUME OutboxAssumption, TypeOK, TypeOK', NEW e \in Events, CountedAt(e),
         Waiting(e) \in Nat, Waiting(e)' \in Nat,
         row'[e].status = row[e].status, row'[e].attempts = row[e].attempts,
         \/ /\ faults' >= faults /\ Waiting(e)' <= Waiting(e)
            /\ Kept(e) => Kept(e)'
         \/ /\ faults' = faults + 1 /\ Waiting(e)' <= Waiting(e)
         \/ /\ faults' = faults + 1 /\ Waiting(e)' <= Waiting(e) + 1
            /\ Kept(e) => Kept(e)'
  PROVE  CountedAt(e)'
<1>1. /\ row[e].attempts \in Nat /\ faults \in Nat /\ MaxAttempts \in Nat /\ faults' \in Nat
  BY Numbers DEF TypeOK, OutboxAssumption
<1> QED BY <1>1 DEF CountedAt

\* Who keeps an event goes on keeping it, unless the step is a fault or writes the row.
LEMMA KeptStays ==
  ASSUME OutboxAssumption, TypeOK, HoldsEvent, NEW w \in Workers,
         \/ Claim(w) \/ Quiet(w) \/ Complete(w) \/ CompleteLost(w) \/ FinishFailure(w),
         NEW e \in Events, row'[e] = row[e], Kept(e),
         worker[w].phase \in Held /\ worker[w].event = e =>
           ~ Stall(w) /\ ~ Crash(w) /\ (Owns(w) => ~ Complete(w) /\ ~ FinishFailure(w))
  PROVE  Kept(e)'
<1>1. PICK u \in Workers : /\ worker[u].phase \in Held /\ worker[u].event = e
                           /\ Owns(u) /\ ~ worker[u].late
  BY DEF Kept
<1>2. CASE u # w
  <2>1. worker'[u] = worker[u]
    BY <1>2, Moves
  <2> QED BY <1>1, <2>1 DEF Kept, Owns
<1>3. CASE u = w
  <2>1. ~ LetsGo(w) /\ ~ Stall(w)
    BY <1>1, <1>3 DEF LetsGo
  <2>2. ~ Claim(w)
    BY <1>1, <1>3, ClaimCounts DEF Held
  <2>3. ~ Select(w)
    BY <1>1, <1>3 DEF Select, At, Held
  <2>4. GoesOn(w) /\ worker'[w].late = worker[w].late
    BY <2>1, <2>2, <2>3, Moves
  <2>5. worker'[w].phase \in Held /\ worker'[w].event = e
    BY <1>1, <1>3, <2>4 DEF GoesOn
  <2>6. ~ worker'[w].late /\ Owns(w)'
    BY <1>1, <1>3, <2>4, <2>5 DEF Owns
  <2> QED BY <2>5, <2>6 DEF Kept
<1> QED BY <1>2, <1>3

\* A worker's step that writes nothing of the event.
LEMMA CountedLeft ==
  ASSUME OutboxAssumption, TypeOK, TypeOK', HoldsEvent, LateFew, NEW w \in Workers,
         \/ Claim(w) \/ Quiet(w) \/ Complete(w) \/ CompleteLost(w) \/ FinishFailure(w),
         NEW e \in Events, row'[e] = row[e], CountedAt(e),
         worker[w].event = e /\ Owns(w) => ~ Complete(w) /\ ~ FinishFailure(w)
  PROVE  CountedAt(e)'
<1>1. /\ Waiting(e) \in Nat /\ Waiting(e)' \in Nat
      /\ ~ Stall(w) => Waiting(e)' <= Waiting(e)
      /\ Waiting(e)' <= Waiting(e) + 1
      /\ worker[w].phase # "SELECTED" \/ worker[w].event # e => Waiting(e)' <= Waiting(e)
  BY WaitingOfStep
<1>2. /\ faults' \in {faults, faults + 1} /\ faults \in Nat
      /\ Stall(w) \/ Crash(w) => faults' = faults + 1
  BY Moves, Numbers
<1>3. faults' >= faults
  BY <1>2
<1>4. CASE Stall(w) /\ worker[w].phase = "SELECTED"
  <2>1. Kept(e) => Kept(e)'
    BY <1>4, KeptStays DEF Held
  <2> QED BY <1>1, <1>2, <1>4, <2>1, CountedKept
<1>5. CASE Stall(w) /\ worker[w].phase # "SELECTED"
  BY <1>1, <1>2, <1>5, CountedKept
<1>6. CASE Crash(w) /\ ~ Stall(w)
  BY <1>1, <1>2, <1>6, CountedKept
<1>7. CASE ~ Crash(w) /\ ~ Stall(w)
  <2>1. Kept(e) => Kept(e)'
    BY <1>7, KeptStays
  <2> QED BY <1>1, <1>3, <1>7, <2>1, CountedKept
<1> QED BY <1>4, <1>5, <1>6, <1>7

\* A claim is covered by the room of the claimer that was late, or by that of
\* whoever may claim.
LEMMA CountedClaim ==
  ASSUME OutboxAssumption, TypeOK, TypeOK', HoldsEvent, OnTime, LateFew, Young,
         NEW w \in Workers, Claim(w), NEW e \in Events, e = worker[w].event, CountedAt(e)
  PROVE  CountedAt(e)'
<1>1. /\ row'[e].status = "PROCESSING" /\ row'[e].token = w
      /\ row[e].status \in {"PENDING", "PROCESSING"}
  BY ClaimRows
<1>2. /\ row'[e].attempts = row[e].attempts + 1 /\ faults' = faults
      /\ worker'[w].phase \in Held /\ worker'[w].event = e
      /\ worker'[w].late = worker[w].late
  BY ClaimCounts DEF Held
<1>3. /\ row[e].attempts \in Nat /\ faults \in Nat /\ MaxAttempts \in Nat
  BY <1>1, Numbers
<1>4. ~ Kept(e)
  BY KeptNotTaken
<1>5. row[e].attempts + Waiting(e) < MaxAttempts + faults
  BY <1>1, <1>4 DEF CountedAt
<1>6. /\ Waiting(e) \in Nat /\ Waiting(e)' \in Nat /\ Waiting(e)' <= Waiting(e) + 1
      /\ worker[w].late => Waiting(e)' + 1 <= Waiting(e)
  BY <1>1, WaitingOfStep
<1>7. ~ worker[w].late => Waiting(e)' <= Waiting(e)
  <2> SUFFICES ASSUME ~ worker[w].late PROVE Waiting(e)' <= Waiting(e)
    OBVIOUS
  <2>1. ~ Stall(w)
    <3>1. worker'[w].late = worker[w].late
      BY <1>2
    <3>2. Stall(w) => worker'[w].late = TRUE
      BY DEF Stall, Fault, Become, TypeOK, WorkerType
    <3> QED BY <3>1, <3>2
  <2> QED BY <1>1, <2>1, WaitingOfStep
<1>8. ~ worker[w].late => Kept(e)'
  BY <1>1, <1>2 DEF Kept, Owns
<1>9. ASSUME row'[e].status = "PROCESSING"
      PROVE  /\ row'[e].attempts + Waiting(e)' <= MaxAttempts + faults'
             /\ Kept(e)' \/ row'[e].attempts + Waiting(e)' < MaxAttempts + faults'
  <2>1. CASE worker[w].late
    BY <1>2, <1>3, <1>5, <1>6, <2>1
  <2>2. CASE ~ worker[w].late
    BY <1>2, <1>3, <1>5, <1>6, <1>7, <1>8, <2>2
  <2> QED BY <2>1, <2>2
<1>10. row'[e].attempts <= MaxAttempts + faults'
  BY <1>2, <1>3, <1>5, <1>6
<1> QED BY <1>1, <1>9, <1>10 DEF CountedAt

\* A finishing update decides the event, or leaves it to a next attempt that the
\* worker knows is not the last, and that nobody is waiting for.
LEMMA CountedFinish ==
  ASSUME OutboxAssumption, TypeOK, TypeOK', HoldsEvent, NEW w \in Workers,
         Complete(w) \/ CompleteLost(w) \/ FinishFailure(w),
         NEW e \in Events, e = worker[w].event, Owns(w), row' # row,
         CountedAt(e), FreshAt(w)
  PROVE  CountedAt(e)'
<1>1. /\ row'[e].attempts = row[e].attempts
      /\ \/ row'[e].status \in {"PROCESSED", "FAILED"}
         \/ /\ row'[e].status = "PENDING" /\ row'[e].available > 0
            /\ worker[w].phase = "FAILING" /\ worker[w].attempt < MaxAttempts
  BY FinishCounts
<1>2. /\ row[e].attempts \in Nat /\ faults \in Nat /\ MaxAttempts \in Nat
      /\ faults' \in {faults, faults + 1} /\ worker[w].attempt \in Nat
  BY Numbers, Moves DEF TypeOK, WorkerType
<1>3. row[e].attempts <= MaxAttempts + faults
  BY DEF CountedAt
<1>4. CASE row'[e].status \in {"PROCESSED", "FAILED"}
  BY <1>1, <1>2, <1>3, <1>4 DEF CountedAt
<1>5. CASE /\ row'[e].status = "PENDING" /\ row'[e].available > 0
           /\ worker[w].phase = "FAILING" /\ worker[w].attempt < MaxAttempts
  <2>1. LateOn(e)' = {}
    <3> SUFFICES ASSUME NEW u \in Workers, Claimable(u, e, worker[u].age)'
                 PROVE  FALSE
      BY DEF LateOn, LateWorkers
    <3>1. worker'[u].age \in Nat /\ row'[e].available \in Int
      BY DEF TypeOK, WorkerType, RowType, OutboxAssumption
    <3>2. row'[e].available <= 0 - worker'[u].age
      BY DEF Claimable
    <3> QED BY <1>5, <3>1, <3>2
  <2>2. Waiting(e)' = 0
    BY <2>1, FS_EmptySet DEF Waiting
  <2>3. row[e].attempts <= worker[w].attempt + faults
    BY <1>5 DEF FreshAt, Held
  <2>4. row'[e].attempts + Waiting(e)' < MaxAttempts + faults'
    BY <1>1, <1>2, <1>5, <2>2, <2>3
  <2>5. row'[e].attempts <= MaxAttempts + faults'
    BY <1>1, <1>2, <1>3
  <2> QED BY <1>5, <2>4, <2>5 DEF CountedAt
<1> QED BY <1>1, <1>4, <1>5

LEMMA QuietAlone ==
  ASSUME TypeOK, NEW w \in Workers, Quiet(w)
  PROVE  ~ Complete(w) /\ ~ FinishFailure(w)
<1> SUFFICES ASSUME Complete(w) \/ FinishFailure(w) PROVE FALSE
  OBVIOUS
<1>1. /\ worker[w].phase \in {"COMPLETING", "FAILING"} /\ ~ worker[w].stalled
      /\ faults' = faults /\ faults \in Int
  BY DEF Complete, FinishFailure, At, TypeOK
<1>2. CASE Select(w) \/ Collide(w) \/ EndBatch(w) \/ Exit(w) \/ Restart(w)
  BY <1>1, <1>2 DEF Select, Collide, EndBatch, Exit, Restart, At
<1>3. CASE HandlerResolves(w) \/ HandlerRejects(w) \/ TimeOut(w) \/ Resume(w)
  BY <1>1, <1>3 DEF HandlerResolves, HandlerRejects, TimeOut, Resume, At
<1>4. CASE Stall(w) \/ Crash(w) \/ Stop(w)
  BY <1>1, <1>4 DEF Stall, Crash, Stop, Fault
<1> QED BY <1>2, <1>3, <1>4 DEF Quiet

\* Time lets nobody claim who could not.
LEMMA TickWaiting ==
  ASSUME OutboxAssumption, TypeOK, HoldsEvent, LateFew, Tick, NEW e \in Events
  PROVE  Waiting(e) \in Nat /\ Waiting(e)' \in Nat /\ Waiting(e)' <= Waiting(e)
<1>1. LateOn(e)' \subseteq LateOn(e)
  <2> SUFFICES ASSUME NEW u \in LateOn(e)' PROVE u \in LateOn(e)
    OBVIOUS
  <2>1. u \in Workers /\ worker'[u].late /\ worker'[u].phase = "SELECTED"
        /\ worker'[u].event = e /\ Claimable(u, e, worker[u].age)'
    BY DEF LateOn, LateWorkers, Claimable
  <2>2. /\ worker[u].late /\ worker[u].phase = "SELECTED" /\ worker[u].event = e
    BY <2>1, TickLate
  <2>3. Claimable(u, worker[u].event, worker[u].age)'
    BY <2>1
  <2>4. Claimable(u, e, worker[u].age)
    BY <2>1, <2>2, <2>3, TickLate
  <2> QED BY <2>1, <2>2, <2>4 DEF LateOn, LateWorkers
<1> QED BY <1>1, WaitingFew, WaitingShrinks

LEMMA TickAttempts ==
  ASSUME TypeOK, Tick, NEW e \in Events
  PROVE  row'[e].attempts = row[e].attempts
BY DEF Tick, Later, TypeOK, RowType

LEMMA CountedStep ==
  ASSUME OutboxAssumption, TypeOK, TypeOK', HoldsEvent, OnTime, CountInv, [Next]_vars
  PROVE  Counted'
<1> SUFFICES ASSUME NEW e \in Events PROVE CountedAt(e)'
  BY DEF Counted
<1>1. /\ LateFew /\ BusyKnown /\ Young /\ CountedAt(e)
      /\ \A w \in Workers : FreshAt(w)
  BY DEF CountInv, Counted, Fresh
<1>2. /\ row[e].attempts \in Nat /\ faults \in Nat /\ MaxAttempts \in Nat /\ MaxAttempts > 0
  BY Numbers DEF OutboxAssumption
<1>3. CASE UNCHANGED vars
  <2>1. Waiting(e)' = Waiting(e) /\ (Kept(e)' <=> Kept(e))
    BY <1>3 DEF vars, Waiting, LateOn, LateWorkers, Claimable, Kept, Owns
  <2> QED BY <1>1, <1>3, <2>1 DEF vars, CountedAt
<1>4. CASE Tick
  <2>2. Waiting(e) \in Nat /\ Waiting(e)' \in Nat /\ Waiting(e)' <= Waiting(e)
    BY <1>1, <1>4, TickWaiting
  <2>3. Kept(e) => Kept(e)'
    <3>1. \A u \in Workers : /\ worker'[u].phase = worker[u].phase
                             /\ worker'[u].event = worker[u].event
                             /\ worker'[u].late = worker[u].late
      BY <1>4, TickLate
    <3>2. row'[e].status = row[e].status /\ row'[e].token = row[e].token
      BY <1>4, TickRows
    <3> QED BY <3>1, <3>2 DEF Kept, Owns
  <2>4. row'[e].status = row[e].status /\ row'[e].attempts = row[e].attempts
    BY <1>4, TickRows, TickAttempts
  <2>5. faults' >= faults
    <3>1. faults' = faults
      BY <1>4 DEF Tick
    <3> QED BY <1>2, <3>1
  <2> QED BY <1>1, <2>2, <2>3, <2>4, <2>5, CountedKept
<1>5. ASSUME NEW f \in Events, Append(f) \/ Cleanup(f)
      PROVE  CountedAt(e)'
  <2>1. worker' = worker /\ attempted' = attempted /\ faults' = faults
    BY <1>5 DEF Append, Cleanup
  <2>2. CASE e # f
    <3>1. row'[e] = row[e]
      BY <1>5, <2>2, RowsOfCommand
    <3>2. Waiting(e)' = Waiting(e) /\ (Kept(e)' <=> Kept(e))
      BY <2>1, <3>1 DEF Waiting, LateOn, LateWorkers, Claimable, Kept, Owns
    <3> QED BY <1>1, <2>1, <3>1, <3>2 DEF CountedAt
  <2>3. CASE e = f
    <3>1. row'[e].attempts = row[e].attempts
      BY <1>5, <2>3 DEF Append, Cleanup, TypeOK, RowType
    <3>2. CASE Cleanup(e)
      <4>1. row'[e].status = "DELETED"
        BY <3>2 DEF Cleanup, TypeOK, RowType
      <4> QED BY <1>1, <1>2, <2>1, <3>1, <4>1 DEF CountedAt
    <3>3. CASE Append(e)
      <4>1. row[e].status = "NONE" /\ row'[e].status = "PENDING"
        BY <3>3 DEF Append, TypeOK, RowType
      <4>2. LateOn(e)' = {}
        BY <1>1, <2>1, <4>1 DEF LateOn, LateWorkers, BusyKnown, Busy
      <4>3. Waiting(e)' = 0
        BY <4>2, FS_EmptySet DEF Waiting
      <4>4. row[e].attempts = 0
        BY <1>1, <4>1 DEF CountedAt
      <4> QED BY <1>2, <2>1, <3>1, <4>1, <4>3, <4>4 DEF CountedAt
    <3> QED BY <1>5, <2>3, <3>2, <3>3
  <2> QED BY <2>2, <2>3
<1>6. ASSUME NEW w \in Workers,
             \/ Claim(w) \/ Quiet(w) \/ Complete(w) \/ CompleteLost(w) \/ FinishFailure(w)
      PROVE  CountedAt(e)'
  <2>1. CASE Claim(w) /\ e = worker[w].event
    BY <1>1, <2>1, CountedClaim
  <2>2. CASE Claim(w) /\ e # worker[w].event
    <3>1. row'[e] = row[e]
      BY <2>2, ClaimRows
    <3> QED BY <1>1, <2>2, <3>1, CountedLeft
  <2>3. CASE Quiet(w)
    <3>1. row'[e] = row[e] /\ ~ Complete(w) /\ ~ FinishFailure(w)
      BY <2>3, QuietRows, QuietAlone
    <3> QED BY <1>1, <2>3, <3>1, CountedLeft
  <2>4. CASE Complete(w) \/ CompleteLost(w) \/ FinishFailure(w)
    <3>1. CASE e = worker[w].event /\ Owns(w) /\ row' # row
      BY <1>1, <2>4, <3>1, CountedFinish
    <3>2. CASE e # worker[w].event
      <4>1. row'[e] = row[e]
        BY <2>4, <3>2, FinishCounts
      <4> QED BY <1>1, <2>4, <3>2, <4>1, CountedLeft
    <3>3. CASE row' = row
      <4>1. CASE ~ Owns(w)
        BY <1>1, <2>4, <3>3, <4>1, CountedLeft
      <4>2. CASE Owns(w)
        <5>1. CompleteLost(w)
          BY <2>4, <3>3, <4>2, FinishCounts DEF Owns
        <5>2. ~ Complete(w) /\ ~ FinishFailure(w)
          BY <1>2, <5>1 DEF CompleteLost, Complete, FinishFailure
        <5> QED BY <1>1, <3>3, <5>1, <5>2, CountedLeft
      <4> QED BY <4>1, <4>2
    <3>4. ~ Owns(w) => row' = row
      BY <2>4, FinishCounts
    <3> QED BY <3>1, <3>2, <3>3, <3>4
  <2> QED BY <1>6, <2>1, <2>2, <2>3, <2>4
<1> QED BY <1>3, <1>4, <1>5, <1>6, Steps

\* Only a claim counts an attempt.
LEMMA AttemptsOfStep ==
  ASSUME OutboxAssumption, TypeOK, HoldsEvent, NEW w \in Workers,
         \/ Claim(w) \/ Quiet(w) \/ Complete(w) \/ CompleteLost(w) \/ FinishFailure(w),
         NEW e \in Events, ~ (Claim(w) /\ worker[w].event = e)
  PROVE  row'[e].attempts = row[e].attempts
<1>1. CASE Claim(w)
  BY <1>1, ClaimRows
<1>2. CASE Quiet(w)
  BY <1>2, QuietRows
<1>3. CASE Complete(w) \/ CompleteLost(w) \/ FinishFailure(w)
  BY <1>3, FinishCounts
<1> QED BY <1>1, <1>2, <1>3

\* A worker whose event, row and attempt stay is as fresh as before, if what others
\* add to the attempts or to those waiting is paid for with a fault.
LEMMA FreshKept ==
  ASSUME OutboxAssumption, TypeOK, TypeOK', NEW u \in Workers, NEW e \in Events,
         e = worker[u].event, worker'[u].event = e, worker'[u].attempt = worker[u].attempt,
         FreshAt(u), Waiting(e) \in Nat, Waiting(e)' \in Nat, faults' >= faults,
         worker'[u].phase = "SELECTED" /\ Claimable(u, e, worker[u].age)' =>
           /\ worker[u].phase = "SELECTED" /\ Claimable(u, e, worker[u].age)
           /\ row'[e].attempts + Waiting(e)' + faults <= row[e].attempts + Waiting(e) + faults',
         worker'[u].phase \in Held /\ Owns(u)' =>
           worker[u].phase \in Held /\ Owns(u) /\ row'[e].attempts = row[e].attempts
  PROVE  FreshAt(u)'
<1>1. /\ row[e].attempts \in Nat /\ faults \in Nat /\ row'[e].attempts \in Nat /\ faults' \in Nat
      /\ worker[u].attempt \in Nat
  BY Numbers DEF TypeOK, RowType, WorkerType, OutboxAssumption
<1>2. ASSUME worker'[u].phase = "SELECTED", Claimable(u, e, worker[u].age)'
      PROVE  row'[e].attempts + 1 + Waiting(e)' <= worker'[u].attempt + faults'
  <2>1. row[e].attempts + 1 + Waiting(e) <= worker[u].attempt + faults
    BY <1>2 DEF FreshAt
  <2> QED BY <1>1, <1>2, <2>1
<1>3. ASSUME worker'[u].phase \in Held, Owns(u)'
      PROVE  row'[e].attempts <= worker'[u].attempt + faults'
  <2>1. row[e].attempts <= worker[u].attempt + faults
    BY <1>3 DEF FreshAt
  <2> QED BY <1>1, <1>3, <2>1
<1> QED BY <1>2, <1>3 DEF FreshAt

\* The steps of another worker.
LEMMA FreshOthers ==
  ASSUME OutboxAssumption, TypeOK, TypeOK', HoldsEvent, OnTime, LateFew, NEW w \in Workers,
         \/ Claim(w) \/ Quiet(w) \/ Complete(w) \/ CompleteLost(w) \/ FinishFailure(w),
         NEW u \in Workers, u # w, FreshAt(u)
  PROVE  FreshAt(u)'
<1>1. worker'[u] = worker[u] /\ attempted'[u] = attempted[u]
  BY Moves
<1>2. CASE worker[u].phase \notin Busy
  BY <1>1, <1>2 DEF FreshAt, Busy, Held
<1>3. CASE worker[u].phase \in Busy
  <2>0. PICK e \in Events : e = worker[u].event
    BY <1>3 DEF HoldsEvent
  <2>1. e \in Events /\ worker'[u].event = e
    BY <1>1, <2>0
  <2>2. /\ Waiting(e) \in Nat /\ Waiting(e)' \in Nat
        /\ ~ Stall(w) => Waiting(e)' <= Waiting(e)
        /\ Waiting(e)' <= Waiting(e) + 1
        /\ Claim(w) /\ worker[w].late /\ worker[w].event = e => Waiting(e)' + 1 <= Waiting(e)
    BY <2>1, WaitingOfStep
  <2>3. /\ faults' \in {faults, faults + 1} /\ faults \in Nat
        /\ Stall(w) => faults' = faults + 1
    BY <2>1, Moves, Numbers
  <2>4. /\ row[e].attempts \in Nat
    BY <2>1, Numbers
  <2>5. ASSUME worker[u].phase = "SELECTED", Claimable(u, e, worker[u].age)'
        PROVE  /\ Claimable(u, e, worker[u].age)
               /\ row'[e].attempts + Waiting(e)' + faults <= row[e].attempts + Waiting(e) + faults'
    <3>1. /\ worker[u].age \in 0 .. MaxStall /\ e \notin attempted[u]
          /\ Open(row'[e], worker[u].age)
      BY <1>1, <2>5 DEF Claimable, Open, TypeOK, WorkerType
    <3>2. Claimable(u, e, worker[u].age)
      BY <2>1, <3>1, OpenShrinks, ClaimableOpen
    <3>3. CASE Claim(w) /\ worker[w].event = e
      <4>1. worker[w].late
        <5> SUFFICES ASSUME ~ worker[w].late PROVE FALSE
          OBVIOUS
        <5>1. worker[w].age = 0
          BY <3>3, ClaimCounts DEF OnTime
        <5>2. row'[e].locked = 0 /\ row'[e].status = "PROCESSING"
          BY <3>3, <5>1, ClaimRows
        <5> QED BY <3>1, <5>2 DEF Open, OutboxAssumption
      <4>2. row'[e].attempts = row[e].attempts + 1 /\ faults' = faults
        BY <3>3, ClaimCounts
      <4> QED BY <2>2, <2>3, <2>4, <3>2, <3>3, <4>1, <4>2
    <3>4. CASE ~ (Claim(w) /\ worker[w].event = e)
      <4>1. row'[e].attempts = row[e].attempts
        BY <2>1, <3>4, AttemptsOfStep
      <4> QED BY <2>2, <2>3, <2>4, <3>2, <4>1
    <3> QED BY <3>3, <3>4
  <2>6. ASSUME worker[u].phase \in Held, Owns(u)'
        PROVE  Owns(u) /\ row'[e].attempts = row[e].attempts
    <3>1. row'[e].status = "PROCESSING" /\ row'[e].token = u
      BY <2>1, <2>6 DEF Owns
    <3>2. row'[e] = row[e]
      <4>1. CASE Claim(w)
        BY <2>1, <3>1, <4>1, ClaimRows
      <4>2. CASE Quiet(w)
        BY <4>2, QuietRows
      <4>3. CASE Complete(w) \/ CompleteLost(w) \/ FinishFailure(w)
        BY <2>1, <3>1, <4>3, FinishCounts
      <4> QED BY <4>1, <4>2, <4>3
    <3> QED BY <2>0, <3>1, <3>2 DEF Owns
  <2>7. faults' >= faults
    BY <2>3
  <2> QED BY <1>1, <2>1, <2>2, <2>5, <2>6, <2>7, <2>0, FreshKept
<1> QED BY <1>2, <1>3

\* The worker's own steps.
LEMMA FreshOwn ==
  ASSUME OutboxAssumption, TypeOK, TypeOK', HoldsEvent, LateFew, NEW w \in Workers,
         \/ Claim(w) \/ Quiet(w) \/ Complete(w) \/ CompleteLost(w) \/ FinishFailure(w),
         FreshAt(w)
  PROVE  FreshAt(w)'
<1>1. CASE worker'[w].phase \notin Busy
  BY <1>1 DEF FreshAt, Busy, Held
<1>2. CASE Select(w)
  <2>0. PICK e \in Events : e = worker'[w].event
    BY <1>2, SelectTakes
  <2>1. /\ e \in Events /\ worker'[w].phase = "SELECTED" /\ row' = row /\ faults' = faults
        /\ worker'[w].attempt = row[e].attempts + 1
    BY <1>2, <2>0, SelectTakes
  <2>2. ~ Stall(w)
    BY <2>1, <1>2 DEF Select, Stall, At
  <2>3. Waiting(e) \in Nat /\ Waiting(e)' \in Nat /\ Waiting(e)' <= Waiting(e)
        /\ Waiting(e) <= faults
    BY <2>1, <2>2, WaitingOfStep, WaitingFew
  <2>4. row[e].attempts \in Nat /\ faults \in Nat
    BY <2>1, Numbers
  <2>5. row'[e].attempts + 1 + Waiting(e)' <= worker'[w].attempt + faults'
    BY <2>1, <2>3, <2>4
  <2> QED BY <2>1, <2>5, <2>0 DEF FreshAt, Held
<1>3. CASE Claim(w)
  <2>0. PICK e \in Events : e = worker[w].event
    BY <1>3, ClaimRows
  <2>1. /\ row'[e].attempts = row[e].attempts + 1 /\ Claimable(w, e, worker[w].age)
        /\ worker[w].phase = "SELECTED" /\ worker'[w].phase \in Held
        /\ worker'[w].event = e /\ worker'[w].attempt = worker[w].attempt
        /\ faults' = faults
    BY <1>3, <2>0, ClaimCounts DEF Held
  <2>3. row[e].attempts + 1 + Waiting(e) <= worker[w].attempt + faults
    BY <2>1, <2>0 DEF FreshAt
  <2>4. row[e].attempts \in Nat /\ faults \in Nat /\ Waiting(e) \in Nat
        /\ worker[w].attempt \in Nat
    BY <2>0, Numbers, WaitingFew DEF TypeOK, WorkerType
  <2>5. row'[e].attempts <= worker'[w].attempt + faults'
    BY <2>1, <2>3, <2>4
  <2> QED BY <2>1, <2>5 DEF FreshAt, Held
<1>4. CASE GoesOn(w) /\ ~ Claim(w) /\ worker'[w].phase \in Busy
  <2>0. PICK e \in Events : e = worker[w].event
    BY <1>4 DEF GoesOn, HoldsEvent, Busy, Held
  <2>1. e \in Events /\ worker'[w].event = e /\ worker'[w].age = worker[w].age
        /\ worker'[w].attempt = worker[w].attempt /\ attempted' = attempted
    BY <1>4, <2>0 DEF GoesOn
  <2>2. /\ worker'[w].phase = "SELECTED" => worker[w].phase = "SELECTED"
        /\ worker'[w].phase \in Held => worker[w].phase \in Held
    BY <1>4 DEF GoesOn, Held
  <2>3. /\ Waiting(e) \in Nat /\ Waiting(e)' \in Nat
        /\ ~ Stall(w) => Waiting(e)' <= Waiting(e)
        /\ Waiting(e)' <= Waiting(e) + 1
    BY <2>1, WaitingOfStep
  <2>4. /\ faults' \in {faults, faults + 1} /\ faults \in Nat /\ row[e].attempts \in Nat
        /\ Stall(w) => faults' = faults + 1
    BY <2>1, Moves, Numbers
  <2>5. row'[e].attempts = row[e].attempts
    BY <1>4, <2>1, AttemptsOfStep
  <2>6. row'[e].attempts + Waiting(e)' + faults <= row[e].attempts + Waiting(e) + faults'
    BY <2>3, <2>4, <2>5
  <2>7. Claimable(w, e, worker[w].age)' => Claimable(w, e, worker[w].age)
    <3> SUFFICES ASSUME Claimable(w, e, worker[w].age)' PROVE Claimable(w, e, worker[w].age)
      OBVIOUS
    <3>1. /\ worker[w].age \in 0 .. MaxStall /\ e \notin attempted[w]
          /\ Open(row'[e], worker[w].age)
      BY <2>1 DEF Claimable, Open, TypeOK, WorkerType
    <3> QED BY <2>1, <3>1, OpenShrinks, ClaimableOpen
  <2>8. Owns(w)' => Owns(w)
    <3> SUFFICES ASSUME Owns(w)' PROVE Owns(w)
      OBVIOUS
    <3>1. row'[e].status = "PROCESSING"
      BY <2>1 DEF Owns
    <3>2. row'[e] = row[e]
      <4>1. CASE Quiet(w)
        BY <4>1, QuietRows
      <4>2. CASE Complete(w) \/ CompleteLost(w) \/ FinishFailure(w)
        BY <2>1, <3>1, <4>2, FinishCounts
      <4> QED BY <1>4, <4>1, <4>2
    <3> QED BY <2>1, <2>0, <3>2 DEF Owns
  <2>9. faults' >= faults
    BY <2>4
  <2> QED BY <2>1, <2>2, <2>3, <2>5, <2>6, <2>7, <2>8, <2>9, <2>0, FreshKept
<1> QED BY <1>1, <1>2, <1>3, <1>4, Moves DEF LetsGo

LEMMA FreshStep ==
  ASSUME OutboxAssumption, TypeOK, TypeOK', HoldsEvent, OnTime, CountInv, [Next]_vars
  PROVE  Fresh'
<1> SUFFICES ASSUME NEW u \in Workers PROVE FreshAt(u)'
  BY DEF Fresh
<1>1. LateFew /\ BusyKnown /\ FreshAt(u)
  BY DEF CountInv, Fresh
<1>2. CASE UNCHANGED vars
  BY <1>1, <1>2 DEF vars, FreshAt, Claimable, Waiting, LateOn, LateWorkers, Owns
<1>3. CASE worker'[u].phase \notin Busy
  BY <1>3 DEF FreshAt, Busy, Held
<1>4. CASE Tick /\ worker'[u].phase \in Busy
  <2>0. PICK e \in Events : e = worker[u].event
    BY <1>4, TickLate DEF HoldsEvent
  <2>1. e \in Events /\ worker'[u].event = e /\ worker'[u].attempt = worker[u].attempt
        /\ worker'[u].phase = worker[u].phase
    BY <1>4, <2>0, TickLate
  <2>2. Claimable(u, e, worker[u].age)' /\ worker[u].phase = "SELECTED"
          => Claimable(u, e, worker[u].age)
    BY <1>4, <2>1, <2>0, TickLate
  <2>3. Waiting(e) \in Nat /\ Waiting(e)' \in Nat /\ Waiting(e)' <= Waiting(e)
    BY <1>1, <1>4, <2>1, TickWaiting
  <2>4. faults' = faults /\ faults \in Nat /\ row[e].attempts \in Nat
    BY <1>4, <2>1, Numbers DEF Tick
  <2>5. row'[e].attempts = row[e].attempts /\ row'[e].status = row[e].status
        /\ row'[e].token = row[e].token
    BY <1>4, <2>1, TickRows, TickAttempts
  <2>6. row'[e].attempts + Waiting(e)' + faults <= row[e].attempts + Waiting(e) + faults'
    BY <2>3, <2>4, <2>5
  <2>7. Owns(u)' => Owns(u)
    BY <2>1, <2>5, <2>0 DEF Owns
  <2>8. faults' >= faults
    BY <2>4
  <2> QED BY <1>1, <2>1, <2>2, <2>3, <2>5, <2>6, <2>7, <2>8, <2>0, FreshKept
<1>5. ASSUME NEW f \in Events, Append(f) \/ Cleanup(f), worker'[u].phase \in Busy
      PROVE  FreshAt(u)'
  <2>1. worker' = worker /\ attempted' = attempted /\ faults' = faults
    BY <1>5 DEF Append, Cleanup
  <2>2. PICK e \in Events : e = worker[u].event /\ row[e].status # "NONE"
    BY <1>1, <1>5, <2>1 DEF HoldsEvent, BusyKnown
  <2>3. CASE e # f
    <3>1. row'[e] = row[e]
      BY <1>5, <2>2, <2>3, RowsOfCommand
    <3> QED BY <1>1, <2>1, <2>2, <3>1
         DEF FreshAt, Claimable, Waiting, LateOn, LateWorkers, Owns
  <2>4. CASE e = f
    <3>1. row'[e].status = "DELETED"
      BY <1>5, <2>2, <2>4, RowsOfCommand
    <3> QED BY <2>1, <2>2, <3>1 DEF FreshAt, Claimable, Owns
  <2> QED BY <2>3, <2>4
<1>6. ASSUME NEW w \in Workers,
             \/ Claim(w) \/ Quiet(w) \/ Complete(w) \/ CompleteLost(w) \/ FinishFailure(w)
      PROVE  FreshAt(u)'
  <2>1. CASE u = w
    BY <1>1, <1>6, <2>1, FreshOwn
  <2>2. CASE u # w
    BY <1>1, <1>6, <2>2, FreshOthers
  <2> QED BY <2>1, <2>2
<1> QED BY <1>2, <1>3, <1>4, <1>5, <1>6, Steps

-----------------------------------------------------------------------------
(* The theorems.                                                           *)

LEMMA IInvInit == OutboxAssumption /\ Init => IInv
<1> SUFFICES ASSUME OutboxAssumption, Init PROVE IInv
  OBVIOUS
<1>1. TypeOK
  BY TypeInit
<1>2. \A w \in Workers : worker[w] = Idle
  BY DEF Init
<1>3. HoldsEvent /\ CompletingDelivered /\ OnTime
  BY <1>2 DEF HoldsEvent, CompletingDelivered, OnTime, Idle, Busy
<1>4. ProcessedWasDelivered
  BY DEF Init, ProcessedWasDelivered
<1> QED BY <1>1, <1>3, <1>4 DEF IInv

LEMMA IInvStep == OutboxAssumption /\ IInv /\ [Next]_vars => IInv'
<1> SUFFICES ASSUME OutboxAssumption, IInv, [Next]_vars PROVE IInv'
  OBVIOUS
<1>1. TypeOK /\ HoldsEvent /\ ProcessedWasDelivered /\ CompletingDelivered /\ OnTime
  BY DEF IInv
<1>2. TypeOK' /\ HoldsEvent'
  BY <1>1, TypeStep
<1>3. CompletingDelivered' /\ delivered \subseteq delivered'
  BY <1>1, CompletingStep
<1>4. OnTime'
  BY <1>1, OnTimeStep
<1>5. ProcessedWasDelivered'
  <2> SUFFICES ASSUME NEW e \in Events, row'[e].status \in {"PROCESSED", "DELETED"}
               PROVE  e \in delivered'
    BY DEF ProcessedWasDelivered
  <2>1. e \in delivered
    BY <1>1, StatusStep DEF ProcessedWasDelivered
  <2> QED BY <1>3, <2>1
<1> QED BY <1>2, <1>3, <1>4, <1>5 DEF IInv

THEOREM IInvCorrect == Spec => []IInv
BY IInvInit, IInvStep, OutboxAssumption, PTL DEF Spec

(***************************************************************************)
(* Rows and workers keep their types; availableAt and lockedAt stay within *)
(* what the comparisons of the code can tell apart.                        *)
(***************************************************************************)
THEOREM TypeCorrect == Spec => []TypeOK
<1>1. IInv => TypeOK
  BY DEF IInv
<1> QED BY IInvCorrect, <1>1, PTL

(***************************************************************************)
(* No event is marked processed that no handler has dealt with, for any    *)
(* number of workers, crashes, stalls and lost answers.                    *)
(***************************************************************************)
THEOREM ProcessedWasDeliveredCorrect == Spec => []ProcessedWasDelivered
<1>1. IInv => ProcessedWasDelivered
  BY DEF IInv
<1> QED BY IInvCorrect, <1>1, PTL

(***************************************************************************)
(* As a lease outlasts the handler timeout, only a worker that was late    *)
(* loses its lease while it handles or completes an event.                 *)
(***************************************************************************)
THEOREM LeaseLostOnlyWhenLateCorrect == Spec => []LeaseLostOnlyWhenLate
<1>1. IInv => LeaseLostOnlyWhenLate
  BY DEF IInv, OnTime, LeaseLostOnlyWhenLate, TypeOK, WorkerType
<1> QED BY IInvCorrect, <1>1, PTL

(***************************************************************************)
(* A processed event is never retried and a failed one never revived,      *)
(* whoever answers late.                                                   *)
(***************************************************************************)
THEOREM VerdictIsFinalCorrect == Spec => VerdictIsFinal
<1> DEFINE Final == \A e \in Events :
       /\ row[e].status = "PROCESSED" => row'[e].status \in {"PROCESSED", "DELETED"}
       /\ row[e].status = "FAILED" => row'[e].status = "FAILED"
<1>1. IInv /\ [Next]_vars => [Final]_vars
  BY StatusStep, OutboxAssumption DEF IInv
<1> QED BY IInvCorrect, <1>1, PTL DEF Spec, VerdictIsFinal

LEMMA CountInvInit == OutboxAssumption /\ Init => CountInv
<1> SUFFICES ASSUME OutboxAssumption, Init PROVE CountInv
  OBVIOUS
<1>1. \A w \in Workers : worker[w] = Idle
  BY DEF Init
<1>2. LateWorkers = {}
  BY <1>1 DEF LateWorkers, Idle
<1>3. LateFew
  BY <1>2, FS_EmptySet DEF LateFew, Init
<1>4. BusyKnown /\ Young /\ Fresh
  BY <1>1 DEF BusyKnown, Young, Fresh, FreshAt, Idle, Busy, Held
<1>5. \A e \in Events : row[e].status = "NONE" /\ row[e].attempts = 0
  BY DEF Init
<1>6. Counted
  BY <1>5 DEF Counted, CountedAt, Init, OutboxAssumption
<1> QED BY <1>3, <1>4, <1>6 DEF CountInv

LEMMA CountInvStep == OutboxAssumption /\ IInv /\ CountInv /\ [Next]_vars => CountInv'
<1> SUFFICES ASSUME OutboxAssumption, IInv, CountInv, [Next]_vars PROVE CountInv'
  OBVIOUS
<1>1. TypeOK /\ HoldsEvent /\ OnTime /\ LateFew /\ BusyKnown /\ Young
  BY DEF IInv, CountInv
<1>2. TypeOK'
  BY <1>1, TypeStep
<1>3. LateFew' /\ BusyKnown' /\ Young'
  BY <1>1, LateFewStep, BusyKnownStep, YoungStep
<1>4. Counted' /\ Fresh'
  BY <1>1, <1>2, CountedStep, FreshStep
<1> QED BY <1>3, <1>4 DEF CountInv

(***************************************************************************)
(* A fault costs an event one attempt at most, whatever claims come late,  *)
(* whichever leases expire and however many workers count the same event.  *)
(***************************************************************************)
THEOREM AttemptsWithinFaultsCorrect == Spec => []AttemptsWithinFaults
<1>1. IInv /\ CountInv => AttemptsWithinFaults
  <2> SUFFICES ASSUME IInv, CountInv, NEW e \in Events
               PROVE  /\ row[e].attempts <= MaxAttempts + faults
                      /\ row[e].status = "PENDING" => row[e].attempts < MaxAttempts + faults
    BY DEF AttemptsWithinFaults
  <2>1. CountedAt(e) /\ TypeOK /\ LateFew
    BY DEF IInv, CountInv, Counted
  <2>2. row[e].attempts \in Nat /\ faults \in Nat /\ MaxAttempts \in Nat /\ Waiting(e) \in Nat
    BY <2>1, Numbers, WaitingFew, OutboxAssumption
  <2> QED BY <2>1, <2>2 DEF CountedAt
<1> QED BY IInvInit, IInvStep, CountInvInit, CountInvStep, OutboxAssumption, <1>1, PTL DEF Spec

=============================================================================
