---------------------- MODULE IdempotentCommand_proofs ----------------------
(***************************************************************************)
(* Proofs about IdempotentCommand, for any number of requests, bodies and  *)
(* attempts: its type invariant, that the work is done once, that recovery *)
(* tells the truth, and that it implements CommandOnce.                    *)
(***************************************************************************)
EXTENDS IdempotentCommand, TLAPS

\* A request holds the key exactly while its record is inserted and uncommitted,
\* and nobody holds a decided key.
HolderIsInserter ==
  /\ \A r \in Requests : request[r].phase \in {"INSERTED", "READY"} <=> holder = r
  /\ holder # Nobody => record = Undecided

\* A request has a body from its arrival, and an answer only at its end.
Conversation ==
  \A r \in Requests :
    /\ request[r].phase = "NEW" <=> asked[r] = Nothing
    /\ request[r].phase # "ANSWERED" => answer[r] = Nothing
    /\ request[r].phase = "COMMITTED" => record # Undecided

\* What was answered, or recovered, is what the record says.
FollowsRecord ==
  /\ \A r \in Requests : answer[r] \in {"SUCCEEDED", "REJECTED"} =>
       record # Undecided /\ record.kind = answer[r]
  /\ "CONFIRMED" \in recovered => record # Undecided /\ record.kind = "SUCCEEDED"
  /\ "REJECTED" \in recovered => record # Undecided /\ record.kind = "REJECTED"

IInv == TypeOK /\ HolderIsInserter /\ Conversation /\ FollowsRecord /\ DoneOnceIffSucceeded

-----------------------------------------------------------------------------
(* The actions, by what they may do to a request.                          *)

\* Only a decided key has a kind, and no outcome is Undecided.
LEMMA OutcomeDecided ==
  ASSUME NEW o \in Outcomes
  PROVE  o # Undecided /\ o.kind \in {"SUCCEEDED", "REJECTED"} /\ o.fingerprint \in Fingerprints
BY DEF Outcomes, Undecided

\* The invariant holds initially.
LEMMA IInvInit == Init => IInv
<1> SUFFICES ASSUME Init PROVE IInv
  OBVIOUS
<1>1. TypeOK
  BY CommandAssumption DEF Init, TypeOK, RequestType, Phase, Over
<1>2. \A r \in Requests : request[r].phase = "NEW" /\ asked[r] = Nothing /\ answer[r] = Nothing
  BY DEF Init, Over
<1>3. HolderIsInserter
  BY <1>2, CommandAssumption DEF Init, HolderIsInserter
<1>4. Conversation
  BY <1>2 DEF Conversation
<1>5. FollowsRecord
  BY <1>2 DEF Init, FollowsRecord, Nothing
<1>6. DoneOnceIffSucceeded
  BY DEF Init, DoneOnceIffSucceeded, Undecided
<1> QED BY <1>1, <1>3, <1>4, <1>5, <1>6 DEF IInv

\* Request r ends with an answer that agrees with the record, or with an error.
Told(r) ==
  \E a \in Answers :
    /\ Reply(r, a)
    /\ \/ a = "ERROR"
       \/ record # Undecided /\ a = (IF record.fingerprint = asked[r] THEN record.kind
                                       ELSE "MISMATCH")

\* Resolve tells a request what the record says.
LEMMA ResolveTells ==
  ASSUME IInv, NEW r \in Requests, Resolve(r), record # Undecided
  PROVE  Told(r)
BY OutcomeDecided DEF Resolve, Told, IInv, TypeOK, Answers

\* Reading the key either tells the request, or finds the key absent.
LEMMA BeginEffect ==
  ASSUME IInv, NEW r \in Requests, Begin(r)
  PROVE  /\ request[r].phase = "START"
         /\ Told(r) \/ (Go(r, "ABSENT") /\ UNCHANGED answer)
         /\ UNCHANGED <<record, holder, asked, effects, recovered>>
BY ResolveTells DEF Begin, Told, Answers

\* The fresh read after a lost race tells the request.
LEMMA RereadEffect ==
  ASSUME IInv, NEW r \in Requests, Reread(r)
  PROVE  /\ request[r].phase = "REREAD"
         /\ Told(r)
         /\ UNCHANGED <<record, holder, asked, effects, recovered>>
BY ResolveTells DEF Reread, Told, Answers

\* The end of a committed transaction tells the request.
LEMMA ReturnEffect ==
  ASSUME IInv, NEW r \in Requests, Return(r)
  PROVE  /\ request[r].phase = "COMMITTED"
         /\ Told(r)
         /\ UNCHANGED <<record, holder, asked, effects, recovered>>
<1>1. request[r].phase = "COMMITTED" /\ record # Undecided
  BY DEF Return, IInv, Conversation
<1> QED BY <1>1, ResolveTells DEF Return, Told, Answers

-----------------------------------------------------------------------------
(* Types.                                                                  *)

\* Ending a request keeps the types.
LEMMA ReplyTyped ==
  ASSUME TypeOK, NEW r \in Requests, NEW a \in Answers, Reply(r, a)
  PROVE  /\ request' \in [Requests -> RequestType]
         /\ answer' \in [Requests -> Answers \cup {Nothing}]
BY CommandAssumption DEF TypeOK, Reply, Over, RequestType, Phase

\* Moving a request on keeps the types.
LEMMA GoTyped ==
  ASSUME TypeOK, NEW r \in Requests, NEW p \in Phase, Go(r, p)
  PROVE  request' \in [Requests -> RequestType]
BY DEF TypeOK, Go, RequestType

\* Telling a request keeps the types.
LEMMA ToldTyped ==
  ASSUME TypeOK, NEW r \in Requests, Told(r)
  PROVE  /\ request' \in [Requests -> RequestType]
         /\ answer' \in [Requests -> Answers \cup {Nothing}]
BY ReplyTyped DEF Told

\* Telling a request ends it, and leaves the others where they are.
LEMMA ToldEndsOne ==
  ASSUME TypeOK, NEW r \in Requests, Told(r)
  PROVE  /\ request'[r].phase = "ANSWERED"
         /\ \A q \in Requests \ {r} : request'[q] = request[q] /\ answer'[q] = answer[q]
<1>1. PICK a \in Answers : Reply(r, a)
  BY DEF Told
<1>2. request'[r] = Over("ANSWERED")
  BY <1>1 DEF Reply, TypeOK
<1>3. \A q \in Requests \ {r} : request'[q] = request[q] /\ answer'[q] = answer[q]
  BY <1>1 DEF Reply, TypeOK
<1> QED BY <1>2, <1>3 DEF Over

\* Every step keeps the types.
LEMMA TypedStep ==
  ASSUME IInv, [Next]_vars
  PROVE  TypeOK'
<1> USE CommandAssumption DEF IInv
<1>1. ASSUME NEW r \in Requests, NEW f \in Fingerprints, Arrive(r, f) PROVE TypeOK'
  BY <1>1 DEF Arrive, Go, TypeOK, RequestType, Phase, Answers, Outcomes
<1>2. ASSUME NEW r \in Requests, Begin(r) PROVE TypeOK'
  BY <1>2, BeginEffect, GoTyped, ToldTyped DEF TypeOK, Phase
<1>3. ASSUME NEW r \in Requests, Insert(r) PROVE TypeOK'
  BY <1>3 DEF Insert, Go, Reply, Over, TypeOK, RequestType, Phase, Answers, Outcomes
<1>4. ASSUME NEW r \in Requests, UniqueConflict(r) PROVE TypeOK'
  BY <1>4 DEF UniqueConflict, Go, Reply, Over, TypeOK, RequestType, Phase, Answers, Outcomes
<1>5. ASSUME NEW r \in Requests, Reread(r) PROVE TypeOK'
  BY <1>5, RereadEffect, ToldTyped DEF TypeOK, Phase
<1>6. ASSUME NEW r \in Requests, WorkSucceeds(r) PROVE TypeOK'
  BY <1>6 DEF WorkSucceeds, Go, Reply, Over, TypeOK, RequestType, Phase, Answers, Outcomes
<1>7. ASSUME NEW r \in Requests, WorkFails(r) PROVE TypeOK'
  BY <1>7 DEF WorkFails, Release, Reply, Over, TypeOK, RequestType, Phase, Answers, Outcomes
<1>8. ASSUME NEW r \in Requests, WorkConflicts(r) PROVE TypeOK'
  <2>1. CASE Reply(r, "ERROR")
    BY <1>8, <2>1, ReplyTyped DEF WorkConflicts, Release, TypeOK, Answers
  <2>2. CASE Go(r, "REREAD") /\ UNCHANGED answer
    BY <1>8, <2>2, GoTyped DEF WorkConflicts, Release, TypeOK, Phase
  <2> QED BY <1>8, <2>1, <2>2 DEF WorkConflicts
<1>9. ASSUME NEW r \in Requests, WorkRejected(r) PROVE TypeOK'
  <2>1. CASE Reply(r, "ERROR")
    BY <1>9, <2>1, ReplyTyped DEF WorkRejected, TypeOK, Answers
  <2>2. CASE /\ request' = [request EXCEPT ![r].phase = "START", ![r].mode = "REJECT",
                                           ![r].attempt = 1]
             /\ UNCHANGED answer
    <3>1. 1 \in 1 .. MaxAttempts
      OBVIOUS
    <3>2. [request[r] EXCEPT !.phase = "START", !.mode = "REJECT", !.attempt = 1] \in RequestType
      BY <3>1 DEF TypeOK, RequestType, Phase
    <3>3. request' \in [Requests -> RequestType]
      BY <2>2, <3>2 DEF TypeOK
    <3>4. holder' \in Requests \cup {Nobody, Orphan}
      BY <1>9 DEF WorkRejected
    <3> QED BY <1>9, <2>2, <3>3, <3>4 DEF WorkRejected, TypeOK
  <2> QED BY <1>9, <2>1, <2>2 DEF WorkRejected
<1>10. ASSUME NEW r \in Requests, Abort(r) PROVE TypeOK'
  <2>1. CASE Reply(r, "ERROR")
    BY <1>10, <2>1, ReplyTyped DEF Abort, Release, TypeOK, Answers
  <2>2. CASE /\ request[r].attempt < MaxAttempts
             /\ request' = [request EXCEPT ![r].phase = "START", ![r].attempt = @ + 1]
             /\ UNCHANGED answer
    <3>1. request[r].attempt + 1 \in 1 .. MaxAttempts
      BY <2>2 DEF TypeOK, RequestType
    <3>2. request' \in [Requests -> RequestType]
      BY <2>2, <3>1 DEF TypeOK, RequestType, Phase
    <3> QED BY <1>10, <2>2, <3>2 DEF Abort, Release, TypeOK
  <2> QED BY <1>10, <2>1, <2>2 DEF Abort
<1>11. ASSUME NEW r \in Requests, Commit(r) PROVE TypeOK'
  <2>1. asked[r] \in Fingerprints
    BY <1>11 DEF Commit, TypeOK, Conversation
  <2>2. record' \in Outcomes
    BY <1>11, <2>1 DEF Commit, Outcomes
  <2>3. request' \in [Requests -> RequestType]
    BY <1>11, GoTyped DEF Commit, Phase
  <2>4. effects' \in Nat
    BY <1>11 DEF Commit, TypeOK
  <2> QED BY <1>11, <2>2, <2>3, <2>4 DEF Commit, TypeOK
<1>12. ASSUME NEW r \in Requests, Return(r) PROVE TypeOK'
  BY <1>12, ReturnEffect, ToldTyped DEF TypeOK, Phase
<1>13. ASSUME NEW r \in Requests, Expire(r) PROVE TypeOK'
  <2>1. request' \in [Requests -> RequestType]
    BY <1>13 DEF Expire, TypeOK, RequestType
  <2> QED BY <1>13, <2>1 DEF Expire, TypeOK
<1>14. ASSUME NEW r \in Requests, Crash(r) PROVE TypeOK'
  BY <1>14 DEF Crash, Active, Reply, Over, TypeOK, RequestType, Phase, Answers, Outcomes
<1>15. CASE RollBackOrphan
  BY <1>15 DEF RollBackOrphan, TypeOK, RequestType, Phase, Answers, Outcomes
<1>16. CASE Recover
  BY <1>16 DEF Recover, TypeOK, RequestType, Phase, Answers, Outcomes
<1>17. CASE UNCHANGED vars
  BY <1>17 DEF vars, TypeOK, RequestType, Phase, Answers, Outcomes
<1> QED BY ONLY <1>1, <1>2, <1>3, <1>4, <1>5, <1>6, <1>7, <1>8, <1>9, <1>10, <1>11, <1>12, <1>13, <1>14, <1>15, <1>16, <1>17, [Next]_vars DEF Next, Progress

\* Every step keeps the key with the request whose record is inserted.
LEMMA HolderStep ==
  ASSUME IInv, [Next]_vars
  PROVE  HolderIsInserter'
<1> USE CommandAssumption DEF IInv
<1>1. ASSUME NEW r \in Requests, NEW f \in Fingerprints, Arrive(r, f) PROVE HolderIsInserter'
  BY <1>1 DEF Arrive, Go, TypeOK, HolderIsInserter, RequestType, Nobody, Orphan
<1>2. ASSUME NEW r \in Requests, Begin(r) PROVE HolderIsInserter'
  <2>1. CASE Told(r)
    BY <1>2, <2>1, BeginEffect, ToldEndsOne DEF HolderIsInserter
  <2>2. CASE Go(r, "ABSENT") /\ UNCHANGED answer
    BY <1>2, <2>2, BeginEffect DEF Go, HolderIsInserter, TypeOK, RequestType
  <2> QED BY <1>2, <2>1, <2>2, BeginEffect
<1>3. ASSUME NEW r \in Requests, Insert(r) PROVE HolderIsInserter'
  BY <1>3 DEF Insert, Go, Reply, Over, TypeOK, HolderIsInserter, RequestType, Nobody, Orphan
<1>4. ASSUME NEW r \in Requests, UniqueConflict(r) PROVE HolderIsInserter'
  BY <1>4 DEF UniqueConflict, Go, Reply, Over, TypeOK, HolderIsInserter, RequestType, Nobody, Orphan
<1>5. ASSUME NEW r \in Requests, Reread(r) PROVE HolderIsInserter'
  BY <1>5, RereadEffect DEF Told, Reply, Over, HolderIsInserter, TypeOK, RequestType
<1>6. ASSUME NEW r \in Requests, WorkSucceeds(r) PROVE HolderIsInserter'
  BY <1>6 DEF WorkSucceeds, Go, Reply, Over, TypeOK, HolderIsInserter, RequestType, Nobody, Orphan
<1>7. ASSUME NEW r \in Requests, WorkFails(r) PROVE HolderIsInserter'
  BY <1>7 DEF WorkFails, Release, Reply, Over, TypeOK, HolderIsInserter, RequestType, Nobody, Orphan
<1>8. ASSUME NEW r \in Requests, WorkConflicts(r) PROVE HolderIsInserter'
  BY <1>8 DEF WorkConflicts, Release, Go, Reply, Over, TypeOK, HolderIsInserter, RequestType, Nobody, Orphan
<1>9. ASSUME NEW r \in Requests, WorkRejected(r) PROVE HolderIsInserter'
  BY <1>9 DEF WorkRejected, Reply, Over, TypeOK, HolderIsInserter, RequestType, Nobody, Orphan
<1>10. ASSUME NEW r \in Requests, Abort(r) PROVE HolderIsInserter'
  BY <1>10 DEF Abort, Release, Reply, Over, TypeOK, HolderIsInserter, RequestType, Nobody, Orphan
<1>11. ASSUME NEW r \in Requests, Commit(r) PROVE HolderIsInserter'
  BY <1>11 DEF Commit, Go, Reply, Over, TypeOK, HolderIsInserter, RequestType, Nobody, Orphan
<1>12. ASSUME NEW r \in Requests, Return(r) PROVE HolderIsInserter'
  BY <1>12, ReturnEffect DEF Told, Reply, Over, HolderIsInserter, TypeOK, RequestType
<1>13. ASSUME NEW r \in Requests, Expire(r) PROVE HolderIsInserter'
  BY <1>13 DEF Expire, Active, Reply, Over, TypeOK, HolderIsInserter, RequestType, Nobody, Orphan
<1>14. ASSUME NEW r \in Requests, Crash(r) PROVE HolderIsInserter'
  BY <1>14 DEF Crash, Active, Reply, Over, TypeOK, HolderIsInserter, RequestType, Nobody, Orphan
<1>15. CASE RollBackOrphan
  BY <1>15 DEF RollBackOrphan, TypeOK, HolderIsInserter, RequestType, Nobody, Orphan
<1>16. CASE Recover
  BY <1>16 DEF Recover, TypeOK, HolderIsInserter, RequestType, Nobody, Orphan
<1>17. CASE UNCHANGED vars
  BY <1>17 DEF vars, TypeOK, HolderIsInserter, RequestType, Nobody, Orphan
<1> QED BY ONLY <1>1, <1>2, <1>3, <1>4, <1>5, <1>6, <1>7, <1>8, <1>9, <1>10, <1>11, <1>12, <1>13, <1>14, <1>15, <1>16, <1>17, [Next]_vars DEF Next, Progress

\* Every step keeps questions and answers in their places.
LEMMA ConversationStep ==
  ASSUME IInv, [Next]_vars
  PROVE  Conversation'
<1> USE CommandAssumption DEF IInv
<1>1. ASSUME NEW r \in Requests, NEW f \in Fingerprints, Arrive(r, f) PROVE Conversation'
  BY <1>1 DEF Arrive, Go, TypeOK, Conversation, RequestType, Outcomes, Undecided
<1>2. ASSUME NEW r \in Requests, Begin(r) PROVE Conversation'
  <2>1. CASE Told(r)
    BY <1>2, <2>1, BeginEffect, ToldEndsOne DEF Conversation
  <2>2. CASE Go(r, "ABSENT") /\ UNCHANGED answer
    BY <1>2, <2>2, BeginEffect DEF Go, Conversation, TypeOK, RequestType
  <2> QED BY <1>2, <2>1, <2>2, BeginEffect
<1>3. ASSUME NEW r \in Requests, Insert(r) PROVE Conversation'
  BY <1>3 DEF Insert, Go, Reply, Over, TypeOK, Conversation, RequestType, Outcomes, Undecided
<1>4. ASSUME NEW r \in Requests, UniqueConflict(r) PROVE Conversation'
  BY <1>4 DEF UniqueConflict, Go, Reply, Over, TypeOK, Conversation, RequestType, Outcomes, Undecided
<1>5. ASSUME NEW r \in Requests, Reread(r) PROVE Conversation'
  BY <1>5, RereadEffect DEF Told, Reply, Over, Conversation, TypeOK, RequestType
<1>6. ASSUME NEW r \in Requests, WorkSucceeds(r) PROVE Conversation'
  BY <1>6 DEF WorkSucceeds, Go, Reply, Over, TypeOK, Conversation, RequestType, Outcomes, Undecided
<1>7. ASSUME NEW r \in Requests, WorkFails(r) PROVE Conversation'
  BY <1>7 DEF WorkFails, Release, Reply, Over, TypeOK, Conversation, RequestType, Outcomes, Undecided
<1>8. ASSUME NEW r \in Requests, WorkConflicts(r) PROVE Conversation'
  BY <1>8 DEF WorkConflicts, Release, Go, Reply, Over, TypeOK, Conversation, RequestType, Outcomes, Undecided
<1>9. ASSUME NEW r \in Requests, WorkRejected(r) PROVE Conversation'
  BY <1>9 DEF WorkRejected, Reply, Over, TypeOK, Conversation, RequestType, Outcomes, Undecided
<1>10. ASSUME NEW r \in Requests, Abort(r) PROVE Conversation'
  BY <1>10 DEF Abort, Release, Reply, Over, TypeOK, Conversation, RequestType, Outcomes, Undecided
<1>11. ASSUME NEW r \in Requests, Commit(r) PROVE Conversation'
  BY <1>11 DEF Commit, Go, Reply, Over, TypeOK, Conversation, RequestType, Outcomes, Undecided
<1>12. ASSUME NEW r \in Requests, Return(r) PROVE Conversation'
  BY <1>12, ReturnEffect DEF Told, Reply, Over, Conversation, TypeOK, RequestType
<1>13. ASSUME NEW r \in Requests, Expire(r) PROVE Conversation'
  BY <1>13 DEF Expire, Active, Reply, Over, TypeOK, Conversation, RequestType, Outcomes, Undecided
<1>14. ASSUME NEW r \in Requests, Crash(r) PROVE Conversation'
  BY <1>14 DEF Crash, Active, Reply, Over, TypeOK, Conversation, RequestType, Outcomes, Undecided
<1>15. CASE RollBackOrphan
  BY <1>15 DEF RollBackOrphan, TypeOK, Conversation, RequestType, Outcomes, Undecided
<1>16. CASE Recover
  BY <1>16 DEF Recover, TypeOK, Conversation, RequestType, Outcomes, Undecided
<1>17. CASE UNCHANGED vars
  BY <1>17 DEF vars, TypeOK, Conversation, RequestType, Outcomes, Undecided
<1> QED BY ONLY <1>1, <1>2, <1>3, <1>4, <1>5, <1>6, <1>7, <1>8, <1>9, <1>10, <1>11, <1>12, <1>13, <1>14, <1>15, <1>16, <1>17, [Next]_vars DEF Next, Progress

\* Every step answers from the record, which does not change once decided.
LEMMA FollowsStep ==
  ASSUME IInv, [Next]_vars
  PROVE  FollowsRecord'
<1> USE CommandAssumption DEF IInv
<1>1. ASSUME NEW r \in Requests, NEW f \in Fingerprints, Arrive(r, f) PROVE FollowsRecord'
  BY <1>1, SMTT(30) DEF Arrive, Go, TypeOK, FollowsRecord, HolderIsInserter, Outcomes, Undecided, Nobody, Orphan
<1>2. ASSUME NEW r \in Requests, Begin(r) PROVE FollowsRecord'
  <2>1. CASE Told(r)
    BY <1>2, <2>1, BeginEffect DEF Told, Reply, Over, FollowsRecord, TypeOK
  <2>2. CASE Go(r, "ABSENT") /\ UNCHANGED answer
    BY <1>2, <2>2, BeginEffect DEF Go, FollowsRecord, TypeOK
  <2> QED BY <1>2, <2>1, <2>2, BeginEffect
<1>3. ASSUME NEW r \in Requests, Insert(r) PROVE FollowsRecord'
  BY <1>3 DEF Insert, Go, Reply, Over, TypeOK, FollowsRecord, HolderIsInserter, Outcomes, Undecided, Nobody, Orphan
<1>4. ASSUME NEW r \in Requests, UniqueConflict(r) PROVE FollowsRecord'
  BY <1>4 DEF UniqueConflict, Go, Reply, Over, TypeOK, FollowsRecord, HolderIsInserter, Outcomes, Undecided, Nobody, Orphan
<1>5. ASSUME NEW r \in Requests, Reread(r) PROVE FollowsRecord'
  BY <1>5, RereadEffect DEF Told, Reply, Over, FollowsRecord, TypeOK
<1>6. ASSUME NEW r \in Requests, WorkSucceeds(r) PROVE FollowsRecord'
  BY <1>6 DEF WorkSucceeds, Go, Reply, Over, TypeOK, FollowsRecord, HolderIsInserter, Outcomes, Undecided, Nobody, Orphan
<1>7. ASSUME NEW r \in Requests, WorkFails(r) PROVE FollowsRecord'
  BY <1>7 DEF WorkFails, Release, Reply, Over, TypeOK, FollowsRecord, HolderIsInserter, Outcomes, Undecided, Nobody, Orphan
<1>8. ASSUME NEW r \in Requests, WorkConflicts(r) PROVE FollowsRecord'
  BY <1>8 DEF WorkConflicts, Release, Go, Reply, Over, TypeOK, FollowsRecord, HolderIsInserter, Outcomes, Undecided, Nobody, Orphan
<1>9. ASSUME NEW r \in Requests, WorkRejected(r) PROVE FollowsRecord'
  BY <1>9 DEF WorkRejected, Reply, Over, TypeOK, FollowsRecord, HolderIsInserter, Outcomes, Undecided, Nobody, Orphan
<1>10. ASSUME NEW r \in Requests, Abort(r) PROVE FollowsRecord'
  BY <1>10 DEF Abort, Release, Reply, Over, TypeOK, FollowsRecord, HolderIsInserter, Outcomes, Undecided, Nobody, Orphan
<1>11. ASSUME NEW r \in Requests, Commit(r) PROVE FollowsRecord'
  BY <1>11 DEF Commit, Go, Reply, Over, TypeOK, FollowsRecord, HolderIsInserter, Outcomes, Undecided, Nobody, Orphan
<1>12. ASSUME NEW r \in Requests, Return(r) PROVE FollowsRecord'
  BY <1>12, ReturnEffect DEF Told, Reply, Over, FollowsRecord, TypeOK
<1>13. ASSUME NEW r \in Requests, Expire(r) PROVE FollowsRecord'
  BY <1>13 DEF Expire, Active, Reply, Over, TypeOK, FollowsRecord, HolderIsInserter, Outcomes, Undecided, Nobody, Orphan
<1>14. ASSUME NEW r \in Requests, Crash(r) PROVE FollowsRecord'
  BY <1>14 DEF Crash, Active, Reply, Over, TypeOK, FollowsRecord, HolderIsInserter, Outcomes, Undecided, Nobody, Orphan
<1>15. CASE RollBackOrphan
  BY <1>15 DEF RollBackOrphan, TypeOK, FollowsRecord, HolderIsInserter, Outcomes, Undecided, Nobody, Orphan
<1>16. CASE Recover
  BY <1>16 DEF Recover, TypeOK, FollowsRecord, HolderIsInserter, Outcomes, Undecided, Nobody, Orphan
<1>17. CASE UNCHANGED vars
  BY <1>17 DEF vars, TypeOK, FollowsRecord, HolderIsInserter, Outcomes, Undecided, Nobody, Orphan
<1> QED BY ONLY <1>1, <1>2, <1>3, <1>4, <1>5, <1>6, <1>7, <1>8, <1>9, <1>10, <1>11, <1>12, <1>13, <1>14, <1>15, <1>16, <1>17, [Next]_vars DEF Next, Progress

\* Every step keeps the work and the record together.
LEMMA DoneStep ==
  ASSUME IInv, [Next]_vars
  PROVE  DoneOnceIffSucceeded'
<1> USE CommandAssumption DEF IInv
<1>1. ASSUME NEW r \in Requests, NEW f \in Fingerprints, Arrive(r, f) PROVE DoneOnceIffSucceeded'
  BY <1>1 DEF Arrive, Go, TypeOK, HolderIsInserter, DoneOnceIffSucceeded, Undecided, Nobody, Orphan
<1>2. ASSUME NEW r \in Requests, Begin(r) PROVE DoneOnceIffSucceeded'
  BY <1>2, BeginEffect DEF DoneOnceIffSucceeded
<1>3. ASSUME NEW r \in Requests, Insert(r) PROVE DoneOnceIffSucceeded'
  BY <1>3 DEF Insert, Go, Reply, Over, TypeOK, HolderIsInserter, DoneOnceIffSucceeded, Undecided, Nobody, Orphan
<1>4. ASSUME NEW r \in Requests, UniqueConflict(r) PROVE DoneOnceIffSucceeded'
  BY <1>4 DEF UniqueConflict, Go, Reply, Over, TypeOK, HolderIsInserter, DoneOnceIffSucceeded, Undecided, Nobody, Orphan
<1>5. ASSUME NEW r \in Requests, Reread(r) PROVE DoneOnceIffSucceeded'
  BY <1>5, RereadEffect DEF DoneOnceIffSucceeded
<1>6. ASSUME NEW r \in Requests, WorkSucceeds(r) PROVE DoneOnceIffSucceeded'
  BY <1>6 DEF WorkSucceeds, Go, Reply, Over, TypeOK, HolderIsInserter, DoneOnceIffSucceeded, Undecided, Nobody, Orphan
<1>7. ASSUME NEW r \in Requests, WorkFails(r) PROVE DoneOnceIffSucceeded'
  BY <1>7 DEF WorkFails, Release, Reply, Over, TypeOK, HolderIsInserter, DoneOnceIffSucceeded, Undecided, Nobody, Orphan
<1>8. ASSUME NEW r \in Requests, WorkConflicts(r) PROVE DoneOnceIffSucceeded'
  BY <1>8 DEF WorkConflicts, Release, Go, Reply, Over, TypeOK, HolderIsInserter, DoneOnceIffSucceeded, Undecided, Nobody, Orphan
<1>9. ASSUME NEW r \in Requests, WorkRejected(r) PROVE DoneOnceIffSucceeded'
  BY <1>9 DEF WorkRejected, Reply, Over, TypeOK, HolderIsInserter, DoneOnceIffSucceeded, Undecided, Nobody, Orphan
<1>10. ASSUME NEW r \in Requests, Abort(r) PROVE DoneOnceIffSucceeded'
  BY <1>10 DEF Abort, Release, Reply, Over, TypeOK, HolderIsInserter, DoneOnceIffSucceeded, Undecided, Nobody, Orphan
<1>11. ASSUME NEW r \in Requests, Commit(r) PROVE DoneOnceIffSucceeded'
  BY <1>11 DEF Commit, Go, Reply, Over, TypeOK, HolderIsInserter, DoneOnceIffSucceeded, Undecided, Nobody, Orphan
<1>12. ASSUME NEW r \in Requests, Return(r) PROVE DoneOnceIffSucceeded'
  BY <1>12, ReturnEffect DEF DoneOnceIffSucceeded
<1>13. ASSUME NEW r \in Requests, Expire(r) PROVE DoneOnceIffSucceeded'
  BY <1>13 DEF Expire, Active, Reply, Over, TypeOK, HolderIsInserter, DoneOnceIffSucceeded, Undecided, Nobody, Orphan
<1>14. ASSUME NEW r \in Requests, Crash(r) PROVE DoneOnceIffSucceeded'
  BY <1>14 DEF Crash, Active, Reply, Over, TypeOK, HolderIsInserter, DoneOnceIffSucceeded, Undecided, Nobody, Orphan
<1>15. CASE RollBackOrphan
  BY <1>15 DEF RollBackOrphan, TypeOK, HolderIsInserter, DoneOnceIffSucceeded, Undecided, Nobody, Orphan
<1>16. CASE Recover
  BY <1>16 DEF Recover, TypeOK, HolderIsInserter, DoneOnceIffSucceeded, Undecided, Nobody, Orphan
<1>17. CASE UNCHANGED vars
  BY <1>17 DEF vars, TypeOK, HolderIsInserter, DoneOnceIffSucceeded, Undecided, Nobody, Orphan
<1> QED BY ONLY <1>1, <1>2, <1>3, <1>4, <1>5, <1>6, <1>7, <1>8, <1>9, <1>10, <1>11, <1>12, <1>13, <1>14, <1>15, <1>16, <1>17, [Next]_vars DEF Next, Progress

-----------------------------------------------------------------------------
(* The theorems.                                                           *)

\* The invariant holds of every reachable state.
LEMMA IInvCorrect == Spec => []IInv
<1>1. IInv /\ [Next]_vars => IInv'
  BY TypedStep, HolderStep, ConversationStep, FollowsStep, DoneStep DEF IInv
<1> QED BY IInvInit, <1>1, PTL DEF Spec

(***************************************************************************)
(* Every variable keeps its type; in particular no request makes more than *)
(* MaxAttempts attempts.                                                   *)
(***************************************************************************)
THEOREM TypeCorrect == Spec => []TypeOK
<1>1. IInv => TypeOK
  BY DEF IInv
<1> QED BY IInvCorrect, <1>1, PTL

(***************************************************************************)
(* The work is committed once when the key says success and never when it  *)
(* does not, whatever requests race, retry and crash.                      *)
(***************************************************************************)
THEOREM DoneOnceCorrect == Spec => []DoneOnceIffSucceeded
<1>1. IInv => DoneOnceIffSucceeded
  BY DEF IInv
<1> QED BY IInvCorrect, <1>1, PTL

(***************************************************************************)
(* What recovery tells the cashier is true and stays true.                 *)
(***************************************************************************)
THEOREM RecoveryCorrect == Spec => []RecoveryIsProof
<1>1. IInv => RecoveryIsProof
  <2> SUFFICES ASSUME IInv PROVE RecoveryIsProof
    OBVIOUS
  <2>1. CASE record = Undecided
    BY <2>1 DEF IInv, FollowsRecord, RecoveryIsProof
  <2>2. CASE record # Undecided /\ record.kind = "SUCCEEDED"
    BY <2>2 DEF IInv, FollowsRecord, RecoveryIsProof, DoneOnceIffSucceeded
  <2>3. CASE record # Undecided /\ record.kind = "REJECTED"
    BY <2>3 DEF IInv, FollowsRecord, RecoveryIsProof, DoneOnceIffSucceeded
  <2> QED BY <2>1, <2>2, <2>3, OutcomeDecided DEF IInv, TypeOK
<1> QED BY IInvCorrect, <1>1, PTL

-----------------------------------------------------------------------------
(* The executor implements CommandOnce.                                    *)

\* A request that is told is answered in the abstract specification.
LEMMA ToldAnswers ==
  ASSUME IInv, NEW r \in Requests, Told(r), request[r].phase # "NEW",
         request[r].phase # "ANSWERED", UNCHANGED <<record, asked>>
  PROVE  Promise!Next
<1>1. asked[r] # Nothing /\ answer[r] = Nothing
  BY DEF IInv, Conversation
<1>2. PICK a \in Answers :
        /\ Reply(r, a)
        /\ \/ a = "ERROR"
           \/ record # Undecided /\ a = (IF record.fingerprint = asked[r] THEN record.kind
                                           ELSE "MISMATCH")
  BY DEF Told
<1>3. Promise!Answer(r, a)
  BY <1>1, <1>2 DEF Promise!Answer, Promise!AnswerFrom, Reply, Nothing, Promise!Nothing,
                    Undecided, Promise!Undecided
<1> QED BY <1>3 DEF Promise!Next, Answers

\* An error is a way of being told.
LEMMA ErrorTold ==
  ASSUME NEW r \in Requests, Reply(r, "ERROR")
  PROVE  Told(r)
BY DEF Told, Answers

\* Every step of the executor is a step of the abstract specification or a stutter.
LEMMA PromiseStep ==
  ASSUME IInv, [Next]_vars
  PROVE  [Promise!Next]_(Promise!vars)
<1> DEFINE Goal == [Promise!Next]_(Promise!vars)
<1>1. ASSUME NEW r \in Requests, NEW f \in Fingerprints, Arrive(r, f) PROVE Goal
  <2>1. Promise!Ask(r, f)
    BY <1>1 DEF Arrive, Promise!Ask, IInv, Conversation, Nothing, Promise!Nothing
  <2> QED BY <2>1 DEF Promise!Next
<1>2. ASSUME NEW r \in Requests, Begin(r) PROVE Goal
  <2>1. CASE Told(r)
    BY <1>2, <2>1, BeginEffect, ToldAnswers
  <2>2. CASE UNCHANGED answer
    BY <1>2, <2>2, BeginEffect DEF Promise!vars
  <2> QED BY <1>2, <2>1, <2>2, BeginEffect
<1>3. ASSUME NEW r \in Requests, Insert(r) \/ UniqueConflict(r) \/ WorkSucceeds(r) \/ Expire(r)
                                 \/ Crash(r)
      PROVE  Goal
  BY <1>3 DEF Insert, UniqueConflict, WorkSucceeds, Expire, Crash, Promise!vars
<1>4. ASSUME NEW r \in Requests, Reread(r) PROVE Goal
  BY <1>4, RereadEffect, ToldAnswers
<1>5. ASSUME NEW r \in Requests, WorkFails(r) PROVE Goal
  BY <1>5, ErrorTold, ToldAnswers DEF WorkFails
<1>6. ASSUME NEW r \in Requests, WorkConflicts(r) \/ WorkRejected(r) PROVE Goal
  <2>1. /\ request[r].phase = "INSERTED"
        /\ UNCHANGED <<record, asked>>
        /\ Reply(r, "ERROR") \/ UNCHANGED answer
    BY <1>6 DEF WorkConflicts, WorkRejected
  <2> QED BY <2>1, ErrorTold, ToldAnswers DEF Promise!vars
<1>7. ASSUME NEW r \in Requests, Abort(r) PROVE Goal
  <2>1. /\ request[r].phase \in {"ABSENT", "INSERTED", "READY"}
        /\ UNCHANGED <<record, asked>>
        /\ Reply(r, "ERROR") \/ UNCHANGED answer
    BY <1>7 DEF Abort
  <2> QED BY <2>1, ErrorTold, ToldAnswers DEF Promise!vars
<1>8. ASSUME NEW r \in Requests, Commit(r) PROVE Goal
  <2>1. holder = r
    BY <1>8 DEF Commit, IInv, HolderIsInserter
  <2>2. record = Undecided /\ asked[r] \in Fingerprints
    BY <1>8, <2>1, CommandAssumption DEF Commit, IInv, TypeOK, HolderIsInserter, Conversation
  <2>3. record' \in Outcomes /\ record'.fingerprint = asked[r]
    BY <1>8, <2>2 DEF Commit, Outcomes
  <2>4. Promise!Decide(record')
    BY <1>8, <2>2, <2>3 DEF Commit, Promise!Decide, Undecided, Promise!Undecided
  <2> QED BY <2>3, <2>4 DEF Promise!Next, Outcomes, Promise!Outcomes
<1>9. ASSUME NEW r \in Requests, Return(r) PROVE Goal
  BY <1>9, ReturnEffect, ToldAnswers
<1>10. CASE RollBackOrphan \/ Recover \/ UNCHANGED vars
  BY <1>10 DEF RollBackOrphan, Recover, vars, Promise!vars
<1> QED BY ONLY <1>1, <1>2, <1>3, <1>4, <1>5, <1>6, <1>7, <1>8, <1>9, <1>10, [Next]_vars
           DEF Next, Progress

(***************************************************************************)
(* The executor implements CommandOnce: the key is decided once, for a     *)
(* body that was sent, and every answer follows from the decision.         *)
(***************************************************************************)
THEOREM KeepsPromiseCorrect == Spec => KeepsPromise
<1>1. Init => Promise!Init
  BY DEF Init, Promise!Init, Undecided, Promise!Undecided, Nothing, Promise!Nothing
<1>2. IInv /\ [Next]_vars => [Promise!Next]_(Promise!vars)
  BY PromiseStep
<1> QED BY IInvCorrect, <1>1, <1>2, PTL DEF Spec, KeepsPromise, Promise!Spec

=============================================================================
