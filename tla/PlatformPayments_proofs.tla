----------------------- MODULE PlatformPayments_proofs -----------------------
(***************************************************************************)
(* Proofs about PlatformPayments, for any number of attempts and calls and *)
(* any total: its type invariant, that what is closed is withdrawn, that   *)
(* what was taken is booked, and that the rows implement Collection.       *)
(***************************************************************************)
EXTENDS PlatformPayments, Totals_proofs

\* A call under way is about an attempt that was reserved.
CallsRefer ==
  \A c \in Calls : call[c].step # "NOTHING" =>
    call[c].attempt \in Attempts /\ attempt[call[c].attempt].state # "NONE"

\* Payments, refunds and the invoice are where the states of the attempts say.
RowsAgree ==
  \A a \in Attempts :
    /\ a \in payments <=> attempt[a].state \in {"PAID", "REFUNDED"}
    /\ refund[a].state = "SUCCEEDED" <=> attempt[a].state = "REFUNDED"
    /\ refund[a].state # "NONE" => a \in payments
    /\ attempt[a].state # "NONE" => attempt[a].amount > 0 /\ invoice = "ISSUED"
    /\ attempt[a].session => attempt[a].state # "NONE"

\* No two attempts wait for the customer at once.
OneActive ==
  \A a, b \in Attempts : attempt[a].state \in Active /\ attempt[b].state \in Active => a = b

\* Who is about to close an attempt has closed its checkout, or will find the
\* attempt changed, or closes one without a checkout.
Withdrawing ==
  \A c \in Calls :
    LET a == call[c].attempt
    IN  /\ At(c, "FAIL") => "CANCELLED" \in provider[a]
        /\ At(c, "CANCEL") => \/ "CANCELLED" \in provider[a]
                              \/ call[c].version < attempt[a].version
                              \/ call[c].version = attempt[a].version /\ ~ attempt[a].session

\* An attempt closed here with a checkout was closed, or paid, there.
Withdrawn ==
  \A a \in Attempts :
    attempt[a].state \in {"FAILED", "CANCELLED"} /\ attempt[a].session =>
      \E fact \in {"PAID", "FAILED", "CANCELLED"} : fact \in provider[a]

\* In which order the provider's facts come.
ProviderOrder ==
  \A a \in Attempts :
    /\ "REFUNDED" \in provider[a] => "PAID" \in provider[a]
    /\ "PAID" \in provider[a] => attempt[a].session /\ "FAILED" \notin provider[a]

Rows == CallsRefer /\ RowsAgree /\ OneActive /\ Withdrawing /\ Withdrawn /\ ProviderOrder

\* What is taken of an attempt that was not booked is taken of an active one,
\* and there is room for an active one.
Room ==
  \A a \in Attempts :
    /\ "PAID" \in provider[a] => attempt[a].state \in Active \union {"PAID", "REFUNDED"}
    /\ attempt[a].state \in Active => NetPaid + attempt[a].amount <= Due

IInv == TypeOK /\ Rows /\ (CancelsOnlyUnpaid => Room) /\ TakenIsBooked

-----------------------------------------------------------------------------
(* Types.                                                                  *)

\* What an invoice holds is a natural number, of payments and money by hand.
LEMMA NetPaidTyped ==
  ASSUME TypeOK
  PROVE  /\ IsFiniteSet(payments \ Returned)
         /\ Total(payments \ Returned, Amounts) \in Nat
         /\ NetPaid \in Nat /\ byHand \in Nat /\ byHand <= NetPaid
<1>1. IsFiniteSet(payments \ Returned)
  BY PaymentsAssumption, FS_Subset DEF TypeOK
<1>2. \A a \in payments \ Returned : Amounts[a] \in Nat
  BY PaymentsAssumption DEF TypeOK, Amounts, AttemptType
<1>3. Total(payments \ Returned, Amounts) \in Nat
  BY <1>1, <1>2, TotalType
<1> QED BY <1>1, <1>3, PaymentsAssumption DEF TypeOK, NetPaid

\* Changing the state of an attempt keeps its type.
LEMMA BecomeTyped ==
  ASSUME TypeOK, NEW a, NEW s \in States, NEW n \in Nat, Become(a, s, n)
  PROVE  attempt' \in [Attempts -> AttemptType]
<1>1. \A b \in Attempts : attempt[b] \in AttemptType
  BY DEF TypeOK
<1>2. \A b \in Attempts : attempt[b].version + n \in Nat
  BY <1>1 DEF AttemptType
<1>3. \A r \in AttemptType, v \in Nat : [r EXCEPT !.state = s, !.version = v] \in AttemptType
  BY DEF AttemptType
<1>4. CASE a \in Attempts
  <2>1. attempt' = [attempt EXCEPT ![a] =
          [attempt[a] EXCEPT !.state = s, !.version = attempt[a].version + n]]
    BY <1>4 DEF Become, TypeOK
  <2> QED BY <1>1, <1>2, <1>3, <1>4, <2>1 DEF TypeOK
<1>5. CASE a \notin Attempts
  BY <1>5 DEF TypeOK, Become
<1> QED BY <1>4, <1>5

\* Moving a call on, or ending it, keeps its type.
LEMMA CallTyped ==
  ASSUME TypeOK, NEW c
  PROVE  /\ \A s \in Steps : Continue(c, s) => call' \in [Calls -> CallType]
         /\ End(c) => call' \in [Calls -> CallType]
<1>1. \A b \in Calls : call[b] \in CallType
  BY DEF TypeOK
<1>2. \A b \in Calls, s \in Steps : [call[b] EXCEPT !.step = s] \in CallType
  BY <1>1 DEF CallType
<1>3. Idle \in CallType
  BY DEF Idle, CallType, Steps
<1> QED BY <1>1, <1>2, <1>3 DEF TypeOK, Continue, End

\* A call that starts on an attempt is typed.
LEMMA StartedTyped ==
  ASSUME TypeOK, NEW c, NEW s \in Steps, NEW a \in Attempts, NEW v \in Nat,
         call' = [call EXCEPT ![c] = [step |-> s, attempt |-> a, version |-> v]]
  PROVE  call' \in [Calls -> CallType]
BY DEF TypeOK, CallType

\* The forms a refund takes keep its type.
LEMMA RefundTyped ==
  ASSUME TypeOK
  PROVE  /\ [state |-> "SUCCEEDED", named |-> TRUE] \in RefundType
         /\ \A a : [refund EXCEPT ![a].named = TRUE] \in [Attempts -> RefundType]
         /\ \A a : [refund EXCEPT ![a].state = "FAILED"] \in [Attempts -> RefundType]
<1>1. \A b \in Attempts : refund[b] \in RefundType
  BY DEF TypeOK
<1>2. \A r \in RefundType : [r EXCEPT !.named = TRUE] \in RefundType
  BY ZenonT(30) DEF RefundType
<1>3. \A r \in RefundType : [r EXCEPT !.state = "FAILED"] \in RefundType
  BY DEF RefundType
<1>4. [state |-> "SUCCEEDED", named |-> TRUE] \in RefundType
  BY DEF RefundType
<1> QED BY <1>1, <1>2, <1>3, <1>4 DEF TypeOK

\* What the provider does is a fact.
LEMMA LearnTyped ==
  ASSUME TypeOK, NEW a, NEW f \in Facts, Learn(a, f)
  PROVE  provider' \in [Attempts -> SUBSET Facts]
BY DEF TypeOK, Learn

\* A checkout closed at the provider keeps the types.
LEMMA CancelAtProviderTyped ==
  ASSUME TypeOK, NEW c, NEW a, NEW s \in Steps,
         CancelAtProvider(c, a, End(c)) \/ CancelAtProvider(c, a, Continue(c, s))
  PROVE  provider' \in [Attempts -> SUBSET Facts] /\ call' \in [Calls -> CallType]
<1>1. "CANCELLED" \in Facts
  BY DEF Facts, EventTypes
<1>2. provider' = provider \/ Learn(a, "CANCELLED")
  BY DEF CancelAtProvider
<1>3. End(c) \/ Continue(c, s)
  BY DEF CancelAtProvider
<1> QED BY <1>1, <1>2, <1>3, LearnTyped, CallTyped DEF TypeOK

\* The desk, the provider and a starting call keep the types.
LEMMA DeskTyped ==
  ASSUME TypeOK, Desk \/ Elsewhere \/ \E c \in Calls : Starting(c)
  PROVE  TypeOK'
<1> USE PaymentsAssumption
<1>1. CASE VoidInvoice
  BY <1>1 DEF VoidInvoice, TypeOK
<1>2. ASSUME NEW amount \in 1 .. Due, RecordPayment(amount) PROVE TypeOK'
  <2>1. byHand' \in 0 .. Due
    BY <1>2, NetPaidTyped DEF RecordPayment
  <2> QED BY <1>2, <2>1 DEF RecordPayment, TypeOK
<1>3. CASE Elsewhere
  <2>1. PICK a \in Attempts, f \in Facts : Learn(a, f) /\ UNCHANGED <<rows, call>>
    BY <1>3 DEF Elsewhere, Capture, Process, Lapse, Repay, Facts, EventTypes
  <2>2. provider' \in [Attempts -> SUBSET Facts]
    BY <2>1, LearnTyped
  <2> QED BY <2>1, <2>2 DEF rows, TypeOK
<1>4. ASSUME NEW c \in Calls, NEW a \in Attempts, Reserve(c, a) PROVE TypeOK'
  <2>1. Due - NetPaid \in 0 .. Due
    BY <1>4, NetPaidTyped DEF Reserve
  <2>2. attempt' \in [Attempts -> AttemptType]
    BY <1>4, <2>1 DEF Reserve, TypeOK, AttemptType, States
  <2>3. call' \in [Calls -> CallType]
    BY <1>4, StartedTyped DEF Reserve, Steps
  <2> QED BY <1>4, <2>2, <2>3 DEF Reserve, TypeOK
<1>5. ASSUME NEW c \in Calls, NEW a \in Attempts,
             Resume(c, a) \/ AskCancel(c, a) \/ ResumeRefund(c, a)
      PROVE  TypeOK'
  <2>1. attempt[a].version \in Nat
    BY DEF TypeOK, AttemptType
  <2>2. PICK s \in Steps, v \in Nat :
          call' = [call EXCEPT ![c] = [step |-> s, attempt |-> a, version |-> v]]
    BY <1>5, <2>1 DEF Resume, AskCancel, ResumeRefund, Steps
  <2>3. call' \in [Calls -> CallType]
    BY <2>2, StartedTyped
  <2> QED BY <1>5, <2>3 DEF Resume, AskCancel, ResumeRefund, TypeOK, rows
<1>6. ASSUME NEW c \in Calls, NEW a \in Attempts, ReserveRefund(c, a) PROVE TypeOK'
  <2>1. call' \in [Calls -> CallType]
    BY <1>6, StartedTyped DEF ReserveRefund, Steps
  <2>2. refund' \in [Attempts -> RefundType]
    BY <1>6 DEF ReserveRefund, TypeOK, RefundType
  <2> QED BY <1>6, <2>1, <2>2 DEF ReserveRefund, TypeOK
<1> QED BY <1>1, <1>2, <1>3, <1>4, <1>5, <1>6 DEF Desk, Starting

\* A call that goes on keeps the types.
LEMMA GoingTyped ==
  ASSUME TypeOK, NEW c \in Calls, Going(c)
  PROVE  TypeOK'
<1>1. CASE Host(c)
  <2>1. Continue(c, "FINALIZE") \/ End(c)
    BY <1>1 DEF Host
  <2>2. provider' = provider \/ Learn(call[c].attempt, "HOSTED")
    BY <1>1 DEF Host
  <2> QED BY <1>1, <2>1, <2>2, CallTyped, LearnTyped DEF Host, TypeOK, rows, Facts, Steps
<1>2. CASE Finalize(c)
  <2>1. SaveSession(call[c].attempt) \/ UNCHANGED attempt
    BY <1>2 DEF Finalize
  <2>2. attempt' \in [Attempts -> AttemptType]
    BY <2>1 DEF SaveSession, TypeOK, AttemptType
  <2>3. Continue(c, "COMPENSATE") \/ Continue(c, "CLOSE") \/ End(c)
    BY <1>2 DEF Finalize
  <2>4. call' \in [Calls -> CallType]
    BY <2>3, CallTyped DEF Steps
  <2> QED BY <1>2, <2>2, <2>4 DEF Finalize, TypeOK
<1>3. CASE Compensate(c) \/ CloseAtProvider(c) \/ Withdraw(c)
  <2>1. provider' \in [Attempts -> SUBSET Facts] /\ call' \in [Calls -> CallType]
    BY <1>3, CancelAtProviderTyped DEF Compensate, CloseAtProvider, Withdraw, Steps
  <2> QED BY <1>3, <2>1 DEF Compensate, CloseAtProvider, Withdraw, rows, TypeOK
<1>4. CASE FailCheckout(c) \/ Cancel(c)
  <2>1. attempt' \in [Attempts -> AttemptType]
    BY <1>4, BecomeTyped DEF FailCheckout, Cancel, States, TypeOK
  <2>2. call' \in [Calls -> CallType]
    BY <1>4, CallTyped DEF FailCheckout, Cancel
  <2> QED BY <1>4, <2>1, <2>2 DEF FailCheckout, Cancel, TypeOK
<1>5. CASE AskRefund(c) \/ Lose(c)
  BY <1>5, CallTyped DEF AskRefund, Lose, rows, TypeOK, Steps
<1>6. CASE NameRefund(c) \/ GiveUpRefund(c)
  <2>1. refund' = refund \/ \E a : \/ refund' = [refund EXCEPT ![a].named = TRUE]
                                 \/ refund' = [refund EXCEPT ![a].state = "FAILED"]
    BY <1>6 DEF NameRefund, GiveUpRefund
  <2>2. Continue(c, "GIVE_UP") \/ End(c)
    BY <1>6 DEF NameRefund, GiveUpRefund
  <2>3. call' \in [Calls -> CallType]
    BY <2>2, CallTyped DEF Steps
  <2>4. refund' \in [Attempts -> RefundType]
    <3>1. refund \in [Attempts -> RefundType]
      BY DEF TypeOK
    <3> QED BY <2>1, <3>1, RefundTyped
  <2> QED BY <1>6, <2>3, <2>4 DEF NameRefund, GiveUpRefund, TypeOK
<1> QED BY <1>1, <1>2, <1>3, <1>4, <1>5, <1>6 DEF Going

\* A delivered event keeps the types.
LEMMA DeliverTyped ==
  ASSUME TypeOK, NEW a \in Attempts, NEW type \in EventTypes, Deliver(a, type)
  PROVE  TypeOK'
<1>1. PICK result \in Results : Keep(a, type, result)
  BY DEF Deliver, ApplyPending, ApplyFailure, ApplyPaid, ApplyRefunded, Results
<1>2. receipts' \in [Attempts -> [EventTypes -> Results]]
  BY <1>1 DEF Keep, TypeOK
<1>3. \/ UNCHANGED attempt
      \/ \E s \in States, n \in Nat : Become(a, s, n)
  BY DEF Deliver, ApplyPending, ApplyFailure, ApplyPaid, ApplyRefunded, States
<1>4. attempt' \in [Attempts -> AttemptType]
  BY <1>3, BecomeTyped DEF TypeOK
<1>5. payments' \subseteq Attempts
  BY DEF Deliver, ApplyPaid, ApplyRefunded, TypeOK
<1>6. refund' \in [Attempts -> RefundType]
  BY RefundTyped DEF Deliver, ApplyRefunded, TypeOK
<1> QED BY <1>2, <1>4, <1>5, <1>6 DEF Deliver, TypeOK

\* The initial state is typed.
LEMMA TypedInit == Init => TypeOK
BY PaymentsAssumption DEF Init, TypeOK, AttemptType, States, RefundType, Results, CallType, Idle,
                          Steps, Facts

\* Every step keeps the types.
LEMMA TypedStep == TypeOK /\ [Next]_vars => TypeOK'
<1> SUFFICES ASSUME TypeOK, [Next]_vars PROVE TypeOK'
  OBVIOUS
<1>1. CASE UNCHANGED vars
  BY <1>1 DEF vars, TypeOK
<1> QED BY <1>1, DeskTyped, GoingTyped, DeliverTyped DEF Next, Delivering

-----------------------------------------------------------------------------
(* The steps, by what they do to the attempts and at the provider.         *)

\* The checkout of an attempt is saved.
Saves(a) ==
  /\ attempt[a].state = "CHECKOUT" /\ ~ attempt[a].session
  /\ attempt' = [attempt EXCEPT ![a].session = TRUE, ![a].version = @ + 1]

\* An active attempt is closed: without a checkout, or with one closed there.
Closes(a) ==
  /\ attempt[a].state \in Active
  /\ attempt[a].session => "FAILED" \in provider[a] \/ "CANCELLED" \in provider[a]
  /\ Become(a, "FAILED", 1) \/ Become(a, "CANCELLED", 1)

Waits(a) == attempt[a].state = "CHECKOUT" /\ Become(a, "PENDING", 1)

Takes(a) ==
  /\ "PAID" \in provider[a]
  /\ attempt[a].state \notin {"PAID", "REFUNDED"} /\ Fits(a)
  /\ payments' = payments \union {a}
  /\ Become(a, "PAID", 1)
  /\ UNCHANGED refund

GivesBack(a) ==
  /\ "REFUNDED" \in provider[a]
  /\ attempt[a].state # "REFUNDED"
  /\ a \in payments \/ Fits(a)
  /\ payments' = payments \union {a}
  /\ refund' = [refund EXCEPT ![a] = [state |-> "SUCCEEDED", named |-> TRUE]]
  /\ \E n \in {1, 2} : Become(a, "REFUNDED", n)

\* A refund is asked for, named or given up, and none succeeds.
RefundMoves ==
  \A a \in Attempts :
    \/ refund'[a].state = refund[a].state
    \/ /\ attempt[a].state = "PAID"
       /\ refund[a].state # "SUCCEEDED" /\ refund'[a].state # "SUCCEEDED"

\* The desk, the provider and starting calls leave the attempts, but Reserve.
LEMMA StartMoves ==
  ASSUME TypeOK, Rows, Desk \/ Elsewhere \/ \E c \in Calls : Starting(c)
  PROVE  \/ UNCHANGED <<attempt, payments>> /\ RefundMoves
         \/ \E c \in Calls, a \in Attempts : Reserve(c, a)
<1>1. CASE Desk \/ Elsewhere
  BY <1>1 DEF Desk, VoidInvoice, RecordPayment, Elsewhere, Capture, Process, Lapse, Repay, rows,
              RefundMoves
<1>2. ASSUME NEW c \in Calls, NEW a \in Attempts,
             Resume(c, a) \/ AskCancel(c, a) \/ ResumeRefund(c, a)
      PROVE  UNCHANGED <<attempt, payments, refund>>
  BY <1>2 DEF Resume, AskCancel, ResumeRefund, rows
<1>3. ASSUME NEW c \in Calls, NEW a \in Attempts, ReserveRefund(c, a)
      PROVE  UNCHANGED <<attempt, payments>> /\ RefundMoves
  BY <1>3 DEF ReserveRefund, RefundMoves, TypeOK
<1> QED BY <1>1, <1>2, <1>3 DEF Starting, RefundMoves

\* A call that goes on saves a checkout, closes an attempt, or leaves it.
LEMMA GoingMoves ==
  ASSUME TypeOK, Rows, NEW c \in Calls, Going(c)
  PROVE  /\ UNCHANGED <<payments, invoice, byHand, receipts>>
         /\ RefundMoves
         /\ \/ UNCHANGED attempt
            \/ \E a \in Attempts : Saves(a) \/ Closes(a)
<1> DEFINE a == call[c].attempt
           Goal == /\ UNCHANGED <<payments, invoice, byHand, receipts>>
                   /\ RefundMoves
                   /\ UNCHANGED attempt \/ \E b \in Attempts : Saves(b) \/ Closes(b)
<1>0. ~ At(c, "NOTHING") => a \in Attempts
  BY DEF Rows, CallsRefer, At
<1>1. CASE Host(c) \/ Compensate(c) \/ CloseAtProvider(c) \/ Withdraw(c) \/ AskRefund(c) \/ Lose(c)
  BY <1>1 DEF Host, Compensate, CloseAtProvider, Withdraw, AskRefund, Lose, rows, RefundMoves
<1>2. CASE Finalize(c)
  <2>1. a \in Attempts
    BY <1>0, <1>2 DEF Finalize, At
  <2>2. SaveSession(a) \/ UNCHANGED attempt
    BY <1>2 DEF Finalize
  <2>3. UNCHANGED attempt \/ Saves(a)
    BY <2>2 DEF SaveSession, Saves
  <2>4. UNCHANGED <<payments, invoice, byHand, receipts, refund>>
    BY <1>2 DEF Finalize
  <2> QED BY <2>1, <2>3, <2>4 DEF RefundMoves
<1>3. CASE FailCheckout(c)
  <2>1. a \in Attempts /\ "CANCELLED" \in provider[a]
    BY <1>0, <1>3 DEF FailCheckout, At, Rows, Withdrawing
  <2>2. UNCHANGED attempt \/ Closes(a)
    BY <1>3, <2>1 DEF FailCheckout, Closes, Active
  <2>3. UNCHANGED <<payments, invoice, byHand, receipts, refund>>
    BY <1>3 DEF FailCheckout
  <2> QED BY <2>1, <2>2, <2>3 DEF RefundMoves
<1>4. CASE Cancel(c)
  <2>1. a \in Attempts /\ At(c, "CANCEL")
    BY <1>0, <1>4 DEF Cancel, At
  <2>2. attempt[a].version \in Nat /\ call[c].version \in Nat
    BY <2>1 DEF TypeOK, AttemptType, CallType
  <2>3. MayCancel(c, a) => "CANCELLED" \in provider[a] \/ ~ attempt[a].session
    BY <2>1, <2>2 DEF MayCancel, Rows, Withdrawing
  <2>4. UNCHANGED attempt \/ Closes(a)
    BY <1>4, <2>3 DEF Cancel, Closes, MayCancel
  <2>5. UNCHANGED <<payments, invoice, byHand, receipts, refund>>
    BY <1>4 DEF Cancel
  <2> QED BY <2>1, <2>4, <2>5 DEF RefundMoves
<1>5. CASE NameRefund(c) \/ GiveUpRefund(c)
  <2>1. a \in Attempts
    BY <1>0, <1>5 DEF NameRefund, GiveUpRefund, At
  <2>2. refund[a].state = "PENDING" => attempt[a].state = "PAID"
    BY <2>1 DEF Rows, RowsAgree
  <2>3. \/ refund' = refund
        \/ refund[a].state = "PENDING" /\ refund' = [refund EXCEPT ![a].named = TRUE]
        \/ refund[a].state = "PENDING" /\ refund' = [refund EXCEPT ![a].state = "FAILED"]
    BY <1>5 DEF NameRefund, GiveUpRefund
  <2>4. RefundMoves
    BY <2>1, <2>2, <2>3 DEF RefundMoves, TypeOK, RefundType
  <2> QED BY <1>5, <2>4 DEF NameRefund, GiveUpRefund
<1> QED BY <1>1, <1>2, <1>3, <1>4, <1>5 DEF Going

\* A delivered event moves its attempt as it says, or leaves it.
LEMMA DeliverMoves ==
  ASSUME TypeOK, Rows, NEW a \in Attempts, NEW type \in EventTypes, Deliver(a, type)
  PROVE  \/ UNCHANGED <<attempt, payments, refund>>
         \/ UNCHANGED <<payments, refund>> /\ (Closes(a) \/ Waits(a))
         \/ Takes(a) \/ GivesBack(a)
<1>1. CASE type = "PENDING"
  BY <1>1 DEF Deliver, ApplyPending, Waits
<1>2. CASE type \in {"FAILED", "CANCELLED"}
  BY <1>2 DEF Deliver, ApplyFailure, Closes
<1>3. CASE type = "PAID"
  <2>1. a \in payments => attempt[a].state \in {"PAID", "REFUNDED"}
    BY DEF Rows, RowsAgree
  <2> QED BY <1>3, <2>1 DEF Deliver, ApplyPaid, Takes
<1>4. CASE type = "REFUNDED"
  BY <1>4 DEF Deliver, ApplyRefunded, GivesBack
<1> QED BY <1>1, <1>2, <1>3, <1>4 DEF EventTypes

\* What a step may tell of the provider, the rows being left.
LEMMA ProviderMoves ==
  ASSUME TypeOK, Rows, [Next]_vars
  PROVE  \/ UNCHANGED provider
         \/ /\ UNCHANGED rows
            /\ \E a \in Attempts, f \in Facts :
                 /\ Learn(a, f)
                 /\ f = "PAID" => Open(a) /\ attempt[a].session
                 /\ f = "FAILED" => Open(a)
                 /\ f = "REFUNDED" => "PAID" \in provider[a]
<1> DEFINE Goal == \/ UNCHANGED provider
                   \/ /\ UNCHANGED rows
                      /\ \E a \in Attempts, f \in Facts :
                           /\ Learn(a, f)
                           /\ f = "PAID" => Open(a) /\ attempt[a].session
                           /\ f = "FAILED" => Open(a)
                           /\ f = "REFUNDED" => "PAID" \in provider[a]
<1>1. ASSUME NEW a \in Attempts, Capture(a) \/ Process(a) \/ Lapse(a) \/ Repay(a) PROVE Goal
  BY <1>1 DEF Capture, Process, Lapse, Repay, Facts, EventTypes
<1>2. ASSUME NEW c \in Calls, Host(c) \/ Compensate(c) \/ CloseAtProvider(c) \/ Withdraw(c)
      PROVE  Goal
  <2>1. call[c].attempt \in Attempts
    BY <1>2 DEF Host, Compensate, CloseAtProvider, Withdraw, At, Rows, CallsRefer
  <2>2. UNCHANGED rows
    BY <1>2 DEF Host, Compensate, CloseAtProvider, Withdraw
  <2>3. \/ UNCHANGED provider
        \/ \E f \in {"HOSTED", "CANCELLED"} : Learn(call[c].attempt, f)
    BY <1>2 DEF Host, Compensate, CloseAtProvider, Withdraw, CancelAtProvider
  <2> QED BY <2>1, <2>2, <2>3 DEF Facts, EventTypes
<1>3. ASSUME NEW c \in Calls, Finalize(c) \/ FailCheckout(c) \/ Cancel(c) \/ AskRefund(c)
                              \/ NameRefund(c) \/ GiveUpRefund(c) \/ Lose(c)
      PROVE  Goal
  BY <1>3 DEF Finalize, FailCheckout, Cancel, AskRefund, NameRefund, GiveUpRefund, Lose
<1>4. CASE Desk \/ (\E c \in Calls : Starting(c)) \/ Delivering \/ UNCHANGED vars
  BY <1>4 DEF Desk, VoidInvoice, RecordPayment, Starting, Reserve, Resume, AskCancel,
              ReserveRefund, ResumeRefund, Delivering, Deliver, vars
<1> QED BY <1>1, <1>2, <1>3, <1>4 DEF Next, Going, Elsewhere

\* The steps by what they do to the attempts.
Quiet == UNCHANGED <<attempt, payments>> /\ RefundMoves
Moves(a) == (Saves(a) \/ Closes(a) \/ Waits(a)) /\ UNCHANGED payments /\ RefundMoves

LEMMA AttemptMoves ==
  ASSUME TypeOK, Rows, [Next]_vars
  PROVE  \/ Quiet
         \/ \E c \in Calls, a \in Attempts : Reserve(c, a)
         \/ \E a \in Attempts : Moves(a) \/ Takes(a) \/ GivesBack(a)
<1>1. CASE Desk \/ Elsewhere \/ \E c \in Calls : Starting(c)
  BY <1>1, StartMoves DEF Quiet
<1>2. ASSUME NEW c \in Calls, Going(c) PROVE Quiet \/ \E a \in Attempts : Moves(a)
  BY <1>2, GoingMoves DEF Quiet, Moves
<1>3. ASSUME NEW a \in Attempts, NEW type \in EventTypes, Deliver(a, type)
      PROVE  Quiet \/ Moves(a) \/ Takes(a) \/ GivesBack(a)
  BY <1>3, DeliverMoves DEF Quiet, Moves, RefundMoves
<1>4. CASE UNCHANGED vars
  BY <1>4 DEF vars, Quiet, RefundMoves
<1> QED BY <1>1, <1>2, <1>3, <1>4 DEF Next, Delivering

\* One attempt is now in a state, and has another version; the others stay.
Now(a, state) ==
  /\ \A b \in Attempts \ {a} : attempt'[b] = attempt[b]
  /\ attempt'[a].state = state
  /\ attempt'[a].amount = attempt[a].amount
  /\ attempt'[a].version > attempt[a].version

LEMMA BecomeNow ==
  ASSUME TypeOK, NEW a \in Attempts, NEW s, NEW n \in {1, 2}, Become(a, s, n)
  PROVE  Now(a, s) /\ attempt'[a].session = attempt[a].session
<1>1. attempt[a].version \in Nat
  BY DEF TypeOK, AttemptType
<1> QED BY <1>1 DEF Become, Now, TypeOK, AttemptType

LEMMA SavesNow ==
  ASSUME TypeOK, NEW a \in Attempts, Saves(a)
  PROVE  Now(a, "CHECKOUT") /\ attempt'[a].session
<1>1. attempt[a].version \in Nat
  BY DEF TypeOK, AttemptType
<1> QED BY <1>1 DEF Saves, Now, TypeOK, AttemptType

\* What moves an attempt that is not booked keeps it so.
LEMMA MovesNow ==
  ASSUME TypeOK, NEW a \in Attempts, Moves(a)
  PROVE  /\ attempt[a].state \in Active
         /\ \E s \in {"CHECKOUT", "PENDING", "FAILED", "CANCELLED"} : Now(a, s)
<1>1. CASE Saves(a)
  BY <1>1, SavesNow DEF Saves, Active
<1>2. CASE Closes(a)
  BY <1>2, BecomeNow DEF Closes
<1>3. CASE Waits(a)
  BY <1>3, BecomeNow DEF Waits, Active
<1> QED BY <1>1, <1>2, <1>3 DEF Moves

\* What books an attempt.
LEMMA BooksNow ==
  ASSUME TypeOK, NEW a \in Attempts, Takes(a) \/ GivesBack(a)
  PROVE  /\ \E s \in {"PAID", "REFUNDED"} : Now(a, s)
         /\ attempt'[a].session = attempt[a].session
         /\ payments' = payments \union {a}
BY BecomeNow DEF Takes, GivesBack

\* A reserved attempt is new, and the others stay.
LEMMA ReserveNow ==
  ASSUME TypeOK, NEW c \in Calls, NEW a \in Attempts, Reserve(c, a)
  PROVE  /\ \A b \in Attempts \ {a} : attempt'[b] = attempt[b]
         /\ attempt'[a].state = "CHECKOUT" /\ ~ attempt'[a].session
         /\ attempt'[a].amount = Due - NetPaid /\ Due - NetPaid > 0
BY NetPaidTyped, PaymentsAssumption DEF Reserve, TypeOK

\* A step that concerns no invoice leaves it; it is voided before any attempt.
LEMMA InvoiceMoves ==
  ASSUME TypeOK, Rows, [Next]_vars
  PROVE  UNCHANGED invoice \/ (VoidInvoice /\ UNCHANGED attempt)
<1>1. CASE Desk \/ Elsewhere \/ \E c \in Calls : Starting(c)
  BY <1>1 DEF Desk, VoidInvoice, RecordPayment, Elsewhere, Capture, Process, Lapse, Repay, Starting,
              Reserve, Resume, AskCancel, ReserveRefund, ResumeRefund, rows
<1>2. ASSUME NEW c \in Calls, Going(c) PROVE UNCHANGED invoice
  BY <1>2, GoingMoves
<1> QED BY <1>1, <1>2 DEF Next, Delivering, Deliver, vars

-----------------------------------------------------------------------------
(* The rows.                                                               *)

\* Payments, refunds and attempts keep agreeing.
LEMMA RowsAgreeKept ==
  ASSUME TypeOK, Rows, [Next]_vars
  PROVE  RowsAgree'
<1> SUFFICES ASSUME NEW b \in Attempts
             PROVE  /\ b \in payments' <=> attempt'[b].state \in {"PAID", "REFUNDED"}
                    /\ refund'[b].state = "SUCCEEDED" <=> attempt'[b].state = "REFUNDED"
                    /\ refund'[b].state # "NONE" => b \in payments'
                    /\ attempt'[b].state # "NONE" => attempt'[b].amount > 0 /\ invoice' = "ISSUED"
                    /\ attempt'[b].session => attempt'[b].state # "NONE"
  BY DEF RowsAgree
<1>0. /\ b \in payments <=> attempt[b].state \in {"PAID", "REFUNDED"}
      /\ refund[b].state = "SUCCEEDED" <=> attempt[b].state = "REFUNDED"
      /\ refund[b].state # "NONE" => b \in payments
      /\ attempt[b].state # "NONE" => attempt[b].amount > 0 /\ invoice = "ISSUED"
      /\ attempt[b].session => attempt[b].state # "NONE"
  BY DEF Rows, RowsAgree
<1>1. CASE Quiet
  <2>1. attempt[b].state # "NONE" => invoice' = "ISSUED"
    BY <1>0, <1>1, InvoiceMoves DEF VoidInvoice
  <2> QED BY <1>0, <1>1, <2>1 DEF Quiet, RefundMoves
<1>2. ASSUME NEW c \in Calls, NEW a \in Attempts, Reserve(c, a)
      PROVE  /\ UNCHANGED <<payments, refund, invoice>> /\ invoice = "ISSUED"
             /\ attempt[a].state = "NONE"
  BY <1>2 DEF Reserve
<1>3. CASE \E c \in Calls, a \in Attempts : Reserve(c, a)
  <2>1. PICK c \in Calls, a \in Attempts : Reserve(c, a)
    BY <1>3
  <2> QED BY <1>0, <1>2, <2>1, ReserveNow
<1>4. UNCHANGED invoice \/ (attempt[b].state = "NONE" /\ UNCHANGED attempt)
  BY InvoiceMoves DEF VoidInvoice
<1>5. ASSUME NEW a \in Attempts, Moves(a) PROVE b \in payments' <=> b \in payments
  BY <1>5 DEF Moves
<1>6. CASE \E a \in Attempts : Moves(a)
  <2>1. PICK a \in Attempts : Moves(a)
    BY <1>6
  <2>2. RefundMoves
    BY <2>1 DEF Moves
  <2> QED BY <1>0, <1>4, <1>5, <2>1, <2>2, MovesNow DEF Now, RefundMoves, Active
<1>7. CASE \E a \in Attempts : Takes(a)
  <2>1. PICK a \in Attempts : Takes(a)
    BY <1>7
  <2>2. Now(a, "PAID") /\ attempt'[a].session = attempt[a].session
    BY <2>1, BecomeNow DEF Takes
  <2>3. attempt[a].state # "NONE" /\ attempt[a].amount > 0
    BY <2>1 DEF Takes, Rows, RowsAgree, ProviderOrder
  <2> QED BY <1>0, <1>4, <2>1, <2>2, <2>3 DEF Now, Takes, RowsAgree, Rows
<1>8. CASE \E a \in Attempts : GivesBack(a)
  <2>1. PICK a \in Attempts : GivesBack(a)
    BY <1>8
  <2>2. Now(a, "REFUNDED") /\ attempt'[a].session = attempt[a].session
    BY <2>1, BecomeNow DEF GivesBack
  <2>3. attempt[a].state # "NONE" /\ attempt[a].amount > 0
    BY <2>1 DEF GivesBack, Rows, RowsAgree, ProviderOrder
  <2>4. /\ refund'[a].state = "SUCCEEDED"
        /\ \A d \in Attempts \ {a} : refund'[d] = refund[d]
    BY <2>1 DEF GivesBack, TypeOK
  <2> QED BY <1>0, <1>4, <2>1, <2>2, <2>3, <2>4 DEF Now, GivesBack
<1> QED BY <1>1, <1>3, <1>6, <1>7, <1>8, AttemptMoves

\* No two attempts become active.
LEMMA OneActiveKept ==
  ASSUME TypeOK, Rows, [Next]_vars
  PROVE  OneActive'
<1>0. OneActive
  BY DEF Rows
<1>1. CASE Quiet
  BY <1>0, <1>1 DEF OneActive, Quiet
<1>2. CASE \E c \in Calls, a \in Attempts : Reserve(c, a)
  <2>1. PICK c \in Calls, a \in Attempts : Reserve(c, a)
    BY <1>2
  <2>2. \A b \in Attempts : attempt[b].state \notin Active
    BY <2>1 DEF Reserve, HasActive
  <2>3. \A b \in Attempts \ {a} : attempt'[b].state \notin Active
    BY <2>1, <2>2, ReserveNow
  <2> QED BY <2>3 DEF OneActive
<1>3. CASE \E a \in Attempts : Moves(a)
  <2>1. PICK a \in Attempts : Moves(a)
    BY <1>3
  <2>2. attempt[a].state \in Active /\ \A b \in Attempts \ {a} : attempt'[b] = attempt[b]
    BY <2>1, MovesNow DEF Now
  <2> QED BY <1>0, <2>2 DEF OneActive
<1>4. CASE \E a \in Attempts : Takes(a) \/ GivesBack(a)
  <2>1. PICK a \in Attempts : Takes(a) \/ GivesBack(a)
    BY <1>4
  <2>2. /\ attempt'[a].state \notin Active
        /\ \A b \in Attempts \ {a} : attempt'[b] = attempt[b]
    BY <2>1, BooksNow DEF Now, Active
  <2> QED BY <1>0, <2>2 DEF OneActive
<1> QED BY <1>1, <1>2, <1>3, <1>4, AttemptMoves

\* An attempt that was reserved stays so, and whatever changes it, or its
\* session, gives it another version.
LEMMA AttemptGrows ==
  ASSUME TypeOK, Rows, [Next]_vars, NEW b \in Attempts, attempt[b].state # "NONE"
  PROVE  /\ attempt'[b].state # "NONE"
         /\ attempt'[b] = attempt[b] \/ attempt'[b].version > attempt[b].version
         /\ attempt[b].session => attempt'[b].session
<1>1. CASE Quiet
  BY <1>1 DEF Quiet
<1>2. ASSUME NEW c \in Calls, NEW a \in Attempts, Reserve(c, a) PROVE attempt'[b] = attempt[b]
  BY <1>2, ReserveNow DEF Reserve
<1>3. ASSUME NEW a \in Attempts, Moves(a)
      PROVE  /\ attempt'[b].state # "NONE"
             /\ attempt'[b] = attempt[b] \/ attempt'[b].version > attempt[b].version
             /\ attempt[b].session => attempt'[b].session
  <2>1. PICK s \in {"CHECKOUT", "PENDING", "FAILED", "CANCELLED"} : Now(a, s)
    BY <1>3, MovesNow
  <2>2. attempt[a].session => attempt'[a].session
    BY <1>3, SavesNow, BecomeNow DEF Moves, Closes, Waits
  <2> QED BY <2>1, <2>2 DEF Now
<1>4. ASSUME NEW a \in Attempts, Takes(a) \/ GivesBack(a)
      PROVE  /\ attempt'[b].state # "NONE"
             /\ attempt'[b] = attempt[b] \/ attempt'[b].version > attempt[b].version
             /\ attempt[b].session => attempt'[b].session
  BY <1>4, BooksNow DEF Now
<1> QED BY <1>1, <1>2, <1>3, <1>4, AttemptMoves

\* The provider forgets nothing.
LEMMA ProviderGrows ==
  ASSUME TypeOK, Rows, [Next]_vars, NEW b \in Attempts
  PROVE  provider[b] \subseteq provider'[b]
BY ProviderMoves DEF Learn, TypeOK

\* Call c is now about a, and may close it only as Withdrawing says.
Asks(c, a) ==
  /\ call'[c].attempt = a
  /\ attempt[a].state # "NONE" \/ attempt'[a].state = "CHECKOUT"
  /\ call'[c].step = "FAIL" => "CANCELLED" \in provider'[a]
  /\ call'[c].step = "CANCEL" =>
       \/ "CANCELLED" \in provider'[a]
       \/ /\ UNCHANGED attempt
          /\ call'[c].version = attempt[a].version /\ ~ attempt[a].session

LEMMA StartingCall ==
  ASSUME TypeOK, Rows, NEW c \in Calls, NEW a \in Attempts,
         Reserve(c, a) \/ Resume(c, a) \/ AskCancel(c, a) \/ ReserveRefund(c, a) \/ ResumeRefund(c, a)
  PROVE  Asks(c, a) /\ \A d \in Calls \ {c} : call'[d] = call[d]
<1>1. PICK s \in {"HOST", "WITHDRAW", "CANCEL", "REFUND"}, v \in Nat :
        call' = [call EXCEPT ![c] = [step |-> s, attempt |-> a, version |-> v]]
  BY DEF Reserve, Resume, AskCancel, ReserveRefund, ResumeRefund, TypeOK, AttemptType
<1>2. call'[c] = [step |-> s, attempt |-> a, version |-> v] /\ \A d \in Calls \ {c} : call'[d] = call[d]
  BY <1>1 DEF TypeOK
<1>3. CASE Reserve(c, a)
  BY <1>2, <1>3, ReserveNow DEF Reserve, Asks, TypeOK, CallType
<1>4. CASE Resume(c, a)
  BY <1>2, <1>4 DEF Resume, Asks, TypeOK
<1>5. CASE AskCancel(c, a)
  <2>1. call'[c] = [step |-> IF attempt[a].session THEN "WITHDRAW" ELSE "CANCEL",
                    attempt |-> a, version |-> attempt[a].version]
    BY <1>5 DEF AskCancel, TypeOK
  <2> QED BY <1>2, <1>5, <2>1 DEF AskCancel, Asks, Active, rows
<1>6. CASE ReserveRefund(c, a) \/ ResumeRefund(c, a)
  <2>1. call'[c] = [step |-> "REFUND", attempt |-> a, version |-> 0]
    BY <1>6 DEF ReserveRefund, ResumeRefund, TypeOK
  <2>2. attempt[a].state # "NONE"
    BY <1>6 DEF ReserveRefund, ResumeRefund, Rows, RowsAgree
  <2> QED BY <1>2, <2>1, <2>2 DEF Asks
<1> QED BY <1>3, <1>4, <1>5, <1>6, <1>2

\* A call that goes on ends, or goes to a next step about the same attempt.
LEMMA GoingCall ==
  ASSUME TypeOK, Rows, NEW c \in Calls, Going(c)
  PROVE  /\ \A d \in Calls \ {c} : call'[d] = call[d]
         /\ call'[c] = Idle \/ (call[c].attempt \in Attempts /\ Asks(c, call[c].attempt))
<1> DEFINE a == call[c].attempt
           Goal == /\ \A d \in Calls \ {c} : call'[d] = call[d]
                   /\ call'[c] = Idle \/ (a \in Attempts /\ Asks(c, a))
<1>1. a \in Attempts /\ attempt[a].state # "NONE"
  <2>1. call[c].step # "NOTHING"
    BY DEF Going, Host, Finalize, Compensate, CloseAtProvider, FailCheckout, Withdraw, Cancel,
           AskRefund, NameRefund, GiveUpRefund, Lose, At
  <2> QED BY <2>1 DEF Rows, CallsRefer
<1>2. ASSUME End(c) PROVE Goal
  BY <1>2 DEF End, TypeOK
<1>3. ASSUME NEW s, Continue(c, s),
             s = "FAIL" \/ s = "CANCEL" => "CANCELLED" \in provider'[a]
      PROVE  Goal
  <2>1. call'[c].step = s /\ call'[c].attempt = a /\ \A d \in Calls \ {c} : call'[d] = call[d]
    BY <1>3 DEF Continue, TypeOK, CallType
  <2> QED BY <1>1, <1>3, <2>1 DEF Asks
<1>4. CASE \E s \in {"FINALIZE", "COMPENSATE", "CLOSE", "NAME", "GIVE_UP"} : Continue(c, s)
  BY <1>3, <1>4
<1>5. ASSUME NEW s, CancelAtProvider(c, a, Continue(c, s)) PROVE Goal
  <2>1. CASE End(c)
    BY <1>2, <2>1
  <2>2. CASE Learn(a, "CANCELLED") /\ Continue(c, s)
    <3>1. "CANCELLED" \in provider'[a]
      BY <1>1, <2>2 DEF Learn, TypeOK
    <3> QED BY <1>3, <2>2, <3>1
  <2> QED BY <1>5, <2>1, <2>2 DEF CancelAtProvider
<1>6. CASE Host(c) \/ Finalize(c) \/ Compensate(c) \/ FailCheckout(c) \/ Cancel(c) \/ AskRefund(c)
           \/ NameRefund(c) \/ GiveUpRefund(c) \/ Lose(c)
  <2>1. End(c) \/ \E s \in {"FINALIZE", "COMPENSATE", "CLOSE", "NAME", "GIVE_UP"} : Continue(c, s)
    BY <1>6 DEF Host, Finalize, Compensate, FailCheckout, Cancel, AskRefund, NameRefund,
                GiveUpRefund, Lose, CancelAtProvider
  <2> QED BY <1>2, <1>4, <2>1
<1>7. CASE CloseAtProvider(c) \/ Withdraw(c)
  BY <1>5, <1>7 DEF CloseAtProvider, Withdraw
<1> QED BY <1>6, <1>7 DEF Going

\* Every call stays, ends, or is now about an attempt.
LEMMA CallMoves ==
  ASSUME TypeOK, Rows, [Next]_vars, NEW d \in Calls
  PROVE  call'[d] = call[d] \/ call'[d] = Idle \/ \E a \in Attempts : Asks(d, a)
<1>1. CASE Desk \/ Elsewhere \/ Delivering \/ UNCHANGED vars
  BY <1>1 DEF Desk, VoidInvoice, RecordPayment, Elsewhere, Capture, Process, Lapse, Repay, Delivering,
              Deliver, vars
<1>2. ASSUME NEW c \in Calls, Starting(c) PROVE call'[d] = call[d] \/ \E a \in Attempts : Asks(d, a)
  BY <1>2, StartingCall DEF Starting
<1>3. ASSUME NEW c \in Calls, Going(c)
      PROVE  call'[d] = call[d] \/ call'[d] = Idle \/ \E a \in Attempts : Asks(d, a)
  BY <1>3, GoingCall
<1> QED BY <1>1, <1>2, <1>3 DEF Next

\* Calls stay about attempts that were reserved.
LEMMA CallsReferKept ==
  ASSUME TypeOK, Rows, [Next]_vars
  PROVE  CallsRefer'
<1> SUFFICES ASSUME NEW d \in Calls, call'[d].step # "NOTHING"
             PROVE  call'[d].attempt \in Attempts /\ attempt'[call'[d].attempt].state # "NONE"
  BY DEF CallsRefer
<1>1. CASE call'[d] = call[d]
  <2>1. call[d].attempt \in Attempts /\ attempt[call[d].attempt].state # "NONE"
    BY <1>1 DEF Rows, CallsRefer
  <2> QED BY <1>1, <2>1, AttemptGrows
<1>2. CASE call'[d] = Idle
  BY <1>2 DEF Idle
<1>3. CASE \E a \in Attempts : Asks(d, a)
  BY <1>3, AttemptGrows DEF Asks
<1> QED BY <1>1, <1>2, <1>3, CallMoves

\* Who is about to close an attempt stays entitled to it, or is too late.
LEMMA WithdrawingKept ==
  ASSUME TypeOK, Rows, [Next]_vars
  PROVE  Withdrawing'
<1> SUFFICES ASSUME NEW d \in Calls, call'[d].step \in {"FAIL", "CANCEL"}
             PROVE  \/ "CANCELLED" \in provider'[call'[d].attempt]
                    \/ /\ call'[d].step = "CANCEL"
                       /\ \/ call'[d].version < attempt'[call'[d].attempt].version
                          \/ /\ call'[d].version = attempt'[call'[d].attempt].version
                             /\ ~ attempt'[call'[d].attempt].session
  BY DEF Withdrawing, At
<1>1. CASE call'[d] = call[d]
  <2> DEFINE a == call[d].attempt
  <2>1. a \in Attempts /\ attempt[a].state # "NONE"
    BY <1>1 DEF Rows, CallsRefer
  <2>2. \/ "CANCELLED" \in provider[a]
        \/ /\ call[d].step = "CANCEL"
           /\ \/ call[d].version < attempt[a].version
              \/ call[d].version = attempt[a].version /\ ~ attempt[a].session
    BY <1>1 DEF Rows, Withdrawing, At
  <2>3. call[d].version \in Nat /\ attempt[a].version \in Nat /\ attempt'[a].version \in Nat
    BY <2>1, TypedStep DEF TypeOK, CallType, AttemptType
  <2>4. attempt'[a] = attempt[a] \/ attempt'[a].version > attempt[a].version
    BY <2>1, AttemptGrows
  <2>5. provider[a] \subseteq provider'[a]
    BY <2>1, ProviderGrows
  <2> QED BY <1>1, <2>2, <2>3, <2>4, <2>5
<1>2. CASE call'[d] = Idle
  BY <1>2 DEF Idle
<1>3. CASE \E a \in Attempts : Asks(d, a)
  BY <1>3 DEF Asks
<1> QED BY <1>1, <1>2, <1>3, CallMoves

\* What is closed here stays closed there, and is when it gets closed.
LEMMA WithdrawnKept ==
  ASSUME TypeOK, Rows, [Next]_vars
  PROVE  Withdrawn'
<1> SUFFICES ASSUME NEW b \in Attempts, attempt'[b].state \in {"FAILED", "CANCELLED"},
                    attempt'[b].session
             PROVE  \E fact \in {"PAID", "FAILED", "CANCELLED"} : fact \in provider'[b]
  BY DEF Withdrawn
<1>1. provider[b] \subseteq provider'[b]
  BY ProviderGrows
<1>2. CASE attempt'[b] = attempt[b]
  BY <1>1, <1>2 DEF Rows, Withdrawn
<1>3. CASE Quiet
  BY <1>2, <1>3 DEF Quiet
<1>4. ASSUME NEW c \in Calls, NEW a \in Attempts, Reserve(c, a) PROVE attempt'[b] = attempt[b]
  BY <1>4, ReserveNow
<1>5. ASSUME NEW a \in Attempts, Moves(a)
      PROVE  \E fact \in {"PAID", "FAILED", "CANCELLED"} : fact \in provider'[b]
  <2>1. CASE Saves(a)
    BY <1>2, <2>1, SavesNow DEF Now
  <2>2. CASE Closes(a)
    <3>1. attempt'[a].session = attempt[a].session
      BY <2>2, BecomeNow DEF Closes
    <3>2. a # b => attempt'[b] = attempt[b]
      BY <1>5, MovesNow DEF Now
    <3> QED BY <1>1, <1>2, <2>2, <3>1, <3>2 DEF Closes
  <2>3. CASE Waits(a)
    BY <1>2, <2>3, BecomeNow DEF Waits, Now
  <2> QED BY <1>5, <2>1, <2>2, <2>3 DEF Moves
<1>6. ASSUME NEW a \in Attempts, Takes(a) \/ GivesBack(a) PROVE attempt'[b] = attempt[b]
  BY <1>6, BooksNow DEF Now
<1> QED BY <1>2, <1>3, <1>4, <1>5, <1>6, AttemptMoves

\* The provider's facts keep their order.
LEMMA ProviderOrderKept ==
  ASSUME TypeOK, Rows, [Next]_vars
  PROVE  ProviderOrder'
<1> SUFFICES ASSUME NEW b \in Attempts
             PROVE  /\ "REFUNDED" \in provider'[b] => "PAID" \in provider'[b]
                    /\ "PAID" \in provider'[b] => attempt'[b].session /\ "FAILED" \notin provider'[b]
  BY DEF ProviderOrder
<1>0. /\ "REFUNDED" \in provider[b] => "PAID" \in provider[b]
      /\ "PAID" \in provider[b] => attempt[b].session /\ "FAILED" \notin provider[b]
  BY DEF Rows, ProviderOrder
<1>1. CASE UNCHANGED provider
  <2>1. attempt[b].session => attempt[b].state # "NONE"
    BY DEF Rows, RowsAgree
  <2> QED BY <1>0, <1>1, <2>1, AttemptGrows
<1>2. CASE /\ UNCHANGED rows
           /\ \E a \in Attempts, f \in Facts :
                /\ Learn(a, f)
                /\ f = "PAID" => Open(a) /\ attempt[a].session
                /\ f = "FAILED" => Open(a)
                /\ f = "REFUNDED" => "PAID" \in provider[a]
  <2>1. PICK a \in Attempts, f \in Facts :
                /\ Learn(a, f)
                /\ f = "PAID" => Open(a) /\ attempt[a].session
                /\ f = "FAILED" => Open(a)
                /\ f = "REFUNDED" => "PAID" \in provider[a]
    BY <1>2
  <2>2. provider'[b] = IF b = a THEN provider[b] \union {f} ELSE provider[b]
    BY <2>1 DEF Learn, TypeOK
  <2>3. attempt' = attempt
    BY <1>2 DEF rows
  <2> QED BY <1>0, <2>1, <2>2, <2>3 DEF Open
<1> QED BY <1>1, <1>2, ProviderMoves

LEMMA RowsKept ==
  ASSUME TypeOK, Rows, [Next]_vars
  PROVE  Rows'
BY CallsReferKept, RowsAgreeKept, OneActiveKept, WithdrawingKept, WithdrawnKept, ProviderOrderKept
   DEF Rows

-----------------------------------------------------------------------------
(* What the invoice holds.                                                 *)

\* What is held stays where no payment is booked or given back.
LEMMA HeldSame ==
  ASSUME TypeOK, payments' \ Returned' = payments \ Returned, byHand' = byHand,
         \A a \in payments \ Returned : attempt'[a].amount = attempt[a].amount
  PROVE  NetPaid' = NetPaid
<1>1. \A a \in payments \ Returned : Amounts'[a] = Amounts[a]
  BY DEF Amounts, TypeOK
<1>2. Total(payments \ Returned, Amounts') = Total(payments \ Returned, Amounts)
  BY <1>1, TotalSame
<1> QED BY <1>2 DEF NetPaid

\* A payment that is booked adds its amount.
LEMMA HeldTaken ==
  ASSUME TypeOK, Rows, NEW a \in Attempts, Takes(a), byHand' = byHand
  PROVE  NetPaid' = NetPaid + attempt[a].amount
<1> DEFINE S == payments \ Returned
<1>1. a \notin payments /\ refund[a].state # "SUCCEEDED"
  BY DEF Takes, Rows, RowsAgree
<1>2. Returned' = Returned /\ a \notin Returned
  BY <1>1 DEF Takes, Returned
<1>3. payments' \ Returned' = S \union {a} /\ (S \union {a}) \ {a} = S
  BY <1>1, <1>2 DEF Takes
<1>4. \A b \in Attempts : attempt'[b].amount = attempt[b].amount
  BY BecomeNow DEF Takes, Now
<1>5. \A b \in S \union {a} : Amounts'[b] = Amounts[b] /\ Amounts[b] \in Nat
  BY <1>4, PaymentsAssumption DEF Amounts, TypeOK, AttemptType
<1>6. IsFiniteSet(S \union {a})
  BY NetPaidTyped, FS_AddElement
<1>7. Total(S \union {a}, Amounts) = Total(S, Amounts) + Amounts[a]
  BY <1>3, <1>5, <1>6, TotalSplit
<1>8. Total(S \union {a}, Amounts') = Total(S \union {a}, Amounts)
  BY <1>5, TotalSame
<1>9. Amounts[a] = attempt[a].amount
  BY DEF Amounts
<1>10. NetPaid' = byHand' + Total(S \union {a}, Amounts')
  BY <1>3 DEF NetPaid
<1> QED BY <1>5, <1>7, <1>8, <1>9, <1>10, NetPaidTyped DEF NetPaid, TypeOK

\* A payment that is given back adds nothing.
LEMMA HeldGivenBack ==
  ASSUME TypeOK, Rows, NEW a \in Attempts, GivesBack(a), byHand' = byHand
  PROVE  NetPaid' \in Nat /\ NetPaid' <= NetPaid
<1> DEFINE S == payments \ Returned
<1>1. Returned' = Returned \union {a}
  BY DEF GivesBack, Returned, TypeOK
<1>2. payments' \ Returned' = S \ {a}
  BY <1>1 DEF GivesBack
<1>3. \A b \in Attempts : attempt'[b].amount = attempt[b].amount
  BY BecomeNow DEF GivesBack, Now
<1>4. \A b \in S : Amounts'[b] = Amounts[b] /\ Amounts[b] \in Nat
  BY <1>3, PaymentsAssumption DEF Amounts, TypeOK, AttemptType
<1>5. Total(S \ {a}, Amounts') = Total(S \ {a}, Amounts)
  BY <1>4, TotalSame
<1>6. Total(S \ {a}, Amounts) <= Total(S, Amounts)
  <2>1. CASE a \in S
    <3>1. Total(S, Amounts) = Total(S \ {a}, Amounts) + Amounts[a]
      BY <1>4, <2>1, NetPaidTyped, TotalSplit
    <3>2. Total(S \ {a}, Amounts) \in Nat
      BY <1>4, NetPaidTyped, FS_RemoveElement, TotalType
    <3> QED BY <1>4, <2>1, <3>1, <3>2
  <2>2. CASE a \notin S
    <3>1. S \ {a} = S
      BY <2>2
    <3> QED BY <3>1, NetPaidTyped
  <2> QED BY <2>1, <2>2
<1>7. Total(S \ {a}, Amounts) \in Nat
  BY <1>4, NetPaidTyped, FS_RemoveElement, TotalType
<1>8. NetPaid' = byHand' + Total(S \ {a}, Amounts')
  BY <1>2 DEF NetPaid
<1> QED BY <1>5, <1>6, <1>7, <1>8, NetPaidTyped DEF NetPaid

\* Asking for a refund, or giving it up, gives nothing back.
LEMMA RefundMovesKeep ==
  ASSUME TypeOK, RefundMoves, UNCHANGED payments
  PROVE  Returned' = Returned /\ payments' \ Returned' = payments \ Returned
BY DEF RefundMoves, Returned

\* Only the desk changes the invoice, or money by hand, and takes none while an
\* attempt is active.
LEMMA DeskMoves ==
  ASSUME TypeOK, Rows, [Next]_vars
  PROVE  \/ UNCHANGED <<invoice, byHand>>
         \/ /\ Desk /\ ~ HasActive
            /\ UNCHANGED <<attempt, payments, refund>>
<1>1. CASE Desk
  BY <1>1 DEF Desk, VoidInvoice, RecordPayment, HasActive, Active
<1>2. CASE Elsewhere \/ \E c \in Calls : Starting(c)
  BY <1>2 DEF Elsewhere, Capture, Process, Lapse, Repay, Starting, Reserve, Resume, AskCancel,
              ReserveRefund, ResumeRefund, rows
<1>3. ASSUME NEW c \in Calls, Going(c) PROVE UNCHANGED <<invoice, byHand>>
  BY <1>3, GoingMoves
<1> QED BY <1>1, <1>2, <1>3 DEF Next, Delivering, Deliver, vars

-----------------------------------------------------------------------------
(* Room, with a provider that cancels only what is unpaid.                 *)

\* What is taken stays taken of an attempt that waits for it, or has it.
LEMMA TakenKept ==
  ASSUME IInv, [Next]_vars, CancelsOnlyUnpaid, CancelsOnlyUnpaid',
         NEW b \in Attempts, "PAID" \in provider'[b]
  PROVE  attempt'[b].state \in Active \union {"PAID", "REFUNDED"}
<1> USE DEF IInv
<1>1. CASE "PAID" \notin provider[b]
  <2>1. UNCHANGED rows /\ Open(b) /\ attempt[b].session
    <3>1. PICK a \in Attempts, f \in Facts :
            Learn(a, f) /\ UNCHANGED rows /\ (f = "PAID" => Open(a) /\ attempt[a].session)
      BY <1>1, ProviderMoves
    <3>2. a = b /\ f = "PAID"
      BY <1>1, <3>1 DEF Learn, TypeOK
    <3> QED BY <3>1, <3>2
  <2>2. attempt[b].state \notin {"NONE", "FAILED", "CANCELLED"}
    BY <2>1 DEF Rows, RowsAgree, Withdrawn, Open
  <2>3. attempt[b].state \in States
    BY DEF TypeOK, AttemptType
  <2> QED BY <2>1, <2>2, <2>3 DEF rows, States, Active
<1>2. CASE "PAID" \in provider[b]
  <2>1. /\ attempt[b].state \in Active \union {"PAID", "REFUNDED"}
        /\ attempt[b].session /\ "FAILED" \notin provider[b] /\ "CANCELLED" \notin provider[b]
    BY <1>2 DEF Room, Rows, ProviderOrder, CancelsOnlyUnpaid
  <2>2. CASE attempt'[b] = attempt[b]
    BY <2>1, <2>2
  <2>3. ASSUME NEW c \in Calls, NEW a \in Attempts, Reserve(c, a) PROVE attempt'[b] = attempt[b]
    BY <2>1, <2>3, ReserveNow DEF Reserve, Active
  <2>4. ASSUME NEW a \in Attempts, Moves(a)
        PROVE  attempt'[b].state \in Active \union {"PAID", "REFUNDED"}
    <3>1. CASE a # b
      BY <2>2, <2>4, <3>1, MovesNow DEF Now
    <3>2. CASE a = b
      <4>1. Saves(b) \/ Waits(b)
        BY <2>1, <2>4, <3>2 DEF Moves, Closes
      <4> QED BY <4>1, SavesNow, BecomeNow DEF Waits, Now, Active
    <3> QED BY <3>1, <3>2
  <2>5. ASSUME NEW a \in Attempts, Takes(a) \/ GivesBack(a)
        PROVE  attempt'[b].state \in Active \union {"PAID", "REFUNDED"}
    BY <2>1, <2>5, BooksNow DEF Now
  <2> QED BY <2>2, <2>3, <2>4, <2>5, AttemptMoves DEF Quiet
<1> QED BY <1>1, <1>2

\* There stays room for the active attempt.
LEMMA ActiveFits ==
  ASSUME IInv, [Next]_vars, CancelsOnlyUnpaid,
         NEW b \in Attempts, attempt'[b].state \in Active
  PROVE  NetPaid' + attempt'[b].amount <= Due
<1> USE DEF IInv
<1>0. attempt[b].state \in Active => NetPaid + attempt[b].amount <= Due
  BY DEF Room
<1>1. CASE ~ UNCHANGED <<invoice, byHand>>
  BY <1>1, DeskMoves DEF HasActive
<1>2. CASE UNCHANGED <<invoice, byHand>>
  <2>1. CASE Quiet
    <3>1. NetPaid' = NetPaid
      BY <1>2, <2>1, RefundMovesKeep, HeldSame DEF Quiet
    <3> QED BY <1>0, <2>1, <3>1 DEF Quiet
  <2>2. ASSUME NEW c \in Calls, NEW a \in Attempts, Reserve(c, a)
        PROVE  NetPaid' + attempt'[b].amount <= Due
    <3>1. \A d \in Attempts : attempt[d].state \notin Active
      BY <2>2 DEF Reserve, HasActive
    <3>2. b = a /\ attempt'[a].amount = Due - NetPaid
      BY <2>2, <3>1, ReserveNow
    <3>3. a \notin payments
      BY <2>2 DEF Reserve, Rows, RowsAgree
    <3>4. payments' \ Returned' = payments \ Returned
      BY <2>2 DEF Reserve, Returned
    <3>5. NetPaid' = NetPaid
      <4>1. \A d \in payments \ Returned : attempt'[d].amount = attempt[d].amount
        BY <2>2, <3>3, ReserveNow DEF TypeOK
      <4> QED BY <1>2, <3>4, <4>1, HeldSame
    <3> QED BY <3>2, <3>5, NetPaidTyped, PaymentsAssumption
  <2>3. ASSUME NEW a \in Attempts, Moves(a) PROVE NetPaid' + attempt'[b].amount <= Due
    <3>1. attempt[a].state \in Active /\ \A d \in Attempts : attempt'[d].amount = attempt[d].amount
      BY <2>3, MovesNow DEF Now
    <3>2. NetPaid' = NetPaid
      BY <1>2, <2>3, <3>1, RefundMovesKeep, HeldSame DEF Moves, TypeOK
    <3>3. attempt[b].state \in Active
      BY <2>3, <3>1, MovesNow DEF Now
    <3> QED BY <1>0, <3>1, <3>2, <3>3
  <2>4. ASSUME NEW a \in Attempts, Takes(a) \/ GivesBack(a)
        PROVE  a # b /\ attempt[b].state \in Active /\ attempt'[b] = attempt[b]
    BY <2>4, BooksNow DEF Now, Active
  <2>5. ASSUME NEW a \in Attempts, Takes(a) PROVE FALSE
    <3>1. attempt[a].state \in Active
      BY <2>5 DEF Room, Takes
    <3> QED BY <2>4, <2>5, <3>1 DEF Rows, OneActive
  <2>6. ASSUME NEW a \in Attempts, GivesBack(a) PROVE NetPaid' + attempt'[b].amount <= Due
    <3>1. NetPaid' \in Nat /\ NetPaid' <= NetPaid
      BY <1>2, <2>6, HeldGivenBack
    <3>2. NetPaid \in Nat
      BY NetPaidTyped
    <3>3. attempt[b].amount \in Nat
      BY PaymentsAssumption DEF TypeOK, AttemptType
    <3> QED BY <1>0, <2>4, <2>6, <3>1, <3>2, <3>3, PaymentsAssumption
  <2> QED BY <2>1, <2>2, <2>3, <2>5, <2>6, AttemptMoves
<1> QED BY <1>1, <1>2

\* A capture or a refund is turned away only for want of room.
LEMMA ConflictMoves ==
  ASSUME TypeOK, [Next]_vars, NEW b \in Attempts, NEW t \in {"PAID", "REFUNDED"},
         receipts'[b][t] = "CONFLICT", receipts[b][t] # "CONFLICT"
  PROVE  t \in provider[b] /\ attempt[b].state # "REFUNDED" /\ b \notin payments /\ ~ Fits(b)
<1>1. CASE UNCHANGED receipts
  BY <1>1
<1>2. CASE Desk \/ Elsewhere \/ \E c \in Calls : Starting(c)
  BY <1>2 DEF Desk, VoidInvoice, RecordPayment, Elsewhere, Capture, Process, Lapse, Repay, Starting,
              Reserve, Resume, AskCancel, ReserveRefund, ResumeRefund, rows
<1>3. ASSUME NEW c \in Calls, Going(c) PROVE UNCHANGED receipts
  BY <1>3 DEF Going, Host, Finalize, Compensate, CloseAtProvider, FailCheckout, Withdraw, Cancel,
              AskRefund, NameRefund, GiveUpRefund, Lose, rows
<1>4. ASSUME NEW a \in Attempts, NEW type \in EventTypes, Deliver(a, type)
      PROVE  t \in provider[b] /\ attempt[b].state # "REFUNDED" /\ b \notin payments /\ ~ Fits(b)
  <2>1. PICK result \in Results : Keep(a, type, result)
    BY <1>4 DEF Deliver, ApplyPending, ApplyFailure, ApplyPaid, ApplyRefunded, Results
  <2>2. \A d \in Attempts, u \in EventTypes :
          receipts'[d][u] = IF d = a /\ u = type THEN result ELSE receipts[d][u]
    BY <2>1 DEF Keep, TypeOK
  <2>3. a = b /\ type = t /\ result = "CONFLICT"
    BY <2>2 DEF EventTypes
  <2>4. receipts'[b][t] = "CONFLICT" /\ t \in EventTypes
    BY <2>2, <2>3
  <2>5. ASSUME NEW r \in {"APPLIED", "IGNORED"}, Keep(b, t, r) PROVE FALSE
    <3>1. receipts'[b][t] = r
      BY <2>4, <2>5 DEF Keep, TypeOK
    <3> QED BY <2>4, <3>1
  <2>6. CASE t = "PAID"
    BY <1>4, <2>3, <2>5, <2>6 DEF Deliver, ApplyPaid
  <2>7. CASE t = "REFUNDED"
    BY <1>4, <2>3, <2>5, <2>7 DEF Deliver, ApplyRefunded
  <2> QED BY <2>6, <2>7
<1> QED BY <1>1, <1>2, <1>3, <1>4 DEF Next, Delivering, vars

\* No capture or refund is turned away.
LEMMA BookedKept ==
  ASSUME IInv, [Next]_vars, CancelsOnlyUnpaid, NEW b \in Attempts, NEW t \in {"PAID", "REFUNDED"}
  PROVE  receipts'[b][t] # "CONFLICT"
<1> SUFFICES ASSUME receipts'[b][t] = "CONFLICT" PROVE FALSE
  OBVIOUS
<1>1. receipts[b][t] # "CONFLICT"
  BY DEF IInv, TakenIsBooked
<1>2. t \in provider[b] /\ attempt[b].state # "REFUNDED" /\ b \notin payments /\ ~ Fits(b)
  BY <1>1, ConflictMoves DEF IInv
<1>3. "PAID" \in provider[b]
  BY <1>2 DEF IInv, Rows, ProviderOrder
<1>4. attempt[b].state \in Active
  BY <1>2, <1>3 DEF IInv, Room, Rows, RowsAgree
<1>5. invoice = "ISSUED" /\ NetPaid + attempt[b].amount <= Due
  BY <1>4 DEF IInv, Room, Rows, RowsAgree, Active
<1> QED BY <1>2, <1>5 DEF Fits

-----------------------------------------------------------------------------
(* The invariant.                                                          *)

LEMMA IInvInit == Init => IInv
<1> SUFFICES ASSUME Init PROVE IInv
  OBVIOUS
<1>1. \A a \in Attempts : /\ attempt[a].state = "NONE" /\ ~ attempt[a].session
                          /\ refund[a].state = "NONE" /\ provider[a] = {} /\ payments = {}
                          /\ receipts[a]["PAID"] = "NONE" /\ receipts[a]["REFUNDED"] = "NONE"
  BY DEF Init, EventTypes
<1>2. \A c \in Calls : call[c].step = "NOTHING"
  BY DEF Init, Idle
<1>3. Rows
  BY <1>1, <1>2 DEF Rows, CallsRefer, RowsAgree, OneActive, Withdrawing, At, Withdrawn, ProviderOrder,
                    Active
<1>4. Room /\ TakenIsBooked
  BY <1>1 DEF Room, TakenIsBooked, Active
<1> QED BY <1>3, <1>4, TypedInit DEF IInv

LEMMA IInvStep == IInv /\ [Next]_vars => IInv'
<1> SUFFICES ASSUME IInv, [Next]_vars PROVE IInv'
  OBVIOUS
<1>1. TypeOK' /\ Rows'
  BY TypedStep, RowsKept DEF IInv
<1>2. ASSUME CancelsOnlyUnpaid' PROVE CancelsOnlyUnpaid
  BY <1>2, ProviderGrows DEF CancelsOnlyUnpaid, IInv
<1>3. ASSUME CancelsOnlyUnpaid' PROVE Room'
  BY <1>2, <1>3, TakenKept, ActiveFits DEF Room
<1>4. TakenIsBooked'
  BY <1>2, BookedKept DEF TakenIsBooked
<1> QED BY <1>1, <1>3, <1>4 DEF IInv

LEMMA IInvCorrect == Spec => []IInv
BY IInvInit, IInvStep, PTL DEF Spec

(***************************************************************************)
(* The rows keep their types, for any number of attempts and calls and any *)
(* total; in particular what is recorded by hand stays within the total.   *)
(***************************************************************************)
THEOREM TypeCorrect == Spec => []TypeOK
<1>1. IInv => TypeOK
  BY DEF IInv
<1> QED BY IInvCorrect, <1>1, PTL

(***************************************************************************)
(* An attempt that was closed here cannot be paid there any more, whatever *)
(* calls run at once and wherever they are lost.                           *)
(***************************************************************************)
THEOREM ClosedIsWithdrawnCorrect == Spec => []ClosedIsWithdrawn
<1>1. IInv => ClosedIsWithdrawn
  BY DEF IInv, Rows, Withdrawn, ClosedIsWithdrawn, Open
<1> QED BY IInvCorrect, <1>1, PTL

(***************************************************************************)
(* With a provider that cancels only what is unpaid, no capture and no     *)
(* refund is turned away for want of room on the invoice.                  *)
(***************************************************************************)
THEOREM TakenIsBookedCorrect == Spec => []TakenIsBooked
<1>1. IInv => TakenIsBooked
  BY DEF IInv
<1> QED BY IInvCorrect, <1>1, PTL

-----------------------------------------------------------------------------
(* The rows implement Collection.                                          *)

\* What Collection sees booked for each attempt.
Booked == [a \in Attempts |-> IF a \in payments THEN attempt[a].amount ELSE 0]

\* What is held is the same, counted by payments or by attempts.
LEMMA HeldIsNetPaid ==
  ASSUME TypeOK
  PROVE  Books!Held = NetPaid
<1> DEFINE S == Attempts \ Returned
           Row(f, a) == {a} \X (1 .. f[a])
<1>1. \A a \in S \ payments : Booked[a] = 0 /\ Row(Booked, a) = {}
  BY DEF Booked
<1>2. \A a \in payments \ Returned : Booked[a] = Amounts[a] /\ a \in S
  BY DEF Booked, Amounts, TypeOK
<1>3. UNION {Row(Booked, a) : a \in S} = UNION {Row(Booked, a) : a \in payments \ Returned}
  BY <1>1, <1>2
<1>4. Total(S, Booked) = Total(payments \ Returned, Booked)
  BY <1>3 DEF Total, Units
<1>5. Total(payments \ Returned, Booked) = Total(payments \ Returned, Amounts)
  BY <1>2, TotalSame
<1>6. Books!Held = byHand + Books!Total(S, Booked)
  BY DEF Books!Held, Booked
<1>7. Books!Total(S, Booked) = Total(S, Booked)
  BY DEF Books!Total, Books!Units, Total, Units, Books!Cardinality, Cardinality
<1> QED BY <1>4, <1>5, <1>6, <1>7 DEF NetPaid

\* Where nothing is booked or given back, Collection stutters.
LEMMA NothingBooked ==
  ASSUME TypeOK, UNCHANGED <<invoice, byHand, payments>>, Returned' = Returned,
         \A a \in payments : attempt'[a].amount = attempt[a].amount
  PROVE  UNCHANGED Books!vars
<1>1. Booked' = Booked
  BY DEF Booked
<1> QED BY <1>1 DEF Books!vars, Booked

\* One attempt is booked.
LEMMA OneBooked ==
  ASSUME TypeOK, NEW a \in Attempts, payments' = payments \union {a},
         \A b \in Attempts : attempt'[b].amount = attempt[b].amount
  PROVE  Booked' = [Booked EXCEPT ![a] = attempt[a].amount]
BY DEF Booked

\* Every step maps to a step of Collection, or to none.
LEMMA CollectionStep ==
  ASSUME IInv, [Next]_vars
  PROVE  [Books!Next]_(Books!vars)
<1> USE DEF IInv
<1> DEFINE Goal == [Books!Next]_(Books!vars)
<1>1. CASE VoidInvoice
  <2>1. Returned' = Returned /\ Booked' = Booked /\ \A a \in Attempts : Booked[a] = 0
    BY <1>1 DEF VoidInvoice, Returned, Booked
  <2>2. Books!Void
    BY <1>1, <2>1 DEF VoidInvoice, Books!Void, Booked
  <2> QED BY <2>2 DEF Books!Next
<1>2. ASSUME NEW amount \in 1 .. Due, RecordPayment(amount) PROVE Goal
  <2>1. Returned' = Returned /\ Booked' = Booked
    BY <1>2 DEF RecordPayment, Returned, Booked
  <2>2. Books!Held + amount <= Due
    BY <1>2, HeldIsNetPaid, NetPaidTyped, PaymentsAssumption DEF RecordPayment
  <2>3. Books!PayByHand(amount)
    BY <1>2, <2>1, <2>2 DEF RecordPayment, Books!PayByHand, Booked
  <2> QED BY <2>3 DEF Books!Next
<1>3. ASSUME Quiet, UNCHANGED <<invoice, byHand>> PROVE Goal
  BY <1>3, RefundMovesKeep, NothingBooked DEF Quiet
<1>4. ASSUME NEW c \in Calls, NEW a \in Attempts, Reserve(c, a) PROVE Goal
  <2>1. a \notin payments
    BY <1>4 DEF Reserve, Rows, RowsAgree
  <2>2. Returned' = Returned /\ \A b \in payments : attempt'[b] = attempt[b]
    BY <1>4, <2>1, ReserveNow DEF Reserve, Returned, TypeOK
  <2> QED BY <1>4, <2>2, NothingBooked DEF Reserve
<1>5. ASSUME NEW a \in Attempts, Moves(a), UNCHANGED <<invoice, byHand>> PROVE Goal
  <2>1. \A b \in payments : attempt'[b].amount = attempt[b].amount
    BY <1>5, MovesNow DEF Now, TypeOK
  <2> QED BY <1>5, <2>1, RefundMovesKeep, NothingBooked DEF Moves
<1>6. ASSUME NEW a \in Attempts, Takes(a) \/ GivesBack(a), UNCHANGED <<invoice, byHand>> PROVE Goal
  <2>1. Booked' = [Booked EXCEPT ![a] = attempt[a].amount]
    BY <1>6, BooksNow, OneBooked DEF Now
  <2>2. /\ attempt[a].state # "REFUNDED" /\ a \notin Returned
        /\ attempt[a].state # "NONE" /\ attempt[a].amount > 0 /\ invoice = "ISSUED"
    BY <1>6 DEF Takes, GivesBack, Rows, RowsAgree, ProviderOrder, Returned
  <2>3. PICK amount \in 1 .. Due : amount = attempt[a].amount
    <3>1. attempt[a].amount \in 1 .. Due
      BY <2>2, PaymentsAssumption DEF TypeOK, AttemptType
    <3> QED BY <3>1
  <2>4. Returned' \in {Returned, Returned \union {a}} /\ (GivesBack(a) => Returned' = Returned \union {a})
    BY <1>6 DEF Takes, GivesBack, Returned, TypeOK
  <2>5. CASE a \notin payments
    <3>1. Books!Held + amount <= Due
      BY <1>6, <2>3, <2>5, HeldIsNetPaid DEF Takes, GivesBack, Fits
    <3>2. Booked[a] = 0
      BY <2>5 DEF Booked
    <3>3. Books!Book(a, amount)
      BY <1>6, <2>1, <2>2, <2>3, <2>4, <3>1, <3>2 DEF Books!Book, Booked
    <3> QED BY <3>3 DEF Books!Next
  <2>6. CASE a \in payments
    <3>1. GivesBack(a) /\ Booked[a] = attempt[a].amount
      BY <1>6, <2>6 DEF Takes, Rows, RowsAgree, Booked
    <3>2. Booked' = Booked
      BY <2>1, <3>1 DEF Booked
    <3>3. Books!Return(a)
      BY <1>6, <2>2, <2>4, <3>1, <3>2 DEF Books!Return, Booked
    <3> QED BY <3>3 DEF Books!Next
  <2> QED BY <2>5, <2>6
<1>7. CASE UNCHANGED <<invoice, byHand>>
  <2>1. ASSUME NEW c \in Calls, NEW a \in Attempts, Reserve(c, a) PROVE Goal
    BY <1>4, <2>1
  <2> QED BY <1>3, <1>5, <1>6, <1>7, <2>1, AttemptMoves
<1>8. CASE Desk
  BY <1>1, <1>2, <1>8 DEF Desk
<1> QED BY <1>7, <1>8, DeskMoves

(***************************************************************************)
(* The rows implement Collection, whatever the provider does: an attempt   *)
(* is booked and given back at most once, and an invoice never holds more  *)
(* than its total.                                                         *)
(***************************************************************************)
THEOREM CollectsCorrect == Spec => Collects
<1>1. Init => Books!Init
  <2> SUFFICES ASSUME Init PROVE Books!Init
    OBVIOUS
  <2>1. Returned = {} /\ payments = {} /\ invoice = "ISSUED" /\ byHand = 0
    BY DEF Init, Returned
  <2> QED BY <2>1 DEF Books!Init
<1>2. IInv /\ [Next]_vars => [Books!Next]_(Books!vars)
  BY CollectionStep
<1> QED BY IInvCorrect, <1>1, <1>2, PTL DEF Spec, Collects, Books!Spec
=============================================================================
