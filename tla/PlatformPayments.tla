--------------------------- MODULE PlatformPayments --------------------------
(***************************************************************************)
(* The collection of one platform invoice: attempts with their hosted      *)
(* checkouts, the provider's webhooks, refunds, and payments recorded by   *)
(* hand.                                                                   *)
(*                                                                         *)
(* Sources: platform-operations/payments/platform-payment-service.ts and   *)
(* platform-operations/platform-billing-service.ts under apps/api/src.     *)
(*                                                                         *)
(* A transaction is serializable and an action.  A request that talks to   *)
(* the provider is a call: it goes from transaction to provider and back,  *)
(* other calls run in between, and it may be lost at any point.  The       *)
(* provider is external.  What it did is a set of facts that only grows;   *)
(* a webhook tells one of them, late, in any order and any number of times.*)
(***************************************************************************)
EXTENDS Totals

CONSTANTS
  Attempts,   \* payment attempts, each with its idempotency key
  Calls,      \* requests under way at once
  Due,        \* the total of the invoice
  Reports,    \* what the provider may come to say without being asked
  NoAttempt   \* the attempt of a call that has none

ASSUME PaymentsAssumption ==
  /\ IsFiniteSet(Attempts)
  /\ Due \in Nat \ {0}
  /\ Reports \subseteq {"PENDING", "FAILED", "CANCELLED"}
  /\ NoAttempt \notin Attempts

VARIABLES
  invoice,    \* state of the platform_billing_invoices row
  byHand,     \* sum of its payments of source MANUAL
  attempt,    \* platform_payment_attempts, with its checkout session
  payments,   \* attempts with a platform_billing_payments row
  refund,     \* platform_billing_refunds of each attempt
  receipts,   \* platform_webhook_receipts of each event
  call,       \* what each call is about to do
  provider    \* what the provider did about each attempt

vars == <<invoice, byHand, attempt, payments, refund, receipts, call, provider>>
rows == <<invoice, byHand, attempt, payments, refund, receipts>>

States == {"NONE", "CHECKOUT", "PENDING", "PAID", "FAILED", "CANCELLED", "REFUNDED"}
Active == {"CHECKOUT", "PENDING"}
EventTypes == {"PENDING", "PAID", "FAILED", "CANCELLED", "REFUNDED"}
Facts == EventTypes \union {"HOSTED"}
Steps == {"NOTHING", "HOST", "FINALIZE", "COMPENSATE", "CLOSE", "FAIL",
          "WITHDRAW", "CANCEL", "REFUND", "NAME", "GIVE_UP"}

AttemptType == [state : States, amount : 0 .. Due, version : Nat, session : BOOLEAN]
RefundType == [state : {"NONE", "PENDING", "FAILED", "SUCCEEDED"}, named : BOOLEAN]
CallType == [step : Steps, attempt : Attempts \union {NoAttempt}, version : Nat]
Results == {"NONE", "APPLIED", "IGNORED", "CONFLICT"}

Idle == [step |-> "NOTHING", attempt |-> NoAttempt, version |-> 0]

-----------------------------------------------------------------------------
Amounts == [a \in Attempts |-> attempt[a].amount]
Returned == {a \in Attempts : refund[a].state = "SUCCEEDED"}

\* invoiceNetPaid.
NetPaid == byHand + Total(payments \ Returned, Amounts)

\* Mutant of Fits: what the attempt was reserved for is not compared again.
FitsAsReserved(a) == invoice = "ISSUED"

Fits(a) == invoice = "ISSUED" /\ NetPaid + attempt[a].amount <= Due

\* Mutant of HasActive: an attempt stands in the way once its checkout exists.
HasActiveCheckout == \E a \in Attempts : attempt[a].state \in Active /\ attempt[a].session

HasActive == \E a \in Attempts : attempt[a].state \in Active

Become(a, state, steps) ==
  attempt' = [attempt EXCEPT ![a].state = state, ![a].version = @ + steps]

\* The call goes on to a next step; one that has none is over.
Continue(c, step) == call' = [call EXCEPT ![c].step = step]
End(c) == call' = [call EXCEPT ![c] = Idle]
At(c, step) == call[c].step = step
Learn(a, fact) == provider' = [provider EXCEPT ![a] = @ \union {fact}]

-----------------------------------------------------------------------------
(* The invoice at the operator's desk.                                     *)

\* Mutant of RecordPayment: the amount is not compared with the outstanding one.
RecordPaymentOver(amount) ==
  /\ invoice = "ISSUED"
  /\ ~ HasActive
  /\ byHand' = byHand + amount
  /\ UNCHANGED <<invoice, attempt, payments, refund, receipts, call, provider>>

\* recordPayment.  A request with a stale version is refused before this.
RecordPayment(amount) ==
  /\ invoice = "ISSUED"
  /\ ~ HasActive
  /\ amount <= Due - NetPaid
  /\ byHand' = byHand + amount
  /\ UNCHANGED <<invoice, attempt, payments, refund, receipts, call, provider>>

\* voidInvoice: any attempt, however it ended, stands in the way.
VoidInvoice ==
  /\ invoice = "ISSUED"
  /\ byHand = 0 /\ payments = {}
  /\ \A a \in Attempts : attempt[a].state = "NONE"
  /\ invoice' = "VOID"
  /\ UNCHANGED <<byHand, attempt, payments, refund, receipts, call, provider>>

-----------------------------------------------------------------------------
(* createCheckout, also by way of retryCheckout, and resumeCheckout.       *)

Reserve(c, a) ==
  /\ At(c, "NOTHING")
  /\ attempt[a].state = "NONE"
  /\ invoice = "ISSUED" /\ ~ HasActive /\ NetPaid < Due
  /\ attempt' = [attempt EXCEPT ![a] =
       [state |-> "CHECKOUT", amount |-> Due - NetPaid, version |-> 0, session |-> FALSE]]
  /\ call' = [call EXCEPT ![c] = [step |-> "HOST", attempt |-> a, version |-> 0]]
  /\ UNCHANGED <<invoice, byHand, payments, refund, receipts, provider>>

\* The same key again, while the attempt has no session: another try.
Resume(c, a) ==
  /\ At(c, "NOTHING")
  /\ attempt[a].state = "CHECKOUT" /\ ~ attempt[a].session
  /\ call' = [call EXCEPT ![c] = [step |-> "HOST", attempt |-> a, version |-> 0]]
  /\ UNCHANGED <<rows, provider>>

\* provider.createCheckout; the merchant reference makes it one per attempt.
Host(c) ==
  LET a == call[c].attempt
  IN  /\ At(c, "HOST")
      /\ \/ Learn(a, "HOSTED") /\ Continue(c, "FINALIZE")
         \/ Learn(a, "HOSTED") /\ End(c)         \* answered too late
         \/ End(c) /\ UNCHANGED provider
      /\ UNCHANGED rows

SaveSession(a) ==
  IF ~ attempt[a].session /\ attempt[a].state = "CHECKOUT"
  THEN attempt' = [attempt EXCEPT ![a].session = TRUE, ![a].version = @ + 1]
  ELSE UNCHANGED attempt

\* The second transaction.  It may fail, and it may commit and be told to have
\* failed; both are answered by closing the checkout at the provider.
Finalize(c) ==
  LET a == call[c].attempt
  IN  /\ At(c, "FINALIZE")
      /\ \/ /\ SaveSession(a)
            /\ IF ~ attempt[a].session /\ attempt[a].state # "CHECKOUT"
               THEN Continue(c, "COMPENSATE") ELSE End(c)
         \/ SaveSession(a) /\ Continue(c, "CLOSE")
         \/ UNCHANGED attempt /\ Continue(c, "CLOSE")
      /\ UNCHANGED <<invoice, byHand, payments, refund, receipts, provider>>

\* provider.cancelCheckout has an effect, or not, and may be answered or not.
\* Only an answer that says accepted is certain.
CancelAtProvider(c, a, accepted) ==
  \/ Learn(a, "CANCELLED") /\ accepted
  \/ Learn(a, "CANCELLED") /\ End(c)
  \/ End(c) /\ UNCHANGED provider

Compensate(c) ==
  /\ At(c, "COMPENSATE")
  /\ CancelAtProvider(c, call[c].attempt, End(c))
  /\ UNCHANGED rows

CloseAtProvider(c) ==
  /\ At(c, "CLOSE")
  /\ CancelAtProvider(c, call[c].attempt, Continue(c, "FAIL"))
  /\ UNCHANGED rows

FailCheckout(c) ==
  LET a == call[c].attempt
  IN  /\ At(c, "FAIL")
      /\ IF attempt[a].state = "CHECKOUT" THEN Become(a, "FAILED", 1) ELSE UNCHANGED attempt
      /\ End(c)
      /\ UNCHANGED <<invoice, byHand, payments, refund, receipts, provider>>

-----------------------------------------------------------------------------
(* cancelCheckout: the provider first, for the version the user has seen.  *)

AskCancel(c, a) ==
  /\ At(c, "NOTHING")
  /\ attempt[a].state \in Active
  /\ call' = [call EXCEPT ![c] =
       [step |-> IF attempt[a].session THEN "WITHDRAW" ELSE "CANCEL",
        attempt |-> a, version |-> attempt[a].version]]
  /\ UNCHANGED <<rows, provider>>

Withdraw(c) ==
  /\ At(c, "WITHDRAW")
  /\ CancelAtProvider(c, call[c].attempt, Continue(c, "CANCEL"))
  /\ UNCHANGED rows

\* Mutant of MayCancel: the version is not compared a second time.
MayCancelAnyVersion(c, a) == attempt[a].state \in Active

MayCancel(c, a) == attempt[a].version = call[c].version /\ attempt[a].state \in Active

Cancel(c) ==
  LET a == call[c].attempt
  IN  /\ At(c, "CANCEL")
      /\ IF MayCancel(c, a) THEN Become(a, "CANCELLED", 1) ELSE UNCHANGED attempt
      /\ End(c)
      /\ UNCHANGED <<invoice, byHand, payments, refund, receipts, provider>>

-----------------------------------------------------------------------------
(* requestFullRefund.                                                      *)

ReserveRefund(c, a) ==
  /\ At(c, "NOTHING")
  /\ a \in payments /\ attempt[a].state = "PAID" /\ refund[a].state = "NONE"
  /\ refund' = [refund EXCEPT ![a].state = "PENDING"]
  /\ call' = [call EXCEPT ![c] = [step |-> "REFUND", attempt |-> a, version |-> 0]]
  /\ UNCHANGED <<invoice, byHand, attempt, payments, receipts, provider>>

\* The same key again, while the refund is open and has no reference.
ResumeRefund(c, a) ==
  /\ At(c, "NOTHING")
  /\ refund[a].state = "PENDING" /\ ~ refund[a].named
  /\ call' = [call EXCEPT ![c] = [step |-> "REFUND", attempt |-> a, version |-> 0]]
  /\ UNCHANGED <<rows, provider>>

\* provider.requestFullRefund answers a reference, or throws, whatever it did.
\* When the money goes back is the provider's business (Repay).
AskRefund(c) ==
  /\ At(c, "REFUND")
  /\ Continue(c, "NAME") \/ Continue(c, "GIVE_UP")
  /\ UNCHANGED <<rows, provider>>

\* The update that keeps the reference; an error of it is taken for the provider's.
NameRefund(c) ==
  LET a == call[c].attempt
  IN  /\ At(c, "NAME")
      /\ \/ /\ refund' = IF refund[a] = [state |-> "PENDING", named |-> FALSE]
                         THEN [refund EXCEPT ![a].named = TRUE] ELSE refund
            /\ End(c) \/ Continue(c, "GIVE_UP")
         \/ UNCHANGED refund /\ Continue(c, "GIVE_UP")
      /\ UNCHANGED <<invoice, byHand, attempt, payments, receipts, provider>>

GiveUpRefund(c) ==
  LET a == call[c].attempt
  IN  /\ At(c, "GIVE_UP")
      /\ refund' = IF refund[a].state = "PENDING"
                   THEN [refund EXCEPT ![a].state = "FAILED"] ELSE refund
      /\ End(c)
      /\ UNCHANGED <<invoice, byHand, attempt, payments, receipts, provider>>

\* The process dies, the client leaves or the deadline passes between two steps.
Lose(c) ==
  /\ ~ At(c, "NOTHING")
  /\ End(c)
  /\ UNCHANGED <<rows, provider>>

-----------------------------------------------------------------------------
(* handleWebhook, for an event that has no receipt yet.  One that has is   *)
(* answered from it, and one whose checkout is not known is refused with   *)
(* 503 and comes again: neither changes anything.                          *)

Keep(a, type, result) == receipts' = [receipts EXCEPT ![a][type] = result]

ApplyPending(a) ==
  \/ /\ attempt[a].state = "CHECKOUT"
     /\ Become(a, "PENDING", 1)
     /\ Keep(a, "PENDING", "APPLIED")
  \/ /\ attempt[a].state # "CHECKOUT"
     /\ Keep(a, "PENDING", "IGNORED")
     /\ UNCHANGED attempt

\* A failure or cancellation is final, but not against a payment.
ApplyFailure(a, type) ==
  \/ /\ attempt[a].state \in Active
     /\ Become(a, type, 1)
     /\ Keep(a, type, "APPLIED")
  \/ /\ attempt[a].state \notin Active
     /\ Keep(a, type, "IGNORED")
     /\ UNCHANGED attempt

ApplyPaid(a) ==
  \/ /\ attempt[a].state = "REFUNDED" \/ (attempt[a].state = "PAID" /\ a \in payments)
     /\ Keep(a, "PAID", "IGNORED")
     /\ UNCHANGED <<attempt, payments>>
  \/ /\ attempt[a].state # "REFUNDED" /\ a \notin payments /\ ~ Fits(a)
     /\ Keep(a, "PAID", "CONFLICT")
     /\ UNCHANGED <<attempt, payments>>
  \/ /\ attempt[a].state \notin {"PAID", "REFUNDED"}
     /\ a \in payments \/ Fits(a)
     /\ payments' = payments \union {a}
     /\ Become(a, "PAID", 1)
     /\ Keep(a, "PAID", "APPLIED")

\* Mutant of ApplyRefunded: a refund given up on is not looked for.
ApplyRefundedIfPending(a) ==
  \/ /\ attempt[a].state = "REFUNDED" \/ refund[a].state = "FAILED"
     /\ Keep(a, "REFUNDED", "IGNORED")
     /\ UNCHANGED <<attempt, payments, refund>>
  \/ /\ attempt[a].state # "REFUNDED" /\ a \notin payments /\ ~ Fits(a)
     /\ Keep(a, "REFUNDED", "CONFLICT")
     /\ UNCHANGED <<attempt, payments, refund>>
  \/ /\ attempt[a].state # "REFUNDED" /\ refund[a].state # "FAILED"
     /\ a \in payments \/ Fits(a)
     /\ payments' = payments \union {a}
     /\ refund' = [refund EXCEPT ![a] = [state |-> "SUCCEEDED", named |-> TRUE]]
     /\ Become(a, "REFUNDED", 1)
     /\ Keep(a, "REFUNDED", "APPLIED")

\* A refund heard of before its payment books both.
ApplyRefunded(a) ==
  \/ /\ attempt[a].state = "REFUNDED"
     /\ Keep(a, "REFUNDED", "IGNORED")
     /\ UNCHANGED <<attempt, payments, refund>>
  \/ /\ attempt[a].state # "REFUNDED" /\ a \notin payments /\ ~ Fits(a)
     /\ Keep(a, "REFUNDED", "CONFLICT")
     /\ UNCHANGED <<attempt, payments, refund>>
  \/ /\ attempt[a].state # "REFUNDED"
     /\ a \in payments \/ Fits(a)
     /\ payments' = payments \union {a}
     /\ refund' = [refund EXCEPT ![a] = [state |-> "SUCCEEDED", named |-> TRUE]]
     /\ Become(a, "REFUNDED", IF attempt[a].state = "PAID" THEN 1 ELSE 2)
     /\ Keep(a, "REFUNDED", "APPLIED")

Deliver(a, type) ==
  /\ type \in provider[a]
  /\ attempt[a].session
  /\ receipts[a][type] = "NONE"
  /\ \/ type = "PENDING" /\ ApplyPending(a) /\ UNCHANGED <<payments, refund>>
     \/ type \in {"FAILED", "CANCELLED"} /\ ApplyFailure(a, type) /\ UNCHANGED <<payments, refund>>
     \/ type = "PAID" /\ ApplyPaid(a) /\ UNCHANGED refund
     \/ type = "REFUNDED" /\ ApplyRefunded(a)
  /\ UNCHANGED <<invoice, byHand, call, provider>>

-----------------------------------------------------------------------------
(* The provider, as the port expects it to be.                             *)

\* A checkout that can still be paid.
Open(a) == "HOSTED" \in provider[a] /\ provider[a] \intersect {"PAID", "FAILED", "CANCELLED"} = {}

\* The URL is read from the session, so nobody can pay before it is saved.
Capture(a) ==
  /\ Open(a) /\ attempt[a].session
  /\ Learn(a, "PAID")
  /\ UNCHANGED <<rows, call>>

Process(a) ==
  /\ "PENDING" \in Reports
  /\ Open(a) /\ Learn(a, "PENDING")
  /\ UNCHANGED <<rows, call>>

\* A checkout fails, or expires.
Lapse(a) ==
  /\ Open(a)
  /\ \E fact \in {"FAILED", "CANCELLED"} \intersect Reports : Learn(a, fact)
  /\ UNCHANGED <<rows, call>>

\* Asked for by a call, or decided at the provider.
Repay(a) ==
  /\ "PAID" \in provider[a]
  /\ Learn(a, "REFUNDED")
  /\ UNCHANGED <<rows, call>>

-----------------------------------------------------------------------------
Init ==
  /\ invoice = "ISSUED"
  /\ byHand = 0
  /\ attempt = [a \in Attempts |->
       [state |-> "NONE", amount |-> 0, version |-> 0, session |-> FALSE]]
  /\ payments = {}
  /\ refund = [a \in Attempts |-> [state |-> "NONE", named |-> FALSE]]
  /\ receipts = [a \in Attempts |-> [type \in EventTypes |-> "NONE"]]
  /\ call = [c \in Calls |-> Idle]
  /\ provider = [a \in Attempts |-> {}]

Desk == VoidInvoice \/ \E amount \in 1 .. Due : RecordPayment(amount)

Starting(c) ==
  \E a \in Attempts :
    \/ Reserve(c, a) \/ Resume(c, a) \/ AskCancel(c, a)
    \/ ReserveRefund(c, a) \/ ResumeRefund(c, a)

Going(c) ==
  \/ Host(c) \/ Finalize(c) \/ Compensate(c) \/ CloseAtProvider(c) \/ FailCheckout(c)
  \/ Withdraw(c) \/ Cancel(c)
  \/ AskRefund(c) \/ NameRefund(c) \/ GiveUpRefund(c)
  \/ Lose(c)

Elsewhere == \E a \in Attempts : Capture(a) \/ Process(a) \/ Lapse(a) \/ Repay(a)

Delivering == \E a \in Attempts, type \in EventTypes : Deliver(a, type)

Next ==
  \/ Desk
  \/ \E c \in Calls : Starting(c) \/ Going(c)
  \/ Elsewhere
  \/ Delivering

\* A provider delivers again what was answered 5xx, until it is answered 200.
Fairness == \A a \in Attempts, type \in EventTypes : WF_vars(Deliver(a, type))

Spec == Init /\ [][Next]_vars /\ Fairness

-----------------------------------------------------------------------------
(* What the component promises.                                            *)

(***************************************************************************)
(* The types of the columns of platform_billing_invoices, -payments,       *)
(* -refunds, platform_payment_attempts and platform_webhook_receipts.      *)
(***************************************************************************)
TypeOK ==
  /\ invoice \in {"ISSUED", "VOID"}
  /\ byHand \in 0 .. Due
  /\ attempt \in [Attempts -> AttemptType]
  /\ payments \subseteq Attempts
  /\ refund \in [Attempts -> RefundType]
  /\ receipts \in [Attempts -> [EventTypes -> Results]]
  /\ call \in [Calls -> CallType]
  /\ provider \in [Attempts -> SUBSET Facts]

(***************************************************************************)
(* An attempt that was closed here cannot be paid there any more: whoever  *)
(* cancelled it, or gave up on creating it, has closed the provider's      *)
(* checkout first, although the two are never done in one step.  It is     *)
(* what makes it safe to let the owner start another attempt.              *)
(***************************************************************************)
ClosedIsWithdrawn ==
  \A a \in Attempts :
    attempt[a].state \in {"FAILED", "CANCELLED"} /\ attempt[a].session => ~ Open(a)

\* The provider never accepts to cancel a checkout it has taken money on.
CancelsOnlyUnpaid ==
  \A a \in Attempts : ~ ({"PAID", "CANCELLED"} \subseteq provider[a])

(***************************************************************************)
(* With such a provider, no payment or refund it reports is ever turned    *)
(* away with INVOICE_BALANCE_CONFLICT: attempts, late events and payments  *)
(* by hand never leave money that was taken without room on the invoice.   *)
(***************************************************************************)
TakenIsBooked ==
  CancelsOnlyUnpaid =>
    \A a \in Attempts : receipts[a]["PAID"] # "CONFLICT" /\ receipts[a]["REFUNDED"] # "CONFLICT"

(***************************************************************************)
(* The rows implement Collection: an attempt is booked once and given back *)
(* once, and what is held never exceeds the total of the invoice, whatever *)
(* the provider does (also when it takes money after a cancellation).      *)
(***************************************************************************)
Books == INSTANCE Collection WITH
  booked <- [a \in Attempts |-> IF a \in payments THEN attempt[a].amount ELSE 0],
  returned <- Returned

Collects == Books!Spec

(***************************************************************************)
(* Money the provider took is booked in the end, also for an attempt that  *)
(* was closed meanwhile, and money it gave back is given back here, though *)
(* the call that asked for it may have timed out and marked the refund     *)
(* FAILED; unless the payment found no room on the invoice.                *)
(***************************************************************************)
MoneyIsFollowed ==
  \A a \in Attempts :
    /\ "PAID" \in provider[a] ~> a \in payments \/ receipts[a]["PAID"] = "CONFLICT"
    /\ "REFUNDED" \in provider[a] ~>
         attempt[a].state = "REFUNDED" \/ receipts[a]["REFUNDED"] = "CONFLICT"
=============================================================================
