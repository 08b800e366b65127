----------------------------- MODULE Collection ------------------------------
(***************************************************************************)
(* What the collection of one platform invoice promises: however checkouts,*)
(* webhooks, refunds and payments by hand interleave, an attempt is booked *)
(* at most once, a booking is returned at most once and never undone       *)
(* otherwise, and what is held never exceeds what is due.                  *)
(***************************************************************************)
EXTENDS Totals

CONSTANTS Attempts, Due

VARIABLES
  invoice,   \* ISSUED or VOID
  byHand,    \* what operators recorded
  booked,    \* what was booked for each attempt, 0 before
  returned   \* the attempts whose booking was given back

vars == <<invoice, byHand, booked, returned>>

Held == byHand + Total(Attempts \ returned, booked)

Init ==
  /\ invoice = "ISSUED"
  /\ byHand = 0
  /\ booked = [a \in Attempts |-> 0]
  /\ returned = {}

Void ==
  /\ invoice = "ISSUED" /\ byHand = 0
  /\ \A a \in Attempts : booked[a] = 0
  /\ invoice' = "VOID"
  /\ UNCHANGED <<byHand, booked, returned>>

PayByHand(amount) ==
  /\ invoice = "ISSUED"
  /\ byHand' = byHand + amount
  /\ UNCHANGED <<invoice, booked, returned>>
  /\ Held + amount <= Due

\* A capture, with its refund when that was heard of first.
Book(a, amount) ==
  /\ invoice = "ISSUED"
  /\ booked[a] = 0 /\ amount > 0
  /\ booked' = [booked EXCEPT ![a] = amount]
  /\ returned' \in {returned, returned \union {a}}
  /\ UNCHANGED <<invoice, byHand>>
  /\ Held + amount <= Due

Return(a) ==
  /\ booked[a] > 0 /\ a \notin returned
  /\ returned' = returned \union {a}
  /\ UNCHANGED <<invoice, byHand, booked>>

Next ==
  \/ Void
  \/ \E amount \in 1 .. Due : PayByHand(amount)
  \/ \E a \in Attempts, amount \in 1 .. Due : Book(a, amount)
  \/ \E a \in Attempts : Return(a)

Spec == Init /\ [][Next]_vars
=============================================================================
