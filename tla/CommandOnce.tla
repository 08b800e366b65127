----------------------------- MODULE CommandOnce -----------------------------
(***************************************************************************)
(* What an idempotency key promises: however many requests carry it, it is *)
(* decided once, for one of the bodies it was sent with, and every request *)
(* is answered from that decision, or with an error that decides nothing.  *)
(***************************************************************************)
CONSTANTS Requests, Fingerprints

VARIABLES
  record,   \* what the key has been decided to be
  asked,    \* the fingerprint of the body each request carried
  answer    \* what each request was answered

vars == <<record, asked, answer>>

Undecided == [kind |-> "UNDECIDED"]
Nothing == "NOTHING"
Outcomes == [kind : {"SUCCEEDED", "REJECTED"}, fingerprint : Fingerprints]

\* A key reused with another body is refused.
AnswerFrom(outcome, fingerprint) ==
  IF outcome.fingerprint = fingerprint THEN outcome.kind ELSE "MISMATCH"

Init ==
  /\ record = Undecided
  /\ asked = [r \in Requests |-> Nothing]
  /\ answer = [r \in Requests |-> Nothing]

Ask(r, f) ==
  /\ asked[r] = Nothing
  /\ asked' = [asked EXCEPT ![r] = f]
  /\ UNCHANGED <<record, answer>>

Decide(outcome) ==
  /\ record = Undecided
  /\ \E r \in Requests : asked[r] = outcome.fingerprint
  /\ record' = outcome
  /\ UNCHANGED <<asked, answer>>

Answer(r, a) ==
  /\ asked[r] # Nothing
  /\ answer[r] = Nothing
  /\ \/ a = "ERROR"
     \/ record # Undecided /\ a = AnswerFrom(record, asked[r])
  /\ answer' = [answer EXCEPT ![r] = a]
  /\ UNCHANGED <<record, asked>>

Next ==
  \/ \E r \in Requests, f \in Fingerprints : Ask(r, f)
  \/ \E outcome \in Outcomes : Decide(outcome)
  \/ \E r \in Requests, a \in {"SUCCEEDED", "REJECTED", "MISMATCH", "ERROR"} : Answer(r, a)

Spec == Init /\ [][Next]_vars
=============================================================================
