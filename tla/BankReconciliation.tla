-------------------------- MODULE BankReconciliation --------------------------
(***************************************************************************)
(* The one to one reconciliation of one bank account: committed statement  *)
(* imports, their sessions, suggested and manual matches, classification   *)
(* and close, beside the documents that post to the account and reverse.   *)
(*                                                                         *)
(* Sources, under apps/api/src/treasury/reconciliation:                    *)
(* reconciliation-service.ts, local-reconciliation-matcher.ts and          *)
(* adapters/prisma-reconciliation-ledger-query-adapter.ts; the documents   *)
(* are as core-accounting/posting-engine.ts leaves them.                   *)
(*                                                                         *)
(* A command is a serializable transaction that locks its session, its     *)
(* lines and the movements it reads, in this order, and is an action.      *)
(* Commands carry the version of the session they saw; one that comes too  *)
(* late is refused and changes nothing.  Released matches are kept by the  *)
(* code as history that no guard reads, and dropped here.                  *)
(***************************************************************************)
EXTENDS Integers, Sequences, Totals

CONSTANTS
  Sessions,      \* statement imports, each with at most one session
  Days,          \* dates, in order
  Amounts,       \* signed amounts of statement lines and of documents
  References,    \* what a bank may quote
  NoReference,   \* a line that quotes nothing, a document nothing quotes
  Windows,       \* days a suggestion may be apart
  MaxLines,      \* bound on the statement lines of a run
  MaxDocuments   \* bound on the documents of a run

ASSUME ReconciliationAssumption ==
  /\ Days \subseteq Nat
  /\ Amounts \subseteq Int \ {0}
  /\ NoReference \notin References
  /\ Windows \subseteq Nat
  /\ MaxLines \in Nat /\ MaxDocuments \in Nat

VARIABLES
  documents,   \* posted documents with a line on the account, in order of id
  lines,       \* bank_statement_lines, in order of id
  session,     \* bank_statement_imports with their bank_reconciliation_sessions
  matches      \* bank_reconciliation_matches, PROPOSED or APPROVED

vars == <<documents, lines, session, matches>>

Quotes == References \union {NoReference}

DocumentType ==
  [day : Days, amount : Int, quote : Quotes, status : {"POSTED", "REVERSED"}]
LineType == [of : Sessions, day : Days, amount : Int, quote : Quotes, classified : BOOLEAN]
SessionType ==
  [state : {"NONE", "COMMITTED", "OPEN", "CLOSED"}, from : Nat, to : Nat, difference : Int]
MatchType ==
  [session : Sessions, line : Nat, document : Nat, status : {"PROPOSED", "APPROVED"}]

-----------------------------------------------------------------------------
(* What is looked at.                                                      *)

InRange(s, day) == session[s].from <= day /\ day <= session[s].to

\* The lines a session has: those of its import within its dates.
LinesOf(s) == {l \in DOMAIN lines : lines[l].of = s /\ InRange(s, lines[l].day)}

\* The ledger adapter: movements of POSTED documents within the dates.
Snapshot(s) ==
  {d \in DOMAIN documents : documents[d].status = "POSTED" /\ InRange(s, documents[d].day)}

BankNet(s) == Net(LinesOf(s), [l \in DOMAIN lines |-> lines[l].amount])
BookNet(s) == Net(Snapshot(s), [d \in DOMAIN documents |-> documents[d].amount])

Approved == {m \in matches : m.status = "APPROVED"}
MatchedLines == {m.line : m \in Approved}
MatchedDocuments == {m.document : m \in Approved}

\* Mutant of IsOpen: an import without a session is worked on.
IsNotClosed(s) == session[s].state \in {"COMMITTED", "OPEN"}

\* requireOpenVersion.
IsOpen(s) == session[s].state = "OPEN"

-----------------------------------------------------------------------------
(* Documents on the account.                                               *)

Post(day, amount, quote) ==
  /\ Len(documents) < MaxDocuments
  /\ documents' = Append(documents,
       [day |-> day, amount |-> amount, quote |-> quote, status |-> "POSTED"])
  /\ UNCHANGED <<lines, session, matches>>

\* PostingEngine.reverse.  The opposite document is posted, has a number of
\* its own, and where it is a manual journal can be reversed in turn.
Reverse(d, day) ==
  /\ Len(documents) < MaxDocuments
  /\ documents[d].status = "POSTED"
  /\ documents' = Append([documents EXCEPT ![d].status = "REVERSED"],
       [day |-> day, amount |-> 0 - documents[d].amount, quote |-> NoReference,
        status |-> "POSTED"])
  /\ UNCHANGED <<lines, session, matches>>

-----------------------------------------------------------------------------
(* Imports and sessions.                                                   *)

Fact(s, day, amount, quote) ==
  [of |-> s, day |-> day, amount |-> amount, quote |-> quote, classified |-> FALSE]

\* commitImport.  The dates are those of the statement or of its lines.
CommitImport(s, from, to, facts) ==
  /\ session[s].state = "NONE"
  /\ from <= to /\ facts # <<>>
  /\ Len(lines) + Len(facts) <= MaxLines
  /\ session' = [session EXCEPT ![s].state = "COMMITTED", ![s].from = from, ![s].to = to]
  /\ lines' = lines \o facts
  /\ UNCHANGED <<documents, matches>>

\* createSession, for the whole of the import's dates.  The sums it takes are
\* shown while the session is open, and taken anew when it is closed.
CreateSession(s) ==
  /\ session[s].state = "COMMITTED"
  /\ LinesOf(s) # {}
  /\ session' = [session EXCEPT ![s].state = "OPEN"]
  /\ UNCHANGED <<documents, lines, matches>>

-----------------------------------------------------------------------------
(* LocalReconciliationMatcher.                                             *)

Distance(l, d) ==
  IF lines[l].day < documents[d].day THEN documents[d].day - lines[l].day
  ELSE lines[l].day - documents[d].day

SameAmount(l, d) == lines[l].amount = documents[d].amount

SameQuote(l, d) == lines[l].quote # NoReference /\ lines[l].quote = documents[d].quote

\* unambiguousBest: the nearest, or none where two are as near.
Best(l, candidates) ==
  {d \in candidates : \A e \in candidates \ {d} : Distance(l, d) < Distance(l, e)}

\* What a rule gives, line after line, beside what was given before: to a line
\* that has nothing yet the best movement it allows that nothing has yet.
\* eligible are the pairs the rule allows; there is one such set.
Rounds(eligible, before) ==
  {given \in SUBSET (before \union eligible) :
     LET Free(n) ==
           {d \in DOMAIN documents : <<n, d>> \in eligible
              /\ \A p \in given : p[2] = d => p \notin before /\ p[1] >= n}
     IN  given = before \union
           {p \in eligible : p[2] \in Best(p[1], Free(p[1])) /\ \A b \in before : b[1] # p[1]}}

\* propose: by reference first, then by date.
Proposed(open, free, window) ==
  LET same == {p \in open \X free : SameAmount(p[1], p[2])}
  IN  UNION {Rounds({p \in same : Distance(p[1], p[2]) <= window}, quoted) :
               quoted \in Rounds({p \in same : SameQuote(p[1], p[2])}, {})}

-----------------------------------------------------------------------------
(* Commands of an open session.                                            *)

\* generateSuggestions: the proposals of before are deleted.
GenerateSuggestions(s, window) ==
  LET open == {l \in LinesOf(s) \ MatchedLines : ~ lines[l].classified}
      kept == {m \in matches : m.session = s => m.status = "APPROVED"}
  IN  /\ IsOpen(s)
      /\ \E pairs \in Proposed(open, Snapshot(s) \ MatchedDocuments, window) :
           matches' = kept \union
             {[session |-> s, line |-> p[1], document |-> p[2], status |-> "PROPOSED"] : p \in pairs}
      /\ UNCHANGED <<documents, lines, session>>

\* Mutant of NotTaken: the two unique indexes are one.
NotTakenTogether(l, d) == ~ \E m \in Approved : m.line = l /\ m.document = d

\* The unique indexes on the active line and on the active book key.
NotTaken(l, d) == l \notin MatchedLines /\ d \notin MatchedDocuments

ApproveSuggestion(m) ==
  /\ IsOpen(m.session) /\ m.status = "PROPOSED"
  /\ ~ lines[m.line].classified
  /\ m.document \in Snapshot(m.session)
  /\ NotTaken(m.line, m.document)
  /\ matches' = (matches \ {m}) \union {[m EXCEPT !.status = "APPROVED"]}
  /\ UNCHANGED <<documents, lines, session>>

ManualMatch(s, l, d) ==
  /\ IsOpen(s)
  /\ l \in LinesOf(s) /\ ~ lines[l].classified
  /\ d \in Snapshot(s) /\ SameAmount(l, d)
  /\ NotTaken(l, d)
  /\ matches' = matches \union {[session |-> s, line |-> l, document |-> d, status |-> "APPROVED"]}
  /\ UNCHANGED <<documents, lines, session>>

ReleaseMatch(m) ==
  /\ IsOpen(m.session) /\ m.status = "APPROVED"
  /\ matches' = matches \ {m}
  /\ UNCHANGED <<documents, lines, session>>

\* A line may be classified again, and never goes back to unclassified.
ClassifyLine(s, l) ==
  /\ IsOpen(s)
  /\ l \in LinesOf(s) \ MatchedLines
  /\ lines' = [lines EXCEPT ![l].classified = TRUE]
  /\ UNCHANGED <<documents, session, matches>>

Resolved(s) == \A l \in LinesOf(s) : lines[l].classified \/ \E m \in Approved : m.session = s /\ m.line = l

\* Mutant of FactsStand: the movement matched is not looked up again.
FactsApproved(s) == \A m \in Approved : m.session = s => InRange(s, documents[m.document].day)

\* MATCH_FACT_CHANGED: every movement matched is still in the snapshot.
FactsStand(s) == \A m \in Approved : m.session = s => m.document \in Snapshot(s)

\* closeSession; the explanation is asked for where a difference is left.
CloseSession(s, explained) ==
  LET difference == BankNet(s) - BookNet(s)
  IN  /\ IsOpen(s)
      /\ Resolved(s) /\ FactsStand(s)
      /\ difference # 0 => explained
      /\ session' = [session EXCEPT ![s].state = "CLOSED", ![s].difference = difference]
      /\ UNCHANGED <<documents, lines, matches>>

-----------------------------------------------------------------------------
Init ==
  /\ documents = <<>>
  /\ lines = <<>>
  /\ session = [s \in Sessions |->
       [state |-> "NONE", from |-> 0, to |-> 0, difference |-> 0]]
  /\ matches = {}

Posting ==
  \/ \E day \in Days, amount \in Amounts, quote \in Quotes : Post(day, amount, quote)
  \/ \E d \in DOMAIN documents, day \in Days : Reverse(d, day)

Importing(s) ==
  \/ \E from, to \in Days, n \in 1 .. MaxLines :
       \E facts \in [1 .. n -> {Fact(s, day, amount, quote) :
                                  day \in Days, amount \in Amounts, quote \in Quotes}] :
         CommitImport(s, from, to, facts)
  \/ CreateSession(s)

Reconciling(s) ==
  \/ \E window \in Windows : GenerateSuggestions(s, window)
  \/ \E l \in DOMAIN lines :
       ClassifyLine(s, l) \/ \E d \in DOMAIN documents : ManualMatch(s, l, d)
  \/ \E explained \in BOOLEAN : CloseSession(s, explained)

Next ==
  \/ Posting
  \/ \E s \in Sessions : Importing(s) \/ Reconciling(s)
  \/ \E m \in matches : ApproveSuggestion(m) \/ ReleaseMatch(m)

Spec == Init /\ [][Next]_vars

-----------------------------------------------------------------------------
(* What the component promises.                                            *)

(***************************************************************************)
(* The types of the rows, and their references: a match belongs to a       *)
(* session that was created, and to a line and a movement that exist.      *)
(***************************************************************************)
TypeOK ==
  /\ documents \in Seq(DocumentType)
  /\ lines \in Seq(LineType)
  /\ session \in [Sessions -> SessionType]
  /\ matches \subseteq MatchType
  /\ \A m \in matches :
       /\ session[m.session].state \in {"OPEN", "CLOSED"}
       /\ m.line \in DOMAIN lines /\ m.document \in DOMAIN documents

(***************************************************************************)
(* Matching is one to one over all sessions, open and closed, also of      *)
(* statements that overlap and of suggestions made for one line or one     *)
(* movement by several of them; it joins what has the same amount, within  *)
(* the dates of the session; and no line is both matched and classified.   *)
(***************************************************************************)
OneToOne ==
  \A m \in Approved :
    /\ \A n \in Approved \ {m} : m.line # n.line /\ m.document # n.document
    /\ m.line \in LinesOf(m.session) /\ ~ lines[m.line].classified
    /\ SameAmount(m.line, m.document)
    /\ InRange(m.session, documents[m.document].day)

(***************************************************************************)
(* The difference a session is closed with is what was left open, and      *)
(* nothing else: the lines that were classified, less the movements of its *)
(* dates that no line of it was matched to.  Documents reversed after a    *)
(* match was approved, and matches released and made again, cannot hide a  *)
(* part of it.                                                             *)
(***************************************************************************)
Classified(s) == {l \in LinesOf(s) : lines[l].classified}
Unmatched(s) == {d \in Snapshot(s) : ~ \E m \in Approved : m.session = s /\ m.document = d}

DifferenceIsWhatIsOpen ==
  [][\A s \in Sessions :
       session[s].state = "OPEN" /\ session'[s].state = "CLOSED" =>
         session'[s].difference =
           Net(Classified(s), [l \in DOMAIN lines |-> lines[l].amount])
           - Net(Unmatched(s), [d \in DOMAIN documents |-> documents[d].amount])]_vars
=============================================================================
