--------------------------- MODULE FinancialClose ---------------------------
(***************************************************************************)
(* Closing the periods of one fiscal year: the close run of a period, its  *)
(* checklist and close pack, the maker-checker approval of the pack, the   *)
(* close itself with the annual closing entry, and reopening.              *)
(*                                                                         *)
(* Sources: fiscal/financial-close-service.ts, fiscal/financial-close-     *)
(* approval-adapter.ts, fiscal/financial-close-workflow.ts, fiscal/        *)
(* fiscal-service.ts, approvals/approval-service.ts and core-accounting/   *)
(* posting-engine.ts under apps/api/src.                                   *)
(*                                                                         *)
(* Every command is one Serializable transaction that first locks the      *)
(* period and then the run, so a command is one action.  What interleaves  *)
(* is people: while a run is prepared, awaits its checker or waits to be   *)
(* closed, others post, edit the period, or break a check, and the hashes  *)
(* of checklist and pack are what ties a decision to what was looked at.   *)
(* A hash is modelled by the facts it is the hash of.  A command carrying  *)
(* a version other than the row's is refused, so versions appear only      *)
(* where one is stored: in a checklist, a pack and an approval request.    *)
(***************************************************************************)
EXTENDS Integers, Sequences, Totals

CONSTANTS
  NPeriods,     \* periods of the year, in date order
  Users,
  Revenues,     \* the accounts of class REVENUE
  Expenses,     \* the accounts of class EXPENSE
  Effects,      \* what a document may do to the result accounts, debit positive
  MaxDocs,      \* bound on the documents posted in a period
  MaxDrafts,    \* bound on the drafts in a period
  MaxIssues,    \* bound on what the other contexts report for a period
  MaxEdits,     \* bound on the version of a period
  MaxVersion,   \* bound on the version of a run being prepared
  MaxCycle      \* bound on the close runs of a period

Periods == 1 .. NPeriods
YearEnd == NPeriods
Accounts == Revenues \cup Expenses
Balances == [Accounts -> Int]

ASSUME CloseAssumption ==
  /\ NPeriods \in Nat \ {0}
  /\ IsFiniteSet(Revenues) /\ IsFiniteSet(Expenses)
  /\ Revenues \cap Expenses = {}
  /\ Effects \subseteq Balances
  /\ MaxDocs \in Nat /\ MaxDrafts \in Nat /\ MaxIssues \in Nat
  /\ MaxEdits \in Nat /\ MaxVersion \in Nat /\ MaxCycle \in Nat

VARIABLES
  period,     \* fiscal_periods: status and version
  year,       \* fiscal_years.status
  books,      \* per period: its documents other than PERIOD_CLOSE, and what blocks it
  closings,   \* the PERIOD_CLOSE documents of the last period, in id order
  runs,       \* financial_close_runs of each period, by cycle
  requests    \* approval_requests with their decision

vars == <<period, year, books, closings, runs, requests>>

PeriodStatus == {"OPEN", "CLOSED", "REOPENED"}
RunStatus == {"PREPARING", "AWAITING_APPROVAL", "REVIEWED", "CLOSED"}
RequestStatus == {"PENDING", "APPROVED", "REJECTED"}
Nobody == "NOBODY"
NoDocument == 0
NoPack == [documents |-> -1]

ChecklistType == [version : Nat, earlier : Nat, drafts : Nat, issues : Nat]
TotalsType == [revenue : Int, expense : Int]
PackType == [documents : Nat, yearToDate : TotalsType, checklist : ChecklistType]
BooksType == [docs : Nat, result : Balances, drafts : Nat, issues : Nat]
ClosingType == [status : {"POSTED", "REVERSED"}, effect : Balances]
RunType == [status : RunStatus, version : Nat, checklist : ChecklistType,
            pack : PackType \cup {NoPack}, closeDoc : Nat]
RequestType == [period : Periods, cycle : Nat, version : Nat, pack : PackType,
                status : RequestStatus, maker : Users, checker : Users \cup {Nobody}]

-----------------------------------------------------------------------------
(* What is looked at.                                                      *)

\* Mutant of EarlierOpen: a reopened period is taken for a closed one.
EarlierNeverClosed(p) == {q \in 1 .. p - 1 : period[q].status = "OPEN"}

EarlierOpen(p) == {q \in 1 .. p - 1 : period[q].status # "CLOSED"}

\* readinessFacts of evaluateReadiness.  The checks of the ledger, the
\* subledgers, the bank, the stock, the exchange rates and the account 3300
\* count as one number of issues.
Checklist(p) ==
  [version |-> period[p].version,
   earlier |-> Total(1 .. p - 1, [q \in Periods |-> IF q \in EarlierOpen(p) THEN 1 ELSE 0]),
   drafts |-> books[p].drafts,
   issues |-> books[p].issues]

Ready(checklist) ==
  checklist.earlier = 0 /\ checklist.drafts = 0 /\ checklist.issues = 0

\* The balance of every result account from the start of the year to the end
\* of period p, documents of type PERIOD_CLOSE left out.
YearToDate(p) ==
  [a \in Accounts |-> Net(1 .. p, [q \in Periods |-> books[q].result[a]])]

\* The balances folded into one total for each class, as a pack keeps them;
\* its netIncome is the difference of the two.
ClassTotals(p) ==
  [revenue |-> Net(Revenues, [a \in Accounts |-> 0 - YearToDate(p)[a]]),
   expense |-> Net(Expenses, YearToDate(p))]

\* The facts of closePack.  The documents counted include PERIOD_CLOSE ones;
\* entries, lines, debit and credit of the period move with that count alone.
Pack(p, checklist) ==
  [documents |-> books[p].docs + (IF p = YearEnd THEN Len(closings) ELSE 0),
   yearToDate |-> ClassTotals(p),
   checklist |-> checklist]

-----------------------------------------------------------------------------
(* The rest of the system, while periods are being closed.                 *)

Draft(p) ==
  /\ period[p].status # "CLOSED"
  /\ books[p].drafts < MaxDrafts
  /\ books' = [books EXCEPT ![p].drafts = @ + 1]
  /\ UNCHANGED <<period, year, closings, runs, requests>>

\* Mutant of CancelDraft: a draft is cancelled twice.
CancelDraftAgain(p) ==
  /\ books' = [books EXCEPT ![p].drafts = @ - 1]
  /\ UNCHANGED <<period, year, closings, runs, requests>>

CancelDraft(p) ==
  /\ books[p].drafts > 0
  /\ books' = [books EXCEPT ![p].drafts = @ - 1]
  /\ UNCHANGED <<period, year, closings, runs, requests>>

\* The posting engine posts a draft, or makes a posted document of its own
\* (a reversal, a generated posting): drafts is how many drafts it uses up, and
\* effect what its lines do to the result accounts.
PostDocument(p, effect, drafts) ==
  /\ period[p].status # "CLOSED"
  /\ books[p].docs < MaxDocs
  /\ books[p].drafts >= drafts
  /\ books' = [books EXCEPT ![p].docs = @ + 1, ![p].drafts = @ - drafts,
                            ![p].result = [a \in Accounts |-> @[a] + effect[a]]]
  /\ UNCHANGED <<period, year, closings, runs, requests>>

\* A bank session opens, stock goes negative, a rate is missing, or is repaired.
ReportIssues(p, n) ==
  /\ books' = [books EXCEPT ![p].issues = n]
  /\ UNCHANGED <<period, year, closings, runs, requests>>

\* FiscalService.updatePeriod: the name, and the dates while nothing is posted.
UpdatePeriod(p) ==
  /\ period[p].status # "CLOSED"
  /\ period[p].version < MaxEdits
  /\ period' = [period EXCEPT ![p].version = @ + 1]
  /\ UNCHANGED <<year, books, closings, runs, requests>>

-----------------------------------------------------------------------------
(* Close runs.                                                             *)

Cycles(p) == 1 .. Len(runs[p])
Latest(p) == runs[p][Len(runs[p])]

\* The compare-and-set of a run's row; its version counts every one of them.
Update(p, c, run) ==
  runs' = [runs EXCEPT ![p][c] = [run EXCEPT !.version = @ + 1]]

\* Mutant of StartRun: a run that was reviewed is taken for a finished one.
StartRunBesideReviewed(p) ==
  /\ period[p].status # "CLOSED"
  /\ runs[p] # <<>> => Latest(p).status \in {"REVIEWED", "CLOSED"}
  /\ Len(runs[p]) < MaxCycle
  /\ runs' = [runs EXCEPT ![p] = Append(@,
       [status |-> "PREPARING", version |-> 0, checklist |-> Checklist(p),
        pack |-> NoPack, closeDoc |-> NoDocument])]
  /\ UNCHANGED <<period, year, books, closings, requests>>

\* startRun; with an unclosed run it answers that run and changes nothing.
StartRun(p) ==
  /\ period[p].status # "CLOSED"
  /\ runs[p] # <<>> => Latest(p).status = "CLOSED"
  /\ Len(runs[p]) < MaxCycle
  /\ runs' = [runs EXCEPT ![p] = Append(@,
       [status |-> "PREPARING", version |-> 0, checklist |-> Checklist(p),
        pack |-> NoPack, closeDoc |-> NoDocument])]
  /\ UNCHANGED <<period, year, books, closings, requests>>

\* Mutant of RefreshRun: a reviewed run is refreshed too.
RefreshReviewed(p, c) ==
  /\ runs[p][c].status \in {"PREPARING", "REVIEWED"}
  /\ runs[p][c].version < MaxVersion
  /\ Update(p, c, [runs[p][c] EXCEPT !.checklist = Checklist(p)])
  /\ UNCHANGED <<period, year, books, closings, requests>>

RefreshRun(p, c) ==
  /\ runs[p][c].status = "PREPARING"
  /\ runs[p][c].version < MaxVersion
  /\ Update(p, c, [runs[p][c] EXCEPT !.checklist = Checklist(p)])
  /\ UNCHANGED <<period, year, books, closings, requests>>

\* ApprovalService.request and requestApprovalInTransaction.  One request of
\* a subject is active at a time (unique activeSubjectKey).
RequestApproval(p, c, u) ==
  LET run == runs[p][c]
      pack == Pack(p, Checklist(p))
  IN  /\ run.status = "PREPARING"
      /\ run.version < MaxVersion
      /\ Ready(Checklist(p))
      /\ ~ \E q \in requests : q.status = "PENDING" /\ q.period = p /\ q.cycle = c
      /\ Update(p, c, [run EXCEPT !.status = "AWAITING_APPROVAL",
                                  !.checklist = Checklist(p), !.pack = pack])
      /\ requests' = requests \cup
           {[period |-> p, cycle |-> c, version |-> run.version + 1, pack |-> pack,
             status |-> "PENDING", maker |-> u, checker |-> Nobody]}
      /\ UNCHANGED <<period, year, books, closings>>

\* ApprovalService.decide: a checker who is not the maker, on a pending request.
Decide(q, u, decision) ==
  /\ q.status = "PENDING"
  /\ q.maker # u
  /\ requests' = (requests \ {q}) \cup {[q EXCEPT !.status = decision, !.checker = u]}

\* The tests approveInTransaction and rejectInTransaction begin with.
IsSubject(run, q) ==
  /\ run.version = q.version
  /\ run.status = "AWAITING_APPROVAL"
  /\ run.pack = q.pack

Approve(q, u) ==
  LET p == q.period
      run == runs[p][q.cycle]
  IN  /\ Decide(q, u, "APPROVED")
      /\ IsSubject(run, q)
      /\ Ready(Checklist(p))
      /\ Pack(p, Checklist(p)) = q.pack
      /\ Update(p, q.cycle, [run EXCEPT !.status = "REVIEWED", !.checklist = Checklist(p)])
      /\ UNCHANGED <<period, year, books, closings>>

Reject(q, u) ==
  LET p == q.period
      run == runs[p][q.cycle]
  IN  /\ Decide(q, u, "REJECTED")
      /\ IsSubject(run, q)
      /\ Update(p, q.cycle, [run EXCEPT !.status = "PREPARING", !.pack = NoPack])
      /\ UNCHANGED <<period, year, books, closings>>

\* Mutant of ReturnRun: a run is taken back from under its pending request.
ReturnAwaiting(p, c) ==
  /\ runs[p][c].status \in {"AWAITING_APPROVAL", "REVIEWED"}
  /\ Update(p, c, [runs[p][c] EXCEPT !.status = "PREPARING", !.pack = NoPack])
  /\ UNCHANGED <<period, year, books, closings, requests>>

ReturnRun(p, c) ==
  /\ runs[p][c].status = "REVIEWED"
  /\ Update(p, c, [runs[p][c] EXCEPT !.status = "PREPARING", !.pack = NoPack])
  /\ UNCHANGED <<period, year, books, closings, requests>>

-----------------------------------------------------------------------------
(* Closing and reopening.                                                  *)

PostedClosings == {k \in DOMAIN closings : closings[k].status = "POSTED"}

\* createAnnualCloseDocument: the document the run will name.  A posted
\* PERIOD_CLOSE document of the period, the last one, is taken as it is;
\* otherwise every result account with a balance is closed by its opposite.
AnnualClose(p, doc) ==
  \/ /\ p # YearEnd
     /\ doc = NoDocument
     /\ UNCHANGED closings
  \/ /\ p = YearEnd
     /\ doc \in PostedClosings
     /\ \A k \in PostedClosings : k <= doc
     /\ UNCHANGED closings
  \/ /\ p = YearEnd /\ PostedClosings = {}
     /\ \A a \in Accounts : YearToDate(p)[a] = 0
     /\ doc = NoDocument
     /\ UNCHANGED closings
  \/ /\ p = YearEnd /\ PostedClosings = {}
     /\ \E a \in Accounts : YearToDate(p)[a] # 0
     /\ doc = Len(closings) + 1
     /\ closings' = Append(closings,
          [status |-> "POSTED", effect |-> [a \in Accounts |-> 0 - YearToDate(p)[a]]])

\* Mutant of AsReviewed: only the checklist is compared.
AsReviewedByChecklist(p, run) == run.checklist = Checklist(p)

\* closePeriod evaluates checklist and pack again and compares the hashes.
AsReviewed(p, run) ==
  /\ run.checklist = Checklist(p)
  /\ run.pack = Pack(p, Checklist(p))

ClosePeriod(p, c) ==
  LET run == runs[p][c]
  IN  /\ period[p].status # "CLOSED"
      /\ EarlierOpen(p) = {}
      /\ run.status = "REVIEWED"
      /\ Ready(Checklist(p))
      /\ AsReviewed(p, run)
      /\ \E doc \in 0 .. Len(closings) + 1 :
           /\ AnnualClose(p, doc)
           /\ Update(p, c, [run EXCEPT !.status = "CLOSED", !.closeDoc = doc])
      /\ period' = [period EXCEPT ![p] = [status |-> "CLOSED", version |-> @.version + 1]]
      /\ year' = IF \A q \in Periods : period'[q].status = "CLOSED" THEN "CLOSED" ELSE year
      /\ UNCHANGED <<books, requests>>

ClosedCycles(p) == {c \in Cycles(p) : runs[p][c].status = "CLOSED"}

\* PostingEngine.reverse of a PERIOD_CLOSE document makes a posted one of the same type.
ReverseClosing(k) ==
  /\ closings[k].status = "POSTED"
  /\ closings' = Append([closings EXCEPT ![k].status = "REVERSED"],
       [status |-> "POSTED", effect |-> [a \in Accounts |-> 0 - closings[k].effect[a]]])

\* Mutant of UndoClose: the closing entry is left standing.
KeepClosing(p) == UNCHANGED closings

\* The closing document the last closed run names, if it names one, is reversed.
UndoClose(p) ==
  \/ /\ \A c \in ClosedCycles(p) :
          runs[p][c].closeDoc # NoDocument => \E d \in ClosedCycles(p) : d > c
     /\ UNCHANGED closings
  \/ \E c \in ClosedCycles(p) :
       /\ \A d \in ClosedCycles(p) : d <= c
       /\ runs[p][c].closeDoc # NoDocument
       /\ ReverseClosing(runs[p][c].closeDoc)

ReopenPeriod(p) ==
  /\ period[p].status = "CLOSED"
  /\ period[p].version < MaxEdits
  /\ \A q \in p + 1 .. NPeriods : period[q].status # "CLOSED"
  /\ period' = [period EXCEPT ![p] = [status |-> "REOPENED", version |-> @.version + 1]]
  /\ year' = "OPEN"
  /\ UndoClose(p)
  /\ UNCHANGED <<books, runs, requests>>

-----------------------------------------------------------------------------
Init ==
  /\ period = [p \in Periods |-> [status |-> "OPEN", version |-> 0]]
  /\ year = "OPEN"
  /\ books = [p \in Periods |-> [docs |-> 0, result |-> [a \in Accounts |-> 0],
                                 drafts |-> 0, issues |-> 0]]
  /\ closings = <<>>
  /\ runs = [p \in Periods |-> <<>>]
  /\ requests = {}

Bookkeeping ==
  \E p \in Periods :
    \/ Draft(p)
    \/ CancelDraft(p)
    \/ \E effect \in Effects, n \in {0, 1} : PostDocument(p, effect, n)
    \/ \E n \in 0 .. MaxIssues : ReportIssues(p, n)
    \/ UpdatePeriod(p)

Reviewing ==
  \/ \E p \in Periods :
       \/ StartRun(p)
       \/ \E c \in Cycles(p) :
            \/ RefreshRun(p, c)
            \/ \E u \in Users : RequestApproval(p, c, u)
            \/ ReturnRun(p, c)
  \/ \E q \in requests, u \in Users : Approve(q, u) \/ Reject(q, u)

Closing ==
  \E p \in Periods :
    \/ \E c \in Cycles(p) : ClosePeriod(p, c)
    \/ ReopenPeriod(p)

Next == Bookkeeping \/ Reviewing \/ Closing

Spec == Init /\ [][Next]_vars

-----------------------------------------------------------------------------
(* What the components promise.                                            *)

(***************************************************************************)
(* The type of every variable: the columns of fiscal_periods,              *)
(* financial_close_runs, approval_requests and approval_decisions.         *)
(***************************************************************************)
TypeOK ==
  /\ period \in [Periods -> [status : PeriodStatus, version : Nat]]
  /\ year \in {"OPEN", "CLOSED"}
  /\ books \in [Periods -> BooksType]
  /\ closings \in Seq(ClosingType)
  /\ runs \in [Periods -> Seq(RunType)]
  /\ requests \subseteq RequestType

RequestOf(q, p, c) == q.period = p /\ q.cycle = c

(***************************************************************************)
(* A pending approval request can always be decided: its run still awaits  *)
(* it, at the version and with the pack the request was made for, and a    *)
(* run that awaits approval has such a request, exactly one.  Otherwise a  *)
(* run would be stuck, for nothing else leads out of AWAITING_APPROVAL.    *)
(***************************************************************************)
PendingMatchesRun ==
  /\ \A q \in requests : q.status = "PENDING" =>
       q.cycle \in Cycles(q.period) /\ IsSubject(runs[q.period][q.cycle], q)
  /\ \A p \in Periods : \A c \in Cycles(p) :
       runs[p][c].status = "AWAITING_APPROVAL" =>
         \E q \in requests : /\ q.status = "PENDING" /\ RequestOf(q, p, c)
                             /\ \A o \in requests : o.status = "PENDING" /\ RequestOf(o, p, c)
                                                      => o = q

(***************************************************************************)
(* What is reviewed, and what is closed, was approved as it is: the last   *)
(* step before REVIEWED was a decision, on this very version of the run    *)
(* and this very pack, by someone other than who asked for it.  No older   *)
(* approval, of the same pack before it was returned, counts.              *)
(***************************************************************************)
ReviewedWasApproved ==
  \A p \in Periods : \A c \in Cycles(p) :
    LET run == runs[p][c]
        steps == IF run.status = "CLOSED" THEN 2 ELSE 1
    IN  run.status \in {"REVIEWED", "CLOSED"} =>
          \E q \in requests :
            /\ RequestOf(q, p, c)
            /\ q.status = "APPROVED" /\ q.checker # q.maker
            /\ q.version + steps = run.version
            /\ q.pack = run.pack

(***************************************************************************)
(* While a period is closed, its revenue and expense of the year to date   *)
(* are the ones its checker approved, nobody has posted to the period or   *)
(* edited it since, and the checklist passed at that version of it.  It is *)
(* a promise about the two totals, not about every account: an earlier     *)
(* period may have been reopened after the approval, and documents posted  *)
(* in it that cancel out within each class.                                *)
(***************************************************************************)
ClosedBooksWereApproved ==
  \A p \in Periods : period[p].status = "CLOSED" =>
    LET run == Latest(p)
    IN  /\ runs[p] # <<>> /\ run.status = "CLOSED"
        /\ run.pack.yearToDate = ClassTotals(p)
        /\ run.pack.checklist.version + 1 = period[p].version
        /\ p # YearEnd => run.pack.documents = books[p].docs

(***************************************************************************)
(* Concurrent starts and reopenings never leave a period two live close    *)
(* runs: every run but the last is closed, and a closed period has none.   *)
(***************************************************************************)
OneLiveRun ==
  \A p \in Periods : \A c \in Cycles(p) :
    runs[p][c].status # "CLOSED" => c = Len(runs[p]) /\ period[p].status # "CLOSED"

(***************************************************************************)
(* The year is closed exactly when all of its periods are, and no period   *)
(* is closed after an open one.                                            *)
(***************************************************************************)
YearFollowsPeriods ==
  /\ year = "CLOSED" <=> \A p \in Periods : period[p].status = "CLOSED"
  /\ \A p, q \in Periods :
       p < q /\ period[q].status = "CLOSED" => period[p].status = "CLOSED"

\* What the PERIOD_CLOSE documents together have done to account a.
ClosingEffect(a) ==
  Net(DOMAIN closings, [k \in DOMAIN closings |-> closings[k].effect[a]])

(***************************************************************************)
(* The annual closing entry and the last period go together: while that    *)
(* period is closed every result account of the year stands at zero, and   *)
(* while it is not, no closing entry has any effect.                       *)
(* docs/architecture/FINANCIAL_CLOSE_WORKFLOW_AR.md, section 5.            *)
(***************************************************************************)
CloseEntryStandsWithClose ==
  \A a \in Accounts :
    IF period[YearEnd].status = "CLOSED"
    THEN YearToDate(YearEnd)[a] + ClosingEffect(a) = 0
    ELSE ClosingEffect(a) = 0

(***************************************************************************)
(* The same, as far as no closing entry has been reversed: it holds of     *)
(* every year that is closed once, and of a year reopened before it had    *)
(* anything to close.                                                      *)
(***************************************************************************)
FirstCloseEntryStandsWithClose ==
  (\A k \in DOMAIN closings : closings[k].status # "REVERSED") => CloseEntryStandsWithClose

=============================================================================
