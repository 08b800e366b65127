------------------------ MODULE FinancialClose_proofs ------------------------
(***************************************************************************)
(* Theorems about FinancialClose, for every number of periods, every set   *)
(* of users and result accounts, and every sequence of commands.           *)
(***************************************************************************)
EXTENDS FinancialClose, Totals_proofs, TLAPS

-----------------------------------------------------------------------------
(* Sums, checklists and packs.                                             *)

\* A net sum is an integer.
LEMMA NetInt ==
  ASSUME NEW S, IsFiniteSet(S), NEW f, \A x \in S : f[x] \in Int
  PROVE  Net(S, f) \in Int
<1> DEFINE plus == [x \in S |-> IF f[x] > 0 THEN f[x] ELSE 0]
           minus == [x \in S |-> IF f[x] < 0 THEN 0 - f[x] ELSE 0]
<1>1. \A x \in S : plus[x] \in Nat /\ minus[x] \in Nat
  OBVIOUS
<1> HIDE DEF plus, minus
<1>2. Total(S, plus) \in Nat /\ Total(S, minus) \in Nat
  BY <1>1, TotalType
<1>3. Net(S, f) = Total(S, plus) - Total(S, minus)
  BY DEF Net, plus, minus
<1> QED BY <1>2, <1>3

\* The checklist of a period has its type.
LEMMA ChecklistTyped ==
  ASSUME TypeOK, NEW p \in Periods
  PROVE  Checklist(p) \in ChecklistType
<1> DEFINE open == [q \in Periods |-> IF q \in EarlierOpen(p) THEN 1 ELSE 0]
<1>1. NPeriods \in Nat /\ p \in Nat
  BY CloseAssumption DEF Periods
<1>2. IsFiniteSet(1 .. p - 1)
  BY <1>1, FS_Interval
<1>3. \A x \in 1 .. p - 1 : open[x] \in Nat
  BY <1>1 DEF Periods
<1> HIDE DEF open
<1>4. Total(1 .. p - 1, open) \in Nat
  BY <1>2, <1>3, TotalType
<1>5. period[p].version \in Nat /\ books[p].drafts \in Nat /\ books[p].issues \in Nat
  BY DEF TypeOK, BooksType
<1> QED BY <1>4, <1>5 DEF Checklist, ChecklistType, open

\* The year to date is a balance of every result account.
LEMMA YearToDateTyped ==
  ASSUME TypeOK, NEW p \in Periods
  PROVE  YearToDate(p) \in Balances
<1> SUFFICES ASSUME NEW a \in Accounts
             PROVE  Net(1 .. p, [q \in Periods |-> books[q].result[a]]) \in Int
  BY DEF YearToDate, Balances
<1> DEFINE f == [q \in Periods |-> books[q].result[a]]
<1>1. NPeriods \in Nat /\ p \in Nat
  BY CloseAssumption DEF Periods
<1>2. IsFiniteSet(1 .. p)
  BY <1>1, FS_Interval
<1>3. \A x \in 1 .. p : x \in Periods
  BY <1>1 DEF Periods
<1>4. \A x \in Periods : books[x].result[a] \in Int
  BY DEF TypeOK, BooksType, Balances
<1>5. \A x \in 1 .. p : f[x] \in Int
  BY <1>3, <1>4
<1> HIDE DEF f
<1>6. Net(1 .. p, f) \in Int
  BY <1>2, <1>5, NetInt
<1> QED BY <1>6 DEF f

\* The total of each class is an amount.
LEMMA ClassTotalsTyped ==
  ASSUME TypeOK, NEW p \in Periods
  PROVE  ClassTotals(p) \in TotalsType
<1> DEFINE credited == [a \in Accounts |-> 0 - YearToDate(p)[a]]
<1>1. \A a \in Accounts : YearToDate(p)[a] \in Int
  BY YearToDateTyped DEF Balances
<1>2. /\ \A a \in Revenues : credited[a] \in Int
      /\ \A a \in Expenses : YearToDate(p)[a] \in Int
  BY <1>1 DEF Accounts
<1> HIDE DEF credited
<1>3. Net(Revenues, credited) \in Int /\ Net(Expenses, YearToDate(p)) \in Int
  BY <1>2, CloseAssumption, NetInt
<1> QED BY <1>3 DEF ClassTotals, TotalsType, credited

\* The pack of a period has its type.
LEMMA PackTyped ==
  ASSUME TypeOK, NEW p \in Periods
  PROVE  Pack(p, Checklist(p)) \in PackType
<1>1. ClassTotals(p) \in TotalsType /\ Checklist(p) \in ChecklistType
  BY ClassTotalsTyped, ChecklistTyped
<1>2. books[p].docs \in Nat /\ Len(closings) \in Nat
  BY DEF TypeOK, BooksType
<1>3. books[p].docs + (IF p = YearEnd THEN Len(closings) ELSE 0) \in Nat
  BY <1>2
<1> QED BY <1>1, <1>3 DEF Pack, PackType

-----------------------------------------------------------------------------
(* Rows of close runs.                                                     *)

\* A run named by a period and a cycle is a row of the table.
LEMMA RunTyped ==
  ASSUME TypeOK, NEW p \in Periods, NEW c \in Cycles(p)
  PROVE  runs[p][c] \in RunType
<1>1. runs[p] \in Seq(RunType)
  BY DEF TypeOK
<1>2. c \in 1 .. Len(runs[p])
  BY DEF Cycles
<1> QED BY <1>1, <1>2

\* What Update does: one row changes, its version by one, and no row is added.
LEMMA UpdateEffect ==
  ASSUME TypeOK, NEW p \in Periods, NEW c \in Cycles(p), NEW run \in RunType,
         Update(p, c, run)
  PROVE  /\ runs' \in [Periods -> Seq(RunType)]
         /\ \A x \in Periods : Cycles(x)' = Cycles(x)
         /\ runs'[p][c].status = run.status /\ runs'[p][c].version = run.version + 1
         /\ runs'[p][c].pack = run.pack /\ runs'[p][c].closeDoc = run.closeDoc
         /\ \A x \in Periods : \A d \in Cycles(x) :
              ~ (x = p /\ d = c) => runs'[x][d] = runs[x][d]
         /\ Len(runs'[p]) = Len(runs[p])
         /\ \A x \in Periods : x # p => runs'[x] = runs[x]
<1> DEFINE row == [run EXCEPT !.version = run.version + 1]
<1>1. row \in RunType
  BY DEF RunType
<1>2. runs' = [runs EXCEPT ![p] = [runs[p] EXCEPT ![c] = row]]
  BY DEF Update, TypeOK
<1> HIDE DEF row
<1>3. runs \in [Periods -> Seq(RunType)] /\ runs[p] \in Seq(RunType) /\ c \in 1 .. Len(runs[p])
  BY DEF TypeOK, Cycles
<1>4. /\ [runs[p] EXCEPT ![c] = row] \in Seq(RunType)
      /\ Len([runs[p] EXCEPT ![c] = row]) = Len(runs[p])
      /\ [runs[p] EXCEPT ![c] = row][c] = row
      /\ \A d \in 1 .. Len(runs[p]) : d # c => [runs[p] EXCEPT ![c] = row][d] = runs[p][d]
  BY <1>1, <1>3
<1> DEFINE mine == [runs[p] EXCEPT ![c] = row]
<1> HIDE DEF mine
<1>5. runs' = [runs EXCEPT ![p] = mine] /\ mine \in Seq(RunType) /\ Len(mine) = Len(runs[p])
      /\ mine[c] = row /\ \A d \in 1 .. Len(runs[p]) : d # c => mine[d] = runs[p][d]
  BY <1>2, <1>4 DEF mine
<1>6. /\ runs' \in [Periods -> Seq(RunType)]
      /\ runs'[p] = mine /\ \A x \in Periods : x # p => runs'[x] = runs[x]
  BY <1>3, <1>5
<1>7. \A x \in Periods : Cycles(x)' = Cycles(x)
  <2> SUFFICES ASSUME NEW x \in Periods PROVE 1 .. Len(runs'[x]) = 1 .. Len(runs[x])
    BY DEF Cycles
  <2>1. Len(runs'[x]) = Len(runs[x])
    BY <1>5, <1>6
  <2> QED BY <2>1
<1>8. runs'[p][c] = row
  BY <1>5, <1>6
<1>9. ASSUME NEW x \in Periods, NEW d \in Cycles(x), ~ (x = p /\ d = c)
      PROVE  runs'[x][d] = runs[x][d]
  BY <1>5, <1>6, <1>9 DEF Cycles
<1>10. /\ row.status = run.status /\ row.version = run.version + 1
       /\ row.pack = run.pack /\ row.closeDoc = run.closeDoc
  BY DEF row, RunType
<1> QED BY <1>5, <1>6, <1>7, <1>8, <1>9, <1>10

\* What StartRun does: a run in preparation is added after the others.
LEMMA StartEffect ==
  ASSUME TypeOK, NEW p \in Periods, StartRun(p)
  PROVE  /\ runs' \in [Periods -> Seq(RunType)]
         /\ \A x \in Periods : \A d \in Cycles(x) :
              d \in Cycles(x)' /\ runs'[x][d] = runs[x][d]
         /\ \A x \in Periods : \A d \in Cycles(x)' :
              d \in Cycles(x)
                \/ (runs'[x][d].status = "PREPARING" /\ runs'[x][d].closeDoc = 0)
         /\ Len(runs'[p]) = Len(runs[p]) + 1
         /\ \A x \in Periods : x # p => runs'[x] = runs[x]
<1> DEFINE row == [status |-> "PREPARING", version |-> 0, checklist |-> Checklist(p),
                   pack |-> NoPack, closeDoc |-> NoDocument]
           mine == Append(runs[p], row)
<1>1. row \in RunType
  BY ChecklistTyped DEF RunType, RunStatus, NoDocument
<1>2. runs' = [runs EXCEPT ![p] = mine]
  BY DEF StartRun
<1>3. row.status = "PREPARING" /\ row.closeDoc = 0
  BY DEF NoDocument
<1> HIDE DEF row
<1>4. runs \in [Periods -> Seq(RunType)] /\ runs[p] \in Seq(RunType)
  BY DEF TypeOK
<1>5. /\ mine \in Seq(RunType) /\ Len(mine) = Len(runs[p]) + 1 /\ mine[Len(mine)] = row
      /\ \A d \in 1 .. Len(runs[p]) : mine[d] = runs[p][d]
  BY <1>1, <1>4
<1> HIDE DEF mine
<1>6. /\ runs' \in [Periods -> Seq(RunType)]
      /\ runs'[p] = mine /\ \A x \in Periods : x # p => runs'[x] = runs[x]
  BY <1>2, <1>4, <1>5
<1>7. ASSUME NEW x \in Periods, NEW d \in Cycles(x)
      PROVE  d \in 1 .. Len(runs'[x]) /\ runs'[x][d] = runs[x][d]
  <2>1. CASE x = p
    BY <1>4, <1>5, <1>6, <1>7, <2>1 DEF Cycles
  <2>2. CASE x # p
    BY <1>6, <1>7, <2>2 DEF Cycles
  <2> QED BY <2>1, <2>2
<1>8. ASSUME NEW x \in Periods, NEW d \in 1 .. Len(runs'[x])
      PROVE  \/ d \in 1 .. Len(runs[x])
             \/ (runs'[x][d].status = "PREPARING" /\ runs'[x][d].closeDoc = 0)
  <2>1. CASE x = p
    BY <1>3, <1>4, <1>5, <1>6, <1>8, <2>1
  <2>2. CASE x # p
    BY <1>6, <1>8, <2>2
  <2> QED BY <2>1, <2>2
<1> QED BY <1>5, <1>6, <1>7, <1>8 DEF Cycles

-----------------------------------------------------------------------------
(* Type correctness.                                                       *)

\* The types hold initially.
LEMMA TypedInit == Init => TypeOK
BY CloseAssumption DEF Init, TypeOK, PeriodStatus, BooksType, Balances, RequestType

BooksTyped ==
  /\ books \in [Periods -> BooksType]
  /\ period \in [Periods -> [status : PeriodStatus, version : Nat]]

\* The commands of the rest of the system touch the books and the period alone.
LEMMA BookkeepingTyped ==
  ASSUME TypeOK, Bookkeeping
  PROVE  TypeOK'
<1>1. BooksTyped'
  <2>1. ASSUME NEW p \in Periods, Draft(p) \/ CancelDraft(p) \/ UpdatePeriod(p)
        PROVE  BooksTyped'
    <3>1. books[p] \in BooksType /\ books[p].drafts \in Nat
      BY DEF TypeOK, BooksType
    <3>2. /\ [books[p] EXCEPT !.drafts = books[p].drafts + 1] \in BooksType
          /\ books[p].drafts > 0 =>
               [books[p] EXCEPT !.drafts = books[p].drafts - 1] \in BooksType
      BY <3>1 DEF BooksType
    <3>3. CASE Draft(p)
      BY <3>2, <3>3 DEF Draft, TypeOK, BooksTyped
    <3>4. CASE CancelDraft(p)
      BY <3>2, <3>4 DEF CancelDraft, TypeOK, BooksTyped
    <3>5. CASE UpdatePeriod(p)
      BY <3>5 DEF UpdatePeriod, TypeOK, BooksTyped, PeriodStatus
    <3> QED BY <2>1, <3>3, <3>4, <3>5
  <2>2. ASSUME NEW p \in Periods, NEW effect \in Effects, NEW n \in {0, 1},
               PostDocument(p, effect, n)
        PROVE  BooksTyped'
    <3>1. effect \in Balances
      BY CloseAssumption
    <3>2. books[p] \in BooksType /\ books[p].result \in Balances
      BY DEF TypeOK, BooksType
    <3>3. [a \in Accounts |-> books[p].result[a] + effect[a]] \in Balances
      BY <3>1, <3>2 DEF Balances
    <3>4. books' = [books EXCEPT ![p] =
             [books[p] EXCEPT !.docs = books[p].docs + 1, !.drafts = books[p].drafts - n,
                !.result = [a \in Accounts |-> books[p].result[a] + effect[a]]]]
      <4>1. books' = [books EXCEPT ![p].docs = @ + 1, ![p].drafts = @ - n,
                                   ![p].result = [a \in Accounts |-> @[a] + effect[a]]]
        BY <2>2 DEF PostDocument
      <4>2. DOMAIN books = Periods /\ books = [q \in Periods |-> books[q]]
        BY DEF TypeOK
      <4>3. DOMAIN books[p] = {"docs", "result", "drafts", "issues"}
        BY <3>2 DEF BooksType
      <4> QED BY <4>1, <4>2, <4>3
    <3>5. books[p].docs + 1 \in Nat /\ books[p].drafts - n \in Nat
      BY <2>2, <3>2 DEF PostDocument, BooksType
    <3>6. books'[p] \in BooksType /\ books' \in [Periods -> BooksType]
      BY <3>2, <3>3, <3>4, <3>5 DEF TypeOK, BooksType
    <3> QED BY <2>2, <3>6 DEF PostDocument, TypeOK, BooksTyped
  <2>3. ASSUME NEW p \in Periods, NEW n \in 0 .. MaxIssues, ReportIssues(p, n)
        PROVE  BooksTyped'
    <3>1. n \in Nat /\ books[p] \in BooksType
      BY CloseAssumption DEF TypeOK
    <3>2. [books[p] EXCEPT !.issues = n] \in BooksType
      BY <3>1 DEF BooksType
    <3> QED BY <2>3, <3>2 DEF ReportIssues, TypeOK, BooksTyped
  <2> QED BY <2>1, <2>2, <2>3 DEF Bookkeeping
<1>2. UNCHANGED <<year, closings, runs, requests>>
  BY DEF Bookkeeping, Draft, CancelDraft, PostDocument, ReportIssues, UpdatePeriod
<1> QED BY <1>1, <1>2 DEF TypeOK, BooksTyped

\* A decision leaves a typed request in place of the pending one.
LEMMA DecideTyped ==
  ASSUME TypeOK, NEW q \in requests, NEW u \in Users, NEW decision \in RequestStatus,
         Decide(q, u, decision)
  PROVE  requests' \subseteq RequestType
BY DEF Decide, TypeOK, RequestType

\* A review writes its run and its request, and leaves the books alone.
LEMMA ReviewingLeaves ==
  ASSUME Reviewing
  PROVE  UNCHANGED <<period, year, books, closings>>
<1>1. ASSUME NEW p \in Periods, StartRun(p)
      PROVE  UNCHANGED <<period, year, books, closings>>
  BY <1>1 DEF StartRun
<1>2. ASSUME NEW p \in Periods, NEW c \in Cycles(p), RefreshRun(p, c) \/ ReturnRun(p, c)
      PROVE  UNCHANGED <<period, year, books, closings>>
  BY <1>2 DEF RefreshRun, ReturnRun
<1>3. ASSUME NEW p \in Periods, NEW c \in Cycles(p), NEW u \in Users, RequestApproval(p, c, u)
      PROVE  UNCHANGED <<period, year, books, closings>>
  BY <1>3 DEF RequestApproval
<1>4. ASSUME NEW q \in requests, NEW u \in Users, Approve(q, u) \/ Reject(q, u)
      PROVE  UNCHANGED <<period, year, books, closings>>
  BY <1>4 DEF Approve, Reject
<1> QED BY <1>1, <1>2, <1>3, <1>4 DEF Reviewing

\* Reviewing keeps the types: the cycle of a request is a cycle of its period.
LEMMA ReviewingTyped ==
  ASSUME TypeOK, PendingMatchesRun, Reviewing
  PROVE  TypeOK'
<1>1. UNCHANGED <<period, year, books, closings>>
  BY ReviewingLeaves
<1>2. ASSUME NEW p \in Periods, StartRun(p) PROVE TypeOK'
  BY <1>1, <1>2, StartEffect DEF StartRun, TypeOK
<1>3. ASSUME NEW p \in Periods, NEW c \in Cycles(p),
             RefreshRun(p, c) \/ ReturnRun(p, c) \/ \E u \in Users : RequestApproval(p, c, u)
      PROVE  TypeOK'
  <2>1. runs[p][c] \in RunType
    BY RunTyped
  <2>2. Checklist(p) \in ChecklistType /\ Pack(p, Checklist(p)) \in PackType
    BY ChecklistTyped, PackTyped
  <2>3. CASE RefreshRun(p, c)
    <3>1. [runs[p][c] EXCEPT !.checklist = Checklist(p)] \in RunType
      BY <2>1, <2>2 DEF RunType
    <3>2. runs' \in [Periods -> Seq(RunType)]
      BY <2>3, <3>1, UpdateEffect DEF RefreshRun
    <3> QED BY <1>1, <2>3, <3>2 DEF RefreshRun, TypeOK
  <2>4. CASE ReturnRun(p, c)
    <3>1. [runs[p][c] EXCEPT !.status = "PREPARING", !.pack = NoPack] \in RunType
      BY <2>1 DEF RunType, RunStatus
    <3>2. runs' \in [Periods -> Seq(RunType)]
      BY <2>4, <3>1, UpdateEffect DEF ReturnRun
    <3> QED BY <1>1, <2>4, <3>2 DEF ReturnRun, TypeOK
  <2>5. ASSUME NEW u \in Users, RequestApproval(p, c, u) PROVE TypeOK'
    <3>1. [runs[p][c] EXCEPT !.status = "AWAITING_APPROVAL", !.checklist = Checklist(p),
                             !.pack = Pack(p, Checklist(p))] \in RunType
      BY <2>1, <2>2 DEF RunType, RunStatus
    <3>2. runs' \in [Periods -> Seq(RunType)]
      BY <2>5, <3>1, UpdateEffect DEF RequestApproval
    <3>3. runs[p][c].version \in Nat /\ c \in Nat
      BY <2>1 DEF RunType, Cycles
    <3>4. [period |-> p, cycle |-> c, version |-> runs[p][c].version + 1,
           pack |-> Pack(p, Checklist(p)), status |-> "PENDING", maker |-> u,
           checker |-> Nobody] \in RequestType
      BY <2>2, <3>3 DEF RequestType, RequestStatus
    <3>5. requests' \subseteq RequestType
      BY <2>5, <3>4 DEF RequestApproval, TypeOK
    <3> QED BY <1>1, <3>2, <3>5 DEF TypeOK
  <2> QED BY <1>3, <2>3, <2>4, <2>5
<1>4. ASSUME NEW q \in requests, NEW u \in Users, Approve(q, u) \/ Reject(q, u)
      PROVE  TypeOK'
  <2>1. q.period \in Periods /\ q.status = "PENDING" /\ q.cycle \in Cycles(q.period)
    BY <1>4 DEF Approve, Reject, Decide, TypeOK, RequestType, PendingMatchesRun
  <2>2. runs[q.period][q.cycle] \in RunType
    BY <2>1, RunTyped
  <2>3. Checklist(q.period) \in ChecklistType
    BY <2>1, ChecklistTyped
  <2>4. /\ [runs[q.period][q.cycle] EXCEPT !.status = "REVIEWED",
              !.checklist = Checklist(q.period)] \in RunType
        /\ [runs[q.period][q.cycle] EXCEPT !.status = "PREPARING", !.pack = NoPack] \in RunType
    BY <2>2, <2>3 DEF RunType, RunStatus
  <2>5. runs' \in [Periods -> Seq(RunType)]
    BY <1>4, <2>1, <2>4, UpdateEffect DEF Approve, Reject
  <2>6. requests' \subseteq RequestType
    BY <1>4, DecideTyped DEF Approve, Reject, RequestStatus
  <2> QED BY <1>1, <2>5, <2>6 DEF TypeOK
<1> QED BY <1>2, <1>3, <1>4 DEF Reviewing

\* A run names no closing document, or one there is.
ClosingsExist ==
  \A p \in Periods : \A c \in Cycles(p) : runs[p][c].closeDoc \in 0 .. Len(closings)

\* Closing adds at most one PERIOD_CLOSE document, reopening exactly one if any.
LEMMA ClosingTyped ==
  ASSUME TypeOK, ClosingsExist, Closing
  PROVE  TypeOK' /\ Len(closings') \in Nat /\ Len(closings) <= Len(closings')
<1>1. UNCHANGED <<books, requests>> /\ year' \in {"OPEN", "CLOSED"}
  BY DEF Closing, ClosePeriod, ReopenPeriod, TypeOK
<1>2. ASSUME NEW p \in Periods,
             ReopenPeriod(p) \/ \E c \in Cycles(p) : ClosePeriod(p, c)
      PROVE  period' \in [Periods -> [status : PeriodStatus, version : Nat]]
  <2>1. period[p].version + 1 \in Nat
    BY DEF TypeOK
  <2>2. PICK status \in PeriodStatus :
          period' = [period EXCEPT ![p] = [status |-> status, version |-> period[p].version + 1]]
    BY <1>2 DEF ClosePeriod, ReopenPeriod, PeriodStatus
  <2> QED BY <2>1, <2>2 DEF TypeOK
<1>3. ASSUME NEW p \in Periods, NEW c \in Cycles(p), ClosePeriod(p, c)
      PROVE  TypeOK' /\ Len(closings') \in Nat /\ Len(closings) <= Len(closings')
  <2>1. PICK doc \in 0 .. Len(closings) + 1 :
          /\ AnnualClose(p, doc)
          /\ Update(p, c, [runs[p][c] EXCEPT !.status = "CLOSED", !.closeDoc = doc])
    BY <1>3 DEF ClosePeriod
  <2>2. closings \in Seq(ClosingType) /\ doc \in Nat
    BY DEF TypeOK
  <2>3. [runs[p][c] EXCEPT !.status = "CLOSED", !.closeDoc = doc] \in RunType
    BY <2>2, RunTyped DEF RunType, RunStatus
  <2>4. runs' \in [Periods -> Seq(RunType)]
    BY <2>1, <2>3, UpdateEffect
  <2>5. [status |-> "POSTED", effect |-> [a \in Accounts |-> 0 - YearToDate(p)[a]]] \in ClosingType
    <3>1. \A a \in Accounts : YearToDate(p)[a] \in Int
      BY YearToDateTyped DEF Balances
    <3>2. \A a \in Accounts : 0 - YearToDate(p)[a] \in Int
      BY <3>1
    <3> QED BY <3>2 DEF ClosingType, Balances
  <2>6. closings' \in Seq(ClosingType) /\ Len(closings) <= Len(closings')
    BY <2>1, <2>2, <2>5 DEF AnnualClose
  <2> QED BY <1>1, <1>2, <1>3, <2>4, <2>6 DEF TypeOK
<1>4. ASSUME NEW p \in Periods, ReopenPeriod(p)
      PROVE  TypeOK' /\ Len(closings') \in Nat /\ Len(closings) <= Len(closings')
  <2>1. UNCHANGED runs /\ UndoClose(p)
    BY <1>4 DEF ReopenPeriod
  <2>2. ASSUME NEW k \in DOMAIN closings, ReverseClosing(k)
        PROVE  closings' \in Seq(ClosingType) /\ Len(closings) <= Len(closings')
    <3>1. closings \in Seq(ClosingType) /\ closings[k] \in ClosingType
      BY DEF TypeOK
    <3>2. [closings[k] EXCEPT !.status = "REVERSED"] \in ClosingType
      BY <3>1 DEF ClosingType
    <3>3. /\ [closings EXCEPT ![k].status = "REVERSED"] \in Seq(ClosingType)
          /\ Len([closings EXCEPT ![k].status = "REVERSED"]) = Len(closings)
      BY <3>1, <3>2
    <3>4. \A a \in Accounts : closings[k].effect[a] \in Int
      BY <3>1 DEF ClosingType, Balances
    <3>5. [status |-> "POSTED", effect |-> [a \in Accounts |-> 0 - closings[k].effect[a]]]
             \in ClosingType
      BY <3>4 DEF ClosingType, Balances
    <3> QED BY <2>2, <3>3, <3>5 DEF ReverseClosing
  <2>3. closings \in Seq(ClosingType)
    BY DEF TypeOK
  <2>4. closings' \in Seq(ClosingType) /\ Len(closings) <= Len(closings')
    <3>1. CASE UNCHANGED closings
      BY <2>3, <3>1
    <3>2. ASSUME NEW c \in ClosedCycles(p), runs[p][c].closeDoc # NoDocument,
                 ReverseClosing(runs[p][c].closeDoc)
          PROVE  closings' \in Seq(ClosingType) /\ Len(closings) <= Len(closings')
      <4>1. runs[p][c].closeDoc \in 0 .. Len(closings)
        BY <3>2 DEF ClosedCycles, ClosingsExist
      <4>2. runs[p][c].closeDoc \in DOMAIN closings
        BY <2>3, <3>2, <4>1 DEF NoDocument
      <4> QED BY <2>2, <3>2, <4>2
    <3> QED BY <2>1, <3>1, <3>2 DEF UndoClose
  <2> QED BY <1>1, <1>2, <1>4, <2>1, <2>4 DEF TypeOK
<1> QED BY <1>3, <1>4 DEF Closing

-----------------------------------------------------------------------------
(* Pending requests and the runs that await them.                          *)

\* A command on a run that nobody is asked about, before or after it.
LEMMA PendingKept ==
  ASSUME TypeOK, PendingMatchesRun, NEW p \in Periods, NEW c \in Cycles(p),
         NEW run \in RunType, Update(p, c, run), UNCHANGED requests,
         runs[p][c].status # "AWAITING_APPROVAL", run.status # "AWAITING_APPROVAL"
  PROVE  PendingMatchesRun'
<1>1. /\ \A x \in Periods : Cycles(x)' = Cycles(x)
      /\ runs'[p][c].status # "AWAITING_APPROVAL"
      /\ \A x \in Periods : \A d \in Cycles(x) :
           ~ (x = p /\ d = c) => runs'[x][d] = runs[x][d]
  BY UpdateEffect
<1>2. ASSUME NEW q \in requests', q.status = "PENDING"
      PROVE  q.cycle \in Cycles(q.period)' /\ IsSubject(runs'[q.period][q.cycle], q)
  <2>1. /\ q.period \in Periods /\ q.cycle \in Cycles(q.period)
        /\ IsSubject(runs[q.period][q.cycle], q)
    BY <1>2 DEF TypeOK, RequestType, PendingMatchesRun
  <2>2. ~ (q.period = p /\ q.cycle = c)
    BY <2>1 DEF IsSubject
  <2> QED BY <1>1, <2>1, <2>2
<1>3. ASSUME NEW x \in Periods, NEW d \in Cycles(x)', runs'[x][d].status = "AWAITING_APPROVAL"
      PROVE  \E q \in requests' : /\ q.status = "PENDING" /\ RequestOf(q, x, d)
                                  /\ \A o \in requests' : o.status = "PENDING" /\ RequestOf(o, x, d)
                                                            => o = q
  <2>1. d \in Cycles(x) /\ runs[x][d].status = "AWAITING_APPROVAL"
    BY <1>1, <1>3
  <2> QED BY <2>1 DEF PendingMatchesRun
<1> QED BY <1>2, <1>3 DEF PendingMatchesRun, RequestOf, IsSubject

\* A decision takes the run out of AWAITING_APPROVAL with its only pending request.
LEMMA PendingDecided ==
  ASSUME TypeOK, PendingMatchesRun, NEW q \in requests, NEW u \in Users,
         NEW decision \in {"APPROVED", "REJECTED"}, Decide(q, u, decision),
         NEW run \in RunType, Update(q.period, q.cycle, run),
         run.status # "AWAITING_APPROVAL"
  PROVE  PendingMatchesRun'
<1> DEFINE p == q.period
           c == q.cycle
<1>1. p \in Periods /\ c \in Cycles(p) /\ runs[p][c].status = "AWAITING_APPROVAL"
      /\ q.status = "PENDING" /\ RequestOf(q, p, c)
  BY DEF Decide, TypeOK, RequestType, PendingMatchesRun, IsSubject, RequestOf
<1>2. \A o \in requests : o.status = "PENDING" /\ RequestOf(o, p, c) => o = q
  BY <1>1 DEF PendingMatchesRun
<1>3. \A o \in requests' : o.status = "PENDING" => o \in requests /\ o # q
  BY DEF Decide, TypeOK, RequestType
<1>4. \A o \in requests : o # q => o \in requests'
  BY DEF Decide
<1>5. /\ \A x \in Periods : Cycles(x)' = Cycles(x)
      /\ runs'[p][c].status # "AWAITING_APPROVAL"
      /\ \A x \in Periods : \A d \in Cycles(x) :
           ~ (x = p /\ d = c) => runs'[x][d] = runs[x][d]
  BY <1>1, UpdateEffect
<1> HIDE DEF p, c
<1>6. ASSUME NEW o \in requests', o.status = "PENDING"
      PROVE  o.cycle \in Cycles(o.period)' /\ IsSubject(runs'[o.period][o.cycle], o)
  <2>1. o \in requests /\ ~ RequestOf(o, p, c)
    BY <1>2, <1>3, <1>6
  <2>2. o.period \in Periods /\ o.cycle \in Cycles(o.period)
        /\ IsSubject(runs[o.period][o.cycle], o)
    BY <1>6, <2>1 DEF TypeOK, RequestType, PendingMatchesRun
  <2> QED BY <1>5, <2>1, <2>2 DEF RequestOf
<1>7. ASSUME NEW x \in Periods, NEW d \in Cycles(x)', runs'[x][d].status = "AWAITING_APPROVAL"
      PROVE  \E w \in requests' : /\ w.status = "PENDING" /\ RequestOf(w, x, d)
                                  /\ \A o \in requests' : o.status = "PENDING" /\ RequestOf(o, x, d)
                                                            => o = w
  <2>1. d \in Cycles(x) /\ ~ (x = p /\ d = c) /\ runs[x][d].status = "AWAITING_APPROVAL"
    BY <1>5, <1>7
  <2>2. PICK w \in requests : /\ w.status = "PENDING" /\ RequestOf(w, x, d)
                              /\ \A o \in requests : o.status = "PENDING" /\ RequestOf(o, x, d)
                                                       => o = w
    BY <2>1 DEF PendingMatchesRun
  <2>3. w # q
    BY <1>1, <2>1, <2>2 DEF RequestOf
  <2> QED BY <1>3, <1>4, <2>2, <2>3
<1> QED BY <1>6, <1>7 DEF PendingMatchesRun, RequestOf, IsSubject

\* Asking for approval creates the one pending request its run awaits.
LEMMA PendingRequested ==
  ASSUME TypeOK, PendingMatchesRun, NEW p \in Periods, NEW c \in Cycles(p),
         NEW u \in Users, RequestApproval(p, c, u)
  PROVE  PendingMatchesRun'
<1> DEFINE pack == Pack(p, Checklist(p))
           run == [runs[p][c] EXCEPT !.status = "AWAITING_APPROVAL",
                                     !.checklist = Checklist(p), !.pack = pack]
           new == [period |-> p, cycle |-> c, version |-> runs[p][c].version + 1,
                   pack |-> pack, status |-> "PENDING", maker |-> u, checker |-> Nobody]
<1>1. runs[p][c] \in RunType /\ Checklist(p) \in ChecklistType /\ pack \in PackType
  BY RunTyped, ChecklistTyped, PackTyped
<1> HIDE DEF pack
<1>2. run \in RunType
  BY <1>1 DEF RunType, RunStatus
<1>3. /\ Update(p, c, run) /\ requests' = requests \cup {new}
      /\ runs[p][c].status = "PREPARING"
      /\ \A q \in requests : q.status = "PENDING" => ~ RequestOf(q, p, c)
  BY DEF RequestApproval, pack, RequestOf
<1>4. /\ run.status = "AWAITING_APPROVAL" /\ run.version + 1 = new.version /\ run.pack = new.pack
  BY <1>1 DEF RunType
<1>5. new.status = "PENDING" /\ RequestOf(new, p, c) /\ new.period = p /\ new.cycle = c
  BY DEF RequestOf
<1> HIDE DEF run, new
<1>6. /\ \A x \in Periods : Cycles(x)' = Cycles(x)
      /\ runs'[p][c].status = run.status /\ runs'[p][c].version = run.version + 1
      /\ runs'[p][c].pack = run.pack
      /\ \A x \in Periods : \A d \in Cycles(x) :
           ~ (x = p /\ d = c) => runs'[x][d] = runs[x][d]
  BY <1>2, <1>3, UpdateEffect
<1>7. IsSubject(runs'[p][c], new)
  BY <1>4, <1>6 DEF IsSubject
<1>8. ASSUME NEW o \in requests', o.status = "PENDING"
      PROVE  o.cycle \in Cycles(o.period)' /\ IsSubject(runs'[o.period][o.cycle], o)
  <2>1. CASE o = new
    BY <1>5, <1>6, <1>7, <2>1
  <2>2. CASE o \in requests
    <3>1. o.period \in Periods /\ o.cycle \in Cycles(o.period)
          /\ IsSubject(runs[o.period][o.cycle], o)
      BY <1>8, <2>2 DEF TypeOK, RequestType, PendingMatchesRun
    <3>2. ~ (o.period = p /\ o.cycle = c)
      BY <1>3, <1>8, <2>2 DEF RequestOf
    <3> QED BY <1>6, <3>1, <3>2
  <2> QED BY <1>3, <2>1, <2>2
<1>9. ASSUME NEW x \in Periods, NEW d \in Cycles(x)', runs'[x][d].status = "AWAITING_APPROVAL"
      PROVE  \E w \in requests' : /\ w.status = "PENDING" /\ RequestOf(w, x, d)
                                  /\ \A o \in requests' : o.status = "PENDING" /\ RequestOf(o, x, d)
                                                            => o = w
  <2>1. CASE x = p /\ d = c
    BY <1>3, <1>5, <2>1
  <2>2. CASE ~ (x = p /\ d = c)
    <3>1. d \in Cycles(x) /\ runs[x][d].status = "AWAITING_APPROVAL"
      BY <1>6, <1>9, <2>2
    <3>2. PICK w \in requests : /\ w.status = "PENDING" /\ RequestOf(w, x, d)
                                /\ \A o \in requests : o.status = "PENDING" /\ RequestOf(o, x, d)
                                                         => o = w
      BY <3>1 DEF PendingMatchesRun
    <3>3. ~ RequestOf(new, x, d)
      BY <1>5, <2>2 DEF RequestOf
    <3> QED BY <1>3, <3>2, <3>3
  <2> QED BY <2>1, <2>2
<1> QED BY <1>8, <1>9 DEF PendingMatchesRun, RequestOf, IsSubject

-----------------------------------------------------------------------------
(* Approvals of reviewed and closed runs.                                  *)

\* Request q approves row run of cycle c of period p, as it is.
Approves(q, run, p, c) ==
  /\ RequestOf(q, p, c)
  /\ q.status = "APPROVED" /\ q.checker # q.maker
  /\ q.version + (IF run.status = "CLOSED" THEN 2 ELSE 1) = run.version
  /\ q.pack = run.pack

\* The statement of ReviewedWasApproved, run by run.
LEMMA ReviewedByRun ==
  ReviewedWasApproved <=>
    \A p \in Periods : \A c \in Cycles(p) :
      runs[p][c].status \in {"REVIEWED", "CLOSED"} =>
        \E q \in requests : Approves(q, runs[p][c], p, c)
BY DEF ReviewedWasApproved, Approves

\* A run's update keeps every approval if it keeps the approved requests and
\* approves its own run when that is left reviewed or closed.
LEMMA ReviewedKept ==
  ASSUME TypeOK, ReviewedWasApproved, NEW p \in Periods, NEW c \in Cycles(p),
         NEW run \in RunType, Update(p, c, run),
         \A q \in requests : q.status = "APPROVED" => q \in requests',
         run.status \in {"REVIEWED", "CLOSED"} =>
           \E q \in requests' : Approves(q, runs'[p][c], p, c)
  PROVE  ReviewedWasApproved'
<1>1. /\ \A x \in Periods : Cycles(x)' = Cycles(x)
      /\ runs'[p][c].status = run.status
      /\ \A x \in Periods : \A d \in Cycles(x) :
           ~ (x = p /\ d = c) => runs'[x][d] = runs[x][d]
  BY UpdateEffect
<1>2. ASSUME NEW x \in Periods, NEW d \in Cycles(x)',
             runs'[x][d].status \in {"REVIEWED", "CLOSED"}
      PROVE  \E q \in requests' : Approves(q, runs'[x][d], x, d)
  <2>1. CASE x = p /\ d = c
    BY <1>1, <1>2, <2>1
  <2>2. CASE ~ (x = p /\ d = c)
    <3>1. d \in Cycles(x) /\ runs'[x][d] = runs[x][d]
      BY <1>1, <2>2
    <3>2. PICK q \in requests : Approves(q, runs[x][d], x, d)
      BY <1>2, <3>1, ReviewedByRun
    <3>3. q \in requests'
      BY <3>2 DEF Approves
    <3> QED BY <3>1, <3>2, <3>3
  <2> QED BY <2>1, <2>2
<1>3. (\A x \in Periods : \A d \in Cycles(x) :
        runs[x][d].status \in {"REVIEWED", "CLOSED"} =>
          \E q \in requests : Approves(q, runs[x][d], x, d))'
  BY <1>2 DEF Approves, RequestOf
<1> QED BY ONLY <1>3 DEF ReviewedWasApproved, Approves

\* A decision keeps the requests already approved.
LEMMA ApprovedKept ==
  ASSUME NEW q, NEW u, NEW decision, Decide(q, u, decision)
  PROVE  \A o \in requests : o.status = "APPROVED" => o \in requests'
BY DEF Decide

-----------------------------------------------------------------------------
(* The invariant.                                                          *)

IInv ==
  /\ TypeOK
  /\ PendingMatchesRun
  /\ ReviewedWasApproved
  /\ ClosingsExist

\* The invariant holds initially.
LEMMA IInvInit == Init => IInv
<1> SUFFICES ASSUME Init PROVE IInv
  OBVIOUS
<1>1. requests = {} /\ \A p \in Periods : Cycles(p) = {}
  BY DEF Init, Cycles
<1> QED BY <1>1, TypedInit DEF IInv, PendingMatchesRun, ReviewedWasApproved, ClosingsExist

\* Steps that leave runs, requests and closing documents alone.
LEMMA QuietStep ==
  ASSUME IInv, TypeOK', UNCHANGED <<runs, requests, closings>>
  PROVE  IInv'
<1>1. PendingMatchesRun'
  BY DEF IInv, PendingMatchesRun, Cycles, IsSubject, RequestOf
<1>2. ReviewedWasApproved' /\ ClosingsExist'
  BY DEF IInv, ReviewedWasApproved, ClosingsExist, Cycles, RequestOf
<1> QED BY <1>1, <1>2 DEF IInv

\* The closing document a run names stays there when documents are added.
LEMMA ClosingsExistKept ==
  ASSUME TypeOK, ClosingsExist, NEW p \in Periods, NEW c \in Cycles(p),
         NEW run \in RunType, Update(p, c, run),
         Len(closings') \in Nat, Len(closings) <= Len(closings'),
         run.closeDoc <= Len(closings')
  PROVE  ClosingsExist'
<1>1. /\ \A x \in Periods : Cycles(x)' = Cycles(x)
      /\ runs'[p][c].closeDoc = run.closeDoc
      /\ \A x \in Periods : \A d \in Cycles(x) :
           ~ (x = p /\ d = c) => runs'[x][d] = runs[x][d]
  BY UpdateEffect
<1>2. ASSUME NEW x \in Periods, NEW d \in Cycles(x)
      PROVE  runs'[x][d].closeDoc \in 0 .. Len(closings')
  <2>1. runs[x][d].closeDoc \in 0 .. Len(closings) /\ Len(closings) \in Nat
    BY DEF ClosingsExist, TypeOK
  <2>2. CASE x = p /\ d = c
    BY <1>1, <2>2 DEF RunType
  <2>3. CASE ~ (x = p /\ d = c)
    BY <1>1, <2>1, <2>3
  <2> QED BY <2>2, <2>3
<1> QED BY <1>1, <1>2 DEF ClosingsExist

\* A run that starts is in preparation: nobody awaits, approved or closed it.
LEMMA StartKept ==
  ASSUME IInv, TypeOK', NEW p \in Periods, StartRun(p)
  PROVE  IInv'
<1>1. UNCHANGED <<requests, closings>>
  BY DEF StartRun
<1>2. /\ \A x \in Periods : \A d \in Cycles(x) :
           d \in Cycles(x)' /\ runs'[x][d] = runs[x][d]
      /\ \A x \in Periods : \A d \in Cycles(x)' :
           d \in Cycles(x)
             \/ (runs'[x][d].status = "PREPARING" /\ runs'[x][d].closeDoc = 0)
  BY StartEffect DEF IInv
<1>3. PendingMatchesRun'
  <2>1. ASSUME NEW q \in requests, q.status = "PENDING"
        PROVE  q.cycle \in Cycles(q.period)' /\ IsSubject(runs'[q.period][q.cycle], q)
    <3>1. q.period \in Periods /\ q.cycle \in Cycles(q.period)
          /\ IsSubject(runs[q.period][q.cycle], q)
      BY <2>1 DEF IInv, TypeOK, RequestType, PendingMatchesRun
    <3> QED BY <1>2, <3>1
  <2>2. ASSUME NEW x \in Periods, NEW d \in Cycles(x)', runs'[x][d].status = "AWAITING_APPROVAL"
        PROVE  \E q \in requests : /\ q.status = "PENDING" /\ RequestOf(q, x, d)
                                   /\ \A o \in requests : o.status = "PENDING" /\ RequestOf(o, x, d)
                                                            => o = q
    BY <1>2, <2>2 DEF IInv, PendingMatchesRun
  <2> QED BY <1>1, <2>1, <2>2 DEF PendingMatchesRun, IsSubject, RequestOf
<1>4. ReviewedWasApproved'
  <2>1. ASSUME NEW x \in Periods, NEW d \in Cycles(x)',
               runs'[x][d].status \in {"REVIEWED", "CLOSED"}
        PROVE  \E q \in requests : Approves(q, runs'[x][d], x, d)
    <3>1. d \in Cycles(x) /\ runs'[x][d] = runs[x][d]
      BY <1>2, <2>1
    <3> QED BY <2>1, <3>1, ReviewedByRun DEF IInv
  <2> QED BY <1>1, <2>1 DEF ReviewedWasApproved, Approves, RequestOf
<1>5. ClosingsExist'
  <2>1. ASSUME NEW x \in Periods, NEW d \in Cycles(x)'
        PROVE  runs'[x][d].closeDoc \in 0 .. Len(closings)
    <3>1. CASE d \in Cycles(x)
      BY <1>2, <3>1 DEF IInv, ClosingsExist
    <3>2. CASE d \notin Cycles(x)
      <4>1. Len(closings) \in Nat
        BY DEF IInv, TypeOK
      <4> QED BY <1>2, <2>1, <3>2, <4>1
    <3> QED BY <3>1, <3>2
  <2> QED BY <1>1, <2>1 DEF ClosingsExist
<1> QED BY <1>3, <1>4, <1>5 DEF IInv

\* Reviewing keeps the invariant: only Approve makes a run reviewed, and it
\* approves the version before.
LEMMA ReviewingStep ==
  ASSUME IInv, Reviewing
  PROVE  IInv'
<1>1. TypeOK /\ TypeOK' /\ PendingMatchesRun /\ ReviewedWasApproved /\ ClosingsExist
  BY ReviewingTyped DEF IInv
<1>2. UNCHANGED closings /\ Len(closings) \in Nat
  <2>1. UNCHANGED closings
    BY ReviewingLeaves
  <2> QED BY <1>1, <2>1 DEF TypeOK
<1>3. ASSUME NEW p \in Periods, NEW c \in Cycles(p)
      PROVE  /\ runs[p][c] \in RunType /\ runs[p][c].closeDoc <= Len(closings)
             /\ Checklist(p) \in ChecklistType /\ Pack(p, Checklist(p)) \in PackType
  BY <1>1, <1>2, RunTyped, ChecklistTyped, PackTyped DEF ClosingsExist
<1>4. ASSUME NEW p \in Periods, NEW c \in Cycles(p), RefreshRun(p, c) \/ ReturnRun(p, c)
      PROVE  IInv'
  <2>1. PICK run \in RunType :
          /\ Update(p, c, run) /\ run.status = "PREPARING"
          /\ run.closeDoc = runs[p][c].closeDoc
    <3>1. CASE RefreshRun(p, c)
      <4>1. /\ [runs[p][c] EXCEPT !.checklist = Checklist(p)] \in RunType
            /\ [runs[p][c] EXCEPT !.checklist = Checklist(p)].status = "PREPARING"
            /\ [runs[p][c] EXCEPT !.checklist = Checklist(p)].closeDoc = runs[p][c].closeDoc
        BY <1>3, <3>1 DEF RefreshRun, RunType
      <4> QED BY <3>1, <4>1 DEF RefreshRun
    <3>2. CASE ReturnRun(p, c)
      <4> DEFINE run == [runs[p][c] EXCEPT !.status = "PREPARING", !.pack = NoPack]
      <4>1. run \in RunType /\ run.status = "PREPARING" /\ run.closeDoc = runs[p][c].closeDoc
        BY <1>3 DEF RunType, RunStatus
      <4> QED BY <3>2, <4>1 DEF ReturnRun
    <3> QED BY <1>4, <3>1, <3>2
  <2>2. UNCHANGED requests /\ runs[p][c].status # "AWAITING_APPROVAL"
    BY <1>4 DEF RefreshRun, ReturnRun
  <2>3. PendingMatchesRun'
    BY <1>1, <2>1, <2>2, PendingKept
  <2>4. ReviewedWasApproved'
    BY <1>1, <2>1, <2>2, ReviewedKept
  <2>5. ClosingsExist'
    BY <1>1, <1>2, <1>3, <2>1, ClosingsExistKept
  <2> QED BY <1>1, <2>3, <2>4, <2>5 DEF IInv
<1>5. ASSUME NEW p \in Periods, NEW c \in Cycles(p), NEW u \in Users, RequestApproval(p, c, u)
      PROVE  IInv'
  <2> DEFINE run == [runs[p][c] EXCEPT !.status = "AWAITING_APPROVAL",
                       !.checklist = Checklist(p), !.pack = Pack(p, Checklist(p))]
  <2>1. /\ run \in RunType /\ run.status = "AWAITING_APPROVAL"
        /\ run.closeDoc = runs[p][c].closeDoc
    BY <1>3 DEF RunType, RunStatus
  <2>2. Update(p, c, run) /\ requests \subseteq requests'
    BY <1>5 DEF RequestApproval
  <2> HIDE DEF run
  <2>3. PendingMatchesRun'
    BY <1>1, <1>5, PendingRequested
  <2>4. ReviewedWasApproved'
    BY <1>1, <2>1, <2>2, ReviewedKept
  <2>5. ClosingsExist'
    BY <1>1, <1>2, <1>3, <2>1, <2>2, ClosingsExistKept
  <2> QED BY <1>1, <2>3, <2>4, <2>5 DEF IInv
<1>6. ASSUME NEW q \in requests, NEW u \in Users, Approve(q, u) \/ Reject(q, u)
      PROVE  IInv'
  <2> DEFINE p == q.period
             c == q.cycle
             approved == [runs[p][c] EXCEPT !.status = "REVIEWED", !.checklist = Checklist(p)]
             rejected == [runs[p][c] EXCEPT !.status = "PREPARING", !.pack = NoPack]
  <2>1. p \in Periods /\ c \in Cycles(p) /\ q \in RequestType
    BY <1>1, <1>6 DEF Approve, Reject, Decide, TypeOK, RequestType, PendingMatchesRun
  <2>2. /\ runs[p][c] \in RunType /\ runs[p][c].closeDoc <= Len(closings)
        /\ Checklist(p) \in ChecklistType
    BY <1>3, <2>1
  <2>3. PICK decision \in {"APPROVED", "REJECTED"} : Decide(q, u, decision)
    BY <1>6 DEF Approve, Reject
  <2>4. /\ approved \in RunType /\ approved.status = "REVIEWED"
        /\ approved.closeDoc = runs[p][c].closeDoc
        /\ approved.version = runs[p][c].version /\ approved.pack = runs[p][c].pack
        /\ rejected \in RunType /\ rejected.status = "PREPARING"
        /\ rejected.closeDoc = runs[p][c].closeDoc
    BY <2>2 DEF RunType, RunStatus
  <2>5. \A o \in requests : o.status = "APPROVED" => o \in requests'
    BY <2>3, ApprovedKept
  <2>6. CASE Reject(q, u)
    <3>1. Update(p, c, rejected)
      BY <2>6 DEF Reject
    <3> HIDE DEF rejected, approved
    <3>2. PendingMatchesRun'
      BY <1>1, <2>3, <2>4, <3>1, PendingDecided
    <3> HIDE DEF p, c
    <3>3. ReviewedWasApproved'
      BY <1>1, <2>1, <2>4, <2>5, <3>1, ReviewedKept
    <3>4. ClosingsExist'
      BY <1>1, <1>2, <2>1, <2>2, <2>4, <3>1, ClosingsExistKept
    <3> QED BY <1>1, <3>2, <3>3, <3>4 DEF IInv
  <2>7. CASE Approve(q, u)
    <3>1. /\ Update(p, c, approved) /\ Decide(q, u, "APPROVED")
          /\ q.version = runs[p][c].version /\ q.pack = runs[p][c].pack
      BY <2>7 DEF Approve, IsSubject
    <3> HIDE DEF rejected, approved
    <3>2. PendingMatchesRun'
      BY <1>1, <2>4, <3>1, PendingDecided
    <3>3. PICK new \in requests' :
            /\ new.period = p /\ new.cycle = c /\ new.status = "APPROVED"
            /\ new.checker # new.maker /\ new.version = q.version /\ new.pack = q.pack
      <4> DEFINE decided == [q EXCEPT !.status = "APPROVED", !.checker = u]
      <4>1. decided \in requests' /\ q.maker # u
        BY <3>1 DEF Decide
      <4>2. /\ decided.period = p /\ decided.cycle = c /\ decided.status = "APPROVED"
            /\ decided.checker = u /\ decided.maker = q.maker
            /\ decided.version = q.version /\ decided.pack = q.pack
        BY <2>1 DEF RequestType
      <4> HIDE DEF decided, p, c
      <4> QED BY <4>1, <4>2
    <3> HIDE DEF p, c
    <3>4. /\ runs'[p][c].status = "REVIEWED"
          /\ runs'[p][c].version = q.version + 1 /\ runs'[p][c].pack = q.pack
      BY <1>1, <2>1, <2>4, <3>1, UpdateEffect
    <3>5. Approves(new, runs'[p][c], p, c)
      BY <3>3, <3>4 DEF Approves, RequestOf
    <3>6. ReviewedWasApproved'
      BY <1>1, <2>1, <2>4, <2>5, <3>1, <3>5, ReviewedKept
    <3>7. ClosingsExist'
      BY <1>1, <1>2, <2>1, <2>2, <2>4, <3>1, ClosingsExistKept
    <3> QED BY <1>1, <3>2, <3>6, <3>7 DEF IInv
  <2> QED BY <1>6, <2>6, <2>7
<1>7. ASSUME NEW p \in Periods, StartRun(p) PROVE IInv'
  BY <1>1, <1>7, StartKept
<1> QED BY <1>4, <1>5, <1>6, <1>7 DEF Reviewing

\* Closing and reopening: a run is closed one version after it was reviewed.
LEMMA ClosingStep ==
  ASSUME IInv, Closing
  PROVE  IInv'
<1>1. TypeOK /\ PendingMatchesRun /\ ReviewedWasApproved /\ ClosingsExist
  BY DEF IInv
<1>2. TypeOK' /\ Len(closings') \in Nat /\ Len(closings) \in Nat /\ Len(closings) <= Len(closings')
  BY <1>1, ClosingTyped DEF TypeOK
<1>3. ASSUME NEW p \in Periods, ReopenPeriod(p) PROVE IInv'
  <2>1. UNCHANGED <<runs, requests>>
    BY <1>3 DEF ReopenPeriod
  <2>2. PendingMatchesRun'
    BY <1>1, <2>1 DEF PendingMatchesRun, Cycles, IsSubject, RequestOf
  <2>3. ReviewedWasApproved'
    BY <1>1, <2>1 DEF ReviewedWasApproved, Cycles, RequestOf
  <2>4. ClosingsExist'
    BY <1>1, <1>2, <2>1 DEF ClosingsExist, Cycles
  <2> QED BY <1>2, <2>2, <2>3, <2>4 DEF IInv
<1>4. ASSUME NEW p \in Periods, NEW c \in Cycles(p), ClosePeriod(p, c) PROVE IInv'
  <2>1. runs[p][c] \in RunType /\ runs[p][c].status = "REVIEWED" /\ UNCHANGED requests
    BY <1>1, <1>4, RunTyped DEF ClosePeriod
  <2>2. PICK doc \in 0 .. Len(closings) + 1 :
          /\ AnnualClose(p, doc)
          /\ Update(p, c, [runs[p][c] EXCEPT !.status = "CLOSED", !.closeDoc = doc])
    BY <1>4 DEF ClosePeriod
  <2>3. doc <= Len(closings')
    <3>1. closings \in Seq(ClosingType)
      BY <1>1 DEF TypeOK
    <3>2. doc \in PostedClosings => doc \in 1 .. Len(closings)
      BY <3>1 DEF PostedClosings
    <3>3. doc = Len(closings) + 1 /\ closings' = Append(closings,
            [status |-> "POSTED", effect |-> [a \in Accounts |-> 0 - YearToDate(p)[a]]])
            => doc <= Len(closings')
      BY <3>1
    <3> QED BY <1>2, <2>2, <3>1, <3>2, <3>3 DEF AnnualClose, NoDocument
  <2> DEFINE run == [runs[p][c] EXCEPT !.status = "CLOSED", !.closeDoc = doc]
  <2>4. /\ run \in RunType /\ run.status = "CLOSED" /\ run.closeDoc = doc
        /\ run.version = runs[p][c].version /\ run.pack = runs[p][c].pack
    <3>1. doc \in Nat
      BY <1>2
    <3> QED BY <2>1, <3>1 DEF RunType, RunStatus
  <2>5. Update(p, c, run)
    BY <2>2
  <2> HIDE DEF run
  <2>6. PendingMatchesRun'
    BY <1>1, <2>1, <2>4, <2>5, PendingKept
  <2>7. PICK q \in requests : Approves(q, runs[p][c], p, c)
    BY <1>1, <2>1, ReviewedByRun
  <2>8. /\ runs'[p][c].status = "CLOSED" /\ runs'[p][c].version = runs[p][c].version + 1
        /\ runs'[p][c].pack = runs[p][c].pack
    BY <1>1, <2>4, <2>5, UpdateEffect
  <2>9. q.version \in Nat /\ q.version + 1 = runs[p][c].version
    BY <1>1, <2>1, <2>7 DEF Approves, TypeOK, RequestType
  <2>10. Approves(q, runs'[p][c], p, c)
    BY <2>7, <2>8, <2>9 DEF Approves
  <2>11. ReviewedWasApproved'
    BY <1>1, <2>1, <2>4, <2>5, <2>10, ReviewedKept
  <2>12. ClosingsExist'
    BY <1>1, <1>2, <2>3, <2>4, <2>5, ClosingsExistKept
  <2> QED BY <1>2, <2>6, <2>11, <2>12 DEF IInv
<1> QED BY <1>3, <1>4 DEF Closing

\* Every step keeps the invariant.
LEMMA IInvStep == IInv /\ [Next]_vars => IInv'
<1> SUFFICES ASSUME IInv, [Next]_vars PROVE IInv'
  OBVIOUS
<1>1. CASE Bookkeeping
  <2>1. UNCHANGED <<runs, requests, closings>>
    BY <1>1 DEF Bookkeeping, Draft, CancelDraft, PostDocument, ReportIssues, UpdatePeriod
  <2> QED BY <1>1, <2>1, BookkeepingTyped, QuietStep, SMTT(30) DEF IInv
<1>2. CASE Reviewing
  BY <1>2, ReviewingStep
<1>3. CASE Closing
  BY <1>3, ClosingStep
<1>4. CASE UNCHANGED vars
  <2>1. UNCHANGED <<runs, requests, closings>> /\ TypeOK'
    BY <1>4 DEF vars, IInv, TypeOK
  <2> QED BY <2>1, QuietStep
<1> QED BY <1>1, <1>2, <1>3, <1>4 DEF Next

\* The invariant holds of every reachable state.
LEMMA IInvCorrect == Spec => []IInv
BY IInvInit, IInvStep, PTL DEF Spec

(***************************************************************************)
(* The rows of the tables keep their types in every reachable state.       *)
(***************************************************************************)
THEOREM TypeCorrect == Spec => []TypeOK
<1>1. IInv => TypeOK
  BY DEF IInv
<1> QED BY IInvCorrect, <1>1, PTL

(***************************************************************************)
(* A run that awaits approval has exactly one pending request, for what    *)
(* the run is, so that decide can always be answered by a rejection at     *)
(* least: request, decide, refreshRun, returnRun, closePeriod and startRun *)
(* never part the two.                                                     *)
(***************************************************************************)
THEOREM PendingMatchesRunCorrect == Spec => []PendingMatchesRun
<1>1. IInv => PendingMatchesRun
  BY DEF IInv
<1> QED BY IInvCorrect, <1>1, PTL

(***************************************************************************)
(* closePeriod only ever closes a run in the very version, and with the    *)
(* very pack, that someone other than its maker approved.                  *)
(***************************************************************************)
THEOREM ReviewedWasApprovedCorrect == Spec => []ReviewedWasApproved
<1>1. IInv => ReviewedWasApproved
  BY DEF IInv
<1> QED BY IInvCorrect, <1>1, PTL

-----------------------------------------------------------------------------
(* What a step does to statuses, closed books and runs.                    *)

\* Nothing that a closed period was closed on changes, and no status.
BooksStep ==
  /\ UNCHANGED <<runs, closings, year>>
  /\ \A p \in Periods : period'[p].status = period[p].status
  /\ \A p \in Periods : period[p].status = "CLOSED" =>
       /\ period'[p].version = period[p].version
       /\ books'[p].docs = books[p].docs /\ books'[p].result = books[p].result

\* One run that is not closed changes, and is not closed then.
RunStep(p, c) ==
  /\ UNCHANGED <<period, year, books, closings>>
  /\ runs[p][c].status # "CLOSED" /\ runs'[p][c].status # "CLOSED"
  /\ Len(runs'[p]) = Len(runs[p])
  /\ \A d \in Cycles(p) : d # c => runs'[p][d] = runs[p][d]
  /\ \A x \in Periods : x # p => runs'[x] = runs[x]

\* The rest of the system posts to periods that are not closed.
LEMMA BookkeepingEffect ==
  ASSUME TypeOK, Bookkeeping
  PROVE  BooksStep
<1>1. UNCHANGED <<runs, closings, year>>
  BY DEF Bookkeeping, Draft, CancelDraft, PostDocument, ReportIssues, UpdatePeriod
<1>2. ASSUME NEW q \in Periods,
             \/ Draft(q) \/ CancelDraft(q) \/ \E n \in 0 .. MaxIssues : ReportIssues(q, n)
      PROVE  BooksStep
  <2>1. UNCHANGED period
    BY <1>2 DEF Draft, CancelDraft, ReportIssues
  <2>2. \A p \in Periods : books'[p].docs = books[p].docs /\ books'[p].result = books[p].result
    <3>1. books \in [Periods -> BooksType]
      BY DEF TypeOK
    <3>2. CASE Draft(q)
      BY <3>1, <3>2 DEF Draft, BooksType
    <3>3. CASE CancelDraft(q)
      BY <3>1, <3>3 DEF CancelDraft, BooksType
    <3>4. CASE \E n \in 0 .. MaxIssues : ReportIssues(q, n)
      BY <3>1, <3>4 DEF ReportIssues, BooksType
    <3> QED BY <1>2, <3>2, <3>3, <3>4
  <2> QED BY <1>1, <2>1, <2>2 DEF BooksStep
<1>3. ASSUME NEW q \in Periods, NEW effect \in Effects, NEW n \in {0, 1},
             PostDocument(q, effect, n)
      PROVE  BooksStep
  <2>1. UNCHANGED period /\ period[q].status # "CLOSED"
    BY <1>3 DEF PostDocument
  <2>2. \A p \in Periods : p # q => books'[p] = books[p]
    BY <1>3 DEF PostDocument, TypeOK
  <2> QED BY <1>1, <2>1, <2>2 DEF BooksStep
<1>4. ASSUME NEW q \in Periods, UpdatePeriod(q) PROVE BooksStep
  BY <1>1, <1>4 DEF UpdatePeriod, TypeOK, BooksStep
<1> QED BY <1>2, <1>3, <1>4 DEF Bookkeeping

\* Reviewing starts a run or changes one that is not closed.
LEMMA ReviewingEffect ==
  ASSUME TypeOK, PendingMatchesRun, Reviewing
  PROVE  \E p \in Periods : StartRun(p) \/ \E c \in Cycles(p) : RunStep(p, c)
<1>1. UNCHANGED <<period, year, books, closings>>
  BY ReviewingLeaves
<1>2. ASSUME NEW p \in Periods, NEW c \in Cycles(p), NEW run \in RunType,
             Update(p, c, run), run.status # "CLOSED", runs[p][c].status # "CLOSED"
      PROVE  RunStep(p, c)
  BY <1>1, <1>2, UpdateEffect DEF RunStep
<1>3. ASSUME NEW p \in Periods, NEW c \in Cycles(p),
             RefreshRun(p, c) \/ ReturnRun(p, c) \/ \E u \in Users : RequestApproval(p, c, u)
      PROVE  RunStep(p, c)
  <2> DEFINE pack == Pack(p, Checklist(p))
             refreshed == [runs[p][c] EXCEPT !.checklist = Checklist(p)]
             returned == [runs[p][c] EXCEPT !.status = "PREPARING", !.pack = NoPack]
             asked == [runs[p][c] EXCEPT !.status = "AWAITING_APPROVAL",
                         !.checklist = Checklist(p), !.pack = pack]
  <2>1. /\ runs[p][c] \in RunType /\ Checklist(p) \in ChecklistType /\ pack \in PackType
    BY RunTyped, ChecklistTyped, PackTyped
  <2> HIDE DEF pack
  <2>2. /\ refreshed \in RunType /\ refreshed.status = runs[p][c].status
        /\ returned \in RunType /\ returned.status = "PREPARING"
        /\ asked \in RunType /\ asked.status = "AWAITING_APPROVAL"
    BY <2>1 DEF RunType, RunStatus
  <2>3. CASE RefreshRun(p, c)
    <3>1. Update(p, c, refreshed) /\ runs[p][c].status = "PREPARING"
      BY <2>3 DEF RefreshRun
    <3> QED BY <1>2, <2>2, <3>1
  <2>4. CASE ReturnRun(p, c)
    <3>1. Update(p, c, returned) /\ runs[p][c].status = "REVIEWED"
      BY <2>4 DEF ReturnRun
    <3> QED BY <1>2, <2>2, <3>1
  <2>5. ASSUME NEW u \in Users, RequestApproval(p, c, u) PROVE RunStep(p, c)
    <3>1. Update(p, c, asked) /\ runs[p][c].status = "PREPARING"
      BY <2>5 DEF RequestApproval, pack
    <3> QED BY <1>2, <2>2, <3>1
  <2> QED BY <1>3, <2>3, <2>4, <2>5
<1>4. ASSUME NEW q \in requests, NEW u \in Users, Approve(q, u) \/ Reject(q, u)
      PROVE  \E p \in Periods : \E c \in Cycles(p) : RunStep(p, c)
  <2> DEFINE p == q.period
             c == q.cycle
             approved == [runs[p][c] EXCEPT !.status = "REVIEWED", !.checklist = Checklist(p)]
             rejected == [runs[p][c] EXCEPT !.status = "PREPARING", !.pack = NoPack]
  <2>1. p \in Periods /\ c \in Cycles(p)
    BY <1>4 DEF Approve, Reject, Decide, TypeOK, RequestType, PendingMatchesRun
  <2>2. /\ Update(p, c, approved) \/ Update(p, c, rejected)
        /\ runs[p][c].status = "AWAITING_APPROVAL"
    BY <1>4 DEF Approve, Reject, IsSubject
  <2>3. runs[p][c] \in RunType /\ Checklist(p) \in ChecklistType
    BY <2>1, RunTyped, ChecklistTyped
  <2>4. /\ approved \in RunType /\ approved.status = "REVIEWED"
        /\ rejected \in RunType /\ rejected.status = "PREPARING"
    BY <2>3 DEF RunType, RunStatus
  <2> HIDE DEF p, c, approved, rejected
  <2> QED BY <1>2, <2>1, <2>2, <2>4
<1> QED BY <1>3, <1>4 DEF Reviewing

\* What closePeriod does to the statuses, the run it closes and its pack.
LEMMA CloseEffect ==
  ASSUME TypeOK, NEW p \in Periods, NEW c \in Cycles(p), ClosePeriod(p, c)
  PROVE  /\ period'[p].status = "CLOSED" /\ period'[p].version = period[p].version + 1
         /\ \A x \in Periods : x # p => period'[x] = period[x] /\ runs'[x] = runs[x]
         /\ Len(runs'[p]) = Len(runs[p])
         /\ runs'[p][c].status = "CLOSED" /\ runs'[p][c].pack = runs[p][c].pack
         /\ AnnualClose(p, runs'[p][c].closeDoc)
         /\ \A d \in Cycles(p) : d # c => runs'[p][d] = runs[p][d]
<1>1. PICK doc \in 0 .. Len(closings) + 1 :
        /\ AnnualClose(p, doc)
        /\ Update(p, c, [runs[p][c] EXCEPT !.status = "CLOSED", !.closeDoc = doc])
  BY DEF ClosePeriod
<1> DEFINE run == [runs[p][c] EXCEPT !.status = "CLOSED", !.closeDoc = doc]
<1>2. doc \in Nat
  BY DEF TypeOK
<1>3. /\ run \in RunType /\ run.status = "CLOSED" /\ run.closeDoc = doc
      /\ run.pack = runs[p][c].pack
  BY <1>2, RunTyped DEF RunType, RunStatus
<1>4. Update(p, c, run)
  BY <1>1
<1> HIDE DEF run
<1>5. /\ Len(runs'[p]) = Len(runs[p]) /\ \A x \in Periods : x # p => runs'[x] = runs[x]
      /\ runs'[p][c].status = "CLOSED" /\ runs'[p][c].pack = runs[p][c].pack
      /\ runs'[p][c].closeDoc = doc
      /\ \A d \in Cycles(p) : d # c => runs'[p][d] = runs[p][d]
  BY <1>3, <1>4, UpdateEffect
<1>6. /\ period'[p].status = "CLOSED" /\ period'[p].version = period[p].version + 1
      /\ \A x \in Periods : x # p => period'[x] = period[x]
  BY DEF ClosePeriod, TypeOK
<1> QED BY <1>1, <1>5, <1>6

\* What reopening does to the statuses.
LEMMA ReopenEffect ==
  ASSUME TypeOK, NEW p \in Periods, ReopenPeriod(p)
  PROVE  /\ period'[p].status = "REOPENED"
         /\ \A x \in Periods : x # p => period'[x] = period[x]
BY DEF ReopenPeriod, TypeOK

-----------------------------------------------------------------------------
(* Sums over the periods and over the closing documents.                   *)

\* A net sum is determined by the values over its set.
LEMMA NetSame ==
  ASSUME NEW S, NEW f, NEW g, \A x \in S : f[x] = g[x]
  PROVE  Net(S, f) = Net(S, g)
<1>1. /\ [x \in S |-> IF f[x] > 0 THEN f[x] ELSE 0] = [x \in S |-> IF g[x] > 0 THEN g[x] ELSE 0]
      /\ [x \in S |-> IF f[x] < 0 THEN 0 - f[x] ELSE 0]
           = [x \in S |-> IF g[x] < 0 THEN 0 - g[x] ELSE 0]
  OBVIOUS
<1> QED BY <1>1 DEF Net

\* Nothing adds up to zero.
LEMMA NetEmpty ==
  ASSUME NEW f
  PROVE  Net({}, f) = 0
<1> DEFINE plus == [x \in {} |-> IF f[x] > 0 THEN f[x] ELSE 0]
           minus == [x \in {} |-> IF f[x] < 0 THEN 0 - f[x] ELSE 0]
<1> HIDE DEF plus, minus
<1>1. Total({}, plus) = 0 /\ Total({}, minus) = 0
  BY TotalZero
<1>2. Net({}, f) = Total({}, plus) - Total({}, minus)
  BY DEF Net, plus, minus
<1> QED BY <1>1, <1>2

\* The net sum of one document is what it did.
LEMMA NetOne ==
  ASSUME NEW a, NEW f, f[a] \in Int
  PROVE  Net({a}, f) = f[a]
<1> DEFINE plus == [x \in {a} |-> IF f[x] > 0 THEN f[x] ELSE 0]
           minus == [x \in {a} |-> IF f[x] < 0 THEN 0 - f[x] ELSE 0]
<1>1. /\ \A x \in {a} : plus[x] \in Nat /\ minus[x] \in Nat
      /\ plus[a] - minus[a] = f[a]
  OBVIOUS
<1>2. Net({a}, f) = Total({a}, plus) - Total({a}, minus)
  BY DEF Net
<1> HIDE DEF plus, minus
<1>3. IsFiniteSet({a}) /\ {a} \ {a} = {} /\ a \in {a}
  BY FS_Singleton
<1>4. Total({}, plus) = 0 /\ Total({}, minus) = 0
  BY TotalZero
<1>5. Total({a}, plus) = plus[a] /\ Total({a}, minus) = minus[a]
  BY <1>1, <1>3, <1>4, TotalSplit
<1> QED BY <1>1, <1>2, <1>5

\* A year to date depends on the periods up to it alone.
LEMMA YearToDateSame ==
  ASSUME NEW p \in Periods, \A q \in 1 .. p : books'[q].result = books[q].result
  PROVE  YearToDate(p)' = YearToDate(p)
<1>1. ASSUME NEW a \in Accounts
      PROVE  Net(1 .. p, [q \in Periods |-> books'[q].result[a]])
               = Net(1 .. p, [q \in Periods |-> books[q].result[a]])
  <2> DEFINE f == [q \in Periods |-> books'[q].result[a]]
             g == [q \in Periods |-> books[q].result[a]]
  <2>1. \A q \in 1 .. p : q \in Periods
    BY CloseAssumption DEF Periods
  <2>2. \A q \in 1 .. p : f[q] = g[q]
    BY <2>1
  <2> HIDE DEF f, g
  <2>3. Net(1 .. p, f) = Net(1 .. p, g)
    BY <2>2, NetSame
  <2> QED BY <2>3 DEF f, g
<1> QED BY <1>1 DEF YearToDate

\* The class totals depend on the balances alone.
LEMMA ClassTotalsSame ==
  ASSUME NEW p \in Periods, YearToDate(p)' = YearToDate(p)
  PROVE  ClassTotals(p)' = ClassTotals(p)
BY DEF ClassTotals

-----------------------------------------------------------------------------
(* One live run, and the order of the closed periods.                      *)

\* Every step keeps the last run of a period the only one that is live.
LEMMA OneLiveRunStep ==
  ASSUME IInv, OneLiveRun, [Next]_vars
  PROVE  OneLiveRun'
<1>1. TypeOK /\ PendingMatchesRun /\ \A p \in Periods : Len(runs[p]) \in Nat
  BY DEF IInv, TypeOK
<1>2. CASE Bookkeeping
  BY <1>1, <1>2, BookkeepingEffect DEF BooksStep, OneLiveRun, Cycles
<1>3. ASSUME NEW p \in Periods, StartRun(p) PROVE OneLiveRun'
  <2>1. /\ period[p].status # "CLOSED" /\ UNCHANGED period
        /\ runs[p] # <<>> => Latest(p).status = "CLOSED"
    BY <1>3 DEF StartRun
  <2>2. /\ \A d \in Cycles(p) : runs'[p][d] = runs[p][d]
        /\ Len(runs'[p]) = Len(runs[p]) + 1
        /\ \A x \in Periods : x # p => runs'[x] = runs[x]
    BY <1>1, <1>3, StartEffect
  <2>3. \A d \in Cycles(p) : runs[p][d].status = "CLOSED"
    <3> SUFFICES ASSUME NEW d \in Cycles(p), runs[p][d].status # "CLOSED" PROVE FALSE
      OBVIOUS
    <3>1. d = Len(runs[p]) /\ runs[p] # <<>>
      BY <1>1 DEF OneLiveRun, Cycles
    <3> QED BY <2>1, <3>1 DEF Latest
  <2>4. \A d \in 1 .. Len(runs[p]) + 1 : d \in Cycles(p) \/ d = Len(runs[p]) + 1
    BY <1>1 DEF Cycles
  <2> QED BY <1>1, <2>1, <2>2, <2>3, <2>4 DEF OneLiveRun, Cycles
<1>4. ASSUME NEW p \in Periods, NEW c \in Cycles(p), RunStep(p, c) PROVE OneLiveRun'
  BY <1>1, <1>4 DEF RunStep, OneLiveRun, Cycles
<1>5. ASSUME NEW p \in Periods, NEW c \in Cycles(p), ClosePeriod(p, c) PROVE OneLiveRun'
  <2>1. runs[p][c].status # "CLOSED"
    BY <1>5 DEF ClosePeriod
  <2>2. c = Len(runs[p])
    BY <2>1 DEF OneLiveRun
  <2>3. \A d \in Cycles(p) : d # c => runs[p][d].status = "CLOSED"
    BY <2>2 DEF OneLiveRun
  <2>4. /\ \A x \in Periods : x # p => period'[x] = period[x] /\ runs'[x] = runs[x]
        /\ Len(runs'[p]) = Len(runs[p]) /\ runs'[p][c].status = "CLOSED"
        /\ \A d \in Cycles(p) : d # c => runs'[p][d] = runs[p][d]
    BY <1>1, <1>5, CloseEffect
  <2>5. \A d \in Cycles(p) : runs'[p][d].status = "CLOSED"
    BY <2>3, <2>4
  <2> QED BY <2>4, <2>5 DEF OneLiveRun, Cycles
<1>6. ASSUME NEW p \in Periods, ReopenPeriod(p) PROVE OneLiveRun'
  <2>1. UNCHANGED runs
    BY <1>6 DEF ReopenPeriod
  <2> QED BY <1>1, <1>6, <2>1, ReopenEffect DEF OneLiveRun, Cycles
<1>7. CASE UNCHANGED vars
  BY <1>7 DEF vars, OneLiveRun, Cycles
<1> QED BY <1>1, <1>2, <1>3, <1>4, <1>5, <1>6, <1>7, ReviewingEffect DEF Next, Closing

\* Every step keeps the closed periods a beginning of the year.
LEMMA YearFollowsStep ==
  ASSUME IInv, YearFollowsPeriods, [Next]_vars
  PROVE  YearFollowsPeriods'
<1>1. TypeOK /\ PendingMatchesRun /\ NPeriods \in Nat \ {0}
  BY CloseAssumption DEF IInv
<1>2. CASE Bookkeeping
  BY <1>1, <1>2, BookkeepingEffect DEF BooksStep, YearFollowsPeriods
<1>3. CASE Reviewing
  <2>1. UNCHANGED <<period, year>>
    BY <1>3, ReviewingLeaves
  <2> QED BY <2>1 DEF YearFollowsPeriods
<1>4. ASSUME NEW p \in Periods, NEW c \in Cycles(p), ClosePeriod(p, c)
      PROVE  YearFollowsPeriods'
  <2>1. /\ period'[p].status = "CLOSED"
        /\ \A x \in Periods : x # p => period'[x] = period[x]
    BY <1>1, <1>4, CloseEffect
  <2>2. /\ period[p].status # "CLOSED" /\ \A q \in 1 .. p - 1 : period[q].status = "CLOSED"
        /\ year' = IF \A q \in Periods : period'[q].status = "CLOSED" THEN "CLOSED" ELSE year
    BY <1>4 DEF ClosePeriod, EarlierOpen
  <2>3. year # "CLOSED"
    BY <2>2 DEF YearFollowsPeriods
  <2>4. ASSUME NEW x \in Periods, NEW y \in Periods, x < y, period'[y].status = "CLOSED"
        PROVE  period'[x].status = "CLOSED"
    <3>1. CASE y = p
      <4>1. x \in 1 .. p - 1
        BY <1>1, <2>4, <3>1 DEF Periods
      <4> QED BY <2>1, <2>2, <4>1
    <3>2. CASE y # p
      BY <2>1, <2>4, <3>2 DEF YearFollowsPeriods
    <3> QED BY <3>1, <3>2
  <2> QED BY <2>2, <2>3, <2>4 DEF YearFollowsPeriods
<1>5. ASSUME NEW p \in Periods, ReopenPeriod(p) PROVE YearFollowsPeriods'
  <2>1. /\ period'[p].status # "CLOSED"
        /\ \A x \in Periods : x # p => period'[x] = period[x]
    BY <1>1, <1>5, ReopenEffect
  <2>2. year' = "OPEN" /\ \A q \in p + 1 .. NPeriods : period[q].status # "CLOSED"
    BY <1>5 DEF ReopenPeriod
  <2>3. ASSUME NEW x \in Periods, NEW y \in Periods, x < y, period'[y].status = "CLOSED"
        PROVE  period'[x].status = "CLOSED"
    <3>1. y # p /\ period[y].status = "CLOSED"
      BY <2>1, <2>3
    <3>2. x # p
      BY <1>1, <2>2, <2>3, <3>1 DEF Periods
    <3> QED BY <2>1, <2>3, <3>1, <3>2 DEF YearFollowsPeriods
  <2> QED BY <2>1, <2>2, <2>3 DEF YearFollowsPeriods
<1>6. CASE UNCHANGED vars
  BY <1>6 DEF vars, YearFollowsPeriods
<1> QED BY <1>2, <1>3, <1>4, <1>5, <1>6 DEF Next, Closing

-----------------------------------------------------------------------------
(* What a closed period was closed on, and the annual closing entry.       *)

\* A closed period was closed on what its last run was approved with.
ClosedOnPack(p) ==
  /\ runs[p] # <<>> /\ Latest(p).status = "CLOSED"
  /\ Latest(p).pack.yearToDate = ClassTotals(p)
  /\ Latest(p).pack.checklist.version + 1 = period[p].version
  /\ p # YearEnd => Latest(p).pack.documents = books[p].docs

\* The statement of ClosedBooksWereApproved, period by period.
LEMMA ClosedByPeriod ==
  ClosedBooksWereApproved <=> \A p \in Periods : period[p].status = "CLOSED" => ClosedOnPack(p)
BY DEF ClosedBooksWereApproved, ClosedOnPack

\* Every step leaves what a period that stays closed was closed on.
LEMMA ClosedStays ==
  ASSUME IInv, OneLiveRun, YearFollowsPeriods, [Next]_vars,
         NEW p \in Periods, period[p].status = "CLOSED", period'[p].status = "CLOSED"
  PROVE  /\ YearToDate(p)' = YearToDate(p) /\ runs'[p] = runs[p]
         /\ period'[p].version = period[p].version /\ books'[p].docs = books[p].docs
<1>1. TypeOK /\ PendingMatchesRun /\ \A x \in Periods : Len(runs[x]) \in Nat
  BY DEF IInv, TypeOK
<1>2. CASE Bookkeeping
  <2>1. BooksStep
    BY <1>1, <1>2, BookkeepingEffect
  <2>2. ASSUME NEW q \in 1 .. p PROVE books'[q].result = books[q].result
    <3>1. q \in Periods /\ (q < p \/ q = p)
      BY CloseAssumption DEF Periods
    <3>2. period[q].status = "CLOSED"
      BY <3>1 DEF YearFollowsPeriods
    <3> QED BY <2>1, <3>1, <3>2 DEF BooksStep
  <2>3. YearToDate(p)' = YearToDate(p)
    BY <2>2, YearToDateSame
  <2> QED BY <2>1, <2>3 DEF BooksStep
<1>3. CASE UNCHANGED books /\ period'[p] = period[p] /\ runs'[p] = runs[p]
  <2>1. YearToDate(p)' = YearToDate(p)
    BY <1>3, YearToDateSame
  <2> QED BY <1>3, <2>1
<1>4. ASSUME NEW q \in Periods, StartRun(q)
      PROVE  UNCHANGED books /\ period'[p] = period[p] /\ runs'[p] = runs[p]
  <2>1. q # p /\ UNCHANGED <<books, period>>
    BY <1>4 DEF StartRun
  <2> QED BY <1>1, <1>4, <2>1, StartEffect
<1>5. ASSUME NEW q \in Periods, NEW c \in Cycles(q), RunStep(q, c)
      PROVE  UNCHANGED books /\ period'[p] = period[p] /\ runs'[p] = runs[p]
  <2>1. q # p
    BY <1>5 DEF RunStep, OneLiveRun
  <2> QED BY <1>5, <2>1 DEF RunStep
<1>6. ASSUME NEW q \in Periods, NEW c \in Cycles(q), ClosePeriod(q, c)
      PROVE  UNCHANGED books /\ period'[p] = period[p] /\ runs'[p] = runs[p]
  <2>1. q # p /\ UNCHANGED books
    BY <1>6 DEF ClosePeriod
  <2> QED BY <1>1, <1>6, <2>1, CloseEffect
<1>7. ASSUME NEW q \in Periods, ReopenPeriod(q)
      PROVE  UNCHANGED books /\ period'[p] = period[p] /\ runs'[p] = runs[p]
  <2>1. UNCHANGED <<books, runs>>
    BY <1>7 DEF ReopenPeriod
  <2>2. q # p /\ \A x \in Periods : x # q => period'[x] = period[x]
    BY <1>1, <1>7, ReopenEffect
  <2> QED BY <2>1, <2>2
<1>8. CASE UNCHANGED vars
  BY <1>3, <1>8 DEF vars
<1> QED BY <1>1, <1>2, <1>3, <1>4, <1>5, <1>6, <1>7, <1>8, ReviewingEffect DEF Next, Closing

\* A period that a step closes is closed on the pack of the run it closes,
\* which is its last.
LEMMA ClosedNow ==
  ASSUME IInv, OneLiveRun, NEW p \in Periods, NEW c \in Cycles(p), ClosePeriod(p, c)
  PROVE  /\ ClosedOnPack(p)' /\ YearToDate(p)' = YearToDate(p)
         /\ AnnualClose(p, Latest(p).closeDoc')
<1>1. TypeOK /\ Len(runs[p]) \in Nat /\ runs[p] \in Seq(RunType)
  BY DEF IInv, TypeOK
<1>2. /\ runs[p][c].status # "CLOSED" /\ UNCHANGED books
      /\ runs[p][c].pack = Pack(p, Checklist(p))
  BY DEF ClosePeriod, AsReviewed
<1>3. c = Len(runs[p]) /\ c >= 1
  BY <1>1, <1>2 DEF OneLiveRun, Cycles
<1>4. /\ period'[p].version = period[p].version + 1
      /\ Len(runs'[p]) = Len(runs[p])
      /\ runs'[p][c].status = "CLOSED" /\ runs'[p][c].pack = runs[p][c].pack
      /\ AnnualClose(p, runs'[p][c].closeDoc)
  BY <1>1, CloseEffect
<1>5. YearToDate(p)' = YearToDate(p) /\ ClassTotals(p)' = ClassTotals(p)
  BY <1>2, YearToDateSame, ClassTotalsSame
<1>6. /\ runs[p][c].pack.yearToDate = ClassTotals(p)
      /\ runs[p][c].pack.checklist.version = period[p].version
      /\ p # YearEnd => runs[p][c].pack.documents = books[p].docs
  <2>1. books[p].docs \in Nat
    BY <1>1 DEF TypeOK, BooksType
  <2> QED BY <1>2, <2>1 DEF Pack, Checklist
<1>7. runs'[p] # <<>>
  BY <1>1, <1>3, <1>4
<1> QED BY <1>2, <1>3, <1>4, <1>5, <1>6, <1>7 DEF ClosedOnPack, Latest

\* Every step keeps the closed periods closed on what was approved.
LEMMA ClosedBooksStep ==
  ASSUME IInv, OneLiveRun, YearFollowsPeriods, ClosedBooksWereApproved, [Next]_vars
  PROVE  ClosedBooksWereApproved'
<1> SUFFICES ASSUME NEW p \in Periods, period'[p].status = "CLOSED" PROVE ClosedOnPack(p)'
  BY DEF ClosedBooksWereApproved, ClosedOnPack
<1>1. CASE period[p].status = "CLOSED"
  <2>1. ClosedOnPack(p)
    BY <1>1, ClosedByPeriod
  <2>2. /\ YearToDate(p)' = YearToDate(p) /\ runs'[p] = runs[p]
        /\ period'[p].version = period[p].version /\ books'[p].docs = books[p].docs
    BY <1>1, ClosedStays
  <2>3. ClassTotals(p)' = ClassTotals(p)
    BY <2>2, ClassTotalsSame
  <2> QED BY <2>1, <2>2, <2>3 DEF ClosedOnPack, Latest
<1>2. CASE period[p].status # "CLOSED"
  <2>1. TypeOK /\ PendingMatchesRun
    BY DEF IInv
  <2>2. ~ Bookkeeping
    BY <1>2, <2>1, BookkeepingEffect DEF BooksStep
  <2>3. ~ Reviewing
    BY <1>2, ReviewingLeaves
  <2>4. \A q \in Periods : ~ ReopenPeriod(q)
    BY <1>2, <2>1, ReopenEffect
  <2>5. PICK q \in Periods : \E c \in Cycles(q) : ClosePeriod(q, c)
    BY <1>2, <2>2, <2>3, <2>4 DEF Next, Closing, vars
  <2>6. q = p
    BY <1>2, <2>1, <2>5, CloseEffect
  <2> QED BY <2>5, <2>6, ClosedNow
<1> QED BY <1>1, <1>2

NoneReversed == \A k \in DOMAIN closings : closings[k].status # "REVERSED"

(***************************************************************************)
(* While none was reversed there is at most one closing document, and it   *)
(* is there exactly while the last period is closed on a year to date that *)
(* is not zero: posted by the last run, which names it, and opposite.      *)
(***************************************************************************)
ClosingEntry ==
  NoneReversed =>
    \/ /\ closings = <<>>
       /\ period[YearEnd].status = "CLOSED" => \A a \in Accounts : YearToDate(YearEnd)[a] = 0
    \/ /\ Len(closings) = 1
       /\ period[YearEnd].status = "CLOSED"
       /\ Latest(YearEnd).closeDoc = 1
       /\ \A a \in Accounts : closings[1].effect[a] = 0 - YearToDate(YearEnd)[a]

\* A step that leaves the closing documents and keeps the last period as it is.
LEMMA ClosingEntryKept ==
  ASSUME IInv, OneLiveRun, YearFollowsPeriods, ClosingEntry, [Next]_vars,
         UNCHANGED closings, period'[YearEnd].status = period[YearEnd].status
  PROVE  ClosingEntry'
<1>1. YearEnd \in Periods
  BY CloseAssumption DEF YearEnd, Periods
<1>2. CASE period[YearEnd].status = "CLOSED"
  <2>1. YearToDate(YearEnd)' = YearToDate(YearEnd) /\ runs'[YearEnd] = runs[YearEnd]
    BY <1>1, <1>2, ClosedStays
  <2> QED BY <2>1 DEF ClosingEntry, NoneReversed, Latest
<1>3. CASE period[YearEnd].status # "CLOSED"
  BY <1>3 DEF ClosingEntry, NoneReversed
<1> QED BY <1>2, <1>3

\* Closing the last period posts the one closing document.
LEMMA ClosingEntryClosed ==
  ASSUME IInv, OneLiveRun, ClosingEntry, NEW c \in Cycles(YearEnd), ClosePeriod(YearEnd, c)
  PROVE  ClosingEntry'
<1>1. TypeOK /\ YearEnd \in Periods
  BY CloseAssumption DEF IInv, YearEnd, Periods
<1>2. /\ YearToDate(YearEnd)' = YearToDate(YearEnd)
      /\ AnnualClose(YearEnd, Latest(YearEnd).closeDoc')
  BY <1>1, ClosedNow
<1>3. period[YearEnd].status # "CLOSED" /\ period'[YearEnd].status = "CLOSED"
  BY <1>1, CloseEffect DEF ClosePeriod
<1>4. CASE ~ NoneReversed
  <2>1. PICK k \in DOMAIN closings : closings[k].status = "REVERSED"
    BY <1>4 DEF NoneReversed
  <2>2. closings \in Seq(ClosingType)
    BY <1>1 DEF TypeOK
  <2>3. k \in DOMAIN closings' /\ closings'[k].status = "REVERSED"
    BY <1>2, <2>1, <2>2 DEF AnnualClose
  <2> QED BY <2>3 DEF ClosingEntry, NoneReversed
<1>5. CASE NoneReversed
  <2>1. closings = <<>>
    BY <1>3, <1>5 DEF ClosingEntry
  <2>2. Len(closings) = 0 /\ PostedClosings = {}
    BY <2>1 DEF PostedClosings
  <2> DEFINE entry == [status |-> "POSTED",
                       effect |-> [a \in Accounts |-> 0 - YearToDate(YearEnd)[a]]]
  <2>3. CASE UNCHANGED closings /\ \A a \in Accounts : YearToDate(YearEnd)[a] = 0
    BY <1>2, <2>1, <2>3 DEF ClosingEntry
  <2>4. CASE closings' = Append(closings, entry) /\ Latest(YearEnd).closeDoc' = Len(closings) + 1
    <3>1. Len(closings') = 1 /\ closings'[1] = entry
      BY <2>1, <2>4
    <3>2. \A a \in Accounts : entry.effect[a] = 0 - YearToDate(YearEnd)[a]
      OBVIOUS
    <3>3. Latest(YearEnd)'.closeDoc = 1
      BY <2>2, <2>4
    <3> QED BY <1>2, <1>3, <3>1, <3>2, <3>3 DEF ClosingEntry
  <2> QED BY <1>2, <2>2, <2>3, <2>4 DEF AnnualClose
<1> QED BY <1>4, <1>5

\* A reversed closing document stays marked as reversed.
LEMMA ReverseMarks ==
  ASSUME TypeOK, NEW k \in DOMAIN closings, ReverseClosing(k)
  PROVE  ~ NoneReversed'
<1> DEFINE row == [closings[k] EXCEPT !.status = "REVERSED"]
           marked == [closings EXCEPT ![k] = row]
           opposite == [status |-> "POSTED",
                        effect |-> [a \in Accounts |-> 0 - closings[k].effect[a]]]
<1>1. closings \in Seq(ClosingType) /\ closings[k] \in ClosingType
  BY DEF TypeOK
<1>2. row \in ClosingType /\ row.status = "REVERSED"
  BY <1>1 DEF ClosingType
<1>3. closings' = Append(marked, opposite)
  BY DEF ReverseClosing
<1> HIDE DEF row, opposite
<1>4. marked \in Seq(ClosingType) /\ Len(marked) = Len(closings) /\ marked[k] = row
  BY <1>1, <1>2
<1> HIDE DEF marked
<1>5. k \in 1 .. Len(marked)
  BY <1>1, <1>4
<1>6. k \in DOMAIN closings' /\ closings'[k] = row
  BY <1>3, <1>4, <1>5
<1> QED BY <1>2, <1>6 DEF NoneReversed

\* Reopening reverses the closing document if there is one.
LEMMA ClosingEntryReopened ==
  ASSUME IInv, OneLiveRun, YearFollowsPeriods, ClosedBooksWereApproved, ClosingEntry,
         [Next]_vars, NEW p \in Periods, ReopenPeriod(p)
  PROVE  ClosingEntry'
<1>1. /\ TypeOK /\ ClosingsExist /\ YearEnd \in Periods
      /\ closings \in Seq(ClosingType) /\ runs[p] \in Seq(RunType)
  BY CloseAssumption DEF IInv, YearEnd, Periods, TypeOK
<1>2. /\ period[p].status = "CLOSED" /\ UndoClose(p) /\ UNCHANGED <<runs, books>>
      /\ period'[p].status # "CLOSED" /\ \A x \in Periods : x # p => period'[x] = period[x]
  BY <1>1, ReopenEffect DEF ReopenPeriod
<1>3. ASSUME NEW c \in ClosedCycles(p), runs[p][c].closeDoc # NoDocument,
             ReverseClosing(runs[p][c].closeDoc)
      PROVE  ClosingEntry'
  <2>1. runs[p][c].closeDoc \in DOMAIN closings
    BY <1>1, <1>3 DEF ClosedCycles, ClosingsExist, NoDocument
  <2> QED BY <1>1, <1>3, <2>1, ReverseMarks DEF ClosingEntry
<1>4. ASSUME UNCHANGED closings,
             \A c \in ClosedCycles(p) :
               runs[p][c].closeDoc # NoDocument => \E d \in ClosedCycles(p) : d > c
      PROVE  ClosingEntry'
  <2>1. CASE p # YearEnd
    BY <1>1, <1>2, <1>4, <2>1, ClosingEntryKept
  <2>2. CASE p = YearEnd
    <3>1. Latest(p).closeDoc # 1
      <4> SUFFICES ASSUME Latest(p).closeDoc = 1 PROVE FALSE
        OBVIOUS
      <4>1. runs[p] # <<>> /\ Latest(p).status = "CLOSED"
        BY <1>2, ClosedByPeriod DEF ClosedOnPack
      <4>2. Len(runs[p]) \in ClosedCycles(p)
        BY <1>1, <4>1 DEF ClosedCycles, Cycles, Latest
      <4>3. PICK d \in ClosedCycles(p) : d > Len(runs[p])
        BY <1>4, <4>2 DEF Latest, NoDocument
      <4> QED BY <1>1, <4>3 DEF ClosedCycles, Cycles
    <3>2. NoneReversed => closings = <<>>
      BY <2>2, <3>1 DEF ClosingEntry
    <3> QED BY <1>2, <1>4, <2>2, <3>2 DEF ClosingEntry, NoneReversed
  <2> QED BY <2>1, <2>2
<1> QED BY <1>2, <1>3, <1>4 DEF UndoClose

\* Every step keeps the closing entry with the close of the last period.
LEMMA ClosingEntryStep ==
  ASSUME IInv, OneLiveRun, YearFollowsPeriods, ClosedBooksWereApproved, ClosingEntry,
         [Next]_vars
  PROVE  ClosingEntry'
<1>1. TypeOK /\ PendingMatchesRun /\ YearEnd \in Periods
  BY CloseAssumption DEF IInv, YearEnd, Periods
<1>2. CASE UNCHANGED closings /\ period'[YearEnd].status = period[YearEnd].status
  BY <1>2, ClosingEntryKept
<1>3. CASE Bookkeeping
  BY <1>1, <1>2, <1>3, BookkeepingEffect DEF BooksStep
<1>4. CASE Reviewing
  <2>1. UNCHANGED <<period, closings>>
    BY <1>4, ReviewingLeaves
  <2> QED BY <1>2, <2>1
<1>5. ASSUME NEW p \in Periods, NEW c \in Cycles(p), ClosePeriod(p, c) PROVE ClosingEntry'
  <2>1. CASE p = YearEnd
    BY <1>5, <2>1, ClosingEntryClosed
  <2>2. CASE p # YearEnd
    <3>1. UNCHANGED closings
      BY <1>5, <2>2 DEF ClosePeriod, AnnualClose
    <3>2. period'[YearEnd] = period[YearEnd]
      BY <1>1, <1>5, <2>2, CloseEffect
    <3> QED BY <1>2, <3>1, <3>2
  <2> QED BY <2>1, <2>2
<1>6. ASSUME NEW p \in Periods, ReopenPeriod(p) PROVE ClosingEntry'
  BY <1>6, ClosingEntryReopened
<1>7. CASE UNCHANGED vars
  BY <1>2, <1>7 DEF vars
<1> QED BY <1>3, <1>4, <1>5, <1>6, <1>7 DEF Next, Closing

-----------------------------------------------------------------------------
(* The invariant of the close.                                             *)

CloseInv ==
  /\ IInv
  /\ OneLiveRun
  /\ YearFollowsPeriods
  /\ ClosedBooksWereApproved
  /\ ClosingEntry

\* The invariant holds initially.
LEMMA CloseInvInit == Init => CloseInv
<1> SUFFICES ASSUME Init PROVE CloseInv
  OBVIOUS
<1>1. /\ \A p \in Periods : period[p].status = "OPEN" /\ Cycles(p) = {}
      /\ year = "OPEN" /\ closings = <<>> /\ 1 \in Periods /\ YearEnd \in Periods
  BY CloseAssumption DEF Init, Cycles, Periods, YearEnd
<1> QED BY <1>1, IInvInit
        DEF CloseInv, OneLiveRun, YearFollowsPeriods, ClosedBooksWereApproved, ClosingEntry

\* The invariant holds of every reachable state.
LEMMA CloseInvCorrect == Spec => []CloseInv
<1>1. CloseInv /\ [Next]_vars => CloseInv'
  BY IInvStep, OneLiveRunStep, YearFollowsStep, ClosedBooksStep, ClosingEntryStep DEF CloseInv
<1> QED BY CloseInvInit, <1>1, PTL DEF Spec

(***************************************************************************)
(* However startRun, closePeriod and reopenPeriod follow each other, a     *)
(* period has at most one run that is not closed, its last, and none while *)
(* the period is closed.                                                   *)
(***************************************************************************)
THEOREM OneLiveRunCorrect == Spec => []OneLiveRun
<1>1. CloseInv => OneLiveRun
  BY DEF CloseInv
<1> QED BY CloseInvCorrect, <1>1, PTL

(***************************************************************************)
(* The closed periods are always a beginning of the year, and the year is  *)
(* closed exactly when all of them are: closePeriod looks at the earlier   *)
(* periods, reopenPeriod at the later ones.                                *)
(***************************************************************************)
THEOREM YearFollowsPeriodsCorrect == Spec => []YearFollowsPeriods
<1>1. CloseInv => YearFollowsPeriods
  BY DEF CloseInv
<1> QED BY CloseInvCorrect, <1>1, PTL

(***************************************************************************)
(* A closed period keeps the revenue and the expense of the year to date,  *)
(* the checklist's version and the count of documents its last run was     *)
(* approved with: closePeriod compares the pack again, and while it stands *)
(* closed nothing posts to it or to an earlier period, for those are       *)
(* closed too (YearFollowsPeriods).                                        *)
(***************************************************************************)
THEOREM ClosedBooksWereApprovedCorrect == Spec => []ClosedBooksWereApproved
<1>1. CloseInv => ClosedBooksWereApproved
  BY DEF CloseInv
<1> QED BY CloseInvCorrect, <1>1, PTL

(***************************************************************************)
(* Up to the first reversal of a closing document, it stands exactly with  *)
(* the close of the last period, and brings every result account to zero.  *)
(***************************************************************************)
THEOREM FirstCloseEntryCorrect == Spec => []FirstCloseEntryStandsWithClose
<1>1. CloseInv => FirstCloseEntryStandsWithClose
  <2> SUFFICES ASSUME CloseInv, NoneReversed, NEW a \in Accounts
               PROVE  IF period[YearEnd].status = "CLOSED"
                      THEN YearToDate(YearEnd)[a] + ClosingEffect(a) = 0
                      ELSE ClosingEffect(a) = 0
    BY DEF FirstCloseEntryStandsWithClose, CloseEntryStandsWithClose, NoneReversed
  <2>1. ClosingEntry /\ TypeOK /\ YearEnd \in Periods
    BY CloseAssumption DEF CloseInv, IInv, YearEnd, Periods
  <2>2. YearToDate(YearEnd)[a] \in Int
    BY <2>1, YearToDateTyped DEF Balances
  <2> DEFINE done == [k \in DOMAIN closings |-> closings[k].effect[a]]
  <2>3. ClosingEffect(a) = Net(DOMAIN closings, done)
    BY DEF ClosingEffect
  <2>4. CASE closings = <<>>
    <3>1. DOMAIN closings = {}
      BY <2>4
    <3> HIDE DEF done
    <3>2. ClosingEffect(a) = 0
      BY <2>3, <3>1, NetEmpty
    <3>3. period[YearEnd].status = "CLOSED" => YearToDate(YearEnd)[a] = 0
      BY <2>1, <2>4 DEF ClosingEntry
    <3> QED BY <3>2, <3>3
  <2>5. CASE closings # <<>>
    <3>1. /\ Len(closings) = 1 /\ period[YearEnd].status = "CLOSED"
          /\ closings[1].effect[a] = 0 - YearToDate(YearEnd)[a]
      BY <2>1, <2>5 DEF ClosingEntry
    <3>2. closings \in Seq(ClosingType)
      BY <2>1 DEF TypeOK
    <3>3. DOMAIN closings = {1}
      BY <3>1, <3>2
    <3>4. done[1] = 0 - YearToDate(YearEnd)[a] /\ done[1] \in Int
      BY <2>2, <3>1, <3>3
    <3> HIDE DEF done
    <3>5. ClosingEffect(a) = 0 - YearToDate(YearEnd)[a]
      BY <2>3, <3>3, <3>4, NetOne
    <3> QED BY <2>2, <3>1, <3>5
  <2> QED BY <2>4, <2>5
<1> QED BY CloseInvCorrect, <1>1, PTL

=============================================================================
