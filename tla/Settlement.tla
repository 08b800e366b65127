----------------------------- MODULE Settlement -----------------------------
(***************************************************************************)
(* Sales invoices, credit notes and receipts of one company, customer and  *)
(* currency: the fiscal periods they are dated in, the receivable items    *)
(* they settle, and the receivable control account they post to.           *)
(*                                                                         *)
(* Sources: sales/sales-invoice-service.ts, receipts/receipt-service.ts,   *)
(* receivables/receivable-item-service.ts, core-accounting/                *)
(* posting-engine.ts and fiscal/fiscal-service.ts under apps/api/src.      *)
(*                                                                         *)
(* Every command is one database transaction at isolation Serializable     *)
(* (cancel runs at the default level, on one compare-and-set), so a        *)
(* command is one action.  What interleaves is the commands themselves:    *)
(* drafts are written against what was outstanding then, and are posted,   *)
(* reversed, edited or cancelled in any later order, by anybody, while     *)
(* periods close and reopen.  A command carries the version its user read; *)
(* a stale one is refused.                                                 *)
(*                                                                         *)
(* Amounts are whole numbers of minor units.  A date is the period that    *)
(* contains it.  Documents have one or two lines, so that their base total *)
(* is a sum of rounded lines, as in the code.                              *)
(***************************************************************************)
EXTENDS Integers, FiniteSets, Totals

CONSTANTS
  Invoices, CreditNotes, Receipts,   \* documents that may ever be created
  NPeriods,      \* fiscal periods, in date order
  Amounts,       \* amounts a draft may carry
  Rates,         \* exchange rates, as multiples of 1 / RateScale
  RateScale,
  MaxVersion,    \* bound on the optimistic version of a document
  MaxReopen      \* bound on the version of a period

Docs == Invoices \cup CreditNotes \cup Receipts
Periods == 1 .. NPeriods

ASSUME DocumentsAssumption ==
  /\ IsFiniteSet(Invoices) /\ IsFiniteSet(CreditNotes) /\ IsFiniteSet(Receipts)
  /\ Invoices \cap CreditNotes = {}
  /\ Invoices \cap Receipts = {}
  /\ CreditNotes \cap Receipts = {}

ASSUME NumbersAssumption ==
  /\ NPeriods \in Nat \ {0} /\ MaxVersion \in Nat /\ MaxReopen \in Nat
  /\ Amounts \subseteq Nat \ {0}
  /\ Rates \subseteq Nat \ {0}
  /\ RateScale \in Nat \ {0}

VARIABLES
  periods,   \* fiscal_periods of one fiscal year: status and version
  year,      \* fiscal_years.status of that year
  docs,      \* accounting_documents: status, period of the date, version
  invoice,   \* sales_invoices of type SALES_INVOICE: total and exchange rate
  note,      \* sales_invoices of type SALES_CREDIT_NOTE: total, base total, source invoice
  receipt,   \* receipt_allocations: amount and carrying base amount per invoice's item
  items,     \* receivable_items, by the invoice each belongs to
  journal    \* the posted lines on the receivable control account, debit positive

vars == <<periods, year, docs, invoice, note, receipt, items, journal>>

PeriodStatus == {"OPEN", "CLOSED", "REOPENED"}
DocStatus == {"NONE", "DRAFT", "POSTED", "CANCELLED", "REVERSED"}
ItemStatus == {"NONE", "OPEN", "PARTIAL", "SETTLED", "REVERSED"}

NoInvoice == "NO_INVOICE"   \* source_invoice_id of a credit note not yet written

\* The rows of the tables.
PeriodType == [status : PeriodStatus, version : Nat]
DocType == [status : DocStatus, period : {0} \cup Periods, version : Nat]
InvoiceType == [total : Nat, rate : Nat]
NoteType == [total : Nat, base : Nat, source : Invoices \cup {NoInvoice}]
ReceiptType == [alloc : [Invoices -> Nat], carrying : [Invoices -> Nat]]
ItemType == [status : ItemStatus, original : Nat, outstanding : Nat,
             originalBase : Nat, outstandingBase : Nat]
LineType == [doc : Docs, kind : {"POSTING", "REVERSAL"}, period : Periods, amount : Int]

NoItem == [status |-> "NONE", original |-> 0, outstanding |-> 0,
           originalBase |-> 0, outstandingBase |-> 0]

-----------------------------------------------------------------------------
(* Arithmetic.                                                             *)

\* toDecimalPlaces(4, ROUND_HALF_UP) of the quotient of two non-negative numbers.
HalfUp(num, den) == (2 * num + den) \div (2 * den)

BaseOf(amount, rate) == HalfUp(amount * rate, RateScale)

\* The ways an amount divides into the rounded base amounts of one or two lines.
\* A line whose base amount rounds to zero is refused by validateEntries.
BaseTotals(total, rate) ==
  {BaseOf(total, rate)} \cup
  {BaseOf(a, rate) + BaseOf(total - a, rate) :
     a \in {b \in 1 .. total - 1 : BaseOf(b, rate) > 0 /\ BaseOf(total - b, rate) > 0}}

-----------------------------------------------------------------------------
(* Receivable items.                                                       *)

StatusFor(outstanding, original) ==
  IF outstanding = 0 THEN "SETTLED"
  ELSE IF outstanding = original THEN "OPEN" ELSE "PARTIAL"

\* updateItem; the row is held FOR UPDATE, so its compare-and-set succeeds.
Moved(item, outstanding, outstandingBase) ==
  [item EXCEPT !.outstanding = outstanding,
               !.outstandingBase = outstandingBase,
               !.status = StatusFor(outstanding, item.original)]

IsLive(item) == item.status \in {"OPEN", "PARTIAL", "SETTLED"}

\* The base value an allocation takes off an item: all that is left when it
\* settles the item, else its rounded share.
Carrying(item, amount) ==
  IF amount = item.outstanding THEN item.outstandingBase
  ELSE HalfUp(item.outstandingBase * amount, item.outstanding)

\* Mutant of CanSettle: nothing bounds the amount.
CanSettleOverdrawn(item, amount) == IsLive(item) /\ item.outstanding > 0

\* validateIdentity, the over-allocation test and the carrying test of persistDecrease.
CanSettle(item, amount) ==
  /\ IsLive(item)
  /\ amount <= item.outstanding
  /\ Carrying(item, amount) > 0
  /\ Carrying(item, amount) <= item.outstandingBase
  /\ amount # item.outstanding => Carrying(item, amount) # item.outstandingBase

\* validateRestore, and the test of reverseCredit.
CanRestore(item, amount, base) ==
  /\ IsLive(item)
  /\ item.outstanding + amount <= item.original
  /\ item.outstandingBase + base <= item.originalBase
  /\ (item.outstanding + amount = item.original)
       <=> (item.outstandingBase + base = item.originalBase)

\* Mutant of CanCredit: the two currencies need not be settled together.
CanCreditUneven(item, amount, base) ==
  IsLive(item) /\ base > 0 /\ amount <= item.outstanding /\ base <= item.outstandingBase

\* applyCredit.
CanCredit(item, amount, base) ==
  /\ IsLive(item)
  /\ base > 0
  /\ amount <= item.outstanding
  /\ base <= item.outstandingBase
  /\ (amount = item.outstanding) <=> (base = item.outstandingBase)

-----------------------------------------------------------------------------
(* The posting engine.                                                     *)

\* lockPostingScope and the compare-and-set of markPosted.
MarkPosted(d, v) ==
  /\ docs[d].status = "DRAFT"
  /\ docs[d].version = v
  /\ periods[docs[d].period].status # "CLOSED"
  /\ docs' = [docs EXCEPT ![d].status = "POSTED", ![d].version = v + 1]

\* The control account line of the entries created by postPlan.
Post(d, amount) ==
  journal' = journal \cup {[doc |-> d, kind |-> "POSTING",
                            period |-> docs[d].period, amount |-> amount]}

\* Mutant of Reverse: a document is reversed whether or not it already was.
ReverseAgain(d, v, q) ==
  /\ periods[q].status # "CLOSED"
  /\ docs[d].status \in {"POSTED", "REVERSED"}
  /\ docs[d].version = v
  /\ docs' = [docs EXCEPT ![d].status = "REVERSED", ![d].version = v + 1]
  /\ journal' = journal \cup
       {[doc |-> d, kind |-> "REVERSAL", period |-> q, amount |-> 0 - e.amount] :
          e \in {l \in journal : l.doc = d /\ l.kind = "POSTING"}}

\* Mutant of Reverse: the period the reversal is dated in is not looked at.
ReverseAnywhere(d, v, q) ==
  /\ docs[d].status = "POSTED"
  /\ docs[d].version = v
  /\ docs' = [docs EXCEPT ![d].status = "REVERSED", ![d].version = v + 1]
  /\ journal' = journal \cup
       {[doc |-> d, kind |-> "REVERSAL", period |-> q, amount |-> 0 - e.amount] :
          e \in {l \in journal : l.doc = d /\ l.kind = "POSTING"}}

\* PostingEngine.reverse: every line of the original entries, sides swapped,
\* in a new document dated in period q; the original becomes REVERSED.
Reverse(d, v, q) ==
  /\ periods[q].status # "CLOSED"
  /\ docs[d].status = "POSTED"
  /\ docs[d].version = v
  /\ docs' = [docs EXCEPT ![d].status = "REVERSED", ![d].version = v + 1]
  /\ journal' = journal \cup
       {[doc |-> d, kind |-> "REVERSAL", period |-> q, amount |-> 0 - e.amount] :
          e \in {l \in journal : l.doc = d /\ l.kind = "POSTING"}}

-----------------------------------------------------------------------------
(* Drafts.                                                                 *)

\* create: the period is read again inside the transaction.
Create(d, p) ==
  /\ docs[d].status = "NONE"
  /\ periods[p].status # "CLOSED"
  /\ docs' = [docs EXCEPT ![d] = [status |-> "DRAFT", period |-> p, version |-> 0]]

\* Mutant of Update: the period of the new date is not looked at.
UpdateIntoAny(d, v, p) ==
  /\ docs[d].status = "DRAFT"
  /\ docs[d].version = v
  /\ v < MaxVersion
  /\ docs' = [docs EXCEPT ![d].period = p, ![d].version = v + 1]

\* update: a draft of the expected version moves to an open period p.
Update(d, v, p) ==
  /\ docs[d].status = "DRAFT"
  /\ docs[d].version = v
  /\ v < MaxVersion
  /\ periods[p].status # "CLOSED"
  /\ docs' = [docs EXCEPT ![d].period = p, ![d].version = v + 1]

\* Mutant of Cancel: its compare-and-set names the version but not the status.
CancelByVersion(d, v) ==
  /\ docs[d].status # "NONE"
  /\ docs[d].version = v
  /\ docs' = [docs EXCEPT ![d].status = "CANCELLED", ![d].version = v + 1]
  /\ UNCHANGED <<periods, year, invoice, note, receipt, items, journal>>

Cancel(d, v) ==
  /\ docs[d].status = "DRAFT"
  /\ docs[d].version = v
  /\ docs' = [docs EXCEPT ![d].status = "CANCELLED", ![d].version = v + 1]
  /\ UNCHANGED <<periods, year, invoice, note, receipt, items, journal>>

DraftInvoice(i, total, rate) ==
  /\ invoice' = [invoice EXCEPT ![i] = [total |-> total, rate |-> rate]]
  /\ UNCHANGED <<periods, year, note, receipt, items, journal>>

CreateInvoice(i, p, total, rate) == Create(i, p) /\ DraftInvoice(i, total, rate)
UpdateInvoice(i, v, p, total, rate) == Update(i, v, p) /\ DraftInvoice(i, total, rate)

\* validateCreditLimit: the other draft credit notes of the invoice reserve
\* part of what is outstanding.
WithinCreditLimit(n, i, total) ==
  LET others == {m \in CreditNotes \ {n} : docs[m].status = "DRAFT" /\ note[m].source = i}
      reserved == Total(others, [m \in others |-> note[m].total])
  IN  /\ docs[i].status = "POSTED"
      /\ reserved + total <= items[i].outstanding

DraftCreditNote(n, i, total) ==
  /\ WithinCreditLimit(n, i, total)
  /\ note' = [note EXCEPT ![n] = [total |-> total, base |-> 0, source |-> i]]
  /\ UNCHANGED <<periods, year, invoice, receipt, items, journal>>

CreateCreditNote(n, p, i, total) == Create(n, p) /\ DraftCreditNote(n, i, total)
UpdateCreditNote(n, v, p, i, total) == Update(n, v, p) /\ DraftCreditNote(n, i, total)

\* The items an allocation names, with a positive amount each.
Targets(alloc) == {i \in Invoices : alloc[i] > 0}

Allocations == {a \in [Invoices -> Amounts \cup {0}] : Targets(a) # {}}

\* prepare: at least one allocation, each to an existing item that is not reversed.
DraftReceipt(r, alloc) ==
  /\ \A i \in Targets(alloc) : IsLive(items[i])
  /\ receipt' = [receipt EXCEPT ![r] =
                   [alloc |-> alloc, carrying |-> [i \in Invoices |-> 0]]]
  /\ UNCHANGED <<periods, year, invoice, note, items, journal>>

CreateReceipt(r, p, alloc) == Create(r, p) /\ DraftReceipt(r, alloc)
UpdateReceipt(r, v, p, alloc) == Update(r, v, p) /\ DraftReceipt(r, alloc)

-----------------------------------------------------------------------------
(* Posting and reversing.                                                  *)

\* post of an invoice: a receivable item of the posted base total is created.
PostInvoice(i, v) ==
  /\ MarkPosted(i, v)
  /\ \E base \in BaseTotals(invoice[i].total, invoice[i].rate) :
       /\ base > 0
       /\ Post(i, base)
       /\ items' = [items EXCEPT ![i] =
            [status |-> "OPEN",
             original |-> invoice[i].total, outstanding |-> invoice[i].total,
             originalBase |-> base, outstandingBase |-> base]]
  /\ UNCHANGED <<periods, year, invoice, note, receipt>>

\* post of a credit note: prepare repeats the credit limit, applyCredit follows.
PostCreditNote(n, v) ==
  LET i == note[n].source
  IN  /\ MarkPosted(n, v)
      /\ WithinCreditLimit(n, i, note[n].total)
      /\ \E base \in BaseTotals(note[n].total, invoice[i].rate) :
           /\ CanCredit(items[i], note[n].total, base)
           /\ Post(n, 0 - base)
           /\ items' = [items EXCEPT ![i] =
                Moved(items[i], items[i].outstanding - note[n].total,
                      items[i].outstandingBase - base)]
           /\ note' = [note EXCEPT ![n].base = base]
      /\ UNCHANGED <<periods, year, invoice, receipt>>

\* allocateSettlementBase: every allocation but the last takes its rounded base
\* amount, the last the rest of the receipt's; each must be positive.
SettlementBasesPositive(alloc, rate) ==
  \E last \in Targets(alloc) :
    LET others == Targets(alloc) \ {last}
        assigned == Total(others, [i \in others |-> BaseOf(alloc[i], rate)])
    IN  /\ \A i \in others : BaseOf(alloc[i], rate) > 0
        /\ BaseOf(Total(Invoices, alloc), rate) > assigned

\* post of a receipt: applyReceipt takes each allocation off its item and the
\* carrying amounts are kept on the allocations; the control account is
\* credited with their total, the difference to the cash received is realized FX.
PostReceipt(r, v) ==
  LET alloc == receipt[r].alloc
      carrying == [i \in Invoices |->
                     IF alloc[i] > 0 THEN Carrying(items[i], alloc[i]) ELSE 0]
  IN  /\ MarkPosted(r, v)
      /\ \A i \in Targets(alloc) : CanSettle(items[i], alloc[i])
      /\ \E rate \in Rates : SettlementBasesPositive(alloc, rate)
      /\ Post(r, 0 - Total(Invoices, carrying))
      /\ items' = [i \in Invoices |->
           IF alloc[i] > 0
           THEN Moved(items[i], items[i].outstanding - alloc[i],
                      items[i].outstandingBase - carrying[i])
           ELSE items[i]]
      /\ receipt' = [receipt EXCEPT ![r].carrying = carrying]
      /\ UNCHANGED <<periods, year, invoice, note>>

\* Mutant of ReverseInvoice: what settled the item is not looked at.
ReverseInvoiceSettled(i, v, q) ==
  /\ Reverse(i, v, q)
  /\ items' = [items EXCEPT ![i].status = "REVERSED",
                            ![i].outstanding = 0, ![i].outstandingBase = 0]
  /\ UNCHANGED <<periods, year, invoice, note, receipt>>

\* reverse of an invoice: only while nothing has settled any of it.
ReverseInvoice(i, v, q) ==
  /\ Reverse(i, v, q)
  /\ items[i].status = "OPEN"
  /\ items[i].outstanding = items[i].original
  /\ items[i].outstandingBase = items[i].originalBase
  /\ items' = [items EXCEPT ![i].status = "REVERSED",
                            ![i].outstanding = 0, ![i].outstandingBase = 0]
  /\ UNCHANGED <<periods, year, invoice, note, receipt>>

ReverseCreditNote(n, v, q) ==
  LET i == note[n].source
  IN  /\ Reverse(n, v, q)
      /\ CanRestore(items[i], note[n].total, note[n].base)
      /\ items' = [items EXCEPT ![i] =
           Moved(items[i], items[i].outstanding + note[n].total,
                 items[i].outstandingBase + note[n].base)]
      /\ UNCHANGED <<periods, year, invoice, note, receipt>>

\* Mutant of ReverseReceipt: each item gets back its share of the original base
\* amount instead of the carrying amount that was taken off it.
ReverseReceiptByShare(r, v, q) ==
  LET alloc == receipt[r].alloc
      share == [i \in Invoices |->
                  IF alloc[i] > 0 THEN HalfUp(items[i].originalBase * alloc[i], items[i].original)
                  ELSE 0]
  IN  /\ Reverse(r, v, q)
      /\ \A i \in Targets(alloc) : CanRestore(items[i], alloc[i], share[i])
      /\ items' = [i \in Invoices |->
           IF alloc[i] > 0
           THEN Moved(items[i], items[i].outstanding + alloc[i],
                      items[i].outstandingBase + share[i])
           ELSE items[i]]
      /\ UNCHANGED <<periods, year, invoice, note, receipt>>

ReverseReceipt(r, v, q) ==
  LET alloc == receipt[r].alloc
      carrying == receipt[r].carrying
  IN  /\ Reverse(r, v, q)
      /\ \A i \in Targets(alloc) :
           carrying[i] > 0 /\ CanRestore(items[i], alloc[i], carrying[i])
      /\ items' = [i \in Invoices |->
           IF alloc[i] > 0
           THEN Moved(items[i], items[i].outstanding + alloc[i],
                      items[i].outstandingBase + carrying[i])
           ELSE items[i]]
      /\ UNCHANGED <<periods, year, invoice, note, receipt>>

-----------------------------------------------------------------------------
(* Fiscal periods.                                                         *)

EntriesReconcile(p) ==
  \A d \in Docs :
    docs[d].status \in {"POSTED", "REVERSED"} /\ docs[d].period = p
      => \E l \in journal : l.doc = d /\ l.kind = "POSTING"

ClosePeriod(p, v) ==
  /\ periods[p].version = v
  /\ periods[p].status # "CLOSED"
  /\ \A q \in 1 .. p - 1 : periods[q].status = "CLOSED"
  /\ \A d \in Docs : ~(docs[d].status = "DRAFT" /\ docs[d].period = p)
  /\ EntriesReconcile(p)
  /\ periods' = [periods EXCEPT ![p] = [status |-> "CLOSED", version |-> v + 1]]
  /\ year' = IF \A q \in Periods : periods'[q].status = "CLOSED" THEN "CLOSED" ELSE year
  /\ UNCHANGED <<docs, invoice, note, receipt, items, journal>>

\* Mutant of ReopenPeriod: a period is reopened under a closed one.
ReopenAny(p, v) ==
  /\ periods[p].version = v
  /\ v < MaxReopen
  /\ periods[p].status = "CLOSED"
  /\ periods' = [periods EXCEPT ![p] = [status |-> "REOPENED", version |-> v + 1]]
  /\ year' = "OPEN"
  /\ UNCHANGED <<docs, invoice, note, receipt, items, journal>>

ReopenPeriod(p, v) ==
  /\ periods[p].version = v
  /\ v < MaxReopen
  /\ periods[p].status = "CLOSED"
  /\ \A q \in p + 1 .. NPeriods : periods[q].status # "CLOSED"
  /\ periods' = [periods EXCEPT ![p] = [status |-> "REOPENED", version |-> v + 1]]
  /\ year' = "OPEN"
  /\ UNCHANGED <<docs, invoice, note, receipt, items, journal>>

-----------------------------------------------------------------------------
Init ==
  /\ periods = [p \in Periods |-> [status |-> "OPEN", version |-> 0]]
  /\ year = "OPEN"
  /\ docs = [d \in Docs |-> [status |-> "NONE", period |-> 0, version |-> 0]]
  /\ invoice = [i \in Invoices |-> [total |-> 0, rate |-> 0]]
  /\ note = [n \in CreditNotes |-> [total |-> 0, base |-> 0, source |-> NoInvoice]]
  /\ receipt = [r \in Receipts |-> [alloc |-> [i \in Invoices |-> 0],
                                    carrying |-> [i \in Invoices |-> 0]]]
  /\ items = [i \in Invoices |-> NoItem]
  /\ journal = {}

\* What a command may name as the version it read.
Versions == 0 .. MaxVersion + 2

Drafting ==
  \/ \E d \in Docs, v \in Versions : Cancel(d, v)
  \/ \E i \in Invoices, p \in Periods, t \in Amounts, x \in Rates :
       \/ CreateInvoice(i, p, t, x)
       \/ \E v \in Versions : UpdateInvoice(i, v, p, t, x)
  \/ \E n \in CreditNotes, p \in Periods, i \in Invoices, t \in Amounts :
       \/ CreateCreditNote(n, p, i, t)
       \/ \E v \in Versions : UpdateCreditNote(n, v, p, i, t)
  \/ \E r \in Receipts, p \in Periods, a \in Allocations :
       \/ CreateReceipt(r, p, a)
       \/ \E v \in Versions : UpdateReceipt(r, v, p, a)

Posting ==
  \E v \in Versions :
    \/ \E i \in Invoices : PostInvoice(i, v)
    \/ \E n \in CreditNotes : PostCreditNote(n, v)
    \/ \E r \in Receipts : PostReceipt(r, v)

Reversing ==
  \E v \in Versions, q \in Periods :
    \/ \E i \in Invoices : ReverseInvoice(i, v, q)
    \/ \E n \in CreditNotes : ReverseCreditNote(n, v, q)
    \/ \E r \in Receipts : ReverseReceipt(r, v, q)

Closing ==
  \E p \in Periods, v \in 0 .. MaxReopen : ClosePeriod(p, v) \/ ReopenPeriod(p, v)

Next == Drafting \/ Posting \/ Reversing \/ Closing

Spec == Init /\ [][Next]_vars

-----------------------------------------------------------------------------
(* What the components promise.                                            *)

(***************************************************************************)
(* The type of every variable: the columns of fiscal_periods,              *)
(* accounting_documents, sales_invoices, receipt_allocations and           *)
(* receivable_items.                                                       *)
(***************************************************************************)
TypeOK ==
  /\ periods \in [Periods -> PeriodType]
  /\ year \in {"OPEN", "CLOSED"}
  /\ docs \in [Docs -> DocType]
  /\ invoice \in [Invoices -> InvoiceType]
  /\ note \in [CreditNotes -> NoteType]
  /\ receipt \in [Receipts -> ReceiptType]
  /\ items \in [Invoices -> ItemType]
  /\ journal \subseteq LineType

Posted(d) == docs[d].status = "POSTED"

\* What the posted receipts and credit notes have taken off the item of invoice i.
Received(i) == Total(Receipts, [r \in Receipts |-> IF Posted(r) THEN receipt[r].alloc[i] ELSE 0])
ReceivedBase(i) ==
  Total(Receipts, [r \in Receipts |-> IF Posted(r) THEN receipt[r].carrying[i] ELSE 0])
CreditOf(n, i) == Posted(n) /\ note[n].source = i
Credited(i) ==
  Total(CreditNotes, [n \in CreditNotes |-> IF CreditOf(n, i) THEN note[n].total ELSE 0])
CreditedBase(i) ==
  Total(CreditNotes, [n \in CreditNotes |-> IF CreditOf(n, i) THEN note[n].base ELSE 0])

(***************************************************************************)
(* Whatever the order in which receipts and credit notes are posted and    *)
(* reversed, an item's outstanding amount is the invoice's less what the   *)
(* documents now posted against it have settled; the sum of the            *)
(* allocations never exceeds the receivable.                               *)
(***************************************************************************)
OutstandingIsUnsettled ==
  \A i \in Invoices : IsLive(items[i]) =>
    items[i].outstanding + Received(i) + Credited(i) = items[i].original

(***************************************************************************)
(* The same in base currency, although each carrying amount was rounded    *)
(* against what was outstanding when its receipt was posted: reversals in  *)
(* any order leave no rounding residue behind.                             *)
(***************************************************************************)
OutstandingBaseIsUnsettled ==
  \A i \in Invoices : IsLive(items[i]) =>
    items[i].outstandingBase + ReceivedBase(i) + CreditedBase(i) = items[i].originalBase

(***************************************************************************)
(* An item is settled, or untouched, in document currency exactly when it  *)
(* is in base currency: no foreign balance is left with no base value and  *)
(* no base value without a foreign balance.  With the status rules this is *)
(* what the close checks as SUBLEDGERS_RECONCILED.                         *)
(***************************************************************************)
SubledgerReconciled ==
  \A i \in Invoices :
    LET item == items[i]
    IN  /\ item.outstanding <= item.original
        /\ item.outstandingBase <= item.originalBase
        /\ item.outstanding = 0 <=> item.outstandingBase = 0
        /\ IsLive(item) =>
             /\ item.status = StatusFor(item.outstanding, item.original)
             /\ item.outstanding = item.original <=> item.outstandingBase = item.originalBase

(***************************************************************************)
(* A reversed invoice has no receipt or credit note left posted against    *)
(* it, and its item is never revived: reverse checks the item only, not    *)
(* the documents.                                                          *)
(***************************************************************************)
ReversedInvoiceUnsettled ==
  \A i \in Invoices : docs[i].status = "REVERSED" =>
    /\ items[i].status = "REVERSED"
    /\ \A r \in Receipts : Posted(r) => receipt[r].alloc[i] = 0
    /\ \A n \in CreditNotes : ~ CreditOf(n, i)

(***************************************************************************)
(* The guards of reverseReceipt and reverseCredit never refuse: a posted   *)
(* receipt or credit note can always be taken back, whatever was posted or *)
(* reversed on the same items since.                                       *)
(***************************************************************************)
PostedCanBeReversed ==
  /\ \A r \in Receipts : Posted(r) =>
       \A i \in Targets(receipt[r].alloc) :
         /\ receipt[r].carrying[i] > 0
         /\ CanRestore(items[i], receipt[r].alloc[i], receipt[r].carrying[i])
  /\ \A n \in CreditNotes : Posted(n) =>
       CanRestore(items[note[n].source], note[n].total, note[n].base)

Debits == {l \in journal : l.amount > 0}
Credits == {l \in journal : l.amount < 0}

(***************************************************************************)
(* The receivable control account in the ledger equals the receivable      *)
(* items: postings take their amounts from the document, reversals from    *)
(* the journal lines, the items from the allocations, and the three agree. *)
(***************************************************************************)
LedgerMatchesSubledger ==
  Total(Debits, [l \in Debits |-> l.amount]) =
    Total(Credits, [l \in Credits |-> 0 - l.amount])
      + Total(Invoices, [i \in Invoices |-> items[i].outstandingBase])

(***************************************************************************)
(* A closed period holds no draft: neither create, update, post nor a late *)
(* reopening leaves one in it, so nothing unfinished is locked away.       *)
(***************************************************************************)
NoDraftInClosedPeriod ==
  \A d \in Docs : docs[d].status = "DRAFT" => periods[docs[d].period].status # "CLOSED"

(***************************************************************************)
(* The closed periods are the earliest ones, and the year is closed        *)
(* exactly when all of them are.                                           *)
(***************************************************************************)
ClosedInOrder ==
  /\ \A p \in Periods : periods[p].status = "CLOSED" =>
       \A q \in 1 .. p - 1 : periods[q].status = "CLOSED"
  /\ year = "CLOSED" <=> \A p \in Periods : periods[p].status = "CLOSED"

\* The ledger of a period.
LinesIn(p) == {l \in journal : l.period = p}

(***************************************************************************)
(* While a period stays closed no line is added to its ledger, by posting  *)
(* an old draft or by dating a reversal in it.                             *)
(***************************************************************************)
ClosedPeriodFrozen ==
  [][\A p \in Periods :
       periods[p].status = "CLOSED" /\ periods'[p].status = "CLOSED"
         => LinesIn(p)' = LinesIn(p)]_vars
=============================================================================
