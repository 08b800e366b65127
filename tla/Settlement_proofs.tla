-------------------------- MODULE Settlement_proofs --------------------------
(***************************************************************************)
(* Theorems about Settlement, for every set of documents, every number of  *)
(* periods, every choice of amounts and exchange rates.                    *)
(***************************************************************************)
EXTENDS Settlement, Totals_proofs

-----------------------------------------------------------------------------
(* Arithmetic.                                                             *)

\* Rounding half up gives a natural number.
LEMMA HalfUpNat ==
  ASSUME NEW num \in Nat, NEW den \in Nat, den > 0
  PROVE  HalfUp(num, den) \in Nat
BY DEF HalfUp

\* Base amounts are natural numbers.
LEMMA BaseOfNat ==
  ASSUME NEW amount \in Nat, NEW rate \in Nat
  PROVE  BaseOf(amount, rate) \in Nat
<1>1. amount * rate \in Nat
  OBVIOUS
<1>2. RateScale \in Nat /\ RateScale > 0
  BY NumbersAssumption
<1> QED BY <1>1, <1>2, HalfUpNat DEF BaseOf

\* The base total of a document is a natural number.
LEMMA BaseTotalsNat ==
  ASSUME NEW total \in Nat, NEW rate \in Nat, NEW base \in BaseTotals(total, rate)
  PROVE  base \in Nat
<1>1. BaseOf(total, rate) \in Nat
  BY BaseOfNat
<1>2. ASSUME NEW a \in 1 .. total - 1
      PROVE  BaseOf(a, rate) + BaseOf(total - a, rate) \in Nat
  <2>1. a \in Nat /\ total - a \in Nat
    OBVIOUS
  <2>2. BaseOf(a, rate) \in Nat /\ BaseOf(total - a, rate) \in Nat
    BY <2>1, BaseOfNat
  <2> QED BY <2>2
<1> QED BY <1>1, <1>2 DEF BaseTotals

\* What an allocation takes off an item that CanSettle is between one and all of it.
LEMMA CarryingNat ==
  ASSUME NEW item, item.outstanding \in Nat, item.outstandingBase \in Nat,
         NEW amount \in Nat, amount > 0, CanSettle(item, amount)
  PROVE  /\ Carrying(item, amount) \in Nat
         /\ Carrying(item, amount) > 0
         /\ Carrying(item, amount) <= item.outstandingBase
<1>1. CASE amount = item.outstanding
  BY <1>1 DEF Carrying, CanSettle
<1>2. CASE amount # item.outstanding
  <2>1. item.outstanding > 0
    BY <1>2 DEF CanSettle
  <2>2. item.outstandingBase * amount \in Nat
    OBVIOUS
  <2>3. HalfUp(item.outstandingBase * amount, item.outstanding) \in Nat
    BY <2>1, <2>2, HalfUpNat
  <2> QED BY <1>2, <2>3 DEF Carrying, CanSettle
<1> QED BY <1>1, <1>2

-----------------------------------------------------------------------------
(* Types.  What a document refers to exists once it has been drafted.      *)

Drafted ==
  /\ \A d \in Docs : docs[d].status # "NONE" => docs[d].period \in Periods
  /\ \A n \in CreditNotes :
       docs[n].status # "NONE" => note[n].source \in Invoices /\ note[n].total > 0
  /\ \A i \in Invoices : docs[i].status # "NONE" => invoice[i].total > 0

Typed == TypeOK /\ Drafted

\* Whatever a command does to a document, the document keeps its type.
LEMMA DocTyped ==
  ASSUME docs \in [Docs -> DocType], NEW d \in Docs, NEW v \in Nat,
         \A x \in Docs : docs[x].status # "NONE" => docs[x].period \in Periods,
         \/ \E p \in Periods : Create(d, p) \/ Update(d, v, p) \/ Reverse(d, v, p)
         \/ MarkPosted(d, v) \/ Cancel(d, v)
  PROVE  /\ docs' \in [Docs -> DocType]
         /\ \A x \in Docs : (docs[x].status # "NONE" => docs[x].period \in Periods)'
         /\ \A x \in Docs \ {d} : docs'[x] = docs[x]
<1>1. ASSUME NEW p \in Periods, Create(d, p) \/ Update(d, v, p) PROVE
         /\ docs' \in [Docs -> DocType]
         /\ \A x \in Docs : (docs[x].status # "NONE" => docs[x].period \in Periods)'
         /\ \A x \in Docs \ {d} : docs'[x] = docs[x]
  BY <1>1 DEF Create, Update, DocType, DocStatus
<1>2. ASSUME NEW p \in Periods, Reverse(d, v, p) \/ MarkPosted(d, v) \/ Cancel(d, v) PROVE
         /\ docs' \in [Docs -> DocType]
         /\ \A x \in Docs : (docs[x].status # "NONE" => docs[x].period \in Periods)'
         /\ \A x \in Docs \ {d} : docs'[x] = docs[x]
  BY <1>2 DEF Reverse, MarkPosted, Cancel, DocType, DocStatus
<1>3. CASE MarkPosted(d, v) \/ Cancel(d, v)
  BY <1>3 DEF Reverse, MarkPosted, Cancel, DocType, DocStatus
<1> QED BY <1>1, <1>2, <1>3

\* The types hold initially.
LEMMA TypedInit == Init => Typed
<1> SUFFICES ASSUME Init PROVE Typed
  OBVIOUS
<1> USE NumbersAssumption
<1>1. TypeOK
  BY DEF Init, TypeOK, PeriodType, DocType, InvoiceType, NoteType, ReceiptType, ItemType,
     PeriodStatus, DocStatus, ItemStatus, NoItem, Docs
<1>2. Drafted
  BY DEF Init, Drafted, Docs
<1> QED BY <1>1, <1>2 DEF Typed

\* What remains to be shown of a command on document d that leaves the type of
\* everything but the documents to the caller.
LEMMA TypedCommand ==
  ASSUME Typed, NEW d \in Docs, NEW v \in Nat,
         \/ \E p \in Periods : Create(d, p) \/ Update(d, v, p) \/ Reverse(d, v, p)
         \/ MarkPosted(d, v) \/ Cancel(d, v),
         UNCHANGED <<periods, year>>,
         invoice' \in [Invoices -> InvoiceType],
         note' \in [CreditNotes -> NoteType],
         receipt' \in [Receipts -> ReceiptType],
         items' \in [Invoices -> ItemType],
         journal' \subseteq LineType,
         \A n \in CreditNotes : 
            (docs[n].status # "NONE")' => note'[n].source \in Invoices /\ note'[n].total > 0,
         \A i \in Invoices : (docs[i].status # "NONE")' => invoice'[i].total > 0
  PROVE  Typed'
<1>1. docs \in [Docs -> DocType] /\ \A x \in Docs : docs[x].status # "NONE" => docs[x].period \in Periods
  BY DEF Typed, TypeOK, Drafted, DocType
<1>2. docs' \in [Docs -> DocType]
  BY <1>1, DocTyped
<1>3. \A x \in Docs : (docs[x].status # "NONE" => docs[x].period \in Periods)'
  BY <1>1, DocTyped
<1>4. TypeOK'
  BY <1>2 DEF Typed, TypeOK, DocType
<1>5. Drafted'
  BY <1>3 DEF Drafted, Docs
<1> QED BY <1>4, <1>5 DEF Typed

\* The journal keeps its type when a document of a real period is posted.
LEMMA PostTyped ==
  ASSUME Typed, NEW d \in Docs, NEW v, MarkPosted(d, v), NEW amount \in Int, Post(d, amount)
  PROVE  journal' \subseteq LineType
<1>1. docs[d].period \in Periods
  BY DEF Typed, Drafted, MarkPosted
<1> QED BY <1>1 DEF Typed, TypeOK, LineType, Post

\* Likewise when it is reversed.
LEMMA ReverseTyped ==
  ASSUME Typed, NEW d \in Docs, NEW v, NEW q \in Periods, Reverse(d, v, q)
  PROVE  journal' \subseteq LineType
<1>1. \A e \in journal : e.amount \in Int /\ 0 - e.amount \in Int
  BY DEF Typed, TypeOK, LineType
<1> QED BY <1>1 DEF Typed, TypeOK, LineType, Reverse

\* The status of an item is the one its amounts call for.
StatusFollows(item) == item.status = StatusFor(item.outstanding, item.original)

\* Nothing is left in one currency exactly when nothing is left in the other.
EmptyTogether(item) == item.outstanding = 0 <=> item.outstandingBase = 0

\* What updateItem makes of an item.
LEMMA MovedItem ==
  ASSUME NEW item \in ItemType, NEW o \in Nat, NEW b \in Nat
  PROVE  /\ Moved(item, o, b) \in ItemType
         /\ Moved(item, o, b).outstanding = o
         /\ Moved(item, o, b).outstandingBase = b
         /\ Moved(item, o, b).original = item.original
         /\ Moved(item, o, b).originalBase = item.originalBase
         /\ IsLive(Moved(item, o, b))
         /\ StatusFollows(Moved(item, o, b))
<1>1. StatusFor(o, item.original) \in {"OPEN", "PARTIAL", "SETTLED"}
  BY DEF StatusFor
<1>2. Moved(item, o, b).status = StatusFor(o, item.original)
  BY DEF Moved, ItemType
<1>3. /\ Moved(item, o, b) \in ItemType
      /\ Moved(item, o, b).outstanding = o
      /\ Moved(item, o, b).outstandingBase = b
      /\ Moved(item, o, b).original = item.original
      /\ Moved(item, o, b).originalBase = item.originalBase
  BY <1>1 DEF Moved, ItemType, ItemStatus
<1> QED BY <1>1, <1>2, <1>3 DEF IsLive, StatusFollows

\* Writing a draft invoice keeps the types.
LEMMA DraftInvoiceTyped ==
  ASSUME Typed, NEW i \in Invoices, NEW p \in Periods, NEW v \in Nat,
         NEW t \in Amounts, NEW x \in Rates,
         CreateInvoice(i, p, t, x) \/ UpdateInvoice(i, v, p, t, x)
  PROVE  Typed'
<1>1. Create(i, p) \/ Update(i, v, p)
  BY DEF CreateInvoice, UpdateInvoice
<1>2. DraftInvoice(i, t, x)
  BY DEF CreateInvoice, UpdateInvoice
<1>3. t \in Nat /\ t > 0 /\ x \in Nat
  BY NumbersAssumption
<1>4. invoice' \in [Invoices -> InvoiceType]
  BY <1>2, <1>3 DEF DraftInvoice, Typed, TypeOK, InvoiceType
<1>5. \A j \in Invoices : (docs[j].status # "NONE")' => invoice'[j].total > 0
  BY <1>1, <1>2, <1>3 DEF DraftInvoice, Create, Update, Typed, TypeOK, Drafted, Docs
<1>6. \A n \in CreditNotes :
        (docs[n].status # "NONE")' => note'[n].source \in Invoices /\ note'[n].total > 0
  BY <1>1, <1>2, DocumentsAssumption
     DEF DraftInvoice, Create, Update, Typed, TypeOK, Drafted, Docs
<1>7. UNCHANGED <<periods, year, note, receipt, items, journal>>
  BY <1>1, <1>2 DEF DraftInvoice
<1>8. /\ note' \in [CreditNotes -> NoteType]
      /\ receipt' \in [Receipts -> ReceiptType]
      /\ items' \in [Invoices -> ItemType]
      /\ journal' \subseteq LineType
  BY <1>7 DEF Typed, TypeOK
<1>9. i \in Docs
  BY DEF Docs
<1> QED BY <1>1, <1>4, <1>5, <1>6, <1>7, <1>8, <1>9, TypedCommand

\* Writing a draft credit note keeps the types; its source exists.
LEMMA DraftCreditNoteTyped ==
  ASSUME Typed, NEW n \in CreditNotes, NEW p \in Periods, NEW v \in Nat,
         NEW i \in Invoices, NEW t \in Amounts,
         CreateCreditNote(n, p, i, t) \/ UpdateCreditNote(n, v, p, i, t)
  PROVE  Typed'
<1>1. Create(n, p) \/ Update(n, v, p)
  BY DEF CreateCreditNote, UpdateCreditNote
<1>2. DraftCreditNote(n, i, t)
  BY DEF CreateCreditNote, UpdateCreditNote
<1>3. t \in Nat /\ t > 0
  BY NumbersAssumption
<1>4. note' \in [CreditNotes -> NoteType]
  BY <1>2, <1>3 DEF DraftCreditNote, Typed, TypeOK, NoteType
<1>5. \A m \in CreditNotes :
        (docs[m].status # "NONE")' => note'[m].source \in Invoices /\ note'[m].total > 0
  BY <1>1, <1>2, <1>3 DEF DraftCreditNote, Create, Update, Typed, TypeOK, Drafted, Docs
<1>6. \A j \in Invoices : (docs[j].status # "NONE")' => invoice'[j].total > 0
  BY <1>1, <1>2, DocumentsAssumption
     DEF DraftCreditNote, Create, Update, Typed, TypeOK, Drafted, Docs
<1>7. UNCHANGED <<periods, year, invoice, receipt, items, journal>>
  BY <1>1, <1>2 DEF DraftCreditNote
<1>8. /\ invoice' \in [Invoices -> InvoiceType]
      /\ receipt' \in [Receipts -> ReceiptType]
      /\ items' \in [Invoices -> ItemType]
      /\ journal' \subseteq LineType
  BY <1>7 DEF Typed, TypeOK
<1>9. n \in Docs
  BY DEF Docs
<1> QED BY <1>1, <1>4, <1>5, <1>6, <1>7, <1>8, <1>9, TypedCommand

\* Writing a draft receipt keeps the types.
LEMMA DraftReceiptTyped ==
  ASSUME Typed, NEW r \in Receipts, NEW p \in Periods, NEW v \in Nat,
         NEW alloc \in Allocations,
         CreateReceipt(r, p, alloc) \/ UpdateReceipt(r, v, p, alloc)
  PROVE  Typed'
<1>1. Create(r, p) \/ Update(r, v, p)
  BY DEF CreateReceipt, UpdateReceipt
<1>2. DraftReceipt(r, alloc)
  BY DEF CreateReceipt, UpdateReceipt
<1>3. alloc \in [Invoices -> Nat]
  <2>1. alloc \in [Invoices -> Amounts \cup {0}]
    BY DEF Allocations
  <2>2. Amounts \cup {0} \subseteq Nat
    BY NumbersAssumption
  <2> QED BY <2>1, <2>2, Zenon
<1>4. receipt' \in [Receipts -> ReceiptType]
  <2>1. [alloc |-> alloc, carrying |-> [i \in Invoices |-> 0]] \in ReceiptType
    BY <1>3 DEF ReceiptType
  <2> QED BY <1>2, <2>1 DEF DraftReceipt, Typed, TypeOK
<1>5. UNCHANGED <<periods, year, invoice, note, items, journal>>
  BY <1>1, <1>2 DEF DraftReceipt
<1>6. /\ \A n \in CreditNotes :
           (docs[n].status # "NONE")' => note'[n].source \in Invoices /\ note'[n].total > 0
      /\ \A j \in Invoices : (docs[j].status # "NONE")' => invoice'[j].total > 0
  BY <1>1, <1>5, DocumentsAssumption DEF Create, Update, Typed, TypeOK, Drafted, Docs
<1>7. /\ invoice' \in [Invoices -> InvoiceType]
      /\ note' \in [CreditNotes -> NoteType]
      /\ items' \in [Invoices -> ItemType]
      /\ journal' \subseteq LineType
  BY <1>5 DEF Typed, TypeOK
<1>8. r \in Docs
  BY DEF Docs
<1> QED BY <1>1, <1>4, <1>5, <1>6, <1>7, <1>8, TypedCommand

\* A step that writes no invoice and no credit note leaves what they refer to alone.
LEMMA DraftedKept ==
  ASSUME Typed, NEW d \in Docs, docs[d].status # "NONE",
         \A x \in Docs \ {d} : docs'[x] = docs[x],
         invoice' = invoice,
         \A n \in CreditNotes : note'[n].source = note[n].source /\ note'[n].total = note[n].total
  PROVE  /\ \A n \in CreditNotes :
              (docs[n].status # "NONE")' => note'[n].source \in Invoices /\ note'[n].total > 0
         /\ \A i \in Invoices : (docs[i].status # "NONE")' => invoice'[i].total > 0
<1>1. \A x \in Docs : (docs[x].status # "NONE")' => docs[x].status # "NONE"
  OBVIOUS
<1> QED BY <1>1 DEF Typed, Drafted, Docs

\* The documents a MarkPosted or Reverse leaves alone, and what was true of d.
LEMMA OthersKept ==
  ASSUME Typed, NEW d \in Docs, NEW v \in Nat,
         MarkPosted(d, v) \/ \E q \in Periods : Reverse(d, v, q)
  PROVE  /\ docs[d].status # "NONE"
         /\ \A x \in Docs \ {d} : docs'[x] = docs[x]
BY DEF MarkPosted, Reverse, Typed, TypeOK

\* Posting an invoice keeps the types: the item it opens is a natural amount.
LEMMA PostInvoiceTyped ==
  ASSUME Typed, NEW i \in Invoices, NEW v \in Nat, PostInvoice(i, v)
  PROVE  Typed'
<1>1. PICK base \in BaseTotals(invoice[i].total, invoice[i].rate) :
        /\ base > 0
        /\ Post(i, base)
        /\ items' = [items EXCEPT ![i] =
             [status |-> "OPEN",
              original |-> invoice[i].total, outstanding |-> invoice[i].total,
              originalBase |-> base, outstandingBase |-> base]]
  BY DEF PostInvoice
<1>2. i \in Docs /\ MarkPosted(i, v) /\ UNCHANGED <<periods, year, invoice, note, receipt>>
  BY DEF PostInvoice, Docs
<1>3. invoice[i].total \in Nat /\ invoice[i].rate \in Nat
  BY DEF Typed, TypeOK, InvoiceType
<1>4. base \in Nat
  BY <1>3, BaseTotalsNat
<1>5. items' \in [Invoices -> ItemType]
  BY <1>1, <1>3, <1>4 DEF Typed, TypeOK, ItemType, ItemStatus
<1>6. journal' \subseteq LineType
  BY <1>1, <1>2, <1>4, PostTyped
<1>7. /\ invoice' \in [Invoices -> InvoiceType]
      /\ note' \in [CreditNotes -> NoteType]
      /\ receipt' \in [Receipts -> ReceiptType]
  BY <1>2 DEF Typed, TypeOK
<1>8. docs[i].status # "NONE" /\ \A x \in Docs \ {i} : docs'[x] = docs[x]
  BY <1>2, OthersKept
<1>9. /\ \A n \in CreditNotes :
           (docs[n].status # "NONE")' => note'[n].source \in Invoices /\ note'[n].total > 0
      /\ \A j \in Invoices : (docs[j].status # "NONE")' => invoice'[j].total > 0
  BY <1>2, <1>8, DraftedKept
<1> QED BY <1>2, <1>5, <1>6, <1>7, <1>9, TypedCommand

\* What posting a receipt does to the items, to its allocations and to the journal.
LEMMA PostReceiptEffect ==
  ASSUME Typed, NEW r \in Receipts, NEW v \in Nat, PostReceipt(r, v)
  PROVE  /\ items' \in [Invoices -> ItemType]
         /\ receipt' \in [Receipts -> ReceiptType]
         /\ receipt'[r].alloc = receipt[r].alloc
         /\ \A s \in Receipts \ {r} : receipt'[s] = receipt[s]
         /\ \A i \in Invoices :
              IF receipt[r].alloc[i] > 0
              THEN /\ IsLive(items[i]) /\ IsLive(items'[i])
                   /\ StatusFollows(items'[i]) /\ EmptyTogether(items'[i])
                   /\ items'[i].original = items[i].original
                   /\ items'[i].originalBase = items[i].originalBase
                   /\ items'[i].outstanding = items[i].outstanding - receipt[r].alloc[i]
                   /\ items'[i].outstandingBase =
                        items[i].outstandingBase - receipt'[r].carrying[i]
                   /\ receipt'[r].carrying[i] > 0
              ELSE items'[i] = items[i] /\ receipt'[r].carrying[i] = 0
         /\ Total(Invoices, receipt'[r].carrying) \in Nat
         /\ Post(r, 0 - Total(Invoices, receipt'[r].carrying))
<1> DEFINE alloc == receipt[r].alloc
           taken == [i \in Invoices |->
                       IF alloc[i] > 0 THEN Carrying(items[i], alloc[i]) ELSE 0]
<1>1. /\ \A i \in Targets(alloc) : CanSettle(items[i], alloc[i])
      /\ Post(r, 0 - Total(Invoices, taken))
      /\ items' = [i \in Invoices |->
           IF alloc[i] > 0
           THEN Moved(items[i], items[i].outstanding - alloc[i],
                      items[i].outstandingBase - taken[i])
           ELSE items[i]]
      /\ receipt' = [receipt EXCEPT ![r].carrying = taken]
  BY DEF PostReceipt
<1>2. alloc \in [Invoices -> Nat] /\ items \in [Invoices -> ItemType]
  BY DEF Typed, TypeOK, ReceiptType
<1>3. ASSUME NEW i \in Invoices, alloc[i] > 0
      PROVE  /\ IsLive(items[i])
             /\ taken[i] \in Nat /\ taken[i] > 0
             /\ items[i].outstanding - alloc[i] \in Nat
             /\ items[i].outstandingBase - taken[i] \in Nat
             /\ items[i].outstanding = alloc[i] <=> items[i].outstandingBase = taken[i]
  <2>1. CanSettle(items[i], alloc[i])
    BY <1>1, <1>3 DEF Targets
  <2>2. /\ items[i].outstanding \in Nat /\ items[i].outstandingBase \in Nat
        /\ alloc[i] \in Nat
    BY <1>2 DEF ItemType
  <2>3. /\ Carrying(items[i], alloc[i]) \in Nat
        /\ Carrying(items[i], alloc[i]) > 0
        /\ Carrying(items[i], alloc[i]) <= items[i].outstandingBase
    BY <1>3, <2>1, <2>2, CarryingNat
  <2>4. taken[i] = Carrying(items[i], alloc[i])
    BY <1>3
  <2>5. items[i].outstanding = alloc[i] <=> items[i].outstandingBase = taken[i]
    BY <2>1, <2>4 DEF CanSettle, Carrying
  <2> QED BY <2>1, <2>2, <2>3, <2>4, <2>5 DEF CanSettle
<1>4. taken \in [Invoices -> Nat] /\ \A i \in Invoices : alloc[i] > 0 \/ taken[i] = 0
  BY <1>3
<1> HIDE DEF taken, alloc
<1>5. /\ receipt'[r].carrying = taken /\ receipt'[r].alloc = alloc
      /\ \A s \in Receipts \ {r} : receipt'[s] = receipt[s]
      /\ receipt' \in [Receipts -> ReceiptType]
  BY <1>1, <1>4 DEF Typed, TypeOK, ReceiptType, alloc
<1>6. ASSUME NEW i \in Invoices, alloc[i] > 0
      PROVE  /\ items'[i] \in ItemType
             /\ IsLive(items'[i]) /\ StatusFollows(items'[i])
             /\ items'[i].original = items[i].original
             /\ items'[i].originalBase = items[i].originalBase
             /\ items'[i].outstanding = items[i].outstanding - alloc[i]
             /\ items'[i].outstandingBase = items[i].outstandingBase - taken[i]
  <2> DEFINE o == items[i].outstanding - alloc[i]
             b == items[i].outstandingBase - taken[i]
  <2>1. items'[i] = Moved(items[i], o, b)
    BY <1>1, <1>6
  <2>2. items[i] \in ItemType /\ o \in Nat /\ b \in Nat
    BY <1>2, <1>3, <1>6
  <2> HIDE DEF o, b
  <2>4. PICK item \in ItemType : item = items[i]
    BY <2>2
  <2> DEFINE m == Moved(item, o, b)
  <2>3. /\ m \in ItemType /\ IsLive(m) /\ StatusFollows(m)
        /\ m.original = items[i].original /\ m.originalBase = items[i].originalBase
        /\ m.outstanding = o /\ m.outstandingBase = b
    BY ONLY <2>2, <2>4, MovedItem
  <2> HIDE DEF m
  <2> QED BY <2>1, <2>3, <2>4 DEF o, b, m
<1>7. \A i \in Invoices : alloc[i] > 0 \/ items'[i] = items[i]
  BY <1>1
<1>8. items' \in [Invoices -> ItemType]
  BY <1>1, <1>2, <1>6, <1>7
<1>9. Total(Invoices, taken) \in Nat
  BY <1>4, TotalType, DocumentsAssumption
<1>10. ASSUME NEW i \in Invoices, alloc[i] > 0 PROVE EmptyTogether(items'[i])
  <2>1. items[i].outstanding \in Nat /\ items[i].outstandingBase \in Nat
    BY <1>2 DEF ItemType
  <2>2. alloc[i] \in Nat /\ taken[i] \in Nat
    BY <1>2, <1>4
  <2> QED BY <1>3, <1>6, <1>10, <2>1, <2>2 DEF EmptyTogether
<1> QED BY <1>1, <1>3, <1>4, <1>5, <1>6, <1>7, <1>8, <1>9, <1>10 DEF alloc

\* Posting a receipt keeps the types: no allocation takes an item below zero.
LEMMA PostReceiptTyped ==
  ASSUME Typed, NEW r \in Receipts, NEW v \in Nat, PostReceipt(r, v)
  PROVE  Typed'
<1>1. r \in Docs /\ MarkPosted(r, v) /\ UNCHANGED <<periods, year, invoice, note>>
  BY DEF PostReceipt, Docs
<1>2. items' \in [Invoices -> ItemType] /\ receipt' \in [Receipts -> ReceiptType]
  BY PostReceiptEffect
<1>3. PICK amount \in Nat : Post(r, 0 - amount)
  <2> DEFINE amount == Total(Invoices, receipt'[r].carrying)
  <2>1. amount \in Nat /\ Post(r, 0 - amount)
    BY PostReceiptEffect
  <2> HIDE DEF amount
  <2> QED BY <2>1
<1>4. journal' \subseteq LineType
  BY <1>1, <1>3, PostTyped
<1>5. invoice' \in [Invoices -> InvoiceType] /\ note' \in [CreditNotes -> NoteType]
  BY <1>1 DEF Typed, TypeOK
<1>6. docs[r].status # "NONE" /\ \A x \in Docs \ {r} : docs'[x] = docs[x]
  BY <1>1, OthersKept
<1>7. /\ \A n \in CreditNotes :
           (docs[n].status # "NONE")' => note'[n].source \in Invoices /\ note'[n].total > 0
      /\ \A i \in Invoices : (docs[i].status # "NONE")' => invoice'[i].total > 0
  BY <1>1, <1>6, DraftedKept
<1> QED BY <1>1, <1>2, <1>4, <1>5, <1>7, TypedCommand

\* What reversing a receipt does to the items.
LEMMA ReverseReceiptEffect ==
  ASSUME Typed, NEW r \in Receipts, NEW v \in Nat, NEW q \in Periods, ReverseReceipt(r, v, q)
  PROVE  /\ items' \in [Invoices -> ItemType]
         /\ \A i \in Invoices :
              IF receipt[r].alloc[i] > 0
              THEN /\ IsLive(items[i]) /\ IsLive(items'[i])
                   /\ StatusFollows(items'[i]) /\ EmptyTogether(items'[i])
                   /\ items'[i].original = items[i].original
                   /\ items'[i].originalBase = items[i].originalBase
                   /\ items'[i].outstanding = items[i].outstanding + receipt[r].alloc[i]
                   /\ items'[i].outstandingBase =
                        items[i].outstandingBase + receipt[r].carrying[i]
              ELSE items'[i] = items[i]
<1> DEFINE alloc == receipt[r].alloc
           carrying == receipt[r].carrying
<1>1. /\ \A i \in Targets(alloc) :
           carrying[i] > 0 /\ CanRestore(items[i], alloc[i], carrying[i])
      /\ items' = [i \in Invoices |->
           IF alloc[i] > 0
           THEN Moved(items[i], items[i].outstanding + alloc[i],
                      items[i].outstandingBase + carrying[i])
           ELSE items[i]]
  BY DEF ReverseReceipt
<1>2. /\ alloc \in [Invoices -> Nat] /\ carrying \in [Invoices -> Nat]
      /\ items \in [Invoices -> ItemType]
  BY DEF Typed, TypeOK, ReceiptType
<1> HIDE DEF alloc, carrying
<1>3. ASSUME NEW i \in Invoices, alloc[i] > 0
      PROVE  /\ IsLive(items[i])
             /\ items[i].outstanding + alloc[i] \in Nat
             /\ items[i].outstandingBase + carrying[i] \in Nat
  BY <1>1, <1>2, <1>3 DEF Targets, CanRestore, ItemType
<1>4. ASSUME NEW i \in Invoices, alloc[i] > 0
      PROVE  /\ items'[i] \in ItemType
             /\ IsLive(items'[i]) /\ StatusFollows(items'[i])
             /\ items'[i].original = items[i].original
             /\ items'[i].originalBase = items[i].originalBase
             /\ items'[i].outstanding = items[i].outstanding + alloc[i]
             /\ items'[i].outstandingBase = items[i].outstandingBase + carrying[i]
  <2> DEFINE o == items[i].outstanding + alloc[i]
             b == items[i].outstandingBase + carrying[i]
  <2>1. items'[i] = Moved(items[i], o, b)
    BY <1>1, <1>4
  <2>2. items[i] \in ItemType /\ o \in Nat /\ b \in Nat
    BY <1>2, <1>3, <1>4
  <2> HIDE DEF o, b
  <2>4. PICK item \in ItemType : item = items[i]
    BY <2>2
  <2> DEFINE m == Moved(item, o, b)
  <2>3. /\ m \in ItemType /\ IsLive(m) /\ StatusFollows(m)
        /\ m.original = items[i].original /\ m.originalBase = items[i].originalBase
        /\ m.outstanding = o /\ m.outstandingBase = b
    BY ONLY <2>2, <2>4, MovedItem
  <2> HIDE DEF m
  <2> QED BY <2>1, <2>3, <2>4 DEF o, b, m
<1>5. \A i \in Invoices : alloc[i] > 0 \/ items'[i] = items[i]
  BY <1>1
<1>6. items' \in [Invoices -> ItemType]
  BY <1>1, <1>2, <1>4, <1>5
<1>7. ASSUME NEW i \in Invoices, alloc[i] > 0 PROVE EmptyTogether(items'[i])
  <2>1. items[i].outstanding \in Nat /\ items[i].outstandingBase \in Nat
    BY <1>2 DEF ItemType
  <2>2. carrying[i] > 0
    BY <1>1, <1>7 DEF Targets
  <2>3. alloc[i] \in Nat /\ carrying[i] \in Nat
    BY <1>2
  <2> QED BY <1>4, <1>7, <2>1, <2>2, <2>3 DEF EmptyTogether
<1> QED BY <1>3, <1>4, <1>5, <1>6, <1>7 DEF alloc, carrying

\* What moving one item does to the items.
LEMMA MovedAt ==
  ASSUME Typed, NEW i \in Invoices, NEW o \in Nat, NEW b \in Nat,
         IsLive(items[i]), items' = [items EXCEPT ![i] = Moved(items[i], o, b)]
  PROVE  /\ items' \in [Invoices -> ItemType]
         /\ \A j \in Invoices \ {i} : items'[j] = items[j]
         /\ IsLive(items'[i]) /\ StatusFollows(items'[i])
         /\ items'[i].original = items[i].original
         /\ items'[i].originalBase = items[i].originalBase
         /\ items'[i].outstanding = o
         /\ items'[i].outstandingBase = b
<1> DEFINE m == Moved(items[i], o, b)
<1>1. items[i] \in ItemType /\ o \in Nat /\ b \in Nat
  BY DEF Typed, TypeOK
<1>2. /\ m \in ItemType /\ IsLive(m) /\ StatusFollows(m)
      /\ m.original = items[i].original /\ m.originalBase = items[i].originalBase
      /\ m.outstanding = o /\ m.outstandingBase = b
  BY ONLY <1>1, MovedItem
<1>3. items' = [items EXCEPT ![i] = m]
  OBVIOUS
<1> HIDE DEF m
<1> QED BY <1>2, <1>3 DEF Typed, TypeOK

\* What posting a credit note does to the item of its source invoice.
LEMMA PostCreditNoteEffect ==
  ASSUME Typed, NEW n \in CreditNotes, NEW v \in Nat, PostCreditNote(n, v),
         NEW i, i = note[n].source
  PROVE  /\ i \in Invoices
         /\ note' \in [CreditNotes -> NoteType]
         /\ \A m \in CreditNotes \ {n} : note'[m] = note[m]
         /\ note'[n].source = i /\ note'[n].total = note[n].total /\ note'[n].base > 0
         /\ items' \in [Invoices -> ItemType]
         /\ \A j \in Invoices \ {i} : items'[j] = items[j]
         /\ IsLive(items[i]) /\ IsLive(items'[i])
         /\ StatusFollows(items'[i]) /\ EmptyTogether(items'[i])
         /\ items'[i].original = items[i].original
         /\ items'[i].originalBase = items[i].originalBase
         /\ items'[i].outstanding = items[i].outstanding - note[n].total
         /\ items'[i].outstandingBase = items[i].outstandingBase - note'[n].base
         /\ note'[n].base \in Nat /\ Post(n, 0 - note'[n].base)
<1>1. PICK base \in BaseTotals(note[n].total, invoice[i].rate) :
        /\ CanCredit(items[i], note[n].total, base)
        /\ Post(n, 0 - base)
        /\ items' = [items EXCEPT ![i] =
             Moved(items[i], items[i].outstanding - note[n].total,
                   items[i].outstandingBase - base)]
        /\ note' = [note EXCEPT ![n].base = base]
  BY DEF PostCreditNote
<1>2. n \in Docs /\ docs[n].status = "DRAFT"
  BY DEF PostCreditNote, MarkPosted, Docs
<1>3. i \in Invoices /\ note[n].total \in Nat
  BY <1>2 DEF Typed, TypeOK, Drafted, NoteType
<1>4. items[i] \in ItemType /\ invoice[i].rate \in Nat
  BY <1>3 DEF Typed, TypeOK, InvoiceType
<1>5. base \in Nat
  BY <1>3, <1>4, BaseTotalsNat
<1>6. /\ base > 0 /\ IsLive(items[i])
      /\ items[i].outstanding - note[n].total \in Nat
      /\ items[i].outstandingBase - base \in Nat
      /\ items[i].outstanding = note[n].total <=> items[i].outstandingBase = base
  BY <1>1, <1>3, <1>4, <1>5 DEF CanCredit, ItemType
<1>7. /\ note' \in [CreditNotes -> NoteType]
      /\ \A m \in CreditNotes \ {n} : note'[m] = note[m]
      /\ note'[n].source = i /\ note'[n].total = note[n].total /\ note'[n].base = base
  BY <1>1, <1>5 DEF Typed, TypeOK, NoteType
<1>8. /\ items' \in [Invoices -> ItemType]
      /\ \A j \in Invoices \ {i} : items'[j] = items[j]
      /\ IsLive(items'[i]) /\ StatusFollows(items'[i])
      /\ items'[i].original = items[i].original
      /\ items'[i].originalBase = items[i].originalBase
      /\ items'[i].outstanding = items[i].outstanding - note[n].total
      /\ items'[i].outstandingBase = items[i].outstandingBase - base
  <2> DEFINE o == items[i].outstanding - note[n].total
             b == items[i].outstandingBase - base
  <2>1. items' = [items EXCEPT ![i] = Moved(items[i], o, b)]
    BY <1>1
  <2>2. i \in Invoices /\ o \in Nat /\ b \in Nat /\ IsLive(items[i])
    BY <1>3, <1>6
  <2> HIDE DEF o, b
  <2>3. /\ items' \in [Invoices -> ItemType]
        /\ \A j \in Invoices \ {i} : items'[j] = items[j]
        /\ IsLive(items'[i]) /\ StatusFollows(items'[i])
        /\ items'[i].original = items[i].original
        /\ items'[i].originalBase = items[i].originalBase
        /\ items'[i].outstanding = o /\ items'[i].outstandingBase = b
    BY ONLY Typed, <2>1, <2>2, MovedAt
  <2> QED BY <2>3 DEF o, b
<1>9. EmptyTogether(items'[i])
  <2>1. items[i].outstanding \in Nat /\ items[i].outstandingBase \in Nat
    BY <1>4 DEF ItemType
  <2>2. items'[i].outstanding = 0 <=> items[i].outstanding = note[n].total
    BY <1>3, <1>8, <2>1
  <2>3. items'[i].outstandingBase = 0 <=> items[i].outstandingBase = base
    BY <1>5, <1>8, <2>1
  <2> QED BY <1>6, <2>2, <2>3 DEF EmptyTogether
<1> QED BY <1>1, <1>3, <1>5, <1>6, <1>7, <1>8, <1>9

\* What reversing a credit note does to it.
LEMMA ReverseCreditNoteEffect ==
  ASSUME Typed, NEW n \in CreditNotes, NEW v \in Nat, NEW q \in Periods,
         ReverseCreditNote(n, v, q), NEW i, i = note[n].source
  PROVE  /\ i \in Invoices
         /\ items' \in [Invoices -> ItemType]
         /\ \A j \in Invoices \ {i} : items'[j] = items[j]
         /\ IsLive(items[i]) /\ IsLive(items'[i]) /\ StatusFollows(items'[i])
         /\ items'[i].original = items[i].original
         /\ items'[i].originalBase = items[i].originalBase
         /\ items'[i].outstanding = items[i].outstanding + note[n].total
         /\ items'[i].outstandingBase = items[i].outstandingBase + note[n].base
<1>1. /\ CanRestore(items[i], note[n].total, note[n].base)
      /\ items' = [items EXCEPT ![i] =
           Moved(items[i], items[i].outstanding + note[n].total,
                 items[i].outstandingBase + note[n].base)]
  BY DEF ReverseCreditNote
<1>2. n \in Docs /\ docs[n].status = "POSTED"
  BY DEF ReverseCreditNote, Reverse, Docs
<1>3. i \in Invoices /\ note[n].total \in Nat /\ note[n].base \in Nat
  BY <1>2 DEF Typed, TypeOK, Drafted, NoteType
<1>4. items[i] \in ItemType
  BY <1>3 DEF Typed, TypeOK
<1>5. /\ IsLive(items[i])
      /\ items[i].outstanding + note[n].total \in Nat
      /\ items[i].outstandingBase + note[n].base \in Nat
  BY <1>1, <1>3, <1>4 DEF CanRestore, ItemType
<1>6. /\ items' \in [Invoices -> ItemType]
      /\ \A j \in Invoices \ {i} : items'[j] = items[j]
      /\ IsLive(items'[i]) /\ StatusFollows(items'[i])
      /\ items'[i].original = items[i].original
      /\ items'[i].originalBase = items[i].originalBase
      /\ items'[i].outstanding = items[i].outstanding + note[n].total
      /\ items'[i].outstandingBase = items[i].outstandingBase + note[n].base
  <2> DEFINE o == items[i].outstanding + note[n].total
             b == items[i].outstandingBase + note[n].base
  <2>1. items' = [items EXCEPT ![i] = Moved(items[i], o, b)]
    BY <1>1
  <2>2. i \in Invoices /\ o \in Nat /\ b \in Nat /\ IsLive(items[i])
    BY <1>3, <1>5
  <2> HIDE DEF o, b
  <2>3. /\ items' \in [Invoices -> ItemType]
        /\ \A j \in Invoices \ {i} : items'[j] = items[j]
        /\ IsLive(items'[i]) /\ StatusFollows(items'[i])
        /\ items'[i].original = items[i].original
        /\ items'[i].originalBase = items[i].originalBase
        /\ items'[i].outstanding = o /\ items'[i].outstandingBase = b
    BY ONLY Typed, <2>1, <2>2, MovedAt
  <2> QED BY <2>3 DEF o, b
<1> QED BY <1>3, <1>5, <1>6

\* Posting a credit note keeps the types, because it takes what CanCredit allows.
LEMMA PostCreditNoteTyped ==
  ASSUME Typed, NEW n \in CreditNotes, NEW v \in Nat, PostCreditNote(n, v)
  PROVE  Typed'
<1>1. n \in Docs /\ MarkPosted(n, v) /\ UNCHANGED <<periods, year, invoice, receipt>>
  BY DEF PostCreditNote, Docs
<1>2. /\ note' \in [CreditNotes -> NoteType]
      /\ \A m \in CreditNotes : note'[m].source = note[m].source /\ note'[m].total = note[m].total
      /\ items' \in [Invoices -> ItemType]
  BY PostCreditNoteEffect
<1>3. PICK amount \in Nat : Post(n, 0 - amount)
  <2> DEFINE amount == note'[n].base
  <2>1. amount \in Nat /\ Post(n, 0 - amount)
    BY PostCreditNoteEffect
  <2> HIDE DEF amount
  <2> QED BY <2>1
<1>4. journal' \subseteq LineType
  BY <1>1, <1>3, PostTyped
<1>5. invoice' \in [Invoices -> InvoiceType] /\ receipt' \in [Receipts -> ReceiptType]
  BY <1>1 DEF Typed, TypeOK
<1>6. docs[n].status # "NONE" /\ \A x \in Docs \ {n} : docs'[x] = docs[x]
  BY <1>1, OthersKept
<1>7. /\ \A m \in CreditNotes :
           (docs[m].status # "NONE")' => note'[m].source \in Invoices /\ note'[m].total > 0
      /\ \A j \in Invoices : (docs[j].status # "NONE")' => invoice'[j].total > 0
  BY <1>1, <1>2, <1>6, DraftedKept
<1> QED BY <1>1, <1>2, <1>4, <1>5, <1>7, TypedCommand

\* Reversing a document keeps the types: what is restored was a natural amount.
LEMMA ReverseTypedStep ==
  ASSUME Typed, NEW d \in Docs, NEW v \in Nat, NEW q \in Periods, Reverse(d, v, q),
         items' \in [Invoices -> ItemType],
         UNCHANGED <<periods, year, invoice, note, receipt>>
  PROVE  Typed'
<1>1. journal' \subseteq LineType
  BY ReverseTyped
<1>2. /\ invoice' \in [Invoices -> InvoiceType]
      /\ note' \in [CreditNotes -> NoteType]
      /\ receipt' \in [Receipts -> ReceiptType]
  BY DEF Typed, TypeOK
<1>3. docs[d].status # "NONE" /\ \A x \in Docs \ {d} : docs'[x] = docs[x]
  BY OthersKept
<1>4. /\ \A n \in CreditNotes :
           (docs[n].status # "NONE")' => note'[n].source \in Invoices /\ note'[n].total > 0
      /\ \A i \in Invoices : (docs[i].status # "NONE")' => invoice'[i].total > 0
  BY <1>3, DraftedKept
<1> QED BY <1>1, <1>2, <1>4, TypedCommand

\* What the reversal of an invoice does to the item and the journal.
LEMMA ReverseInvoiceEffect ==
  ASSUME Typed, NEW i \in Invoices, NEW v \in Nat, NEW q \in Periods, ReverseInvoice(i, v, q)
  PROVE  /\ items' \in [Invoices -> ItemType]
         /\ \A j \in Invoices \ {i} : items'[j] = items[j]
         /\ IsLive(items[i])
         /\ items'[i].status = "REVERSED"
         /\ items'[i].outstanding = 0 /\ items'[i].outstandingBase = 0
         /\ items[i].outstanding = items[i].original
         /\ items[i].outstandingBase = items[i].originalBase
<1> DEFINE reversed == [items[i] EXCEPT !.status = "REVERSED",
                                        !.outstanding = 0, !.outstandingBase = 0]
<1>1. /\ items[i].status = "OPEN"
      /\ items[i].outstanding = items[i].original
      /\ items[i].outstandingBase = items[i].originalBase
      /\ items' = [items EXCEPT ![i].status = "REVERSED",
                                ![i].outstanding = 0, ![i].outstandingBase = 0]
  BY DEF ReverseInvoice
<1>2. items \in [Invoices -> ItemType] /\ items[i] \in ItemType
  BY DEF Typed, TypeOK
<1>3. /\ reversed \in ItemType /\ reversed.status = "REVERSED"
      /\ reversed.outstanding = 0 /\ reversed.outstandingBase = 0
  BY <1>2 DEF ItemType, ItemStatus
<1>4. items' = [items EXCEPT ![i] = reversed]
  BY ONLY <1>1, <1>2 DEF ItemType
<1> HIDE DEF reversed
<1>5. /\ items' \in [Invoices -> ItemType]
      /\ \A j \in Invoices \ {i} : items'[j] = items[j]
      /\ items'[i].status = "REVERSED"
      /\ items'[i].outstanding = 0 /\ items'[i].outstandingBase = 0
  BY ONLY <1>2, <1>3, <1>4, i \in Invoices
<1>6. IsLive(items[i])
  BY <1>1 DEF IsLive
<1> QED BY <1>1, <1>5, <1>6

\* Cancelling a draft keeps the types.
LEMMA CancelTyped ==
  ASSUME Typed, NEW d \in Docs, NEW v \in Nat, Cancel(d, v)
  PROVE  Typed'
<1>1. docs[d].status = "DRAFT" /\ \A x \in Docs \ {d} : docs'[x] = docs[x]
  BY DEF Cancel, Typed, TypeOK
<1>2. UNCHANGED <<periods, year, invoice, note, receipt, items, journal>>
  BY DEF Cancel
<1>3. /\ invoice' \in [Invoices -> InvoiceType]
      /\ note' \in [CreditNotes -> NoteType]
      /\ receipt' \in [Receipts -> ReceiptType]
      /\ items' \in [Invoices -> ItemType]
      /\ journal' \subseteq LineType
  BY <1>2 DEF Typed, TypeOK
<1>4. /\ \A n \in CreditNotes :
           (docs[n].status # "NONE")' => note'[n].source \in Invoices /\ note'[n].total > 0
      /\ \A i \in Invoices : (docs[i].status # "NONE")' => invoice'[i].total > 0
  BY <1>1, <1>2, DraftedKept
<1> QED BY <1>2, <1>3, <1>4, TypedCommand

\* Closing and reopening periods keep the types.
LEMMA ClosingTyped ==
  ASSUME Typed, NEW p \in Periods, NEW v \in Nat, ClosePeriod(p, v) \/ ReopenPeriod(p, v)
  PROVE  Typed'
<1>1. UNCHANGED <<docs, invoice, note, receipt, items, journal>>
  BY DEF ClosePeriod, ReopenPeriod
<1>2. periods' \in [Periods -> PeriodType] /\ year' \in {"OPEN", "CLOSED"}
  BY DEF ClosePeriod, ReopenPeriod, Typed, TypeOK, PeriodType, PeriodStatus
<1> QED BY <1>1, <1>2 DEF Typed, TypeOK, Drafted

\* Every step keeps the types.
LEMMA TypedStep == Typed /\ [Next]_vars => Typed'
<1> SUFFICES ASSUME Typed, [Next]_vars PROVE Typed'
  OBVIOUS
<1>0. /\ \A v \in Versions : v \in Nat
      /\ \A v \in 0 .. MaxReopen : v \in Nat
  BY NumbersAssumption DEF Versions
<1>1. ASSUME NEW d \in Docs, NEW v \in Versions, Cancel(d, v) PROVE Typed'
  BY <1>0, <1>1, CancelTyped
<1>2. ASSUME NEW i \in Invoices, NEW p \in Periods, NEW t \in Amounts, NEW x \in Rates,
             CreateInvoice(i, p, t, x) \/ \E v \in Versions : UpdateInvoice(i, v, p, t, x)
      PROVE  Typed'
  BY <1>0, <1>2, DraftInvoiceTyped
<1>3. ASSUME NEW n \in CreditNotes, NEW p \in Periods, NEW i \in Invoices, NEW t \in Amounts,
             CreateCreditNote(n, p, i, t) \/ \E v \in Versions : UpdateCreditNote(n, v, p, i, t)
      PROVE  Typed'
  BY <1>0, <1>3, DraftCreditNoteTyped
<1>4. ASSUME NEW r \in Receipts, NEW p \in Periods, NEW a \in Allocations,
             CreateReceipt(r, p, a) \/ \E v \in Versions : UpdateReceipt(r, v, p, a)
      PROVE  Typed'
  BY <1>0, <1>4, DraftReceiptTyped
<1>5. CASE Posting
  BY <1>0, <1>5, PostInvoiceTyped, PostCreditNoteTyped, PostReceiptTyped DEF Posting
<1>6. ASSUME NEW v \in Nat, NEW q \in Periods, NEW i \in Invoices, ReverseInvoice(i, v, q)
      PROVE  Typed'
  <2>1. i \in Docs /\ Reverse(i, v, q) /\ UNCHANGED <<periods, year, invoice, note, receipt>>
    BY <1>6 DEF ReverseInvoice, Docs
  <2>2. items' \in [Invoices -> ItemType]
    BY <1>6, ReverseInvoiceEffect
  <2> QED BY <2>1, <2>2, ReverseTypedStep
<1>7. ASSUME NEW v \in Nat, NEW q \in Periods, NEW n \in CreditNotes, ReverseCreditNote(n, v, q)
      PROVE  Typed'
  <2>1. n \in Docs /\ Reverse(n, v, q) /\ UNCHANGED <<periods, year, invoice, note, receipt>>
    BY <1>7 DEF ReverseCreditNote, Docs
  <2>2. items' \in [Invoices -> ItemType]
    BY <1>7, ReverseCreditNoteEffect
  <2> QED BY <2>1, <2>2, ReverseTypedStep
<1>8. ASSUME NEW v \in Nat, NEW q \in Periods, NEW r \in Receipts, ReverseReceipt(r, v, q)
      PROVE  Typed'
  <2>1. r \in Docs /\ Reverse(r, v, q) /\ UNCHANGED <<periods, year, invoice, note, receipt>>
    BY <1>8 DEF ReverseReceipt, Docs
  <2>2. items' \in [Invoices -> ItemType]
    BY <1>8, ReverseReceiptEffect
  <2> QED BY <2>1, <2>2, ReverseTypedStep
<1>9. CASE Reversing
  BY <1>0, <1>6, <1>7, <1>8, <1>9 DEF Reversing
<1>10. CASE Closing
  BY <1>0, <1>10, ClosingTyped DEF Closing
<1>11. CASE Drafting
  BY <1>1, <1>2, <1>3, <1>4, <1>11 DEF Drafting
<1>12. CASE UNCHANGED vars
  BY <1>12 DEF vars, Typed, TypeOK, Drafted
<1> QED BY <1>5, <1>9, <1>10, <1>11, <1>12 DEF Next

(***************************************************************************)
(* The rows of the tables keep their types in every reachable state, and   *)
(* no amount or base amount of an item ever goes below zero.               *)
(***************************************************************************)
THEOREM TypeCorrect == Spec => []TypeOK
<1>1. Typed => TypeOK
  BY DEF Typed
<1> QED BY TypedInit, TypedStep, <1>1, PTL DEF Spec

-----------------------------------------------------------------------------
(* What is outstanding is what the posted documents have not settled.  The *)
(* sums alone are not inductive: a new item must find no document already  *)
(* posted against its invoice, and a reversed one must leave none.         *)

\* An invoice has a live item while it is posted, and a dead one once reversed.
ItemFollowsInvoice ==
  \A i \in Invoices :
    /\ IsLive(items[i]) <=> docs[i].status = "POSTED"
    /\ items[i].status = "REVERSED" <=> docs[i].status = "REVERSED"

\* Receipts and credit notes are posted only against posted invoices.
SettledIsPosted ==
  /\ \A r \in Receipts, i \in Invoices : Posted(r) /\ receipt[r].alloc[i] > 0 => Posted(i)
  /\ \A n \in CreditNotes : Posted(n) => Posted(note[n].source)

\* A posted allocation carries a base amount, and only an allocation does.
PostedCarriesBase ==
  /\ \A r \in Receipts, i \in Invoices :
       Posted(r) => (receipt[r].alloc[i] > 0 <=> receipt[r].carrying[i] > 0)
  /\ \A n \in CreditNotes : Posted(n) => note[n].base > 0

Balanced == OutstandingIsUnsettled /\ OutstandingBaseIsUnsettled

IInv == ItemFollowsInvoice /\ SettledIsPosted /\ PostedCarriesBase /\ Balanced

\* The settled amounts are natural numbers.
LEMMA SettledNat ==
  ASSUME Typed, NEW i \in Invoices
  PROVE  /\ Received(i) \in Nat /\ ReceivedBase(i) \in Nat
         /\ Credited(i) \in Nat /\ CreditedBase(i) \in Nat
<1>1. /\ \A r \in Receipts : receipt[r].alloc[i] \in Nat /\ receipt[r].carrying[i] \in Nat
      /\ \A n \in CreditNotes : note[n].total \in Nat /\ note[n].base \in Nat
  BY DEF Typed, TypeOK, ReceiptType, NoteType
<1>2. Received(i) \in Nat /\ ReceivedBase(i) \in Nat
  BY <1>1, TotalType, DocumentsAssumption DEF Received, ReceivedBase
<1>3. Credited(i) \in Nat /\ CreditedBase(i) \in Nat
  BY <1>1, TotalType, DocumentsAssumption DEF Credited, CreditedBase
<1> QED BY <1>2, <1>3

\* The receipts posted stay the same, with the same allocations.
SameReceipts ==
  \A r \in Receipts : Posted(r)' = Posted(r) /\ (Posted(r) => receipt'[r] = receipt[r])

\* The credit notes posted stay the same, with the same amounts.
SameCreditNotes ==
  \A n \in CreditNotes : Posted(n)' = Posted(n) /\ (Posted(n) => note'[n] = note[n])

\* The receipts of an invoice add up to the same as long as no receipt changes.
LEMMA ReceivedKept ==
  ASSUME SameReceipts, NEW i \in Invoices
  PROVE  Received(i)' = Received(i) /\ ReceivedBase(i)' = ReceivedBase(i)
<1> DEFINE f == [r \in Receipts |-> IF Posted(r) THEN receipt[r].alloc[i] ELSE 0]
           g == [r \in Receipts |-> IF Posted(r) THEN receipt[r].carrying[i] ELSE 0]
<1>1. \A r \in Receipts : f'[r] = f[r] /\ g'[r] = g[r]
  BY DEF SameReceipts
<1>2. Total(Receipts, f') = Total(Receipts, f) /\ Total(Receipts, g') = Total(Receipts, g)
  BY <1>1, TotalSame
<1> QED BY <1>2 DEF Received, ReceivedBase

\* The credits of an invoice add up to the same as long as no credit note changes.
LEMMA CreditedKept ==
  ASSUME SameCreditNotes, NEW i \in Invoices
  PROVE  Credited(i)' = Credited(i) /\ CreditedBase(i)' = CreditedBase(i)
<1> DEFINE f == [n \in CreditNotes |-> IF CreditOf(n, i) THEN note[n].total ELSE 0]
           g == [n \in CreditNotes |-> IF CreditOf(n, i) THEN note[n].base ELSE 0]
<1>1. \A n \in CreditNotes : f'[n] = f[n] /\ g'[n] = g[n]
  BY DEF SameCreditNotes, CreditOf
<1>2. Total(CreditNotes, f') = Total(CreditNotes, f) /\ Total(CreditNotes, g') = Total(CreditNotes, g)
  BY <1>1, TotalSame
<1> QED BY <1>2 DEF Credited, CreditedBase

\* What one receipt, or one credit note, contributes.
Took(r, i) == IF Posted(r) THEN receipt[r].alloc[i] ELSE 0
TookBase(r, i) == IF Posted(r) THEN receipt[r].carrying[i] ELSE 0
Credit(n, i) == IF CreditOf(n, i) THEN note[n].total ELSE 0
CreditBase(n, i) == IF CreditOf(n, i) THEN note[n].base ELSE 0

\* When one receipt changes, what an invoice received changes by its allocation.
LEMMA ReceivedChanged ==
  ASSUME Typed, Typed', NEW i \in Invoices, NEW r \in Receipts,
         \A s \in Receipts \ {r} :
           Posted(s)' = Posted(s) /\ (Posted(s) => receipt'[s] = receipt[s])
  PROVE  /\ Received(i)' = Received(i) - Took(r, i) + Took(r, i)'
         /\ ReceivedBase(i)' = ReceivedBase(i) - TookBase(r, i) + TookBase(r, i)'
<1> DEFINE f == [s \in Receipts |-> IF Posted(s) THEN receipt[s].alloc[i] ELSE 0]
           g == [s \in Receipts |-> IF Posted(s) THEN receipt[s].carrying[i] ELSE 0]
<1>1. \A s \in Receipts : /\ f[s] \in Nat /\ f'[s] \in Nat
                          /\ g[s] \in Nat /\ g'[s] \in Nat
  BY DEF Typed, TypeOK, ReceiptType
<1>2. \A s \in Receipts \ {r} : f[s] = f'[s] /\ g[s] = g'[s]
  OBVIOUS
<1>3. /\ f[r] = Took(r, i) /\ f'[r] = Took(r, i)'
      /\ g[r] = TookBase(r, i) /\ g'[r] = TookBase(r, i)'
  BY DEF Took, TookBase
<1>4. Received(i) = Total(Receipts, f) /\ Received(i)' = Total(Receipts, f')
  BY DEF Received
<1>5. ReceivedBase(i) = Total(Receipts, g) /\ ReceivedBase(i)' = Total(Receipts, g')
  BY DEF ReceivedBase
<1> HIDE DEF f, g
<1>6. IsFiniteSet(Receipts)
  BY DocumentsAssumption
<1>7. Total(Receipts, f') = Total(Receipts, f) - f[r] + f'[r]
  BY <1>1, <1>2, <1>6, TotalChange
<1>8. Total(Receipts, g') = Total(Receipts, g) - g[r] + g'[r]
  BY <1>1, <1>2, <1>6, TotalChange
<1> QED BY <1>3, <1>4, <1>5, <1>7, <1>8

\* When one credit note changes, what an invoice was credited changes by its total.
LEMMA CreditedChanged ==
  ASSUME Typed, Typed', NEW i \in Invoices, NEW n \in CreditNotes,
         \A m \in CreditNotes \ {n} :
           Posted(m)' = Posted(m) /\ (Posted(m) => note'[m] = note[m])
  PROVE  /\ Credited(i)' = Credited(i) - Credit(n, i) + Credit(n, i)'
         /\ CreditedBase(i)' = CreditedBase(i) - CreditBase(n, i) + CreditBase(n, i)'
<1> DEFINE f == [m \in CreditNotes |-> IF CreditOf(m, i) THEN note[m].total ELSE 0]
           g == [m \in CreditNotes |-> IF CreditOf(m, i) THEN note[m].base ELSE 0]
<1>1. \A m \in CreditNotes : /\ f[m] \in Nat /\ f'[m] \in Nat
                             /\ g[m] \in Nat /\ g'[m] \in Nat
  BY DEF Typed, TypeOK, NoteType
<1>2. \A m \in CreditNotes \ {n} : f[m] = f'[m] /\ g[m] = g'[m]
  BY DEF CreditOf
<1>3. /\ f[n] = Credit(n, i) /\ f'[n] = Credit(n, i)'
      /\ g[n] = CreditBase(n, i) /\ g'[n] = CreditBase(n, i)'
  BY DEF Credit, CreditBase
<1>4. Credited(i) = Total(CreditNotes, f) /\ Credited(i)' = Total(CreditNotes, f')
  BY DEF Credited
<1>5. CreditedBase(i) = Total(CreditNotes, g) /\ CreditedBase(i)' = Total(CreditNotes, g')
  BY DEF CreditedBase
<1> HIDE DEF f, g
<1>6. IsFiniteSet(CreditNotes)
  BY DocumentsAssumption
<1>7. Total(CreditNotes, f') = Total(CreditNotes, f) - f[n] + f'[n]
  BY <1>1, <1>2, <1>6, TotalChange
<1>8. Total(CreditNotes, g') = Total(CreditNotes, g) - g[n] + g'[n]
  BY <1>1, <1>2, <1>6, TotalChange
<1> QED BY <1>3, <1>4, <1>5, <1>7, <1>8

\* A total is zero exactly when no posted document settles any of the invoice.
LEMMA NothingSettled ==
  ASSUME Typed, NEW i \in Invoices
  PROVE  /\ Received(i) = 0 <=> \A r \in Receipts : Took(r, i) = 0
         /\ ReceivedBase(i) = 0 <=> \A r \in Receipts : TookBase(r, i) = 0
         /\ Credited(i) = 0 <=> \A n \in CreditNotes : Credit(n, i) = 0
         /\ CreditedBase(i) = 0 <=> \A n \in CreditNotes : CreditBase(n, i) = 0
<1> DEFINE f == [r \in Receipts |-> IF Posted(r) THEN receipt[r].alloc[i] ELSE 0]
           g == [r \in Receipts |-> IF Posted(r) THEN receipt[r].carrying[i] ELSE 0]
           h == [n \in CreditNotes |-> IF CreditOf(n, i) THEN note[n].total ELSE 0]
           k == [n \in CreditNotes |-> IF CreditOf(n, i) THEN note[n].base ELSE 0]
<1>2. /\ \A r \in Receipts : f[r] = Took(r, i) /\ g[r] = TookBase(r, i)
      /\ \A n \in CreditNotes : h[n] = Credit(n, i) /\ k[n] = CreditBase(n, i)
  BY DEF Took, TookBase, Credit, CreditBase
<1>3. /\ \A r \in Receipts : f[r] \in Nat /\ g[r] \in Nat
      /\ \A n \in CreditNotes : h[n] \in Nat /\ k[n] \in Nat
  BY DEF Typed, TypeOK, ReceiptType, NoteType
<1>4. /\ Received(i) = Total(Receipts, f) /\ ReceivedBase(i) = Total(Receipts, g)
      /\ Credited(i) = Total(CreditNotes, h) /\ CreditedBase(i) = Total(CreditNotes, k)
  BY DEF Received, ReceivedBase, Credited, CreditedBase
<1> HIDE DEF f, g, h, k
<1>5. /\ Received(i) = 0 <=> \A r \in Receipts : f[r] = 0
      /\ ReceivedBase(i) = 0 <=> \A r \in Receipts : g[r] = 0
  BY <1>3, <1>4, TotalIsZero, DocumentsAssumption
<1>6. /\ Credited(i) = 0 <=> \A n \in CreditNotes : h[n] = 0
      /\ CreditedBase(i) = 0 <=> \A n \in CreditNotes : k[n] = 0
  BY <1>3, <1>4, TotalIsZero, DocumentsAssumption
<1> QED BY <1>2, <1>5, <1>6

\* The invariant holds initially.
LEMMA IInvInit == Init => IInv
<1> SUFFICES ASSUME Init PROVE IInv
  OBVIOUS
<1>1. \A d \in Docs : docs[d].status = "NONE"
  BY DEF Init
<1>2. \A i \in Invoices : items[i].status = "NONE"
  BY DEF Init, NoItem
<1>3. \A d \in Docs : ~ Posted(d)
  BY <1>1 DEF Posted
<1> QED
  BY <1>1, <1>2, <1>3
  DEF IInv, ItemFollowsInvoice, SettledIsPosted, PostedCarriesBase, Balanced, IsLive, Docs,
      OutstandingIsUnsettled, OutstandingBaseIsUnsettled

\* A step that posts and reverses nothing preserves the invariant.
LEMMA QuietStep ==
  ASSUME Typed, Typed', IInv, items' = items, SameReceipts, SameCreditNotes,
         \A i \in Invoices : /\ Posted(i)' = Posted(i)
                             /\ docs'[i].status = "REVERSED" <=> docs[i].status = "REVERSED"
  PROVE  IInv'
<1>1. ItemFollowsInvoice'
  BY DEF IInv, ItemFollowsInvoice, Posted
<1>2. SettledIsPosted'
  <2>1. \A n \in CreditNotes : Posted(n) => note[n].source \in Invoices
    BY DEF Typed, Drafted, Posted, Docs
  <2> QED BY <2>1 DEF IInv, SettledIsPosted, SameReceipts, SameCreditNotes
<1>3. PostedCarriesBase'
  BY DEF IInv, PostedCarriesBase, SameReceipts, SameCreditNotes
<1>4. \A i \in Invoices : /\ Received(i)' = Received(i) /\ ReceivedBase(i)' = ReceivedBase(i)
                          /\ Credited(i)' = Credited(i) /\ CreditedBase(i)' = CreditedBase(i)
  BY ReceivedKept, CreditedKept
<1>5. Balanced'
  BY <1>4 DEF IInv, Balanced, OutstandingIsUnsettled, OutstandingBaseIsUnsettled
<1> QED BY <1>1, <1>2, <1>3, <1>5 DEF IInv

\* What MarkPosted and Reverse do to the status of a document.
LEMMA Marked ==
  ASSUME Typed, NEW d \in Docs, NEW v \in Nat
  PROVE  /\ MarkPosted(d, v) =>
              /\ docs[d].status = "DRAFT" /\ docs'[d].status = "POSTED"
              /\ \A x \in Docs \ {d} : docs'[x] = docs[x]
         /\ \A q \in Periods : Reverse(d, v, q) =>
              /\ docs[d].status = "POSTED" /\ docs'[d].status = "REVERSED"
              /\ \A x \in Docs \ {d} : docs'[x] = docs[x]
BY DEF MarkPosted, Reverse, Typed, TypeOK, DocType

\* A new item finds nothing settled.
LEMMA PostInvoiceIInv ==
  ASSUME Typed, Typed', IInv, NEW i \in Invoices, NEW v \in Nat, PostInvoice(i, v)
  PROVE  IInv'
<1>1. PICK base \in BaseTotals(invoice[i].total, invoice[i].rate) :
        items' = [items EXCEPT ![i] =
             [status |-> "OPEN",
              original |-> invoice[i].total, outstanding |-> invoice[i].total,
              originalBase |-> base, outstandingBase |-> base]]
  BY DEF PostInvoice
<1>2. i \in Docs /\ MarkPosted(i, v) /\ note' = note /\ receipt' = receipt
  BY DEF PostInvoice, Docs
<1>3. /\ docs[i].status = "DRAFT" /\ docs'[i].status = "POSTED"
      /\ \A x \in Docs \ {i} : docs'[x] = docs[x]
  BY <1>2, Marked
<1>4. /\ items'[i].status = "OPEN"
      /\ items'[i].outstanding = items'[i].original
      /\ items'[i].outstandingBase = items'[i].originalBase
      /\ \A j \in Invoices \ {i} : items'[j] = items[j]
  BY <1>1 DEF Typed, TypeOK
<1>5. SameReceipts /\ SameCreditNotes
  BY <1>2, <1>3, DocumentsAssumption DEF SameReceipts, SameCreditNotes, Posted, Docs
<1>6. \A j \in Invoices : Posted(j) => Posted(j)'
  BY <1>3 DEF Posted, Docs
<1>7. ItemFollowsInvoice'
  BY <1>3, <1>4 DEF IInv, ItemFollowsInvoice, IsLive, Docs
<1>8. SettledIsPosted'
  <2>1. \A n \in CreditNotes : Posted(n) => note[n].source \in Invoices
    BY DEF Typed, Drafted, Posted, Docs
  <2> QED BY <1>2, <1>5, <1>6, <2>1 DEF IInv, SettledIsPosted, SameReceipts, SameCreditNotes
<1>9. PostedCarriesBase'
  BY <1>5 DEF IInv, PostedCarriesBase, SameReceipts, SameCreditNotes
<1>10. Received(i) = 0 /\ ReceivedBase(i) = 0 /\ Credited(i) = 0 /\ CreditedBase(i) = 0
  <2>1. ~ Posted(i)
    BY <1>3 DEF Posted
  <2>2. ASSUME NEW r \in Receipts PROVE Took(r, i) = 0 /\ TookBase(r, i) = 0
    <3>1. receipt[r].alloc[i] \in Nat /\ receipt[r].carrying[i] \in Nat
      BY DEF Typed, TypeOK, ReceiptType
    <3> QED BY <2>1, <3>1 DEF IInv, SettledIsPosted, PostedCarriesBase, Took, TookBase
  <2>3. \A n \in CreditNotes : Credit(n, i) = 0 /\ CreditBase(n, i) = 0
    BY <2>1 DEF IInv, SettledIsPosted, Credit, CreditBase, CreditOf
  <2> QED BY <2>2, <2>3, NothingSettled
<1>11. \A j \in Invoices : /\ Received(j)' = Received(j) /\ ReceivedBase(j)' = ReceivedBase(j)
                           /\ Credited(j)' = Credited(j) /\ CreditedBase(j)' = CreditedBase(j)
  BY <1>5, ReceivedKept, CreditedKept
<1>12. items'[i] \in ItemType
  BY DEF Typed, TypeOK
<1>13. Balanced'
  <2>1. ASSUME NEW j \in Invoices, IsLive(items[j])'
        PROVE  /\ items'[j].outstanding + Received(j)' + Credited(j)' = items'[j].original
               /\ items'[j].outstandingBase + ReceivedBase(j)' + CreditedBase(j)'
                    = items'[j].originalBase
    <3>1. CASE j = i
      BY <1>4, <1>10, <1>11, <1>12, <3>1 DEF ItemType
    <3>2. CASE j # i
      BY <1>4, <1>11, <2>1, <3>2
      DEF IInv, Balanced, OutstandingIsUnsettled, OutstandingBaseIsUnsettled
    <3> QED BY <3>1, <3>2
  <2> QED BY <2>1 DEF Balanced, OutstandingIsUnsettled, OutstandingBaseIsUnsettled
<1> QED BY <1>7, <1>8, <1>9, <1>13 DEF IInv

\* A receipt takes from each item what it adds to the settled amount.
LEMMA PostReceiptIInv ==
  ASSUME Typed, Typed', IInv, NEW r \in Receipts, NEW v \in Nat, PostReceipt(r, v)
  PROVE  IInv'
<1>1. r \in Docs /\ MarkPosted(r, v) /\ note' = note
  BY DEF PostReceipt, Docs
<1>2. /\ docs[r].status = "DRAFT" /\ docs'[r].status = "POSTED"
      /\ \A x \in Docs \ {r} : docs'[x] = docs[x]
  BY <1>1, Marked
<1>3. /\ receipt'[r].alloc = receipt[r].alloc
      /\ \A s \in Receipts \ {r} : receipt'[s] = receipt[s]
  BY PostReceiptEffect
<1>4. \A i \in Invoices :
        IF receipt[r].alloc[i] > 0
        THEN /\ IsLive(items[i]) /\ IsLive(items'[i])
             /\ items'[i].original = items[i].original
             /\ items'[i].originalBase = items[i].originalBase
             /\ items'[i].outstanding = items[i].outstanding - receipt[r].alloc[i]
             /\ items'[i].outstandingBase = items[i].outstandingBase - receipt'[r].carrying[i]
             /\ receipt'[r].carrying[i] > 0
        ELSE items'[i] = items[i] /\ receipt'[r].carrying[i] = 0
  BY PostReceiptEffect
<1>5. \A i \in Invoices : docs'[i] = docs[i] /\ (Posted(i)' <=> Posted(i))
  BY <1>2, DocumentsAssumption DEF Docs, Posted
<1>6. SameCreditNotes
  BY <1>1, <1>2, DocumentsAssumption DEF SameCreditNotes, Posted, Docs
<1>7. \A s \in Receipts \ {r} : Posted(s)' = Posted(s) /\ receipt'[s] = receipt[s]
  BY <1>2, <1>3 DEF Posted, Docs
<1>8. Posted(r)' /\ ~ Posted(r)
  BY <1>2 DEF Posted
<1>9. ItemFollowsInvoice'
  <2>1. ASSUME NEW i \in Invoices
        PROVE  /\ IsLive(items[i])' <=> docs'[i].status = "POSTED"
               /\ items'[i].status = "REVERSED" <=> docs'[i].status = "REVERSED"
    <3>1. CASE receipt[r].alloc[i] > 0
      <4>1. IsLive(items[i]) /\ IsLive(items[i])'
        BY <1>4, <3>1
      <4> QED BY <1>5, <4>1 DEF IInv, ItemFollowsInvoice, IsLive
    <3>2. CASE ~ (receipt[r].alloc[i] > 0)
      BY <1>4, <1>5, <3>2 DEF IInv, ItemFollowsInvoice
    <3> QED BY <3>1, <3>2
  <2> QED BY <2>1 DEF ItemFollowsInvoice
<1>10. SettledIsPosted'
  <2>1. \A i \in Invoices : receipt[r].alloc[i] > 0 => Posted(i)
    BY <1>4 DEF IInv, ItemFollowsInvoice, Posted
  <2>2. \A n \in CreditNotes : Posted(n) => note[n].source \in Invoices
    BY DEF Typed, Drafted, Posted, Docs
  <2>3. \A s \in Receipts, i \in Invoices : Posted(s)' /\ receipt'[s].alloc[i] > 0 => Posted(i)'
    BY <1>3, <1>5, <1>7, <2>1 DEF IInv, SettledIsPosted
  <2>4. (\A n \in CreditNotes : Posted(n) => Posted(note[n].source))'
    BY <1>1, <1>5, <1>6, <2>2 DEF IInv, SettledIsPosted, SameCreditNotes, Posted
  <2> QED BY <1>1, <2>3, <2>4 DEF SettledIsPosted
<1>11. PostedCarriesBase'
  BY <1>3, <1>4, <1>6, <1>7 DEF IInv, PostedCarriesBase, SameCreditNotes
<1>12. Balanced'
  <2>1. ASSUME NEW i \in Invoices, IsLive(items[i])'
        PROVE  /\ items'[i].outstanding + Received(i)' + Credited(i)' = items'[i].original
               /\ items'[i].outstandingBase + ReceivedBase(i)' + CreditedBase(i)'
                    = items'[i].originalBase
    <3>1. Credited(i)' = Credited(i) /\ CreditedBase(i)' = CreditedBase(i)
      BY <1>6, CreditedKept
    <3>2. /\ Received(i)' = Received(i) - Took(r, i) + Took(r, i)'
          /\ ReceivedBase(i)' = ReceivedBase(i) - TookBase(r, i) + TookBase(r, i)'
      BY <1>7, ReceivedChanged
    <3>3. /\ Took(r, i) = 0 /\ Took(r, i)' = receipt[r].alloc[i]
          /\ TookBase(r, i) = 0 /\ TookBase(r, i)' = receipt'[r].carrying[i]
      BY <1>3, <1>8 DEF Took, TookBase
    <3>4. /\ IsLive(items[i])
          /\ items'[i].original = items[i].original
          /\ items'[i].originalBase = items[i].originalBase
          /\ items'[i].outstanding = items[i].outstanding - receipt[r].alloc[i]
          /\ items'[i].outstandingBase = items[i].outstandingBase - receipt'[r].carrying[i]
      <4>1. items[i] \in ItemType /\ receipt[r].alloc[i] \in Nat
        BY DEF Typed, TypeOK, ReceiptType
      <4>2. CASE receipt[r].alloc[i] > 0
        BY <1>4, <4>2
      <4>3. CASE receipt[r].alloc[i] = 0
        BY <1>4, <2>1, <4>1, <4>3 DEF ItemType
      <4> QED BY <4>1, <4>2, <4>3
    <3>5. /\ items[i].outstanding + Received(i) + Credited(i) = items[i].original
          /\ items[i].outstandingBase + ReceivedBase(i) + CreditedBase(i) = items[i].originalBase
      BY <3>4 DEF IInv, Balanced, OutstandingIsUnsettled, OutstandingBaseIsUnsettled
    <3>6. /\ Received(i) \in Nat /\ ReceivedBase(i) \in Nat
          /\ Credited(i) \in Nat /\ CreditedBase(i) \in Nat
      BY SettledNat
    <3>7. /\ items[i] \in ItemType /\ receipt[r].alloc[i] \in Nat
          /\ receipt'[r].carrying[i] \in Nat
      BY DEF Typed, TypeOK, ReceiptType
    <3> QED BY <3>1, <3>2, <3>3, <3>4, <3>5, <3>6, <3>7 DEF ItemType
  <2> QED BY <2>1 DEF Balanced, OutstandingIsUnsettled, OutstandingBaseIsUnsettled
<1> QED BY <1>9, <1>10, <1>11, <1>12 DEF IInv

\* A credit note takes from its source's item what it adds to the credited amount.
LEMMA PostCreditNoteIInv ==
  ASSUME Typed, Typed', IInv, NEW n \in CreditNotes, NEW v \in Nat, PostCreditNote(n, v)
  PROVE  IInv'
<1> DEFINE i == note[n].source
<1>1. n \in Docs /\ MarkPosted(n, v) /\ receipt' = receipt
  BY DEF PostCreditNote, Docs
<1>2. /\ docs[n].status = "DRAFT" /\ docs'[n].status = "POSTED"
      /\ \A x \in Docs \ {n} : docs'[x] = docs[x]
  BY <1>1, Marked
<1>3. /\ i \in Invoices
      /\ \A m \in CreditNotes \ {n} : note'[m] = note[m]
      /\ note'[n].source = i /\ note'[n].total = note[n].total /\ note'[n].base > 0
      /\ \A j \in Invoices \ {i} : items'[j] = items[j]
      /\ IsLive(items[i]) /\ IsLive(items'[i])
      /\ items'[i].original = items[i].original
      /\ items'[i].originalBase = items[i].originalBase
      /\ items'[i].outstanding = items[i].outstanding - note[n].total
      /\ items'[i].outstandingBase = items[i].outstandingBase - note'[n].base
  BY PostCreditNoteEffect
<1> HIDE DEF i
<1>4. \A j \in Invoices : docs'[j] = docs[j] /\ (Posted(j)' <=> Posted(j))
  BY <1>2, DocumentsAssumption DEF Docs, Posted
<1>5. SameReceipts
  BY <1>1, <1>2, DocumentsAssumption DEF SameReceipts, Posted, Docs
<1>6. \A m \in CreditNotes \ {n} : Posted(m)' = Posted(m) /\ note'[m] = note[m]
  BY <1>2, <1>3 DEF Posted, Docs
<1>7. Posted(n)' /\ ~ Posted(n)
  BY <1>2 DEF Posted
<1>8. ItemFollowsInvoice'
  <2>1. ASSUME NEW j \in Invoices
        PROVE  /\ IsLive(items[j])' <=> docs'[j].status = "POSTED"
               /\ items'[j].status = "REVERSED" <=> docs'[j].status = "REVERSED"
    <3>1. CASE j = i
      BY <1>3, <1>4, <3>1 DEF IInv, ItemFollowsInvoice, IsLive
    <3>2. CASE j # i
      BY <1>3, <1>4, <3>2 DEF IInv, ItemFollowsInvoice
    <3> QED BY <3>1, <3>2
  <2> QED BY <2>1 DEF ItemFollowsInvoice
<1>9. SettledIsPosted'
  <2>1. docs'[i].status = "POSTED"
    BY <1>3, <1>4 DEF IInv, ItemFollowsInvoice, Posted
  <2>2. \A m \in CreditNotes : Posted(m) => note[m].source \in Invoices
    BY DEF Typed, Drafted, Posted, Docs
  <2>3. \A s \in Receipts, j \in Invoices : Posted(s)' /\ receipt'[s].alloc[j] > 0 => Posted(j)'
    BY <1>1, <1>4, <1>5 DEF IInv, SettledIsPosted, SameReceipts
  <2>4. (\A m \in CreditNotes : Posted(m) => Posted(note[m].source))'
    BY <1>3, <1>4, <1>6, <2>1, <2>2 DEF IInv, SettledIsPosted, Posted
  <2> QED BY <2>3, <2>4 DEF SettledIsPosted
<1>10. PostedCarriesBase'
  BY <1>1, <1>3, <1>5, <1>6 DEF IInv, PostedCarriesBase, SameReceipts
<1>11. Balanced'
  <2>1. ASSUME NEW j \in Invoices, IsLive(items[j])'
        PROVE  /\ items'[j].outstanding + Received(j)' + Credited(j)' = items'[j].original
               /\ items'[j].outstandingBase + ReceivedBase(j)' + CreditedBase(j)'
                    = items'[j].originalBase
    <3>1. Received(j)' = Received(j) /\ ReceivedBase(j)' = ReceivedBase(j)
      BY <1>5, ReceivedKept
    <3>2. /\ Credited(j)' = Credited(j) - Credit(n, j) + Credit(n, j)'
          /\ CreditedBase(j)' = CreditedBase(j) - CreditBase(n, j) + CreditBase(n, j)'
      BY <1>6, CreditedChanged
    <3>3. /\ Credit(n, j) = 0 /\ CreditBase(n, j) = 0
          /\ Credit(n, j)' = IF j = i THEN note[n].total ELSE 0
          /\ CreditBase(n, j)' = IF j = i THEN note'[n].base ELSE 0
      BY <1>3, <1>7 DEF Credit, CreditBase, CreditOf
    <3>4. IsLive(items[j])
      BY <1>3, <2>1
    <3>5. /\ items[j].outstanding + Received(j) + Credited(j) = items[j].original
          /\ items[j].outstandingBase + ReceivedBase(j) + CreditedBase(j) = items[j].originalBase
      BY <3>4 DEF IInv, Balanced, OutstandingIsUnsettled, OutstandingBaseIsUnsettled
    <3>6. /\ Received(j) \in Nat /\ ReceivedBase(j) \in Nat
          /\ Credited(j) \in Nat /\ CreditedBase(j) \in Nat
      BY SettledNat
    <3>7. items[j] \in ItemType /\ note[n].total \in Nat /\ note'[n].base \in Nat
      BY DEF Typed, TypeOK, NoteType
    <3>8. CASE j = i
      BY <1>3, <3>1, <3>2, <3>3, <3>5, <3>6, <3>7, <3>8 DEF ItemType
    <3>9. CASE j # i
      BY <1>3, <3>1, <3>2, <3>3, <3>5, <3>6, <3>7, <3>9 DEF ItemType
    <3> QED BY <3>8, <3>9
  <2> QED BY <2>1 DEF Balanced, OutstandingIsUnsettled, OutstandingBaseIsUnsettled
<1> QED BY <1>8, <1>9, <1>10, <1>11 DEF IInv

\* An invoice is reversed only when nothing posted settles it.
LEMMA ReverseInvoiceIInv ==
  ASSUME Typed, Typed', IInv, NEW i \in Invoices, NEW v \in Nat, NEW q \in Periods,
         ReverseInvoice(i, v, q)
  PROVE  IInv'
<1>1. i \in Docs /\ Reverse(i, v, q) /\ note' = note /\ receipt' = receipt
  BY DEF ReverseInvoice, Docs
<1>2. /\ docs[i].status = "POSTED" /\ docs'[i].status = "REVERSED"
      /\ \A x \in Docs \ {i} : docs'[x] = docs[x]
  BY <1>1, Marked
<1>3. /\ \A j \in Invoices \ {i} : items'[j] = items[j]
      /\ IsLive(items[i])
      /\ items'[i].status = "REVERSED"
      /\ items[i].outstanding = items[i].original
      /\ items[i].outstandingBase = items[i].originalBase
  BY ReverseInvoiceEffect
<1>4. SameReceipts /\ SameCreditNotes
  BY <1>1, <1>2, DocumentsAssumption DEF SameReceipts, SameCreditNotes, Posted, Docs
<1>5. \A j \in Invoices \ {i} : Posted(j)' <=> Posted(j)
  BY <1>2 DEF Posted, Docs
<1>6. ItemFollowsInvoice'
  BY <1>2, <1>3 DEF IInv, ItemFollowsInvoice, IsLive, Docs
<1>7. /\ \A r \in Receipts : Posted(r) => receipt[r].alloc[i] = 0
      /\ \A n \in CreditNotes : ~ CreditOf(n, i)
  <2>1. /\ items[i].outstanding + Received(i) + Credited(i) = items[i].original
        /\ items[i].outstandingBase + ReceivedBase(i) + CreditedBase(i) = items[i].originalBase
    BY <1>3 DEF IInv, Balanced, OutstandingIsUnsettled, OutstandingBaseIsUnsettled
  <2>2. /\ Received(i) \in Nat /\ ReceivedBase(i) \in Nat
        /\ Credited(i) \in Nat /\ CreditedBase(i) \in Nat
    BY SettledNat
  <2>3. items[i] \in ItemType
    BY DEF Typed, TypeOK
  <2>4. Received(i) = 0 /\ CreditedBase(i) = 0
    BY <1>3, <2>1, <2>2, <2>3 DEF ItemType
  <2>5. /\ \A r \in Receipts : Took(r, i) = 0
        /\ \A n \in CreditNotes : CreditBase(n, i) = 0
    BY <2>4, NothingSettled
  <2>6. \A n \in CreditNotes : Posted(n) => note[n].base > 0
    BY DEF IInv, PostedCarriesBase
  <2> QED BY <2>5, <2>6 DEF Took, CreditBase, CreditOf
<1>8. SettledIsPosted'
  <2>1. \A n \in CreditNotes : Posted(n) => note[n].source \in Invoices \ {i}
    BY <1>7 DEF Typed, Drafted, Posted, Docs, CreditOf
  <2>2. (\A r \in Receipts, j \in Invoices : Posted(r) /\ receipt[r].alloc[j] > 0 => Posted(j))'
    BY <1>1, <1>4, <1>5, <1>7 DEF IInv, SettledIsPosted, SameReceipts
  <2>3. (\A n \in CreditNotes : Posted(n) => Posted(note[n].source))'
    BY <1>1, <1>4, <1>5, <2>1 DEF IInv, SettledIsPosted, SameCreditNotes
  <2> QED BY <2>2, <2>3 DEF SettledIsPosted
<1>9. PostedCarriesBase'
  BY <1>4 DEF IInv, PostedCarriesBase, SameReceipts, SameCreditNotes
<1>10. Balanced'
  <2>1. \A j \in Invoices : /\ Received(j)' = Received(j) /\ ReceivedBase(j)' = ReceivedBase(j)
                            /\ Credited(j)' = Credited(j) /\ CreditedBase(j)' = CreditedBase(j)
    BY <1>4, ReceivedKept, CreditedKept
  <2>2. ~ IsLive(items[i])'
    BY <1>3 DEF IsLive
  <2> QED BY <1>3, <2>1, <2>2
          DEF IInv, Balanced, OutstandingIsUnsettled, OutstandingBaseIsUnsettled
<1> QED BY <1>6, <1>8, <1>9, <1>10 DEF IInv

\* Reversing a receipt gives every item back what the receipt had taken.
LEMMA ReverseReceiptIInv ==
  ASSUME Typed, Typed', IInv, NEW r \in Receipts, NEW v \in Nat, NEW q \in Periods,
         ReverseReceipt(r, v, q)
  PROVE  IInv'
<1>1. r \in Docs /\ Reverse(r, v, q) /\ note' = note /\ receipt' = receipt
  BY DEF ReverseReceipt, Docs
<1>2. /\ docs[r].status = "POSTED" /\ docs'[r].status = "REVERSED"
      /\ \A x \in Docs \ {r} : docs'[x] = docs[x]
  BY <1>1, Marked
<1>3. \A i \in Invoices :
        IF receipt[r].alloc[i] > 0
        THEN /\ IsLive(items[i]) /\ IsLive(items'[i])
             /\ items'[i].original = items[i].original
             /\ items'[i].originalBase = items[i].originalBase
             /\ items'[i].outstanding = items[i].outstanding + receipt[r].alloc[i]
             /\ items'[i].outstandingBase = items[i].outstandingBase + receipt[r].carrying[i]
        ELSE items'[i] = items[i]
  BY ReverseReceiptEffect
<1>4. \A i \in Invoices : docs'[i] = docs[i] /\ (Posted(i)' <=> Posted(i))
  BY <1>2, DocumentsAssumption DEF Docs, Posted
<1>5. SameCreditNotes
  BY <1>1, <1>2, DocumentsAssumption DEF SameCreditNotes, Posted, Docs
<1>6. \A s \in Receipts \ {r} : Posted(s)' = Posted(s) /\ receipt'[s] = receipt[s]
  BY <1>1, <1>2 DEF Posted, Docs
<1>7. Posted(r) /\ ~ Posted(r)'
  BY <1>2 DEF Posted
<1>8. ItemFollowsInvoice'
  <2>1. ASSUME NEW i \in Invoices
        PROVE  /\ IsLive(items[i])' <=> docs'[i].status = "POSTED"
               /\ items'[i].status = "REVERSED" <=> docs'[i].status = "REVERSED"
    <3>1. CASE receipt[r].alloc[i] > 0
      <4>1. IsLive(items[i]) /\ IsLive(items[i])'
        BY <1>3, <3>1
      <4> QED BY <1>4, <4>1 DEF IInv, ItemFollowsInvoice, IsLive
    <3>2. CASE ~ (receipt[r].alloc[i] > 0)
      BY <1>3, <1>4, <3>2 DEF IInv, ItemFollowsInvoice
    <3> QED BY <3>1, <3>2
  <2> QED BY <2>1 DEF ItemFollowsInvoice
<1>9. SettledIsPosted'
  <2>1. \A n \in CreditNotes : Posted(n) => note[n].source \in Invoices
    BY DEF Typed, Drafted, Posted, Docs
  <2>2. (\A s \in Receipts, i \in Invoices : Posted(s) /\ receipt[s].alloc[i] > 0 => Posted(i))'
    BY <1>4, <1>6, <1>7 DEF IInv, SettledIsPosted
  <2>3. (\A n \in CreditNotes : Posted(n) => Posted(note[n].source))'
    BY <1>1, <1>4, <1>5, <2>1 DEF IInv, SettledIsPosted, SameCreditNotes, Posted
  <2> QED BY <2>2, <2>3 DEF SettledIsPosted
<1>10. PostedCarriesBase'
  BY <1>5, <1>6, <1>7 DEF IInv, PostedCarriesBase, SameCreditNotes
<1>11. Balanced'
  <2>1. ASSUME NEW i \in Invoices, IsLive(items[i])'
        PROVE  /\ items'[i].outstanding + Received(i)' + Credited(i)' = items'[i].original
               /\ items'[i].outstandingBase + ReceivedBase(i)' + CreditedBase(i)'
                    = items'[i].originalBase
    <3>1. Credited(i)' = Credited(i) /\ CreditedBase(i)' = CreditedBase(i)
      BY <1>5, CreditedKept
    <3>2. /\ Received(i)' = Received(i) - Took(r, i) + Took(r, i)'
          /\ ReceivedBase(i)' = ReceivedBase(i) - TookBase(r, i) + TookBase(r, i)'
      BY <1>6, ReceivedChanged
    <3>3. /\ Took(r, i) = receipt[r].alloc[i] /\ Took(r, i)' = 0
          /\ TookBase(r, i) = receipt[r].carrying[i] /\ TookBase(r, i)' = 0
      BY <1>7 DEF Took, TookBase
    <3>4. items[i] \in ItemType /\ receipt[r].alloc[i] \in Nat /\ receipt[r].carrying[i] \in Nat
      BY DEF Typed, TypeOK, ReceiptType
    <3>5. /\ IsLive(items[i])
          /\ items'[i].original = items[i].original
          /\ items'[i].originalBase = items[i].originalBase
          /\ items'[i].outstanding = items[i].outstanding + receipt[r].alloc[i]
          /\ items'[i].outstandingBase = items[i].outstandingBase + receipt[r].carrying[i]
      <4>1. CASE receipt[r].alloc[i] > 0
        BY <1>3, <4>1
      <4>2. CASE receipt[r].alloc[i] = 0
        <5>1. receipt[r].carrying[i] = 0
          BY <1>7, <3>4, <4>2 DEF IInv, PostedCarriesBase
        <5> QED BY <1>3, <2>1, <3>4, <4>2, <5>1 DEF ItemType
      <4> QED BY <3>4, <4>1, <4>2
    <3>6. /\ items[i].outstanding + Received(i) + Credited(i) = items[i].original
          /\ items[i].outstandingBase + ReceivedBase(i) + CreditedBase(i) = items[i].originalBase
      BY <3>5 DEF IInv, Balanced, OutstandingIsUnsettled, OutstandingBaseIsUnsettled
    <3>7. /\ Received(i) \in Nat /\ ReceivedBase(i) \in Nat
          /\ Credited(i) \in Nat /\ CreditedBase(i) \in Nat
      BY SettledNat
    <3> QED BY <3>1, <3>2, <3>3, <3>4, <3>5, <3>6, <3>7 DEF ItemType
  <2> QED BY <2>1 DEF Balanced, OutstandingIsUnsettled, OutstandingBaseIsUnsettled
<1> QED BY <1>8, <1>9, <1>10, <1>11 DEF IInv

\* Reversing a credit note gives its source's item back what it had credited.
LEMMA ReverseCreditNoteIInv ==
  ASSUME Typed, Typed', IInv, NEW n \in CreditNotes, NEW v \in Nat, NEW q \in Periods,
         ReverseCreditNote(n, v, q)
  PROVE  IInv'
<1> DEFINE i == note[n].source
<1>1. n \in Docs /\ Reverse(n, v, q) /\ note' = note /\ receipt' = receipt
  BY DEF ReverseCreditNote, Docs
<1>2. /\ docs[n].status = "POSTED" /\ docs'[n].status = "REVERSED"
      /\ \A x \in Docs \ {n} : docs'[x] = docs[x]
  BY <1>1, Marked
<1>3. /\ i \in Invoices
      /\ \A j \in Invoices \ {i} : items'[j] = items[j]
      /\ IsLive(items[i]) /\ IsLive(items'[i])
      /\ items'[i].original = items[i].original
      /\ items'[i].originalBase = items[i].originalBase
      /\ items'[i].outstanding = items[i].outstanding + note[n].total
      /\ items'[i].outstandingBase = items[i].outstandingBase + note[n].base
  BY ReverseCreditNoteEffect
<1> HIDE DEF i
<1>4. \A j \in Invoices : docs'[j] = docs[j] /\ (Posted(j)' <=> Posted(j))
  BY <1>2, DocumentsAssumption DEF Docs, Posted
<1>5. SameReceipts
  BY <1>1, <1>2, DocumentsAssumption DEF SameReceipts, Posted, Docs
<1>6. \A m \in CreditNotes \ {n} : Posted(m)' = Posted(m) /\ note'[m] = note[m]
  BY <1>1, <1>2 DEF Posted, Docs
<1>7. Posted(n) /\ ~ Posted(n)'
  BY <1>2 DEF Posted
<1>8. ItemFollowsInvoice'
  <2>1. ASSUME NEW j \in Invoices
        PROVE  /\ IsLive(items[j])' <=> docs'[j].status = "POSTED"
               /\ items'[j].status = "REVERSED" <=> docs'[j].status = "REVERSED"
    <3>1. CASE j = i
      BY <1>3, <1>4, <3>1 DEF IInv, ItemFollowsInvoice, IsLive
    <3>2. CASE j # i
      BY <1>3, <1>4, <3>2 DEF IInv, ItemFollowsInvoice
    <3> QED BY <3>1, <3>2
  <2> QED BY <2>1 DEF ItemFollowsInvoice
<1>9. SettledIsPosted'
  <2>1. \A m \in CreditNotes : Posted(m) => note[m].source \in Invoices
    BY DEF Typed, Drafted, Posted, Docs
  <2>2. (\A s \in Receipts, j \in Invoices : Posted(s) /\ receipt[s].alloc[j] > 0 => Posted(j))'
    BY <1>1, <1>4, <1>5 DEF IInv, SettledIsPosted, SameReceipts
  <2>3. (\A m \in CreditNotes : Posted(m) => Posted(note[m].source))'
    BY <1>4, <1>6, <1>7, <2>1 DEF IInv, SettledIsPosted, Posted
  <2> QED BY <2>2, <2>3 DEF SettledIsPosted
<1>10. PostedCarriesBase'
  BY <1>5, <1>6, <1>7 DEF IInv, PostedCarriesBase, SameReceipts
<1>11. Balanced'
  <2>1. ASSUME NEW j \in Invoices, IsLive(items[j])'
        PROVE  /\ items'[j].outstanding + Received(j)' + Credited(j)' = items'[j].original
               /\ items'[j].outstandingBase + ReceivedBase(j)' + CreditedBase(j)'
                    = items'[j].originalBase
    <3>1. Received(j)' = Received(j) /\ ReceivedBase(j)' = ReceivedBase(j)
      BY <1>5, ReceivedKept
    <3>2. /\ Credited(j)' = Credited(j) - Credit(n, j) + Credit(n, j)'
          /\ CreditedBase(j)' = CreditedBase(j) - CreditBase(n, j) + CreditBase(n, j)'
      BY <1>6, CreditedChanged
    <3>3. /\ Credit(n, j)' = 0 /\ CreditBase(n, j)' = 0
          /\ Credit(n, j) = IF j = i THEN note[n].total ELSE 0
          /\ CreditBase(n, j) = IF j = i THEN note[n].base ELSE 0
      BY <1>7 DEF Credit, CreditBase, CreditOf, i
    <3>4. IsLive(items[j])
      BY <1>3, <2>1
    <3>5. /\ items[j].outstanding + Received(j) + Credited(j) = items[j].original
          /\ items[j].outstandingBase + ReceivedBase(j) + CreditedBase(j) = items[j].originalBase
      BY <3>4 DEF IInv, Balanced, OutstandingIsUnsettled, OutstandingBaseIsUnsettled
    <3>6. /\ Received(j) \in Nat /\ ReceivedBase(j) \in Nat
          /\ Credited(j) \in Nat /\ CreditedBase(j) \in Nat
      BY SettledNat
    <3>7. items[j] \in ItemType /\ note[n].total \in Nat /\ note[n].base \in Nat
      BY DEF Typed, TypeOK, NoteType
    <3>8. CASE j = i
      BY <1>3, <3>1, <3>2, <3>3, <3>5, <3>6, <3>7, <3>8 DEF ItemType
    <3>9. CASE j # i
      BY <1>3, <3>1, <3>2, <3>3, <3>5, <3>6, <3>7, <3>9 DEF ItemType
    <3> QED BY <3>8, <3>9
  <2> QED BY <2>1 DEF Balanced, OutstandingIsUnsettled, OutstandingBaseIsUnsettled
<1> QED BY <1>8, <1>9, <1>10, <1>11 DEF IInv

\* What a drafting command does: it writes one document, which is not posted.
LEMMA DraftingEffect ==
  ASSUME Typed, Drafting
  PROVE  /\ periods' = periods /\ items' = items /\ journal' = journal
         /\ \E d \in Docs :
              /\ docs[d].status \in {"NONE", "DRAFT"}
              /\ docs'[d].status \in {"DRAFT", "CANCELLED"}
              /\ \A x \in Docs \ {d} : docs'[x] = docs[x]
              /\ \A r \in Receipts \ {d} : receipt'[r] = receipt[r]
              /\ \A n \in CreditNotes \ {d} : note'[n] = note[n]
<1>1. ASSUME NEW d \in Docs, NEW v \in Versions, Cancel(d, v)
      PROVE  /\ docs[d].status = "DRAFT" /\ docs'[d].status = "CANCELLED"
             /\ \A x \in Docs \ {d} : docs'[x] = docs[x]
             /\ receipt' = receipt /\ note' = note /\ UNCHANGED <<periods, items, journal>>
  BY <1>1 DEF Cancel, Typed, TypeOK, DocType
<1>2. ASSUME NEW d \in Docs, NEW p \in Periods, NEW v \in Versions,
             Create(d, p) \/ Update(d, v, p)
      PROVE  /\ docs[d].status \in {"NONE", "DRAFT"} /\ docs'[d].status = "DRAFT"
             /\ \A x \in Docs \ {d} : docs'[x] = docs[x]
  BY <1>2 DEF Create, Update, Typed, TypeOK, DocType
<1>0. \E v \in Versions : TRUE
  BY NumbersAssumption DEF Versions
<1>3. ASSUME NEW i \in Invoices, NEW p \in Periods, NEW t \in Amounts, NEW x \in Rates,
             CreateInvoice(i, p, t, x) \/ \E v \in Versions : UpdateInvoice(i, v, p, t, x)
      PROVE  /\ i \in Docs /\ \E v \in Versions : Create(i, p) \/ Update(i, v, p)
             /\ receipt' = receipt /\ note' = note /\ UNCHANGED <<periods, items, journal>>
  BY <1>0, <1>3 DEF CreateInvoice, UpdateInvoice, DraftInvoice, Docs
<1>4. ASSUME NEW n \in CreditNotes, NEW p \in Periods, NEW i \in Invoices, NEW t \in Amounts,
             \/ CreateCreditNote(n, p, i, t)
             \/ \E v \in Versions : UpdateCreditNote(n, v, p, i, t)
      PROVE  /\ n \in Docs /\ \E v \in Versions : Create(n, p) \/ Update(n, v, p)
             /\ receipt' = receipt /\ UNCHANGED <<periods, items, journal>>
             /\ \A m \in CreditNotes \ {n} : note'[m] = note[m]
  <2>1. DraftCreditNote(n, i, t)
    BY <1>4 DEF CreateCreditNote, UpdateCreditNote
  <2>2. \E v \in Versions : Create(n, p) \/ Update(n, v, p)
    BY <1>0, <1>4 DEF CreateCreditNote, UpdateCreditNote
  <2> QED BY <2>1, <2>2 DEF DraftCreditNote, Docs, Typed, TypeOK
<1>5. ASSUME NEW r \in Receipts, NEW p \in Periods, NEW a \in Allocations,
             CreateReceipt(r, p, a) \/ \E v \in Versions : UpdateReceipt(r, v, p, a)
      PROVE  /\ r \in Docs /\ \E v \in Versions : Create(r, p) \/ Update(r, v, p)
             /\ note' = note /\ UNCHANGED <<periods, items, journal>>
             /\ \A s \in Receipts \ {r} : receipt'[s] = receipt[s]
  <2>1. DraftReceipt(r, a)
    BY <1>5 DEF CreateReceipt, UpdateReceipt
  <2>2. \E v \in Versions : Create(r, p) \/ Update(r, v, p)
    BY <1>0, <1>5 DEF CreateReceipt, UpdateReceipt
  <2> QED BY <2>1, <2>2 DEF DraftReceipt, Docs, Typed, TypeOK
<1>6. CASE \E d \in Docs, v \in Versions : Cancel(d, v)
  BY <1>1, <1>6
<1>7. CASE \E i \in Invoices, p \in Periods, t \in Amounts, x \in Rates :
             CreateInvoice(i, p, t, x) \/ \E v \in Versions : UpdateInvoice(i, v, p, t, x)
  BY <1>2, <1>3, <1>7
<1>8. CASE \E n \in CreditNotes, p \in Periods, i \in Invoices, t \in Amounts :
             \/ CreateCreditNote(n, p, i, t)
             \/ \E v \in Versions : UpdateCreditNote(n, v, p, i, t)
  BY <1>2, <1>4, <1>8
<1>9. CASE \E r \in Receipts, p \in Periods, a \in Allocations :
             CreateReceipt(r, p, a) \/ \E v \in Versions : UpdateReceipt(r, v, p, a)
  BY <1>2, <1>5, <1>9
<1> QED BY <1>6, <1>7, <1>8, <1>9 DEF Drafting

\* Drafting, editing and cancelling touch no posted document.
LEMMA DraftingIInv ==
  ASSUME Typed, Typed', IInv, Drafting
  PROVE  IInv'
<1>1. PICK d \in Docs :
        /\ docs[d].status \in {"NONE", "DRAFT"}
        /\ docs'[d].status \in {"DRAFT", "CANCELLED"}
        /\ \A x \in Docs \ {d} : docs'[x] = docs[x]
        /\ \A r \in Receipts \ {d} : receipt'[r] = receipt[r]
        /\ \A n \in CreditNotes \ {d} : note'[n] = note[n]
  BY DraftingEffect
<1>0. items' = items
  BY DraftingEffect
<1>2. ~ Posted(d) /\ ~ Posted(d)'
  BY <1>1 DEF Posted
<1>3. \A x \in Docs : Posted(x)' = Posted(x)
  BY <1>1 DEF Posted
<1>4. SameReceipts /\ SameCreditNotes
  BY <1>1, <1>2, <1>3 DEF SameReceipts, SameCreditNotes, Docs
<1>5. \A i \in Invoices : /\ Posted(i)' = Posted(i)
                          /\ docs'[i].status = "REVERSED" <=> docs[i].status = "REVERSED"
  BY <1>1, <1>3 DEF Docs
<1> QED BY <1>0, <1>4, <1>5, QuietStep

\* Every step keeps the invariant.
LEMMA IInvStep == Typed /\ Typed' /\ IInv /\ [Next]_vars => IInv'
<1> SUFFICES ASSUME Typed, Typed', IInv, [Next]_vars PROVE IInv'
  OBVIOUS
<1>1. \A v \in Versions : v \in Nat
  BY NumbersAssumption DEF Versions
<1>2. CASE Drafting
  BY <1>2, DraftingIInv
<1>3. CASE Posting
  BY <1>1, <1>3, PostInvoiceIInv, PostCreditNoteIInv, PostReceiptIInv DEF Posting
<1>4. CASE Reversing
  BY <1>1, <1>4, ReverseInvoiceIInv, ReverseCreditNoteIInv, ReverseReceiptIInv DEF Reversing
<1>5. CASE Closing \/ UNCHANGED vars
  <2>1. UNCHANGED <<docs, note, receipt, items>>
    BY <1>5 DEF Closing, ClosePeriod, ReopenPeriod, vars
  <2>2. SameReceipts /\ SameCreditNotes /\ \A i \in Invoices : Posted(i)' = Posted(i)
    BY <2>1 DEF SameReceipts, SameCreditNotes, Posted
  <2> QED BY <2>1, <2>2, QuietStep
<1> QED BY <1>2, <1>3, <1>4, <1>5 DEF Next

\* The types and the invariant hold of every reachable state.
LEMMA IInvCorrect == Spec => [](Typed /\ IInv)
<1>1. Init => Typed /\ IInv
  BY TypedInit, IInvInit
<1>2. Typed /\ IInv /\ [Next]_vars => (Typed /\ IInv)'
  BY TypedStep, IInvStep
<1> QED BY <1>1, <1>2, PTL DEF Spec

(***************************************************************************)
(* applyReceipt, applyCredit and their reversals keep what is outstanding  *)
(* on an item equal to the invoice less what is posted against it, in      *)
(* whatever order they are called.                                         *)
(***************************************************************************)
THEOREM OutstandingCorrect == Spec => []OutstandingIsUnsettled
<1>1. IInv => OutstandingIsUnsettled
  BY DEF IInv, Balanced
<1> QED BY IInvCorrect, <1>1, PTL

(***************************************************************************)
(* The same in base currency, for every choice of exchange rates: the      *)
(* roundings of the carrying amounts cancel.                               *)
(***************************************************************************)
THEOREM OutstandingBaseCorrect == Spec => []OutstandingBaseIsUnsettled
<1>1. IInv => OutstandingBaseIsUnsettled
  BY DEF IInv, Balanced
<1> QED BY IInvCorrect, <1>1, PTL

(***************************************************************************)
(* reverseInvoice tests the item and not the documents, and that is        *)
(* enough: nothing posted settles a reversed invoice.                      *)
(***************************************************************************)
THEOREM ReversedInvoiceUnsettledCorrect == Spec => []ReversedInvoiceUnsettled
<1>1. Typed /\ IInv => ReversedInvoiceUnsettled
  <2> SUFFICES ASSUME Typed, IInv, NEW i \in Invoices, docs[i].status = "REVERSED"
               PROVE  /\ items[i].status = "REVERSED"
                      /\ \A r \in Receipts : Posted(r) => receipt[r].alloc[i] = 0
                      /\ \A n \in CreditNotes : ~ CreditOf(n, i)
    BY DEF ReversedInvoiceUnsettled
  <2>1. ~ Posted(i)
    BY DEF Posted
  <2>2. items[i].status = "REVERSED"
    BY DEF IInv, ItemFollowsInvoice
  <2>3. ASSUME NEW r \in Receipts, Posted(r) PROVE receipt[r].alloc[i] = 0
    <3>1. receipt[r].alloc[i] \in Nat
      BY DEF Typed, TypeOK, ReceiptType
    <3> QED BY <2>1, <2>3, <3>1 DEF IInv, SettledIsPosted
  <2>4. \A n \in CreditNotes : ~ CreditOf(n, i)
    BY <2>1 DEF IInv, SettledIsPosted, CreditOf
  <2> QED BY <2>2, <2>3, <2>4
<1> QED BY IInvCorrect, <1>1, PTL

\* Posted documents settle an invoice in both currencies or in neither.
LEMMA SettledTogether ==
  ASSUME Typed, IInv, NEW i \in Invoices
  PROVE  /\ Received(i) = 0 <=> ReceivedBase(i) = 0
         /\ Credited(i) = 0 <=> CreditedBase(i) = 0
<1>1. ASSUME NEW r \in Receipts PROVE Took(r, i) = 0 <=> TookBase(r, i) = 0
  <2>1. receipt[r].alloc[i] \in Nat /\ receipt[r].carrying[i] \in Nat
    BY DEF Typed, TypeOK, ReceiptType
  <2> QED BY <2>1 DEF IInv, PostedCarriesBase, Took, TookBase
<1>2. ASSUME NEW n \in CreditNotes PROVE Credit(n, i) = 0 <=> CreditBase(n, i) = 0
  <2>1. Posted(n) => note[n].total > 0 /\ note[n].base > 0
    BY DEF IInv, PostedCarriesBase, Typed, Drafted, Posted, Docs
  <2> QED BY <2>1 DEF Credit, CreditBase, CreditOf
<1> QED BY <1>1, <1>2, NothingSettled

\* Giving back x of what b has taken restores the original when nothing else took any.
LEMMA Remainder ==
  ASSUME NEW left \in Nat, NEW original \in Nat, NEW a \in Nat, NEW b \in Nat, NEW x \in Nat,
         left + a + b = original, x <= b
  PROVE  /\ left + x <= original
         /\ (left + x = original) <=> (a = 0 /\ b = x)
OBVIOUS

\* If one of several amounts is the only one, it is in the other currency too.
LEMMA LastOne ==
  ASSUME NEW S, IsFiniteSet(S), NEW f, NEW g, NEW a \in S,
         \A x \in S : f[x] \in Nat /\ g[x] \in Nat,
         \A x \in S : f[x] = 0 <=> g[x] = 0
  PROVE  Total(S, f) = f[a] <=> Total(S, g) = g[a]
<1>1. Total(S, f) = Total(S \ {a}, f) + f[a] /\ Total(S, g) = Total(S \ {a}, g) + g[a]
  BY TotalSplit
<1>2. IsFiniteSet(S \ {a})
  BY FS_RemoveElement
<1>3. /\ Total(S \ {a}, f) \in Nat /\ Total(S \ {a}, g) \in Nat
      /\ Total(S \ {a}, f) = 0 <=> \A x \in S \ {a} : f[x] = 0
      /\ Total(S \ {a}, g) = 0 <=> \A x \in S \ {a} : g[x] = 0
  BY <1>2, TotalType, TotalIsZero
<1>4. Total(S \ {a}, f) = 0 <=> Total(S \ {a}, g) = 0
  BY <1>3
<1> QED BY <1>1, <1>3, <1>4

(***************************************************************************)
(* No posted receipt or credit note is ever stuck: the guards of           *)
(* reverseReceipt and reverseCredit hold whatever happened since, because  *)
(* a document is the only one left on an item in document currency exactly *)
(* when it is the only one left in base currency.                          *)
(***************************************************************************)
THEOREM PostedCanBeReversedCorrect == Spec => []PostedCanBeReversed
<1>1. ASSUME Typed, IInv, NEW i \in Invoices
      PROVE  /\ \A r \in Receipts : Posted(r) /\ receipt[r].alloc[i] > 0 =>
                  /\ receipt[r].carrying[i] > 0
                  /\ CanRestore(items[i], receipt[r].alloc[i], receipt[r].carrying[i])
             /\ \A n \in CreditNotes : CreditOf(n, i) =>
                  CanRestore(items[i], note[n].total, note[n].base)
  <2> DEFINE f == [r \in Receipts |-> IF Posted(r) THEN receipt[r].alloc[i] ELSE 0]
             g == [r \in Receipts |-> IF Posted(r) THEN receipt[r].carrying[i] ELSE 0]
             h == [n \in CreditNotes |-> IF CreditOf(n, i) THEN note[n].total ELSE 0]
             k == [n \in CreditNotes |-> IF CreditOf(n, i) THEN note[n].base ELSE 0]
  <2>1. /\ Received(i) = Total(Receipts, f) /\ ReceivedBase(i) = Total(Receipts, g)
        /\ Credited(i) = Total(CreditNotes, h) /\ CreditedBase(i) = Total(CreditNotes, k)
    BY DEF Received, ReceivedBase, Credited, CreditedBase
  <2>2. /\ \A r \in Receipts : f[r] \in Nat /\ g[r] \in Nat
        /\ \A n \in CreditNotes : h[n] \in Nat /\ k[n] \in Nat
    BY <1>1 DEF Typed, TypeOK, ReceiptType, NoteType
  <2>3. \A r \in Receipts : f[r] = 0 <=> g[r] = 0
    <3>1. \A r \in Receipts : receipt[r].alloc[i] \in Nat /\ receipt[r].carrying[i] \in Nat
      BY <1>1 DEF Typed, TypeOK, ReceiptType
    <3> QED BY <1>1, <3>1 DEF IInv, PostedCarriesBase
  <2>4. \A n \in CreditNotes : h[n] = 0 <=> k[n] = 0
    <3>1. \A n \in CreditNotes : Posted(n) => note[n].total > 0 /\ note[n].base > 0
      BY <1>1 DEF IInv, PostedCarriesBase, Typed, Drafted, Posted, Docs
    <3> QED BY <3>1 DEF CreditOf
  <2>5. ASSUME IsLive(items[i])
        PROVE  /\ items[i].outstanding + Received(i) + Credited(i) = items[i].original
               /\ items[i].outstandingBase + ReceivedBase(i) + CreditedBase(i)
                    = items[i].originalBase
    BY <1>1, <2>5 DEF IInv, Balanced, OutstandingIsUnsettled, OutstandingBaseIsUnsettled
  <2>6. /\ Received(i) \in Nat /\ ReceivedBase(i) \in Nat
        /\ Credited(i) \in Nat /\ CreditedBase(i) \in Nat
    BY <1>1, SettledNat
  <2>7. items[i] \in ItemType
    BY <1>1 DEF Typed, TypeOK
  <2>8. ASSUME NEW r \in Receipts, Posted(r), receipt[r].alloc[i] > 0
        PROVE  f[r] = receipt[r].alloc[i] /\ g[r] = receipt[r].carrying[i] /\ IsLive(items[i])
    BY <1>1, <2>8 DEF IInv, SettledIsPosted, ItemFollowsInvoice, Posted
  <2>9. ASSUME NEW n \in CreditNotes, CreditOf(n, i)
        PROVE  h[n] = note[n].total /\ k[n] = note[n].base /\ IsLive(items[i])
    BY <1>1, <2>9 DEF IInv, SettledIsPosted, ItemFollowsInvoice, Posted, CreditOf
  <2> HIDE DEF f, g, h, k
  <2>10. /\ Received(i) = 0 <=> ReceivedBase(i) = 0
         /\ Credited(i) = 0 <=> CreditedBase(i) = 0
    BY <1>1, SettledTogether
  <2>11. ASSUME NEW r \in Receipts, Posted(r), receipt[r].alloc[i] > 0
         PROVE  /\ receipt[r].carrying[i] > 0
                /\ CanRestore(items[i], receipt[r].alloc[i], receipt[r].carrying[i])
    <3>1. receipt[r].carrying[i] > 0
      BY <1>1, <2>11 DEF IInv, PostedCarriesBase
    <3>2. f[r] <= Received(i) /\ g[r] <= ReceivedBase(i)
      BY <2>1, <2>2, TotalBound, DocumentsAssumption
    <3>3. Received(i) = f[r] <=> ReceivedBase(i) = g[r]
      BY <2>1, <2>2, <2>3, LastOne, DocumentsAssumption
    <3>4. f[r] \in Nat /\ g[r] \in Nat
      BY <2>2
    <3>5. /\ f[r] = receipt[r].alloc[i] /\ g[r] = receipt[r].carrying[i] /\ IsLive(items[i])
      BY <2>8, <2>11
    <3>6. /\ items[i].outstanding + f[r] <= items[i].original
          /\ items[i].outstandingBase + g[r] <= items[i].originalBase
          /\ (items[i].outstanding + f[r] = items[i].original)
               <=> (items[i].outstandingBase + g[r] = items[i].originalBase)
      <4>1. /\ items[i].outstanding + Received(i) + Credited(i) = items[i].original
            /\ items[i].outstandingBase + ReceivedBase(i) + CreditedBase(i)
                 = items[i].originalBase
        BY <2>5, <3>5
      <4> QED BY <2>6, <2>7, <2>10, <3>2, <3>3, <3>4, <4>1 DEF ItemType
    <3> QED BY <3>1, <3>5, <3>6 DEF CanRestore
  <2>12. ASSUME NEW n \in CreditNotes, CreditOf(n, i)
         PROVE  CanRestore(items[i], note[n].total, note[n].base)
    <3>1. h[n] <= Credited(i) /\ k[n] <= CreditedBase(i)
      BY <2>1, <2>2, TotalBound, DocumentsAssumption
    <3>2. Credited(i) = h[n] <=> CreditedBase(i) = k[n]
      BY <2>1, <2>2, <2>4, LastOne, DocumentsAssumption
    <3>3. h[n] \in Nat /\ k[n] \in Nat
      BY <2>2
    <3>4. h[n] = note[n].total /\ k[n] = note[n].base /\ IsLive(items[i])
      BY <2>9, <2>12
    <3>5. /\ items[i].outstanding + h[n] <= items[i].original
          /\ items[i].outstandingBase + k[n] <= items[i].originalBase
          /\ (items[i].outstanding + h[n] = items[i].original)
               <=> (items[i].outstandingBase + k[n] = items[i].originalBase)
      <4>1. /\ items[i].outstanding + Received(i) + Credited(i) = items[i].original
            /\ items[i].outstandingBase + ReceivedBase(i) + CreditedBase(i)
                 = items[i].originalBase
        BY <2>5, <3>4
      <4>2. /\ items[i].outstanding \in Nat /\ items[i].outstandingBase \in Nat
            /\ items[i].original \in Nat /\ items[i].originalBase \in Nat
        BY <2>7 DEF ItemType
      <4>3. /\ items[i].outstanding + h[n] <= items[i].original
            /\ (items[i].outstanding + h[n] = items[i].original)
                 <=> (Received(i) = 0 /\ Credited(i) = h[n])
        BY ONLY <2>6, <3>1, <3>3, <4>1, <4>2, Remainder
      <4>4. /\ items[i].outstandingBase + k[n] <= items[i].originalBase
            /\ (items[i].outstandingBase + k[n] = items[i].originalBase)
                 <=> (ReceivedBase(i) = 0 /\ CreditedBase(i) = k[n])
        BY ONLY <2>6, <3>1, <3>3, <4>1, <4>2, Remainder
      <4> QED BY <2>10, <3>2, <4>3, <4>4
    <3> QED BY <3>4, <3>5 DEF CanRestore
  <2> QED BY <2>11, <2>12
<1>2. Typed /\ IInv => PostedCanBeReversed
  <2> SUFFICES ASSUME Typed, IInv PROVE PostedCanBeReversed
    OBVIOUS
  <2>1. \A n \in CreditNotes : Posted(n) => note[n].source \in Invoices /\ CreditOf(n, note[n].source)
    BY DEF Typed, Drafted, Posted, CreditOf, Docs
  <2> QED BY <1>1, <2>1 DEF PostedCanBeReversed, Targets
<1> QED BY IInvCorrect, <1>2, PTL

-----------------------------------------------------------------------------
(* The two currencies of an item.                                          *)

\* A live item has the status of its amounts and is empty in both currencies or
\* in neither; any other item is empty.
ItemsSound ==
  \A i \in Invoices :
    IF IsLive(items[i])
    THEN StatusFollows(items[i]) /\ EmptyTogether(items[i])
    ELSE items[i].outstanding = 0 /\ items[i].outstandingBase = 0

\* What posting an invoice does: an open item of the posted base total.
LEMMA PostInvoiceEffect ==
  ASSUME Typed, NEW i \in Invoices, NEW v \in Nat, PostInvoice(i, v)
  PROVE  /\ \A j \in Invoices \ {i} : items'[j] = items[j]
         /\ IsLive(items'[i])
         /\ StatusFollows(items'[i]) /\ EmptyTogether(items'[i])
         /\ items'[i].outstandingBase \in Nat
         /\ items'[i].originalBase = items'[i].outstandingBase
         /\ Post(i, items'[i].outstandingBase)
<1>1. PICK base \in BaseTotals(invoice[i].total, invoice[i].rate) :
        /\ base > 0
        /\ Post(i, base)
        /\ items' = [items EXCEPT ![i] =
             [status |-> "OPEN",
              original |-> invoice[i].total, outstanding |-> invoice[i].total,
              originalBase |-> base, outstandingBase |-> base]]
  BY DEF PostInvoice
<1>2. invoice[i].total \in Nat /\ invoice[i].rate \in Nat
  BY DEF Typed, TypeOK, InvoiceType
<1>3. base \in Nat
  BY <1>2, BaseTotalsNat
<1>4. docs[i].status = "DRAFT"
  BY DEF PostInvoice, MarkPosted
<1>5. invoice[i].total > 0
  BY <1>4 DEF Typed, Drafted, Docs
<1>6. /\ items'[i].status = "OPEN"
      /\ items'[i].original = invoice[i].total /\ items'[i].outstanding = invoice[i].total
      /\ items'[i].originalBase = base /\ items'[i].outstandingBase = base
      /\ \A j \in Invoices \ {i} : items'[j] = items[j]
  BY <1>1 DEF Typed, TypeOK
<1>7. StatusFollows(items'[i]) /\ EmptyTogether(items'[i]) /\ IsLive(items'[i])
  BY <1>1, <1>2, <1>3, <1>5, <1>6 DEF StatusFollows, StatusFor, EmptyTogether, IsLive
<1> QED BY <1>1, <1>3, <1>6, <1>7

\* One item changed, and is sound: all are.
LEMMA OneItemSound ==
  ASSUME ItemsSound, NEW i \in Invoices, \A j \in Invoices \ {i} : items'[j] = items[j],
         \/ IsLive(items'[i]) /\ StatusFollows(items'[i]) /\ EmptyTogether(items'[i])
         \/ /\ ~ IsLive(items'[i])
            /\ items'[i].outstanding = 0 /\ items'[i].outstandingBase = 0
  PROVE  ItemsSound'
<1> SUFFICES ASSUME NEW j \in Invoices
             PROVE  IF IsLive(items'[j])
                    THEN StatusFollows(items'[j]) /\ EmptyTogether(items'[j])
                    ELSE items'[j].outstanding = 0 /\ items'[j].outstandingBase = 0
  BY DEF ItemsSound, IsLive, StatusFollows, EmptyTogether
<1>1. CASE j = i
  BY <1>1
<1>2. CASE j # i
  BY <1>2 DEF ItemsSound
<1> QED BY <1>1, <1>2

\* Every step keeps the items sound.
LEMMA ItemsSoundStep == Typed /\ IInv /\ ItemsSound /\ [Next]_vars => ItemsSound'
<1> SUFFICES ASSUME Typed, IInv, ItemsSound, [Next]_vars PROVE ItemsSound'
  OBVIOUS
<1>1. \A v \in Versions : v \in Nat
  BY NumbersAssumption DEF Versions
<1>2. ASSUME items' = items PROVE ItemsSound'
  BY <1>2 DEF ItemsSound, IsLive, StatusFollows, EmptyTogether
<1>3. ASSUME NEW i \in Invoices, NEW v \in Nat, PostInvoice(i, v) PROVE ItemsSound'
  BY <1>3, PostInvoiceEffect, OneItemSound
<1>4. ASSUME NEW n \in CreditNotes, NEW v \in Nat, PostCreditNote(n, v) PROVE ItemsSound'
  <2> DEFINE i == note[n].source
  <2>1. /\ i \in Invoices /\ \A j \in Invoices \ {i} : items'[j] = items[j]
        /\ IsLive(items'[i]) /\ StatusFollows(items'[i]) /\ EmptyTogether(items'[i])
    BY <1>4, PostCreditNoteEffect
  <2> HIDE DEF i
  <2> QED BY <2>1, OneItemSound
<1>5. ASSUME NEW r \in Receipts, NEW v \in Nat,
             \/ PostReceipt(r, v)
             \/ \E q \in Periods : ReverseReceipt(r, v, q)
      PROVE  ItemsSound'
  <2>1. \A i \in Invoices :
          \/ items'[i] = items[i]
          \/ IsLive(items'[i]) /\ StatusFollows(items'[i]) /\ EmptyTogether(items'[i])
    BY <1>5, PostReceiptEffect, ReverseReceiptEffect
  <2> SUFFICES ASSUME NEW i \in Invoices
               PROVE  IF IsLive(items'[i])
                      THEN StatusFollows(items'[i]) /\ EmptyTogether(items'[i])
                      ELSE items'[i].outstanding = 0 /\ items'[i].outstandingBase = 0
    BY DEF ItemsSound, IsLive, StatusFollows, EmptyTogether
  <2> QED BY <2>1 DEF ItemsSound
<1>6. ASSUME NEW i \in Invoices, NEW v \in Nat, NEW q \in Periods, ReverseInvoice(i, v, q)
      PROVE  ItemsSound'
  <2>1. /\ \A j \in Invoices \ {i} : items'[j] = items[j]
        /\ items'[i].status = "REVERSED"
        /\ items'[i].outstanding = 0 /\ items'[i].outstandingBase = 0
    BY <1>6, ReverseInvoiceEffect
  <2>2. ~ IsLive(items'[i])
    BY <2>1 DEF IsLive
  <2> QED BY <2>1, <2>2, OneItemSound
<1>7. ASSUME NEW n \in CreditNotes, NEW v \in Nat, NEW q \in Periods, ReverseCreditNote(n, v, q)
      PROVE  ItemsSound'
  <2> DEFINE i == note[n].source
  <2>1. /\ i \in Invoices /\ \A j \in Invoices \ {i} : items'[j] = items[j]
        /\ IsLive(items'[i]) /\ StatusFollows(items'[i])
        /\ items'[i].outstanding = items[i].outstanding + note[n].total
        /\ items'[i].outstandingBase = items[i].outstandingBase + note[n].base
    BY <1>7, ReverseCreditNoteEffect
  <2>2. docs[n].status = "POSTED" /\ n \in Docs
    BY <1>7 DEF ReverseCreditNote, Reverse, Docs
  <2>3. /\ note[n].total \in Nat /\ note[n].total > 0
        /\ note[n].base \in Nat /\ note[n].base > 0
    BY <2>2 DEF IInv, PostedCarriesBase, Posted, Typed, TypeOK, NoteType, Drafted
  <2>4. items[i].outstanding \in Nat /\ items[i].outstandingBase \in Nat
    BY <2>1 DEF Typed, TypeOK, ItemType
  <2> HIDE DEF i
  <2>5. EmptyTogether(items'[i])
    BY <2>1, <2>3, <2>4 DEF EmptyTogether
  <2> QED BY <2>1, <2>5, OneItemSound
<1>8. CASE Posting
  BY <1>1, <1>3, <1>4, <1>5, <1>8 DEF Posting
<1>9. CASE Reversing
  BY <1>1, <1>5, <1>6, <1>7, <1>9 DEF Reversing
<1>10. CASE Drafting
  BY <1>2, <1>10, DraftingEffect
<1>11. CASE Closing \/ UNCHANGED vars
  BY <1>2, <1>11 DEF Closing, ClosePeriod, ReopenPeriod, vars
<1> QED BY <1>8, <1>9, <1>10, <1>11 DEF Next

\* The items are sound in every reachable state.
LEMMA ItemsSoundCorrect == Spec => [](Typed /\ IInv /\ ItemsSound)
<1>1. Init => ItemsSound
  BY DEF Init, ItemsSound, NoItem, IsLive
<1> QED BY IInvCorrect, ItemsSoundStep, <1>1, PTL DEF Spec

(***************************************************************************)
(* The carrying and credit tests of the commands, made on one allocation   *)
(* at a time, keep the two currencies of every item together: settled in   *)
(* one means settled in the other, untouched in one untouched in the       *)
(* other, and the status is the one SUBLEDGERS_RECONCILED looks for.       *)
(***************************************************************************)
THEOREM SubledgerReconciledCorrect == Spec => []SubledgerReconciled
<1>1. ASSUME Typed, IInv, ItemsSound, NEW i \in Invoices
      PROVE  /\ items[i].outstanding <= items[i].original
             /\ items[i].outstandingBase <= items[i].originalBase
             /\ items[i].outstanding = 0 <=> items[i].outstandingBase = 0
             /\ IsLive(items[i]) =>
                  /\ items[i].status = StatusFor(items[i].outstanding, items[i].original)
                  /\ items[i].outstanding = items[i].original
                       <=> items[i].outstandingBase = items[i].originalBase
  <2>1. /\ items[i].outstanding \in Nat /\ items[i].original \in Nat
        /\ items[i].outstandingBase \in Nat /\ items[i].originalBase \in Nat
    BY <1>1 DEF Typed, TypeOK, ItemType
  <2>2. CASE ~ IsLive(items[i])
    BY <1>1, <2>1, <2>2 DEF ItemsSound
  <2>3. CASE IsLive(items[i])
    <3>1. /\ items[i].outstanding + Received(i) + Credited(i) = items[i].original
          /\ items[i].outstandingBase + ReceivedBase(i) + CreditedBase(i)
               = items[i].originalBase
      BY <1>1, <2>3 DEF IInv, Balanced, OutstandingIsUnsettled, OutstandingBaseIsUnsettled
    <3>2. /\ Received(i) \in Nat /\ ReceivedBase(i) \in Nat
          /\ Credited(i) \in Nat /\ CreditedBase(i) \in Nat
      BY <1>1, SettledNat
    <3>3. Received(i) = 0 <=> ReceivedBase(i) = 0
      BY <1>1, SettledTogether
    <3>4. Credited(i) = 0 <=> CreditedBase(i) = 0
      BY <1>1, SettledTogether
    <3>5. /\ items[i].outstanding <= items[i].original
          /\ items[i].outstandingBase <= items[i].originalBase
          /\ items[i].outstanding = items[i].original <=> Received(i) = 0 /\ Credited(i) = 0
          /\ items[i].outstandingBase = items[i].originalBase
               <=> ReceivedBase(i) = 0 /\ CreditedBase(i) = 0
      BY <2>1, <3>1, <3>2
    <3>6. /\ items[i].status = StatusFor(items[i].outstanding, items[i].original)
          /\ items[i].outstanding = 0 <=> items[i].outstandingBase = 0
      BY <1>1, <2>3 DEF ItemsSound, StatusFollows, EmptyTogether
    <3> QED BY <3>3, <3>4, <3>5, <3>6
  <2> QED BY <2>2, <2>3
<1>2. Typed /\ IInv /\ ItemsSound => SubledgerReconciled
  BY <1>1 DEF SubledgerReconciled
<1> QED BY ItemsSoundCorrect, <1>2, PTL

-----------------------------------------------------------------------------
(* The ledger.                                                             *)

LinesOf(d) == {l \in journal : l.doc = d}

\* What a posted document is worth on the control account, debit positive.
Worth(d) ==
  IF d \in Invoices THEN items[d].originalBase
  ELSE IF d \in CreditNotes THEN 0 - note[d].base
  ELSE 0 - Total(Invoices, receipt[d].carrying)

\* A posted document has one line, its posting, of what it is worth now; one
\* that was never posted has none.
JournalFollows ==
  /\ IsFiniteSet(journal)
  /\ \A d \in Docs :
       /\ Posted(d) =>
            \E l \in journal : LinesOf(d) = {l} /\ l.kind = "POSTING" /\ l.amount = Worth(d)
       /\ docs[d].status \in {"NONE", "DRAFT", "CANCELLED"} => LinesOf(d) = {}

\* The balance of the control account in the ledger, and in the items.
NetLedger ==
  Total(Debits, [l \in Debits |-> l.amount]) - Total(Credits, [l \in Credits |-> 0 - l.amount])
Owed == Total(Invoices, [i \in Invoices |-> items[i].outstandingBase])

Reconciled == JournalFollows /\ NetLedger = Owed

\* The two sides of the ledger and what is owed are natural numbers.
LEMMA LedgerNat ==
  ASSUME Typed, IsFiniteSet(journal)
  PROVE  /\ Total(Debits, [l \in Debits |-> l.amount]) \in Nat
         /\ Total(Credits, [l \in Credits |-> 0 - l.amount]) \in Nat
         /\ Owed \in Nat
<1>1. IsFiniteSet(Debits) /\ IsFiniteSet(Credits)
  BY FS_Subset DEF Debits, Credits
<1>2. /\ \A l \in Debits : l.amount \in Nat
      /\ \A l \in Credits : 0 - l.amount \in Nat
  BY DEF Typed, TypeOK, LineType, Debits, Credits
<1>3. \A i \in Invoices : items[i].outstandingBase \in Nat
  BY DEF Typed, TypeOK, ItemType
<1>4. /\ Total(Debits, [l \in Debits |-> l.amount]) \in Nat
      /\ Total(Credits, [l \in Credits |-> 0 - l.amount]) \in Nat
  BY <1>1, <1>2, TotalType
<1>5. Owed \in Nat
  BY <1>3, TotalType, DocumentsAssumption DEF Owed
<1> QED BY <1>4, <1>5

\* A line that is added moves the balance by its amount.
LEMMA LineAdded ==
  ASSUME Typed, Typed', IsFiniteSet(journal), NEW line \in LineType, line \notin journal,
         journal' = journal \cup {line}
  PROVE  IsFiniteSet(journal') /\ NetLedger' = NetLedger + line.amount
<1> DEFINE debit == [l \in journal' |-> l.amount]
           credit == [l \in journal' |-> 0 - l.amount]
<1>1. IsFiniteSet(journal')
  BY FS_AddElement
<1>2. line.amount \in Int /\ \A l \in journal' : l.amount \in Int
  BY DEF LineType, Typed, TypeOK
<1>3. IsFiniteSet(Debits) /\ IsFiniteSet(Credits)
  BY FS_Subset DEF Debits, Credits
<1>4. /\ Debits' = IF line.amount > 0 THEN Debits \cup {line} ELSE Debits
      /\ Credits' = IF line.amount < 0 THEN Credits \cup {line} ELSE Credits
      /\ line \notin Debits /\ line \notin Credits
  BY DEF Debits, Credits
<1>5. /\ Debits \subseteq journal' /\ Credits \subseteq journal' /\ line \in journal'
      /\ Debits' \subseteq journal' /\ Credits' \subseteq journal'
      /\ \A l \in Debits' : l.amount > 0
      /\ \A l \in Credits' : l.amount < 0
  BY DEF Debits, Credits
<1>6. /\ \A l \in Debits' : debit[l] = l.amount /\ debit[l] \in Nat
      /\ \A l \in Credits' : credit[l] = 0 - l.amount /\ credit[l] \in Nat
      /\ debit[line] = line.amount /\ credit[line] = 0 - line.amount
  BY <1>2, <1>5
<1>7. /\ Total(Debits, [l \in Debits |-> l.amount]) = Total(Debits, debit)
      /\ Total(Credits, [l \in Credits |-> 0 - l.amount]) = Total(Credits, credit)
  <2> DEFINE f == [l \in Debits |-> l.amount]
             g == [l \in Credits |-> 0 - l.amount]
  <2>1. (\A l \in Debits : f[l] = debit[l]) /\ (\A l \in Credits : g[l] = credit[l])
    BY <1>5
  <2> HIDE DEF f, g, debit, credit
  <2>2. Total(Debits, f) = Total(Debits, debit) /\ Total(Credits, g) = Total(Credits, credit)
    BY <2>1, TotalSame
  <2> QED BY <2>2 DEF f, g
<1>8. /\ Total(Debits', [l \in Debits' |-> l.amount]) = Total(Debits', debit)
      /\ Total(Credits', [l \in Credits' |-> 0 - l.amount]) = Total(Credits', credit)
  <2> DEFINE f == [l \in Debits' |-> l.amount]
             g == [l \in Credits' |-> 0 - l.amount]
  <2>1. (\A l \in Debits' : f[l] = debit[l]) /\ (\A l \in Credits' : g[l] = credit[l])
    BY <1>6
  <2> HIDE DEF f, g, debit, credit
  <2>2. Total(Debits', f) = Total(Debits', debit) /\ Total(Credits', g) = Total(Credits', credit)
    BY <2>1, TotalSame
  <2> QED BY <2>2 DEF f, g
<1> HIDE DEF debit, credit
<1>9. Total(Debits', debit) = Total(Debits, debit) + (IF line.amount > 0 THEN line.amount ELSE 0)
  <2>1. Total(Debits, debit) \in Nat
    BY <1>3, <1>4, <1>6, TotalType
  <2>2. CASE line.amount > 0
    <3>1. Debits' = Debits \cup {line} /\ line \notin Debits
      BY <1>4, <2>2
    <3>2. \A l \in Debits \cup {line} : debit[l] \in Nat
      BY <1>6, <3>1
    <3>3. Total(Debits \cup {line}, debit) = Total(Debits, debit) + debit[line]
      BY <1>3, <3>1, <3>2, TotalAdd
    <3> QED BY <1>6, <2>2, <3>1, <3>3
  <2>3. CASE ~ (line.amount > 0)
    BY <1>4, <2>1, <2>3
  <2> QED BY <2>2, <2>3
<1>10. Total(Credits', credit)
         = Total(Credits, credit) + (IF line.amount < 0 THEN 0 - line.amount ELSE 0)
  <2>1. Total(Credits, credit) \in Nat
    BY <1>3, <1>4, <1>6, TotalType
  <2>2. CASE line.amount < 0
    <3>1. Credits' = Credits \cup {line} /\ line \notin Credits
      BY <1>4, <2>2
    <3>2. \A l \in Credits \cup {line} : credit[l] \in Nat
      BY <1>6, <3>1
    <3>3. Total(Credits \cup {line}, credit) = Total(Credits, credit) + credit[line]
      BY <1>3, <3>1, <3>2, TotalAdd
    <3> QED BY <1>6, <2>2, <3>1, <3>3
  <2>3. CASE ~ (line.amount < 0)
    BY <1>4, <2>1, <2>3
  <2> QED BY <2>2, <2>3
<1>11. Total(Debits, debit) \in Nat /\ Total(Credits, credit) \in Nat
  BY <1>3, <1>4, <1>6, TotalType
<1>12. NetLedger = Total(Debits, debit) - Total(Credits, credit)
  BY <1>7 DEF NetLedger
<1>13. NetLedger' = Total(Debits', debit) - Total(Credits', credit)
  BY <1>8 DEF NetLedger
<1> QED BY <1>1, <1>2, <1>9, <1>10, <1>11, <1>12, <1>13

\* Posting a document adds the one line it is worth.
LEMMA PostingKept ==
  ASSUME Typed, Typed', JournalFollows, NEW d \in Docs, NEW v \in Nat, MarkPosted(d, v),
         NEW amount \in Int, Post(d, amount), Worth(d)' = amount,
         \A x \in Docs \ {d} : Posted(x) => Worth(x)' = Worth(x)
  PROVE  JournalFollows' /\ NetLedger' = NetLedger + amount
<1> DEFINE line == [doc |-> d, kind |-> "POSTING", period |-> docs[d].period, amount |-> amount]
<1>1. /\ docs[d].status = "DRAFT" /\ docs'[d].status = "POSTED"
      /\ \A x \in Docs \ {d} : docs'[x] = docs[x]
  BY Marked
<1>2. LinesOf(d) = {}
  BY <1>1 DEF JournalFollows
<1>3. line \in LineType
  BY <1>1 DEF Typed, Drafted, LineType
<1>4. /\ line.doc = d /\ line.kind = "POSTING" /\ line.amount = amount
      /\ journal' = journal \cup {line}
  BY DEF Post
<1> HIDE DEF line
<1>5. line \notin journal
  BY <1>2, <1>4 DEF LinesOf
<1>6. IsFiniteSet(journal') /\ NetLedger' = NetLedger + amount
  BY <1>3, <1>4, <1>5, LineAdded DEF JournalFollows
<1>7. LinesOf(d)' = {line} /\ \A x \in Docs \ {d} : LinesOf(x)' = LinesOf(x)
  BY <1>2, <1>4 DEF LinesOf
<1>8. ASSUME NEW x \in Docs
      PROVE  /\ Posted(x)' =>
                  \E l \in journal' : LinesOf(x)' = {l} /\ l.kind = "POSTING" /\ l.amount = Worth(x)'
             /\ docs'[x].status \in {"NONE", "DRAFT", "CANCELLED"} => LinesOf(x)' = {}
  <2>1. CASE x = d
    BY <1>1, <1>4, <1>7, <2>1
  <2>2. CASE x # d
    <3>1. docs'[x] = docs[x] /\ LinesOf(x)' = LinesOf(x) /\ journal \subseteq journal'
      BY <1>1, <1>4, <1>7, <2>2
    <3>2. Posted(x)' => Posted(x)
      BY <3>1 DEF Posted
    <3>3. Posted(x) => Worth(x)' = Worth(x)
      BY <2>2
    <3> QED BY <3>1, <3>2, <3>3 DEF JournalFollows
  <2> QED BY <2>1, <2>2
<1> QED BY <1>6, <1>8 DEF JournalFollows

\* Reversing a document takes what it is worth back.
LEMMA ReversingKept ==
  ASSUME Typed, Typed', JournalFollows, NEW d \in Docs, NEW v \in Nat, NEW q \in Periods,
         Reverse(d, v, q), \A x \in Docs \ {d} : Posted(x) => Worth(x)' = Worth(x)
  PROVE  JournalFollows' /\ Worth(d) \in Int /\ NetLedger' = NetLedger - Worth(d)
<1>1. /\ docs[d].status = "POSTED" /\ docs'[d].status = "REVERSED"
      /\ \A x \in Docs \ {d} : docs'[x] = docs[x]
  BY Marked
<1>2. PICK l \in journal : LinesOf(d) = {l} /\ l.kind = "POSTING" /\ l.amount = Worth(d)
  BY <1>1 DEF JournalFollows, Posted
<1> DEFINE line == [doc |-> d, kind |-> "REVERSAL", period |-> q, amount |-> 0 - l.amount]
<1>3. l.amount \in Int /\ line \in LineType
  BY DEF Typed, TypeOK, LineType
<1>4. journal' = journal \cup {line}
  <2>1. {e \in journal : e.doc = d /\ e.kind = "POSTING"} = {l}
    BY <1>2 DEF LinesOf
  <2>2. journal' = journal \cup
          {[doc |-> d, kind |-> "REVERSAL", period |-> q, amount |-> 0 - e.amount] :
             e \in {e \in journal : e.doc = d /\ e.kind = "POSTING"}}
    BY DEF Reverse
  <2> QED BY <2>1, <2>2
<1>5. line.doc = d /\ line.kind = "REVERSAL" /\ line.amount = 0 - l.amount
  OBVIOUS
<1> HIDE DEF line
<1>6. line \notin journal
  BY <1>2, <1>5 DEF LinesOf
<1>7. IsFiniteSet(journal') /\ NetLedger' = NetLedger + line.amount
  BY <1>3, <1>4, <1>6, LineAdded DEF JournalFollows
<1>8. \A x \in Docs \ {d} : LinesOf(x)' = LinesOf(x)
  BY <1>4, <1>5 DEF LinesOf
<1>9. ASSUME NEW x \in Docs
      PROVE  /\ Posted(x)' =>
                  \E e \in journal' : LinesOf(x)' = {e} /\ e.kind = "POSTING" /\ e.amount = Worth(x)'
             /\ docs'[x].status \in {"NONE", "DRAFT", "CANCELLED"} => LinesOf(x)' = {}
  <2>1. CASE x = d
    BY <1>1, <2>1 DEF Posted
  <2>2. CASE x # d
    <3>1. docs'[x] = docs[x] /\ LinesOf(x)' = LinesOf(x) /\ journal \subseteq journal'
      BY <1>1, <1>4, <1>8, <2>2
    <3>2. Posted(x)' => Posted(x)
      BY <3>1 DEF Posted
    <3>3. Posted(x) => Worth(x)' = Worth(x)
      BY <2>2
    <3> QED BY <3>1, <3>2, <3>3 DEF JournalFollows
  <2> QED BY <2>1, <2>2
<1>10. NetLedger \in Int
  BY LedgerNat DEF NetLedger, JournalFollows
<1> QED BY <1>2, <1>3, <1>5, <1>7, <1>9, <1>10 DEF JournalFollows

\* When one item changes, what is owed changes by as much.
LEMMA OwedOne ==
  ASSUME Typed, Typed', NEW i \in Invoices, \A j \in Invoices \ {i} : items'[j] = items[j]
  PROVE  Owed' = Owed - items[i].outstandingBase + items'[i].outstandingBase
<1> DEFINE f == [j \in Invoices |-> items[j].outstandingBase]
<1>1. \A j \in Invoices : f[j] \in Nat /\ f'[j] \in Nat
  BY DEF Typed, TypeOK, ItemType
<1>2. \A j \in Invoices \ {i} : f[j] = f'[j]
  OBVIOUS
<1>3. f[i] = items[i].outstandingBase /\ f'[i] = items'[i].outstandingBase
  OBVIOUS
<1>4. Owed = Total(Invoices, f) /\ Owed' = Total(Invoices, f')
  BY DEF Owed
<1> HIDE DEF f
<1>5. Total(Invoices, f') = Total(Invoices, f) - f[i] + f'[i]
  BY <1>1, <1>2, TotalChange, DocumentsAssumption
<1> QED BY <1>3, <1>4, <1>5

\* When a receipt takes from several items, or gives back to them, what is owed
\* changes by the total.
LEMMA OwedSeveral ==
  ASSUME Typed, Typed', NEW taken, \A i \in Invoices : taken[i] \in Nat
  PROVE  /\ (\A i \in Invoices : items'[i].outstandingBase = items[i].outstandingBase - taken[i])
              => Owed' = Owed - Total(Invoices, taken)
         /\ (\A i \in Invoices : items'[i].outstandingBase = items[i].outstandingBase + taken[i])
              => Owed' = Owed + Total(Invoices, taken)
<1> DEFINE f == [j \in Invoices |-> items[j].outstandingBase]
<1>1. \A j \in Invoices : f[j] \in Nat /\ f'[j] \in Nat
  BY DEF Typed, TypeOK, ItemType
<1>2. Owed = Total(Invoices, f) /\ Owed' = Total(Invoices, f')
  BY DEF Owed
<1>3. \A j \in Invoices : f[j] = items[j].outstandingBase /\ f'[j] = items'[j].outstandingBase
  OBVIOUS
<1> HIDE DEF f
<1>4. /\ Total(Invoices, f) \in Nat /\ Total(Invoices, f') \in Nat
      /\ Total(Invoices, taken) \in Nat
  BY <1>1, TotalType, DocumentsAssumption
<1>5. ASSUME \A i \in Invoices : items'[i].outstandingBase = items[i].outstandingBase - taken[i]
      PROVE  Owed' = Owed - Total(Invoices, taken)
  <2>1. \A i \in Invoices : f[i] = f'[i] + taken[i]
    BY <1>1, <1>3, <1>5
  <2>2. Total(Invoices, f) = Total(Invoices, f') + Total(Invoices, taken)
    BY <1>1, <2>1, TotalSum, DocumentsAssumption
  <2> QED BY <1>2, <1>4, <2>2
<1>6. ASSUME \A i \in Invoices : items'[i].outstandingBase = items[i].outstandingBase + taken[i]
      PROVE  Owed' = Owed + Total(Invoices, taken)
  <2>1. \A i \in Invoices : f'[i] = f[i] + taken[i]
    BY <1>1, <1>3, <1>6
  <2>2. Total(Invoices, f') = Total(Invoices, f) + Total(Invoices, taken)
    BY <1>1, <2>1, TotalSum, DocumentsAssumption
  <2> QED BY <1>2, <2>2
<1> QED BY <1>5, <1>6

\* The posting of an invoice debits what its item opens with.
LEMMA PostInvoiceReconciled ==
  ASSUME Typed, Typed', IInv, ItemsSound, Reconciled,
         NEW i \in Invoices, NEW v \in Nat, PostInvoice(i, v)
  PROVE  Reconciled'
<1> DEFINE base == items'[i].outstandingBase
<1>1. i \in Docs /\ MarkPosted(i, v) /\ note' = note /\ receipt' = receipt
  BY DEF PostInvoice, Docs
<1>2. /\ \A j \in Invoices \ {i} : items'[j] = items[j]
      /\ base \in Nat /\ items'[i].originalBase = base /\ Post(i, base)
  BY PostInvoiceEffect
<1>3. Owed' = Owed - items[i].outstandingBase + base
  BY <1>2, OwedOne
<1>4. items[i].outstandingBase = 0
  <2>1. docs[i].status = "DRAFT"
    BY <1>1 DEF MarkPosted
  <2> QED BY <2>1 DEF IInv, ItemFollowsInvoice, ItemsSound
<1>5. Worth(i)' = base
  BY <1>2 DEF Worth
<1>6. \A x \in Docs \ {i} : Worth(x)' = Worth(x)
  BY <1>1, <1>2 DEF Worth
<1> HIDE DEF base
<1>7. JournalFollows' /\ NetLedger' = NetLedger + base
  BY <1>1, <1>2, <1>5, <1>6, PostingKept DEF Reconciled
<1>8. Owed \in Nat
  BY LedgerNat DEF Reconciled, JournalFollows
<1> QED BY <1>2, <1>3, <1>4, <1>7, <1>8 DEF Reconciled

\* The posting of a credit note credits what it takes off the item of its source.
LEMMA PostCreditNoteReconciled ==
  ASSUME Typed, Typed', Reconciled, NEW n \in CreditNotes, NEW v \in Nat, PostCreditNote(n, v)
  PROVE  Reconciled'
<1> DEFINE i == note[n].source
           base == note'[n].base
<1>1. n \in Docs /\ n \notin Invoices /\ MarkPosted(n, v) /\ receipt' = receipt
  BY DocumentsAssumption DEF PostCreditNote, Docs
<1>2. /\ i \in Invoices /\ \A j \in Invoices \ {i} : items'[j] = items[j]
      /\ items'[i].originalBase = items[i].originalBase
      /\ items'[i].outstandingBase = items[i].outstandingBase - base
      /\ \A m \in CreditNotes \ {n} : note'[m] = note[m]
      /\ base \in Nat /\ Post(n, 0 - base)
  BY PostCreditNoteEffect
<1>3. Worth(n)' = 0 - base
  BY <1>1 DEF Worth
<1> HIDE DEF i, base
<1>4. Owed' = Owed - items[i].outstandingBase + items'[i].outstandingBase
  BY <1>2, OwedOne
<1>5. \A x \in Docs \ {n} : Worth(x)' = Worth(x)
  BY <1>1, <1>2 DEF Worth
<1>6. 0 - base \in Int
  BY <1>2
<1>7. JournalFollows' /\ NetLedger' = NetLedger + (0 - base)
  BY <1>1, <1>2, <1>3, <1>5, <1>6, PostingKept DEF Reconciled
<1>8. Owed \in Nat /\ items[i].outstandingBase \in Nat
  BY <1>2, LedgerNat DEF Reconciled, JournalFollows, Typed, TypeOK, ItemType
<1> QED BY <1>2, <1>4, <1>7, <1>8 DEF Reconciled

\* The posting of a receipt credits the total of what it takes off the items.
LEMMA PostReceiptReconciled ==
  ASSUME Typed, Typed', Reconciled, NEW r \in Receipts, NEW v \in Nat, PostReceipt(r, v)
  PROVE  Reconciled'
<1> DEFINE taken == receipt'[r].carrying
           amount == Total(Invoices, taken)
<1>1. r \in Docs /\ r \notin Invoices /\ r \notin CreditNotes /\ MarkPosted(r, v) /\ note' = note
  BY DocumentsAssumption DEF PostReceipt, Docs
<1>2. /\ \A s \in Receipts \ {r} : receipt'[s] = receipt[s]
      /\ amount \in Nat /\ Post(r, 0 - amount)
  BY PostReceiptEffect
<1>3. \A i \in Invoices : items[i].outstandingBase \in Nat /\ taken[i] \in Nat
  BY DEF Typed, TypeOK, ItemType, ReceiptType
<1>4. \A i \in Invoices :
        /\ items'[i].originalBase = items[i].originalBase
        /\ items'[i].outstandingBase = items[i].outstandingBase - taken[i]
  <2>1. \A i \in Invoices :
          IF receipt[r].alloc[i] > 0
          THEN /\ items'[i].originalBase = items[i].originalBase
               /\ items'[i].outstandingBase = items[i].outstandingBase - receipt'[r].carrying[i]
          ELSE items'[i] = items[i] /\ receipt'[r].carrying[i] = 0
    BY PostReceiptEffect
  <2> QED BY <1>3, <2>1
<1>5. Worth(r)' = 0 - amount
  BY <1>1 DEF Worth
<1> HIDE DEF taken
<1>6. Owed' = Owed - amount
  BY <1>3, <1>4, OwedSeveral
<1>7. \A x \in Docs \ {r} : Worth(x)' = Worth(x)
  BY <1>1, <1>2, <1>4 DEF Worth, Docs
<1> HIDE DEF amount
<1>8. 0 - amount \in Int
  BY <1>2
<1>9. JournalFollows' /\ NetLedger' = NetLedger + (0 - amount)
  BY <1>1, <1>2, <1>5, <1>7, <1>8, PostingKept DEF Reconciled
<1>10. Owed \in Nat
  BY LedgerNat DEF Reconciled, JournalFollows
<1> QED BY <1>2, <1>6, <1>9, <1>10 DEF Reconciled

\* The reversal of an invoice takes back what its untouched item opened with.
LEMMA ReverseInvoiceReconciled ==
  ASSUME Typed, Typed', Reconciled,
         NEW i \in Invoices, NEW v \in Nat, NEW q \in Periods, ReverseInvoice(i, v, q)
  PROVE  Reconciled'
<1>1. i \in Docs /\ Reverse(i, v, q) /\ note' = note /\ receipt' = receipt
  BY DEF ReverseInvoice, Docs
<1>2. /\ \A j \in Invoices \ {i} : items'[j] = items[j]
      /\ items'[i].outstandingBase = 0 /\ items[i].outstandingBase = items[i].originalBase
  BY ReverseInvoiceEffect
<1>3. Owed' = Owed - items[i].outstandingBase + items'[i].outstandingBase
  BY <1>2, OwedOne
<1>4. Worth(i) = items[i].outstandingBase
  BY <1>2 DEF Worth
<1>5. \A x \in Docs \ {i} : Worth(x)' = Worth(x)
  BY <1>1, <1>2 DEF Worth
<1>6. JournalFollows' /\ NetLedger' = NetLedger - Worth(i)
  BY <1>1, <1>5, ReversingKept DEF Reconciled
<1>7. Owed \in Nat /\ items[i].outstandingBase \in Nat
  BY LedgerNat DEF Reconciled, JournalFollows, Typed, TypeOK, ItemType
<1> QED BY <1>2, <1>3, <1>4, <1>6, <1>7 DEF Reconciled

\* The reversal of a credit note gives the item back what the posting credited.
LEMMA ReverseCreditNoteReconciled ==
  ASSUME Typed, Typed', Reconciled,
         NEW n \in CreditNotes, NEW v \in Nat, NEW q \in Periods, ReverseCreditNote(n, v, q)
  PROVE  Reconciled'
<1> DEFINE i == note[n].source
<1>1. n \in Docs /\ n \notin Invoices /\ Reverse(n, v, q) /\ note' = note /\ receipt' = receipt
  BY DocumentsAssumption DEF ReverseCreditNote, Docs
<1>2. /\ i \in Invoices /\ \A j \in Invoices \ {i} : items'[j] = items[j]
      /\ items'[i].originalBase = items[i].originalBase
      /\ items'[i].outstandingBase = items[i].outstandingBase + note[n].base
  BY ReverseCreditNoteEffect
<1> HIDE DEF i
<1>3. Owed' = Owed - items[i].outstandingBase + items'[i].outstandingBase
  BY <1>2, OwedOne
<1>4. Worth(n) = 0 - note[n].base
  BY <1>1 DEF Worth
<1>5. \A x \in Docs \ {n} : Worth(x)' = Worth(x)
  BY <1>1, <1>2 DEF Worth
<1>6. JournalFollows' /\ NetLedger' = NetLedger - Worth(n)
  BY <1>1, <1>5, ReversingKept DEF Reconciled
<1>7. Owed \in Nat /\ items[i].outstandingBase \in Nat /\ note[n].base \in Nat
  BY <1>2, LedgerNat DEF Reconciled, JournalFollows, Typed, TypeOK, ItemType, NoteType
<1> QED BY <1>2, <1>3, <1>4, <1>6, <1>7 DEF Reconciled

\* The reversal of a receipt gives the items back what its posting credited.
LEMMA ReverseReceiptReconciled ==
  ASSUME Typed, Typed', IInv, Reconciled,
         NEW r \in Receipts, NEW v \in Nat, NEW q \in Periods, ReverseReceipt(r, v, q)
  PROVE  Reconciled'
<1> DEFINE taken == receipt[r].carrying
           amount == Total(Invoices, taken)
<1>1. /\ r \in Docs /\ r \notin Invoices /\ r \notin CreditNotes
      /\ Reverse(r, v, q) /\ note' = note /\ receipt' = receipt
  BY DocumentsAssumption DEF ReverseReceipt, Docs
<1>2. \A i \in Invoices : /\ items[i].outstandingBase \in Nat
                          /\ taken[i] \in Nat /\ receipt[r].alloc[i] \in Nat
  BY DEF Typed, TypeOK, ItemType, ReceiptType
<1>3. \A i \in Invoices :
        /\ items'[i].originalBase = items[i].originalBase
        /\ items'[i].outstandingBase = items[i].outstandingBase + taken[i]
  <2>1. \A i \in Invoices :
          IF receipt[r].alloc[i] > 0
          THEN /\ items'[i].originalBase = items[i].originalBase
               /\ items'[i].outstandingBase = items[i].outstandingBase + receipt[r].carrying[i]
          ELSE items'[i] = items[i]
    BY ReverseReceiptEffect
  <2>2. \A i \in Invoices : receipt[r].alloc[i] > 0 \/ taken[i] = 0
    <3>1. Posted(r)
      BY <1>1 DEF Reverse, Posted
    <3> QED BY <1>2, <3>1 DEF IInv, PostedCarriesBase
  <2> QED BY <1>2, <2>1, <2>2
<1>4. Worth(r) = 0 - amount
  BY <1>1 DEF Worth
<1> HIDE DEF taken
<1>5. Owed' = Owed + amount
  BY <1>2, <1>3, OwedSeveral
<1>6. \A x \in Docs \ {r} : Worth(x)' = Worth(x)
  BY <1>1, <1>3 DEF Worth
<1>7. amount \in Nat
  BY <1>2, TotalType, DocumentsAssumption
<1> HIDE DEF amount
<1>8. JournalFollows' /\ NetLedger' = NetLedger - Worth(r)
  BY <1>1, <1>6, ReversingKept DEF Reconciled
<1>9. Owed \in Nat
  BY LedgerNat DEF Reconciled, JournalFollows
<1> QED BY <1>4, <1>5, <1>7, <1>8, <1>9 DEF Reconciled

\* A step that posts and reverses nothing leaves the ledger and the items as they are.
LEMMA QuietReconciled ==
  ASSUME Typed, Reconciled, journal' = journal, items' = items,
         \A d \in Docs :
           /\ Posted(d)' => Posted(d) /\ Worth(d)' = Worth(d)
           /\ docs'[d].status \in {"NONE", "DRAFT", "CANCELLED"}
                => docs[d].status \in {"NONE", "DRAFT", "CANCELLED"}
  PROVE  Reconciled'
<1>1. NetLedger' = NetLedger /\ Owed' = Owed
  BY DEF NetLedger, Debits, Credits, Owed
<1>2. JournalFollows'
  BY DEF Reconciled, JournalFollows, LinesOf
<1> QED BY <1>1, <1>2 DEF Reconciled

\* Every step keeps the ledger and the items reconciled.
LEMMA ReconciledStep ==
  Typed /\ Typed' /\ IInv /\ ItemsSound /\ Reconciled /\ [Next]_vars => Reconciled'
<1> SUFFICES ASSUME Typed, Typed', IInv, ItemsSound, Reconciled, [Next]_vars
             PROVE  Reconciled'
  OBVIOUS
<1>1. \A v \in Versions : v \in Nat
  BY NumbersAssumption DEF Versions
<1>2. CASE Posting
  BY <1>1, <1>2, PostInvoiceReconciled, PostCreditNoteReconciled, PostReceiptReconciled
     DEF Posting
<1>3. CASE Reversing
  BY <1>1, <1>3, ReverseInvoiceReconciled, ReverseCreditNoteReconciled, ReverseReceiptReconciled
     DEF Reversing
<1>4. CASE Drafting
  <2>1. PICK d \in Docs :
          /\ docs[d].status \in {"NONE", "DRAFT"}
          /\ docs'[d].status \in {"DRAFT", "CANCELLED"}
          /\ \A x \in Docs \ {d} : docs'[x] = docs[x]
          /\ \A r \in Receipts \ {d} : receipt'[r] = receipt[r]
          /\ \A n \in CreditNotes \ {d} : note'[n] = note[n]
    BY <1>4, DraftingEffect
  <2>2. items' = items /\ journal' = journal
    BY <1>4, DraftingEffect
  <2>3. \A x \in Docs \ {d} : Worth(x)' = Worth(x)
    BY <2>1, <2>2 DEF Worth, Docs
  <2>4. ~ Posted(d)' /\ \A x \in Docs \ {d} : Posted(x)' = Posted(x)
    BY <2>1 DEF Posted
  <2> QED BY <2>1, <2>2, <2>3, <2>4, QuietReconciled
<1>5. CASE Closing \/ UNCHANGED vars
  <2>1. UNCHANGED <<docs, note, receipt, items, journal>>
    BY <1>5 DEF Closing, ClosePeriod, ReopenPeriod, vars
  <2>2. \A x \in Docs : Worth(x)' = Worth(x) /\ Posted(x)' = Posted(x)
    BY <2>1 DEF Worth, Posted
  <2> QED BY <2>1, <2>2, QuietReconciled
<1> QED BY <1>2, <1>3, <1>4, <1>5 DEF Next

\* Nothing is posted and nothing is owed initially.
LEMMA ReconciledInit == Init => Reconciled
<1> SUFFICES ASSUME Init PROVE Reconciled
  OBVIOUS
<1>1. journal = {} /\ \A d \in Docs : ~ Posted(d)
  BY DEF Init, Posted
<1>2. JournalFollows
  BY <1>1, FS_EmptySet DEF JournalFollows, LinesOf
<1>3. Debits = {} /\ Credits = {}
  BY <1>1 DEF Debits, Credits
<1>4. /\ Total(Debits, [l \in Debits |-> l.amount]) = 0
      /\ Total(Credits, [l \in Credits |-> 0 - l.amount]) = 0
  BY <1>3, TotalZero
<1>5. \A i \in Invoices : items[i].outstandingBase = 0
  BY DEF Init, NoItem
<1>6. Owed = 0
  BY <1>5, TotalZero DEF Owed
<1> QED BY <1>2, <1>4, <1>6 DEF Reconciled, NetLedger

(***************************************************************************)
(* The receivable control account always equals the receivable items:      *)
(* what the posting engine writes is what the settlement takes, although   *)
(* one reads the document and the other the item, and a reversal undoes    *)
(* both alike.                                                             *)
(***************************************************************************)
THEOREM LedgerMatchesSubledgerCorrect == Spec => []LedgerMatchesSubledger
<1>1. Typed /\ Reconciled => LedgerMatchesSubledger
  <2> SUFFICES ASSUME Typed, Reconciled PROVE LedgerMatchesSubledger
    OBVIOUS
  <2> DEFINE debit == Total(Debits, [l \in Debits |-> l.amount])
             credit == Total(Credits, [l \in Credits |-> 0 - l.amount])
  <2>1. debit \in Nat /\ credit \in Nat /\ Owed \in Nat
    BY LedgerNat DEF Reconciled, JournalFollows
  <2>2. debit - credit = Owed
    BY DEF Reconciled, NetLedger
  <2> HIDE DEF debit, credit
  <2>3. debit = credit + Owed
    BY <2>1, <2>2
  <2> QED BY <2>3 DEF debit, credit, Owed, LedgerMatchesSubledger
<1> QED BY ItemsSoundCorrect, ReconciledInit, ReconciledStep, TypedStep, <1>1, PTL DEF Spec

-----------------------------------------------------------------------------
(* Periods.                                                                *)

(***************************************************************************)
(* create and update read the period again in their transaction, close     *)
(* counts the drafts: no draft is ever left in a closed period.            *)
(***************************************************************************)
THEOREM NoDraftInClosedPeriodCorrect == Spec => []NoDraftInClosedPeriod
<1>1. Init => NoDraftInClosedPeriod
  BY DEF Init, NoDraftInClosedPeriod
<1>2. Typed /\ NoDraftInClosedPeriod /\ [Next]_vars => NoDraftInClosedPeriod'
  <2> SUFFICES ASSUME Typed, NoDraftInClosedPeriod, [Next]_vars,
                      NEW d \in Docs, docs'[d].status = "DRAFT"
               PROVE  periods'[docs'[d].period].status # "CLOSED"
    BY DEF NoDraftInClosedPeriod
  <2> USE DEF NoDraftInClosedPeriod, Typed, TypeOK, DocType
  <2>1. ASSUME NEW e \in Docs, NEW p \in Periods, NEW v, Create(e, p) \/ Update(e, v, p),
               periods' = periods
        PROVE  periods'[docs'[d].period].status # "CLOSED"
    BY <2>1 DEF Create, Update
  <2>2. ASSUME NEW e \in Docs, NEW v, NEW q, MarkPosted(e, v) \/ Reverse(e, v, q) \/ Cancel(e, v),
               periods' = periods
        PROVE  periods'[docs'[d].period].status # "CLOSED"
    BY <2>2 DEF MarkPosted, Reverse, Cancel
  <2>3. CASE Drafting
    BY <2>1, <2>2, <2>3
    DEF Drafting, Docs, CreateInvoice, UpdateInvoice, DraftInvoice, CreateCreditNote,
        UpdateCreditNote, DraftCreditNote, CreateReceipt, UpdateReceipt, DraftReceipt, Cancel
  <2>4. CASE Posting
    BY <2>2, <2>4 DEF Posting, Docs, PostInvoice, PostCreditNote, PostReceipt
  <2>5. CASE Reversing
    BY <2>2, <2>5 DEF Reversing, Docs, ReverseInvoice, ReverseCreditNote, ReverseReceipt
  <2>6. CASE Closing
    <3>1. docs'[d].period \in Periods /\ docs' = docs
      BY <2>6 DEF Closing, ClosePeriod, ReopenPeriod, Drafted
    <3> QED BY <2>6, <3>1 DEF Closing, ClosePeriod, ReopenPeriod
  <2>7. CASE UNCHANGED vars
    BY <2>7 DEF vars
  <2> QED BY <2>3, <2>4, <2>5, <2>6, <2>7 DEF Next
<1> QED BY TypedInit, TypedStep, <1>1, <1>2, PTL DEF Spec

(***************************************************************************)
(* close requires the earlier periods closed and reopen the later ones     *)
(* open, so the closed periods are always the earliest; the year follows.  *)
(***************************************************************************)
THEOREM ClosedInOrderCorrect == Spec => []ClosedInOrder
<1>1. Init => ClosedInOrder
  <2> SUFFICES ASSUME Init PROVE ClosedInOrder
    OBVIOUS
  <2>1. 1 \in Periods /\ \A p \in Periods : periods[p].status = "OPEN"
    BY NumbersAssumption DEF Init, Periods
  <2> QED BY <2>1 DEF Init, ClosedInOrder
<1>2. Typed /\ ClosedInOrder /\ [Next]_vars => ClosedInOrder'
  <2> SUFFICES ASSUME Typed, ClosedInOrder, [Next]_vars PROVE ClosedInOrder'
    OBVIOUS
  <2>1. CASE UNCHANGED <<periods, year>>
    BY <2>1 DEF ClosedInOrder
  <2>2. ASSUME NEW p \in Periods, NEW v, ClosePeriod(p, v) PROVE ClosedInOrder'
    <3>1. /\ \A q \in 1 .. p - 1 : periods[q].status = "CLOSED"
          /\ periods' = [periods EXCEPT ![p] = [status |-> "CLOSED", version |-> v + 1]]
          /\ periods[p].status # "CLOSED"
          /\ year' = IF \A q \in Periods : periods'[q].status = "CLOSED" THEN "CLOSED" ELSE year
      BY <2>2 DEF ClosePeriod
    <3>2. periods'[p].status = "CLOSED" /\ \A q \in Periods \ {p} : periods'[q] = periods[q]
      BY <3>1 DEF Typed, TypeOK
    <3>3. year # "CLOSED"
      BY <3>1 DEF ClosedInOrder
    <3>4. year' = "CLOSED" <=> \A q \in Periods : periods'[q].status = "CLOSED"
      BY <3>1, <3>3
    <3>5. ASSUME NEW q \in Periods, periods'[q].status = "CLOSED", NEW s \in 1 .. q - 1
          PROVE  periods'[s].status = "CLOSED"
      <4>1. s \in Periods
        BY NumbersAssumption DEF Periods
      <4>2. CASE s = p
        BY <3>2, <4>2
      <4>3. CASE s # p
        <5>1. CASE q = p
          BY <3>1, <3>2, <4>1, <4>3, <5>1
        <5>2. CASE q # p
          BY <3>2, <3>5, <4>1, <4>3, <5>2 DEF ClosedInOrder
        <5> QED BY <5>1, <5>2
      <4> QED BY <4>2, <4>3
    <3> QED BY <3>4, <3>5 DEF ClosedInOrder
  <2>3. ASSUME NEW p \in Periods, NEW v, ReopenPeriod(p, v) PROVE ClosedInOrder'
    <3>1. /\ \A q \in p + 1 .. NPeriods : periods[q].status # "CLOSED"
          /\ periods' = [periods EXCEPT ![p] = [status |-> "REOPENED", version |-> v + 1]]
          /\ year' = "OPEN"
      BY <2>3 DEF ReopenPeriod
    <3>2. periods'[p].status # "CLOSED" /\ \A q \in Periods \ {p} : periods'[q] = periods[q]
      BY <3>1 DEF Typed, TypeOK
    <3>3. ASSUME NEW q \in Periods, periods'[q].status = "CLOSED", NEW s \in 1 .. q - 1
          PROVE  periods'[s].status = "CLOSED"
      <4>1. q # p /\ periods[q].status = "CLOSED"
        BY <3>2, <3>3
      <4>2. ~ (q > p)
        BY <3>1, <4>1, NumbersAssumption DEF Periods
      <4>3. s \in Periods \ {p}
        BY <4>1, <4>2, NumbersAssumption DEF Periods
      <4> QED BY <3>2, <3>3, <4>1, <4>3 DEF ClosedInOrder
    <3> QED BY <3>1, <3>2, <3>3 DEF ClosedInOrder
  <2>4. CASE Closing
    BY <2>2, <2>3, <2>4 DEF Closing
  <2>5. CASE ~ Closing
    <3>1. UNCHANGED <<periods, year>>
      BY <2>5
      DEF Next, vars, Drafting, Posting, Reversing, Cancel, CreateInvoice, UpdateInvoice,
          DraftInvoice, CreateCreditNote, UpdateCreditNote, DraftCreditNote, CreateReceipt,
          UpdateReceipt, DraftReceipt, PostInvoice, PostCreditNote, PostReceipt,
          ReverseInvoice, ReverseCreditNote, ReverseReceipt
    <3> QED BY <2>1, <3>1
  <2> QED BY <2>4, <2>5
<1> QED BY TypedInit, TypedStep, <1>1, <1>2, PTL DEF Spec

\* The lines a posting or a reversal adds are dated in a period that is open.
LEMMA LinesAdded ==
  ASSUME Typed, NEW d \in Docs, NEW v \in Nat, NEW p \in Periods, periods[p].status = "CLOSED",
         \/ MarkPosted(d, v) /\ \E amount \in Int : Post(d, amount)
         \/ \E q \in Periods : Reverse(d, v, q)
  PROVE  LinesIn(p)' = LinesIn(p)
<1>1. CASE MarkPosted(d, v) /\ \E amount \in Int : Post(d, amount)
  <2>1. docs[d].period # p
    BY <1>1 DEF MarkPosted
  <2> QED BY <1>1, <2>1 DEF Post, LinesIn
<1>2. ASSUME NEW q \in Periods, Reverse(d, v, q) PROVE LinesIn(p)' = LinesIn(p)
  <2>1. q # p
    BY <1>2 DEF Reverse
  <2>2. \A l \in journal' : l \in journal \/ l.period = q
    BY <1>2 DEF Reverse
  <2>3. journal \subseteq journal'
    BY <1>2 DEF Reverse
  <2> QED BY <2>1, <2>2, <2>3 DEF LinesIn
<1> QED BY <1>1, <1>2

(***************************************************************************)
(* The ledger of a period that stays closed does not change: markPosted    *)
(* looks at the period of the draft and reverse at the one it dates the    *)
(* reversal in, both in the transaction that writes the lines.             *)
(***************************************************************************)
THEOREM ClosedPeriodFrozenCorrect == Spec => ClosedPeriodFrozen
<1> DEFINE Frozen(p) ==
      periods[p].status = "CLOSED" /\ periods'[p].status = "CLOSED" => LinesIn(p)' = LinesIn(p)
<1>1. Typed /\ [Next]_vars => [\A p \in Periods : Frozen(p)]_vars
  <2> SUFFICES ASSUME Typed, Next, NEW p \in Periods, periods[p].status = "CLOSED"
               PROVE  LinesIn(p)' = LinesIn(p)
    OBVIOUS
  <2>1. \A v \in Versions : v \in Nat
    BY NumbersAssumption DEF Versions
  <2>2. ASSUME journal' = journal PROVE LinesIn(p)' = LinesIn(p)
    BY <2>2 DEF LinesIn
  <2>3. CASE Posting
    <3>1. ASSUME NEW i \in Invoices, NEW v \in Nat, PostInvoice(i, v)
          PROVE  LinesIn(p)' = LinesIn(p)
      <4>1. MarkPosted(i, v) /\ i \in Docs
        BY <3>1 DEF PostInvoice, Docs
      <4>2. \E amount \in Int : Post(i, amount)
        BY <3>1, PostInvoiceEffect
      <4> QED BY <4>1, <4>2, LinesAdded
    <3>2. ASSUME NEW n \in CreditNotes, NEW v \in Nat, PostCreditNote(n, v)
          PROVE  LinesIn(p)' = LinesIn(p)
      <4>1. MarkPosted(n, v) /\ n \in Docs
        BY <3>2 DEF PostCreditNote, Docs
      <4>2. note'[n].base \in Nat /\ Post(n, 0 - note'[n].base)
        BY <3>2, PostCreditNoteEffect
      <4>3. \E amount \in Int : Post(n, amount)
        BY <4>2
      <4> QED BY <4>1, <4>3, LinesAdded
    <3>3. ASSUME NEW r \in Receipts, NEW v \in Nat, PostReceipt(r, v)
          PROVE  LinesIn(p)' = LinesIn(p)
      <4>1. MarkPosted(r, v) /\ r \in Docs
        BY <3>3 DEF PostReceipt, Docs
      <4>2. /\ Total(Invoices, receipt'[r].carrying) \in Nat
            /\ Post(r, 0 - Total(Invoices, receipt'[r].carrying))
        BY <3>3, PostReceiptEffect
      <4>3. \E amount \in Int : Post(r, amount)
        BY <4>2
      <4> QED BY <4>1, <4>3, LinesAdded
    <3> QED BY <2>1, <2>3, <3>1, <3>2, <3>3 DEF Posting
  <2>4. CASE Reversing
    <3>1. PICK v \in Versions, q \in Periods, d \in Docs : Reverse(d, v, q)
      BY <2>4 DEF Reversing, ReverseInvoice, ReverseCreditNote, ReverseReceipt, Docs
    <3> QED BY <2>1, <3>1, LinesAdded
  <2>5. CASE Drafting
    BY <2>2, <2>5, DraftingEffect
  <2>6. CASE Closing
    BY <2>2, <2>6 DEF Closing, ClosePeriod, ReopenPeriod
  <2> QED BY <2>3, <2>4, <2>5, <2>6 DEF Next
<1> QED BY TypedInit, TypedStep, <1>1, PTL DEF Spec, ClosedPeriodFrozen

=============================================================================
