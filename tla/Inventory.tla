------------------------------- MODULE Inventory -------------------------------
(***************************************************************************)
(* Stock and value of one item in the warehouses of a company: manual and  *)
(* invoice movements, transfers, reversals, the first valuation of older   *)
(* stock, and stock counts with their settlement, beside the inventory     *)
(* account of the general ledger.                                          *)
(*                                                                         *)
(* Sources, under apps/api/src: inventory/inventory-movement-service.ts,   *)
(* inventory/inventory-count/inventory-count-service.ts, and the postings  *)
(* of sales/sales-invoice-service.ts and purchases/purchase-invoice-       *)
(* service.ts that move stock.                                             *)
(*                                                                         *)
(* A command is a serializable transaction that locks the warehouses it    *)
(* touches, and is an action; a refused one changes nothing.  Movements    *)
(* are kept in the order they were created in, which is the order of the   *)
(* locks, and stands for createdAt.  Money is counted in its last decimal, *)
(* unit costs in 1/Scale of it; both round half up, as the code does.      *)
(***************************************************************************)
EXTENDS Sequences, Totals

CONSTANTS
  Warehouses,
  Sessions,      \* stock count sessions
  Quantities,    \* quantities of a movement
  UnitCosts,     \* unit costs that users enter, in 1/Scale
  Nets,          \* net amounts of a purchase line, in the base currency
  Scale,         \* what a unit cost has more of precision than an amount
  Legacy,        \* warehouses with stock from before valuation
  LegacyStock,   \* how much of it each has
  MaxMovements,  \* bound on the movements of a run
  Nowhere        \* the other end of a receipt or an issue

ASSUME InventoryAssumption ==
  /\ IsFiniteSet(Warehouses)
  /\ Quantities \subseteq Nat \ {0}
  /\ UnitCosts \subseteq Nat \ {0}
  /\ Nets \subseteq Nat
  /\ Scale \in Nat \ {0}
  /\ Legacy \in SUBSET Warehouses
  /\ LegacyStock \in Nat \ {0}
  /\ MaxMovements \in Nat
  /\ Nowhere \notin Warehouses

VARIABLES
  balance,      \* inventory_balances of each warehouse
  movements,    \* inventory_movements, in the order of createdAt
  ledger,       \* net debit of the inventory account
  initialized,  \* sum of inventory_valuation_initializations
  session       \* stock_count_sessions, with the line of the item

vars == <<balance, movements, ledger, initialized, session>>

Inbound == {"OPENING", "IN"}
Manual == Inbound \union {"OUT", "TRANSFER"}
Sources == {"SALE", "CREDIT", "PURCHASE", "DEBIT"}
Places == Warehouses \union {Nowhere}
Uncounted == -1

BalanceType == [onHand : Nat, value : Nat, average : Nat, valued : BOOLEAN]

\* "of" is the movement of the source invoice, "reverses" the one reversed;
\* "booked" is what the journal of the movement put on the inventory account.
MovementType ==
  [kind : Manual \union Sources, of : Nat, reverses : Nat, from : Places, to : Places,
   quantity : Nat \ {0}, cost : Nat, booked : Int, status : {"POSTED", "REVERSED"}]

SessionType ==
  [state : {"NONE", "DRAFT", "SUBMITTED", "APPROVED", "SETTLED"}, warehouse : Places,
   snapshot : Nat, listed : BOOLEAN, book : Nat, cost : Nat, counted : Nat \union {Uncounted}]

-----------------------------------------------------------------------------
(* createInTransaction.                                                    *)

\* ROUND_HALF_UP of n / d.
HalfUp(n, d) == (2 * n + d) \div (2 * d)

Money(units) == HalfUp(units, Scale)
UnitCost(value, quantity) == HalfUp(value * Scale, quantity)

\* The last of the stock takes all of the value with it.
IssueCost(w, quantity) ==
  IF quantity = balance[w].onHand THEN balance[w].value
  ELSE Money(quantity * balance[w].average)

HasValuation(w) == balance[w].valued \/ balance[w].onHand = 0

Changed(w, quantity, cost) ==
  LET onHand == balance[w].onHand + quantity
      value == balance[w].value + cost
  IN  [onHand |-> onHand, value |-> value, valued |-> TRUE,
       average |-> IF onHand = 0 THEN 0 ELSE UnitCost(value, onHand)]

After(m) ==
  [w \in Warehouses |->
     CASE w = m.from -> Changed(w, 0 - m.quantity, 0 - m.cost)
       [] w = m.to -> Changed(w, m.quantity, m.cost)
       [] OTHER -> balance[w]]

\* Mutant of Sound: value may be left where no stock is left.
SoundEnough(b) == b.onHand >= 0 /\ b.value >= 0

\* INSUFFICIENT_STOCK, INSUFFICIENT_INVENTORY_VALUE, INVENTORY_VALUE_MISMATCH.
Sound(b) == b.onHand >= 0 /\ b.value >= 0 /\ (b.onHand = 0 => b.value = 0)

Recorded(m) ==
  Append(IF m.reverses = 0 THEN movements
         ELSE [movements EXCEPT ![m.reverses].status = "REVERSED"], m)

\* The stock side of every command, and its line on the inventory account.
Move(m) ==
  /\ Len(movements) < MaxMovements
  /\ m.from # Nowhere => balance[m.from].valued
  /\ m.to # Nowhere => HasValuation(m.to)
  /\ \A w \in Warehouses \intersect {m.from, m.to} : Sound(After(m)[w])
  /\ balance' = After(m)
  /\ movements' = Recorded(m)
  /\ ledger' = ledger + m.booked
  /\ UNCHANGED initialized

Movement(kind, of, from, to, quantity, cost, booked) ==
  [kind |-> kind, of |-> of, reverses |-> 0, from |-> from, to |-> to,
   quantity |-> quantity, cost |-> cost, booked |-> booked, status |-> "POSTED"]

Receipt(kind, of, w, quantity, cost) == Movement(kind, of, Nowhere, w, quantity, cost, cost)
Issue(kind, of, w, quantity) ==
  LET cost == IssueCost(w, quantity)
  IN  Movement(kind, of, w, Nowhere, quantity, cost, 0 - cost)

-----------------------------------------------------------------------------
(* createMovement.  A movement with a journal must be worth something.     *)

NeverMoved(w) == \A i \in DOMAIN movements : w \notin {movements[i].from, movements[i].to}

ManualIn(kind, w, quantity, unitCost) ==
  /\ kind = "OPENING" => NeverMoved(w)
  /\ Money(quantity * unitCost) > 0
  /\ Move(Receipt(kind, 0, w, quantity, Money(quantity * unitCost)))

ManualOut(w, quantity) ==
  /\ IssueCost(w, quantity) > 0
  /\ Move(Issue("OUT", 0, w, quantity))

Transfer(from, to, quantity) ==
  /\ from # to
  /\ Move(Movement("TRANSFER", 0, from, to, quantity, IssueCost(from, quantity), 0))

\* The same stock at the same cost the other way, and the journal swapped.
Opposite(i) ==
  LET m == movements[i]
  IN  [kind |-> CASE m.kind \in Inbound -> "OUT"
                  [] m.kind = "OUT" -> "IN"
                  [] OTHER -> m.kind,
       of |-> m.of, reverses |-> i, from |-> m.to, to |-> m.from,
       quantity |-> m.quantity, cost |-> m.cost, booked |-> 0 - m.booked, status |-> "POSTED"]

Standing(i) == movements[i].status = "POSTED" /\ movements[i].reverses = 0

\* reverseMovement.
ReverseManual(i) ==
  /\ movements[i].kind \in Manual /\ Standing(i)
  /\ Move(Opposite(i))

\* initializeBalanceValuation: no journal, the account was opened with it.  A
\* unit cost of nothing is accepted here.
Initialize(w, unitCost) ==
  LET value == Money(balance[w].onHand * unitCost)
  IN  /\ w \in Legacy /\ ~ balance[w].valued
      /\ balance' = [balance EXCEPT ![w].value = value, ![w].average = unitCost, ![w].valued = TRUE]
      /\ initialized' = initialized + value
      /\ UNCHANGED <<movements, ledger>>

-----------------------------------------------------------------------------
(* applyInvoiceStockMovement, with the posting of the document it is for.  *)

Notes(kind, i) == {j \in DOMAIN movements : movements[j].kind = kind /\ movements[j].of = i /\ Standing(j)}
Noted(kind, i) == Total(Notes(kind, i), [j \in DOMAIN movements |-> movements[j].quantity])
NotedCost(kind, i) == Total(Notes(kind, i), [j \in DOMAIN movements |-> movements[j].cost])

PostSale(w, quantity) == Move(Issue("SALE", 0, w, quantity))

\* Mutant of CreditCost: the last credit note is costed like the others.
CreditCostByUnit(i, quantity) ==
  Money(quantity * UnitCost(movements[i].cost, movements[i].quantity))

\* resolveInvoiceExactCosts: the last credit note of a sale takes what is left.
CreditCost(i, quantity) ==
  IF Noted("CREDIT", i) + quantity = movements[i].quantity
  THEN movements[i].cost - NotedCost("CREDIT", i)
  ELSE Money(quantity * UnitCost(movements[i].cost, movements[i].quantity))

PostCredit(i, w, quantity) ==
  /\ movements[i].kind = "SALE" /\ Standing(i)
  /\ Noted("CREDIT", i) + quantity <= movements[i].quantity
  /\ CreditCost(i, quantity) >= 0
  /\ Move(Receipt("CREDIT", i, w, quantity, CreditCost(i, quantity)))

PostPurchase(w, quantity, net) == Move(Receipt("PURCHASE", 0, w, quantity, net))

\* Mutant of DebitBooked: the stock goes out at cost and the account at net.
DebitBookedAtNet(net, cost) == 0 - net

\* The line at its net amount, then the difference to the cost of the stock.
DebitBooked(net, cost) == (0 - net) + (net - cost)

PostDebit(i, w, quantity, net) ==
  LET cost == IssueCost(w, quantity)
  IN  /\ movements[i].kind = "PURCHASE" /\ Standing(i)
      /\ Noted("DEBIT", i) + quantity <= movements[i].quantity
      /\ Move(Movement("DEBIT", i, w, Nowhere, quantity, cost, DebitBooked(net, cost)))

\* A posted note has settled a part of its invoice, which is then not reversed.
ReverseDocument(i) ==
  /\ movements[i].kind \in Sources /\ Standing(i)
  /\ Notes("CREDIT", i) = {} /\ Notes("DEBIT", i) = {}
  /\ Move(Opposite(i))

-----------------------------------------------------------------------------
(* Stock counts.                                                           *)

Snapshot(s, w, listed) ==
  session' = [session EXCEPT ![s] =
    [state |-> "DRAFT", warehouse |-> w, snapshot |-> Len(movements), listed |-> listed,
     book |-> balance[w].onHand, cost |-> balance[w].average, counted |-> Uncounted]]

\* createSession.  An item that is inactive then is not listed.
CreateSession(s, w, listed) ==
  /\ session[s].state = "NONE"
  /\ Snapshot(s, w, listed)
  /\ UNCHANGED <<balance, movements, ledger, initialized>>

\* addEntry, for an item that has no line: it is given one as of now.
AddLine(s, counted) ==
  LET w == session[s].warehouse
  IN  /\ session[s].state = "DRAFT" /\ ~ session[s].listed
      /\ session' = [session EXCEPT ![s].listed = TRUE, ![s].counted = counted,
                       ![s].book = balance[w].onHand, ![s].cost = balance[w].average]
      /\ UNCHANGED <<balance, movements, ledger, initialized>>

\* bulkEnterCounts, addEntry and reverseEntry bring the count to any total.
EnterCount(s, counted) ==
  /\ session[s].state = "DRAFT" /\ session[s].listed
  /\ session' = [session EXCEPT ![s].counted = counted]
  /\ UNCHANGED <<balance, movements, ledger, initialized>>

Submit(s) ==
  /\ session[s].state = "DRAFT"
  /\ session[s].listed => session[s].counted # Uncounted
  /\ session' = [session EXCEPT ![s].state = "SUBMITTED"]
  /\ UNCHANGED <<balance, movements, ledger, initialized>>

Approve(s) ==
  /\ session[s].state = "SUBMITTED"
  /\ session' = [session EXCEPT ![s].state = "APPROVED"]
  /\ UNCHANGED <<balance, movements, ledger, initialized>>

\* Mutant of MovedSince: what went out of the warehouse is not looked for.
ReceivedSince(s) ==
  \E i \in session[s].snapshot + 1 .. Len(movements) :
    movements[i].status = "POSTED" /\ movements[i].to = session[s].warehouse

\* COUNT_MOVED_SINCE_SNAPSHOT looks at POSTED movements only.
MovedSince(s) ==
  \E i \in session[s].snapshot + 1 .. Len(movements) :
    /\ movements[i].status = "POSTED"
    /\ session[s].warehouse \in {movements[i].from, movements[i].to}

Variance(s) == IF session[s].listed THEN session[s].counted - session[s].book ELSE 0

\* A surplus is valued at the cost supplied, or else at that of the snapshot.
SurplusCosts(s) == UnitCosts \union ({session[s].cost} \ {0})

\* settleApprovedCount.
Settle(s) ==
  /\ session[s].state = "APPROVED"
  /\ ~ MovedSince(s)
  /\ session' = [session EXCEPT ![s].state = "SETTLED"]
  /\ \/ Variance(s) = 0 /\ UNCHANGED <<balance, movements, ledger, initialized>>
     \/ /\ Variance(s) > 0
        /\ \E unitCost \in SurplusCosts(s) : ManualIn("IN", session[s].warehouse, Variance(s), unitCost)
     \/ /\ Variance(s) < 0
        /\ ManualOut(session[s].warehouse, 0 - Variance(s))

-----------------------------------------------------------------------------
\* Stock from before valuation came in without a cost and without a journal.
Init ==
  /\ balance = [w \in Warehouses |->
       [onHand |-> IF w \in Legacy THEN LegacyStock ELSE 0, value |-> 0, average |-> 0, valued |-> FALSE]]
  /\ \E order \in [1 .. Cardinality(Legacy) -> Legacy] :
       /\ \A w \in Legacy : \E i \in DOMAIN order : order[i] = w
       /\ movements = [i \in DOMAIN order |-> Movement("IN", 0, Nowhere, order[i], LegacyStock, 0, 0)]
  /\ ledger = 0
  /\ initialized = 0
  /\ session = [s \in Sessions |->
       [state |-> "NONE", warehouse |-> Nowhere, snapshot |-> 0, listed |-> FALSE,
        book |-> 0, cost |-> 0, counted |-> Uncounted]]

ByHand ==
  \/ \E w \in Warehouses, quantity \in Quantities :
       \/ \E kind \in Inbound, unitCost \in UnitCosts : ManualIn(kind, w, quantity, unitCost)
       \/ ManualOut(w, quantity)
       \/ \E to \in Warehouses : Transfer(w, to, quantity)
  \/ \E i \in DOMAIN movements : ReverseManual(i)
  \/ \E w \in Warehouses, unitCost \in UnitCosts \union {0} : Initialize(w, unitCost)

ByDocument ==
  \/ \E w \in Warehouses, quantity \in Quantities :
       \/ PostSale(w, quantity)
       \/ \E net \in Nets : PostPurchase(w, quantity, net)
       \/ \E i \in DOMAIN movements :
            PostCredit(i, w, quantity) \/ \E net \in Nets : PostDebit(i, w, quantity, net)
  \/ \E i \in DOMAIN movements : ReverseDocument(i)

Counting(s) ==
  \/ \E w \in Warehouses, listed \in BOOLEAN : CreateSession(s, w, listed)
  \/ \E counted \in Quantities \union {0} : AddLine(s, counted)
  \/ \E counted \in Quantities \union {0, Uncounted} : EnterCount(s, counted)
  \/ Submit(s) \/ Approve(s)

Next ==
  \/ (ByHand \/ ByDocument) /\ UNCHANGED session
  \/ \E s \in Sessions : Counting(s) \/ Settle(s)

Spec == Init /\ [][Next]_vars

-----------------------------------------------------------------------------
(* What the component promises.                                            *)

(***************************************************************************)
(* The types of the rows, and that neither stock nor value is negative and *)
(* no value is left where there is no stock: the check of INVENTORY_VALUE_ *)
(* MISMATCH together with the last issue taking the whole value.           *)
(***************************************************************************)
TypeOK ==
  /\ balance \in [Warehouses -> BalanceType]
  /\ \A w \in Warehouses : balance[w].onHand = 0 => balance[w].value = 0
  /\ movements \in Seq(MovementType)
  /\ ledger \in Int
  /\ initialized \in Nat
  /\ session \in [Sessions -> SessionType]

StockValue == Total(Warehouses, [w \in Warehouses |-> balance[w].value])

(***************************************************************************)
(* The inventory account and the warehouses are worth the same, but for    *)
(* the stock that was valued without a journal.  Sales are booked by the   *)
(* sales service, purchases at their net by the purchase service, the rest *)
(* here, and a reversal swaps a journal while the stock goes back at its   *)
(* own cost: the two sides must agree after any mix of them.               *)
(***************************************************************************)
LedgerAgreesWithStock == ledger + initialized = StockValue

(***************************************************************************)
(* Settling a count leaves in the warehouse what was counted there,        *)
(* whatever was moved, reversed or settled by another session since the    *)
(* snapshot; what would not come out so is refused.                        *)
(***************************************************************************)
SettledAsCounted ==
  [][\A s \in Sessions :
       session[s].state = "APPROVED" /\ session'[s].state = "SETTLED" /\ session[s].listed =>
         balance'[session[s].warehouse].onHand = session[s].counted]_vars

(***************************************************************************)
(* Credit notes that return all of a sale give back exactly its cost, for  *)
(* any split and rounding, and when some were reversed and made again.     *)
(***************************************************************************)
CreditsGiveBackTheCost ==
  \A i \in DOMAIN movements :
    movements[i].kind = "SALE" /\ Standing(i) /\ Noted("CREDIT", i) = movements[i].quantity =>
      NotedCost("CREDIT", i) = movements[i].cost
=============================================================================
