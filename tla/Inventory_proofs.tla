--------------------------- MODULE Inventory_proofs ---------------------------
(***************************************************************************)
(* Proofs about Inventory: the types of its rows, the agreement of stock   *)
(* and inventory account, the cost that credit notes give back, and counts *)
(* that are settled as they were counted.                                  *)
(***************************************************************************)
EXTENDS Inventory, Totals_proofs, SequenceTheorems

-----------------------------------------------------------------------------
(* The invariant.                                                          *)

\* A journal books what its movement brought in, or took out, at its cost.
BookedAtCost(m) ==
  \/ m.from = Nowhere /\ m.to \in Warehouses /\ m.booked = m.cost
  \/ m.from \in Warehouses /\ m.to = Nowhere /\ m.booked = 0 - m.cost
  \/ m.from \in Warehouses /\ m.to \in Warehouses /\ m.from # m.to /\ m.booked = 0

AllBookedAtCost == \A i \in DOMAIN movements : BookedAtCost(movements[i])

\* Stock without a valuation is carried at nothing.
Unvalued == \A w \in Warehouses : ~ balance[w].valued => balance[w].value = 0

\* The movement of a note comes after that of its invoice.
NotesFollow == \A i \in DOMAIN movements : movements[i].of < i

\* Credit notes return no more than was sold.
NotesFit ==
  \A i \in DOMAIN movements :
    movements[i].kind = "SALE" => Noted("CREDIT", i) <= movements[i].quantity

\* What a session took down is what there is, unless its warehouse has moved.
Counts ==
  \A s \in Sessions :
    /\ session[s].state # "NONE" => session[s].warehouse \in Warehouses
    /\ session[s].snapshot <= Len(movements)
    /\ session[s].state \in {"DRAFT", "SUBMITTED", "APPROVED"} /\ session[s].listed /\ ~ MovedSince(s) =>
         session[s].book = balance[session[s].warehouse].onHand

IInv ==
  /\ TypeOK
  /\ AllBookedAtCost
  /\ Unvalued
  /\ LedgerAgreesWithStock
  /\ NotesFollow
  /\ NotesFit
  /\ CreditsGiveBackTheCost
  /\ Counts

-----------------------------------------------------------------------------
(* Amounts.                                                                *)

\* Rounding a natural number gives one.
LEMMA HalfUpType ==
  ASSUME NEW n \in Nat, NEW d \in Nat \ {0}
  PROVE  HalfUp(n, d) \in Nat
<1>1. 2 * n + d \in Nat /\ 2 * d \in Nat \ {0}
  OBVIOUS
<1>2. \A x \in Nat, y \in Nat \ {0} : x \div y \in Nat
  OBVIOUS
<1> QED BY <1>1, <1>2 DEF HalfUp

\* Money and unit costs are natural numbers.
LEMMA MoneyType ==
  /\ \A n \in Nat : Money(n) \in Nat
  /\ \A v \in Nat, q \in Nat \ {0} : UnitCost(v, q) \in Nat
<1>1. Scale \in Nat \ {0}
  BY InventoryAssumption
<1>2. \A x, y \in Nat : x * y \in Nat
  OBVIOUS
<1> QED BY <1>1, <1>2, HalfUpType DEF Money, UnitCost

\* The cost of an issue is a natural number.
LEMMA IssueCostType ==
  ASSUME TypeOK, NEW w \in Warehouses, NEW q \in Nat
  PROVE  IssueCost(w, q) \in Nat
<1>1. balance[w].value \in Nat /\ balance[w].average \in Nat
  BY DEF TypeOK, BalanceType
<1>2. q * balance[w].average \in Nat
  BY <1>1
<1> QED BY <1>1, <1>2, MoneyType DEF IssueCost

-----------------------------------------------------------------------------
(* The movements and their record.                                         *)

\* What is known of the movements there are.
LEMMA Indices ==
  ASSUME TypeOK
  PROVE  /\ Len(movements) \in Nat
         /\ DOMAIN movements = 1 .. Len(movements)
         /\ \A i \in DOMAIN movements : movements[i] \in MovementType
<1>1. movements \in Seq(MovementType)
  BY DEF TypeOK
<1> QED BY <1>1, LenProperties, ElementOfSeq

\* A movement that may be recorded.
Recordable(m) ==
  m \in MovementType /\ m.status = "POSTED" /\ (m.reverses = 0 \/ m.reverses \in DOMAIN movements)

\* The one that a movement reverses changes its status, the others nothing.
Restated(i, m) ==
  IF i = m.reverses THEN [movements[i] EXCEPT !.status = "REVERSED"] ELSE movements[i]

\* What the record of movements is after one more.
LEMMA RecordedIs ==
  ASSUME TypeOK, NEW m, Recordable(m)
  PROVE  /\ Recorded(m) \in Seq(MovementType)
         /\ Len(Recorded(m)) = Len(movements) + 1
         /\ DOMAIN Recorded(m) = 1 .. Len(movements) + 1
         /\ Recorded(m)[Len(movements) + 1] = m
         /\ \A i \in 1 .. Len(movements) : Recorded(m)[i] = Restated(i, m)
<1> DEFINE old == IF m.reverses = 0 THEN movements
                  ELSE [movements EXCEPT ![m.reverses].status = "REVERSED"]
<1>1. /\ old \in Seq(MovementType) /\ Len(old) = Len(movements)
      /\ \A i \in 1 .. Len(movements) : old[i] = Restated(i, m)
  <2>1. CASE m.reverses = 0
    BY <2>1, Indices DEF TypeOK, Restated
  <2>2. CASE m.reverses # 0
    <3> DEFINE r == m.reverses
               e == [movements[r] EXCEPT !.status = "REVERSED"]
    <3>1. r \in 1 .. Len(movements)
      BY <2>2, Indices DEF Recordable
    <3>2. e \in MovementType
      <4>1. movements[r] \in MovementType
        BY <3>1, Indices
      <4>2. \A x \in MovementType : [x EXCEPT !.status = "REVERSED"] \in MovementType
        BY DEF MovementType
      <4> QED BY <4>1, <4>2
    <3>3. movements \in Seq(MovementType)
      BY DEF TypeOK
    <3>4. old = [movements EXCEPT ![r] = e]
      BY <2>2, <3>1
    <3> HIDE DEF r, e, old
    <3>5. /\ [movements EXCEPT ![r] = e] \in Seq(MovementType)
          /\ Len([movements EXCEPT ![r] = e]) = Len(movements)
          /\ \A j \in 1 .. Len(movements) :
               [movements EXCEPT ![r] = e][j] = IF j = r THEN e ELSE movements[j]
      BY <3>1, <3>2, <3>3, ExceptSeq
    <3> QED BY <3>4, <3>5 DEF Restated, r, e
  <2> QED BY <2>1, <2>2
<1>2. Recorded(m) = Append(old, m) /\ m \in MovementType
  BY DEF Recorded, Recordable
<1> HIDE DEF old
<1>3. /\ Append(old, m) \in Seq(MovementType)
      /\ Len(Append(old, m)) = Len(old) + 1
      /\ \A i \in 1 .. Len(old) : Append(old, m)[i] = old[i]
      /\ Append(old, m)[Len(old) + 1] = m
  BY <1>1, <1>2, AppendProperties
<1>4. DOMAIN Append(old, m) = 1 .. Len(old) + 1
  BY <1>3, LenProperties
<1> QED BY <1>1, <1>2, <1>3, <1>4

-----------------------------------------------------------------------------
(* What every command moves.                                               *)

\* A movement that a command makes.
Legit(m) ==
  /\ Recordable(m) /\ BookedAtCost(m)
  /\ m.of <= Len(movements)
  /\ \/ /\ m.reverses = 0
        /\ m.kind = "CREDIT" =>
             /\ m.of \in DOMAIN movements
             /\ Noted("CREDIT", m.of) + m.quantity <= movements[m.of].quantity
             /\ m.cost = CreditCost(m.of, m.quantity)
     \/ /\ m.reverses # 0 /\ Standing(m.reverses)
        /\ m.from = movements[m.reverses].to /\ m.to = movements[m.reverses].from

\* A new movement, but a credit note's, is legitimate where it is booked at cost.
LEMMA NewIsLegit ==
  ASSUME TypeOK,
         NEW kind \in (Manual \union Sources) \ {"CREDIT"},
         NEW of \in Nat, of <= Len(movements),
         NEW from \in Places, NEW to \in Places,
         NEW quantity \in Nat \ {0}, NEW cost \in Nat, NEW booked \in Int,
         BookedAtCost(Movement(kind, of, from, to, quantity, cost, booked))
  PROVE  Legit(Movement(kind, of, from, to, quantity, cost, booked))
<1> DEFINE m == Movement(kind, of, from, to, quantity, cost, booked)
<1>1. m \in MovementType /\ m.status = "POSTED" /\ m.reverses = 0 /\ m.kind # "CREDIT" /\ m.of = of
  BY DEF Movement, MovementType
<1> HIDE DEF m
<1> QED BY <1>1 DEF Legit, Recordable, m

\* A receipt from nowhere, and an issue to nowhere, are booked at cost.
LEMMA BookedSimply ==
  /\ \A kind, of, quantity, cost : \A w \in Warehouses :
       BookedAtCost(Movement(kind, of, Nowhere, w, quantity, cost, cost))
  /\ \A kind, of, quantity : \A w \in Warehouses, cost \in Int, booked \in Int :
       booked = 0 - cost => BookedAtCost(Movement(kind, of, w, Nowhere, quantity, cost, booked))
  /\ \A kind, of, quantity, cost : \A w, v \in Warehouses :
       w # v => BookedAtCost(Movement(kind, of, w, v, quantity, cost, 0))
BY DEF BookedAtCost, Movement

\* A receipt is legitimate.
LEMMA ReceiptIsLegit ==
  ASSUME TypeOK, NEW kind \in (Manual \union Sources) \ {"CREDIT"}, NEW w \in Warehouses,
         NEW quantity \in Nat \ {0}, NEW cost \in Nat
  PROVE  Legit(Receipt(kind, 0, w, quantity, cost))
<1>1. 0 <= Len(movements)
  BY Indices
<1>2. Nowhere \in Places /\ w \in Places
  BY DEF Places
<1>3. BookedAtCost(Movement(kind, 0, Nowhere, w, quantity, cost, cost))
  BY BookedSimply
<1> QED BY <1>1, <1>2, <1>3, NewIsLegit DEF Receipt

\* An issue is legitimate, whatever it is booked for, if that is its cost.
LEMMA IssueIsLegit ==
  ASSUME TypeOK, NEW kind \in (Manual \union Sources) \ {"CREDIT"}, NEW w \in Warehouses,
         NEW quantity \in Nat \ {0}, NEW of \in Nat, of <= Len(movements),
         NEW cost, cost = IssueCost(w, quantity), NEW booked \in Int, booked = 0 - cost
  PROVE  Legit(Movement(kind, of, w, Nowhere, quantity, cost, booked))
<1>1. cost \in Nat
  BY IssueCostType
<1>2. Nowhere \in Places /\ w \in Places
  BY DEF Places
<1>3. BookedAtCost(Movement(kind, of, w, Nowhere, quantity, cost, booked))
  BY <1>1, BookedSimply
<1> QED BY <1>1, <1>2, <1>3, NewIsLegit

\* The opposite of a standing movement is legitimate.
LEMMA OppositeIsLegit ==
  ASSUME TypeOK, AllBookedAtCost, NotesFollow, NEW i \in DOMAIN movements, Standing(i)
  PROVE  Legit(Opposite(i))
<1> DEFINE o == Opposite(i)
<1>1. movements[i] \in MovementType /\ i \in 1 .. Len(movements) /\ Len(movements) \in Nat
  BY Indices
<1>2. BookedAtCost(movements[i]) /\ movements[i].of < i
  BY DEF AllBookedAtCost, NotesFollow
<1>3. /\ o.of = movements[i].of /\ o.reverses = i /\ o.from = movements[i].to
      /\ o.to = movements[i].from /\ o.quantity = movements[i].quantity
      /\ o.cost = movements[i].cost /\ o.booked = 0 - movements[i].booked /\ o.status = "POSTED"
  BY DEF Opposite
<1>4. o \in MovementType
  BY <1>1 DEF MovementType, Opposite, Inbound, Manual, Places
<1> HIDE DEF o
<1>5. BookedAtCost(o)
  BY <1>1, <1>2, <1>3 DEF BookedAtCost, MovementType
<1>6. o.of <= Len(movements)
  BY <1>1, <1>2, <1>3 DEF MovementType
<1> QED BY <1>1, <1>3, <1>4, <1>5, <1>6 DEF Legit, Recordable, o

\* What is counted of the notes of a movement.
LEMMA NotesType ==
  ASSUME TypeOK, NEW kind, NEW i
  PROVE  /\ IsFiniteSet(Notes(kind, i)) /\ Notes(kind, i) \subseteq DOMAIN movements
         /\ \A j \in DOMAIN movements : movements[j].quantity \in Nat /\ movements[j].cost \in Nat
         /\ Noted(kind, i) \in Nat /\ NotedCost(kind, i) \in Nat
<1>1. Notes(kind, i) \subseteq 1 .. Len(movements) /\ Len(movements) \in Nat
  BY Indices DEF Notes
<1>2. IsFiniteSet(1 .. Len(movements))
  BY <1>1, FS_Interval
<1>3. IsFiniteSet(Notes(kind, i))
  BY <1>1, <1>2, FS_Subset
<1>4. \A j \in DOMAIN movements : movements[j].quantity \in Nat /\ movements[j].cost \in Nat
  BY Indices DEF MovementType
<1>5. Notes(kind, i) \subseteq DOMAIN movements
  BY DEF Notes
<1>6. \A j \in Notes(kind, i) :
        /\ [k \in DOMAIN movements |-> movements[k].quantity][j] \in Nat
        /\ [k \in DOMAIN movements |-> movements[k].cost][j] \in Nat
  BY <1>4, <1>5
<1> QED BY <1>3, <1>4, <1>5, <1>6, TotalType DEF Noted, NotedCost

\* A credit note that is posted is legitimate.
LEMMA CreditIsLegit ==
  ASSUME TypeOK, NEW i \in DOMAIN movements, NEW w \in Warehouses, NEW quantity \in Nat \ {0},
         PostCredit(i, w, quantity)
  PROVE  /\ Legit(Receipt("CREDIT", i, w, quantity, CreditCost(i, quantity)))
         /\ Move(Receipt("CREDIT", i, w, quantity, CreditCost(i, quantity)))
<1> DEFINE cost == CreditCost(i, quantity)
           m == Receipt("CREDIT", i, w, quantity, cost)
<1>1. i \in Nat /\ i <= Len(movements) /\ movements[i] \in MovementType
  BY Indices
<1>2. movements[i].cost \in Nat /\ movements[i].quantity \in Nat \ {0}
  BY <1>1 DEF MovementType
<1>3. cost \in Int
  <2>1. quantity * UnitCost(movements[i].cost, movements[i].quantity) \in Nat
    <3>1. UnitCost(movements[i].cost, movements[i].quantity) \in Nat
      BY <1>2, MoneyType
    <3> QED BY <3>1
  <2> QED BY <1>2, <2>1, MoneyType, NotesType DEF CreditCost
<1>4. cost \in Nat
  BY <1>3 DEF PostCredit
<1>5. m = Movement("CREDIT", i, Nowhere, w, quantity, cost, cost)
  BY DEF Receipt
<1> HIDE DEF m, cost
<1>6. m \in MovementType
  BY <1>1, <1>4, <1>5 DEF Movement, MovementType, Places, Sources
<1>7. BookedAtCost(m)
  BY <1>5, BookedSimply
<1>8. /\ m.status = "POSTED" /\ m.reverses = 0 /\ m.of = i /\ m.quantity = quantity /\ m.cost = cost
  BY <1>5 DEF Movement
<1>9. Noted("CREDIT", i) + quantity <= movements[i].quantity /\ Move(m)
  BY DEF PostCredit, m, cost
<1> QED BY <1>1, <1>6, <1>7, <1>8, <1>9 DEF Legit, Recordable, m, cost

\* Every command that moves stock moves it by a legitimate movement.
LEMMA MovesLegit ==
  ASSUME TypeOK, AllBookedAtCost, NotesFollow, ByHand \/ ByDocument
  PROVE  \/ \E w \in Warehouses, unitCost \in UnitCosts \union {0} : Initialize(w, unitCost)
         \/ \E m : Legit(m) /\ Move(m)
<1>1. \A q \in Quantities, u \in UnitCosts : Money(q * u) \in Nat
  BY InventoryAssumption, MoneyType
<1>2. \A q \in Quantities : q \in Nat \ {0}
  BY InventoryAssumption
<1>3. /\ Inbound \subseteq (Manual \union Sources) \ {"CREDIT"}
      /\ {"OUT", "TRANSFER", "SALE", "PURCHASE", "DEBIT"} \subseteq (Manual \union Sources) \ {"CREDIT"}
  BY DEF Inbound, Manual, Sources
<1>4. ASSUME NEW w \in Warehouses, NEW q \in Quantities, NEW kind \in Inbound, NEW u \in UnitCosts,
             ManualIn(kind, w, q, u)
      PROVE  \E m : Legit(m) /\ Move(m)
  BY <1>1, <1>2, <1>3, <1>4, ReceiptIsLegit DEF ManualIn
<1>5. ASSUME NEW w \in Warehouses, NEW q \in Quantities, NEW kind \in {"OUT", "SALE"}, Move(Issue(kind, 0, w, q))
      PROVE  \E m : Legit(m) /\ Move(m)
  <2>1. 0 <= Len(movements) /\ 0 - IssueCost(w, q) \in Int
    BY Indices, <1>2, IssueCostType
  <2>2. Legit(Issue(kind, 0, w, q))
    BY <1>2, <1>3, <2>1, IssueIsLegit DEF Issue
  <2> QED BY <1>5, <2>2
<1>6. ASSUME NEW w \in Warehouses, NEW q \in Quantities, NEW to \in Warehouses, Transfer(w, to, q)
      PROVE  \E m : Legit(m) /\ Move(m)
  <2> DEFINE m == Movement("TRANSFER", 0, w, to, q, IssueCost(w, q), 0)
  <2>1. 0 <= Len(movements) /\ IssueCost(w, q) \in Nat /\ w \in Places /\ to \in Places
    BY Indices, <1>2, IssueCostType DEF Places
  <2>2. BookedAtCost(m) /\ Move(m)
    BY <1>6, BookedSimply DEF Transfer
  <2>3. Legit(m)
    BY <1>2, <1>3, <2>1, <2>2, NewIsLegit
  <2> QED BY <2>2, <2>3
<1>7. ASSUME NEW i \in DOMAIN movements, ReverseManual(i) \/ ReverseDocument(i)
      PROVE  \E m : Legit(m) /\ Move(m)
  BY <1>7, OppositeIsLegit DEF ReverseManual, ReverseDocument
<1>8. ASSUME NEW w \in Warehouses, NEW q \in Quantities, NEW net \in Nets, PostPurchase(w, q, net)
      PROVE  \E m : Legit(m) /\ Move(m)
  BY <1>2, <1>3, <1>8, InventoryAssumption, ReceiptIsLegit DEF PostPurchase
<1>9. ASSUME NEW w \in Warehouses, NEW q \in Quantities, NEW i \in DOMAIN movements, PostCredit(i, w, q)
      PROVE  \E m : Legit(m) /\ Move(m)
  BY <1>2, <1>9, CreditIsLegit
<1>10. ASSUME NEW w \in Warehouses, NEW q \in Quantities, NEW i \in DOMAIN movements, NEW net \in Nets,
              PostDebit(i, w, q, net)
       PROVE  \E m : Legit(m) /\ Move(m)
  <2> DEFINE cost == IssueCost(w, q)
             booked == DebitBooked(net, cost)
             m == Movement("DEBIT", i, w, Nowhere, q, cost, booked)
  <2>1. cost \in Nat /\ net \in Nat /\ i \in Nat /\ i <= Len(movements)
    BY <1>2, Indices, IssueCostType, InventoryAssumption
  <2>2. booked \in Int /\ booked = 0 - cost
    BY <2>1 DEF DebitBooked
  <2>3. Legit(m)
    BY <1>2, <1>3, <2>1, <2>2, IssueIsLegit
  <2>4. Move(m)
    BY <1>10 DEF PostDebit
  <2> QED BY <2>3, <2>4
<1>11. CASE ByHand
  BY <1>11, <1>4, <1>5, <1>6, <1>7 DEF ByHand, ManualOut
<1>12. CASE ByDocument
  BY <1>12, <1>5, <1>7, <1>8, <1>9, <1>10 DEF ByDocument, PostSale
<1> QED BY <1>11, <1>12

-----------------------------------------------------------------------------
(* What a movement does.                                                   *)

\* Stock and value of a warehouse after a movement.
LEMMA BalanceAfter ==
  ASSUME TypeOK, NEW m, Legit(m), Move(m), NEW w \in Warehouses
  PROVE  /\ balance'[w] \in BalanceType /\ (balance'[w].onHand = 0 => balance'[w].value = 0)
         /\ m.from = w => /\ balance'[w].value = balance[w].value - m.cost
                          /\ balance'[w].onHand = balance[w].onHand - m.quantity
         /\ m.to = w => /\ balance'[w].value = balance[w].value + m.cost
                        /\ balance'[w].onHand = balance[w].onHand + m.quantity
         /\ w \in {m.from, m.to} => balance'[w].valued
         /\ w \notin {m.from, m.to} => balance'[w] = balance[w]
<1>1. /\ balance[w] \in BalanceType /\ (balance[w].onHand = 0 => balance[w].value = 0)
      /\ balance' = After(m)
  BY DEF TypeOK, Move
<1>2. balance[w].value \in Nat /\ balance[w].onHand \in Nat
  BY <1>1 DEF BalanceType
<1>3. m.cost \in Nat /\ m.quantity \in Nat \ {0} /\ m.from # m.to
  <2>1. m \in MovementType /\ BookedAtCost(m)
    BY DEF Legit, Recordable
  <2>2. m.from # m.to
    BY <2>1, InventoryAssumption DEF BookedAtCost
  <2> QED BY <2>1, <2>2 DEF MovementType
<1>4. ASSUME NEW q \in Int, NEW c \in Int, balance'[w] = Changed(w, q, c), Sound(balance'[w])
      PROVE  /\ balance'[w] \in BalanceType /\ (balance'[w].onHand = 0 => balance'[w].value = 0)
             /\ balance'[w].value = balance[w].value + c /\ balance'[w].onHand = balance[w].onHand + q
             /\ balance'[w].valued
  <2>1. balance'[w].value = balance[w].value + c /\ balance'[w].onHand = balance[w].onHand + q
    BY <1>4 DEF Changed
  <2>2. balance'[w].value \in Nat /\ balance'[w].onHand \in Nat /\ (balance'[w].onHand = 0 => balance'[w].value = 0)
    BY <1>2, <1>4, <2>1 DEF Sound
  <2>3. balance'[w].onHand # 0 => UnitCost(balance'[w].value, balance'[w].onHand) \in Nat
    BY <2>2, MoneyType
  <2>4. balance'[w] =
          [onHand |-> balance'[w].onHand, value |-> balance'[w].value, valued |-> TRUE,
           average |-> IF balance'[w].onHand = 0 THEN 0 ELSE UnitCost(balance'[w].value, balance'[w].onHand)]
    BY <1>4, <2>1 DEF Changed
  <2>5. (IF balance'[w].onHand = 0 THEN 0 ELSE UnitCost(balance'[w].value, balance'[w].onHand)) \in Nat
    BY <2>3
  <2>6. \A h, v, a \in Nat : [onHand |-> h, value |-> v, valued |-> TRUE, average |-> a] \in BalanceType
    BY DEF BalanceType
  <2>7. balance'[w] \in BalanceType
    BY <2>2, <2>4, <2>5, <2>6
  <2> QED BY <2>1, <2>2, <2>4, <2>7
<1>5. CASE w = m.from
  <2>1. balance'[w] = Changed(w, 0 - m.quantity, 0 - m.cost)
    BY <1>1, <1>3, <1>5 DEF After
  <2>2. Sound(After(m)[w])
    BY <1>5 DEF Move
  <2> QED BY <1>1, <1>2, <1>3, <1>4, <1>5, <2>1, <2>2
<1>6. CASE w = m.to
  <2>1. balance'[w] = Changed(w, m.quantity, m.cost)
    BY <1>1, <1>3, <1>6 DEF After
  <2>2. Sound(After(m)[w])
    BY <1>6 DEF Move
  <2> QED BY <1>1, <1>2, <1>3, <1>4, <1>6, <2>1, <2>2
<1>7. CASE w \notin {m.from, m.to}
  BY <1>1, <1>7 DEF After
<1> QED BY <1>5, <1>6, <1>7

\* The value in stock changes by what is booked.
LEMMA ValueAfter ==
  ASSUME TypeOK, NEW m, Legit(m), Move(m)
  PROVE  StockValue' = StockValue + m.booked /\ StockValue \in Nat
<1> DEFINE f == [w \in Warehouses |-> balance[w].value]
           g == [w \in Warehouses |-> balance'[w].value]
<1>1. IsFiniteSet(Warehouses)
  BY InventoryAssumption
<1>2. \A w \in Warehouses : f[w] \in Nat
  BY DEF TypeOK, BalanceType
<1>3. \A w \in Warehouses : g[w] \in Nat
  BY BalanceAfter DEF BalanceType
<1>4. /\ \A w \in Warehouses : w \notin {m.from, m.to} => g[w] = f[w]
      /\ m.from \in Warehouses => g[m.from] = f[m.from] - m.cost
      /\ m.to \in Warehouses => g[m.to] = f[m.to] + m.cost
  BY BalanceAfter
<1>5. StockValue = Total(Warehouses, f) /\ StockValue' = Total(Warehouses, g)
  BY DEF StockValue
<1>6. m.cost \in Nat
  BY DEF Legit, Recordable, MovementType
<1>7. Total(Warehouses, f) \in Nat
  BY <1>1, <1>2, TotalType
<1> HIDE DEF f, g
<1>8. CASE m.from = Nowhere /\ m.to \in Warehouses /\ m.booked = m.cost
  <2>1. \A w \in Warehouses \ {m.to} : f[w] = g[w]
    BY <1>4, <1>8, InventoryAssumption
  <2>2. Total(Warehouses, g) = Total(Warehouses, f) - f[m.to] + g[m.to]
    BY <1>1, <1>2, <1>3, <1>8, <2>1, TotalChange
  <2> QED BY <1>2, <1>4, <1>5, <1>6, <1>7, <1>8, <2>2
<1>9. CASE m.from \in Warehouses /\ m.to = Nowhere /\ m.booked = 0 - m.cost
  <2>1. \A w \in Warehouses \ {m.from} : f[w] = g[w]
    BY <1>4, <1>9, InventoryAssumption
  <2>2. Total(Warehouses, g) = Total(Warehouses, f) - f[m.from] + g[m.from]
    BY <1>1, <1>2, <1>3, <1>9, <2>1, TotalChange
  <2> QED BY <1>2, <1>4, <1>5, <1>6, <1>7, <1>9, <2>2
<1>10. CASE m.from \in Warehouses /\ m.to \in Warehouses /\ m.from # m.to /\ m.booked = 0
  <2> DEFINE h == [w \in Warehouses |-> IF w = m.from THEN g[w] ELSE f[w]]
  <2>1. /\ \A w \in Warehouses : h[w] \in Nat
        /\ \A w \in Warehouses \ {m.from} : f[w] = h[w]
        /\ \A w \in Warehouses \ {m.to} : h[w] = g[w]
        /\ h[m.from] = g[m.from] /\ h[m.to] = f[m.to]
    BY <1>2, <1>3, <1>4, <1>10
  <2> HIDE DEF h
  <2>2. Total(Warehouses, h) = Total(Warehouses, f) - f[m.from] + h[m.from]
    BY <1>1, <1>2, <1>10, <2>1, TotalChange
  <2>3. Total(Warehouses, g) = Total(Warehouses, h) - h[m.to] + g[m.to]
    <3>1. \A w \in Warehouses : h[w] \in Nat /\ g[w] \in Nat
      BY <1>3, <2>1
    <3>2. \A w \in Warehouses \ {m.to} : h[w] = g[w]
      BY <2>1
    <3>3. m.to \in Warehouses
      BY <1>10
    <3> QED BY ONLY <1>1, <3>1, <3>2, <3>3, TotalChange
  <2> QED BY <1>2, <1>4, <1>5, <1>6, <1>7, <1>10, <2>1, <2>2, <2>3
<1> QED BY <1>5, <1>7, <1>8, <1>9, <1>10 DEF Legit, BookedAtCost

\* What a movement leaves of the others, and how it stands itself.
LEMMA RecordAfter ==
  ASSUME TypeOK, NEW m, Legit(m), Move(m)
  PROVE  /\ Len(movements) \in Nat /\ Len(movements') = Len(movements) + 1
         /\ DOMAIN movements = 1 .. Len(movements) /\ DOMAIN movements' = 1 .. Len(movements) + 1
         /\ movements'[Len(movements) + 1] = m
         /\ \A j : j = Len(movements) + 1 => ((Standing(j))' <=> m.reverses = 0)
         /\ \A j \in 1 .. Len(movements) :
              /\ movements'[j].kind = movements[j].kind /\ movements'[j].of = movements[j].of
              /\ movements'[j].quantity = movements[j].quantity /\ movements'[j].cost = movements[j].cost
              /\ movements'[j].from = movements[j].from /\ movements'[j].to = movements[j].to
              /\ movements'[j].booked = movements[j].booked
              /\ movements'[j].status = IF j = m.reverses THEN "REVERSED" ELSE movements[j].status
              /\ (Standing(j))' <=> (Standing(j) /\ j # m.reverses)
<1>1. movements' = Recorded(m) /\ Recordable(m)
  BY DEF Move, Legit
<1>2. /\ Len(movements) \in Nat /\ Len(movements') = Len(movements) + 1
      /\ DOMAIN movements = 1 .. Len(movements) /\ DOMAIN movements' = 1 .. Len(movements) + 1
      /\ movements'[Len(movements) + 1] = m
      /\ \A i \in 1 .. Len(movements) : movements'[i] = Restated(i, m)
  BY <1>1, RecordedIs, Indices
<1>3. ASSUME NEW j, j = Len(movements) + 1 PROVE (Standing(j))' <=> m.reverses = 0
  <2>1. movements'[j] = m /\ m.status = "POSTED"
    BY <1>1, <1>2, <1>3 DEF Recordable
  <2> QED BY <2>1 DEF Standing
<1>4. ASSUME NEW j \in 1 .. Len(movements)
      PROVE  /\ movements'[j].kind = movements[j].kind /\ movements'[j].of = movements[j].of
             /\ movements'[j].quantity = movements[j].quantity /\ movements'[j].cost = movements[j].cost
             /\ movements'[j].from = movements[j].from /\ movements'[j].to = movements[j].to
             /\ movements'[j].booked = movements[j].booked
             /\ movements'[j].status = (IF j = m.reverses THEN "REVERSED" ELSE movements[j].status)
             /\ movements'[j].reverses = movements[j].reverses
  <2>1. movements[j] \in MovementType
    BY <1>2, Indices
  <2>2. \A r \in MovementType :
          LET x == [r EXCEPT !.status = "REVERSED"]
          IN  /\ x.from = r.from /\ x.to = r.to /\ x.cost = r.cost /\ x.quantity = r.quantity
              /\ x.of = r.of /\ x.kind = r.kind /\ x.reverses = r.reverses
              /\ x.booked = r.booked /\ x.status = "REVERSED"
    BY DEF MovementType
  <2>3. movements'[j] = Restated(j, m)
    BY <1>2
  <2>4. CASE j = m.reverses
    BY <2>1, <2>2, <2>3, <2>4 DEF Restated
  <2>5. CASE j # m.reverses
    BY <2>3, <2>5 DEF Restated
  <2> QED BY <2>4, <2>5
<1>5. ASSUME NEW j \in 1 .. Len(movements)
      PROVE  (Standing(j))' <=> (Standing(j) /\ j # m.reverses)
  BY <1>4 DEF Standing
<1> QED BY <1>2, <1>3, <1>4, <1>5

\* A movement keeps the types of the rows it touches, and books at cost.
LEMMA MoveTyped ==
  ASSUME TypeOK, AllBookedAtCost, LedgerAgreesWithStock, NotesFollow, NEW m, Legit(m), Move(m)
  PROVE  /\ balance' \in [Warehouses -> BalanceType]
         /\ \A w \in Warehouses : balance'[w].onHand = 0 => balance'[w].value = 0
         /\ movements' \in Seq(MovementType)
         /\ ledger' \in Int /\ initialized' \in Nat
         /\ AllBookedAtCost' /\ LedgerAgreesWithStock' /\ NotesFollow'
<1>1. balance' \in [Warehouses -> BalanceType]
  <2>1. balance' = After(m)
    BY DEF Move
  <2>2. balance' = [w \in Warehouses |-> balance'[w]]
    BY <2>1 DEF After
  <2> QED BY <2>2, BalanceAfter
<1>2. m.booked \in Int /\ m \in MovementType
  BY DEF Legit, Recordable, MovementType
<1>3. ledger' = ledger + m.booked /\ initialized' = initialized /\ movements' = Recorded(m)
  BY DEF Move
<1>4. ledger \in Int /\ initialized \in Nat
  BY DEF TypeOK
<1>5. LedgerAgreesWithStock'
  BY <1>2, <1>3, <1>4, ValueAfter DEF LedgerAgreesWithStock
<1>6. /\ movements' \in Seq(MovementType) /\ DOMAIN movements' = 1 .. Len(movements) + 1
      /\ movements'[Len(movements) + 1] = m
      /\ \A i \in 1 .. Len(movements) : movements'[i] = Restated(i, m)
  BY <1>3, RecordedIs DEF Legit
<1>7. \A i \in 1 .. Len(movements) :
        /\ movements'[i].from = movements[i].from /\ movements'[i].to = movements[i].to
        /\ movements'[i].cost = movements[i].cost /\ movements'[i].booked = movements[i].booked
        /\ movements'[i].of = movements[i].of
  BY RecordAfter
<1>8. DOMAIN movements = 1 .. Len(movements) /\ Len(movements) \in Nat
  BY Indices
<1>9. AllBookedAtCost'
  <2>1. ASSUME NEW i \in 1 .. Len(movements) + 1 PROVE BookedAtCost(movements'[i])
    <3>1. CASE i = Len(movements) + 1
      BY <1>6, <3>1 DEF Legit
    <3>2. CASE i \in 1 .. Len(movements)
      BY <1>7, <1>8, <3>2 DEF AllBookedAtCost, BookedAtCost
    <3> QED BY <1>8, <3>1, <3>2
  <2> QED BY <1>6, <2>1 DEF AllBookedAtCost
<1>10. NotesFollow'
  <2>1. m.of < Len(movements) + 1
    BY <1>2, <1>8 DEF Legit, MovementType
  <2>2. ASSUME NEW i \in 1 .. Len(movements) + 1 PROVE movements'[i].of < i
    <3>1. CASE i = Len(movements) + 1
      BY <1>6, <2>1, <3>1
    <3>2. CASE i \in 1 .. Len(movements)
      BY <1>7, <1>8, <3>2 DEF NotesFollow
    <3> QED BY <1>8, <3>1, <3>2
  <2> QED BY <1>6, <2>2 DEF NotesFollow
<1> QED BY <1>1, <1>2, <1>3, <1>4, <1>5, <1>6, <1>9, <1>10, BalanceAfter

-----------------------------------------------------------------------------
(* Notes and their invoice.                                                *)

\* Totals of notes that were there before do not change.
LEMMA TotalsOfOld ==
  ASSUME TypeOK, NEW m, Legit(m), Move(m), NEW S, S \subseteq 1 .. Len(movements)
  PROVE  /\ Total(S, [j \in DOMAIN movements' |-> movements'[j].quantity])
               = Total(S, [j \in DOMAIN movements |-> movements[j].quantity])
         /\ Total(S, [j \in DOMAIN movements' |-> movements'[j].cost])
               = Total(S, [j \in DOMAIN movements |-> movements[j].cost])
<1> DEFINE q == [j \in DOMAIN movements |-> movements[j].quantity]
           c == [j \in DOMAIN movements |-> movements[j].cost]
           Q == [j \in DOMAIN movements' |-> movements'[j].quantity]
           C == [j \in DOMAIN movements' |-> movements'[j].cost]
<1>1. \A j \in S : Q[j] = q[j] /\ C[j] = c[j]
  BY RecordAfter
<1> HIDE DEF q, c, Q, C
<1>2. Total(S, Q) = Total(S, q) /\ Total(S, C) = Total(S, c)
  BY <1>1, TotalSame
<1> QED BY <1>2 DEF q, c, Q, C

\* The notes of a movement after another movement.
LEMMA NotesAfter ==
  ASSUME TypeOK, NotesFollow, NEW m, Legit(m), Move(m), NEW i \in 1 .. Len(movements)
  PROVE  LET mine == m.reverses = 0 /\ m.kind = "CREDIT" /\ m.of = i
             old == Notes("CREDIT", i) \ {m.reverses}
         IN  /\ mine => /\ Noted("CREDIT", i)' = Noted("CREDIT", i) + m.quantity
                        /\ NotedCost("CREDIT", i)' = NotedCost("CREDIT", i) + m.cost
             /\ ~ mine /\ m.reverses \notin Notes("CREDIT", i) =>
                  /\ Noted("CREDIT", i)' = Noted("CREDIT", i)
                  /\ NotedCost("CREDIT", i)' = NotedCost("CREDIT", i)
             /\ m.reverses \in Notes("CREDIT", i) => Noted("CREDIT", i)' < Noted("CREDIT", i)
<1> DEFINE n == Len(movements) + 1
           N == Notes("CREDIT", i)
           mine == m.reverses = 0 /\ m.kind = "CREDIT" /\ m.of = i
           q == [j \in DOMAIN movements |-> movements[j].quantity]
           c == [j \in DOMAIN movements |-> movements[j].cost]
           Q == [j \in DOMAIN movements' |-> movements'[j].quantity]
           C == [j \in DOMAIN movements' |-> movements'[j].cost]
<1>1. Notes("CREDIT", i)' = IF mine THEN N \union {n} ELSE N \ {m.reverses}
  <2>1. N \subseteq 1 .. Len(movements) /\ n \notin 1 .. Len(movements) /\ 0 \notin 1 .. Len(movements)
    BY RecordAfter DEF Notes
  <2>2. Notes("CREDIT", i)' =
          {j \in 1 .. n : movements'[j].kind = "CREDIT" /\ movements'[j].of = i /\ (Standing(j))'}
    BY RecordAfter DEF Notes
  <2>3. \A j \in 1 .. Len(movements) : j \in Notes("CREDIT", i)' <=> j \in N /\ j # m.reverses
    BY <2>2, RecordAfter DEF Notes
  <2>4. n \in Notes("CREDIT", i)' <=> mine
    <3>1. n \in 1 .. n /\ movements'[n] = m
      BY RecordAfter
    <3>2. \A j : j = n => ((Standing(j))' <=> m.reverses = 0)
      BY RecordAfter
    <3> HIDE DEF n
    <3> QED BY <2>2, <3>1, <3>2
  <2>5. Notes("CREDIT", i)' \subseteq (1 .. Len(movements)) \union {n}
    BY <2>2, RecordAfter
  <2> HIDE DEF N, n
  <2>6. mine => m.reverses \notin N
    BY <2>1
  <2> QED BY <2>1, <2>3, <2>4, <2>5, <2>6
<1>2. /\ Noted("CREDIT", i) = Total(N, q) /\ NotedCost("CREDIT", i) = Total(N, c)
      /\ Noted("CREDIT", i)' = Total(Notes("CREDIT", i)', Q)
      /\ NotedCost("CREDIT", i)' = Total(Notes("CREDIT", i)', C)
  BY DEF Noted, NotedCost
<1>3. /\ IsFiniteSet(N) /\ N \subseteq 1 .. Len(movements)
      /\ \A j \in N : q[j] \in Nat \ {0} /\ c[j] \in Nat
  BY NotesType, Indices DEF MovementType
<1>4. /\ Total(N, Q) = Total(N, q) /\ Total(N, C) = Total(N, c)
      /\ Total(N \ {m.reverses}, Q) = Total(N \ {m.reverses}, q)
  BY <1>3, TotalsOfOld
<1>5. /\ n \notin N /\ Q[n] = m.quantity /\ C[n] = m.cost
      /\ \A j \in N : Q[j] = q[j] /\ C[j] = c[j]
  BY <1>3, RecordAfter
<1>6. m.quantity \in Nat \ {0} /\ m.cost \in Nat
  BY DEF Legit, Recordable, MovementType
<1>7. Total(N, q) \in Nat /\ Total(N, c) \in Nat
  BY <1>3, TotalType
<1> HIDE DEF N, n, q, c, Q, C
<1>8. CASE mine
  <2>1. IsFiniteSet(N \union {n}) /\ (N \union {n}) \ {n} = N /\ n \in N \union {n}
    BY <1>3, <1>5, FS_AddElement
  <2>2. \A j \in N \union {n} : Q[j] \in Nat /\ C[j] \in Nat
    BY <1>3, <1>5, <1>6
  <2>3. Total(N \union {n}, Q) = Total((N \union {n}) \ {n}, Q) + Q[n]
    BY <2>1, <2>2, TotalSplit
  <2>4. Total(N \union {n}, C) = Total((N \union {n}) \ {n}, C) + C[n]
    BY <2>1, <2>2, TotalSplit
  <2>5. /\ Noted("CREDIT", i)' = Noted("CREDIT", i) + m.quantity
        /\ NotedCost("CREDIT", i)' = NotedCost("CREDIT", i) + m.cost
    BY <1>1, <1>2, <1>4, <1>5, <1>8, <2>1, <2>3, <2>4
  <2>6. m.reverses \notin N
    BY <1>3, <1>8
  <2> QED BY <1>8, <2>5, <2>6 DEF N
<1>9. CASE ~ mine /\ m.reverses \notin N
  <2>1. Notes("CREDIT", i)' = N
    BY <1>1, <1>9
  <2> QED BY <1>2, <1>4, <1>9, <2>1 DEF N
<1>10. CASE m.reverses \in N
  <2>1. ~ mine
    BY <1>3, <1>10
  <2>2. Total(N, q) = Total(N \ {m.reverses}, q) + q[m.reverses]
    BY <1>3, <1>10, TotalSplit
  <2>3. IsFiniteSet(N \ {m.reverses}) /\ \A j \in N \ {m.reverses} : q[j] \in Nat
    BY <1>3, FS_RemoveElement
  <2>4. Total(N \ {m.reverses}, q) \in Nat
    BY <2>3, TotalType
  <2>5. Noted("CREDIT", i)' < Noted("CREDIT", i)
    <3>1. Noted("CREDIT", i)' = Total(N \ {m.reverses}, q)
      BY <1>1, <1>2, <1>4, <2>1
    <3>2. q[m.reverses] \in Nat \ {0}
      BY <1>3, <1>10
    <3> QED BY <1>2, <2>2, <2>4, <3>1, <3>2
  <2> QED BY <1>10, <2>1, <2>5 DEF N
<1> QED BY <1>8, <1>9, <1>10

\* A movement is new, and no note is of it yet.
LEMMA NoNotesYet ==
  ASSUME TypeOK, NotesFollow, NEW m, Legit(m), Move(m), NEW i, i = Len(movements) + 1
  PROVE  Noted("CREDIT", i)' = 0
<1>1. \A j \in DOMAIN movements' : movements'[j].of # i
  <2>1. \A j \in 1 .. Len(movements) : movements'[j].of < j /\ movements'[j].of \in Nat
    BY RecordAfter, Indices DEF NotesFollow, MovementType
  <2>2. m.of \in Nat /\ m.of <= Len(movements) /\ Len(movements) \in Nat
    BY Indices DEF Legit, Recordable, MovementType
  <2>3. movements'[i] = m /\ DOMAIN movements' = 1 .. Len(movements) + 1
    BY RecordAfter
  <2> QED BY <2>1, <2>2, <2>3
<1>2. Notes("CREDIT", i)' = {}
  BY <1>1 DEF Notes
<1> QED BY <1>2, TotalZero DEF Noted

\* What is noted after a movement is a number.
LEMMA NotedAfterType ==
  ASSUME TypeOK, NEW m, Legit(m), Move(m), NEW i \in 1 .. Len(movements)
  PROVE  Noted("CREDIT", i)' \in Nat
<1>1. IsFiniteSet(Notes("CREDIT", i)')
  <2>1. Notes("CREDIT", i)' \subseteq 1 .. Len(movements) + 1 /\ Len(movements) + 1 \in Nat
    BY RecordAfter DEF Notes
  <2>2. IsFiniteSet(1 .. Len(movements) + 1)
    BY <2>1, FS_Interval
  <2> QED BY <2>1, <2>2, FS_Subset
<1>2. \A j \in DOMAIN movements' : movements'[j].quantity \in Nat
  <2>1. m.quantity \in Nat
    BY DEF Legit, Recordable, MovementType
  <2>2. \A j \in 1 .. Len(movements) : movements'[j].quantity \in Nat
    BY RecordAfter, Indices DEF MovementType
  <2> QED BY <2>1, <2>2, RecordAfter
<1>3. \A j \in Notes("CREDIT", i)' : [k \in DOMAIN movements' |-> movements'[k].quantity][j] \in Nat
  BY <1>2 DEF Notes
<1> QED BY <1>1, <1>3, TotalType DEF Noted

\* Credit notes return no more than was sold, and the last gives back what is left.
LEMMA CreditsAfter ==
  ASSUME TypeOK, NotesFollow, NotesFit, CreditsGiveBackTheCost, NEW m, Legit(m), Move(m)
  PROVE  NotesFit' /\ CreditsGiveBackTheCost'
<1> SUFFICES ASSUME NEW i \in DOMAIN movements', movements'[i].kind = "SALE"
             PROVE  /\ Noted("CREDIT", i)' <= movements'[i].quantity
                    /\ (Standing(i))' /\ Noted("CREDIT", i)' = movements'[i].quantity =>
                         NotedCost("CREDIT", i)' = movements'[i].cost
  BY DEF NotesFit, CreditsGiveBackTheCost
<1>1. CASE i = Len(movements) + 1
  <2>1. movements'[i] = m /\ m.quantity \in Nat \ {0}
    BY <1>1, RecordAfter DEF Legit, Recordable, MovementType
  <2> QED BY <1>1, <2>1, NoNotesYet
<1>2. CASE i \in 1 .. Len(movements)
  <2> DEFINE x == Noted("CREDIT", i)
             c == NotedCost("CREDIT", i)
             x1 == Noted("CREDIT", i)'
             c1 == NotedCost("CREDIT", i)'
  <2>1. /\ movements'[i].quantity = movements[i].quantity /\ movements'[i].cost = movements[i].cost
        /\ movements[i].kind = "SALE" /\ ((Standing(i))' => Standing(i))
    BY <1>2, RecordAfter
  <2>2. /\ x <= movements[i].quantity
        /\ Standing(i) /\ x = movements[i].quantity => c = movements[i].cost
    BY <1>2, <2>1, Indices DEF NotesFit, CreditsGiveBackTheCost
  <2>3. /\ x \in Nat /\ c \in Nat
        /\ movements[i].quantity \in Nat \ {0} /\ movements[i].cost \in Nat
    BY <1>2, NotesType, Indices DEF MovementType
  <2>4. m.quantity \in Nat \ {0} /\ m.cost \in Nat
    BY DEF Legit, Recordable, MovementType
  <2>5. CASE m.reverses = 0 /\ m.kind = "CREDIT" /\ m.of = i
    <3>1. x1 = x + m.quantity /\ c1 = c + m.cost
      BY <1>2, <2>5, NotesAfter
    <3>2. x + m.quantity <= movements[i].quantity /\ m.cost = CreditCost(i, m.quantity)
      BY <2>5 DEF Legit
    <3>3. x + m.quantity = movements[i].quantity => m.cost = movements[i].cost - c
      BY <3>2 DEF CreditCost
    <3> HIDE DEF x, c, x1, c1
    <3>4. x1 <= movements[i].quantity /\ (x1 = movements[i].quantity => c1 = movements[i].cost)
      BY <2>3, <2>4, <3>1, <3>2, <3>3
    <3> QED BY <2>1, <3>4 DEF x1, c1
  <2>6. CASE ~ (m.reverses = 0 /\ m.kind = "CREDIT" /\ m.of = i) /\ m.reverses \notin Notes("CREDIT", i)
    <3>1. x1 = x /\ c1 = c
      BY <1>2, <2>6, NotesAfter
    <3> QED BY <2>1, <2>2, <3>1
  <2>7. CASE m.reverses \in Notes("CREDIT", i)
    <3>1. x1 < x
      BY <1>2, <2>7, NotesAfter
    <3>2. x1 \in Int
      <4>1. Noted("CREDIT", i)' \in Nat
        BY <1>2, NotedAfterType
      <4> QED BY <4>1
    <3> HIDE DEF x, x1
    <3>3. x1 <= movements[i].quantity /\ x1 # movements[i].quantity
      BY <2>2, <2>3, <3>1, <3>2
    <3> QED BY <2>1, <3>3 DEF x1
  <2> QED BY <2>5, <2>6, <2>7
<1> QED BY <1>1, <1>2, RecordAfter

\* Once a warehouse has moved since a snapshot, it has moved for good; and
\* until then its stock is what it was.
LEMMA CountsAfter ==
  ASSUME TypeOK, Counts, NEW m, Legit(m), Move(m), NEW s \in Sessions,
         session[s].warehouse \in Warehouses,
         (session'[s].snapshot = session[s].snapshot /\ session'[s].warehouse = session[s].warehouse)
  PROVE  /\ session'[s].snapshot <= Len(movements')
         /\ ~ (MovedSince(s))' =>
              /\ ~ MovedSince(s)
              /\ balance'[session[s].warehouse] = balance[session[s].warehouse]
<1> DEFINE w == session[s].warehouse
           k == session[s].snapshot
           n == Len(movements) + 1
<1>1. k \in Nat /\ k <= Len(movements)
  BY DEF TypeOK, SessionType, Counts
<1>2. /\ Len(movements) \in Nat /\ Len(movements') = n /\ movements'[n] = m
      /\ DOMAIN movements = 1 .. Len(movements)
  BY RecordAfter
<1>3. m.status = "POSTED"
  BY DEF Legit, Recordable
<1>4. w \in {m.from, m.to} => (MovedSince(s))'
  <2>1. n \in k + 1 .. n
    BY <1>1, <1>2
  <2> QED BY <1>2, <1>3, <2>1 DEF MovedSince
<1>5. MovedSince(s) => (MovedSince(s))'
  <2> SUFFICES ASSUME NEW i \in k + 1 .. Len(movements), movements[i].status = "POSTED",
                      w \in {movements[i].from, movements[i].to}
               PROVE  (MovedSince(s))'
    BY DEF MovedSince
  <2>1. i \in 1 .. Len(movements) /\ i \in k + 1 .. n
    BY <1>1, <1>2
  <2>2. CASE i = m.reverses
    <3>1. m.from = movements[i].to /\ m.to = movements[i].from
      BY <1>1, <1>2, <2>1, <2>2 DEF Legit
    <3> QED BY <1>4, <3>1
  <2>3. CASE i # m.reverses
    <3>1. movements'[i].status = "POSTED" /\ w \in {movements'[i].from, movements'[i].to}
      BY <2>1, <2>3, RecordAfter
    <3> QED BY <1>2, <2>1, <3>1 DEF MovedSince
  <2> QED BY <2>2, <2>3
<1>6. w \notin {m.from, m.to} => balance'[w] = balance[w]
  BY BalanceAfter
<1> QED BY <1>1, <1>2, <1>4, <1>5, <1>6

-----------------------------------------------------------------------------
(* Every step.                                                             *)

\* Where no movement is added the notes are as they were.
LEMMA NotesSame ==
  ASSUME NotesFit, CreditsGiveBackTheCost, UNCHANGED movements
  PROVE  NotesFit' /\ CreditsGiveBackTheCost'
<1>1. \A i : (Standing(i))' <=> Standing(i)
  BY DEF Standing
<1>2. \A i : Notes("CREDIT", i)' = Notes("CREDIT", i)
  BY <1>1 DEF Notes
<1>3. \A i : /\ Noted("CREDIT", i)' = Noted("CREDIT", i)
             /\ NotedCost("CREDIT", i)' = NotedCost("CREDIT", i)
  BY <1>2 DEF Noted, NotedCost
<1> QED BY <1>1, <1>3 DEF NotesFit, CreditsGiveBackTheCost

\* A movement keeps all but what is said of the sessions.
LEMMA MoveKeeps ==
  ASSUME IInv, NEW m, Legit(m), Move(m), session' \in [Sessions -> SessionType]
  PROVE  /\ TypeOK' /\ AllBookedAtCost' /\ Unvalued' /\ LedgerAgreesWithStock'
         /\ NotesFollow' /\ NotesFit' /\ CreditsGiveBackTheCost'
<1>1. Unvalued'
  BY BalanceAfter DEF IInv, Unvalued
<1> QED BY <1>1, MoveTyped, CreditsAfter DEF IInv, TypeOK

\* A command that moves stock.
LEMMA MovingKeeps ==
  ASSUME IInv, NEW m, Legit(m), Move(m), UNCHANGED session
  PROVE  IInv'
<1>1. session' \in [Sessions -> SessionType]
  BY DEF IInv, TypeOK
<1>2. Counts'
  <2> SUFFICES ASSUME NEW s \in Sessions
               PROVE  /\ session[s].state # "NONE" => session[s].warehouse \in Warehouses
                      /\ session[s].snapshot <= Len(movements')
                      /\ (/\ session[s].state \in {"DRAFT", "SUBMITTED", "APPROVED"}
                          /\ session[s].listed /\ ~ (MovedSince(s))') =>
                           session[s].book = balance'[session[s].warehouse].onHand
    BY DEF Counts
  <2>1. session[s].state # "NONE" => session[s].warehouse \in Warehouses
    BY DEF IInv, Counts
  <2>2. session[s].snapshot <= Len(movements')
    <3>1. session[s].snapshot <= Len(movements) /\ session[s].snapshot \in Nat
      BY DEF IInv, Counts, TypeOK, SessionType
    <3> QED BY <3>1, RecordAfter DEF IInv
  <2>3. CASE session[s].state # "NONE"
    <3>1. ~ (MovedSince(s))' => ~ MovedSince(s) /\ balance'[session[s].warehouse] = balance[session[s].warehouse]
      BY <2>1, <2>3, CountsAfter DEF IInv
    <3> QED BY <2>1, <2>2, <3>1 DEF IInv, Counts
  <2> QED BY <2>1, <2>2, <2>3
<1> QED BY <1>1, <1>2, MoveKeeps DEF IInv

\* The first valuation of older stock.
LEMMA InitializeKeeps ==
  ASSUME IInv, NEW w \in Warehouses, NEW unitCost \in UnitCosts \union {0},
         Initialize(w, unitCost), UNCHANGED session
  PROVE  IInv'
<1> DEFINE value == Money(balance[w].onHand * unitCost)
           f == [v \in Warehouses |-> balance[v].value]
           g == [v \in Warehouses |-> balance'[v].value]
<1>1. /\ \A v \in Warehouses : balance[v] \in BalanceType
      /\ IsFiniteSet(Warehouses) /\ unitCost \in Nat
  BY InventoryAssumption DEF IInv, TypeOK
<1>2. balance[w].onHand \in Nat /\ value \in Nat
  <2>1. balance[w].onHand \in Nat
    BY <1>1 DEF BalanceType
  <2>2. balance[w].onHand * unitCost \in Nat
    BY <1>1, <2>1
  <2> QED BY <2>1, <2>2, MoneyType
<1>3. balance[w].onHand = 0 => value = 0
  <2>1. Money(0) = 0
    BY InventoryAssumption DEF Money, HalfUp
  <2> QED BY <1>1, <2>1
<1>4. /\ balance' = [balance EXCEPT ![w] = [balance[w] EXCEPT !.value = value, !.average = unitCost, !.valued = TRUE]]
      /\ initialized' = initialized + value /\ UNCHANGED <<movements, ledger, session>>
      /\ ~ balance[w].valued
  BY DEF Initialize, IInv, TypeOK
<1> HIDE DEF value
<1>5. balance' \in [Warehouses -> BalanceType]
  <2>1. \A r \in BalanceType : [r EXCEPT !.value = value, !.average = unitCost, !.valued = TRUE] \in BalanceType
    BY <1>1, <1>2 DEF BalanceType
  <2> QED BY <1>1, <1>4, <2>1 DEF IInv, TypeOK
<1>6. /\ \A v \in Warehouses \ {w} : balance'[v] = balance[v]
      /\ balance'[w].onHand = balance[w].onHand /\ balance'[w].value = value /\ balance'[w].valued
  <2>1. balance'[w] = [balance[w] EXCEPT !.value = value, !.average = unitCost, !.valued = TRUE]
    BY <1>4 DEF IInv, TypeOK
  <2>2. \A r \in BalanceType :
          LET x == [r EXCEPT !.value = value, !.average = unitCost, !.valued = TRUE]
          IN  x.onHand = r.onHand /\ x.value = value /\ x.valued = TRUE
    BY DEF BalanceType
  <2> QED BY <1>1, <1>4, <2>1, <2>2 DEF IInv, TypeOK
<1>7. balance[w].value = 0
  BY <1>4 DEF IInv, Unvalued
<1>8. StockValue' = StockValue + value /\ StockValue \in Nat
  <2>1. \A v \in Warehouses : f[v] \in Nat /\ g[v] \in Nat
    BY <1>1, <1>5 DEF BalanceType
  <2>2. \A v \in Warehouses \ {w} : f[v] = g[v]
    BY <1>6
  <2>3. f[w] = 0 /\ g[w] = value
    BY <1>6, <1>7
  <2>4. StockValue = Total(Warehouses, f) /\ StockValue' = Total(Warehouses, g)
    BY DEF StockValue
  <2> HIDE DEF f, g
  <2>5. Total(Warehouses, g) = Total(Warehouses, f) - f[w] + g[w]
    BY <1>1, <2>1, <2>2, TotalChange
  <2>6. Total(Warehouses, f) \in Nat
    BY <1>1, <2>1, TotalType
  <2> QED BY <1>2, <2>3, <2>4, <2>5, <2>6
<1>9. TypeOK'
  <2>1. \A v \in Warehouses : balance'[v].onHand = 0 => balance'[v].value = 0
    BY <1>3, <1>6 DEF IInv, TypeOK
  <2>2. initialized' \in Nat
    BY <1>2, <1>4 DEF IInv, TypeOK
  <2> QED BY <1>4, <1>5, <2>1, <2>2 DEF IInv, TypeOK
<1>10. LedgerAgreesWithStock'
  BY <1>2, <1>4, <1>8 DEF IInv, TypeOK, LedgerAgreesWithStock
<1>11. Unvalued'
  BY <1>6 DEF IInv, Unvalued
<1>12. NotesFollow' /\ AllBookedAtCost'
  BY <1>4 DEF IInv, NotesFollow, AllBookedAtCost
<1>13. NotesFit' /\ CreditsGiveBackTheCost'
  BY <1>4, NotesSame DEF IInv
<1>14. Counts'
  <2>1. \A v \in Warehouses : balance'[v].onHand = balance[v].onHand
    BY <1>6
  <2>2. \A s : (MovedSince(s))' <=> MovedSince(s)
    BY <1>4 DEF MovedSince
  <2> QED BY <1>4, <2>1, <2>2 DEF IInv, Counts
<1> QED BY <1>9, <1>10, <1>11, <1>12, <1>13, <1>14 DEF IInv

\* A command that writes one session and moves nothing.
LEMMA SessionKeeps ==
  ASSUME IInv, NEW s \in Sessions, NEW r \in SessionType,
         session' = [session EXCEPT ![s] = r],
         UNCHANGED <<balance, movements, ledger, initialized>>,
         r.state # "NONE" => r.warehouse \in Warehouses,
         r.snapshot <= Len(movements),
         \/ r.state = "SETTLED"
         \/ r.book = balance[r.warehouse].onHand
         \/ ~ r.listed
         \/ /\ r.snapshot = session[s].snapshot /\ r.warehouse = session[s].warehouse
            /\ r.book = session[s].book /\ session[s].listed
            /\ session[s].state \in {"DRAFT", "SUBMITTED", "APPROVED"}
  PROVE  IInv'
<1>1. session' \in [Sessions -> SessionType] /\ session'[s] = r
      /\ \A x \in Sessions \ {s} : session'[x] = session[x]
  BY DEF IInv, TypeOK
<1>2. TypeOK' /\ AllBookedAtCost' /\ Unvalued' /\ LedgerAgreesWithStock' /\ NotesFollow'
  BY <1>1 DEF IInv, TypeOK, AllBookedAtCost, Unvalued, LedgerAgreesWithStock, StockValue, NotesFollow
<1>3. NotesFit' /\ CreditsGiveBackTheCost'
  BY NotesSame DEF IInv
<1>4. Counts'
  <2> SUFFICES ASSUME NEW x \in Sessions
               PROVE  /\ session'[x].state # "NONE" => session'[x].warehouse \in Warehouses
                      /\ session'[x].snapshot <= Len(movements)
                      /\ (/\ session'[x].state \in {"DRAFT", "SUBMITTED", "APPROVED"}
                          /\ session'[x].listed /\ ~ (MovedSince(x))') =>
                           session'[x].book = balance[session'[x].warehouse].onHand
    BY DEF Counts
  <2>1. CASE x # s
    <3>1. (MovedSince(x))' <=> MovedSince(x)
      BY <1>1, <2>1 DEF MovedSince
    <3> QED BY <1>1, <2>1, <3>1 DEF IInv, Counts
  <2>2. CASE x = s
    <3>1. ASSUME r.snapshot = session[s].snapshot, r.warehouse = session[s].warehouse
          PROVE  (MovedSince(s))' <=> MovedSince(s)
      BY <1>1, <3>1 DEF MovedSince
    <3> QED BY <1>1, <2>2, <3>1 DEF IInv, Counts
  <2> QED BY <2>1, <2>2
<1> QED BY <1>2, <1>3, <1>4 DEF IInv

\* No session is settled by the step.
NoneSettled == \A x \in Sessions : session[x].state = "APPROVED" => session'[x].state # "SETTLED"

\* Creating, counting, submitting and approving.
LEMMA CountingKeeps ==
  ASSUME IInv, NEW s \in Sessions, Counting(s)
  PROVE  IInv' /\ NoneSettled
<1>1. /\ session[s] \in SessionType /\ session \in [Sessions -> SessionType]
      /\ (session[s].state # "NONE" => session[s].warehouse \in Warehouses)
      /\ session[s].snapshot <= Len(movements) /\ Len(movements) \in Nat
  BY Indices DEF IInv, TypeOK, Counts
<1>2. \A w \in Warehouses : balance[w].onHand \in Nat /\ balance[w].average \in Nat
  BY DEF IInv, TypeOK, BalanceType
<1>3. Quantities \union {0} \subseteq Nat
  BY InventoryAssumption
<1>4. ASSUME NEW r, session' = [session EXCEPT ![s] = r], r.state # "SETTLED"
      PROVE  NoneSettled
  BY <1>1, <1>4 DEF NoneSettled
<1>5. ASSUME NEW w \in Warehouses, NEW listed \in BOOLEAN, CreateSession(s, w, listed)
      PROVE  IInv' /\ NoneSettled
  <2> DEFINE r == [state |-> "DRAFT", warehouse |-> w, snapshot |-> Len(movements), listed |-> listed,
                   book |-> balance[w].onHand, cost |-> balance[w].average, counted |-> Uncounted]
  <2>1. r \in SessionType
    BY <1>1, <1>2 DEF SessionType, Places
  <2>2. /\ r.state = "DRAFT" /\ r.warehouse = w /\ r.snapshot = Len(movements)
        /\ r.book = balance[r.warehouse].onHand
    OBVIOUS
  <2>3. session' = [session EXCEPT ![s] = r] /\ UNCHANGED <<balance, movements, ledger, initialized>>
    BY <1>5 DEF CreateSession, Snapshot
  <2> HIDE DEF r
  <2>4. r.snapshot <= Len(movements)
    BY <1>1, <2>2
  <2> QED BY <1>4, <2>1, <2>2, <2>3, <2>4, SessionKeeps
<1>6. ASSUME NEW counted \in Quantities \union {0}, AddLine(s, counted)
      PROVE  IInv' /\ NoneSettled
  <2> DEFINE w == session[s].warehouse
             r == [session[s] EXCEPT !.listed = TRUE, !.counted = counted,
                     !.book = balance[w].onHand, !.cost = balance[w].average]
  <2>1. w \in Warehouses /\ session[s].state = "DRAFT"
    BY <1>1, <1>6 DEF AddLine
  <2>2. /\ r \in SessionType /\ r.state = "DRAFT" /\ r.warehouse = w
        /\ r.snapshot = session[s].snapshot /\ r.book = balance[w].onHand
    <3> DEFINE Lined(x, h, c) ==
                 [x EXCEPT !.listed = TRUE, !.counted = counted, !.book = h, !.cost = c]
    <3>1. ASSUME NEW x \in SessionType, NEW h \in Nat, NEW c \in Nat
          PROVE  /\ Lined(x, h, c) \in SessionType /\ Lined(x, h, c).state = x.state
                 /\ Lined(x, h, c).warehouse = x.warehouse /\ Lined(x, h, c).snapshot = x.snapshot
                 /\ Lined(x, h, c).book = h
      BY <1>3 DEF SessionType
    <3>2. session[s] \in SessionType /\ balance[w].onHand \in Nat /\ balance[w].average \in Nat
      BY <1>1, <1>2, <2>1
    <3>3. r = Lined(session[s], balance[w].onHand, balance[w].average)
      OBVIOUS
    <3> HIDE DEF Lined, r, w
    <3> DEFINE y == Lined(session[s], balance[w].onHand, balance[w].average)
    <3>4. /\ y \in SessionType /\ y.state = session[s].state /\ y.warehouse = session[s].warehouse
          /\ y.snapshot = session[s].snapshot /\ y.book = balance[w].onHand
      BY <3>1, <3>2, ZenonT(30)
    <3>5. session[s].warehouse = w
      BY DEF w
    <3> HIDE DEF y
    <3> QED BY <2>1, <3>3, <3>4, <3>5 DEF y
  <2>3. session' = [session EXCEPT ![s] = r] /\ UNCHANGED <<balance, movements, ledger, initialized>>
    BY <1>1, <1>6 DEF AddLine
  <2> HIDE DEF r, w
  <2> QED BY <1>1, <1>4, <2>1, <2>2, <2>3, SessionKeeps
<1>7. ASSUME NEW counted \in Quantities \union {0, Uncounted}, EnterCount(s, counted)
      PROVE  IInv' /\ NoneSettled
  <2> DEFINE r == [session[s] EXCEPT !.counted = counted]
  <2>1. session[s].state = "DRAFT" /\ session[s].listed
    BY <1>7 DEF EnterCount
  <2>2. /\ r \in SessionType /\ r.state = session[s].state /\ r.warehouse = session[s].warehouse
        /\ r.snapshot = session[s].snapshot /\ r.book = session[s].book
    <3>1. counted \in Nat \union {Uncounted}
      BY <1>3
    <3>2. \A x \in SessionType :
            LET y == [x EXCEPT !.counted = counted]
            IN  y \in SessionType /\ y.state = x.state /\ y.warehouse = x.warehouse /\ y.snapshot = x.snapshot /\ y.book = x.book
      BY <3>1 DEF SessionType
    <3> QED BY <1>1, <3>2
  <2>3. session' = [session EXCEPT ![s] = r] /\ UNCHANGED <<balance, movements, ledger, initialized>>
    BY <1>1, <1>7 DEF EnterCount
  <2> HIDE DEF r
  <2> QED BY <1>1, <1>4, <2>1, <2>2, <2>3, SessionKeeps
<1>8. ASSUME NEW state \in {"SUBMITTED", "APPROVED"}, session[s].state \in {"DRAFT", "SUBMITTED"},
             session' = [session EXCEPT ![s].state = state],
             UNCHANGED <<balance, movements, ledger, initialized>>
      PROVE  IInv' /\ NoneSettled
  <2> DEFINE r == [session[s] EXCEPT !.state = state]
  <2>1. /\ r \in SessionType /\ r.state = state /\ r.warehouse = session[s].warehouse
        /\ r.snapshot = session[s].snapshot /\ r.book = session[s].book /\ r.listed = session[s].listed
    <3>1. \A x \in SessionType :
            LET y == [x EXCEPT !.state = state]
            IN  /\ y \in SessionType /\ y.state = state /\ y.warehouse = x.warehouse /\ y.snapshot = x.snapshot
                /\ y.book = x.book /\ y.listed = x.listed
      BY DEF SessionType
    <3> QED BY <1>1, <3>1
  <2>2. session' = [session EXCEPT ![s] = r]
    BY <1>1, <1>8
  <2> HIDE DEF r
  <2>3. r.state # "SETTLED" /\ r.state # "NONE" /\ session[s].state # "NONE"
    BY <1>8, <2>1
  <2>4. /\ r.warehouse \in Warehouses /\ r.snapshot <= Len(movements)
        /\ ~ r.listed \/ /\ r.snapshot = session[s].snapshot /\ r.warehouse = session[s].warehouse
                         /\ r.book = session[s].book /\ session[s].listed
                         /\ session[s].state \in {"DRAFT", "SUBMITTED", "APPROVED"}
    BY <1>1, <1>8, <2>1, <2>3
  <2>5. IInv'
    BY <1>8, <2>1, <2>2, <2>4, SessionKeeps
  <2> QED BY <1>4, <2>2, <2>3, <2>5
<1>9. Submit(s) \/ Approve(s) => IInv' /\ NoneSettled
  BY <1>8 DEF Submit, Approve
<1> QED BY <1>5, <1>6, <1>7, <1>9 DEF Counting

\* The difference that a count settles is what the warehouse gains or loses.
LEMMA SettleMoves ==
  ASSUME IInv, NEW s \in Sessions, Settle(s), Variance(s) # 0
  PROVE  \E m : /\ Legit(m) /\ Move(m)
               /\ balance'[session[s].warehouse].onHand = balance[session[s].warehouse].onHand + Variance(s)
<1> DEFINE w == session[s].warehouse
           v == Variance(s)
<1>1. session[s] \in SessionType /\ w \in Warehouses /\ TypeOK
  BY DEF IInv, TypeOK, Counts, Settle
<1>2. v \in Int
  BY <1>1 DEF Variance, SessionType, Uncounted
<1>3. balance[w].onHand \in Nat
  BY <1>1 DEF TypeOK, BalanceType
<1>4. {"IN", "OUT"} \subseteq (Manual \union Sources) \ {"CREDIT"}
  BY DEF Manual, Inbound, Sources
<1>5. CASE v > 0
  <2>1. PICK unitCost \in SurplusCosts(s) : ManualIn("IN", w, v, unitCost)
    BY <1>2, <1>5 DEF Settle
  <2>2. unitCost \in Nat
    BY <1>1, <2>1, InventoryAssumption DEF SurplusCosts, SessionType
  <2> DEFINE cost == Money(v * unitCost)
             m == Receipt("IN", 0, w, v, cost)
  <2> HIDE DEF v
  <2>3. v \in Nat \ {0} /\ cost \in Nat
    <3>1. v * unitCost \in Nat
      BY <1>2, <1>5, <2>2
    <3> QED BY <1>2, <1>5, <3>1, MoneyType
  <2>4. Move(m)
    BY <2>1 DEF ManualIn
  <2> HIDE DEF cost
  <2>5. Legit(m)
    BY <1>1, <1>4, <2>3, ReceiptIsLegit
  <2>6. m.to = w /\ m.quantity = v
    BY DEF Receipt, Movement
  <2> HIDE DEF m
  <2>7. balance'[w].onHand = balance[w].onHand + v
    BY <1>1, <2>4, <2>5, <2>6, BalanceAfter
  <2> QED BY <2>4, <2>5, <2>7 DEF v
<1>6. CASE v < 0
  <2> DEFINE q == 0 - v
             m == Issue("OUT", 0, w, q)
  <2>1. Move(m)
    BY <1>2, <1>6 DEF Settle, ManualOut
  <2>2. q \in Nat \ {0}
    BY <1>2, <1>6
  <2> HIDE DEF q, v
  <2>3. IssueCost(w, q) \in Nat /\ 0 <= Len(movements)
    BY <1>1, <2>2, IssueCostType, Indices
  <2>4. Legit(m)
    BY <1>1, <1>4, <2>2, <2>3, IssueIsLegit DEF Issue
  <2>5. m.from = w /\ m.quantity = q
    BY DEF Issue, Movement
  <2> HIDE DEF m
  <2>6. balance'[w].onHand = balance[w].onHand - q
    BY <1>1, <2>1, <2>4, <2>5, BalanceAfter
  <2>7. balance'[w].onHand = balance[w].onHand + v
    BY <1>2, <1>3, <2>6 DEF q
  <2> QED BY <2>1, <2>4, <2>7 DEF v
<1> QED BY <1>2, <1>5, <1>6

\* Settling keeps the invariant, and leaves what was counted.
LEMMA SettleKeeps ==
  ASSUME IInv, NEW s \in Sessions, Settle(s)
  PROVE  /\ IInv'
         /\ session[s].listed => balance'[session[s].warehouse].onHand = session[s].counted
         /\ \A x \in Sessions \ {s} : session'[x] = session[x]
<1> DEFINE r == [session[s] EXCEPT !.state = "SETTLED"]
           w == session[s].warehouse
<1>1. /\ session[s] \in SessionType /\ session \in [Sessions -> SessionType]
      /\ session[s].state = "APPROVED" /\ w \in Warehouses /\ ~ MovedSince(s)
      /\ session[s].snapshot <= Len(movements)
  BY DEF IInv, TypeOK, Counts, Settle
<1>2. /\ r \in SessionType /\ r.state = "SETTLED" /\ r.warehouse = w
      /\ r.snapshot = session[s].snapshot
  <2>1. \A x \in SessionType :
          LET y == [x EXCEPT !.state = "SETTLED"]
          IN  /\ y \in SessionType /\ y.state = "SETTLED" /\ y.warehouse = x.warehouse
              /\ y.snapshot = x.snapshot
    BY DEF SessionType
  <2> QED BY <1>1, <2>1
<1>3. session' = [session EXCEPT ![s] = r]
  BY <1>1 DEF Settle
<1> HIDE DEF r
<1>4. /\ session' \in [Sessions -> SessionType] /\ session'[s] = r
      /\ \A x \in Sessions \ {s} : session'[x] = session[x]
  BY <1>1, <1>2, <1>3
<1>5. session[s].listed => session[s].book = balance[w].onHand
  BY <1>1 DEF IInv, Counts
<1>6. /\ balance[w].onHand \in Nat /\ session[s].counted \in Int /\ session[s].book \in Nat
  BY <1>1 DEF IInv, TypeOK, BalanceType, SessionType, Uncounted
<1>7. session[s].listed => balance[w].onHand + Variance(s) = session[s].counted
  BY <1>5, <1>6 DEF Variance
<1>8. CASE Variance(s) = 0
  <2>1. UNCHANGED <<balance, movements, ledger, initialized>>
    BY <1>8 DEF Settle
  <2>2. IInv'
    BY <1>1, <1>2, <1>3, <2>1, SessionKeeps
  <2>3. session[s].listed => balance'[w].onHand = session[s].counted
    BY <1>6, <1>7, <1>8, <2>1
  <2> QED BY <1>4, <2>2, <2>3
<1>9. CASE Variance(s) # 0
  <2>1. PICK m : Legit(m) /\ Move(m) /\ balance'[w].onHand = balance[w].onHand + Variance(s)
    BY <1>9, SettleMoves
  <2>2. /\ TypeOK' /\ AllBookedAtCost' /\ Unvalued' /\ LedgerAgreesWithStock'
        /\ NotesFollow' /\ NotesFit' /\ CreditsGiveBackTheCost'
    BY <1>4, <2>1, MoveKeeps
  <2>3. Counts'
    <3> SUFFICES ASSUME NEW x \in Sessions
                 PROVE  /\ session'[x].state # "NONE" => session'[x].warehouse \in Warehouses
                        /\ session'[x].snapshot <= Len(movements')
                        /\ (/\ session'[x].state \in {"DRAFT", "SUBMITTED", "APPROVED"}
                          /\ session'[x].listed /\ ~ (MovedSince(x))') =>
                             session'[x].book = balance'[session'[x].warehouse].onHand
      BY DEF Counts
    <3>1. session[x].snapshot <= Len(movements) /\ session[x].snapshot \in Nat
      BY DEF IInv, Counts, TypeOK, SessionType
    <3>2. session[x].snapshot <= Len(movements')
      BY <2>1, <3>1, RecordAfter DEF IInv
    <3>3. CASE x = s
      BY <1>1, <1>2, <1>4, <3>2, <3>3
    <3>4. CASE x # s /\ session[x].state = "NONE"
      BY <1>4, <3>2, <3>4
    <3>5. CASE x # s /\ session[x].state # "NONE"
      <4>1. session'[x] = session[x] /\ session[x].warehouse \in Warehouses
        BY <1>4, <3>5 DEF IInv, Counts
      <4>2. ~ (MovedSince(x))' =>
               ~ MovedSince(x) /\ balance'[session[x].warehouse] = balance[session[x].warehouse]
        BY <2>1, <4>1, CountsAfter DEF IInv
      <4> QED BY <3>2, <4>1, <4>2 DEF IInv, Counts
    <3> QED BY <3>3, <3>4, <3>5
  <2>4. session[s].listed => balance'[w].onHand = session[s].counted
    BY <1>7, <2>1
  <2> QED BY <1>4, <2>2, <2>3, <2>4 DEF IInv
<1> QED BY <1>8, <1>9

\* What one step does with the invariant, and with a session that is settled by it.
LEMMA StepKeeps ==
  ASSUME IInv, [Next]_vars
  PROVE  /\ IInv'
         /\ \A s \in Sessions :
              session[s].state = "APPROVED" /\ session'[s].state = "SETTLED" /\ session[s].listed =>
                balance'[session[s].warehouse].onHand = session[s].counted
<1>1. CASE (ByHand \/ ByDocument) /\ UNCHANGED session
  <2>1. \/ \E w \in Warehouses, unitCost \in UnitCosts \union {0} : Initialize(w, unitCost)
        \/ \E m : Legit(m) /\ Move(m)
    BY <1>1, MovesLegit DEF IInv
  <2>2. IInv'
    BY <1>1, <2>1, InitializeKeeps, MovingKeeps
  <2> QED BY <1>1, <2>2
<1>2. ASSUME NEW s \in Sessions, Counting(s)
      PROVE  IInv' /\ NoneSettled
  BY <1>2, CountingKeeps
<1>3. ASSUME NEW s \in Sessions, Settle(s)
      PROVE  /\ IInv'
             /\ session[s].listed => balance'[session[s].warehouse].onHand = session[s].counted
             /\ \A x \in Sessions \ {s} : session'[x] = session[x]
  BY <1>3, SettleKeeps
<1>4. CASE UNCHANGED vars
  <2>1. UNCHANGED <<balance, movements, ledger, initialized, session>>
    BY <1>4 DEF vars
  <2>2. IInv'
    <3>1. TypeOK' /\ AllBookedAtCost' /\ Unvalued' /\ NotesFollow'
      BY <2>1 DEF IInv, TypeOK, AllBookedAtCost, Unvalued, NotesFollow
    <3>2. LedgerAgreesWithStock'
      BY <2>1 DEF IInv, LedgerAgreesWithStock, StockValue
    <3>3. NotesFit' /\ CreditsGiveBackTheCost'
      BY <2>1, NotesSame DEF IInv
    <3>4. Counts'
      <4>1. \A s : (MovedSince(s))' <=> MovedSince(s)
        BY <2>1 DEF MovedSince
      <4> QED BY <2>1, <4>1 DEF IInv, Counts
    <3> QED BY <3>1, <3>2, <3>3, <3>4 DEF IInv
  <2> QED BY <2>1, <2>2
<1> QED BY <1>1, <1>2, <1>3, <1>4 DEF Next, NoneSettled

\* The stock from before valuation satisfies the invariant.
LEMMA InitKeeps == Init => IInv
<1> SUFFICES ASSUME Init PROVE IInv
  OBVIOUS
<1>1. PICK order \in [1 .. Cardinality(Legacy) -> Legacy] :
        movements = [i \in DOMAIN order |-> Movement("IN", 0, Nowhere, order[i], LegacyStock, 0, 0)]
  BY DEF Init
<1>2. Cardinality(Legacy) \in Nat
  <2>1. IsFiniteSet(Legacy)
    BY InventoryAssumption, FS_Subset
  <2> QED BY <2>1, FS_CardinalityType
<1>3. \A w \in Legacy : Movement("IN", 0, Nowhere, w, LegacyStock, 0, 0) \in MovementType
  BY InventoryAssumption DEF Movement, MovementType, Manual, Inbound, Places
<1>4. movements \in [1 .. Cardinality(Legacy) -> MovementType]
  BY <1>1, <1>3
<1>5. movements \in Seq(MovementType)
  BY <1>2, <1>4
<1>6. /\ balance = [w \in Warehouses |->
            [onHand |-> IF w \in Legacy THEN LegacyStock ELSE 0, value |-> 0, average |-> 0, valued |-> FALSE]]
      /\ ledger = 0 /\ initialized = 0
      /\ session = [s \in Sessions |->
            [state |-> "NONE", warehouse |-> Nowhere, snapshot |-> 0, listed |-> FALSE,
             book |-> 0, cost |-> 0, counted |-> Uncounted]]
  BY DEF Init
<1>7. \A w \in Warehouses : balance[w] \in BalanceType /\ balance[w].value = 0
  BY <1>6, InventoryAssumption DEF BalanceType
<1>8. balance \in [Warehouses -> BalanceType]
  BY <1>6, <1>7
<1>9. session \in [Sessions -> SessionType]
  BY <1>6 DEF SessionType, Places
<1>10. TypeOK
  <2>1. ledger \in Int /\ initialized \in Nat
    BY <1>6
  <2> QED BY <1>5, <1>7, <1>8, <1>9, <2>1 DEF TypeOK
<1>11. \A i \in DOMAIN movements :
         /\ i \in Nat \ {0} /\ movements[i].of = 0 /\ movements[i].kind = "IN"
         /\ movements[i].from = Nowhere /\ movements[i].to \in Warehouses
         /\ movements[i].cost = 0 /\ movements[i].booked = 0
  <2>1. DOMAIN movements = 1 .. Cardinality(Legacy)
    BY <1>4
  <2>2. Legacy \subseteq Warehouses
    BY InventoryAssumption
  <2> QED BY <1>1, <1>2, <2>1, <2>2 DEF Movement
<1>12. AllBookedAtCost /\ NotesFollow /\ NotesFit /\ CreditsGiveBackTheCost
  BY <1>11 DEF AllBookedAtCost, BookedAtCost, NotesFollow, NotesFit, CreditsGiveBackTheCost
<1>13. Unvalued
  BY <1>7 DEF Unvalued
<1>14. LedgerAgreesWithStock
  <2>1. \A w \in Warehouses : [v \in Warehouses |-> balance[v].value][w] = 0
    BY <1>7
  <2>2. StockValue = 0
    BY <2>1, TotalZero DEF StockValue
  <2> QED BY <1>6, <2>2 DEF LedgerAgreesWithStock
<1>15. Counts
  <2>1. 0 <= Len(movements)
    BY <1>10, Indices
  <2> QED BY <1>6, <2>1 DEF Counts
<1> QED BY <1>10, <1>12, <1>13, <1>14, <1>15 DEF IInv

\* The invariant holds in every reachable state.
LEMMA IInvCorrect == Spec => []IInv
<1>1. IInv /\ [Next]_vars => IInv'
  BY StepKeeps
<1> QED BY InitKeeps, <1>1, PTL DEF Spec

-----------------------------------------------------------------------------
(* What is proved.                                                         *)

(***************************************************************************)
(* The rows keep their types: for any number of warehouses and movements   *)
(* and any costs, stock and value never go negative and vanish together.   *)
(***************************************************************************)
THEOREM TypeCorrect == Spec => []TypeOK
<1>1. IInv => TypeOK
  BY DEF IInv
<1> QED BY IInvCorrect, <1>1, PTL

(***************************************************************************)
(* The inventory account and the warehouses are worth the same after any   *)
(* mix of documents, movements, reversals, valuations and counts.          *)
(***************************************************************************)
THEOREM LedgerAgreesCorrect == Spec => []LedgerAgreesWithStock
<1>1. IInv => LedgerAgreesWithStock
  BY DEF IInv
<1> QED BY IInvCorrect, <1>1, PTL

(***************************************************************************)
(* Credit notes that return all of a sale give back exactly its cost, for  *)
(* any number of them and whatever the unit cost rounds to.                *)
(***************************************************************************)
THEOREM CreditsCorrect == Spec => []CreditsGiveBackTheCost
<1>1. IInv => CreditsGiveBackTheCost
  BY DEF IInv
<1> QED BY IInvCorrect, <1>1, PTL

(***************************************************************************)
(* A count that is settled leaves in its warehouse what was counted, for   *)
(* any number of sessions and whatever was moved meanwhile.                *)
(***************************************************************************)
THEOREM SettledCorrect == Spec => SettledAsCounted
<1>1. IInv /\ [Next]_vars =>
        [\A s \in Sessions :
           session[s].state = "APPROVED" /\ session'[s].state = "SETTLED" /\ session[s].listed =>
             balance'[session[s].warehouse].onHand = session[s].counted]_vars
  BY StepKeeps
<1> QED BY IInvCorrect, <1>1, PTL DEF Spec, SettledAsCounted

=============================================================================
