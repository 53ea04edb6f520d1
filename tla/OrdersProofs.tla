---------------------------- MODULE OrdersProofs ----------------------------
(***************************************************************************)
(* What Quantity, the sum of the quantities of a set of orders, does when  *)
(* the set grows, shrinks or is split; and what the tables of OrderStore   *)
(* have to do with that sum. The sum is the cardinality of the set of      *)
(* units, so the facts come from the theorems about finite sets.           *)
(***************************************************************************)
EXTENDS OrderStore, FiniteSetTheorems, TLAPS

\* A request is a record with a known ticket type, a known user and a quantity.
LEMMA RequestFields ==
  ASSUME NEW r \in Requests
  PROVE  /\ r.ticket \in Tickets
         /\ r.user \in Users
         /\ r.quantity \in Nat
         /\ r.quantity > 0
BY RequestsAssumption, MaxQuantityAssumption DEF Order

\* A set of requests stands for finitely many units, so its quantity is a number.
LEMMA UnitsFinite ==
  ASSUME NEW S \in SUBSET Requests
  PROVE  IsFiniteSet(Units(S)) /\ Quantity(S) \in Nat
<1>1. IsFiniteSet(S)
  BY RequestsAssumption, FS_Subset
<1>2. IsFiniteSet(1..MaxQuantity)
  BY MaxQuantityAssumption, FS_Interval
<1>3. IsFiniteSet(S \X (1..MaxQuantity))
  BY <1>1, <1>2, FS_Product
<1>4. Units(S) \in SUBSET (S \X (1..MaxQuantity))
  BY DEF Units
<1>5. IsFiniteSet(Units(S))
  BY <1>3, <1>4, FS_Subset
<1>6. QED
  BY <1>5, FS_CardinalityType DEF Quantity

\* No orders, no units.
LEMMA QuantityEmpty == Quantity({}) = 0
<1>1. Units({}) = {}
  BY DEF Units
<1>2. QED
  BY <1>1, FS_EmptySet DEF Quantity

\* One order stands for the units it asks for.
LEMMA QuantityOne ==
  ASSUME NEW r \in Requests
  PROVE  Quantity({r}) = r.quantity
<1>1. r.quantity \in 1..MaxQuantity
  BY RequestsAssumption DEF Order
<1>2. Units({r}) = {r} \X (1..r.quantity)
  <2>1. ASSUME NEW u \in {r} \X (1..MaxQuantity)
        PROVE  (u[2] <= u[1].quantity) <=> (u \in {r} \X (1..r.quantity))
    <3>1. u[1] = r /\ u[2] \in 1..MaxQuantity /\ u = <<u[1], u[2]>>
      BY <2>1
    <3>2. (u[2] <= r.quantity) <=> (u[2] \in 1..r.quantity)
      BY <1>1, <3>1, MaxQuantityAssumption
    <3>3. QED
      BY <3>1, <3>2
  <2>2. {r} \X (1..r.quantity) \subseteq {r} \X (1..MaxQuantity)
    BY <1>1, MaxQuantityAssumption
  <2>3. QED
    BY <2>1, <2>2 DEF Units
<1>3. IsFiniteSet({r}) /\ Cardinality({r}) = 1
  BY FS_Singleton
<1>4. IsFiniteSet(1..r.quantity) /\ Cardinality(1..r.quantity) = r.quantity
  BY <1>1, MaxQuantityAssumption, FS_Interval
<1>5. Cardinality({r} \X (1..r.quantity)) = Cardinality({r}) * Cardinality(1..r.quantity)
  BY <1>3, <1>4, FS_Product, Zenon
<1>6. Quantity({r}) = Cardinality({r} \X (1..r.quantity))
  BY <1>2, Zenon DEF Quantity
<1>7. Quantity({r}) = 1 * r.quantity
  BY <1>3, <1>4, <1>5, <1>6, Zenon
<1>8. QED
  BY <1>1, <1>7

\* The quantity of two sets without common orders is the sum of theirs.
LEMMA QuantityUnion ==
  ASSUME NEW S \in SUBSET Requests, NEW T \in SUBSET Requests, S \cap T = {}
  PROVE  Quantity(S \cup T) = Quantity(S) + Quantity(T)
<1>1. Units(S \cup T) = Units(S) \cup Units(T)
  BY DEF Units
<1>2. Units(S) \cap Units(T) = {}
  <2>1. ASSUME NEW u \in Units(S), u \in Units(T)
        PROVE  FALSE
    <3>1. u[1] \in S /\ u[1] \in T
      BY <2>1 DEF Units
    <3>2. QED
      BY <3>1
  <2>2. QED
    BY <2>1
<1>3. IsFiniteSet(Units(S)) /\ IsFiniteSet(Units(T))
  BY UnitsFinite
<1>4. Cardinality(Units(S) \cup Units(T))
        = Cardinality(Units(S)) + Cardinality(Units(T)) - Cardinality(Units(S) \cap Units(T))
  BY <1>3, FS_Union, Zenon
<1>5. Cardinality({}) = 0
  BY FS_EmptySet
<1>6. Quantity(S) \in Nat /\ Quantity(T) \in Nat
  BY UnitsFinite
<1>7. Quantity(S \cup T) = Quantity(S) + Quantity(T) - 0
  BY <1>1, <1>2, <1>4, <1>5, Zenon DEF Quantity
<1>8. QED
  BY <1>6, <1>7

\* A further order adds the units it asks for.
LEMMA QuantityAdd ==
  ASSUME NEW S \in SUBSET Requests, NEW r \in Requests, r \notin S
  PROVE  Quantity(S \cup {r}) = Quantity(S) + r.quantity
BY QuantityUnion, QuantityOne

\* An order that leaves the set takes its units away.
LEMMA QuantityRemove ==
  ASSUME NEW S \in SUBSET Requests, NEW r \in S
  PROVE  Quantity(S \ {r}) = Quantity(S) - r.quantity
<1>1. Quantity((S \ {r}) \cup {r}) = Quantity(S \ {r}) + r.quantity
  BY QuantityAdd
<1>2. (S \ {r}) \cup {r} = S
  OBVIOUS
<1>3. Quantity(S \ {r}) \in Nat /\ r.quantity \in Int
  BY UnitsFinite, RequestsAssumption DEF Order
<1>4. Quantity(S) = Quantity(S \ {r}) + r.quantity
  BY <1>1, <1>2, Zenon
<1>5. QED
  BY <1>3, <1>4

\* Fewer orders, no more units.
LEMMA QuantityMonotone ==
  ASSUME NEW T \in SUBSET Requests, NEW S \in SUBSET T
  PROVE  Quantity(S) <= Quantity(T)
<1>1. Units(S) \in SUBSET Units(T)
  BY DEF Units
<1>2. IsFiniteSet(Units(T))
  BY UnitsFinite
<1>3. QED
  BY <1>1, <1>2, FS_Subset DEF Quantity

-----------------------------------------------------------------------------
(* The orders of one ticket type, and of one of its users.                 *)

OfBoth(S, t, u) == OfUser(OfTicket(S, t), u)

\* Adding an order to a set changes the quantity of its own ticket type only.
LEMMA TicketAdd ==
  ASSUME NEW S \in SUBSET Requests, NEW r \in Requests, r \notin S, NEW t \in Tickets
  PROVE  Quantity(OfTicket(S \cup {r}, t)) =
           IF t = r.ticket THEN Quantity(OfTicket(S, t)) + r.quantity
                           ELSE Quantity(OfTicket(S, t))
<1>1. CASE t = r.ticket
  <2>1. OfTicket(S \cup {r}, t) = OfTicket(S, t) \cup {r}
    BY <1>1 DEF OfTicket
  <2>2. OfTicket(S, t) \in SUBSET Requests /\ r \notin OfTicket(S, t)
    BY DEF OfTicket
  <2>3. QED
    BY <1>1, <2>1, <2>2, QuantityAdd
<1>2. CASE t # r.ticket
  <2>1. OfTicket(S \cup {r}, t) = OfTicket(S, t)
    BY <1>2 DEF OfTicket
  <2>2. QED
    BY <1>2, <2>1
<1>3. QED
  BY <1>1, <1>2

\* Taking an order away changes the quantity of its own ticket type only.
LEMMA TicketRemove ==
  ASSUME NEW S \in SUBSET Requests, NEW r \in S, NEW t \in Tickets
  PROVE  Quantity(OfTicket(S \ {r}, t)) =
           IF t = r.ticket THEN Quantity(OfTicket(S, t)) - r.quantity
                           ELSE Quantity(OfTicket(S, t))
<1>1. CASE t = r.ticket
  <2>1. OfTicket(S \ {r}, t) = OfTicket(S, t) \ {r}
    BY <1>1 DEF OfTicket
  <2>2. OfTicket(S, t) \in SUBSET Requests /\ r \in OfTicket(S, t)
    BY <1>1 DEF OfTicket
  <2>3. QED
    BY <1>1, <2>1, <2>2, QuantityRemove
<1>2. CASE t # r.ticket
  <2>1. OfTicket(S \ {r}, t) = OfTicket(S, t)
    BY <1>2 DEF OfTicket
  <2>2. QED
    BY <1>2, <2>1
<1>3. QED
  BY <1>1, <1>2

\* The same for the orders of one user for one ticket type.
LEMMA BothAdd ==
  ASSUME NEW S \in SUBSET Requests, NEW r \in Requests, r \notin S,
         NEW t \in Tickets, NEW u \in Users
  PROVE  Quantity(OfBoth(S \cup {r}, t, u)) =
           IF <<t, u>> = <<r.ticket, r.user>> THEN Quantity(OfBoth(S, t, u)) + r.quantity
                                              ELSE Quantity(OfBoth(S, t, u))
<1>1. CASE t = r.ticket /\ u = r.user
  <2>1. OfBoth(S \cup {r}, t, u) = OfBoth(S, t, u) \cup {r}
    BY <1>1 DEF OfTicket, OfUser, OfBoth
  <2>2. OfBoth(S, t, u) \in SUBSET Requests /\ r \notin OfBoth(S, t, u)
    BY DEF OfTicket, OfUser, OfBoth
  <2>3. QED
    BY <1>1, <2>1, <2>2, QuantityAdd
<1>2. CASE ~(t = r.ticket /\ u = r.user)
  <2>1. OfBoth(S \cup {r}, t, u) = OfBoth(S, t, u)
    BY <1>2 DEF OfTicket, OfUser, OfBoth
  <2>2. QED
    BY <1>2, <2>1
<1>3. QED
  BY <1>1, <1>2

\* And when it leaves.
LEMMA BothRemove ==
  ASSUME NEW S \in SUBSET Requests, NEW r \in S, NEW t \in Tickets, NEW u \in Users
  PROVE  Quantity(OfBoth(S \ {r}, t, u)) =
           IF <<t, u>> = <<r.ticket, r.user>> THEN Quantity(OfBoth(S, t, u)) - r.quantity
                                              ELSE Quantity(OfBoth(S, t, u))
<1>1. CASE t = r.ticket /\ u = r.user
  <2>1. OfBoth(S \ {r}, t, u) = OfBoth(S, t, u) \ {r}
    BY <1>1 DEF OfTicket, OfUser, OfBoth
  <2>2. OfBoth(S, t, u) \in SUBSET Requests /\ r \in OfBoth(S, t, u)
    BY <1>1 DEF OfTicket, OfUser, OfBoth
  <2>3. QED
    BY <1>1, <2>1, <2>2, QuantityRemove
<1>2. CASE ~(t = r.ticket /\ u = r.user)
  <2>1. OfBoth(S \ {r}, t, u) = OfBoth(S, t, u)
    BY <1>2 DEF OfTicket, OfUser, OfBoth
  <2>2. QED
    BY <1>2, <2>1
<1>3. QED
  BY <1>1, <1>2

-----------------------------------------------------------------------------
(* The tables. A transaction moves units between a ticket row and the      *)
(* orders that count as sold.                                              *)

\* What a step does to the tables: one of the transactions, or nothing.
StoreStep ==
  \/ \E r \in Requests : DispatchTx(r) \/ ConfirmTx(r) \/ CancelTx(r) \/ DeleteTx(r)
  \/ UNCHANGED storeVars

\* The transactions keep the types of the tables.
LEMMA OrderStoreType ==
  ASSUME OrderStoreTypeOK, StoreStep
  PROVE  OrderStoreTypeOK'
<1>1. ASSUME NEW r \in Requests, DispatchTx(r)
      PROVE  OrderStoreTypeOK'
  BY <1>1, RequestFields DEF OrderStoreTypeOK, DispatchTx, CanDispatch, Statuses
<1>2. ASSUME NEW r \in Requests, ConfirmTx(r) \/ DeleteTx(r)
      PROVE  OrderStoreTypeOK'
  BY <1>2 DEF OrderStoreTypeOK, ConfirmTx, DeleteTx, Statuses
<1>3. ASSUME NEW r \in Requests, CancelTx(r)
      PROVE  OrderStoreTypeOK'
  BY <1>3, RequestFields DEF OrderStoreTypeOK, CancelTx, Statuses
<1>4. CASE UNCHANGED storeVars
  BY <1>4 DEF OrderStoreTypeOK, storeVars
<1>5. QED
  BY <1>1, <1>2, <1>3, <1>4 DEF StoreStep

\* Rows are never removed.
LEMMA StoredGrows ==
  ASSUME OrderStoreTypeOK, StoreStep
  PROVE  /\ Stored \subseteq Stored'
         /\ \A r \in Stored' \ Stored : DispatchTx(r)
<1>1. ASSUME NEW r \in Requests, DispatchTx(r) \/ ConfirmTx(r) \/ CancelTx(r) \/ DeleteTx(r)
      PROVE  /\ Stored \subseteq Stored'
             /\ \A s \in Stored' \ Stored : DispatchTx(s)
  <2>1. CASE DispatchTx(r)
    <3>1. Stored' = Stored \cup {r}
      BY <2>1 DEF OrderStoreTypeOK, DispatchTx, Stored
    <3>2. QED
      BY <2>1, <3>1
  <2>2. CASE ConfirmTx(r) \/ CancelTx(r) \/ DeleteTx(r)
    <3>1. Stored' = Stored
      BY <2>2 DEF OrderStoreTypeOK, ConfirmTx, CancelTx, CanCancel, DeleteTx, Stored
    <3>2. QED
      BY <3>1
  <2>3. QED
    BY <1>1, <2>1, <2>2
<1>2. CASE UNCHANGED storeVars
  BY <1>2 DEF storeVars, Stored
<1>3. QED
  BY <1>1, <1>2 DEF StoreStep

\* The numbers of a ticket row and of its live orders are numbers.
LEMMA LedgerNumbers ==
  ASSUME OrderStoreTypeOK, NEW t \in Tickets
  PROVE  /\ remaining[t] \in Int
         /\ TotalStock[t] \in Nat
         /\ Quantity(OfTicket(Live, t)) \in Nat
BY TotalStockAssumption, UnitsFinite DEF OrderStoreTypeOK, Live, OfTicket

\* What an order that becomes live adds, and what one that stops being live takes.
LEMMA LiveQuantity ==
  ASSUME NEW r \in Requests, NEW t \in Tickets
  PROVE  /\ Quantity(OfTicket(Live \cup {r}, t)) =
              IF t = r.ticket /\ r \notin Live THEN Quantity(OfTicket(Live, t)) + r.quantity
                                              ELSE Quantity(OfTicket(Live, t))
         /\ Quantity(OfTicket(Live \ {r}, t)) =
              IF t = r.ticket /\ r \in Live THEN Quantity(OfTicket(Live, t)) - r.quantity
                                           ELSE Quantity(OfTicket(Live, t))
<1>1. Live \in SUBSET Requests
  BY DEF Live
<1>2. r \in Live => Live \cup {r} = Live
  OBVIOUS
<1>3. r \notin Live => Live \ {r} = Live
  OBVIOUS
<1>4. QED
  BY <1>1, <1>2, <1>3, TicketAdd, TicketRemove

\* A transaction keeps the units that are left or sold as many as they were, or
\* counts some twice because the order it is for had been cancelled before.
LEMMA BookedStep ==
  ASSUME OrderStoreTypeOK, StoreStep, NEW t \in Tickets
  PROVE  /\ Booked(t)' >= Booked(t)
         /\ Booked(t)' = Booked(t) \/ Reclosed
<1> DEFINE Fine == Booked(t)' >= Booked(t) /\ (Booked(t)' = Booked(t) \/ Reclosed)
<1>1. remaining[t] \in Int /\ Quantity(OfTicket(Live, t)) \in Nat
  BY LedgerNumbers
<1>2. ASSUME NEW r \in Requests, DispatchTx(r)
      PROVE  Fine
  <2>1. r \notin Live /\ Live' = Live \cup {r}
    BY <1>2 DEF OrderStoreTypeOK, DispatchTx, CanDispatch, Live
  <2>2. remaining'[t] = IF t = r.ticket THEN remaining[t] - r.quantity ELSE remaining[t]
    BY <1>2 DEF OrderStoreTypeOK, DispatchTx
  <2>3. Quantity(OfTicket(Live', t)) =
          IF t = r.ticket THEN Quantity(OfTicket(Live, t)) + r.quantity
                          ELSE Quantity(OfTicket(Live, t))
    BY <2>1, LiveQuantity
  <2>4. QED
    BY <1>1, <2>2, <2>3, RequestFields DEF Booked
<1>3. ASSUME NEW r \in Requests, ConfirmTx(r)
      PROVE  Fine
  <2>1. Live' = Live \cup {r} /\ remaining' = remaining /\ r \in Stored
    BY <1>3 DEF OrderStoreTypeOK, ConfirmTx, Stored, Live
  <2>2. r \notin Live => Reclosed
    BY <1>3, <2>1 DEF Reclosed
  <2>3. Quantity(OfTicket(Live', t)) =
          IF t = r.ticket /\ r \notin Live THEN Quantity(OfTicket(Live, t)) + r.quantity
                                          ELSE Quantity(OfTicket(Live, t))
    BY <2>1, LiveQuantity
  <2>4. QED
    BY <1>1, <2>1, <2>2, <2>3, RequestFields DEF Booked
<1>4. ASSUME NEW r \in Requests, CancelTx(r)
      PROVE  Fine
  <2>1. Live' = Live \ {r} /\ r \in Stored
    BY <1>4 DEF OrderStoreTypeOK, CancelTx, CanCancel, Stored, Live
  <2>2. remaining'[t] = IF t = r.ticket THEN remaining[t] + r.quantity ELSE remaining[t]
    BY <1>4 DEF OrderStoreTypeOK, CancelTx
  <2>3. r \notin Live => Reclosed
    BY <1>4, <2>1 DEF Reclosed
  <2>4. Quantity(OfTicket(Live', t)) =
          IF t = r.ticket /\ r \in Live THEN Quantity(OfTicket(Live, t)) - r.quantity
                                       ELSE Quantity(OfTicket(Live, t))
    BY <2>1, LiveQuantity
  <2>5. QED
    BY <1>1, <2>2, <2>3, <2>4, RequestFields DEF Booked
<1>5. ASSUME UNCHANGED <<remaining, status>>
      PROVE  Fine
  <2>1. Booked(t)' = Booked(t)
    BY <1>5 DEF Booked, Live
  <2>2. QED
    BY <1>1, <2>1 DEF Booked
<1>6. QED
  BY <1>2, <1>3, <1>4, <1>5 DEF StoreStep, DeleteTx, storeVars

-----------------------------------------------------------------------------
(* What the transactions guarantee whoever runs them, in any order: the    *)
(* sale and OrderTransactions inherit it.                                  *)

\* A step of StoreSpec is a step of the tables.
LEMMA StoreNextIsStep ==
  ASSUME [StoreNext]_storeVars
  PROVE  StoreStep
BY DEF StoreNext, StoreStep

\* The tables keep their types, and remaining_stock is never negative.
THEOREM StoreTypeCorrect == StoreSpec => []OrderStoreTypeOK
<1>1. OrderStoreInit => OrderStoreTypeOK
  BY TotalStockAssumption DEF OrderStoreInit, OrderStoreTypeOK
<1>2. OrderStoreTypeOK /\ [StoreNext]_storeVars => OrderStoreTypeOK'
  BY OrderStoreType, StoreNextIsStep
<1>3. QED
  BY <1>1, <1>2, PTL DEF StoreSpec

\* At first every unit is left, and none is sold.
LEMMA BookedInit ==
  ASSUME OrderStoreInit, NEW t \in Tickets
  PROVE  Booked(t) = TotalStock[t] /\ TotalStock[t] \in Nat
<1>1. OfTicket(Live, t) = {}
  BY DEF OrderStoreInit, Live, OfTicket
<1>2. Quantity(OfTicket(Live, t)) = 0
  BY <1>1, QuantityEmpty, Zenon
<1>3. remaining[t] = TotalStock[t] /\ TotalStock[t] \in Nat
  BY TotalStockAssumption DEF OrderStoreInit
<1>4. QED
  BY <1>2, <1>3 DEF Booked

\* Sessions that race for an order can make the database count a unit twice,
\* but nothing makes it forget one.
THEOREM StoreKeepsUnits == StoreSpec => []NoLostUnits
<1>1. OrderStoreInit => NoLostUnits
  BY BookedInit DEF NoLostUnits
<1>2. OrderStoreTypeOK /\ NoLostUnits /\ [StoreNext]_storeVars => NoLostUnits'
  <2> SUFFICES ASSUME OrderStoreTypeOK, NoLostUnits, [StoreNext]_storeVars, NEW t \in Tickets
               PROVE  Booked(t)' >= TotalStock[t]
    BY DEF NoLostUnits
  <2>1. StoreStep /\ OrderStoreTypeOK'
    BY OrderStoreType, StoreNextIsStep
  <2>2. Booked(t)' >= Booked(t)
    BY <2>1, BookedStep
  <2>3. Booked(t) \in Int /\ Booked(t)' \in Int /\ TotalStock[t] \in Int
    <3>1. Booked(t) \in Int /\ TotalStock[t] \in Int
      BY LedgerNumbers DEF Booked
    <3>2. remaining'[t] \in Int
      BY <2>1 DEF OrderStoreTypeOK
    <3>3. Quantity(OfTicket(Live', t)) \in Int
      BY UnitsFinite DEF Live, OfTicket
    <3>4. QED
      BY <3>1, <3>2, <3>3 DEF Booked
  <2>4. Booked(t) >= TotalStock[t]
    BY DEF NoLostUnits
  <2> HIDE DEF Booked
  <2>5. QED
    BY <2>2, <2>3, <2>4
<1>3. QED
  BY <1>1, <1>2, StoreTypeCorrect, PTL DEF StoreSpec

\* The closing race is all there is: the units left and sold add up as before after
\* every transaction but one that closes an order which had been cancelled.
THEOREM OnlyReclosingUnbalancesHolds == StoreSpec => OnlyReclosingUnbalances
<1>1. OrderStoreTypeOK /\ [StoreNext]_storeVars
        => [Reclosed \/ \A t \in Tickets : Booked(t)' = Booked(t)]_storeVars
  BY BookedStep, StoreNextIsStep
<1>2. QED
  BY <1>1, StoreTypeCorrect, PTL DEF StoreSpec, OnlyReclosingUnbalances
=============================================================================
