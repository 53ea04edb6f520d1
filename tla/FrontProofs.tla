---------------------------- MODULE FrontProofs ----------------------------
(***************************************************************************)
(* Proofs about PrepareOrder and the Redis inventory. Every step of the    *)
(* sale is one of four as far as the inventory and the orders that hold    *)
(* its units are concerned (HeldStep); the invariants follow from that.    *)
(***************************************************************************)
EXTENDS TicketSaleTypeProofs

Holding == Running \cup {"created", "leaked"}

\* Requests hold units, and nothing else does.
LEMMA HeldRequests == Held \in SUBSET Requests
BY DEF Held

\* A request that moves joins the holders or leaves them; no other request does.
LEMMA MoveHeld ==
  ASSUME TypeOK, NEW r \in Requests, NEW from, NEW to, Move(r, from, to)
  PROVE  /\ to \in Holding => Held' = Held \cup {r}
         /\ to \notin Holding => Held' = Held \ {r}
         /\ r \in Held <=> from \in Holding
         /\ to \in {"refused", "failed"} => TurnedAway' = TurnedAway \cup {r}
         /\ from \notin {"refused", "failed"} => r \notin TurnedAway
         /\ {from, to} \cap {"refused", "failed"} = {} => TurnedAway' = TurnedAway
BY DEF TypeOK, Held, TurnedAway, Holding, Running, Move

HeldSame ==
  /\ UNCHANGED inventoryVars
  /\ Held' = Held
  /\ \/ TurnedAway' = TurnedAway
     \/ \E r \in Requests \ (Held \cup TurnedAway) : TurnedAway' = TurnedAway \cup {r}
HeldGrows ==
  \E r \in Requests \ (Held \cup TurnedAway) :
    /\ DecreStock(r)
    /\ Held' = Held \cup {r}
    /\ TurnedAway' = TurnedAway
HeldShrinks ==
  \E r \in Held \ TurnedAway :
    /\ RollbackStock(r)
    /\ Held' = Held \ {r}
    /\ TurnedAway' = TurnedAway \cup {r}
SaleOpens ==
  \E t \in Tickets :
    /\ Reopening \/ t \notin warm
    /\ WarmUpInventory(t, TotalStock[t], MaxPerUser[t])
    /\ Held' = Held
    /\ TurnedAway' = TurnedAway

\* No action moves units without moving the request they belong to.
LEMMA HeldStep ==
  ASSUME TypeOK, [Next]_vars
  PROVE  HeldSame \/ HeldGrows \/ HeldShrinks \/ SaleOpens
<1>1. ASSUME UNCHANGED <<inventoryVars, pc>> PROVE HeldSame
  BY <1>1 DEF HeldSame, Held, TurnedAway
<1>2. ASSUME NEW t \in Tickets, OpenForSale(t) PROVE SaleOpens
  <2>1. Held' = Held /\ TurnedAway' = TurnedAway
    BY <1>2 DEF OpenForSale, Held, TurnedAway
  <2>2. QED
    BY <1>2, <2>1 DEF OpenForSale, SaleOpens
<1>3. ASSUME NEW r \in Requests, PrepareOrder(r)
      PROVE  HeldSame \/ HeldGrows \/ HeldShrinks
  <2>1. CASE Reserve(r)
    <3>1. /\ r \notin Held \cup TurnedAway
          /\ Held' = Held \cup {r}
          /\ TurnedAway' = TurnedAway
          /\ DecreStock(r)
      BY <2>1, MoveHeld DEF Reserve, Holding, Running
    <3>2. QED
      BY <3>1 DEF HeldGrows
  <2>2. CASE Refuse(r)
    <3>1. /\ r \notin Held \cup TurnedAway
          /\ Held' = Held
          /\ TurnedAway' = TurnedAway \cup {r}
          /\ UNCHANGED inventoryVars
      BY <2>2, MoveHeld DEF Refuse, Holding, Running
    <3>2. QED
      BY <3>1 DEF HeldSame
  <2>3. CASE ReserveFails(r)
    <3>1. CASE Move(r, "idle", "failed") /\ UNCHANGED inventoryVars
      <4>1. /\ r \notin Held \cup TurnedAway
            /\ Held' = Held
            /\ TurnedAway' = TurnedAway \cup {r}
        BY <3>1, MoveHeld DEF Holding, Running
      <4>2. QED
        BY <3>1, <4>1 DEF HeldSame
    <3>2. CASE Move(r, "idle", "leaked") /\ DecreStock(r)
      <4>1. /\ r \notin Held \cup TurnedAway
            /\ Held' = Held \cup {r}
            /\ TurnedAway' = TurnedAway
        BY <3>2, MoveHeld DEF Holding, Running
      <4>2. QED
        BY <3>2, <4>1 DEF HeldGrows
    <3>3. QED
      BY <2>3, <3>1, <3>2 DEF ReserveFails
  <2>4. CASE Publish(r)
    <3>1. Held' = Held /\ TurnedAway' = TurnedAway /\ UNCHANGED inventoryVars
      BY <2>4, MoveHeld DEF Publish, Holding, Running
    <3>2. QED
      BY <3>1 DEF HeldSame
  <2>5. CASE Accept(r)
    <3>1. Held' = Held /\ TurnedAway' = TurnedAway /\ UNCHANGED inventoryVars
      BY <2>5, MoveHeld DEF Accept, Holding, Running
    <3>2. QED
      BY <3>1 DEF HeldSame
  <2>6. CASE PublishFails(r)
    <3>1. PICK from \in {"reserved", "published"} : Move(r, from, "unpublished")
      BY <2>6 DEF PublishFails
    <3>2. Held' = Held /\ TurnedAway' = TurnedAway /\ UNCHANGED inventoryVars
      BY <2>6, <3>1, MoveHeld DEF PublishFails, Holding, Running
    <3>3. QED
      BY <3>2 DEF HeldSame
  <2>7. CASE Rollback(r)
    <3>1. /\ r \in Held \ TurnedAway
          /\ Held' = Held \ {r}
          /\ TurnedAway' = TurnedAway \cup {r}
          /\ RollbackStock(r)
      BY <2>7, MoveHeld DEF Rollback, Holding, Running
    <3>2. QED
      BY <3>1 DEF HeldShrinks
  <2>8. CASE RollbackFails(r)
    <3>1. Held' = Held /\ TurnedAway' = TurnedAway /\ UNCHANGED inventoryVars
      BY <2>8, MoveHeld DEF RollbackFails, Holding, Running
    <3>2. QED
      BY <3>1 DEF HeldSame
  <2>9. QED
    BY <1>3, <2>1, <2>2, <2>3, <2>4, <2>5, <2>6, <2>7, <2>8 DEF PrepareOrder
<1>4. ASSUME NEW r \in Requests, Work(r) PROVE HeldSame
  BY <1>1, <1>4 DEF Work, Examine, ReceiveOrder, DispatchOrder, DispatchFails, AckOrder
<1>5. ASSUME NEW B \in SUBSET Requests, ReadStream(B) \/ ClaimStream(B) PROVE HeldSame
  BY <1>1, <1>5 DEF ReadStream, ClaimStream
<1>6. ASSUME NEW s \in Sessions, NEW op \in Operations, NEW r \in Requests,
             FindOrder(s, op, r)
      PROVE  HeldSame
  BY <1>1, <1>6 DEF FindOrder
<1>7. ASSUME NEW c \in SessionRequests, Update(c) PROVE HeldSame
  BY <1>1, <1>7 DEF Update, ConfirmOrder, CancelOrder, DeleteOrder, UpdateFails, Answer
<1>8. CASE Crash
  <2>1. Held' = Held /\ TurnedAway' = TurnedAway
    BY <1>8 DEF TypeOK, Crash, Held, TurnedAway, Running
  <2>2. QED
    BY <1>8, <2>1 DEF Crash, HeldSame
<1>9. CASE UNCHANGED vars
  BY <1>1, <1>9 DEF vars
<1>10. QED
  BY <1>2, <1>3, <1>4, <1>5, <1>6, <1>7, <1>8, <1>9 DEF Next

\* The limit Redis enforces is the one of the ticket row.
LimitLoaded == \A t \in warm : limit[t] = MaxPerUser[t]

\* Before the first request nothing is held.
LEMMA HeldInit ==
  ASSUME Init
  PROVE  Held = {} /\ warm = {}
BY DEF Init, InventoryInit, Held, Running

\* The units of a user's requests, one ticket type at a time, are what
\* the script counts and bounds: it holds for any faults and any reopening.
THEOREM UserLimitHolds == Spec => []UserLimit
<1> DEFINE Inv == LimitLoaded /\ UserLimit
<1>1. Init => Inv
  <2> SUFFICES ASSUME Init PROVE Inv
    OBVIOUS
  <2>1. ASSUME NEW t \in Tickets, NEW u \in Users
        PROVE  /\ bought[<<t, u>>] = Quantity(OfUser(OfTicket(Held, t), u))
               /\ Quantity(OfUser(OfTicket(Held, t), u)) <= MaxPerUser[t]
    <3>1. OfUser(OfTicket(Held, t), u) = {}
      BY HeldInit DEF OfTicket, OfUser
    <3>2. Quantity(OfUser(OfTicket(Held, t), u)) = 0
      BY <3>1, QuantityEmpty, Zenon
    <3>3. bought[<<t, u>>] = 0
      BY DEF Init, InventoryInit
    <3>4. 0 <= MaxPerUser[t]
      BY MaxPerUserAssumption
    <3>5. QED
      BY <3>2, <3>3, <3>4
  <2>2. LimitLoaded
    BY HeldInit DEF LimitLoaded
  <2>3. QED
    BY <2>1, <2>2 DEF UserLimit
<1>2. TypeOK /\ Inv /\ [Next]_vars => Inv'
  <2> SUFFICES ASSUME TypeOK, Inv, [Next]_vars PROVE Inv'
    OBVIOUS
  <2> USE DEF OfBoth
  <2>1. CASE HeldSame
    BY <2>1 DEF HeldSame, inventoryVars, LimitLoaded, UserLimit
  <2>2. CASE HeldGrows
    <3>1. PICK r \in Requests \ Held : DecreStock(r) /\ Held' = Held \cup {r}
      BY <2>2 DEF HeldGrows
    <3>2. LimitLoaded'
      BY <3>1 DEF DecreStock, LimitLoaded
    <3>3. ASSUME NEW t \in Tickets, NEW u \in Users
          PROVE  /\ bought'[<<t, u>>] = Quantity(OfBoth(Held', t, u))
                 /\ Quantity(OfBoth(Held', t, u)) <= MaxPerUser[t]
      <4>1. /\ bought[<<t, u>>] = Quantity(OfBoth(Held, t, u))
            /\ Quantity(OfBoth(Held, t, u)) <= MaxPerUser[t]
        BY DEF UserLimit
      <4>2. Quantity(OfBoth(Held', t, u)) =
              IF <<t, u>> = <<r.ticket, r.user>> THEN Quantity(OfBoth(Held, t, u)) + r.quantity
                                                 ELSE Quantity(OfBoth(Held, t, u))
        BY <3>1, BothAdd, HeldRequests
      <4>3. CASE <<t, u>> = <<r.ticket, r.user>>
        <5>1. bought'[<<t, u>>] = bought[<<t, u>>] + r.quantity
          BY <3>1, <4>3, RequestFields DEF TypeOK, InventoryTypeOK, DecreStock, Holder
        <5>2. bought[<<t, u>>] + r.quantity <= MaxPerUser[t]
          BY <3>1, <4>3 DEF DecreStock, CanDecre, Holder, LimitLoaded
        <5>3. QED
          BY <4>1, <4>2, <4>3, <5>1, <5>2
      <4>4. CASE <<t, u>> # <<r.ticket, r.user>>
        <5>1. bought'[<<t, u>>] = bought[<<t, u>>]
          BY <3>1, <4>4 DEF TypeOK, InventoryTypeOK, DecreStock, Holder
        <5>2. QED
          BY <4>1, <4>2, <4>4, <5>1
      <4>5. QED
        BY <4>3, <4>4
    <3>4. QED
      BY <3>2, <3>3 DEF UserLimit
  <2>3. CASE HeldShrinks
    <3>1. PICK r \in Held : RollbackStock(r) /\ Held' = Held \ {r}
      BY <2>3 DEF HeldShrinks
    <3>2. r \in Requests
      BY DEF Held
    <3>3. LimitLoaded'
      BY <3>1 DEF RollbackStock, LimitLoaded
    <3>4. ASSUME NEW t \in Tickets, NEW u \in Users
          PROVE  /\ bought'[<<t, u>>] = Quantity(OfBoth(Held', t, u))
                 /\ Quantity(OfBoth(Held', t, u)) <= MaxPerUser[t]
      <4>1. /\ bought[<<t, u>>] = Quantity(OfBoth(Held, t, u))
            /\ Quantity(OfBoth(Held, t, u)) <= MaxPerUser[t]
        BY DEF UserLimit
      <4>2. Quantity(OfBoth(Held', t, u)) =
              IF <<t, u>> = <<r.ticket, r.user>> THEN Quantity(OfBoth(Held, t, u)) - r.quantity
                                                 ELSE Quantity(OfBoth(Held, t, u))
        BY <3>1, BothRemove, HeldRequests
      <4>3. Quantity(OfBoth(Held, t, u)) \in Nat /\ MaxPerUser[t] \in Nat
        BY UnitsFinite, MaxPerUserAssumption DEF Held, OfTicket, OfUser
      <4>4. CASE <<t, u>> = <<r.ticket, r.user>>
        <5>1. bought'[<<t, u>>] = bought[<<t, u>>] - r.quantity
          BY <3>1, <3>2, <4>4, RequestFields DEF TypeOK, InventoryTypeOK, RollbackStock, Holder
        <5>2. QED
          BY <3>2, <4>1, <4>2, <4>3, <4>4, <5>1, RequestFields
      <4>5. CASE <<t, u>> # <<r.ticket, r.user>>
        <5>1. bought'[<<t, u>>] = bought[<<t, u>>]
          BY <3>1, <4>5 DEF TypeOK, InventoryTypeOK, RollbackStock, Holder
        <5>2. QED
          BY <4>1, <4>2, <4>5, <5>1
      <4>6. QED
        BY <4>4, <4>5
    <3>5. QED
      BY <3>3, <3>4 DEF UserLimit
  <2>4. CASE SaleOpens
    BY <2>4 DEF SaleOpens, WarmUpInventory, TypeOK, InventoryTypeOK, LimitLoaded, UserLimit
  <2>5. QED
    BY <2>1, <2>2, <2>3, <2>4, HeldStep
<1>3. QED
  BY <1>1, <1>2, TypeCorrect, PTL DEF Spec

\* What makes StockConserved inductive: nothing is held before the sale of a
\* ticket type opens, and the stock Redis has left is never negative.
HeldOnSale == \A r \in Held : r.ticket \in warm
StockLeft == \A t \in warm : stock[t] >= 0

FrontInv == HeldOnSale /\ StockLeft /\ StockConserved

\* They hold before anything is sold.
LEMMA FrontInvInit == Init => FrontInv
BY HeldInit DEF FrontInv, HeldOnSale, StockLeft, StockConserved

\* And every step keeps them: units move between stock and the holders.
LEMMA FrontInvStep ==
  ASSUME ~Reopening, TypeOK, FrontInv, [Next]_vars
  PROVE  FrontInv'
<1>1. CASE HeldSame
  BY <1>1 DEF HeldSame, inventoryVars, FrontInv, HeldOnSale, StockLeft, StockConserved
<1>2. CASE HeldGrows
  <2>1. PICK r \in Requests \ Held : DecreStock(r) /\ Held' = Held \cup {r}
    BY <1>2 DEF HeldGrows
  <2>2. HeldOnSale'
    BY <2>1 DEF DecreStock, CanDecre, FrontInv, HeldOnSale
  <2>3. ASSUME NEW t \in warm
        PROVE  stock'[t] >= 0 /\ stock'[t] + Quantity(OfTicket(Held', t)) = TotalStock[t]
    <3>1. /\ t \in Tickets /\ stock[t] \in Int /\ stock[t] >= 0
          /\ stock[t] + Quantity(OfTicket(Held, t)) = TotalStock[t]
      BY DEF TypeOK, InventoryTypeOK, FrontInv, StockLeft, StockConserved
    <3>2. Quantity(OfTicket(Held', t)) =
            IF t = r.ticket THEN Quantity(OfTicket(Held, t)) + r.quantity
                            ELSE Quantity(OfTicket(Held, t))
      BY <2>1, <3>1, TicketAdd, HeldRequests
    <3>3. Quantity(OfTicket(Held, t)) \in Nat
      BY UnitsFinite DEF Held, OfTicket
    <3>4. stock'[t] = IF t = r.ticket THEN stock[t] - r.quantity ELSE stock[t]
      BY <2>1, <3>1 DEF TypeOK, InventoryTypeOK, DecreStock
    <3>5. t = r.ticket => stock[t] >= r.quantity
      BY <2>1 DEF DecreStock, CanDecre
    <3>6. QED
      BY <2>1, <3>1, <3>2, <3>3, <3>4, <3>5, RequestFields
  <2>4. warm' = warm
    BY <2>1 DEF DecreStock
  <2>5. QED
    BY <2>2, <2>3, <2>4 DEF FrontInv, StockLeft, StockConserved
<1>3. CASE HeldShrinks
  <2>1. PICK r \in Held : RollbackStock(r) /\ Held' = Held \ {r}
    BY <1>3 DEF HeldShrinks
  <2>2. r \in Requests
    BY DEF Held
  <2>3. HeldOnSale'
    BY <2>1 DEF RollbackStock, FrontInv, HeldOnSale
  <2>4. ASSUME NEW t \in warm
        PROVE  stock'[t] >= 0 /\ stock'[t] + Quantity(OfTicket(Held', t)) = TotalStock[t]
    <3>1. /\ t \in Tickets /\ stock[t] \in Int /\ stock[t] >= 0
          /\ stock[t] + Quantity(OfTicket(Held, t)) = TotalStock[t]
      BY DEF TypeOK, InventoryTypeOK, FrontInv, StockLeft, StockConserved
    <3>2. Quantity(OfTicket(Held', t)) =
            IF t = r.ticket THEN Quantity(OfTicket(Held, t)) - r.quantity
                            ELSE Quantity(OfTicket(Held, t))
      <4>1. Held \in SUBSET Requests
        BY HeldRequests
      <4>2. Quantity(OfTicket(Held \ {r}, t)) =
              IF t = r.ticket THEN Quantity(OfTicket(Held, t)) - r.quantity
                              ELSE Quantity(OfTicket(Held, t))
        BY <3>1, <4>1, TicketRemove
      <4>3. QED
        BY <2>1, <4>2
    <3>3. Quantity(OfTicket(Held, t)) \in Nat
      BY UnitsFinite DEF Held, OfTicket
    <3>4. stock'[t] = IF t = r.ticket THEN stock[t] + r.quantity ELSE stock[t]
      BY <2>1, <3>1 DEF TypeOK, InventoryTypeOK, RollbackStock
    <3>5. QED
      BY <2>2, <3>1, <3>2, <3>3, <3>4, RequestFields
  <2>5. warm' = warm
    BY <2>1 DEF RollbackStock
  <2>6. QED
    BY <2>3, <2>4, <2>5 DEF FrontInv, StockLeft, StockConserved
<1>4. CASE SaleOpens
  <2>1. PICK t \in Tickets :
          t \notin warm /\ WarmUpInventory(t, TotalStock[t], MaxPerUser[t]) /\ Held' = Held
    BY <1>4 DEF SaleOpens
  <2>2. HeldOnSale'
    BY <2>1 DEF WarmUpInventory, FrontInv, HeldOnSale
  <2>3. stock'[t] = TotalStock[t] /\ TotalStock[t] \in Nat
    BY <2>1, TotalStockAssumption DEF TypeOK, InventoryTypeOK, WarmUpInventory
  <2>4. Quantity(OfTicket(Held', t)) = 0
    <3>1. OfTicket(Held', t) = {}
      BY <2>1 DEF OfTicket, FrontInv, HeldOnSale
    <3>2. QED
      BY <3>1, QuantityEmpty, Zenon
  <2>5. ASSUME NEW u \in warm
        PROVE  stock'[u] >= 0 /\ stock'[u] + Quantity(OfTicket(Held', u)) = TotalStock[u]
    BY <2>1 DEF TypeOK, InventoryTypeOK, WarmUpInventory, FrontInv, StockLeft, StockConserved
  <2>6. warm' = warm \cup {t}
    BY <2>1 DEF WarmUpInventory
  <2>7. QED
    BY <2>2, <2>3, <2>4, <2>5, <2>6 DEF FrontInv, StockLeft, StockConserved
<1>5. QED
  BY <1>1, <1>2, <1>3, <1>4, HeldStep

\* Redis never makes up or loses a unit, whatever fails and whenever the process
\* dies, as long as the sale of a ticket type is opened once.
THEOREM StockConservedHolds ==
  ASSUME ~Reopening
  PROVE  Spec => []StockConserved
<1>1. TypeOK /\ FrontInv /\ [Next]_vars => FrontInv'
  BY FrontInvStep
<1>2. FrontInv => StockConserved
  BY DEF FrontInv
<1>3. QED
  BY <1>1, <1>2, FrontInvInit, TypeCorrect, PTL DEF Spec

\* Orders that hold units of the Redis inventory fit the stock,
LEMMA HeldWithinStock ==
  ASSUME TypeOK, FrontInv, NEW S \in SUBSET Held, NEW t \in Tickets
  PROVE  Quantity(OfTicket(S, t)) <= TotalStock[t]
<1>1. OfTicket(Held, t) \in SUBSET Requests /\ OfTicket(S, t) \in SUBSET OfTicket(Held, t)
  BY DEF Held, OfTicket
<1>2. Quantity(OfTicket(S, t)) \in Nat /\ Quantity(OfTicket(Held, t)) \in Nat
  BY <1>1, UnitsFinite
<1>3. Quantity(OfTicket(S, t)) <= Quantity(OfTicket(Held, t))
  BY <1>1, QuantityMonotone
<1>4. TotalStock[t] \in Nat
  BY TotalStockAssumption
<1>5. CASE t \in warm
  <2>1. stock[t] \in Nat /\ stock[t] + Quantity(OfTicket(Held, t)) = TotalStock[t]
    BY <1>5 DEF TypeOK, InventoryTypeOK, FrontInv, StockConserved
  <2>2. QED
    BY <1>2, <1>3, <1>4, <2>1
<1>6. CASE t \notin warm
  <2>1. OfTicket(S, t) = {}
    BY <1>6 DEF OfTicket, FrontInv, HeldOnSale
  <2>2. Quantity(OfTicket(S, t)) = 0
    BY <2>1, QuantityEmpty, Zenon
  <2>3. QED
    BY <1>4, <2>2
<1>7. QED
  BY <1>5, <1>6

\* and the limit of every user.
LEMMA HeldWithinLimit ==
  ASSUME UserLimit, NEW S \in SUBSET Held, NEW t \in Tickets, NEW u \in Users
  PROVE  Quantity(OfUser(OfTicket(S, t), u)) <= MaxPerUser[t]
<1> DEFINE L == OfUser(OfTicket(S, t), u)
           H == OfUser(OfTicket(Held, t), u)
<1>1. H \in SUBSET Requests /\ L \in SUBSET H /\ L \in SUBSET Requests
  BY DEF OfTicket, OfUser, Held
<1>2. Quantity(H) \in Nat /\ Quantity(L) \in Nat
  BY <1>1, UnitsFinite
<1>3. Quantity(L) <= Quantity(H)
  BY <1>1, QuantityMonotone
<1>4. Quantity(H) <= MaxPerUser[t]
  BY Zenon DEF UserLimit
<1>5. MaxPerUser[t] \in Nat
  BY MaxPerUserAssumption
<1>6. QED
  BY <1>2, <1>3, <1>4, <1>5

\* The orders answered 201 fit the stock that was put on sale, whatever fails and
\* however the handlers interleave, as long as the sale of a ticket type opens once.
THEOREM AcceptedFitsHolds ==
  ASSUME ~Reopening
  PROVE  Spec => []AcceptedFits
<1>1. TypeOK /\ FrontInv => AcceptedFits
  <2>1. Created \subseteq Held
    BY DEF Created, Held
  <2>2. QED
    BY <2>1, HeldWithinStock DEF AcceptedFits
<1>2. TypeOK /\ FrontInv /\ [Next]_vars => FrontInv'
  BY FrontInvStep
<1>3. QED
  BY <1>1, <1>2, FrontInvInit, TypeCorrect, PTL DEF Spec

-----------------------------------------------------------------------------
(* The Redis inventory as a box office.                                    *)

\* The orders that hold units of the Redis inventory fit the stock and the limits.
HeldFits == Front!Fits(Held)

\* It follows from the invariants of the inventory.
LEMMA HeldFitsHolds ==
  ASSUME TypeOK, FrontInv, UserLimit
  PROVE  HeldFits
<1>1. /\ \A S : Front!Quantity(S) = Quantity(S)
      /\ \A S, t : Front!OfTicket(S, t) = OfTicket(S, t)
      /\ \A S, u : Front!OfUser(S, u) = OfUser(S, u)
  BY Zenon DEF Front!Quantity, Front!Units, Front!OfTicket, Front!OfUser,
               Front!Cardinality, Quantity, Units, OfTicket, OfUser, Cardinality
<1>2. Held \in SUBSET Held
  OBVIOUS
<1>3. QED
  BY <1>1, <1>2, HeldWithinStock, HeldWithinLimit, Zenon DEF HeldFits, Front!Fits

\* The reservations in Redis behave as a box office: no failure, crash or
\* interleaving of PrepareOrder grants units that are not there, gives more than
\* the limit to a user, or brings back a request that was turned away.
THEOREM FrontRefinesBoxOffice ==
  ASSUME ~Reopening
  PROVE  Spec => FrontIsBoxOffice
<1>1. Init => Front!Init
  BY HeldInit DEF Init, Front!Init, TurnedAway
<1>2. TypeOK /\ HeldFits' /\ [Next]_vars => [Front!Next]_(Front!vars)
  <2> SUFFICES ASSUME TypeOK, HeldFits', [Next]_vars
               PROVE  [Front!Next]_(Front!vars)
    OBVIOUS
  <2>1. CASE HeldSame
    <3>1. CASE TurnedAway' = TurnedAway
      BY <2>1, <3>1 DEF HeldSame, Front!vars
    <3>2. CASE \E r \in Requests \ (Held \cup TurnedAway) :
                 TurnedAway' = TurnedAway \cup {r}
      <4>1. PICK r \in Requests \ (Held \cup TurnedAway) :
                   TurnedAway' = TurnedAway \cup {r}
        BY <3>2
      <4>2. Front!Close(r)
        BY <2>1, <4>1 DEF HeldSame, Front!Close
      <4>3. QED
        BY <4>2 DEF Front!Next
    <3>3. QED
      BY <2>1, <3>1, <3>2 DEF HeldSame
  <2>2. CASE HeldGrows
    <3>1. PICK r \in Requests \ (Held \cup TurnedAway) :
                 Held' = Held \cup {r} /\ TurnedAway' = TurnedAway
      BY <2>2 DEF HeldGrows
    <3>2. Front!Fits(Held \cup {r})
      BY <3>1, Zenon DEF HeldFits
    <3>3. Front!Grant(r)
      BY <3>1, <3>2 DEF Front!Grant
    <3>4. QED
      BY <3>3 DEF Front!Next
  <2>3. CASE HeldShrinks
    <3>1. PICK r \in Held \ TurnedAway :
                 Held' = Held \ {r} /\ TurnedAway' = TurnedAway \cup {r}
      BY <2>3 DEF HeldShrinks
    <3>2. r \in Requests /\ Front!Close(r)
      BY <3>1 DEF Held, Front!Close
    <3>3. QED
      BY <3>2 DEF Front!Next
  <2>4. CASE SaleOpens
    BY <2>4 DEF SaleOpens, Front!vars
  <2>5. QED
    BY <2>1, <2>2, <2>3, <2>4, HeldStep
<1>3. TypeOK /\ FrontInv /\ UserLimit => HeldFits
  BY HeldFitsHolds
<1>4. TypeOK /\ FrontInv /\ [Next]_vars => FrontInv'
  BY FrontInvStep
<1>5. QED
  BY <1>1, <1>2, <1>3, <1>4, FrontInvInit, TypeCorrect, UserLimitHolds, PTL
  DEF Spec, FrontIsBoxOffice, Front!Spec
=============================================================================
