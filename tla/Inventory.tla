------------------------------ MODULE Inventory ------------------------------
(***************************************************************************)
(* The Redis inventory of internal/cache/ticket_inventory.go: for each     *)
(* ticket type a hash with the units left and the per-user limit, and a    *)
(* hash with the units each user has bought. Every operation is one HSET   *)
(* or one Lua script, so it is one step.                                   *)
(***************************************************************************)
EXTENDS Orders

VARIABLES
    warm,    \* ticket types whose info hash exists
    stock,   \* ticket:<id>:info, field stock
    limit,   \* ticket:<id>:info, field limit
    bought   \* ticket:<id>:users, the field of each user

inventoryVars == <<warm, stock, limit, bought>>

InventoryTypeOK ==
    /\ warm \subseteq Tickets
    /\ stock \in [Tickets -> Nat]
    /\ limit \in [Tickets -> Nat]
    /\ bought \in [Tickets \X Users -> Int]

InventoryInit ==
    /\ warm = {}
    /\ stock = [t \in Tickets |-> 0]
    /\ limit = [t \in Tickets |-> 0]
    /\ bought = [b \in Tickets \X Users |-> 0]

Holder(r) == <<r.ticket, r.user>>

\* HSET replaces the three fields of the info hash and leaves the users hash alone
WarmUpInventory(t, units, max) ==
    /\ warm' = warm \cup {t}
    /\ stock' = [stock EXCEPT ![t] = units]
    /\ limit' = [limit EXCEPT ![t] = max]
    /\ UNCHANGED bought

\* Slip: the stock is only checked to be there
CanDecreWhileAny(r) ==
    /\ r.ticket \in warm
    /\ stock[r.ticket] > 0
    /\ bought[Holder(r)] + r.quantity <= limit[r.ticket]

\* Slip: the limit is compared before the new units are added
CanDecreAtLimit(r) ==
    /\ r.ticket \in warm
    /\ stock[r.ticket] >= r.quantity
    /\ bought[Holder(r)] <= limit[r.ticket]

\* The script answers -3, -1 or -2 when the first, second or third of these fails
CanDecre(r) ==
    /\ r.ticket \in warm
    /\ stock[r.ticket] >= r.quantity
    /\ bought[Holder(r)] + r.quantity <= limit[r.ticket]

DecreStock(r) ==
    /\ CanDecre(r)
    /\ stock' = [stock EXCEPT ![r.ticket] = @ - r.quantity]
    /\ bought' = [bought EXCEPT ![Holder(r)] = @ + r.quantity]
    /\ UNCHANGED <<warm, limit>>

\* Slip: the users hash is forgotten
RollbackStockOnly(r) ==
    /\ stock' = [stock EXCEPT ![r.ticket] = @ + r.quantity]
    /\ UNCHANGED <<warm, limit, bought>>

\* Unconditional: it does not look at what the user holds
RollbackStock(r) ==
    /\ stock' = [stock EXCEPT ![r.ticket] = @ + r.quantity]
    /\ bought' = [bought EXCEPT ![Holder(r)] = @ - r.quantity]
    /\ UNCHANGED <<warm, limit>>
=============================================================================
