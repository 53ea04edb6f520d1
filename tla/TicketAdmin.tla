----------------------------- MODULE TicketAdmin -----------------------------
(***************************************************************************)
(* Administration of the ticket types of one event, and OpenForSale, which *)
(* copies them to Redis one after the other while they may be updated and  *)
(* deleted, and while another OpenForSale may be under way.                *)
(*                                                                         *)
(* The stock, which a ticket type is created with and which only sales     *)
(* change in Redis, is left to TicketSale.                                 *)
(*                                                                         *)
(* A price or a limit is represented by the number of the write that set   *)
(* it: what matters here is which one is newer, not what it is. The order  *)
(* of the rows is left out: OpenForSale copies what it has read in any     *)
(* order, one HSET after the other.                                        *)
(***************************************************************************)
EXTENDS Naturals

CONSTANTS
    Tickets,    \* ticket types the administrator creates
    Sessions,   \* requests to POST /events/:uuid/open-for-sale, reused in turn
    MaxWrites   \* bound on the number of creations and updates

ASSUME MaxWritesAssumption == MaxWrites \in Nat

VARIABLES
    created,   \* rows of the tickets table
    row,       \* price and max_per_user of each row
    deleted,   \* rows with a deleted_at
    writes,    \* number of writes so far
    info,      \* price and limit in the info hash of each ticket type in Redis
    warm,      \* ticket types whose info hash exists
    phase,     \* where OpenForSale is in each session
    todo,      \* ticket types it has still to copy, as ListByEventID read them
    listed,    \* history: what ListByEventID read
    overtaken, \* history: sessions that listed while an older one was under way
    gone,      \* history: rows deleted before any OpenForSale had read them
    past       \* history: what each row has been

adminVars == <<created, row, deleted, writes, gone, past>>
openVars == <<phase, todo, listed, overtaken>>
vars == <<adminVars, openVars, info, warm>>

Writes == 0..MaxWrites
Terms == [price : Writes, limit : Writes]
Copy == [ticket : Tickets, terms : Terms]
Phases == {"idle", "warming", "opened", "failed"}

\* Every variable has its type; only rows that exist are deleted.
TypeOK ==
    /\ created \subseteq Tickets /\ deleted \subseteq created
    /\ row \in [Tickets -> Terms] /\ writes \in Writes
    /\ info \in [Tickets -> Terms]
    /\ warm \subseteq Tickets
    /\ phase \in [Sessions -> Phases]
    /\ todo \in [Sessions -> SUBSET Copy] /\ listed \in [Sessions -> SUBSET Copy]
    /\ overtaken \subseteq Sessions
    /\ gone \subseteq deleted
    /\ past \in [Tickets -> SUBSET Terms]

NoTerms == [price |-> 0, limit |-> 0]

Init ==
    /\ created = {} /\ deleted = {} /\ writes = 0
    /\ row = [t \in Tickets |-> NoTerms]
    /\ info = [t \in Tickets |-> NoTerms]
    /\ warm = {}
    /\ phase = [s \in Sessions |-> "idle"]
    /\ todo = [s \in Sessions |-> {}]
    /\ listed = [s \in Sessions |-> {}]
    /\ overtaken = {}
    /\ gone = {}
    /\ past = [t \in Tickets |-> {}]

-----------------------------------------------------------------------------
(* The tickets table.                                                      *)

Write(t, terms) ==
    /\ writes < MaxWrites
    /\ writes' = writes + 1
    /\ row' = [row EXCEPT ![t] = terms]
    /\ past' = [past EXCEPT ![t] = @ \cup {terms}]
    /\ UNCHANGED <<deleted, gone, openVars, info, warm>>

CreateTicket(t) ==
    /\ t \notin created
    /\ created' = created \cup {t}
    /\ Write(t, [price |-> writes + 1, limit |-> writes + 1])

\* Slip: that the row exists is not looked at
OnSaleUnlessDeleted(t) == t \notin deleted

OnSale(t) == t \in created \ deleted

\* Any of the fields that the request names; Redis is not told
UpdateTicket(t) ==
    /\ OnSale(t)
    /\ \E fields \in SUBSET {"price", "limit"} \ {{}} :
        Write(t, [f \in {"price", "limit"} |-> IF f \in fields THEN writes + 1 ELSE row[t][f]])
    /\ UNCHANGED created

DeleteTicket(t) ==
    /\ OnSale(t)
    /\ deleted' = deleted \cup {t}
    /\ gone' = IF t \in warm \/ \E s \in Sessions : \E c \in todo[s] : c.ticket = t
               THEN gone ELSE gone \cup {t}
    /\ UNCHANGED <<created, row, writes, past, openVars, info, warm>>

-----------------------------------------------------------------------------
(* EventService.OpenForSale.                                               *)

AsRow(t) == [ticket |-> t, terms |-> row[t]]

\* Slip: deleted_at is not looked at
EveryRow == {AsRow(t) : t \in created}

\* WHERE deleted_at IS NULL
ListByEventID == {AsRow(t) : t \in created \ deleted}

ListTickets(s) ==
    /\ phase[s] # "warming"
    /\ phase' = [phase EXCEPT ![s] = "warming"]
    /\ todo' = [todo EXCEPT ![s] = ListByEventID]
    /\ listed' = [listed EXCEPT ![s] = ListByEventID]
    /\ overtaken' = IF \E u \in Sessions : phase[u] = "warming"
                    THEN overtaken \cup {s} ELSE overtaken \ {s}
    /\ UNCHANGED <<adminVars, info, warm>>

\* Slip: the price and the limit are two commands, and the second one is lost
HSetPrice(c) ==
    /\ info' = [info EXCEPT ![c.ticket].price = c.terms.price]
    /\ warm' = warm \cup {c.ticket}

\* WarmUpInventory: one HSET of stock, price and limit
HSet(c) ==
    /\ info' = [info EXCEPT ![c.ticket] = c.terms]
    /\ warm' = warm \cup {c.ticket}

WarmUp(s) ==
    /\ phase[s] = "warming"
    /\ \E c \in todo[s] :
        /\ HSet(c)
        /\ todo' = [todo EXCEPT ![s] = @ \ {c}]
    /\ UNCHANGED <<adminVars, phase, listed, overtaken>>

\* Slip: the loop goes on to the next ticket type
WarmUpSkips(s) ==
    /\ phase[s] = "warming"
    /\ \E c \in todo[s] : todo' = [todo EXCEPT ![s] = @ \ {c}]
    /\ UNCHANGED <<adminVars, phase, listed, overtaken, info, warm>>

\* HSET did not run, or its reply was lost: the rest is given up
WarmUpFails(s) ==
    /\ phase[s] = "warming"
    /\ \E c \in todo[s] : HSet(c) \/ UNCHANGED <<info, warm>>
    /\ phase' = [phase EXCEPT ![s] = "failed"]
    /\ todo' = [todo EXCEPT ![s] = {}]
    /\ UNCHANGED <<adminVars, listed, overtaken>>

Opened(s) ==
    /\ phase[s] = "warming" /\ todo[s] = {}
    /\ phase' = [phase EXCEPT ![s] = "opened"]
    /\ UNCHANGED <<adminVars, todo, listed, overtaken, info, warm>>

Next ==
    \/ \E t \in Tickets :
        CreateTicket(t) \/ UpdateTicket(t) \/ DeleteTicket(t)
    \/ \E s \in Sessions : ListTickets(s) \/ WarmUp(s) \/ WarmUpFails(s) \/ Opened(s)

Spec == Init /\ [][Next]_vars

-----------------------------------------------------------------------------
\* What Redis sells with is what the row was at one time: never the price of one
\* version of a ticket type and the limit of another, however updates and openings
\* interleave.
TermsTogether == \A t \in warm : info[t] \in past[t]

NotOlder(x, y) == x.price >= y.price /\ x.limit >= y.limit

\* When OpenForSale has answered that the event is open, every ticket type it has
\* read can be ordered, with terms at least as new as those it has read - unless an
\* older OpenForSale was under way, which may put older terms back.
OpenedServes ==
    \A s \in Sessions : phase[s] = "opened" =>
        \A c \in listed[s] :
            /\ c.ticket \in warm
            /\ s \notin overtaken => NotOlder(info[c.ticket], c.terms)

\* A ticket type that is deleted before any OpenForSale has read it never goes on sale.
OffSale == gone \cap warm = {}
=============================================================================
