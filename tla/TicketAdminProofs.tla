------------------------- MODULE TicketAdminProofs -------------------------
(***************************************************************************)
(* What OpenForSale leaves in Redis, for any ticket types, any number of   *)
(* concurrent openings and any number of updates.                          *)
(*                                                                         *)
(* OpenedServes compares what is in Redis with what an opening has read.   *)
(* It needs to know that no copy which is still to be written by anybody   *)
(* is older than that, and hence that rows only ever get newer.            *)
(***************************************************************************)
EXTENDS TicketAdmin, TLAPS

\* A session that is not copying has nothing to copy.
LoopOf(s) == phase[s] = "warming" \/ todo[s] = {}

\* What is copied, or still to be copied, is what a row once was.
Provenance ==
    /\ \A t \in created : row[t] \in past[t]
    /\ \A s \in Sessions : \A c \in todo[s] : c.terms \in past[c.ticket]
    /\ TermsTogether

\* A row that was deleted unread is in no snapshot.
NotCopied ==
    /\ \A s \in Sessions : \A c \in todo[s] : c.ticket \in created \ gone
    /\ OffSale

\* A snapshot has one copy of each ticket type, no newer than its row.
Snapshots ==
    \A s \in Sessions :
        /\ LoopOf(s)
        /\ todo[s] \subseteq listed[s]
        /\ \A c, d \in listed[s] : c.ticket = d.ticket => c = d
        /\ \A c \in listed[s] : NotOlder(row[c.ticket], c.terms)

\* No row has a field of a write that is still to come.
RowsWritten == \A t \in Tickets : row[t].price <= writes /\ row[t].limit <= writes

\* A session that copies, or has copied everything.
Active(s) == phase[s] \in {"warming", "opened"}

\* What another session has still to copy is no older than what an opening that is not
\* overtaken has read: that session has listed later.
LaterNewer ==
    \A s, u \in Sessions :
        s # u /\ Active(s) /\ s \notin overtaken =>
            \A c \in listed[s], d \in todo[u] :
                c.ticket = d.ticket => NotOlder(d.terms, c.terms)

\* What a session has copied is on sale, with terms that are new enough.
Serves(s, c) ==
    /\ c.ticket \in warm
    /\ s \notin overtaken => NotOlder(info[c.ticket], c.terms)

Copied == \A s \in Sessions : Active(s) => \A c \in listed[s] \ todo[s] : Serves(s, c)

IInv ==
    /\ TypeOK
    /\ Provenance
    /\ NotCopied
    /\ Snapshots
    /\ RowsWritten
    /\ LaterNewer
    /\ Copied

\* The invariant holds of an empty table and an empty Redis.
LEMMA InitInvariant == Init => IInv
BY MaxWritesAssumption
   DEF Init, IInv, TypeOK, NoTerms, Terms, Writes, Phases, Provenance, TermsTogether, NotCopied,
       OffSale, Snapshots, LoopOf, RowsWritten, LaterNewer, Active, Copied

-----------------------------------------------------------------------------
(* The tickets table.                                                      *)

\* A write that makes one row newer in every field it changes, and the table longer by
\* at most that row, keeps the invariant.
LEMMA WriteStep ==
  ASSUME IInv, NEW t \in Tickets, NEW terms \in Terms', Write(t, terms), TypeOK',
         created' = created \cup {t},
         NotOlder(terms, row[t]), terms.price <= writes', terms.limit <= writes'
  PROVE  IInv'
<1> USE DEF IInv
<1>1. /\ UNCHANGED <<deleted, gone, phase, todo, listed, overtaken, info, warm>>
      /\ row' = [row EXCEPT ![t] = terms]
      /\ past' = [past EXCEPT ![t] = @ \cup {terms}]
      /\ writes \in Nat /\ writes' = writes + 1
  BY MaxWritesAssumption DEF Write, openVars, TypeOK, Writes
<1>2. /\ row'[t] = terms /\ past'[t] = past[t] \cup {terms}
      /\ \A u \in Tickets \ {t} : row'[u] = row[u] /\ past'[u] = past[u]
  BY <1>1 DEF TypeOK
<1>3. \A u \in Tickets : past[u] \subseteq past'[u]
  BY <1>2
<1>4. \A s \in Sessions : \A c \in listed[s] \cup todo[s] : c.ticket \in Tickets /\ c.terms \in Terms
  BY DEF TypeOK, Copy
<1>5. Provenance'
  <2>1. \A u \in created' : row'[u] \in past'[u]
    BY <1>2, <1>3 DEF Provenance, TypeOK
  <2>2. \A s \in Sessions : \A c \in todo'[s] : c.terms \in past'[c.ticket]
    BY <1>1, <1>3, <1>4 DEF Provenance
  <2>3. TermsTogether'
    BY <1>1, <1>3 DEF Provenance, TermsTogether, TypeOK
  <2>4. QED
    BY <2>1, <2>2, <2>3 DEF Provenance
<1>6. NotCopied'
  BY <1>1 DEF NotCopied, OffSale
<1>7. Snapshots'
  <2>1. \A u \in Tickets : NotOlder(row'[u], row[u])
    BY <1>2 DEF NotOlder, TypeOK, Terms, Writes
  <2>2. \A u \in Tickets : row[u].price \in Nat /\ row[u].limit \in Nat /\ row'[u].price \in Nat /\ row'[u].limit \in Nat
    BY <1>2 DEF TypeOK, Terms, Writes
  <2>3. ASSUME NEW s \in Sessions, NEW c \in listed[s]
        PROVE  NotOlder(row'[c.ticket], c.terms)
    <3>1. NotOlder(row[c.ticket], c.terms) /\ c.ticket \in Tickets /\ c.terms \in Terms
      BY <1>4 DEF Snapshots
    <3>2. c.terms.price \in Nat /\ c.terms.limit \in Nat
      BY <3>1 DEF Terms, Writes
    <3>3. QED
      BY <2>1, <2>2, <3>1, <3>2 DEF NotOlder
  <2>4. QED
    BY <1>1, <2>3 DEF Snapshots, LoopOf
<1>8. RowsWritten'
  BY <1>1, <1>2 DEF RowsWritten, TypeOK, Terms, Writes
<1>9. LaterNewer'
  BY <1>1 DEF LaterNewer, Active
<1>10. Copied'
  BY <1>1 DEF Copied, Serves, Active
<1>11. QED
  BY <1>5, <1>6, <1>7, <1>8, <1>9, <1>10

\* A new row is newer than any that was.
LEMMA CreateStep ==
  ASSUME IInv, NEW t \in Tickets, CreateTicket(t)
  PROVE  IInv'
<1> DEFINE terms == [price |-> writes + 1, limit |-> writes + 1]
<1>1. /\ Write(t, terms) /\ created' = created \cup {t}
      /\ writes \in Nat /\ MaxWrites \in Nat /\ writes < MaxWrites /\ writes' = writes + 1
  BY MaxWritesAssumption DEF CreateTicket, Write, IInv, TypeOK, Writes
<1>2. terms \in Terms
  BY <1>1 DEF Terms, Writes
<1>3. TypeOK'
  BY <1>1, <1>2 DEF Write, openVars, IInv, TypeOK, Writes
<1>4. NotOlder(terms, row[t])
  BY <1>1 DEF IInv, TypeOK, Terms, Writes, RowsWritten, NotOlder
<1>5. QED
  BY <1>1, <1>2, <1>3, <1>4, WriteStep DEF Terms, Writes

\* An update makes the fields it names newer and leaves the others.
LEMMA UpdateStep ==
  ASSUME IInv, NEW t \in Tickets, UpdateTicket(t)
  PROVE  IInv'
<1>1. PICK fields \in SUBSET {"price", "limit"} :
        Write(t, [f \in {"price", "limit"} |-> IF f \in fields THEN writes + 1 ELSE row[t][f]])
  BY DEF UpdateTicket
<1> DEFINE terms == [f \in {"price", "limit"} |-> IF f \in fields THEN writes + 1 ELSE row[t][f]]
<1>2. /\ t \in created /\ created' = created
      /\ writes \in Nat /\ MaxWrites \in Nat /\ writes < MaxWrites /\ writes' = writes + 1
      /\ row[t] \in Terms
  BY <1>1, MaxWritesAssumption DEF UpdateTicket, OnSale, Write, IInv, TypeOK, Writes
<1>3. /\ terms = [price |-> terms["price"], limit |-> terms["limit"]]
      /\ terms["price"] \in {writes + 1, row[t].price}
      /\ terms["limit"] \in {writes + 1, row[t].limit}
  OBVIOUS
<1>4. /\ row[t].price \in Nat /\ row[t].limit \in Nat
      /\ row[t].price <= writes /\ row[t].limit <= writes
  BY <1>2 DEF IInv, RowsWritten, Terms, Writes
<1>5. terms["price"] \in Writes /\ terms["limit"] \in Writes
  BY <1>2, <1>3, <1>4 DEF Writes
<1>6. terms \in Terms
  BY <1>3, <1>5 DEF Terms
<1>7. TypeOK'
  BY <1>1, <1>2, <1>6 DEF Write, openVars, IInv, TypeOK, Writes
<1>8. /\ terms.price <= writes' /\ terms.limit <= writes'
      /\ terms.price >= row[t].price /\ terms.limit >= row[t].limit
  BY <1>2, <1>3, <1>4
<1>9. QED
  BY <1>1, <1>2, <1>6, <1>7, <1>8, WriteStep DEF NotOlder, Terms, Writes

\* A deletion looks for the row in Redis and in every snapshot.
LEMMA DeleteStep ==
  ASSUME IInv, NEW t \in Tickets, DeleteTicket(t)
  PROVE  IInv'
<1> USE DEF IInv
<1>1. /\ deleted' = deleted \cup {t} /\ t \in created \ deleted
      /\ UNCHANGED <<created, row, writes, past, phase, todo, listed, overtaken, info, warm>>
  BY DEF DeleteTicket, OnSale, openVars
<1>2. /\ gone' \subseteq gone \cup {t}
      /\ t \in gone' => t \notin warm /\ \A s \in Sessions : \A c \in todo[s] : c.ticket # t
  BY <1>1 DEF DeleteTicket, TypeOK
<1>3. TypeOK'
  BY <1>1, <1>2 DEF TypeOK
<1>4. NotCopied'
  BY <1>1, <1>2 DEF NotCopied, OffSale
<1>5. Provenance' /\ Snapshots' /\ RowsWritten' /\ LaterNewer' /\ Copied'
  BY <1>1 DEF Provenance, TermsTogether, Snapshots, LoopOf, RowsWritten, LaterNewer, Active, Copied, Serves
<1>6. QED
  BY <1>3, <1>4, <1>5

-----------------------------------------------------------------------------
(* OpenForSale.                                                            *)

\* A session reads the rows as they are, which are newer than what any session has read.
LEMMA ListStep ==
  ASSUME IInv, NEW s \in Sessions, ListTickets(s)
  PROVE  IInv'
<1> USE DEF IInv
<1>1. /\ phase[s] # "warming"
      /\ phase' = [phase EXCEPT ![s] = "warming"]
      /\ todo' = [todo EXCEPT ![s] = ListByEventID]
      /\ listed' = [listed EXCEPT ![s] = ListByEventID]
      /\ UNCHANGED <<created, row, deleted, writes, gone, past, info, warm>>
      /\ overtaken' \ {s} = overtaken \ {s}
      /\ s \notin overtaken' => \A u \in Sessions : phase[u] # "warming"
  BY DEF ListTickets, adminVars
<1>2. /\ phase'[s] = "warming" /\ todo'[s] = ListByEventID /\ listed'[s] = ListByEventID
      /\ \A u \in Sessions \ {s} : phase'[u] = phase[u] /\ todo'[u] = todo[u] /\ listed'[u] = listed[u]
  BY <1>1 DEF TypeOK
<1>3. \A c \in ListByEventID :
        c \in Copy /\ c.ticket \in created \ deleted /\ c.terms = row[c.ticket]
  BY DEF ListByEventID, AsRow, TypeOK, Copy
<1>4. \A c, d \in ListByEventID : c.ticket = d.ticket => c = d
  BY DEF ListByEventID, AsRow
<1>5. \A c \in ListByEventID : NotOlder(row[c.ticket], c.terms)
  BY <1>3 DEF NotOlder, TypeOK, Terms, Writes
<1>6. TypeOK'
  BY <1>1, <1>3 DEF TypeOK, Phases, ListTickets
<1>7. Provenance'
  BY <1>1, <1>2, <1>3 DEF Provenance, TermsTogether
<1>8. NotCopied'
  BY <1>1, <1>2, <1>3 DEF NotCopied, OffSale, TypeOK
<1>9. Snapshots'
  BY <1>1, <1>2, <1>4, <1>5 DEF Snapshots, LoopOf
<1>10. RowsWritten'
  BY <1>1 DEF RowsWritten
<1>11. LaterNewer'
  <2> SUFFICES ASSUME NEW v \in Sessions, NEW u \in Sessions, v # u, Active(v)', v \notin overtaken',
                      NEW c \in listed'[v], NEW d \in todo'[u], c.ticket = d.ticket
               PROVE  NotOlder(d.terms, c.terms)
    BY DEF LaterNewer
  <2>1. CASE v = s
    <3>1. phase[u] # "warming" /\ d \in todo[u]
      BY <1>1, <1>2, <2>1
    <3>2. QED
      BY <3>1 DEF Snapshots, LoopOf
  <2>2. CASE v # s /\ u = s
    BY <1>2, <1>3, <2>2 DEF Snapshots
  <2>3. CASE v # s /\ u # s
    BY <1>1, <1>2, <2>3 DEF LaterNewer, Active
  <2>4. QED
    BY <2>1, <2>2, <2>3
<1>12. Copied'
  BY <1>1, <1>2 DEF Copied, Serves, Active
<1>13. QED
  BY <1>6, <1>7, <1>8, <1>9, <1>10, <1>11, <1>12

\* An HSET by any session leaves what the others have copied new enough, and what it
\* writes is what a row that is not gone once was.
LEMMA HSetStep ==
  ASSUME IInv, NEW s \in Sessions, phase[s] = "warming", NEW c \in todo[s], HSet(c)
  PROVE  /\ info' \in [Tickets -> Terms] /\ warm' \subseteq Tickets
         /\ gone \cap warm' = {}
         /\ \A t \in warm' : info'[t] \in past[t]
         /\ c.ticket \in warm' /\ NotOlder(info'[c.ticket], c.terms)
         /\ \A u \in Sessions : Active(u) => \A d \in listed[u] \ todo[u] :
                /\ d.ticket \in warm'
                /\ u \notin overtaken => NotOlder(info'[d.ticket], d.terms)
<1> USE DEF IInv
<1>1. c.ticket \in Tickets /\ c.terms \in Terms /\ c \in listed[s]
  BY DEF TypeOK, Copy, Snapshots
<1>2. /\ info' = [info EXCEPT ![c.ticket] = c.terms] /\ warm' = warm \cup {c.ticket}
      /\ info'[c.ticket] = c.terms
      /\ \A t \in Tickets \ {c.ticket} : info'[t] = info[t]
  BY <1>1 DEF HSet, TypeOK
<1>3. info' \in [Tickets -> Terms] /\ warm' \subseteq Tickets
  BY <1>1, <1>2 DEF TypeOK
<1>4. gone \cap warm' = {}
  BY <1>2 DEF NotCopied, OffSale
<1>5. \A t \in warm' : info'[t] \in past[t]
  BY <1>2 DEF Provenance, TermsTogether, TypeOK
<1>6. NotOlder(info'[c.ticket], c.terms)
  BY <1>1, <1>2 DEF NotOlder, Terms, Writes
<1>7. ASSUME NEW u \in Sessions, Active(u), NEW d \in listed[u] \ todo[u]
      PROVE  /\ d.ticket \in warm'
             /\ u \notin overtaken => NotOlder(info'[d.ticket], d.terms)
  <2>1. Serves(u, d) /\ d.ticket \in Tickets
    BY <1>7 DEF Copied, TypeOK, Copy
  <2>2. CASE d.ticket # c.ticket
    BY <1>2, <2>1, <2>2 DEF Serves
  <2>3. CASE d.ticket = c.ticket /\ u = s
    <3>1. c = d
      BY <1>1, <2>3, <1>7 DEF Snapshots
    <3>2. QED
      BY <3>1, <2>3, <1>7
  <2>4. CASE d.ticket = c.ticket /\ u # s
    BY <1>2, <1>7, <2>4 DEF LaterNewer
  <2>5. QED
    BY <2>2, <2>3, <2>4
<1>8. QED
  BY <1>2, <1>3, <1>4, <1>5, <1>6, <1>7

\* A session that has copied one ticket type, or gives up, keeps the invariant. What it
\* does not have to copy any more is on sale, unless it has failed.
LEMMA LoopStep ==
  ASSUME IInv, NEW s \in Sessions, phase[s] = "warming",
         UNCHANGED <<adminVars, listed, overtaken>>,
         TypeOK', gone \cap warm' = {}, \A t \in warm' : info'[t] \in past[t],
         \A u \in Sessions \ {s} : phase'[u] = phase[u] /\ todo'[u] = todo[u],
         todo'[s] \subseteq todo[s], phase'[s] = "warming" \/ todo'[s] = {},
         Active(s)' => \A d \in todo[s] \ todo'[s] :
            d.ticket \in warm' /\ NotOlder(info'[d.ticket], d.terms),
         \A u \in Sessions : Active(u) => \A d \in listed[u] \ todo[u] :
            /\ d.ticket \in warm'
            /\ u \notin overtaken => NotOlder(info'[d.ticket], d.terms)
  PROVE  IInv'
<1> USE DEF IInv, adminVars
<1>1. Provenance'
  BY DEF Provenance, TermsTogether
<1>2. NotCopied'
  BY DEF NotCopied, OffSale
<1>3. Snapshots' /\ RowsWritten'
  BY DEF Snapshots, LoopOf, RowsWritten
<1>4. LaterNewer'
  BY DEF LaterNewer, Active
<1>5. Copied'
  BY DEF Copied, Serves, Active
<1>6. QED
  BY <1>1, <1>2, <1>3, <1>4, <1>5

\* One HSET of the loop.
LEMMA WarmUpStep ==
  ASSUME IInv, NEW s \in Sessions, WarmUp(s)
  PROVE  IInv'
<1>1. PICK c \in todo[s] : HSet(c) /\ todo' = [todo EXCEPT ![s] = @ \ {c}]
  BY DEF WarmUp
<1>2. phase[s] = "warming" /\ UNCHANGED <<adminVars, phase, listed, overtaken>>
  BY DEF WarmUp
<1>3. /\ todo'[s] = todo[s] \ {c}
      /\ \A u \in Sessions \ {s} : todo'[u] = todo[u]
  BY <1>1 DEF IInv, TypeOK
<1>4. TypeOK'
  BY <1>1, <1>2, HSetStep DEF IInv, TypeOK, adminVars
<1>5. QED
  BY <1>1, <1>2, <1>3, <1>4, HSetStep, LoopStep

\* The loop gives up, with or without its last HSET.
LEMMA WarmUpFailsStep ==
  ASSUME IInv, NEW s \in Sessions, WarmUpFails(s)
  PROVE  IInv'
<1>1. PICK c \in todo[s] : HSet(c) \/ UNCHANGED <<info, warm>>
  BY DEF WarmUpFails
<1>2. /\ phase[s] = "warming" /\ UNCHANGED <<adminVars, listed, overtaken>>
      /\ phase' = [phase EXCEPT ![s] = "failed"] /\ todo' = [todo EXCEPT ![s] = {}]
  BY DEF WarmUpFails
<1>3. /\ todo'[s] = {} /\ phase'[s] = "failed"
      /\ \A u \in Sessions \ {s} : phase'[u] = phase[u] /\ todo'[u] = todo[u]
  BY <1>2 DEF IInv, TypeOK
<1>4. /\ info' \in [Tickets -> Terms] /\ warm' \subseteq Tickets
      /\ gone \cap warm' = {}
      /\ \A t \in warm' : info'[t] \in past[t]
      /\ \A u \in Sessions : Active(u) => \A d \in listed[u] \ todo[u] :
            /\ d.ticket \in warm'
            /\ u \notin overtaken => NotOlder(info'[d.ticket], d.terms)
  <2>1. CASE HSet(c)
    BY <1>2, <2>1, HSetStep
  <2>2. CASE UNCHANGED <<info, warm>>
    BY <2>2 DEF IInv, TypeOK, NotCopied, OffSale, Provenance, TermsTogether, Copied, Serves
  <2>3. QED
    BY <1>1, <2>1, <2>2
<1>5. TypeOK'
  BY <1>2, <1>4 DEF IInv, TypeOK, Phases, adminVars
<1>6. ~Active(s)'
  BY <1>3 DEF Active
<1>7. QED
  BY <1>2, <1>3, <1>4, <1>5, <1>6, LoopStep

\* The loop comes to its end with nothing left to copy.
LEMMA OpenedStep ==
  ASSUME IInv, NEW s \in Sessions, Opened(s)
  PROVE  IInv'
<1>1. /\ phase[s] = "warming" /\ todo[s] = {}
      /\ phase' = [phase EXCEPT ![s] = "opened"]
      /\ UNCHANGED <<adminVars, todo, listed, overtaken, info, warm>>
  BY DEF Opened
<1>2. phase'[s] = "opened" /\ \A u \in Sessions \ {s} : phase'[u] = phase[u]
  BY <1>1 DEF IInv, TypeOK
<1>3. TypeOK'
  BY <1>1 DEF IInv, TypeOK, Phases, adminVars
<1>4. gone \cap warm' = {} /\ \A t \in warm' : info'[t] \in past[t]
  BY <1>1 DEF IInv, NotCopied, OffSale, Provenance, TermsTogether
<1>5. \A u \in Sessions : Active(u) => \A d \in listed[u] \ todo[u] :
        /\ d.ticket \in warm'
        /\ u \notin overtaken => NotOlder(info'[d.ticket], d.terms)
  BY <1>1 DEF IInv, Copied, Serves
<1>6. QED
  BY <1>1, <1>2, <1>3, <1>4, <1>5, LoopStep

-----------------------------------------------------------------------------
(* The theorems.                                                           *)

\* Every step of every session and of the administrator preserves the invariant.
LEMMA InvariantStep == IInv /\ [Next]_vars => IInv'
<1> SUFFICES ASSUME IInv, [Next]_vars PROVE IInv'
  OBVIOUS
<1>1. CASE Next
  BY <1>1, CreateStep, UpdateStep, DeleteStep, ListStep, WarmUpStep, WarmUpFailsStep, OpenedStep
     DEF Next
<1>2. CASE UNCHANGED vars
  BY <1>2 DEF vars, adminVars, openVars, IInv, TypeOK, Provenance, TermsTogether, NotCopied, OffSale,
              Snapshots, LoopOf, RowsWritten, LaterNewer, Active, Copied, Serves
<1>3. QED
  BY <1>1, <1>2

\* The inductive invariant, for any number of ticket types, sessions and writes.
LEMMA Invariant == Spec => []IInv
BY InitInvariant, InvariantStep, PTL DEF Spec

\* Every variable keeps its type.
THEOREM TypeCorrect == Spec => []TypeOK
BY Invariant, PTL DEF IInv

\* Redis sells with terms that the row had at one time, both of the same time, however
\* openings, updates and deletions interleave.
THEOREM TermsTogetherHolds == Spec => []TermsTogether
<1>1. IInv => TermsTogether
  BY DEF IInv, Provenance
<1>2. QED
  BY <1>1, Invariant, PTL

\* What is deleted before any opening has read it never goes on sale.
THEOREM OffSaleHolds == Spec => []OffSale
<1>1. IInv => OffSale
  BY DEF IInv, NotCopied
<1>2. QED
  BY <1>1, Invariant, PTL

\* An opening that was answered left every ticket type it has read on sale, with terms
\* at least as new unless it was overtaken, whatever the other openings do.
THEOREM OpenedServesHolds == Spec => []OpenedServes
<1>1. IInv => OpenedServes
  <2> SUFFICES ASSUME IInv, NEW s \in Sessions, phase[s] = "opened", NEW c \in listed[s]
               PROVE  Serves(s, c)
    BY DEF OpenedServes, Serves
  <2>1. todo[s] = {} /\ Active(s)
    BY DEF IInv, Snapshots, LoopOf, Active
  <2>2. QED
    BY <2>1 DEF IInv, Copied
<1>2. QED
  BY <1>1, Invariant, PTL
=============================================================================
