----------------------- MODULE RedisStreamOrderQueue -----------------------
(***************************************************************************)
(* internal/queue/redis_stream_order_queue.go with its consumer group, the *)
(* two goroutines that feed the delivery channel and the one worker that   *)
(* drains it. The channel is unbuffered, so a hand-over is one step.       *)
(*                                                                         *)
(* Time is left out: XAUTOCLAIM takes an entry that has been idle for      *)
(* ClaimMinIdleTime, which any entry of the PEL can be, a worker that is   *)
(* still busy with it included. The order of the stream is left out too:   *)
(* claims put entries back in any order.                                   *)
(***************************************************************************)
EXTENDS Orders

CONSTANTS
    MaxRetryCount,  \* RedisStreamOrderQueueConfig.MaxRetryCount
    BatchSize       \* COUNT of XREADGROUP and XAUTOCLAIM

ASSUME MaxRetryCountAssumption == MaxRetryCount \in Nat \ {0}
ASSUME BatchSizeAssumption == BatchSize \in Nat \ {0}

VARIABLES
    stream,     \* entries the group has not read yet
    pel,        \* entries read and not acknowledged: the PEL
    tries,      \* delivery count of each entry, kept up to MaxRetryCount + 1
    reading,    \* batch readAndDeliver has still to hand over
    claimed,    \* batch runAutoClaim has still to look at
    offered,    \* the claimed entry runAutoClaim is sending to the channel
    working,    \* the delivery in the worker's hands
    discarded   \* history: entries acknowledged as poison

queueVars == <<stream, pel, tries, reading, claimed, offered, working, discarded>>

RedisStreamTypeOK ==
    /\ stream \subseteq Requests
    /\ pel \subseteq Requests
    /\ tries \in [Requests -> 0..(MaxRetryCount + 1)]
    /\ reading \subseteq Requests
    /\ claimed \subseteq Requests
    /\ offered \subseteq Requests
    /\ working \subseteq Requests
    /\ discarded \subseteq Requests

RedisStreamInit ==
    /\ stream = {}
    /\ pel = {}
    /\ tries = [r \in Requests |-> 0]
    /\ reading = {}
    /\ claimed = {}
    /\ offered = {}
    /\ working = {}
    /\ discarded = {}

Batches(S) == {B \in SUBSET S : B # {} /\ Cardinality(B) <= BatchSize}

\* Redis counts each delivery; past MaxRetryCount the exact count makes no difference
Bump(n) == IF n > MaxRetryCount THEN n ELSE n + 1

\* XADD
PublishOrder(r) ==
    /\ stream' = stream \cup {r}
    /\ UNCHANGED <<pel, tries, reading, claimed, offered, working, discarded>>

\* What XREADGROUP ">" does in Redis, whether or not its reply arrives
ReadBatch(B) ==
    /\ B \in Batches(stream)
    /\ stream' = stream \ B
    /\ pel' = pel \cup B
    /\ tries' = [r \in Requests |-> IF r \in B THEN 1 ELSE tries[r]]
    /\ UNCHANGED <<claimed, offered, working, discarded>>

XReadGroup(B) == reading = {} /\ ReadBatch(B) /\ reading' = B
XReadGroupLost(B) == reading = {} /\ ReadBatch(B) /\ UNCHANGED reading

\* What XAUTOCLAIM does in Redis, whether or not its reply arrives
ClaimBatch(B) ==
    /\ B \in Batches(pel)
    /\ tries' = [r \in Requests |-> IF r \in B THEN Bump(tries[r]) ELSE tries[r]]
    /\ UNCHANGED <<stream, pel, reading, offered, working, discarded>>

Claiming == claimed # {} \/ offered # {}

XAutoClaim(B) == ~Claiming /\ ClaimBatch(B) /\ claimed' = B
XAutoClaimLost(B) == ~Claiming /\ ClaimBatch(B) /\ UNCHANGED claimed

\* Slip: the claim being examined is counted twice
RetryCountHigh(r) == IF r \in pel THEN tries[r] + 1 ELSE 0

\* XPENDING: an entry the worker has acknowledged since the claim counts 0
RetryCount(r) == IF r \in pel THEN tries[r] ELSE 0

Look(r) == r \in claimed /\ offered = {} /\ claimed' = claimed \ {r}

\* shouldProcessMessage says yes, because of the count or because XPENDING failed
Offer(r) ==
    /\ Look(r)
    /\ offered' = {r}
    /\ UNCHANGED <<stream, pel, tries, reading, working, discarded>>

ShouldProcessMessage(r) == RetryCount(r) < MaxRetryCount /\ Offer(r)
RetryCountUnknown(r) == Offer(r)

\* Slip: the poison message is skipped and not acknowledged
DiscardQuietly(r) ==
    /\ RetryCount(r) >= MaxRetryCount
    /\ Look(r)
    /\ discarded' = discarded \cup {r}
    /\ UNCHANGED <<stream, pel, tries, reading, offered, working>>

\* "discard poison message": XACK, and the entry is in nobody's hands
DiscardMessage(r) ==
    /\ RetryCount(r) >= MaxRetryCount
    /\ Look(r)
    /\ pel' = pel \ {r}
    /\ discarded' = discarded \cup {r}
    /\ UNCHANGED <<stream, tries, reading, offered, working>>

\* Its XACK fails, and the error is ignored
DiscardFails(r) ==
    /\ RetryCount(r) >= MaxRetryCount
    /\ Look(r)
    /\ UNCHANGED <<stream, pel, tries, reading, offered, working, discarded>>

\* for msg := range msgs: the worker receives from whichever goroutine is sending
Receive(r) ==
    /\ working = {}
    /\ \/ r \in reading /\ reading' = reading \ {r} /\ UNCHANGED offered
       \/ r \in offered /\ offered' = {} /\ UNCHANGED reading
    /\ working' = {r}
    /\ UNCHANGED <<stream, pel, tries, claimed, discarded>>

Ack(r) ==
    /\ r \in working
    /\ working' = {}
    /\ pel' = pel \ {r}
    /\ UNCHANGED <<stream, tries, reading, claimed, offered, discarded>>

\* Slip: Nack(false), which acknowledges the entry
NackDrops(r) ==
    /\ r \in working
    /\ working' = {}
    /\ pel' = pel \ {r}
    /\ UNCHANGED <<stream, tries, reading, claimed, offered, discarded>>

\* Nack(true) leaves the entry in the PEL; so does an Ack whose XACK fails
Nack(r) ==
    /\ r \in working
    /\ working' = {}
    /\ UNCHANGED <<stream, pel, tries, reading, claimed, offered, discarded>>

\* The process dies: what Redis keeps stays, what the goroutines hold is gone
LoseConsumer ==
    /\ reading' = {}
    /\ claimed' = {}
    /\ offered' = {}
    /\ working' = {}
    /\ UNCHANGED <<stream, pel, tries, discarded>>
=============================================================================
