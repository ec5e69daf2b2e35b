--------------------------- MODULE MarkBatcher ---------------------------
(***************************************************************************)
(* internal/message/delivery.go: markBatcher.  Consumers add the messages  *)
(* they delivered; a bucket per shard is written by one UPDATE when it is  *)
(* full or when its timer expires.  Whoever finds out that a flush is due  *)
(* starts it only after the unlock, so adds, timers and flushes of one     *)
(* shard overlap.                                                          *)
(***************************************************************************)
EXTENDS Integers, FiniteSets

CONSTANTS Callers,    \* goroutines that call add
          Flushers,   \* bound: flushes that run at a time
          Shards,     \* database indexes
          Items,      \* (conv_id, msg_id) pairs
          ShardOf,    \* store.RouteMsg(conv_id).DBIndex
          NoShard,
          FlushSize,  \* markFlushSize, 32 in the code
          MaxTimers   \* bound: timers and flushes outstanding on a shard

ASSUME BatcherAssumption ==
    /\ ShardOf \in [Items -> Shards]
    /\ NoShard \notin Shards
    /\ FlushSize \in Nat \ {0} /\ MaxTimers \in Nat \ {0}

VARIABLES
    buf,     \* per shard: marks buffered
    arms,    \* per shard: a flush timer is on its way
    timers,  \* per shard: timers running
    due,     \* per shard: flushes that wait for the lock
    pc, at,  \* per caller: what it does after the unlock, and for which shard
    rows,    \* per flush: the batch of the UPDATE in progress
    stored,  \* local_message rows with status = 1
    lost     \* history: marks of failed UPDATEs and of crashed processes

mem == <<buf, arms, timers, due, pc, at, rows>>
vars == <<mem, stored, lost>>

Waiting == (UNION {buf[s] : s \in Shards}) \cup (UNION {rows[f] : f \in Flushers})

Init ==
    /\ buf = [s \in Shards |-> {}] /\ arms = [s \in Shards |-> FALSE]
    /\ timers = [s \in Shards |-> 0] /\ due = [s \in Shards |-> 0]
    /\ pc = [c \in Callers |-> "idle"] /\ at = [c \in Callers |-> NoShard]
    /\ rows = [f \in Flushers |-> {}]
    /\ stored = {} /\ lost = {}

-----------------------------------------------------------------------------
(* add, in its lock *)

Full(b) == Cardinality(b) >= FlushSize

\* A timer is started by a caller that does not fill the bucket, unless one
\* is on its way already.
NeedArm(s, b) == ~Full(b) /\ ~arms[s]

Add(c, i) ==
    LET s == ShardOf[i]
        b == buf[s] \cup {i}
    IN  /\ pc[c] = "idle" /\ timers[s] + due[s] < MaxTimers
        /\ buf' = [buf EXCEPT ![s] = b]
        /\ arms' = [arms EXCEPT ![s] = @ \/ NeedArm(s, b)]
        /\ pc' = [pc EXCEPT ![c] = IF Full(b) THEN "flush"
                                   ELSE IF NeedArm(s, b) THEN "arm" ELSE "idle"]
        /\ at' = [at EXCEPT ![c] = IF Full(b) \/ NeedArm(s, b) THEN s ELSE NoShard]
        /\ UNCHANGED <<timers, due, rows, stored, lost>>

Return(c) == pc' = [pc EXCEPT ![c] = "idle"] /\ at' = [at EXCEPT ![c] = NoShard]

\* go b.flush(shard), after the unlock
SpawnFlush(c) ==
    /\ pc[c] = "flush"
    /\ due' = [due EXCEPT ![at[c]] = @ + 1]
    /\ Return(c)
    /\ UNCHANGED <<buf, arms, timers, rows, stored, lost>>

\* time.AfterFunc(markFlushDelay, ...), after the unlock
StartTimer(c) ==
    /\ pc[c] = "arm"
    /\ timers' = [timers EXCEPT ![at[c]] = @ + 1]
    /\ Return(c)
    /\ UNCHANGED <<buf, arms, due, rows, stored, lost>>

\* A timer fires twice.
ExpireTwice(s) ==
    /\ timers[s] > 0
    /\ timers' = [timers EXCEPT ![s] = @ - 2]
    /\ due' = [due EXCEPT ![s] = @ + 2]
    /\ UNCHANGED <<buf, arms, pc, at, rows, stored, lost>>

Expire(s) ==
    /\ timers[s] > 0
    /\ timers' = [timers EXCEPT ![s] = @ - 1]
    /\ due' = [due EXCEPT ![s] = @ + 1]
    /\ UNCHANGED <<buf, arms, pc, at, rows, stored, lost>>

-----------------------------------------------------------------------------
(* flush *)

\* The bucket is taken and the timer flag is kept.
ClearedFlagKept(s) == UNCHANGED arms

ClearFlag(s) == arms' = [arms EXCEPT ![s] = FALSE]

\* in its lock: the bucket and the timer flag are reset together
TakeBucket(s, f) ==
    /\ due[s] > 0 /\ rows[f] = {}
    /\ due' = [due EXCEPT ![s] = @ - 1]
    /\ rows' = [rows EXCEPT ![f] = buf[s]]
    /\ buf' = [buf EXCEPT ![s] = {}]
    /\ ClearFlag(s)
    /\ UNCHANGED <<timers, pc, at, stored, lost>>

\* The row constructor of the UPDATE holds the first pair only.
WrittenFirst(f) == {CHOOSE i \in rows[f] : TRUE}

Written(f) == rows[f]

\* UPDATE .. SET status = 1 WHERE status = 0 AND (conv_id, msg_id) IN (..)
Update(f) ==
    /\ rows[f] # {}
    /\ stored' = stored \cup Written(f)
    /\ rows' = [rows EXCEPT ![f] = {}]
    /\ UNCHANGED <<buf, arms, timers, due, pc, at, lost>>

\* The error is logged, the batch is dropped.
UpdateFails(f) ==
    /\ rows[f] # {}
    /\ lost' = lost \cup rows[f]
    /\ rows' = [rows EXCEPT ![f] = {}]
    /\ UNCHANGED <<buf, arms, timers, due, pc, at, stored>>

\* The process dies and starts again.
Crash ==
    /\ buf' = [s \in Shards |-> {}] /\ arms' = [s \in Shards |-> FALSE]
    /\ timers' = [s \in Shards |-> 0] /\ due' = [s \in Shards |-> 0]
    /\ pc' = [c \in Callers |-> "idle"] /\ at' = [c \in Callers |-> NoShard]
    /\ rows' = [f \in Flushers |-> {}]
    /\ lost' = lost \cup Waiting
    /\ UNCHANGED stored

-----------------------------------------------------------------------------
Finish(f) == Update(f) \/ UpdateFails(f)
Start(c) == SpawnFlush(c) \/ StartTimer(c)
Take(s) == \E f \in Flushers : TakeBucket(s, f)

Next == \/ \E c \in Callers : Start(c) \/ \E i \in Items : Add(c, i)
        \/ \E s \in Shards : Expire(s) \/ Take(s)
        \/ \E f \in Flushers : Finish(f)
        \/ Crash

Spec == Init /\ [][Next]_vars

(* Goroutines are scheduled, timers expire, an UPDATE succeeds or fails.   *)
(* Each flush runs in a goroutine of its own: it may wait for the mutex,   *)
(* which serves its waiters in turn, and not for the Flushers of the bound *)
(* (strong fairness of Take).                                              *)
FairSpec ==
    /\ Spec
    /\ \A c \in Callers : WF_vars(Start(c))
    /\ \A s \in Shards : WF_vars(Expire(s)) /\ SF_vars(Take(s))
    /\ \A f \in Flushers : WF_vars(Finish(f))

-----------------------------------------------------------------------------
(* Properties *)

TypeOK ==
    /\ buf \in [Shards -> SUBSET Items] /\ arms \in [Shards -> BOOLEAN]
    /\ timers \in [Shards -> Nat] /\ due \in [Shards -> Nat]
    /\ pc \in [Callers -> {"idle", "arm", "flush"}]
    /\ at \in [Callers -> Shards \cup {NoShard}]
    /\ rows \in [Flushers -> SUBSET Items]
    /\ stored \subseteq Items /\ lost \subseteq Items

\* Somebody is about to start a timer or a flush of shard s.
Coming(s, what) == \E c \in Callers : pc[c] = what /\ at[c] = s

\* The flag says the truth: a timer is started, running, or has expired into
\* a flush that has not reset the flag yet.
FlagIsKept(s) == arms[s] => timers[s] > 0 \/ due[s] > 0 \/ Coming(s, "arm")

\* Marks whose bucket has no timer were added since it was full.
FullIsFlushed(s) == buf[s] # {} /\ ~arms[s] => due[s] > 0 \/ Coming(s, "flush")

\* A bucket that holds marks is going to be flushed: whatever adds, full
\* buckets, expiring timers and concurrent flushes reset its flag, no mark is
\* left in a bucket that nothing will ever write.
NoMarkIsStranded ==
    \A s \in Shards :
      buf[s] # {} => timers[s] > 0 \/ due[s] > 0 \/ Coming(s, "arm") \/ Coming(s, "flush")

\* The batcher implements the queue of marks: a mark leaves a bucket or a batch
\* only into the table, unless its UPDATE failed or the process died, and only
\* marks that were added are written.
Queue == INSTANCE MarkQueue WITH waiting <- Waiting
QueueSpec == Queue!Spec

\* Every bucket is flushed again and again (unless the process keeps dying).
BucketsDrain == \A i \in Items : i \in buf[ShardOf[i]] ~> i \notin buf[ShardOf[i]]
=============================================================================
