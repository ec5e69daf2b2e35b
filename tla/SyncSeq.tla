------------------------------ MODULE SyncSeq ------------------------------
(***************************************************************************)
(* internal/message/seq_client.go: RedisSyncSeqClient of one process.  The *)
(* sync level of a user is a Redis counter, kept above a floor that was    *)
(* read from the database once; new levels are written back to seq_segment *)
(* in batches.  When Redis fails the number comes from the Seq Svc, whose  *)
(* own interleavings are those of module SeqAllocator: here it takes one   *)
(* step.  The process restarts, and Redis may come back without its keys.  *)
(***************************************************************************)
EXTENDS Integers, FiniteSets

CONSTANTS Bumpers,    \* goroutines that call BumpSyncSeq
          Users,
          NoUser,
          Flushers,   \* bound: flushes that run at a time
          Margin,     \* seedMargin, 1024 in the code
          FlushSize,  \* syncFlushSize, 64
          Rate,       \* syncBackfillRate, 32
          SvcStep,    \* numbers the Seq Svc loads at a time
          MaxCalls,   \* bound: calls of BumpSyncSeq
          MaxTimers,  \* bound: timers and flushes outstanding
          MaxFaults   \* bound: restarts, failed or emptied stores

ASSUME SyncSeqAssumption ==
    /\ NoUser \notin Users /\ IsFiniteSet(Users)
    /\ {Margin, FlushSize, Rate, SvcStep, MaxCalls, MaxTimers} \subseteq Nat \ {0}
    /\ MaxFaults \in Nat

VARIABLES
    key,     \* syncseq:{uid}; 0 when missing
    db,      \* seq_segment.max_id of ('sync', uid); 0 when missing
    next,    \* Seq Svc: next number of its segment
    end,     \* Seq Svc: last number of its segment; 0 without allocator
    floor,   \* cached floors; 0 when missing
    buf,     \* levels to be written back; 0 for none
    armed, timers, due,  \* timer flag, timers running, flushes started
    rows,    \* per flush: levels it has yet to deal with
    quota,   \* per flush: how many of them it may write
    stage, user, val,    \* per caller: label, user, watermark, floor or level in hand
    made,    \* calls made, for the bound MaxCalls
    high,    \* history: highest level returned for the user
    base,    \* history: what the floor was made from
    from,    \* history: what the floor was made from that a caller has in hand
    lapsed,  \* history: users whose key was lost, or whom the Seq Svc served
    dropped, \* history: users of whom a write-back was lost
    faults

stores == <<key, db, next, end>>
batch == <<buf, armed, timers, due, rows, quota>>
calls == <<stage, user, val, made>>
history == <<high, base, from, lapsed, dropped>>
syncVars == <<stores, floor, batch, calls, history, faults>>

Nothing == [u \in Users |-> 0]
Larger(a, b) == IF a >= b THEN a ELSE b
Pending(levels) == {u \in Users : levels[u] # 0}

SyncInit ==
    /\ key = Nothing /\ db = Nothing /\ next = [u \in Users |-> 1] /\ end = Nothing
    /\ floor = Nothing /\ buf = Nothing /\ armed = FALSE /\ timers = 0 /\ due = 0
    /\ rows = [f \in Flushers |-> Nothing] /\ quota = [f \in Flushers |-> 0]
    /\ stage = [c \in Bumpers |-> "idle"] /\ user = [c \in Bumpers |-> NoUser]
    /\ val = [c \in Bumpers |-> 0] /\ made = 0
    /\ high = Nothing /\ base = Nothing /\ from = [c \in Bumpers |-> 0]
    /\ lapsed = {} /\ dropped = {} /\ faults = 0

Fault == faults < MaxFaults /\ faults' = faults + 1
NoFault == UNCHANGED faults
Goto(c, label) == stage' = [stage EXCEPT ![c] = label]

-----------------------------------------------------------------------------
(* BumpSyncSeq *)

\* A floor that is cached already is taken for the script to come.
CallBump(c, u) ==
    /\ stage[c] = "idle" /\ made < MaxCalls /\ made' = made + 1
    /\ user' = [user EXCEPT ![c] = u]
    /\ val' = [val EXCEPT ![c] = floor[u]] /\ from' = [from EXCEPT ![c] = base[u]]
    /\ Goto(c, IF floor[u] = 0 THEN "floor" ELSE "bump")
    /\ UNCHANGED <<stores, floor, batch, high, base, lapsed, dropped>> /\ NoFault

\* A floor without the margin
FloorBare(d) == IF d = 0 THEN 1 ELSE d
Floor(d) == d + Margin

\* floorFor: the SELECT; an error counts as 0
ReadFloor(c) ==
    /\ stage[c] = "floor"
    /\ \/ val' = [val EXCEPT ![c] = db[user[c]]] /\ NoFault
       \/ val' = [val EXCEPT ![c] = 0] /\ db[user[c]] # 0 /\ Fault
    /\ Goto(c, "keep")
    /\ UNCHANGED <<stores, floor, batch, user, made, history>>

\* floorFor: the larger of two concurrent answers is kept, for good, and is
\* what this caller has in hand.
KeepFloor(c) ==
    LET u == user[c]
        f == Larger(floor[u], Floor(val[c]))
        b == Larger(base[u], val[c])
    IN  /\ stage[c] = "keep"
        /\ floor' = [floor EXCEPT ![u] = f] /\ val' = [val EXCEPT ![c] = f]
        /\ base' = [base EXCEPT ![u] = b] /\ from' = [from EXCEPT ![c] = b]
        /\ Goto(c, "bump")
        /\ UNCHANGED <<stores, batch, user, made, high, lapsed, dropped>> /\ NoFault

Returns(u, v) == high' = [high EXCEPT ![u] = Larger(@, v)]

\* syncSeqScript, given the floor the caller took before
Raised(c) == Larger(key[user[c]] + 1, val[c])

Bump(c) ==
    LET u == user[c]
        v == Raised(c)
    IN  /\ stage[c] = "bump"
        /\ key' = [key EXCEPT ![u] = v]
        /\ val' = [val EXCEPT ![c] = v]
        /\ Returns(u, v) /\ Goto(c, "buffer")
        /\ from' = [from EXCEPT ![c] = 0]
        /\ UNCHANGED <<db, next, end, floor, batch, user, made, base, lapsed, dropped>> /\ NoFault

Leave(c) == Goto(c, "idle") /\ user' = [user EXCEPT ![c] = NoUser] /\ val' = [val EXCEPT ![c] = 0]

\* Redis fails, with or without effect: RPCSeqClient
FallBack(c) ==
    LET u == user[c]
        spent == next[u] > end[u]
        first == IF spent THEN db[u] + 1 ELSE next[u]
    IN  /\ stage[c] = "bump"
        /\ key' \in {key, [key EXCEPT ![u] = Raised(c)]}
        /\ IF spent
           THEN /\ db' = [db EXCEPT ![u] = @ + SvcStep]
                /\ end' = [end EXCEPT ![u] = db[u] + SvcStep]
           ELSE UNCHANGED <<db, end>>
        /\ next' = [next EXCEPT ![u] = first + 1]
        /\ Returns(u, first) /\ lapsed' = lapsed \cup {u}
        /\ Leave(c) /\ from' = [from EXCEPT ![c] = 0]
        /\ UNCHANGED <<floor, batch, made, base, dropped>> /\ Fault

\* backfill, in its lock
Full(levels) == Cardinality(Pending(levels)) >= FlushSize
NeedArm(levels) == ~Full(levels) /\ ~armed
WithLevel(u, v) == [buf EXCEPT ![u] = Larger(@, v)]

Buffer(c) ==
    LET levels == WithLevel(user[c], val[c])
    IN  /\ stage[c] = "buffer"
        /\ buf' = levels
        /\ armed' = (armed \/ NeedArm(levels))
        /\ Goto(c, IF Full(levels) THEN "flush" ELSE IF NeedArm(levels) THEN "arm" ELSE "end")
        /\ UNCHANGED <<stores, floor, timers, due, rows, quota, user, val, made, history>> /\ NoFault

\* backfill, after the unlock
AfterBuffer(c) ==
    /\ \/ stage[c] = "flush" /\ timers + due < MaxTimers /\ due' = due + 1 /\ UNCHANGED timers
       \/ stage[c] = "arm" /\ timers + due < MaxTimers /\ timers' = timers + 1 /\ UNCHANGED due
       \/ stage[c] = "end" /\ UNCHANGED <<timers, due>>
    /\ Leave(c)
    /\ UNCHANGED <<stores, floor, buf, armed, rows, quota, made, history>> /\ NoFault

-----------------------------------------------------------------------------
(* flush *)

Fire ==
    /\ timers > 0 /\ timers' = timers - 1 /\ due' = due + 1
    /\ UNCHANGED <<stores, floor, buf, armed, rows, quota, calls, history>> /\ NoFault

\* The bucket is taken and the timer flag is kept.
ClearedFlagKept == UNCHANGED armed
ClearFlag == armed' = FALSE

Quota(size) == IF size > Rate THEN Rate ELSE size

Take(f) ==
    /\ due > 0 /\ rows[f] = Nothing
    /\ due' = due - 1
    /\ rows' = [rows EXCEPT ![f] = buf] /\ buf' = Nothing /\ ClearFlag
    /\ quota' = [quota EXCEPT ![f] = Quota(Cardinality(Pending(buf)))]
    /\ UNCHANGED <<stores, floor, timers, calls, history>> /\ NoFault

Settled(f, u) == rows' = [rows EXCEPT ![f][u] = 0]

\* The value is written whatever is there.
WrittenOver(old, v) == v
Written(old, v) == Larger(old, v)

\* writeBack: INSERT ... GREATEST; an error is logged
WriteBack(f, u) ==
    /\ rows[f][u] # 0 /\ quota[f] > 0
    /\ Settled(f, u) /\ quota' = [quota EXCEPT ![f] = @ - 1]
    /\ \/ db' = [db EXCEPT ![u] = Written(@, rows[f][u])] /\ UNCHANGED dropped /\ NoFault
       \/ dropped' = dropped \cup {u} /\ UNCHANGED db /\ Fault
    /\ UNCHANGED <<key, next, end, floor, buf, armed, timers, due, calls, high, base, from, lapsed>>

\* What exceeds the rate goes back to the bucket, in the manner of backfill.
PutBack(f, u) ==
    LET levels == WithLevel(u, rows[f][u])
    IN  /\ rows[f][u] # 0 /\ quota[f] = 0 /\ timers + due < MaxTimers
        /\ Settled(f, u)
        /\ buf' = levels /\ armed' = (armed \/ NeedArm(levels))
        /\ due' = IF Full(levels) THEN due + 1 ELSE due
        /\ timers' = IF NeedArm(levels) THEN timers + 1 ELSE timers
        /\ UNCHANGED <<stores, floor, quota, calls, history>> /\ NoFault

-----------------------------------------------------------------------------
(* Failures *)

RedisEmptied ==
    /\ key # Nothing /\ key' = Nothing
    /\ lapsed' = lapsed \cup Pending(key)
    /\ UNCHANGED <<db, next, end, floor, batch, calls, high, base, from, dropped>> /\ Fault

\* The process starts again: floors and unwritten levels are gone.
Restart ==
    /\ floor' = Nothing /\ buf' = Nothing /\ armed' = FALSE /\ timers' = 0 /\ due' = 0
    /\ rows' = [f \in Flushers |-> Nothing] /\ quota' = [f \in Flushers |-> 0]
    /\ stage' = [c \in Bumpers |-> "idle"] /\ user' = [c \in Bumpers |-> NoUser]
    /\ val' = [c \in Bumpers |-> 0]
    /\ base' = Nothing /\ from' = [c \in Bumpers |-> 0]
    /\ dropped' = dropped \cup {u \in Users : high[u] > db[u]}
    /\ UNCHANGED <<stores, made, high, lapsed>> /\ Fault

Caller(c) == ReadFloor(c) \/ KeepFloor(c) \/ Bump(c) \/ Buffer(c) \/ AfterBuffer(c)
Flush(f) == Take(f) \/ \E u \in Users : WriteBack(f, u) \/ PutBack(f, u)

SyncNext ==
    \/ \E c \in Bumpers : (\E u \in Users : CallBump(c, u)) \/ Caller(c) \/ FallBack(c)
    \/ \E f \in Flushers : Flush(f)
    \/ Fire \/ RedisEmptied \/ Restart

\* Goroutines run, timers expire, UPDATEs end.  A flush that is due has a
\* goroutine of its own; only the bound on Flushers lets it wait.
Fairness ==
    /\ \A c \in Bumpers : WF_syncVars(Caller(c))
    /\ WF_syncVars(Fire)
    /\ \A f \in Flushers : SF_syncVars(Take(f)) /\ WF_syncVars(\E u \in Users : WriteBack(f, u) \/ PutBack(f, u))

SyncSpec == SyncInit /\ [][SyncNext]_syncVars /\ Fairness

-----------------------------------------------------------------------------
(* Properties *)

\* Types; a caller has a user from its call to its end, and a flush that has
\* written all it may still has rows only if there were too many.
SyncTypeOK ==
    /\ {key, db, next, end, floor, buf, high, base} \subseteq [Users -> Nat]
    /\ armed \in BOOLEAN /\ timers \in Nat /\ due \in Nat
    /\ rows \in [Flushers -> [Users -> Nat]] /\ quota \in [Flushers -> 0..Rate]
    /\ stage \in [Bumpers -> {"idle", "floor", "keep", "bump", "buffer", "flush", "arm", "end"}]
    /\ user \in [Bumpers -> Users \cup {NoUser}] /\ val \in [Bumpers -> Nat] /\ from \in [Bumpers -> Nat]
    /\ \A c \in Bumpers : (stage[c] = "idle") <=> (user[c] = NoUser)
    /\ \A f \in Flushers : quota[f] <= Cardinality(Pending(rows[f]))
    /\ lapsed \subseteq Users /\ dropped \subseteq Users /\ faults \in 0..MaxFaults

\* A level in the bucket has a flush or a timer coming for it, also when it
\* was put back because a batch was too large (seq_client.go:214).  With it, the
\* types.
NoLevelIsStranded ==
    /\ SyncTypeOK
    /\ Pending(buf) # {} =>
          \/ due > 0 \/ timers > 0
          \/ \E c \in Bumpers : stage[c] \in {"flush", "arm"}

\* A level from Redis is above every level that was returned.  It may not be
\* only after Redis lost the key of the user or the Seq Svc served him, and then
\* only in a call for him under which what was returned has gone Margin or more
\* beyond what its own floor was made from: the script gets the floor that
\* floorFor answered (seq_client.go:160), not the one cached by now (:169).
MarginCovers ==
    [][\A u \in Users : key'[u] \notin {0, key[u]} /\ high[u] >= key'[u]
            => /\ u \in lapsed'
               /\ \E c \in Bumpers : /\ user[c] = u /\ stage[c] = "bump" /\ stage'[c] # "bump"
                                     /\ high[u] - from[c] >= Margin]_syncVars

\* A level that was returned reaches the database once there are no more calls,
\* unless a write-back failed or the process ended (seq_client.go:179).
LevelsAreStored == \A u \in Users : <>[](db[u] >= high[u] \/ u \in dropped)
=============================================================================
