--------------------------- MODULE SeqAllocator ---------------------------
(***************************************************************************)
(* internal/seq/allocator.go: the double-buffered segment allocator of one *)
(* (biz, key_id) and the Pool that creates it, inside the one Seq Svc      *)
(* process, which may restart.                                             *)
(*                                                                         *)
(* A *Segment is named by its end: it holds end-Step+1 .. end, and         *)
(* cursor[end] is the last number taken from it; DOMAIN cursor is the set  *)
(* of segment objects alive in the process.  0 is the nil pointer.         *)
(* A caller is a goroutine serving AllocId/AllocConvSeq/BumpSyncSeq, that  *)
(* is Pool.For followed by Allocator.Next.                                 *)
(***************************************************************************)
EXTENDS Integers

CONSTANTS Callers,    \* goroutines calling Pool.For + Next
          Refiller,   \* the prefetch goroutine that got the mutex
          Nobody,     \* the mutex is free
          Step,       \* segment length
          Batches,    \* sizes n of the calls
          MaxTries,   \* attempts of loadSegment (3 in the code)
          MaxID       \* bound: no segment is loaded past it

ASSUME SeqAssumption ==
    /\ Step \in Nat \ {0}
    /\ MaxID \in Nat
    /\ MaxTries \in Nat \ {0}
    /\ Batches \subseteq 1..Step   \* Next refuses n <= 0 and n > step
    /\ Refiller \notin Callers /\ Nobody \notin Callers /\ Refiller # Nobody

VARIABLES
    maxId,    \* seq_segment.max_id (0 also stands for no row)
    alloc,    \* the key has an Allocator in Pool.m
    cursor,   \* Segment.cursor, by segment end
    cur, buf, \* Allocator.cur, Allocator.buf
    last,     \* Allocator.last
    mu,       \* holder of Allocator.mu
    refills,  \* prefetch goroutines that wait for mu
    pc, n, seg, lo, tries,  \* per caller; tries also for Refiller
    issued,   \* history: numbers taken from some segment
    top,      \* history: largest number returned to a caller
    bar       \* history: top when the call of c began

mem == <<alloc, cursor, cur, buf, last, mu, refills>>
loc == <<pc, n, seg, lo, tries>>
hist == <<issued, top, bar>>
vars == <<maxId, mem, loc, hist>>

NoSegments == [s \in {} |-> 0]
LowWater == Step \div 10
Hi(c) == lo[c] + n[c] - 1

Init ==
    /\ maxId = 0
    /\ alloc = FALSE /\ cursor = NoSegments
    /\ cur = 0 /\ buf = 0 /\ last = 0 /\ mu = Nobody /\ refills = 0
    /\ pc = [c \in Callers |-> "idle"]
    /\ n = [c \in Callers |-> 0]
    /\ seg = [c \in Callers |-> 0]
    /\ lo = [c \in Callers |-> 0]
    /\ tries = [p \in Callers \cup {Refiller} |-> 0]
    /\ issued = {} /\ top = 0 /\ bar = [c \in Callers |-> 0]

Goto(c, l) == pc' = [pc EXCEPT ![c] = l]

\* The call of c is over; its locals die with it.
Leave(c) ==
    /\ Goto(c, "idle")
    /\ n' = [n EXCEPT ![c] = 0]
    /\ seg' = [seg EXCEPT ![c] = 0]
    /\ lo' = [lo EXCEPT ![c] = 0]
    /\ tries' = [tries EXCEPT ![c] = 0]
    /\ bar' = [bar EXCEPT ![c] = 0]

-----------------------------------------------------------------------------
(* tryLoad: one transaction that moves max_id by step and reads it back.   *)

NewSeg == maxId + Step

\* newSegment(maxID-step, maxID) would overlap the previous segment.
AddSegOverlapping(e) ==
    cursor' = [s \in DOMAIN cursor \cup {e} |-> IF s = e THEN e - Step - 1 ELSE cursor[s]]

\* newSegment(maxID-step+1, maxID)
AddSeg(e) == cursor' = [s \in DOMAIN cursor \cup {e} |-> IF s = e THEN e - Step ELSE cursor[s]]

\* A load that is taken for done although its UPDATE was rolled back.
LoadOkUncommitted(p) ==
    /\ NewSeg <= MaxID
    /\ UNCHANGED maxId
    /\ AddSeg(NewSeg)

\* The transaction commits and its caller p learns it.
LoadOk(p) ==
    /\ NewSeg <= MaxID
    /\ maxId' = NewSeg
    /\ AddSeg(NewSeg)

\* The transaction fails for p, before the commit or with the answer of the
\* commit lost; loadSegment has attempts left.
LoadFails(p) ==
    /\ \/ UNCHANGED maxId
       \/ NewSeg <= MaxID /\ maxId' = NewSeg
    /\ UNCHANGED cursor

LoadRetries(p) ==
    /\ tries[p] + 1 < MaxTries
    /\ LoadFails(p)
    /\ tries' = [tries EXCEPT ![p] = @ + 1]

LoadGivesUp(p) ==
    /\ tries[p] + 1 >= MaxTries
    /\ LoadFails(p)

-----------------------------------------------------------------------------
(* Pool.For *)

Call(c) ==
    /\ pc[c] = "idle"
    /\ \E k \in Batches : n' = [n EXCEPT ![c] = k]
    /\ bar' = [bar EXCEPT ![c] = top]
    /\ Goto(c, "for")
    /\ UNCHANGED <<maxId, mem, seg, lo, tries, issued, top>>

\* p.m[k] under p.mu
For(c) ==
    /\ pc[c] = "for"
    /\ Goto(c, IF alloc THEN "cur" ELSE "init")
    /\ UNCHANGED <<maxId, mem, n, seg, lo, tries, hist>>

\* NewAllocator outside p.mu: the first segment of an object nobody else sees
InitLoad(c) ==
    /\ pc[c] = "init"
    /\ \/ /\ LoadOk(c)
          /\ seg' = [seg EXCEPT ![c] = NewSeg]
          /\ Goto(c, "register")
          /\ tries' = [tries EXCEPT ![c] = 0]
          /\ UNCHANGED <<n, lo, hist>>
       \/ LoadRetries(c) /\ UNCHANGED <<pc, n, seg, lo, hist>>
       \/ LoadGivesUp(c) /\ Leave(c) /\ UNCHANGED <<issued, top>>
    /\ UNCHANGED <<alloc, cur, buf, last, mu, refills>>

LastCreatorWins == TRUE

\* Second look at p.m: the first creator wins, the loser drops its object
CreatorWins == ~alloc

Register(c) ==
    /\ pc[c] = "register"
    /\ IF CreatorWins
       THEN alloc' = TRUE /\ cur' = seg[c] /\ last' = seg[c] - Step
       ELSE UNCHANGED <<alloc, cur, last>>
    /\ seg' = [seg EXCEPT ![c] = 0]
    /\ Goto(c, "cur")
    /\ UNCHANGED <<maxId, cursor, buf, mu, refills, n, lo, tries, hist>>

-----------------------------------------------------------------------------
(* Allocator.Next *)

LoadCur(c) ==
    /\ pc[c] = "cur"
    /\ seg' = [seg EXCEPT ![c] = cur]
    /\ Goto(c, "take")
    /\ UNCHANGED <<maxId, mem, n, lo, tries, hist>>

\* The end compared with the cursor instead of with the next cursor.
NotUsedUp(c) == cursor[seg[c]] < seg[c]

Fits(c) == cursor[seg[c]] + n[c] <= seg[c]

\* Segment.take: the CAS loop takes effect at the successful CAS, or fails on
\* a cursor that can only have grown since it was read
Take(c) ==
    /\ pc[c] = "take"
    /\ Fits(c)
    /\ cursor' = [cursor EXCEPT ![seg[c]] = @ + n[c]]
    /\ lo' = [lo EXCEPT ![c] = cursor[seg[c]] + 1]
    /\ issued' = issued \cup (cursor[seg[c]] + 1)..(cursor[seg[c]] + n[c])
    /\ Goto(c, "store")
    /\ UNCHANGED <<maxId, alloc, cur, buf, last, mu, refills, n, seg, tries, top, bar>>

TakeFails(c) ==
    /\ pc[c] = "take"
    /\ ~Fits(c)
    /\ Goto(c, "lock")
    /\ UNCHANGED <<maxId, mem, n, seg, lo, tries, hist>>

StoreLast(c) ==
    /\ pc[c] = "store"
    /\ last' = Hi(c)
    /\ Goto(c, "water")
    /\ UNCHANGED <<maxId, alloc, cursor, cur, buf, mu, refills, n, seg, lo, tries, hist>>

\* Low-water test and refillAsync's own test, then the call returns
Return(c) ==
    /\ pc[c] = "water"
    /\ refills' = IF seg[c] - cursor[seg[c]] < LowWater /\ buf = 0
                  THEN refills + 1 ELSE refills
    /\ top' = IF Hi(c) > top THEN Hi(c) ELSE top
    /\ Leave(c)
    /\ UNCHANGED <<maxId, alloc, cursor, cur, buf, last, mu, issued>>

-----------------------------------------------------------------------------
(* swapSync, under mu *)

Lock(c) ==
    /\ pc[c] = "lock" /\ mu = Nobody
    /\ mu' = c
    /\ Goto(c, "swap")
    /\ UNCHANGED <<maxId, alloc, cursor, cur, buf, last, refills, n, seg, lo, tries, hist>>

NoUnlock == UNCHANGED mu

\* defer a.mu.Unlock()
Unlock == mu' = Nobody

Swap(c) ==
    /\ pc[c] = "swap"
    /\ IF buf # 0
       THEN cur' = buf /\ buf' = 0 /\ Unlock /\ Goto(c, "cur")
       ELSE UNCHANGED <<cur, buf, mu>> /\ Goto(c, "load")
    /\ UNCHANGED <<maxId, alloc, cursor, last, refills, n, seg, lo, tries, hist>>

SyncLoad(c) ==
    /\ pc[c] = "load"
    /\ \/ /\ LoadOk(c)
          /\ cur' = NewSeg /\ Unlock
          /\ tries' = [tries EXCEPT ![c] = 0]
          /\ Goto(c, "cur")
          /\ UNCHANGED <<n, seg, lo, hist>>
       \/ LoadRetries(c) /\ UNCHANGED <<cur, mu, pc, n, seg, lo, hist>>
       \/ LoadGivesUp(c) /\ Unlock /\ Leave(c) /\ UNCHANGED <<cur, issued, top>>
    /\ UNCHANGED <<alloc, buf, last, refills>>

-----------------------------------------------------------------------------
(* refillAsync's goroutine *)

RefillSkip ==
    /\ refills > 0 /\ mu = Nobody /\ buf # 0
    /\ refills' = refills - 1
    /\ UNCHANGED <<maxId, alloc, cursor, cur, buf, last, mu, loc, hist>>

RefillLock ==
    /\ refills > 0 /\ mu = Nobody /\ buf = 0
    /\ refills' = refills - 1
    /\ mu' = Refiller
    /\ UNCHANGED <<maxId, alloc, cursor, cur, buf, last, loc, hist>>

RefillLoad ==
    /\ mu = Refiller
    /\ \/ /\ LoadOk(Refiller)
          /\ buf' = NewSeg /\ Unlock
          /\ tries' = [tries EXCEPT ![Refiller] = 0]
       \/ LoadRetries(Refiller) /\ UNCHANGED <<buf, mu>>
       \/ /\ LoadGivesUp(Refiller)
          /\ Unlock /\ tries' = [tries EXCEPT ![Refiller] = 0]
          /\ UNCHANGED buf
    /\ UNCHANGED <<alloc, cur, last, refills, pc, n, seg, lo, hist>>

-----------------------------------------------------------------------------
\* The process dies and starts again: only max_id survives.
Restart ==
    /\ alloc' = FALSE /\ cursor' = NoSegments
    /\ cur' = 0 /\ buf' = 0 /\ last' = 0 /\ mu' = Nobody /\ refills' = 0
    /\ pc' = [c \in Callers |-> "idle"]
    /\ n' = [c \in Callers |-> 0]
    /\ seg' = [c \in Callers |-> 0]
    /\ lo' = [c \in Callers |-> 0]
    /\ tries' = [p \in Callers \cup {Refiller} |-> 0]
    /\ bar' = [c \in Callers |-> 0]
    /\ UNCHANGED <<maxId, issued, top>>

CallerStep(c) ==
    \/ For(c) \/ InitLoad(c) \/ Register(c)
    \/ LoadCur(c) \/ Take(c) \/ TakeFails(c) \/ StoreLast(c) \/ Return(c)
    \/ Lock(c) \/ Swap(c) \/ SyncLoad(c)

RefillStep == RefillSkip \/ RefillLock \/ RefillLoad

Next == \/ \E c \in Callers : Call(c) \/ CallerStep(c)
        \/ RefillStep
        \/ Restart

Spec == Init /\ [][Next]_vars

\* The database at work for a call, in NewAllocator or in swapSync.
Loads(c) == InitLoad(c) \/ SyncLoad(c)

(* Goroutines are scheduled, and sync.Mutex serves its waiters in turn      *)
(* (strong fairness of Lock).  A load may hang: the prefetch has no         *)
(* deadline (context.Background()), nor has the connection.                 *)
FairSpec ==
    /\ Spec
    /\ \A c \in Callers : WF_vars(CallerStep(c) /\ ~ Loads(c)) /\ SF_vars(Lock(c))
-----------------------------------------------------------------------------
(* Properties *)

Past == {"take", "store", "water", "lock", "swap", "load"}  \* past a.cur.Load()

\* Types, and the shape of the segments: a cursor stays within its segment,
\* the pointers name live segments, mu is held exactly inside swapSync.
TypeOK ==
    /\ maxId \in 0..MaxID /\ alloc \in BOOLEAN
    /\ \A s \in DOMAIN cursor : s \in Step..maxId /\ cursor[s] \in (s - Step)..s
    /\ {cur, buf} \subseteq DOMAIN cursor \cup {0} /\ (cur = 0 <=> ~alloc)
    /\ last \in Nat /\ refills \in Nat
    /\ mu \in Callers \cup {Refiller, Nobody}
    /\ pc \in [Callers -> {"idle", "for", "init", "register", "cur"} \cup Past]
    /\ n \in [Callers -> Batches \cup {0}]
    /\ seg \in [Callers -> DOMAIN cursor \cup {0}]
    /\ lo \in [Callers -> 0..MaxID]
    /\ tries \in [Callers \cup {Refiller} -> 0..(MaxTries - 1)]
    /\ issued \subseteq 1..maxId
    /\ top \in 0..maxId
    /\ bar \in [Callers -> 0..maxId]

\* No number is handed out twice: not by two callers of one segment, not by
\* two segments loaded concurrently (first use, prefetch, exhaustion), not
\* after a commit whose answer was lost and not across a restart.
FreshIds ==
    [][\A c \in Callers :
         pc[c] = "take" /\ pc'[c] = "store" => lo'[c]..Hi(c)' \cap issued = {}]_vars

\* Monotone in real time: whatever Next hands out is above every number that
\* was returned to anyone before the call began, although a caller may still
\* take from a segment that is no longer current.
RealTimeOrder == \A c \in Callers : pc[c] \in {"store", "water"} => lo[c] > bar[c]

\* The allocator implements the issuer: a call waits until its CAS succeeds.
Granted(c) == pc[c] \in {"store", "water"}
CallOf(c) == IF pc[c] = "idle" THEN [st |-> "idle", n |-> 0, bar |-> 0, lo |-> 0]
             ELSE [st |-> IF Granted(c) THEN "got" ELSE "wait",
                   n |-> n[c], bar |-> bar[c], lo |-> IF Granted(c) THEN lo[c] ELSE 0]
Issuer == INSTANCE SeqIssuer WITH
    Sizes <- Batches,
    call <- [c \in Callers |-> CallOf(c)]
IssuerSpec == Issuer!Spec

\* Every call returns, unless a load hangs: its own first one, or one that holds
\* the mutex, be it a prefetch.  A load that fails always gives the mutex back
\* (allocator.go:128, 144), so nobody waits for a holder that is through.
CallsReturn ==
    \A c \in Callers :
        \/ []<>(pc[c] = "idle") \/ <>[](pc[c] = "init")
        \/ <>[](mu = Refiller) \/ \E d \in Callers : <>[](pc[d] = "load")
=============================================================================
