--------------------------- MODULE BatcherProofs ---------------------------
(***************************************************************************)
(* Proofs about the two batchers of yim-message.                           *)
(*                                                                         *)
(* MarkBatcher, for any number of callers, flushes, shards and marks: the  *)
(* inductive invariant says of each shard who will flush it: with the flag *)
(* set, the timer the flag stands for; with the flag clear, the flush that *)
(* a full bucket asked for.                                                *)
(*                                                                         *)
(* ReadState, the conversation whose last_seq the other batcher writes,    *)
(* for any number of messages and requests: the inductive invariant says   *)
(* that what is stored, cached or in the hands of a request is behind the  *)
(* row it was taken from.                                                  *)
(***************************************************************************)
EXTENDS MarkBatcher, ReadState, FiniteSetTheorems, WellFoundedInduction, TLAPS

\* A caller between the unlock and its go or AfterFunc knows its shard.
AtOK == \A c \in Callers : pc[c] # "idle" => at[c] \in Shards

IInv == /\ TypeOK
        /\ AtOK
        /\ \A s \in Shards : FlagIsKept(s) /\ FullIsFlushed(s)

\* The empty batcher satisfies the invariant.
LEMMA InitIInv == Init => IInv
BY DEF Init, IInv, TypeOK, AtOK, FlagIsKept, FullIsFlushed

\* add: the caller that sets the flag starts the timer, the caller that fills
\* the bucket starts the flush.
LEMMA AddIInv ==
    ASSUME IInv, NEW c \in Callers, NEW i \in Items, Add(c, i) PROVE IInv'
<1> DEFINE s == ShardOf[i]
<1> DEFINE b == buf[s] \cup {i}
<1>1. s \in Shards /\ b \in SUBSET Items
  BY BatcherAssumption DEF IInv, TypeOK
<1>2. TypeOK'
  BY <1>1, BatcherAssumption DEF IInv, TypeOK, Add, NeedArm
<1>3. AtOK'
  BY <1>1 DEF IInv, TypeOK, AtOK, Add
<1>4. ASSUME NEW r \in Shards PROVE FlagIsKept(r)' /\ FullIsFlushed(r)'
  <2>1. CASE r # s
    BY <1>1, <2>1 DEF IInv, TypeOK, Add, FlagIsKept, FullIsFlushed, Coming
  <2>2. CASE r = s
    <3>1. /\ arms'[s] = (arms[s] \/ NeedArm(s, b)) /\ UNCHANGED <<timers, due>>
          /\ pc'[c] = IF Full(b) THEN "flush" ELSE IF NeedArm(s, b) THEN "arm" ELSE "idle"
          /\ Full(b) \/ NeedArm(s, b) => at'[c] = s
      BY <1>1 DEF IInv, TypeOK, Add
    <3>2. ASSUME NEW d \in Callers, pc[d] # "idle" PROVE pc'[d] = pc[d] /\ at'[d] = at[d]
      BY <3>2 DEF IInv, TypeOK, Add
    <3>3. \A what \in {"arm", "flush"} : Coming(s, what) => Coming(s, what)'
      BY <3>2 DEF Coming
    <3>4. /\ Full(b) => Coming(s, "flush")'
          /\ NeedArm(s, b) => Coming(s, "arm")'
      BY <3>1 DEF Coming, NeedArm
    <3>5. FlagIsKept(s)'
      BY <1>1, <3>1, <3>3, <3>4 DEF IInv, FlagIsKept
    <3>6. FullIsFlushed(s)'
      BY <1>1, <3>1, <3>3, <3>4 DEF IInv, TypeOK, FullIsFlushed, NeedArm
    <3> QED BY <2>2, <3>5, <3>6
  <2> QED BY <2>1, <2>2
<1> QED BY <1>2, <1>3, <1>4 DEF IInv

\* After the unlock the promise of a caller becomes a flush or a timer.
LEMMA StartIInv ==
    ASSUME IInv, NEW c \in Callers, Start(c) PROVE IInv'
<1>1. CASE SpawnFlush(c)
  BY <1>1 DEF IInv, TypeOK, AtOK, SpawnFlush, Return, FlagIsKept, FullIsFlushed, Coming
<1>2. CASE StartTimer(c)
  BY <1>2 DEF IInv, TypeOK, AtOK, StartTimer, Return, FlagIsKept, FullIsFlushed, Coming
<1> QED BY <1>1, <1>2 DEF Start

\* A timer becomes a flush; a flush clears bucket and flag together.
LEMMA FlushIInv ==
    ASSUME IInv, NEW s \in Shards, Expire(s) \/ Take(s) PROVE IInv'
<1>1. CASE Expire(s)
  BY <1>1 DEF IInv, TypeOK, AtOK, Expire, FlagIsKept, FullIsFlushed, Coming
<1>2. CASE Take(s)
  <2>1. PICK f \in Flushers : TakeBucket(s, f)
    BY <1>2 DEF Take
  <2> QED
    BY <2>1 DEF IInv, TypeOK, AtOK, TakeBucket, ClearFlag, FlagIsKept, FullIsFlushed, Coming
<1> QED BY <1>1, <1>2

\* Writing a batch does not touch the buckets.
LEMMA FinishIInv ==
    ASSUME IInv, NEW f \in Flushers, Finish(f) PROVE IInv'
BY DEF IInv, TypeOK, AtOK, Finish, Update, UpdateFails, Written, FlagIsKept,
       FullIsFlushed, Coming

\* A restarted process is empty.
LEMMA CrashIInv == ASSUME IInv, Crash PROVE IInv'
<1>1. Waiting \subseteq Items
  BY DEF IInv, TypeOK, Waiting
<1>2. lost' \subseteq Items /\ stored' \subseteq Items
  BY <1>1 DEF IInv, TypeOK, Crash
<1>3. TypeOK'
  BY <1>2 DEF TypeOK, Crash
<1>4. AtOK' /\ \A s \in Shards : FlagIsKept(s)' /\ FullIsFlushed(s)'
  BY DEF AtOK, Crash, FlagIsKept, FullIsFlushed
<1> QED BY <1>3, <1>4 DEF IInv

\* The invariant is inductive.
LEMMA StepIInv == IInv /\ [Next]_vars => IInv'
<1> SUFFICES ASSUME IInv, [Next]_vars PROVE IInv'
  OBVIOUS
<1>1. CASE Next
  BY <1>1, AddIInv, StartIInv, FlushIInv, FinishIInv, CrashIInv DEF Next
<1>2. CASE UNCHANGED vars
  BY <1>2 DEF IInv, TypeOK, AtOK, FlagIsKept, FullIsFlushed, Coming, vars, mem
<1> QED BY <1>1, <1>2

\* The inductive invariant holds in every reachable state.
LEMMA Invariant == Spec => []IInv
BY InitIInv, StepIInv, PTL DEF Spec

\* The state of the batcher always has its type.
THEOREM TypeCorrect == Spec => []TypeOK
<1>1. IInv => TypeOK
  BY DEF IInv
<1> QED BY <1>1, Invariant, PTL

\* No bucket of markBatcher ever holds marks without a timer or a flush to
\* come, in whatever order adds, timers, flushes and crashes happen.
THEOREM MarksAreFlushed == Spec => []NoMarkIsStranded
<1>1. IInv => NoMarkIsStranded
  BY DEF IInv, TypeOK, FlagIsKept, FullIsFlushed, NoMarkIsStranded
<1> QED BY <1>1, Invariant, PTL

-----------------------------------------------------------------------------
(* The batcher implements MarkQueue.                                       *)

\* The empty batcher is an empty queue.
LEMMA QueueInit == Init => Queue!Init
BY DEF Init, Queue!Init, Waiting

\* Taking a bucket moves marks between memory and memory: the queue stutters.
LEMMA TakeStutters ==
    ASSUME IInv, NEW s \in Shards, NEW f \in Flushers, TakeBucket(s, f)
    PROVE  UNCHANGED <<Waiting, stored, lost>>
<1>1. \A r \in Shards : buf'[r] = IF r = s THEN {} ELSE buf[r]
  BY DEF IInv, TypeOK, TakeBucket
<1>2. \A g \in Flushers : rows'[g] = IF g = f THEN buf[s] ELSE rows[g]
  BY DEF IInv, TypeOK, TakeBucket
<1>3. rows[f] = {}
  BY DEF TakeBucket
<1>4. ASSUME NEW i \in Waiting PROVE i \in Waiting'
  <2>1. CASE \E r \in Shards : i \in buf[r]
    BY <1>1, <1>2, <2>1 DEF Waiting
  <2>2. CASE \E g \in Flushers : i \in rows[g]
    BY <1>2, <1>3, <2>2 DEF Waiting
  <2> QED BY <2>1, <2>2 DEF Waiting
<1>5. ASSUME NEW i \in Waiting' PROVE i \in Waiting
  <2>1. CASE \E r \in Shards : i \in buf'[r]
    BY <1>1, <2>1 DEF Waiting
  <2>2. CASE \E g \in Flushers : i \in rows'[g]
    BY <1>2, <2>2 DEF Waiting
  <2> QED BY <2>1, <2>2 DEF Waiting
<1>6. UNCHANGED <<stored, lost>>
  BY DEF TakeBucket
<1> QED BY <1>4, <1>5, <1>6

\* The end of an UPDATE takes its batch, and nothing else, out of the queue.
LEMMA FinishTakesBatch ==
    ASSUME IInv, NEW f \in Flushers, rows' = [rows EXCEPT ![f] = {}], buf' = buf
    PROVE  /\ rows[f] \subseteq Waiting /\ rows[f] \in SUBSET Items
           /\ Waiting' \subseteq Waiting /\ Waiting \ Waiting' \subseteq rows[f]
<1>1. \A g \in Flushers : rows'[g] = IF g = f THEN {} ELSE rows[g]
  BY DEF IInv, TypeOK
<1>2. rows[f] \subseteq Waiting
  BY DEF Waiting
<1>3. rows[f] \in SUBSET Items
  BY DEF IInv, TypeOK
<1>4. Waiting' \subseteq Waiting
  BY <1>1 DEF Waiting
<1>5. Waiting \ Waiting' \subseteq rows[f]
  BY <1>1 DEF Waiting
<1> QED BY <1>2, <1>3, <1>4, <1>5

\* add puts one mark into the queue.
LEMMA AddAdds ==
    ASSUME IInv, NEW c \in Callers, NEW i \in Items, Add(c, i)
    PROVE  Queue!Add(i)
<1>1. ShardOf[i] \in Shards
  BY BatcherAssumption
<1>2. \A r \in Shards : buf'[r] = IF r = ShardOf[i] THEN buf[r] \cup {i} ELSE buf[r]
  BY DEF IInv, TypeOK, Add
<1>3. rows' = rows /\ stored' = stored /\ lost' = lost
  BY DEF Add
<1>4. Waiting' = Waiting \cup {i}
  <2>1. ASSUME NEW j \in Waiting' PROVE j \in Waiting \cup {i}
    <3>1. CASE \E r \in Shards : j \in buf'[r]
      BY <1>2, <3>1 DEF Waiting
    <3>2. CASE \E g \in Flushers : j \in rows'[g]
      BY <1>3, <3>2 DEF Waiting
    <3> QED BY <3>1, <3>2 DEF Waiting
  <2>2. ASSUME NEW j \in Waiting \cup {i} PROVE j \in Waiting'
    <3>1. CASE \E r \in Shards : j \in buf[r]
      BY <1>2, <3>1 DEF Waiting
    <3>2. CASE \E g \in Flushers : j \in rows[g]
      BY <1>3, <3>2 DEF Waiting
    <3>3. CASE j = i
      <4>1. i \in buf'[ShardOf[i]]
        BY <1>1, <1>2
      <4> QED BY <1>1, <3>3, <4>1 DEF Waiting
    <3> QED BY <3>1, <3>2, <3>3 DEF Waiting
  <2> QED BY <2>1, <2>2
<1> QED BY <1>3, <1>4 DEF Queue!Add

\* A crash drops the whole queue.
LEMMA CrashLoses == ASSUME IInv, Crash PROVE Queue!Lose(Waiting) /\ Waiting \in SUBSET Items
<1>1. Waiting' = {}
  BY DEF Crash, Waiting
<1>2. Waiting \in SUBSET Items
  BY DEF IInv, TypeOK, Waiting
<1> QED BY <1>1, <1>2 DEF Crash, Queue!Lose

\* Every step of the batcher is a step of the queue or leaves it alone.
LEMMA QueueStep == IInv /\ [Next]_vars => [Queue!Next]_(Queue!vars)
<1> SUFFICES ASSUME IInv, [Next]_vars PROVE [Queue!Next]_(Queue!vars)
  OBVIOUS
<1>1. ASSUME NEW c \in Callers, Start(c) PROVE UNCHANGED Queue!vars
  BY <1>1 DEF Start, SpawnFlush, StartTimer, Queue!vars, Waiting
<1>2. ASSUME NEW c \in Callers, NEW i \in Items, Add(c, i) PROVE Queue!Next
  BY <1>2, AddAdds DEF Queue!Next
<1>3. ASSUME NEW s \in Shards, Expire(s) PROVE UNCHANGED Queue!vars
  BY <1>3 DEF Expire, Queue!vars, Waiting
<1>4. ASSUME NEW s \in Shards, Take(s) PROVE UNCHANGED Queue!vars
  BY <1>4, TakeStutters DEF Take, Queue!vars
<1>5. ASSUME NEW f \in Flushers, Update(f) PROVE Queue!Next
  <2>1. Queue!Write(rows[f]) /\ rows[f] \in SUBSET Items
    BY <1>5, FinishTakesBatch DEF Update, Written, Queue!Write
  <2> QED BY <2>1 DEF Queue!Next
<1>6. ASSUME NEW f \in Flushers, UpdateFails(f) PROVE Queue!Next
  <2>1. Queue!Lose(rows[f]) /\ rows[f] \in SUBSET Items
    BY <1>6, FinishTakesBatch DEF UpdateFails, Queue!Lose
  <2> QED BY <2>1 DEF Queue!Next
<1>7. CASE Crash
  BY <1>7, CrashLoses DEF Queue!Next
<1>8. CASE UNCHANGED vars
  BY <1>8 DEF vars, mem, Queue!vars, Waiting
<1> QED BY <1>1, <1>2, <1>3, <1>4, <1>5, <1>6, <1>7, <1>8 DEF Next, Finish

\* markBatcher implements the queue of marks that the delivery layer relies on:
\* a mark that was added is written, waiting, or lost by a failure.
THEOREM BatcherIsQueue == Spec => QueueSpec
<1>1. Init => Queue!Init
  BY QueueInit
<1>2. IInv /\ [Next]_vars => [Queue!Next]_(Queue!vars)
  BY QueueStep
<1> QED BY <1>1, <1>2, Invariant, PTL DEF Spec, QueueSpec, Queue!Spec

-----------------------------------------------------------------------------
(* ReadState *)

\* What a call has in hand is behind the row it came from, and a call that is
\* about to use a position has one.
CallHolds(c) ==
    /\ stage[c] \in {"fill", "write"} => m[c] \in Nat /\ m[c] <= last
    /\ stage[c] = "put" => n[c] \in Nat /\ n[c] <= read
    /\ stage[c] = "write" => n[c] \in Nat
    /\ c \in Markers /\ stage[c] \in {"mark", "load", "fill"} => n[c] \in Nat
    /\ stage[c] = "list" => c \notin Markers

\* A flag stands for a timer, and each flush was asked for by a message.
FlushesHold == (armed => flushes > 0) /\ flushes <= Cardinality(committed)

RowsHold ==
    /\ read <= last /\ last <= Newest
    /\ meta # None => meta <= last
    /\ mark # None => mark <= read

ReadInv ==
    /\ ReadTypeOK /\ FlushesHold /\ RowsHold /\ OldMetaIsExcused
    /\ \A c \in Calls : CallHolds(c)

Levels == 0..MaxSeq
Keys == Levels \cup {None}
Stages == {"idle", "mark", "list", "load", "fill", "write", "put", "look", "select"}

\* The types in a form that names each variable
LEMMA ReadTypes ==
    ASSUME ReadTypeOK
    PROVE  /\ committed \subseteq Seqs /\ entry \in committed \cup {0} /\ entry \in Levels
           /\ armed \in BOOLEAN /\ flushes \in Levels /\ (entry # 0 => flushes > 0)
           /\ upd \subseteq committed /\ del \subseteq committed /\ missed \subseteq committed
           /\ last \in Levels /\ read \in Levels /\ meta \in Keys /\ mark \in Keys
           /\ stage \in [Calls -> Stages] /\ n \in [Calls -> Keys] /\ m \in [Calls -> Keys]
           /\ excused \in BOOLEAN /\ creating \in BOOLEAN /\ faults \in 0..MaxFaults
           /\ MaxSeq \in Nat \ {0} /\ None \notin Nat
BY ReadStateAssumption DEF ReadTypeOK, Levels, Keys, Stages, Seqs

\* A nonempty set of numbers up to top has a largest one.
LEMMA HasMax ==
    ASSUME NEW top \in Nat, NEW S, S \subseteq 0..top, S # {}
    PROVE  Max(S) \in S /\ \A y \in S : y <= Max(S)
<1> DEFINE from(x) == {k \in S : k >= x}
           R == StrictSubsetOrdering(0..top)
           T == {from(x) : x \in S}
<1>1. S \subseteq Int
  OBVIOUS
<1>2. \A x \in S : from(x) \in FiniteSubsetsOf(0..top)
  <2>1. IsFiniteSet(0..top)
    BY FS_Interval
  <2>2. \A x \in S : from(x) \in SUBSET (0..top)
    OBVIOUS
  <2> QED BY <2>1, <2>2, FS_Subset DEF FiniteSubsetsOf
<1>3. PICK t \in T : \A s \in T : ~ (<<s, t>> \in R)
  <2>1. T \subseteq FiniteSubsetsOf(0..top) /\ T # {}
    BY <1>2
  <2> HIDE DEF T
  <2>2. IsWellFoundedOn(R, FiniteSubsetsOf(0..top))
    BY FS_StrictSubsetOrderingWellFounded
  <2> HIDE DEF R
  <2> QED BY <2>1, <2>2, WFMin
<1>4. PICK x \in S : t = from(x)
  OBVIOUS
<1>5. ASSUME NEW y \in S, ~ (x >= y) PROVE FALSE
  <2>1. x \in Int /\ y \in Int /\ x >= x /\ \A k \in S : k >= y => k >= x
    BY <1>1, <1>5
  <2>2. from(y) \subseteq from(x) /\ x \in from(x) /\ x \notin from(y)
    BY <2>1, <1>5
  <2>3. from(y) \in SUBSET (0..top) /\ from(x) \in SUBSET (0..top) /\ from(y) \in T
    OBVIOUS
  <2>4. <<from(y), t>> \in R
    BY <2>2, <2>3, <1>4 DEF StrictSubsetOrdering
  <2> QED BY <2>3, <2>4, <1>3
<1>6. \A y \in S : x >= y
  BY <1>5
<1>7. Max(S) \in S /\ \A y \in S : Max(S) >= y
  <2> HIDE DEF T, R, from
  <2> QED BY <1>6 DEF Max
<1> QED BY <1>1, <1>7

\* The newest message
LEMMA NewestFacts ==
    ASSUME committed \subseteq Seqs
    PROVE  Newest \in Levels /\ \A s \in committed : s <= Newest
<1>1. committed \cup {0} \subseteq 0..MaxSeq /\ committed \cup {0} # {} /\ MaxSeq \in Nat
  BY ReadStateAssumption DEF Seqs
<1> QED BY <1>1, HasMax DEF Newest, Levels

\* Another message leaves what was newest behind the newest.
LEMMA NewestGrows ==
    ASSUME committed \subseteq Seqs, committed' \subseteq Seqs, committed \subseteq committed'
    PROVE  Newest \in Nat /\ Newest' \in Nat /\ Newest <= Newest'
<1>1. /\ committed \cup {0} \subseteq 0..MaxSeq /\ MaxSeq \in Nat
      /\ committed' \cup {0} \subseteq 0..MaxSeq
  BY ReadStateAssumption DEF Seqs
<1>2. Max(committed \cup {0}) \in committed \cup {0}
  BY <1>1, HasMax
<1>3. /\ Max(committed' \cup {0}) \in committed' \cup {0}
      /\ \A y \in committed' \cup {0} : y <= Max(committed' \cup {0})
  BY <1>1, HasMax
<1> QED BY <1>1, <1>2, <1>3 DEF Newest

\* The committed messages are finitely many.
LEMMA CommittedSize ==
    ASSUME NEW S, S \subseteq Seqs
    PROVE  IsFiniteSet(S) /\ Cardinality(S) \in Nat /\ Cardinality(S) <= MaxSeq
<1>1. MaxSeq \in Nat /\ IsFiniteSet(1..MaxSeq) /\ Cardinality(1..MaxSeq) = MaxSeq
  <2>1. MaxSeq \in Nat \ {0} /\ 1 \in Int /\ MaxSeq \in Int
    BY ReadStateAssumption
  <2> QED BY <2>1, FS_Interval
<1>2. IsFiniteSet(S) /\ Cardinality(S) <= MaxSeq
  BY <1>1, FS_Subset DEF Seqs
<1> QED BY <1>2, FS_CardinalityType

\* The empty conversation satisfies the invariant.
LEMMA ReadInitInv == ReadInit => ReadInv
<1> SUFFICES ASSUME ReadInit PROVE ReadInv
  OBVIOUS
<1>1. ReadTypeOK
  <2>1. 0 \in Levels /\ None \in Keys /\ 0 \in 0..MaxFaults /\ "idle" \in Stages
    BY ReadStateAssumption DEF Levels, Keys, Stages
  <2>2. stage \in [Calls -> Stages] /\ n \in [Calls -> Keys] /\ m \in [Calls -> Keys]
    BY <2>1 DEF ReadInit
  <2> QED BY <2>1, <2>2 DEF ReadInit, ReadTypeOK, Levels, Keys, Stages
<1>2. FlushesHold
  BY FS_EmptySet DEF ReadInit, FlushesHold
<1>3. RowsHold
  <2>1. Newest \in Levels
    BY <1>1, NewestFacts DEF ReadTypeOK
  <2> QED BY <2>1, ReadStateAssumption DEF ReadInit, RowsHold, Levels
<1>4. OldMetaIsExcused /\ \A c \in Calls : CallHolds(c)
  BY DEF ReadInit, OldMetaIsExcused, CallHolds
<1> QED BY <1>1, <1>2, <1>3, <1>4 DEF ReadInv

-----------------------------------------------------------------------------
\* The larger and the lesser of two levels
LEMMA Levelled ==
    ASSUME NEW a \in Levels, NEW b \in Levels
    PROVE  /\ Larger(a, b) \in {a, b} /\ Larger(a, b) \in Levels
           /\ Larger(a, b) >= a /\ Larger(a, b) >= b
           /\ Clamped(a, b) \in {a, b} /\ Clamped(a, b) \in Levels
           /\ Clamped(a, b) <= a /\ Clamped(a, b) <= b
BY ReadStateAssumption DEF Levels, Larger, Clamped

\* The types of the calls
CallTypes == stage \in [Calls -> Stages] /\ n \in [Calls -> Keys] /\ m \in [Calls -> Keys]

\* The types of the messages and the batcher
BatcherTypes ==
    /\ committed \subseteq Seqs /\ entry \in committed \cup {0}
    /\ armed \in BOOLEAN /\ flushes \in Levels /\ (entry # 0 => flushes > 0)
    /\ upd \subseteq committed /\ del \subseteq committed /\ missed \subseteq committed

\* The types of the rows, of the keys and of what is only counted
RowTypes ==
    /\ last \in Levels /\ read \in Levels /\ meta \in Keys /\ mark \in Keys
    /\ excused \in BOOLEAN /\ creating \in BOOLEAN /\ faults \in 0..MaxFaults

LEMMA TypesSplit == ReadTypeOK <=> CallTypes /\ BatcherTypes /\ RowTypes
BY DEF ReadTypeOK, CallTypes, BatcherTypes, RowTypes, Levels, Keys, Stages

\* A fault is counted up to the bound.
LEMMA FaultType ==
    ASSUME RowTypes, Fault \/ NoFault PROVE faults' \in 0..MaxFaults
BY ReadStateAssumption DEF RowTypes, Fault, NoFault

\* The steps of a call keep the types of the calls.
LEMMA ServeCallTypes ==
    ASSUME ReadTypeOK, NEW c \in Calls, Serve(c) PROVE CallTypes'
<1> USE ReadTypes DEF CallTypes
<1>0. /\ {"idle", "look", "write", "load", "fill", "put", "select"} \subseteq Stages
      /\ None \in Keys /\ Levels \subseteq Keys
  BY DEF Stages, Keys
<1>1. ASSUME NEW top \in Keys, HasMeta(c, top)
      PROVE  stage' \in [Calls -> Stages] /\ m' \in [Calls -> Keys]
  BY <1>0, <1>1 DEF HasMeta
<1>2. CASE GetMeta(c)
  BY <1>0, <1>1, <1>2 DEF GetMeta
<1>3. CASE LoadMeta(c)
  BY <1>0, <1>3 DEF LoadMeta
<1>4. CASE FillMeta(c)
  <2>1. m[c] \in Keys
    OBVIOUS
  <2> QED BY <1>1, <1>4, <2>1 DEF FillMeta
<1>5. ASSUME Leave(c) PROVE CallTypes'
  BY <1>0, <1>5 DEF Leave
<1>6. CASE Write(c)
  <2> DEFINE s == Clamped(n[c], m[c])
  <2>1. s \in Keys
    BY DEF Clamped
  <2>2. CASE Leave(c)
    BY <1>5, <2>2
  <2>3. CASE /\ n' = [n EXCEPT ![c] = s] /\ stage' = [stage EXCEPT ![c] = "put"]
             /\ m' = [m EXCEPT ![c] = None]
    <3> HIDE DEF s
    <3> QED BY <1>0, <2>1, <2>3
  <2> QED BY <1>6, <2>2, <2>3 DEF Write
<1>7. CASE Put(c)
  BY <1>5, <1>7 DEF Put
<1>8. CASE Look(c)
  BY <1>0, <1>5, <1>8 DEF Look
<1>9. CASE Select(c)
  BY <1>0, <1>5, <1>9 DEF Select
<1> QED BY <1>2, <1>3, <1>4, <1>6, <1>7, <1>8, <1>9 DEF Serve

\* The steps of a call keep the types of the rows.
LEMMA ServeRowTypes ==
    ASSUME ReadTypeOK, \A d \in Calls : CallHolds(d), NEW c \in Calls, Serve(c)
    PROVE  RowTypes'
<1> USE ReadTypes
<1>0. Fault \/ NoFault
  BY DEF Serve, GetMeta, LoadMeta, FillMeta, Write, Put, Look, Select
<1>1. faults' \in 0..MaxFaults
  BY <1>0, FaultType, TypesSplit
<1>2. last' = last
  BY DEF Serve, GetMeta, LoadMeta, FillMeta, Write, Put, Look, Select
<1>3. read' \in Levels
  <2>1. CASE Write(c)
    <3>1. stage[c] = "write" => n[c] \in Levels /\ m[c] \in Levels
      BY DEF CallHolds, Keys
    <3> QED BY <2>1, <3>1, Levelled DEF Write
  <2>2. CASE ~ Write(c)
    BY <2>2 DEF Serve, GetMeta, LoadMeta, FillMeta, Put, Look, Select
  <2> QED BY <2>1, <2>2
<1>4. meta' \in Keys /\ mark' \in Keys
  BY DEF Serve, GetMeta, LoadMeta, FillMeta, Write, Put, Look, Select, redis
<1>5. excused' \in BOOLEAN
  <2>1. excused' = (m[c] < last) \/ excused' = excused
    BY DEF Serve, GetMeta, LoadMeta, FillMeta, Write, Put, Look, Select
  <2>2. (m[c] < last) \in BOOLEAN /\ excused \in BOOLEAN
    OBVIOUS
  <2> QED BY <2>1, <2>2, Zenon
<1>6. creating' = creating
  BY DEF Serve, GetMeta, LoadMeta, FillMeta, Write, Put, Look, Select
<1> QED BY <1>1, <1>2, <1>3, <1>4, <1>5, <1>6 DEF RowTypes

\* A message adds at most one flush, which its entry waits for.
LEMMA CommitBatcher ==
    ASSUME ReadTypeOK, FlushesHold, NEW s \in Seqs, Commit(s)
    PROVE  BatcherTypes' /\ FlushesHold'
<1> USE ReadTypes
<1>1. /\ committed' \subseteq Seqs /\ upd' \subseteq committed' /\ del' \subseteq committed'
      /\ missed' \subseteq committed'
  BY DEF Commit
<1>2. Cardinality(committed') = Cardinality(committed) + 1
  BY CommittedSize, FS_AddElement DEF Commit
<1>3. /\ Cardinality(committed) \in Nat
      /\ Cardinality(committed') <= MaxSeq
  BY <1>1, CommittedSize
<1>4. flushes' \in {flushes, flushes + 1} /\ flushes \in Nat
  BY DEF Commit, Levels
<1>5. flushes' \in Nat /\ flushes' <= Cardinality(committed')
  BY <1>2, <1>3, <1>4 DEF FlushesHold
<1>6. flushes' \in Levels
  BY <1>3, <1>5, <1>2 DEF Levels
<1>7. entry' \in committed' \cup {0}
  BY DEF Commit, Entered, Larger
<1>8. armed' \in BOOLEAN
  BY DEF Commit
<1>9. flushes' > 0
  BY <1>4 DEF Commit, FlushesHold
<1> QED BY <1>1, <1>5, <1>6, <1>7, <1>8, <1>9 DEF BatcherTypes, FlushesHold

\* A flush takes the entry and clears the flag.
LEMMA TakeBatcher ==
    ASSUME ReadTypeOK, FlushesHold, TakeEntry PROVE BatcherTypes' /\ FlushesHold'
<1> USE ReadTypes
<1>1. flushes' \in Levels /\ flushes' <= flushes
  BY DEF TakeEntry, Levels
<1>2. Cardinality(committed) \in Nat /\ flushes \in Nat /\ flushes' \in Nat
  BY <1>1, CommittedSize DEF Levels
<1>3. flushes' <= Cardinality(committed)
  BY <1>1, <1>2 DEF FlushesHold
<1> QED BY <1>1, <1>3 DEF BatcherTypes, FlushesHold, TakeEntry

\* The other steps ask for no flush and lose none, except for a restart, which
\* forgets the bucket too.
LEMMA RestBatcher ==
    ASSUME ReadTypeOK, FlushesHold, [ReadNext]_readVars,
           \A s \in Seqs : ~ Commit(s), ~ TakeEntry
    PROVE  BatcherTypes' /\ FlushesHold'
<1> USE ReadTypes
<1>0. CASE UNCHANGED <<committed, entry, armed, flushes, upd, del, missed>>
  BY <1>0 DEF BatcherTypes, FlushesHold
<1>1. ASSUME NEW s \in Seqs, UpdateLast(s) \/ Drop(s) PROVE BatcherTypes' /\ FlushesHold'
  BY <1>1 DEF UpdateLast, Drop, Drops, BatcherTypes, FlushesHold
<1>2. CASE Restart
  <2>1. Cardinality(committed) \in Nat /\ 0 \in Levels
    BY CommittedSize DEF Levels
  <2>2. BatcherTypes'
    BY <1>2, <2>1 DEF Restart, BatcherTypes
  <2>3. committed' = committed /\ flushes' = 0 /\ armed' = FALSE
    BY <1>2 DEF Restart
  <2>4. 0 <= Cardinality(committed)
    BY <2>1
  <2> QED BY <2>2, <2>3, <2>4 DEF FlushesHold
<1>3. CASE Reconcile \/ (\E c \in Calls : Serve(c)) \/ (\E c \in Markers, s \in Seqs : Poll(c, s))
           \/ (\E c \in Readers : List(c)) \/ CacheNew \/ ExpireMeta \/ ExpireMark \/ UNCHANGED readVars
  BY <1>0, <1>3 DEF Reconcile, Serve, GetMeta, LoadMeta, FillMeta, Write, Put, Look, Select,
                    Poll, List, ExpireMeta, CacheNew, ExpireMark, readVars, batcher
<1> QED BY <1>1, <1>2, <1>3 DEF ReadNext, Flush

\* A step keeps the types.
LEMMA ReadTypeStep ==
    ASSUME ReadTypeOK, FlushesHold, \A d \in Calls : CallHolds(d), [ReadNext]_readVars
    PROVE  ReadTypeOK' /\ FlushesHold'
<1> USE ReadTypes
<1>1. BatcherTypes' /\ FlushesHold'
  BY CommitBatcher, TakeBatcher, RestBatcher
<1>2. CallTypes'
  <2>0. CASE UNCHANGED calls
    BY <2>0 DEF CallTypes, calls
  <2>1. CASE \E c \in Calls : Serve(c)
    BY <2>1, ServeCallTypes
  <2>2. ASSUME NEW c \in Markers, NEW s \in Seqs, Poll(c, s) PROVE CallTypes'
    <3>1. s \in Keys /\ "mark" \in Stages
      BY DEF Seqs, Keys, Levels, Stages
    <3> QED BY <2>2, <3>1 DEF Poll, CallTypes
  <2>3. ASSUME NEW c \in Readers, List(c) PROVE CallTypes'
    BY <2>3 DEF List, CallTypes, Stages
  <2>4. CASE Restart
    BY <2>4 DEF Restart, CallTypes, Stages, Keys
  <2>5. CASE (\E s \in Seqs : Commit(s)) \/ Flush \/ Reconcile \/ CacheNew \/ ExpireMeta \/ ExpireMark
             \/ UNCHANGED readVars
    BY <2>0, <2>5 DEF Commit, Flush, TakeEntry, UpdateLast, Drop, Reconcile, ExpireMeta,
                      CacheNew, ExpireMark, readVars, calls
  <2> QED BY <2>1, <2>2, <2>3, <2>4, <2>5 DEF ReadNext
<1>3. RowTypes'
  <2>0. RowTypes
    BY DEF RowTypes
  <2>1. CASE \E c \in Calls : Serve(c)
    BY <2>1, ServeRowTypes
  <2>2. CASE ~ (\E c \in Calls : Serve(c)) /\ ~ UNCHANGED readVars
    <3>1. Fault \/ NoFault
      BY <2>2 DEF ReadNext, Commit, Flush, TakeEntry, UpdateLast, Drop, Reconcile, Poll, List,
                  ExpireMeta, CacheNew, ExpireMark, Restart
    <3>2. faults' \in 0..MaxFaults
      BY <2>0, <3>1, FaultType
    <3>3. \A s \in Seqs : s \in Levels
      BY DEF Seqs, Levels
    <3>7. creating' \in BOOLEAN
      BY <2>2 DEF ReadNext, Commit, Flush, TakeEntry, UpdateLast, Drop, Reconcile, Poll, List,
                  ExpireMeta, CacheNew, ExpireMark, Restart
    <3>8. 0 \in Keys
      BY DEF Keys, Levels
    <3>4. last' \in Levels
      BY <2>2, <3>3, Levelled
         DEF ReadNext, Commit, Flush, TakeEntry, UpdateLast, Drop, Reconcile, Poll,
             List, ExpireMeta, CacheNew, ExpireMark, Restart
    <3>5. read' = read /\ meta' \in Keys /\ mark' \in Keys
      BY <2>2, <3>8 DEF ReadNext, Commit, Flush, TakeEntry, UpdateLast, Drop, Reconcile, Poll, List,
                  ExpireMeta, CacheNew, ExpireMark, Restart, redis, Keys
    <3>6. excused' \in BOOLEAN
      <4>1. \/ excused' = excused \/ excused' = FALSE \/ excused' = (meta # None)
            \/ excused' = (last > 0) \/ excused' = (excused \/ (meta # None /\ del # {}))
        BY <2>2 DEF ReadNext, Commit, Flush, TakeEntry, UpdateLast, Drop, Reconcile, Poll, List,
                    ExpireMeta, CacheNew, ExpireMark, Restart
      <4>2. /\ excused \in BOOLEAN /\ (meta # None) \in BOOLEAN /\ (last > 0) \in BOOLEAN
            /\ (excused \/ (meta # None /\ del # {})) \in BOOLEAN
        OBVIOUS
      <4> QED BY <4>1, <4>2, Zenon
    <3> QED BY <3>2, <3>4, <3>5, <3>6, <3>7 DEF RowTypes
  <2>3. CASE UNCHANGED readVars
    BY <2>0, <2>3 DEF readVars, redis, RowTypes
  <2> QED BY <2>1, <2>2, <2>3
<1> QED BY <1>1, <1>2, <1>3, TypesSplit DEF ReadTypeOK, CallTypes, BatcherTypes, RowTypes, Levels, Keys, Stages

-----------------------------------------------------------------------------
\* last_seq and read_seq never fall.
LEMMA RowsRise ==
    ASSUME ReadInv, [ReadNext]_readVars PROVE last <= last' /\ read <= read'
<1> USE ReadTypes DEF ReadInv
<1>0. /\ last \in Levels /\ read \in Levels /\ last \in Nat /\ read \in Nat
      /\ \A s \in Seqs : s \in Levels
  BY DEF Levels, Seqs
<1>1. CASE last' = last /\ read' = read
  BY <1>0, <1>1
<1>2. ASSUME NEW s \in Seqs, last' = Larger(last, s), read' = read PROVE last <= last' /\ read <= read'
  <2>1. Larger(last, s) >= last /\ Larger(last, s) \in Levels
    BY <1>0, Levelled
  <2> QED BY <1>0, <1>2, <2>1 DEF Levels
<1>3. CASE Reconcile
  <2>1. PICK s \in committed : s > last /\ last' = s /\ read' = read
    BY <1>3 DEF Reconcile
  <2>2. s \in Nat
    BY <2>1 DEF Seqs
  <2> HIDE DEF ReadInv
  <2> QED BY <1>0, <2>1, <2>2
<1>4. ASSUME NEW c \in Calls, Write(c) PROVE last <= last' /\ read <= read'
  <2>1. n[c] \in Levels /\ m[c] \in Levels
    BY <1>4 DEF Write, CallHolds, Keys
  <2>2. Clamped(n[c], m[c]) \in Levels
    BY <2>1, Levelled
  <2>3. /\ Larger(read, Clamped(n[c], m[c])) >= read
        /\ Larger(read, Clamped(n[c], m[c])) \in Levels
    BY <1>0, <2>2, Levelled
  <2>4. last' = last /\ read' \in {read, Larger(read, Clamped(n[c], m[c]))}
    BY <1>4 DEF Write
  <2> HIDE DEF ReadInv
  <2> QED BY <1>0, <2>3, <2>4 DEF Levels
<1> QED BY <1>1, <1>2, <1>3, <1>4
        DEF ReadNext, Commit, Flush, TakeEntry, UpdateLast, Drop, Serve,
            GetMeta, LoadMeta, FillMeta, Put, Look, Select, Poll, List, ExpireMeta, CacheNew, ExpireMark,
            Restart, readVars

\* A position is only ever written from one that is behind: a message that
\* committed, the last_seq a call was clamped to, the row a reader selected.
LEMMA RowsStep ==
    ASSUME ReadInv, [ReadNext]_readVars PROVE RowsHold'
<1> USE ReadTypes DEF ReadInv
<1>0. /\ last \in Levels /\ read \in Levels /\ last \in Nat /\ read \in Nat
      /\ \A s \in Seqs : s \in Levels
      /\ Newest \in Nat /\ \A s \in committed : s <= Newest
  BY NewestFacts DEF Levels, Seqs
<1>1. Newest <= Newest' /\ Newest' \in Nat /\ (committed' = committed => Newest' = Newest)
  <2>1. committed \subseteq committed' /\ committed' \subseteq Seqs
    <3>1. ReadTypeOK'
      BY ReadTypeStep
    <3>2. committed' \subseteq Seqs
      BY <3>1 DEF ReadTypeOK
    <3>3. committed \subseteq committed'
      BY DEF ReadNext, Commit, Flush, TakeEntry, UpdateLast, Drop, Reconcile, Serve, GetMeta,
             LoadMeta, FillMeta, Write, Put, Look, Select, Poll, List, ExpireMeta, CacheNew, ExpireMark,
             Restart, readVars
    <3> QED BY <3>2, <3>3
  <2> QED BY <2>1, NewestGrows DEF Newest
<1>2. read' <= last'
  <2>1. ASSUME NEW c \in Calls, Write(c) PROVE read' <= last'
    <3>1. n[c] \in Levels /\ m[c] \in Levels /\ m[c] <= last
      BY <2>1 DEF Write, CallHolds, Keys
    <3> DEFINE s == Clamped(n[c], m[c])
    <3>2. s \in Levels /\ s <= m[c] /\ Larger(read, s) \in {read, s}
      BY <3>1, Levelled
    <3>3. s <= last /\ read <= last
      BY <3>1, <3>2, <1>0 DEF RowsHold, Levels
    <3>4. last' = last /\ read' \in {read, s}
      BY <2>1, <3>2 DEF Write
    <3> QED BY <3>3, <3>4
  <2>2. CASE read' = read
    <3>1. last <= last' /\ last' \in Nat
      BY RowsRise, ReadTypeStep DEF ReadTypeOK
    <3> QED BY <2>2, <3>1, <1>0 DEF RowsHold
  <2> QED BY <2>1, <2>2
          DEF ReadNext, Commit, Flush, TakeEntry, UpdateLast, Drop, Reconcile, Serve, GetMeta,
              LoadMeta, FillMeta, Put, Look, Select, Poll, List, ExpireMeta, CacheNew, ExpireMark,
              Restart, readVars
<1>3. last' <= Newest'
  <2>1. last <= Newest /\ last <= Newest'
    BY <1>0, <1>1 DEF RowsHold
  <2>2. CASE last' = last
    BY <2>1, <2>2
  <2>3. ASSUME NEW s \in committed, last' = Larger(last, s) PROVE last' <= Newest'
    <3>1. s <= Newest /\ s \in Levels /\ s \in Nat
      BY <1>0 DEF Levels
    <3>2. s <= Newest'
      BY <3>1, <1>0, <1>1
    <3> QED BY <2>1, <2>3, <3>1, <3>2, <1>0, Levelled
  <2>4. CASE Reconcile
    <3>1. PICK s \in committed : last' = s
      BY <2>4 DEF Reconcile
    <3> QED BY <3>1, <1>0, <1>1 DEF Levels
  <2> QED BY <2>2, <2>3, <2>4
          DEF ReadNext, Commit, Flush, TakeEntry, UpdateLast, Drop, Serve,
              GetMeta, LoadMeta, FillMeta, Write, Put, Look, Select, Poll, List, ExpireMeta,
              CacheNew, ExpireMark, Restart, readVars
<1>4. meta' # None => meta' <= last'
  <2>1. last <= last' /\ last' \in Nat
    BY RowsRise, ReadTypeStep DEF ReadTypeOK
  <2>2. ASSUME NEW c \in Calls, FillMeta(c) PROVE meta' <= last'
    <3>1. m[c] \in Nat /\ m[c] <= last /\ meta' = m[c]
      BY <2>2 DEF FillMeta, CallHolds
    <3> QED BY <2>1, <3>1, <1>0
  <2>3. CASE meta' \in {meta, None}
    BY <2>1, <2>3, <1>0 DEF RowsHold, Keys, Levels
  <2>4. CASE CacheNew
    BY <2>1, <2>4 DEF CacheNew
  <2> QED BY <2>2, <2>3, <2>4
          DEF ReadNext, Commit, Flush, TakeEntry, UpdateLast, Drop, Reconcile, Serve, GetMeta,
              LoadMeta, Write, Put, Look, Select, Poll, List, ExpireMeta, ExpireMark, Restart,
              readVars, redis
<1>5. mark' # None => mark' <= read'
  <2>1. read <= read' /\ read' \in Nat
    BY RowsRise, ReadTypeStep DEF ReadTypeOK
  <2>2. ASSUME NEW c \in Calls, Put(c) PROVE mark' <= read'
    <3>1. n[c] \in Nat /\ n[c] <= read /\ mark' = n[c]
      BY <2>2 DEF Put, CallHolds
    <3> QED BY <2>1, <3>1, <1>0
  <2>3. CASE mark' \in {mark, None}
    BY <2>1, <2>3, <1>0 DEF RowsHold, Keys, Levels
  <2> QED BY <2>2, <2>3
          DEF ReadNext, Commit, Flush, TakeEntry, UpdateLast, Drop, Reconcile, Serve, GetMeta,
              LoadMeta, FillMeta, Write, Look, Select, Poll, List, ExpireMeta, CacheNew, ExpireMark,
              Restart, readVars, redis
<1> QED BY <1>2, <1>3, <1>4, <1>5 DEF RowsHold

-----------------------------------------------------------------------------
\* Rows that rise stay ahead of what a call has in hand.
LEMMA CallStays ==
    ASSUME ReadInv, [ReadNext]_readVars, NEW d \in Calls,
           stage'[d] = stage[d], n'[d] = n[d], m'[d] = m[d]
    PROVE  CallHolds(d)'
<1>1. last <= last' /\ read <= read'
  BY RowsRise
<1>2. last \in Nat /\ read \in Nat /\ last' \in Nat /\ read' \in Nat
  BY ReadTypes, ReadTypeStep DEF ReadInv, ReadTypeOK, Levels
<1>3. CallHolds(d)
  BY DEF ReadInv
<1> QED BY <1>1, <1>2, <1>3 DEF CallHolds

\* The call that runs has taken its positions from rows that are ahead.
LEMMA ServeHolds ==
    ASSUME ReadInv, NEW c \in Calls, Serve(c) PROVE CallHolds(c)'
<1> USE ReadTypes DEF ReadInv
<1>0. /\ last \in Levels /\ read \in Levels /\ last \in Nat /\ read \in Nat
      /\ meta # None => meta \in Levels /\ meta \in Nat /\ meta <= last
      /\ CallHolds(c)
  BY DEF Levels, Keys, RowsHold
<1>1. ASSUME Leave(c) PROVE CallHolds(c)'
  BY <1>1 DEF Leave, CallHolds
<1>2. CASE GetMeta(c)
  <2>1. stage[c] \in {"mark", "list"} /\ n'[c] = n[c] /\ last' = last
    BY <1>2 DEF GetMeta
  <2>2. c \in Markers => n[c] \in Nat
    BY <1>0, <2>1 DEF CallHolds
  <2>3. CASE meta = None
    <3>1. stage'[c] = "load"
      BY <1>2, <2>3 DEF GetMeta
    <3> QED BY <2>1, <2>2, <3>1 DEF CallHolds
  <2>4. CASE meta # None
    <3>1. HasMeta(c, meta)
      BY <1>2, <2>4 DEF GetMeta
    <3>2. CASE c \in Markers
      <4>1. stage'[c] = "write" /\ m'[c] = meta
        BY <3>1, <3>2 DEF HasMeta
      <4>2. m'[c] \in Nat /\ m'[c] <= last' /\ n'[c] \in Nat
        BY <1>0, <2>1, <2>2, <2>4, <3>2, <4>1
      <4> QED BY <4>1, <4>2 DEF CallHolds
    <3>3. CASE c \notin Markers
      <4>1. stage'[c] = "look"
        BY <3>1, <3>3 DEF HasMeta
      <4> QED BY <4>1 DEF CallHolds
    <3> QED BY <3>2, <3>3
  <2> QED BY <2>3, <2>4
<1>3. CASE LoadMeta(c)
  <2>1. stage'[c] = "fill" /\ m'[c] = last /\ n'[c] = n[c] /\ last' = last /\ stage[c] = "load"
    BY <1>3 DEF LoadMeta
  <2>2. m'[c] \in Nat /\ m'[c] <= last'
    BY <1>0, <2>1
  <2> QED BY <1>0, <2>1, <2>2 DEF CallHolds
<1>4. CASE FillMeta(c)
  <2>1. stage[c] = "fill" /\ n'[c] = n[c] /\ last' = last /\ HasMeta(c, m[c])
    BY <1>4 DEF FillMeta
  <2>2. m[c] \in Nat /\ m[c] <= last /\ (c \in Markers => n[c] \in Nat)
    BY <1>0, <2>1 DEF CallHolds
  <2>3. CASE c \in Markers
    <3>1. stage'[c] = "write" /\ m'[c] = m[c]
      BY <2>1, <2>3 DEF HasMeta
    <3> QED BY <2>1, <2>2, <2>3, <3>1 DEF CallHolds
  <2>4. CASE c \notin Markers
    <3>1. stage'[c] = "look"
      BY <2>1, <2>4 DEF HasMeta
    <3> QED BY <3>1 DEF CallHolds
  <2> QED BY <2>3, <2>4
<1>5. CASE Write(c)
  <2> DEFINE s == Clamped(n[c], m[c])
  <2>1. n[c] \in Levels /\ m[c] \in Levels
    BY <1>5 DEF Write, CallHolds, Keys
  <2>2. s \in Levels /\ Larger(read, s) \in Levels /\ Larger(read, s) >= s
    BY <1>0, <2>1, Levelled
  <2>3. ASSUME read' = Larger(read, s), n' = [n EXCEPT ![c] = s], stage' = [stage EXCEPT ![c] = "put"]
        PROVE  CallHolds(c)'
    <3>1. stage'[c] = "put" /\ n'[c] = s
      BY <2>3
    <3>2. s \in Nat /\ s <= read'
      BY <2>2, <2>3 DEF Levels
    <3> HIDE DEF s
    <3> QED BY <3>1, <3>2 DEF CallHolds
  <2> QED BY <1>1, <1>5, <2>3 DEF Write
<1>6. CASE Put(c)
  BY <1>1, <1>6 DEF Put
<1>7. CASE Look(c)
  <2>1. stage'[c] = "select" \/ Leave(c)
    BY <1>7 DEF Look
  <2> QED BY <1>1, <2>1 DEF CallHolds
<1>8. CASE Select(c)
  <2>1. Leave(c) \/ (stage'[c] = "put" /\ n'[c] = read /\ read' = read)
    BY <1>8 DEF Select
  <2> QED BY <1>0, <1>1, <2>1 DEF CallHolds
<1> QED BY <1>2, <1>3, <1>4, <1>5, <1>6, <1>7, <1>8 DEF Serve

\* A step of one call leaves the others.
LEMMA CallsStep ==
    ASSUME ReadInv, [ReadNext]_readVars, NEW d \in Calls PROVE CallHolds(d)'
<1> USE ReadTypes DEF ReadInv
<1>1. CASE UNCHANGED calls
  BY <1>1, CallStays DEF calls
<1>2. ASSUME NEW c \in Calls, Serve(c) PROVE CallHolds(d)'
  <2>1. CASE c = d
    BY <1>2, <2>1, ServeHolds
  <2>2. CASE c # d
    <3>1. stage'[d] = stage[d] /\ n'[d] = n[d] /\ m'[d] = m[d]
      BY <1>2, <2>2 DEF Serve, GetMeta, HasMeta, LoadMeta, FillMeta, Write, Put, Look, Select, Leave
    <3> QED BY <3>1, CallStays
  <2> QED BY <2>1, <2>2
<1>3. ASSUME NEW c \in Markers, NEW s \in Seqs, Poll(c, s) PROVE CallHolds(d)'
  <2>1. CASE c # d
    BY <1>3, <2>1, CallStays DEF Poll
  <2>2. CASE c = d
    <3>1. stage'[d] = "mark" /\ n'[d] = s /\ s \in Nat
      BY <1>3, <2>2 DEF Poll, Seqs
    <3> QED BY <3>1 DEF CallHolds
  <2> QED BY <2>1, <2>2
<1>4. ASSUME NEW c \in Readers, List(c) PROVE CallHolds(d)'
  <2>1. CASE c # d
    BY <1>4, <2>1, CallStays DEF List
  <2>2. CASE c = d
    <3>1. stage'[d] = "list" /\ d \notin Markers
      BY <1>4, <2>2, ReadStateAssumption DEF List
    <3> QED BY <3>1 DEF CallHolds
  <2> QED BY <2>1, <2>2
<1>5. CASE Restart
  <2>1. stage'[d] = "idle"
    BY <1>5 DEF Restart
  <2> QED BY <2>1 DEF CallHolds
<1>6. CASE (\E s \in Seqs : Commit(s)) \/ Flush \/ Reconcile \/ CacheNew \/ ExpireMeta \/ ExpireMark
           \/ UNCHANGED readVars
  BY <1>1, <1>6 DEF Commit, Flush, TakeEntry, UpdateLast, Drop, Reconcile, ExpireMeta, CacheNew, ExpireMark,
                    readVars, calls
<1> QED BY <1>2, <1>3, <1>4, <1>5, <1>6 DEF ReadNext

\* last_seq moves past the cached one only with the drop to come or with an
\* excuse, and the excuse stays as long as the key does.
LEMMA OldMetaStep ==
    ASSUME ReadInv, [ReadNext]_readVars PROVE OldMetaIsExcused'
<1> USE ReadTypes DEF ReadInv, OldMetaIsExcused
<1>1. ASSUME NEW c \in Calls, FillMeta(c) PROVE OldMetaIsExcused'
  <2>1. meta' = m[c] /\ last' = last /\ excused' = (m[c] < last)
    BY <1>1 DEF FillMeta
  <2> QED BY <2>1
<1>2. ASSUME NEW s \in Seqs, UpdateLast(s) PROVE OldMetaIsExcused'
  <2>1. meta' = meta /\ excused' = excused
    BY <1>2 DEF UpdateLast, redis
  <2>2. CASE del' = del \cup {s}
    BY <2>2
  <2>3. CASE last' = last /\ del' = del
    BY <2>1, <2>3
  <2> QED BY <1>2, <2>2, <2>3 DEF UpdateLast, Drops
<1>3. ASSUME NEW s \in Seqs, Drop(s) PROVE OldMetaIsExcused'
  BY <1>3 DEF Drop
<1>4. CASE Reconcile
  <2>1. meta' = meta /\ excused' = (meta # None)
    BY <1>4 DEF Reconcile, redis
  <2> QED BY <2>1
<1>5. CASE Restart
  <2>1. meta' = meta /\ last' = last /\ excused' = (excused \/ (meta # None /\ del # {}))
    BY <1>5 DEF Restart, redis
  <2> QED BY <2>1
<1>6. CASE ExpireMeta
  BY <1>6 DEF ExpireMeta
<1>7. CASE CacheNew
  BY <1>7 DEF CacheNew
<1>8. CASE UNCHANGED <<meta, last, del, excused>>
  BY <1>8
<1> QED BY <1>1, <1>2, <1>3, <1>4, <1>5, <1>6, <1>7, <1>8
        DEF ReadNext, Commit, Flush, TakeEntry, Serve, GetMeta, LoadMeta, Write, Put, Look, Select,
            Poll, List, ExpireMark, readVars, redis, batcher

\* The invariant is inductive.
LEMMA ReadStepInv == ReadInv /\ [ReadNext]_readVars => ReadInv'
<1> SUFFICES ASSUME ReadInv, [ReadNext]_readVars PROVE ReadInv'
  OBVIOUS
<1>1. ReadTypeOK' /\ FlushesHold'
  BY ReadTypeStep DEF ReadInv
<1>2. RowsHold'
  BY RowsStep
<1>3. OldMetaIsExcused'
  BY OldMetaStep
<1>4. (\A c \in Calls : CallHolds(c))'
  BY CallsStep
<1> QED BY <1>1, <1>2, <1>3, <1>4 DEF ReadInv

\* The cached positions are behind the stored ones, read_seq is behind last_seq
\* and last_seq behind the messages, whatever readers, flushes, the
\* reconciliation and restarts do between each other's steps: no unread count
\* that a request computes from the rows is negative.
THEOREM PositionsAreBehind == ReadSpec => []EachIsBehind
<1>1. ReadInv => EachIsBehind
  BY DEF ReadInv, RowsHold, EachIsBehind
<1> QED BY <1>1, ReadInitInv, ReadStepInv, PTL DEF ReadSpec

\* Cached metadata with an old last_seq is about to be dropped, but for the
\* four ways to keep it until it expires that excused records.
THEOREM OldMetaIsDropped == ReadSpec => []OldMetaIsExcused
<1>1. ReadInv => OldMetaIsExcused
  BY DEF ReadInv
<1> QED BY <1>1, ReadInitInv, ReadStepInv, PTL DEF ReadSpec
=============================================================================
