------------------------ MODULE SeqAllocatorProofs ------------------------
(***************************************************************************)
(* Proofs about SeqAllocator, for any callers, step, batch sizes, number   *)
(* of attempts and bound on the numbers.                                   *)
(***************************************************************************)
EXTENDS SeqAllocator, TLAPS

(* The inductive invariant.                                                *)

\* Two segment objects never overlap, and what a segment can still hand out
\* has not been handed out.
SegInv ==
    /\ \A s, t \in DOMAIN cursor : s < t => s + Step <= t
    /\ \A s \in DOMAIN cursor : \A i \in issued : ~(cursor[s] < i /\ i <= s)

\* The prefetched segment lies above the current one, whoever may still store
\* into buf; numbers returned lie below what cur can still hand out.
PtrInv ==
    /\ buf # 0 => alloc /\ cur < buf
    /\ refills > 0 => alloc
    /\ mu = Refiller => alloc /\ buf = 0
    /\ alloc => top <= cursor[cur]

\* Where a caller stands.
CallInv(c) ==
    /\ pc[c] # "idle" => n[c] \in Batches
    /\ bar[c] <= top
    /\ pc[c] = "register" => seg[c] # 0 /\ (~alloc => top <= seg[c] - Step)
    /\ pc[c] = "cur" => alloc
    /\ pc[c] \in Past => alloc /\ seg[c] # 0 /\ seg[c] <= cur
    /\ pc[c] = "take" => bar[c] <= cursor[seg[c]]
    /\ pc[c] \in {"store", "water"} => bar[c] < lo[c] /\ Hi(c) <= cursor[seg[c]]
    /\ pc[c] \in {"swap", "load"} <=> mu = c
    /\ pc[c] = "load" => buf = 0

IInv == TypeOK /\ SegInv /\ PtrInv /\ \A c \in Callers : CallInv(c)

\* A process that has just started holds no segment.
LEMMA NoSegmentsEmpty == DOMAIN NoSegments = {}
BY Zenon DEF NoSegments

\* A freshly started service satisfies the invariant.
LEMMA InitIInv == Init => IInv
<1> SUFFICES ASSUME Init PROVE IInv
    OBVIOUS
<1> USE SeqAssumption
<1>1. TypeOK
  <2>1. /\ DOMAIN cursor = {} /\ maxId = 0 /\ alloc = FALSE /\ issued = {} /\ top = 0
        /\ cur = 0 /\ buf = 0 /\ last = 0 /\ mu = Nobody /\ refills = 0
    BY NoSegmentsEmpty DEF Init
  <2>2. MaxID \in Nat /\ 0 \in 0..(MaxTries - 1)
    OBVIOUS
  <2>3. /\ pc \in [Callers -> {"idle", "for", "init", "register", "cur"} \cup Past]
        /\ n \in [Callers -> Batches \cup {0}]
        /\ seg \in [Callers -> DOMAIN cursor \cup {0}]
    BY DEF Init
  <2>4. /\ lo \in [Callers -> 0..MaxID] /\ bar \in [Callers -> 0..maxId]
        /\ tries \in [Callers \cup {Refiller} -> 0..(MaxTries - 1)]
    BY <2>1, <2>2 DEF Init
  <2>5. /\ maxId \in 0..MaxID /\ last \in Nat /\ refills \in Nat
        /\ issued \subseteq 1..maxId /\ top \in 0..maxId
    BY <2>1, <2>2
  <2> QED
    BY <2>1, <2>3, <2>4, <2>5 DEF TypeOK
<1>2. SegInv /\ PtrInv
  BY NoSegmentsEmpty DEF Init, SegInv, PtrInv
<1>3. \A c \in Callers : CallInv(c)
  <2> SUFFICES ASSUME NEW c \in Callers PROVE CallInv(c)
    OBVIOUS
  <2>1. pc[c] = "idle" /\ bar[c] = 0 /\ top = 0 /\ mu # c
    BY DEF Init
  <2> QED
    BY <2>1 DEF CallInv, Past
<1> QED BY <1>1, <1>2, <1>3 DEF IInv

\* The last number of a block lies within what cur has handed out, even when
\* the block comes from a segment that has been replaced.
LEMMA HiFacts ==
    ASSUME IInv, NEW c \in Callers, pc[c] \in {"store", "water"}
    PROVE  Hi(c) \in Nat /\ Hi(c) <= cursor[cur]
<1> USE SeqAssumption
<1>1. CallInv(c) /\ TypeOK /\ SegInv
  BY DEF IInv
<1>2. n[c] \in 1..Step /\ lo[c] \in Nat /\ bar[c] \in Nat /\ bar[c] < lo[c]
  <2>1. n[c] \in Batches /\ bar[c] < lo[c]
    BY <1>1 DEF CallInv
  <2>2. lo[c] \in Nat /\ bar[c] \in Nat
    BY <1>1 DEF TypeOK
  <2> QED
    BY <2>1, <2>2
<1>3. Hi(c) \in Nat
  BY <1>2 DEF Hi
<1>4. /\ cur \in DOMAIN cursor /\ seg[c] \in DOMAIN cursor /\ seg[c] <= cur
      /\ Hi(c) <= cursor[seg[c]]
  <2>1. pc[c] \in Past
    BY DEF Past
  <2> QED
    BY <1>1, <2>1 DEF TypeOK, CallInv
<1>5. \A s \in DOMAIN cursor : s \in Nat /\ cursor[s] \in Int
                              /\ s - Step <= cursor[s] /\ cursor[s] <= s
  BY <1>1 DEF TypeOK
<1>6. CASE seg[c] = cur
  BY <1>3, <1>4, <1>6
<1>7. CASE seg[c] # cur
  <2>1. seg[c] + Step <= cur
    BY <1>1, <1>4, <1>5, <1>7 DEF SegInv
  <2> QED
    BY <2>1, <1>3, <1>4, <1>5
<1> QED
  BY <1>3, <1>6, <1>7

\* The invariant is inductive: one step per action.
LEMMA StepIInv == IInv /\ [Next]_vars => IInv'
<1> SUFFICES ASSUME IInv, [Next]_vars PROVE IInv'
    OBVIOUS
<1> USE SeqAssumption DEF IInv, TypeOK, SegInv, PtrInv, CallInv, Past, Hi, NewSeg,
        mem, loc, hist, Goto
<1>1. ASSUME NEW c \in Callers, Call(c) PROVE IInv'
  BY <1>1 DEF Call
<1>2. ASSUME NEW c \in Callers, For(c) PROVE IInv'
  BY <1>2 DEF For
<1>3. ASSUME NEW c \in Callers, InitLoad(c) PROVE IInv'
  <2>1. CASE LoadOk(c)
    BY <1>3, <2>1 DEF InitLoad, LoadOk, AddSeg, LoadRetries, LoadGivesUp, LoadFails, Leave
  <2>2. CASE LoadRetries(c) /\ UNCHANGED <<pc, n, seg, lo, hist>>
    <3>1. TypeOK'
      BY <1>3, <2>2 DEF InitLoad, LoadRetries, LoadFails
    <3>2. SegInv' /\ PtrInv'
      BY <1>3, <2>2 DEF InitLoad, LoadRetries, LoadFails
    <3>3. ASSUME NEW d \in Callers PROVE CallInv(d)'
      BY <1>3, <2>2 DEF InitLoad, LoadRetries, LoadFails
    <3> QED BY <3>1, <3>2, <3>3
  <2>3. CASE LoadGivesUp(c) /\ Leave(c) /\ UNCHANGED <<issued, top>>
    <3>1. TypeOK'
      BY <1>3, <2>3 DEF InitLoad, LoadGivesUp, LoadFails, Leave
    <3>2. SegInv' /\ PtrInv'
      BY <1>3, <2>3 DEF InitLoad, LoadGivesUp, LoadFails, Leave
    <3>3. ASSUME NEW d \in Callers PROVE CallInv(d)'
      BY <1>3, <2>3 DEF InitLoad, LoadGivesUp, LoadFails, Leave
    <3> QED BY <3>1, <3>2, <3>3
  <2> QED BY <1>3, <2>1, <2>2, <2>3 DEF InitLoad
<1>4. ASSUME NEW c \in Callers, Register(c) PROVE IInv'
  <2>0. seg[c] - Step \in Nat
    BY <1>4 DEF Register
  <2>1. TypeOK'
    <3>1. CASE alloc
      BY <1>4, <3>1 DEF Register, CreatorWins
    <3>2. CASE ~alloc
      BY <1>4, <2>0, <3>2 DEF Register, CreatorWins
    <3> QED
      BY <3>1, <3>2
  <2>2. SegInv'
    BY <1>4 DEF Register, CreatorWins
  <2>3. PtrInv'
    BY <1>4 DEF Register, CreatorWins
  <2>4. ASSUME NEW d \in Callers PROVE CallInv(d)'
    BY <1>4 DEF Register, CreatorWins
  <2> QED BY <2>1, <2>2, <2>3, <2>4
<1>5. ASSUME NEW c \in Callers, LoadCur(c) PROVE IInv'
  BY <1>5 DEF LoadCur
<1>6. ASSUME NEW c \in Callers, Take(c) PROVE IInv'
  <2>1. TypeOK'
    BY <1>6 DEF Take, Fits
  <2>2. SegInv'
    BY <1>6 DEF Take, Fits
  <2>3. PtrInv'
    BY <1>6 DEF Take, Fits
  <2>4. ASSUME NEW d \in Callers PROVE CallInv(d)'
    BY <1>6 DEF Take, Fits
  <2> QED BY <2>1, <2>2, <2>3, <2>4
<1>7. ASSUME NEW c \in Callers, TakeFails(c) PROVE IInv'
  BY <1>7 DEF TakeFails
<1>8. ASSUME NEW c \in Callers, StoreLast(c) PROVE IInv'
  <2>0. Hi(c) \in Nat
    BY <1>8, HiFacts DEF StoreLast
  <2>1. TypeOK'
    BY <1>8, <2>0 DEF StoreLast
  <2>2. SegInv'
    BY <1>8 DEF StoreLast
  <2>3. PtrInv'
    BY <1>8 DEF StoreLast
  <2>4. ASSUME NEW d \in Callers PROVE CallInv(d)'
    BY <1>8 DEF StoreLast
  <2> QED BY <2>1, <2>2, <2>3, <2>4
<1>9. ASSUME NEW c \in Callers, Return(c) PROVE IInv'
  <2>1. TypeOK'
    BY <1>9 DEF Return, Leave
  <2>2. SegInv'
    BY <1>9 DEF Return, Leave
  <2>0. Hi(c) <= cursor[cur]
    BY <1>9, HiFacts DEF Return
  <2>3. PtrInv'
    BY <1>9, <2>0 DEF Return, Leave
  <2>4. ASSUME NEW d \in Callers PROVE CallInv(d)'
    BY <1>9 DEF Return, Leave
  <2> QED BY <2>1, <2>2, <2>3, <2>4
<1>10. ASSUME NEW c \in Callers, Lock(c) PROVE IInv'
  BY <1>10 DEF Lock
<1>11. ASSUME NEW c \in Callers, Swap(c) PROVE IInv'
  BY <1>11 DEF Swap, Unlock
<1>12. ASSUME NEW c \in Callers, SyncLoad(c) PROVE IInv'
  BY <1>12 DEF SyncLoad, Unlock, LoadOk, LoadRetries, LoadGivesUp, LoadFails, AddSeg, Leave
<1>13. CASE RefillSkip
  BY <1>13 DEF RefillSkip
<1>14. CASE RefillLock
  BY <1>14 DEF RefillLock
<1>15. CASE RefillLoad
  BY <1>15 DEF RefillLoad, Unlock, LoadOk, LoadRetries, LoadGivesUp, LoadFails, AddSeg
<1>16. CASE Restart
  <2>0. MaxID \in Nat /\ 0 \in 0..(MaxTries - 1) /\ DOMAIN cursor' = {}
    BY <1>16, NoSegmentsEmpty DEF Restart
  <2>1. TypeOK'
    <3>1. /\ maxId' \in 0..MaxID /\ issued' \subseteq 1..maxId' /\ top' \in 0..maxId'
          /\ alloc' = FALSE /\ mu' = Nobody
          /\ cur' = 0 /\ buf' = 0 /\ last' = 0 /\ refills' = 0
      BY <1>16 DEF Restart
    <3>2. /\ pc' \in [Callers -> {"idle", "for", "init", "register", "cur"} \cup Past]
          /\ n' \in [Callers -> Batches \cup {0}]
          /\ seg' \in [Callers -> DOMAIN cursor' \cup {0}]
      BY <1>16 DEF Restart
    <3>3. /\ lo' \in [Callers -> 0..MaxID] /\ bar' \in [Callers -> 0..maxId']
          /\ tries' \in [Callers \cup {Refiller} -> 0..(MaxTries - 1)]
      BY <1>16, <2>0, <3>1 DEF Restart
    <3> QED
      BY <2>0, <3>1, <3>2, <3>3
  <2>2. SegInv'
    BY <1>16, NoSegmentsEmpty DEF Restart
  <2>3. PtrInv'
    BY <1>16, NoSegmentsEmpty DEF Restart
  <2>4. ASSUME NEW d \in Callers PROVE CallInv(d)'
    BY <1>16, NoSegmentsEmpty DEF Restart
  <2> QED BY <2>1, <2>2, <2>3, <2>4
<1>17. CASE UNCHANGED vars
  BY <1>17 DEF vars
<1> QED
  BY <1>1, <1>2, <1>3, <1>4, <1>5, <1>6, <1>7, <1>8, <1>9, <1>10, <1>11, <1>12,
     <1>13, <1>14, <1>15, <1>16, <1>17 DEF Next, CallerStep, RefillStep

\* Types, and the shape of the segments, of every reachable state.
THEOREM TypeCorrect == Spec => []TypeOK
<1>1. IInv => TypeOK
  BY DEF IInv
<1> QED
  BY <1>1, InitIInv, StepIInv, PTL DEF Spec

\* A block is above everything returned before its call began.
THEOREM RealTimeOrdered == Spec => []RealTimeOrder
<1>1. IInv => RealTimeOrder
  <2> SUFFICES ASSUME IInv, NEW c \in Callers, pc[c] \in {"store", "water"}
               PROVE  lo[c] > bar[c]
    BY DEF RealTimeOrder
  <2>1. lo[c] \in Int /\ bar[c] \in Int /\ bar[c] < lo[c]
    BY SeqAssumption DEF IInv, TypeOK, CallInv
  <2> QED
    BY <2>1
<1> QED
  BY <1>1, InitIInv, StepIInv, PTL DEF Spec

\* The only step that hands out numbers is a successful CAS, on numbers that
\* its segment still holds.
LEMMA TakeIsFresh ==
    ASSUME IInv, [Next]_vars, NEW c \in Callers, pc[c] = "take", pc'[c] = "store"
    PROVE  /\ Take(c)
           /\ lo'[c]..Hi(c)' \cap issued = {}
<1>1. pc \in [Callers -> {"idle", "for", "init", "register", "cur"} \cup Past]
  BY DEF IInv, TypeOK
<1>2. Take(c)
  <2>1. ASSUME NEW d \in Callers, CallerStep(d) PROVE d = c
    BY <1>1, <2>1 DEF CallerStep, For, InitLoad, Register, LoadCur, Take, TakeFails, StoreLast,
      Return, Lock, Swap, SyncLoad, Goto, Leave, loc
  <2> QED
    BY <1>1, <2>1 DEF Next, CallerStep, RefillStep, Call, For, InitLoad, Register, LoadCur, Take,
      TakeFails, StoreLast, Return, Lock, Swap, SyncLoad, Goto, Leave, RefillSkip, RefillLock,
      RefillLoad, Restart, loc, vars
<1>3. /\ seg[c] \in DOMAIN cursor /\ cursor[seg[c]] \in Int /\ seg[c] \in Int
      /\ n[c] \in Int /\ Fits(c)
  <2>1. seg[c] \in DOMAIN cursor /\ n[c] \in Batches
    <3>1. CallInv(c) /\ seg \in [Callers -> DOMAIN cursor \cup {0}]
      BY DEF IInv, TypeOK
    <3> QED
      BY <3>1 DEF CallInv, Past
  <2>2. cursor[seg[c]] \in Int /\ seg[c] \in Int /\ n[c] \in Int
    <3>1. \A s \in DOMAIN cursor : s \in Int /\ cursor[s] \in Int
      BY SeqAssumption DEF IInv, TypeOK
    <3>2. \A b \in Batches : b \in Int
      BY SeqAssumption
    <3> QED
      BY <2>1, <3>1, <3>2
  <2> QED
    BY <1>2, <2>1, <2>2 DEF Take
<1>4. lo'[c] = cursor[seg[c]] + 1 /\ Hi(c)' = cursor[seg[c]] + n[c]
  BY <1>2, <1>3, SeqAssumption DEF IInv, TypeOK, Take, Hi
<1>5. \A i \in issued : i \in Int /\ ~(cursor[seg[c]] < i /\ i <= seg[c])
  BY <1>3, SeqAssumption DEF IInv, TypeOK, SegInv
<1> QED
  BY <1>2, <1>3, <1>4, <1>5 DEF Fits

\* No number is handed out twice, across callers, segments and restarts.
THEOREM NumbersAreFresh == Spec => FreshIds
<1>1. IInv /\ [Next]_vars =>
        [\A c \in Callers :
           pc[c] = "take" /\ pc'[c] = "store" => lo'[c]..Hi(c)' \cap issued = {}]_vars
  BY TakeIsFresh
<1> QED
  BY <1>1, InitIInv, StepIInv, PTL DEF Spec, FreshIds

(* The refinement *)

\* With every caller idle the issuer is in its initial state.
LEMMA IssuerInit == Init => Issuer!Init
  BY DEF Init, Issuer!Init, Issuer!Idle, CallOf

\* A step of caller c that changes neither issued nor top nor what c shows of
\* its call is a stutter of the issuer.
LEMMA Stutter ==
    ASSUME NEW c \in Callers, UNCHANGED <<issued, top>>, CallOf(c)' = CallOf(c),
           \A d \in Callers \ {c} : CallOf(d)' = CallOf(d)
    PROVE  UNCHANGED Issuer!vars
  BY DEF Issuer!vars

\* A step of c changes the locals of c only.
LEMMA OthersKeepTheirCall ==
    ASSUME IInv, NEW c \in Callers, Call(c) \/ CallerStep(c)
    PROVE  \A d \in Callers \ {c} : CallOf(d)' = CallOf(d)
<1>1. \A d \in Callers \ {c} : pc'[d] = pc[d] /\ n'[d] = n[d] /\ bar'[d] = bar[d] /\ lo'[d] = lo[d]
  BY DEF IInv, TypeOK, Call, CallerStep, For, InitLoad, LoadRetries, LoadGivesUp, Register,
    LoadCur, Take, TakeFails, StoreLast, Return, Lock, Swap, SyncLoad, Goto, Leave, loc, hist
<1> QED
  BY <1>1 DEF CallOf, Granted

\* Inside the for loop of Next nothing of the call shows until a CAS succeeds.
LEMMA LoopIsStutter ==
    ASSUME IInv, NEW c \in Callers,
           \/ For(c) \/ Register(c) \/ LoadCur(c) \/ TakeFails(c) \/ StoreLast(c)
           \/ Lock(c) \/ Swap(c)
    PROVE  UNCHANGED Issuer!vars
<1>1. UNCHANGED <<issued, top>> /\ n'[c] = n[c] /\ bar'[c] = bar[c] /\ lo'[c] = lo[c]
  BY DEF For, Register, LoadCur, TakeFails, StoreLast, Lock, Swap, Goto, loc, hist
<1>2. /\ pc[c] # "idle" /\ pc'[c] # "idle"
      /\ pc'[c] \in {"store", "water"} <=> pc[c] \in {"store", "water"}
  BY DEF IInv, TypeOK, For, Register, LoadCur, TakeFails, StoreLast, Lock, Swap, Goto
<1>3. CallOf(c)' = CallOf(c)
  BY <1>1, <1>2 DEF CallOf, Granted
<1> QED
  BY <1>1, <1>3, Stutter, OthersKeepTheirCall DEF CallerStep

\* A load that succeeds or will be retried does not show; one that gives up
\* is the failure of the call.
LEMMA LoadIsStutterOrFail ==
    ASSUME IInv, NEW c \in Callers, InitLoad(c) \/ SyncLoad(c)
    PROVE  Issuer!Fail(c) \/ UNCHANGED Issuer!vars
<1>1. UNCHANGED <<issued, top>> /\ pc[c] \in {"init", "load"}
  BY DEF InitLoad, SyncLoad, hist
<1>2. CASE pc'[c] = "idle"
  <2>1. /\ CallOf(c)' = Issuer!Idle /\ CallOf(c).st = "wait"
    BY <1>1, <1>2 DEF CallOf, Granted, Issuer!Idle
  <2>2. [d \in Callers |-> CallOf(d)]' = [[d \in Callers |-> CallOf(d)] EXCEPT ![c] = Issuer!Idle]
    BY <2>1, OthersKeepTheirCall DEF CallerStep
  <2> QED
    BY <1>1, <2>1, <2>2 DEF Issuer!Fail
<1>3. CASE pc'[c] # "idle"
  <2>1. pc'[c] \in {"init", "register", "load", "cur"}
    BY <1>1, <1>3 DEF IInv, TypeOK, InitLoad, SyncLoad, LoadGivesUp, LoadRetries, Goto, Leave
  <2>2. n'[c] = n[c] /\ bar'[c] = bar[c] /\ lo'[c] = lo[c]
    BY <1>3 DEF IInv, TypeOK, InitLoad, SyncLoad, LoadGivesUp, LoadRetries, Goto, Leave, hist
  <2>3. CallOf(c)' = CallOf(c)
    BY <1>1, <2>1, <2>2 DEF CallOf, Granted
  <2> QED
    BY <1>1, <2>3, Stutter, OthersKeepTheirCall DEF CallerStep
<1> QED
  BY <1>2, <1>3

\* The call is the begin of the abstract call.
LEMMA CallIsBegin ==
    ASSUME IInv, NEW c \in Callers, Call(c) PROVE Issuer!Begin(c)
<1>1. PICK k \in Batches : n' = [n EXCEPT ![c] = k]
  BY DEF Call
<1>2. /\ CallOf(c) = Issuer!Idle
      /\ CallOf(c)' = [st |-> "wait", n |-> k, bar |-> top, lo |-> 0]
  BY <1>1 DEF Call, Goto, IInv, TypeOK, CallOf, Granted, Issuer!Idle
<1>3. [d \in Callers |-> CallOf(d)]' =
        [[d \in Callers |-> CallOf(d)] EXCEPT
           ![c] = [st |-> "wait", n |-> k, bar |-> top, lo |-> 0]]
  BY <1>2, OthersKeepTheirCall
<1> QED
  BY <1>1, <1>2, <1>3 DEF Call, Issuer!Begin

\* The successful CAS grants the block.
LEMMA TakeIsGrant ==
    ASSUME IInv, NEW c \in Callers, Take(c) PROVE Issuer!Grant(c)
<1> DEFINE first == cursor[seg[c]] + 1
           block == first..(first + n[c] - 1)
<1>1. /\ seg[c] \in DOMAIN cursor /\ bar[c] <= cursor[seg[c]] /\ n[c] \in Batches
  <2>1. CallInv(c) /\ pc[c] = "take" /\ seg \in [Callers -> DOMAIN cursor \cup {0}]
    BY DEF IInv, TypeOK, Take
  <2> QED
    BY <2>1 DEF CallInv, Past
<1>2. /\ first \in 1..MaxID /\ first > bar[c] /\ first + n[c] - 1 <= MaxID
      /\ n[c] \in Nat \ {0} /\ bar[c] \in Nat
  <2>1. \A s \in DOMAIN cursor : s \in Nat /\ s <= MaxID /\ s - Step >= 0
                                /\ cursor[s] \in Int /\ cursor[s] >= s - Step
    BY SeqAssumption DEF IInv, TypeOK
  <2>2. n[c] \in Nat \ {0} /\ bar[c] \in Nat /\ MaxID \in Nat /\ Step \in Nat
    <3>1. \A b \in Batches : b \in Nat \ {0}
      BY SeqAssumption
    <3>2. bar \in [Callers -> 0..maxId] /\ maxId \in 0..MaxID
      BY DEF IInv, TypeOK
    <3>3. bar[c] \in Nat /\ MaxID \in Nat /\ Step \in Nat
      BY <3>2, SeqAssumption
    <3> QED
      BY <1>1, <3>1, <3>3
  <2>3. cursor[seg[c]] + n[c] <= seg[c]
    BY DEF Take, Fits
  <2>4. /\ seg[c] \in Nat /\ seg[c] <= MaxID /\ seg[c] - Step >= 0
        /\ cursor[seg[c]] \in Int /\ cursor[seg[c]] >= seg[c] - Step
    BY <1>1, <2>1
  <2>5. cursor[seg[c]] \in Nat /\ n[c] >= 1
    BY <2>2, <2>4
  <2>6. first \in Nat /\ first >= 1 /\ first > bar[c] /\ first + n[c] - 1 = cursor[seg[c]] + n[c]
    BY <1>1, <2>2, <2>5
  <2>7. first + n[c] - 1 <= MaxID /\ first <= MaxID
    BY <2>2, <2>3, <2>4, <2>5
  <2> QED
    BY <2>2, <2>6, <2>7
<1>3. block \cap issued = {}
  <2>1. \A i \in issued : i \in Int /\ ~(cursor[seg[c]] < i /\ i <= seg[c])
    BY <1>1, SeqAssumption DEF IInv, TypeOK, SegInv
  <2>2. cursor[seg[c]] + n[c] <= seg[c] /\ cursor[seg[c]] \in Int /\ seg[c] \in Int
    BY <1>1, SeqAssumption DEF IInv, TypeOK, Take, Fits
  <2> QED
    BY <1>2, <2>1, <2>2
<1>4. block \subseteq 1..MaxID
  BY <1>2, SeqAssumption
<1>5. issued' = issued \cup block /\ top' = top
  BY <1>1, <1>2, SeqAssumption DEF IInv, TypeOK, Take
<1>6. /\ CallOf(c) = [st |-> "wait", n |-> n[c], bar |-> bar[c], lo |-> 0]
      /\ CallOf(c)' = [st |-> "got", n |-> n[c], bar |-> bar[c], lo |-> first]
  BY DEF IInv, TypeOK, Take, Goto, CallOf, Granted
<1>7. [d \in Callers |-> CallOf(d)]' =
        [[d \in Callers |-> CallOf(d)] EXCEPT
           ![c] = [st |-> "got", n |-> n[c], bar |-> bar[c], lo |-> first]]
  BY <1>6, OthersKeepTheirCall DEF CallerStep
<1>8. /\ [d \in Callers |-> CallOf(d)][c].st = "wait"
      /\ [d \in Callers |-> CallOf(d)][c].n = n[c]
      /\ [d \in Callers |-> CallOf(d)][c].bar = bar[c]
  BY <1>6
<1> HIDE DEF first
<1> QED
  BY <1>2, <1>3, <1>4, <1>5, <1>7, <1>8 DEF Issuer!Grant

\* Return is the return of the block.
LEMMA ReturnIsReturn ==
    ASSUME IInv, NEW c \in Callers, Return(c) PROVE Issuer!Return(c)
<1>1. /\ CallOf(c) = [st |-> "got", n |-> n[c], bar |-> bar[c], lo |-> lo[c]]
      /\ CallOf(c)' = Issuer!Idle
  BY DEF IInv, TypeOK, Return, Leave, Goto, CallOf, Granted, Issuer!Idle
<1>2. [d \in Callers |-> CallOf(d)]' = [[d \in Callers |-> CallOf(d)] EXCEPT ![c] = Issuer!Idle]
  BY <1>1, OthersKeepTheirCall DEF CallerStep
<1>3. issued' = issued /\ top' = IF Hi(c) > top THEN Hi(c) ELSE top
  BY DEF Return
<1> QED
  BY <1>1, <1>2, <1>3 DEF Issuer!Return, Hi

\* Every step of the allocator is a step of the issuer or leaves it alone.
LEMMA IssuerStep == IInv /\ [Next]_vars => [Issuer!Next]_(Issuer!vars)
<1> SUFFICES ASSUME IInv, [Next]_vars PROVE [Issuer!Next]_(Issuer!vars)
    OBVIOUS
<1>1. ASSUME NEW c \in Callers, Call(c) \/ CallerStep(c) PROVE [Issuer!Next]_(Issuer!vars)
  BY <1>1, LoopIsStutter, LoadIsStutterOrFail, CallIsBegin, TakeIsGrant, ReturnIsReturn
     DEF CallerStep, Issuer!Next
<1>2. CASE RefillStep
  BY <1>2 DEF RefillStep, RefillSkip, RefillLock, RefillLoad, Issuer!vars, CallOf, Granted, loc, hist
<1>3. CASE Restart
  <2>1. [c \in Callers |-> CallOf(c)]' = [c \in Callers |-> Issuer!Idle]
    BY <1>3 DEF Restart, CallOf, Issuer!Idle
  <2> QED
    BY <1>3, <2>1 DEF Restart, Issuer!Restart, Issuer!Next
<1>4. CASE UNCHANGED vars
  BY <1>4 DEF vars, loc, hist, Issuer!vars, CallOf, Granted
<1> QED
  BY <1>1, <1>2, <1>3, <1>4 DEF Next

\* Every behaviour of the allocator is one of the issuer: fresh blocks above
\* all that was returned before, whatever the interleaving, failing loads,
\* lost commits and restarts.
THEOREM AllocatorIsIssuer == Spec => IssuerSpec
  BY InitIInv, StepIInv, IssuerInit, IssuerStep, PTL DEF Spec, IssuerSpec, Issuer!Spec
=============================================================================
