------------------------ MODULE SeqClientProofs ------------------------
(***************************************************************************)
(* Proofs about the two clients of the Seq Svc in yim-message.             *)
(*                                                                         *)
(* SeqPrefetch, for any number of instances, callers and requests and any  *)
(* block length: the inductive invariant keeps apart the blocks on their   *)
(* way from the Seq Svc, the rests of the blocks in the instances and the  *)
(* numbers already given.                                                  *)
(*                                                                         *)
(* SyncSeq, for any number of users, callers and flushes and any margin:   *)
(* the inductive invariant says who will flush a level, that a floor is    *)
(* the margin above the level it was made from, and that the counter of a  *)
(* user whose key was never lost is no lower than what he was told.        *)
(***************************************************************************)
EXTENDS SeqPrefetch, SyncSeq, FiniteSetTheorems, TLAPS

\* The block of request r that was granted and not yet delivered.
Blk(r) == IF rcall[r].st = "got" THEN rcall[r].lo..(rcall[r].lo + Step - 1) ELSE {}
Rest(i) == cur[i]..last[i]

\* A request in progress is for one block.
CallsOK == \A r \in Rpcs : rcall[r].st # "idle" => rcall[r].n = Step

Apart ==
    /\ \A r \in Rpcs : Blk(r) \subseteq granted /\ Blk(r) \cap Taken = {}
    /\ \A r, q \in Rpcs : r # q => Blk(r) \cap Blk(q) = {}
    /\ \A i \in Instances : Rest(i) \subseteq granted /\ Rest(i) \cap Taken = {}
    /\ \A i, j \in Instances : i # j => Rest(i) \cap Rest(j) = {}
    /\ \A i \in Instances, r \in Rpcs : Rest(i) \cap Blk(r) = {}

IInv == TypeOK /\ CallsOK /\ Apart

-----------------------------------------------------------------------------
\* The bar of a caller without a call.
LEMMA NoBarType == NoBar \in [Instances -> 0..MaxID]
BY PrefetchAssumption DEF NoBar

\* Nothing is granted and nothing is kept at the start.
LEMMA InitIInv == Init => IInv
<1> SUFFICES ASSUME Init PROVE IInv
  OBVIOUS
<1>1. rcall = [r \in Rpcs |-> Svc!Idle] /\ granted = {} /\ served = 0
  BY DEF Init, Svc!Init
<1>2. \A i \in Instances : Rest(i) = {}
  <2>1. \A i \in Instances : cur[i] = 1 /\ last[i] = 0
    BY DEF Init
  <2>2. 1..0 = {}
    OBVIOUS
  <2> QED BY <2>1, <2>2 DEF Rest
<1>3. \A r \in Rpcs : Blk(r) = {}
  BY <1>1 DEF Blk, Svc!Idle
<1>5. Taken = {}
  BY DEF Init, Taken
<1>4. TypeOK
  BY <1>1, PrefetchAssumption DEF Init, TypeOK, Waits, Svc!Idle, NoBar
<1> QED BY <1>1, <1>2, <1>3, <1>4 DEF IInv, CallsOK, Apart, Svc!Idle

\* Numbers, blocks and rests are as they were.
LEMMA ApartStays ==
    ASSUME IInv, UNCHANGED <<granted, rcall, cur, last, given>>
    PROVE  CallsOK' /\ Apart'
BY DEF IInv, CallsOK, Apart, Blk, Rest, Taken

\* The callers when some calls are over.
LEMMA EndFacts ==
    ASSUME TypeOK, NEW cs \in SUBSET Callers, End(cs)
    PROVE  /\ pc' \in [Callers -> {"idle", "lock", "rpc", "got"}]
           /\ inst' \in [Callers -> Instances \cup {None}]
           /\ rpc' \in [Callers -> Rpcs \cup {None}]
           /\ num' \in [Callers -> 0..MaxID]
           /\ bar' \in [Callers -> [Instances -> 0..MaxID]]
           /\ \A c \in Callers : pc'[c] = "idle" <=> inst'[c] = None
           /\ \A c \in Callers :
                IF c \in cs THEN pc'[c] = "idle"
                ELSE pc'[c] = pc[c] /\ inst'[c] = inst[c] /\ rpc'[c] = rpc[c]
<1>1. num' \in [Callers -> 0..MaxID]
  BY PrefetchAssumption DEF TypeOK, End
<1>2. bar' \in [Callers -> [Instances -> 0..MaxID]]
  <2>1. \A c \in Callers : bar[c] \in [Instances -> 0..MaxID]
    BY DEF TypeOK
  <2> QED BY <2>1, NoBarType DEF End
<1> QED BY <1>1, <1>2 DEF TypeOK, End

\* A call that begins, ends or is given up leaves the numbers alone.
LEMMA CallIInv ==
    ASSUME IInv, NEW c \in Callers, NEW i \in Instances, Call(c, i) PROVE IInv'
<1>1. TypeOK'
  BY PrefetchAssumption DEF IInv, TypeOK, Call, svc, mem, Waits
<1> QED BY <1>1, ApartStays DEF IInv, Call, svc, mem

\* A caller that stops waiting leaves its request without an owner.
LEMMA TimesOutIInv == ASSUME IInv, NEW c \in Callers, TimesOut(c) PROVE IInv'
<1>1. TypeOK'
  BY PrefetchAssumption, EndFacts, {c} \in SUBSET Callers
     DEF IInv, TypeOK, TimesOut, svc, Waits, Unlock
<1> QED BY <1>1, ApartStays DEF IInv, TimesOut, svc

\* A number that was given is returned.
LEMMA ReturnIInv == ASSUME IInv, NEW c \in Callers, Return(c) PROVE IInv'
<1>1. TypeOK'
  BY PrefetchAssumption, EndFacts, {c} \in SUBSET Callers
     DEF IInv, TypeOK, Return, svc, mem, Waits
<1> QED BY <1>1, ApartStays DEF IInv, Return, svc, mem

\* A caller is given a number of the Seq Svc.
LEMMA GiveFacts ==
    ASSUME TypeOK, NEW c \in Callers, inst[c] \in Instances,
           NEW v \in granted, Give(c, v), granted' = granted
    PROVE  /\ given' \in [Instances -> SUBSET granted']
           /\ num' \in [Callers -> 0..MaxID]
           /\ Taken' = Taken \cup {v}
<1>1. \A i \in Instances : given'[i] = IF i = inst[c] THEN given[i] \cup {v} ELSE given[i]
  BY DEF TypeOK, Give
<1>2. given' \in [Instances -> SUBSET granted']
  BY DEF TypeOK, Give
<1>3. num' \in [Callers -> 0..MaxID]
  <2>1. v \in 0..MaxID
    BY DEF TypeOK
  <2> QED BY <2>1 DEF TypeOK, Give
<1>4. Taken' = Taken \cup {v}
  <2>1. ASSUME NEW w PROVE w \in Taken' <=> w \in Taken \cup {v}
    <3>1. w \in Taken' <=> \E i \in Instances : w \in given'[i]
      BY DEF Taken
    <3>2. w \in Taken <=> \E i \in Instances : w \in given[i]
      BY DEF Taken
    <3> QED BY <1>1, <3>1, <3>2
  <2> QED BY <2>1
<1> QED BY <1>2, <1>3, <1>4

\* A number is taken from the rest of one instance.
LEMMA TakeLeftIInv == ASSUME IInv, NEW c \in Callers, TakeLeft(c) PROVE IInv'
<1> DEFINE i == inst[c]
<1>1. i \in Instances
  BY DEF IInv, TypeOK, TakeLeft
<1>2. cur[i] \in Rest(i) /\ cur[i] \in Nat /\ last[i] \in 0..MaxID
  BY <1>1 DEF IInv, TypeOK, TakeLeft, Left, Rest
<1>3. cur[i] \in granted /\ cur[i] \in 1..MaxID
  BY <1>1, <1>2 DEF IInv, TypeOK, Apart
<1>4. TypeOK'
  <2>1. cur[i] + 1 \in 1..(MaxID + 1)
    BY <1>3, PrefetchAssumption
  <2>2. cur' \in [Instances -> 1..(MaxID + 1)]
    BY <2>1 DEF IInv, TypeOK, TakeLeft
  <2>4. num' \in [Callers -> 0..MaxID] /\ given' \in [Instances -> SUBSET granted']
    BY <1>1, <1>3, GiveFacts DEF IInv, TakeLeft, svc
  <2>5. /\ pc' = [pc EXCEPT ![c] = "got"] /\ pc[c] = "lock"
        /\ UNCHANGED <<granted, served, rcall, last, mu, inst, rpc, top, bar>>
    BY DEF TakeLeft, Give, svc
  <2> QED BY <1>1, <2>2, <2>4, <2>5 DEF IInv, TypeOK, Waits
<1>5. CallsOK'
  BY DEF IInv, CallsOK, TakeLeft, svc
<1>6. \A r \in Rpcs : Blk(r)' = Blk(r)
  BY DEF TakeLeft, svc, Blk
<1>7. \A j \in Instances : Rest(j)' = IF j = i THEN Rest(i) \ {cur[i]} ELSE Rest(j)
  <2>1. \A j \in Instances : /\ cur'[j] = IF j = i THEN cur[i] + 1 ELSE cur[j]
                            /\ last'[j] = last[j]
    BY <1>1 DEF IInv, TypeOK, TakeLeft
  <2>2. (cur[i] + 1)..last[i] = (cur[i]..last[i]) \ {cur[i]}
    BY <1>2
  <2> QED BY <2>1, <2>2 DEF Rest
<1>8. Taken' = Taken \cup {cur[i]} /\ granted' = granted
  BY <1>1, <1>3, GiveFacts DEF IInv, TakeLeft, svc
<1>9. Apart'
  BY <1>1, <1>2, <1>6, <1>7, <1>8 DEF IInv, Apart
<1> QED BY <1>4, <1>5, <1>9 DEF IInv

\* A request is made: it has no block yet.
LEMMA RefillIInv == ASSUME IInv, NEW c \in Callers, Refill(c) PROVE IInv'
<1>1. PICK r \in Rpcs : Orphan(r) /\ Svc!Begin(r) /\ rpc' = [rpc EXCEPT ![c] = r]
  BY DEF Refill
<1>2. rcall[r].st = "idle"
  BY <1>1 DEF Svc!Begin, Svc!Idle
<1>3. rcall' = [rcall EXCEPT ![r] = [st |-> "wait", n |-> Step, bar |-> served, lo |-> 0]]
  BY <1>1 DEF Svc!Begin
<1>4. granted' = granted /\ served' = served
  BY <1>1 DEF Svc!Begin
<1>5. inst[c] \in Instances
  BY DEF IInv, TypeOK, Refill
<1>6. TypeOK'
  <2>1. rcall' \in [Rpcs -> [st : {"idle", "wait", "got"}, n : {0, Step},
                              bar : 0..MaxID, lo : 0..MaxID]]
    BY <1>3, PrefetchAssumption DEF IInv, TypeOK
  <2>2. r # None /\ \A d \in Callers : d # None
    BY PrefetchAssumption
  <2>3. /\ mu' = [mu EXCEPT ![inst[c]] = c] /\ pc' = [pc EXCEPT ![c] = "rpc"]
        /\ pc[c] = "lock" /\ mu[inst[c]] = None
        /\ UNCHANGED <<cur, last, inst, num, given, top, bar>>
    BY DEF Refill, Lock, hist
  <2>4. \A d \in Callers : pc'[d] = "rpc" => rpc'[d] # None /\ mu'[inst'[d]] = d
    <3>1. ASSUME NEW d \in Callers, d # c, pc[d] = "rpc"
          PROVE  inst[d] \in Instances /\ mu[inst[d]] = d /\ inst[d] # inst[c]
      BY <2>2, <2>3, <3>1 DEF IInv, TypeOK, Waits
    <3> QED BY <1>1, <1>5, <2>2, <2>3, <3>1 DEF IInv, TypeOK, Waits
  <2>5. \A j \in Instances : mu'[j] # None => pc'[mu'[j]] = "rpc" /\ inst'[mu'[j]] = j
    BY <1>5, <2>3 DEF IInv, TypeOK, Waits
  <2>6. /\ mu' \in [Instances -> Callers \cup {None}]
        /\ pc' \in [Callers -> {"idle", "lock", "rpc", "got"}]
        /\ rpc' \in [Callers -> Rpcs \cup {None}]
        /\ \A d \in Callers : pc'[d] = "idle" <=> inst'[d] = None
    BY <1>1, <2>3 DEF IInv, TypeOK
  <2> QED
    BY <1>4, <2>1, <2>3, <2>4, <2>5, <2>6 DEF IInv, TypeOK, Waits
<1>7. CallsOK'
  BY <1>3 DEF IInv, CallsOK, TypeOK
<1>8. \A q \in Rpcs : Blk(q)' = Blk(q)
  BY <1>2, <1>3 DEF IInv, TypeOK, Blk
<1>9. \A j \in Instances : Rest(j)' = Rest(j)
  BY DEF Refill, Rest
<1>10. Taken' = Taken
  BY DEF Refill, hist, Taken
<1>11. Apart'
  BY <1>4, <1>8, <1>9, <1>10 DEF IInv, Apart
<1> QED BY <1>6, <1>7, <1>11 DEF IInv

\* What the end of a request leaves of it.
LEMMA EndOfRequest ==
    ASSUME IInv, NEW r \in Rpcs, rcall' = [rcall EXCEPT ![r] = Svc!Idle]
    PROVE  /\ rcall' \in [Rpcs -> [st : {"idle", "wait", "got"}, n : {0, Step},
                                   bar : 0..MaxID, lo : 0..MaxID]]
           /\ CallsOK'
           /\ \A q \in Rpcs : Blk(q)' = IF q = r THEN {} ELSE Blk(q)
<1>1. rcall' = [rcall EXCEPT ![r] = [st |-> "idle", n |-> 0, bar |-> 0, lo |-> 0]]
  BY DEF Svc!Idle
<1> QED
  BY <1>1, PrefetchAssumption DEF IInv, TypeOK, CallsOK, Blk

\* A granted block, number by number.
LEMMA BlockFacts ==
    ASSUME IInv, NEW r \in Rpcs, rcall[r].st = "got"
    PROVE  LET lo == rcall[r].lo IN
           /\ lo \in 1..MaxID /\ lo + Step - 1 \in 1..MaxID
           /\ lo \in granted /\ lo \in Blk(r) /\ lo \notin Taken
           /\ Blk(r) = lo..(lo + Step - 1)
<1> DEFINE lo == rcall[r].lo
<1>1. lo \in Nat /\ Step \in Nat \ {0}
  BY PrefetchAssumption DEF IInv, TypeOK
<1>2. Blk(r) = lo..(lo + Step - 1)
  BY DEF Blk
<1>3. lo \in Blk(r) /\ lo + Step - 1 \in Blk(r)
  BY <1>1, <1>2
<1>4. Blk(r) \subseteq granted /\ Blk(r) \cap Taken = {} /\ granted \subseteq 1..MaxID
  BY DEF IInv, Apart, TypeOK
<1> QED BY <1>2, <1>3, <1>4

\* A block moves from its request to the instance, its first number to the
\* caller.
LEMMA ArriveIInv == ASSUME IInv, NEW c \in Callers, Arrive(c) PROVE IInv'
<1> DEFINE i == inst[c]
<1> DEFINE r == rpc[c]
<1> DEFINE lo == rcall[r].lo
<1>1. i \in Instances /\ r \in Rpcs /\ mu[i] = c
  BY DEF IInv, TypeOK, Arrive, Waits
<1>2. rcall[r].st = "got" /\ granted' = granted
  BY DEF Arrive, Svc!Return
<1>3. rcall' = [rcall EXCEPT ![r] = Svc!Idle]
  BY DEF Arrive, Svc!Return
<1>4. /\ lo \in 1..MaxID /\ lo + Step - 1 \in 1..MaxID
      /\ lo \in granted /\ lo \in Blk(r)
      /\ Blk(r) = lo..(lo + Step - 1)
  BY <1>1, <1>2, BlockFacts
<1>5. /\ CallsOK'
      /\ \A q \in Rpcs : Blk(q)' = IF q = r THEN {} ELSE Blk(q)
      /\ rcall' \in [Rpcs -> [st : {"idle", "wait", "got"}, n : {0, Step},
                              bar : 0..MaxID, lo : 0..MaxID]]
  BY <1>1, <1>3, EndOfRequest
<1>6. served' \in 0..MaxID
  <2>1. rcall[r].n = Step
    BY <1>1, <1>2 DEF IInv, CallsOK
  <2> QED BY <1>4, <2>1 DEF Arrive, Svc!Return, IInv, TypeOK
<1>7. TypeOK'
  <2>1. cur' = [cur EXCEPT ![i] = lo + 1] /\ last' = [last EXCEPT ![i] = lo + Step - 1]
    BY DEF Arrive
  <2>2. lo + 1 \in 1..(MaxID + 1)
    BY <1>4, PrefetchAssumption
  <2>3. cur' \in [Instances -> 1..(MaxID + 1)] /\ last' \in [Instances -> 0..MaxID]
    <3>1. lo + Step - 1 \in 0..MaxID
      BY <1>4
    <3> HIDE DEF lo
    <3> QED BY <2>1, <2>2, <3>1 DEF IInv, TypeOK
  <2>4. num' \in [Callers -> 0..MaxID] /\ given' \in [Instances -> SUBSET granted']
    BY <1>1, <1>2, <1>4, GiveFacts DEF IInv, Arrive
  <2>5. /\ mu' = [mu EXCEPT ![i] = None] /\ pc' = [pc EXCEPT ![c] = "got"]
        /\ rpc' = [rpc EXCEPT ![c] = None] /\ UNCHANGED <<inst, top, bar>>
    BY DEF Arrive, Give, Unlock
  <2>6. pc[c] = "rpc"
    BY DEF Arrive, Waits
  <2> QED
    BY <1>1, <1>2, <1>5, <1>6, <2>3, <2>4, <2>5, <2>6 DEF IInv, TypeOK, Waits
<1>8. \A j \in Instances : Rest(j)' = IF j = i THEN Blk(r) \ {lo} ELSE Rest(j)
  <2>1. \A j \in Instances :
          /\ cur'[j] = IF j = i THEN lo + 1 ELSE cur[j]
          /\ last'[j] = IF j = i THEN lo + Step - 1 ELSE last[j]
    BY <1>1 DEF IInv, TypeOK, Arrive
  <2>2. (lo + 1)..(lo + Step - 1) = (lo..(lo + Step - 1)) \ {lo}
    BY <1>4, PrefetchAssumption
  <2> QED BY <1>4, <2>1, <2>2 DEF Rest
<1>9. Taken' = Taken \cup {lo}
  BY <1>1, <1>2, <1>4, GiveFacts DEF IInv, Arrive
<1>10. Apart'
  <2> HIDE DEF i, r, lo
  <2>1. Blk(r) \subseteq granted /\ Blk(r) \cap Taken = {} /\ lo \in Blk(r)
    BY <1>1, <1>4 DEF IInv, Apart
  <2>2. \A q \in Rpcs : Blk(q)' \subseteq granted' /\ Blk(q)' \cap Taken' = {}
    BY <1>1, <1>2, <1>4, <1>5, <1>9 DEF IInv, Apart
  <2>3. \A j \in Instances : Rest(j)' \subseteq granted' /\ Rest(j)' \cap Taken' = {}
    BY <1>1, <1>2, <1>8, <1>9, <2>1 DEF IInv, Apart
  <2>4. \A q, s \in Rpcs : q # s => Blk(q)' \cap Blk(s)' = {}
    BY <1>5 DEF IInv, Apart
  <2>5. \A j, k \in Instances : j # k => Rest(j)' \cap Rest(k)' = {}
    BY <1>1, <1>8 DEF IInv, Apart
  <2>6. \A j \in Instances, q \in Rpcs : Rest(j)' \cap Blk(q)' = {}
    BY <1>1, <1>5, <1>8 DEF IInv, Apart
  <2> QED BY <2>2, <2>3, <2>4, <2>5, <2>6 DEF Apart
<1> QED BY <1>5, <1>7, <1>10 DEF IInv

\* A request fails; its caller learns it, or nobody does.
LEMMA RpcFailsIInv == ASSUME IInv, NEW c \in Callers, RpcFails(c) PROVE IInv'
<1> DEFINE r == rpc[c]
<1>1. r \in Rpcs /\ rcall' = [rcall EXCEPT ![r] = Svc!Idle]
  BY DEF IInv, TypeOK, RpcFails, Waits, Svc!Fail
<1>2. UNCHANGED <<granted, served, cur, last, given, top>>
  BY DEF RpcFails, Svc!Fail
<1>3. rcall[r].st = "wait"
  BY DEF RpcFails, Svc!Fail
<1>4. /\ CallsOK'
      /\ \A q \in Rpcs : Blk(q)' = IF q = r THEN {} ELSE Blk(q)
      /\ rcall' \in [Rpcs -> [st : {"idle", "wait", "got"}, n : {0, Step},
                              bar : 0..MaxID, lo : 0..MaxID]]
  BY <1>1, EndOfRequest
<1>5. TypeOK'
  BY <1>2, <1>4, PrefetchAssumption, EndFacts, {c} \in SUBSET Callers
     DEF IInv, TypeOK, RpcFails, Waits, Unlock
<1>6. Apart'
  BY <1>2, <1>4 DEF IInv, Apart, Rest, Taken
<1> QED BY <1>4, <1>5, <1>6 DEF IInv

\* Throwing the rest of a block away keeps everything apart.
LEMMA ForgetIInv ==
    ASSUME IInv, NEW i \in Instances, UNCHANGED <<granted, rcall, given>>,
           cur' = [cur EXCEPT ![i] = 1], last' = [last EXCEPT ![i] = 0]
    PROVE  CallsOK' /\ Apart'
<1>1. CallsOK'
  BY DEF IInv, CallsOK
<1>2. \A r \in Rpcs : Blk(r)' = Blk(r)
  BY DEF Blk
<1>3. \A j \in Instances : Rest(j)' = IF j = i THEN {} ELSE Rest(j)
  <2>1. \A j \in Instances : /\ cur'[j] = IF j = i THEN 1 ELSE cur[j]
                            /\ last'[j] = IF j = i THEN 0 ELSE last[j]
    BY DEF IInv, TypeOK
  <2>2. 1..0 = {}
    OBVIOUS
  <2> QED BY <2>1, <2>2 DEF Rest
<1>4. Apart'
  BY <1>2, <1>3 DEF IInv, Apart, Taken
<1> QED BY <1>1, <1>4

\* The map of blocks is emptied.
LEMMA ClearIInv == ASSUME IInv, NEW i \in Instances, Clear(i) PROVE IInv'
<1>1. TypeOK'
  BY PrefetchAssumption DEF IInv, TypeOK, Clear, svc, loc, hist, Waits
<1> QED BY <1>1, ForgetIInv DEF IInv, Clear, svc, hist

\* An instance dies with the rest of its block.
LEMMA CrashIInv == ASSUME IInv, NEW i \in Instances, Crash(i) PROVE IInv'
<1>1. TypeOK'
  BY PrefetchAssumption, EndFacts, {c \in Callers : inst[c] = i} \in SUBSET Callers
     DEF IInv, TypeOK, Crash, svc, Waits, Unlock
<1> QED BY <1>1, ForgetIInv DEF IInv, Crash, svc

\* The Seq Svc grants a block of numbers that nobody had.
LEMMA GrantIInv ==
    ASSUME IInv, NEW r \in Rpcs, Svc!Grant(r), UNCHANGED <<mem, loc, hist>> PROVE IInv'
<1> DEFINE block(lo) == lo..(lo + Step - 1)
<1>1. rcall[r].st = "wait" /\ rcall[r].n = Step
  BY DEF Svc!Grant, IInv, CallsOK
<1>2. PICK lo \in 1..MaxID :
        /\ block(lo) \subseteq 1..MaxID /\ block(lo) \cap granted = {}
        /\ granted' = granted \cup block(lo)
        /\ rcall' = [rcall EXCEPT ![r] = [st |-> "got", n |-> Step,
                                         bar |-> rcall[r].bar, lo |-> lo]]
  BY <1>1 DEF Svc!Grant
<1>3. served' = served
  BY DEF Svc!Grant
<1>4. rcall' \in [Rpcs -> [st : {"idle", "wait", "got"}, n : {0, Step},
                          bar : 0..MaxID, lo : 0..MaxID]]
  <2>1. rcall[r].bar \in 0..MaxID /\ lo \in 0..MaxID
    BY PrefetchAssumption DEF IInv, TypeOK
  <2> QED BY <1>2, <2>1 DEF IInv, TypeOK
<1>5. TypeOK'
  <2>1. granted \subseteq granted' /\ granted' \subseteq 1..MaxID
    BY <1>2 DEF IInv, TypeOK
  <2>2. UNCHANGED <<served, cur, last, mu, pc, inst, rpc, num, given, top, bar>>
    BY <1>3 DEF mem, loc, hist
  <2>3. given' \in [Instances -> SUBSET granted']
    BY <2>1, <2>2 DEF IInv, TypeOK
  <2> QED BY <1>4, <2>1, <2>2, <2>3 DEF IInv, TypeOK, Waits
<1>6. CallsOK'
  BY <1>2 DEF IInv, TypeOK, CallsOK
<1>7. \A q \in Rpcs : Blk(q)' = IF q = r THEN block(lo) ELSE Blk(q)
  BY <1>2 DEF IInv, TypeOK, Blk
<1>8. Blk(r) = {} /\ Taken' = Taken /\ Taken \subseteq granted
  BY <1>1 DEF Blk, hist, IInv, TypeOK, Taken
<1>9. \A i \in Instances : Rest(i)' = Rest(i)
  BY DEF mem, Rest
<1>10. Apart'
  <2> HIDE DEF block
  <2> QED BY <1>2, <1>7, <1>8, <1>9 DEF IInv, Apart
<1> QED BY <1>5, <1>6, <1>10 DEF IInv

\* The answer to a request that nobody waits for is lost.
LEMMA OrphanIInv ==
    ASSUME IInv, NEW r \in Rpcs, Svc!Return(r) \/ Svc!Fail(r), UNCHANGED <<mem, loc, hist>>
    PROVE  IInv'
<1>1. rcall' = [rcall EXCEPT ![r] = Svc!Idle] /\ granted' = granted
  BY DEF Svc!Return, Svc!Fail
<1>2. served' \in 0..MaxID
  <2>1. CASE Svc!Return(r)
    <3>1. rcall[r].st = "got" /\ rcall[r].n = Step
      BY <2>1 DEF Svc!Return, IInv, CallsOK
    <3>2. rcall[r].lo + Step - 1 \in 1..MaxID
      BY <3>1, BlockFacts
    <3> QED BY <2>1, <3>1, <3>2 DEF Svc!Return, IInv, TypeOK
  <2>2. CASE Svc!Fail(r)
    BY <2>2 DEF Svc!Fail, IInv, TypeOK
  <2> QED BY <2>1, <2>2
<1>3. /\ CallsOK'
      /\ \A q \in Rpcs : Blk(q)' = IF q = r THEN {} ELSE Blk(q)
      /\ rcall' \in [Rpcs -> [st : {"idle", "wait", "got"}, n : {0, Step},
                              bar : 0..MaxID, lo : 0..MaxID]]
  BY <1>1, EndOfRequest
<1>4. TypeOK'
  BY <1>1, <1>2, <1>3 DEF IInv, TypeOK, mem, loc, hist, Waits
<1>5. Apart'
  BY <1>1, <1>3 DEF IInv, Apart, Rest, mem, hist, Taken
<1> QED BY <1>3, <1>4, <1>5 DEF IInv

\* A restart of the Seq Svc drops the blocks on their way.
LEMMA SvcRestartIInv == ASSUME IInv, SvcRestart PROVE IInv'
<1>1. rcall' = [r \in Rpcs |-> [st |-> "idle", n |-> 0, bar |-> 0, lo |-> 0]]
  BY DEF SvcRestart, Svc!Restart, Svc!Idle
<1>2. UNCHANGED <<granted, served, cur, last, given, top>>
  BY DEF SvcRestart, Svc!Restart
<1>3. TypeOK'
  <2>1. rcall' \in [Rpcs -> [st : {"idle", "wait", "got"}, n : {0, Step},
                            bar : 0..MaxID, lo : 0..MaxID]]
    BY <1>1, PrefetchAssumption
  <2> QED BY <1>2, <2>1, PrefetchAssumption, EndFacts, {c \in Callers : Waits(c)} \in SUBSET Callers
     DEF IInv, TypeOK, SvcRestart, Waits
<1>4. CallsOK' /\ \A r \in Rpcs : Blk(r)' = {}
  BY <1>1 DEF CallsOK, Blk
<1>5. Apart'
  BY <1>2, <1>4 DEF IInv, Apart, Rest, Taken
<1> QED BY <1>3, <1>4, <1>5 DEF IInv

-----------------------------------------------------------------------------
\* The invariant is inductive.
LEMMA StepIInv == IInv /\ [Next]_vars => IInv'
<1> SUFFICES ASSUME IInv, [Next]_vars PROVE IInv'
  OBVIOUS
<1>1. ASSUME NEW c \in Callers, Alloc(c) PROVE IInv'
  BY <1>1, TakeLeftIInv, RefillIInv, ArriveIInv, RpcFailsIInv, TimesOutIInv, ReturnIInv
     DEF Alloc
<1>2. ASSUME NEW r \in Rpcs, Serve(r) PROVE IInv'
  BY <1>2, GrantIInv, OrphanIInv DEF Serve
<1>3. CASE UNCHANGED vars
  <2>1. TypeOK'
    BY <1>3 DEF vars, svc, mem, loc, hist, IInv, TypeOK, Waits
  <2> QED BY <1>3, <2>1, ApartStays DEF vars, svc, mem, loc, hist, IInv
<1> QED BY <1>1, <1>2, <1>3, CallIInv, ClearIInv, CrashIInv, SvcRestartIInv DEF Next

\* The inductive invariant holds in every reachable state.
LEMMA Invariant == Spec => []IInv
BY InitIInv, StepIInv, PTL DEF Spec

\* Types, and the mutex: an instance waits for at most one block at a time.
THEOREM TypeCorrect == Spec => []TypeOK
<1>1. IInv => TypeOK
  BY DEF IInv
<1> QED BY <1>1, Invariant, PTL

\* A caller gets a number only by taking one from a block.
LEMMA GotFresh ==
    ASSUME IInv, [Next]_vars, NEW c \in Callers, pc[c] # "got", pc'[c] = "got"
    PROVE  num'[c] \notin Taken
<1>1. TakeLeft(c) \/ Arrive(c)
  <2>1. ASSUME NEW d \in Callers, NEW i \in Instances, Call(d, i) PROVE FALSE
    BY <2>1 DEF IInv, TypeOK, Call
  <2>2. ASSUME NEW cs, End(cs) PROVE FALSE
    BY <2>2 DEF End
  <2>3. ASSUME UNCHANGED pc PROVE FALSE
    BY <2>3
  <2>4. ASSUME NEW d \in Callers, Alloc(d) PROVE d = c /\ (TakeLeft(c) \/ Arrive(c))
    <3>1. CASE TakeLeft(d)
      BY <3>1 DEF TakeLeft, Give, IInv, TypeOK
    <3>2. CASE Arrive(d)
      BY <3>2 DEF Arrive, Give, IInv, TypeOK
    <3>3. CASE Refill(d)
      BY <3>3 DEF Refill, IInv, TypeOK
    <3>4. CASE RpcFails(d) \/ TimesOut(d) \/ Return(d)
      BY <2>2, <3>4 DEF RpcFails, TimesOut, Return
    <3> QED BY <2>4, <3>1, <3>2, <3>3, <3>4 DEF Alloc
  <2>5. ASSUME NEW i \in Instances, Clear(i) \/ Crash(i) PROVE FALSE
    BY <2>2, <2>3, <2>5 DEF Clear, Crash, loc
  <2>6. ASSUME NEW r \in Rpcs, Serve(r) PROVE FALSE
    BY <2>3, <2>6 DEF Serve, loc
  <2>7. CASE SvcRestart
    BY <2>2, <2>7 DEF SvcRestart
  <2>8. CASE UNCHANGED vars
    BY <2>3, <2>8 DEF vars, loc
  <2> QED BY <2>1, <2>4, <2>5, <2>6, <2>7, <2>8 DEF Next
<1>2. CASE TakeLeft(c)
  <2>1. inst[c] \in Instances /\ num'[c] = cur[inst[c]]
    BY <1>2 DEF TakeLeft, Give, IInv, TypeOK
  <2>2. cur[inst[c]] \in Rest(inst[c])
    BY <1>2, <2>1 DEF TakeLeft, Left, Rest, IInv, TypeOK
  <2> QED BY <2>1, <2>2 DEF IInv, Apart
<1>3. CASE Arrive(c)
  <2>1. rpc[c] \in Rpcs /\ rcall[rpc[c]].st = "got"
    BY <1>3 DEF Arrive, Svc!Return, Waits, IInv, TypeOK
  <2>2. num'[c] = rcall[rpc[c]].lo
    BY <1>3 DEF Arrive, Give, IInv, TypeOK
  <2> QED BY <2>1, <2>2, BlockFacts
<1> QED BY <1>1, <1>2, <1>3

\* No conversation seq and no msg_id is given twice, by however many instances
\* of yim-message and whatever crashes, time-outs and lost answers.
THEOREM SeqsAreFresh == Spec => FreshSeqs
<1>1. IInv /\ [Next]_vars =>
        [\A c \in Callers : pc[c] # "got" /\ pc'[c] = "got" => num'[c] \notin Taken]_vars
  BY GotFresh
<1> QED BY <1>1, Invariant, PTL DEF Spec, FreshSeqs

-----------------------------------------------------------------------------
(* The refinement.  Numbers rise within an instance because its requests are *)
(* made one at a time, with the mutex held: what the instance gave before is *)
(* no more than what the Seq Svc returned before, and its answer is above.   *)

\* What an instance gave came from answers of the Seq Svc, and lies below the
\* rest of the block.
GivenOK ==
    \A i \in Instances :
      /\ last[i] <= served
      /\ \A x \in given[i] : x <= served /\ (Left(i) => x < cur[i])

\* The request that a caller waits for is its own, and has a bar above all that
\* the instance gave.
RequestsOK ==
    /\ \A r \in Rpcs : rcall[r].st = "got" => rcall[r].lo > rcall[r].bar
    /\ \A c, d \in Callers : c # d /\ rpc[c] # None => rpc[c] # rpc[d]
    /\ \A c \in Callers : Waits(c) =>
         /\ rcall[rpc[c]].st # "idle"
         /\ \A x \in given[inst[c]] : x <= rcall[rpc[c]].bar

\* The history: what a call has, what was returned and what a call saw were
\* given by the instance.
HistoryOK ==
    /\ \A c \in Callers : IF pc[c] = "got" THEN num[c] \in given[inst[c]] ELSE num[c] = 0
    /\ \A i \in Instances : top[i] \in given[i] \cup {0}
    /\ \A c \in Callers, i \in Instances : bar[c][i] \in given[i] \cup {0}

RInv == IInv /\ GivenOK /\ RequestsOK /\ HistoryOK

\* Nothing was given at the start.
LEMMA InitRInv == Init => RInv
<1> SUFFICES ASSUME Init PROVE RInv
  OBVIOUS
<1>1. rcall = [r \in Rpcs |-> Svc!Idle] /\ served = 0
  BY DEF Init, Svc!Init
<1>2. GivenOK
  <2>1. \A i \in Instances : last[i] = 0 /\ given[i] = {}
    BY DEF Init
  <2>2. \A i \in Instances : last[i] <= served
    <3>1. served = 0
      BY <1>1
    <3>2. 0 <= 0
      OBVIOUS
    <3> QED BY <2>1, <3>1, <3>2
  <2> QED BY <2>1, <2>2 DEF GivenOK
<1>3. RequestsOK
  BY <1>1 DEF Init, RequestsOK, Svc!Idle, Waits
<1>4. HistoryOK
  BY DEF Init, HistoryOK, NoBar
<1> QED BY <1>2, <1>3, <1>4, InitIInv DEF RInv

\* The types that the proofs about the history need.
LEMMA Types ==
    ASSUME RInv
    PROVE  /\ granted \subseteq Nat /\ served \in Nat /\ Step \in Nat \ {0}
           /\ \A r \in Rpcs : rcall[r].bar \in Nat /\ rcall[r].lo \in Nat
           /\ \A i \in Instances : cur[i] \in Nat \ {0} /\ last[i] \in Nat /\ given[i] \subseteq granted
           /\ \A c \in Callers : Waits(c) => inst[c] \in Instances /\ rpc[c] \in Rpcs
           /\ \A c \in Callers : pc[c] # "idle" => inst[c] \in Instances
           /\ \A c \in Callers : None # c
BY PrefetchAssumption DEF RInv, IInv, TypeOK, Waits

\* A number is given to caller c.
LEMMA GiveHistory ==
    ASSUME RInv, NEW c \in Callers, inst[c] \in Instances, NEW v, Give(c, v),
           UNCHANGED <<inst, top, bar>>
    PROVE  /\ HistoryOK'
           /\ \A i \in Instances : given'[i] = IF i = inst[c] THEN given[i] \cup {v} ELSE given[i]
<1>1. \A i \in Instances : given'[i] = IF i = inst[c] THEN given[i] \cup {v} ELSE given[i]
  BY DEF RInv, IInv, TypeOK, Give
<1>2. \A d \in Callers :
        IF d = c THEN pc'[d] = "got" /\ num'[d] = v ELSE pc'[d] = pc[d] /\ num'[d] = num[d]
  BY DEF RInv, IInv, TypeOK, Give
<1>3. \A d \in Callers : IF pc'[d] = "got" THEN num'[d] \in given'[inst'[d]] ELSE num'[d] = 0
  <2>1. \A d \in Callers : pc[d] = "got" => inst[d] \in Instances
    BY Types
  <2> QED BY <1>1, <1>2, <2>1 DEF RInv, HistoryOK
<1>4. \A i \in Instances : top[i] \in given'[i] \cup {0}
  BY <1>1 DEF RInv, HistoryOK
<1>5. \A d \in Callers, i \in Instances : bar[d][i] \in given'[i] \cup {0}
  BY <1>1 DEF RInv, HistoryOK
<1> QED BY <1>1, <1>3, <1>4, <1>5 DEF HistoryOK

\* Calls end.
LEMMA EndHistory ==
    ASSUME RInv, NEW cs \in SUBSET Callers, End(cs), UNCHANGED given,
           \A i \in Instances : top'[i] \in given[i] \cup {0}
    PROVE  HistoryOK'
BY DEF RInv, HistoryOK, End, NoBar

\* Calls end, and no request changes that a remaining call waits for.
LEMMA EndRequests ==
    ASSUME RInv, NEW cs \in SUBSET Callers, End(cs), UNCHANGED given,
           \A r \in Rpcs : rcall'[r] = rcall[r] \/
             (rcall'[r].st = "idle" /\ \A c \in Callers \ cs : Waits(c) => rpc[c] # r)
    PROVE  RequestsOK'
<1>1. \A c \in Callers : IF c \in cs THEN pc'[c] = "idle" /\ rpc'[c] = None
                         ELSE pc'[c] = pc[c] /\ inst'[c] = inst[c] /\ rpc'[c] = rpc[c]
  BY DEF End
<1>2. \A r \in Rpcs : rcall'[r].st = "got" => rcall'[r].lo > rcall'[r].bar
  BY DEF RInv, RequestsOK
<1>3. \A c, d \in Callers : c # d /\ rpc'[c] # None => rpc'[c] # rpc'[d]
  BY <1>1 DEF RInv, RequestsOK
<1>4. ASSUME NEW c \in Callers, pc'[c] = "rpc"
      PROVE  rcall'[rpc'[c]].st # "idle" /\ \A x \in given'[inst'[c]] : x <= rcall'[rpc'[c]].bar
  <2>1. c \notin cs /\ Waits(c) /\ rpc'[c] = rpc[c] /\ inst'[c] = inst[c]
    BY <1>1, <1>4 DEF Waits
  <2>2. rcall'[rpc[c]] = rcall[rpc[c]]
    BY <2>1, Types
  <2> QED BY <2>1, <2>2 DEF RInv, RequestsOK
<1> QED BY <1>2, <1>3, <1>4 DEF RequestsOK, Waits

\* A call begins: its bar is what was returned.
LEMMA CallRInv ==
    ASSUME RInv, NEW c \in Callers, NEW i \in Instances, Call(c, i) PROVE RInv'
<1>1. /\ pc[c] = "idle" /\ pc' = [pc EXCEPT ![c] = "lock"] /\ inst' = [inst EXCEPT ![c] = i]
      /\ bar' = [bar EXCEPT ![c] = top]
      /\ UNCHANGED <<granted, served, rcall, cur, last, mu, rpc, num, given, top>>
  BY DEF Call, svc, mem
<1>2. GivenOK'
  BY <1>1 DEF RInv, GivenOK, Left
<1>3. RequestsOK'
  BY <1>1 DEF RInv, IInv, TypeOK, RequestsOK, Waits
<1>4. HistoryOK'
  BY <1>1 DEF RInv, IInv, TypeOK, HistoryOK
<1> QED BY <1>2, <1>3, <1>4, CallIInv DEF RInv

\* A number is taken from the rest of the block.
LEMMA TakeLeftRInv == ASSUME RInv, NEW c \in Callers, TakeLeft(c) PROVE RInv'
<1> DEFINE i == inst[c]
<1>1. i \in Instances /\ pc[c] = "lock" /\ mu[i] = None /\ cur[i] <= last[i]
  BY Types DEF TakeLeft, Left
<1>2. /\ HistoryOK'
      /\ \A j \in Instances : given'[j] = IF j = i THEN given[j] \cup {cur[i]} ELSE given[j]
  BY <1>1, GiveHistory DEF TakeLeft
<1>3. \A j \in Instances : /\ cur'[j] = IF j = i THEN cur[i] + 1 ELSE cur[j]
                          /\ last'[j] = last[j]
  BY <1>1 DEF TakeLeft, RInv, IInv, TypeOK
<1>4. UNCHANGED <<granted, served, rcall, mu, inst, rpc>> /\ pc' = [pc EXCEPT ![c] = "got"]
  BY DEF TakeLeft, svc, Give
<1>5. GivenOK'
  <2> SUFFICES ASSUME NEW j \in Instances, NEW x \in given'[j]
               PROVE  x <= served /\ (cur'[j] <= last'[j] => x < cur'[j])
    BY <1>3, <1>4 DEF RInv, GivenOK, Left
  <2>1. x \in Nat /\ cur[j] \in Nat /\ last[j] \in Nat /\ served \in Nat
    <3>1. /\ cur[j] \in Nat /\ last[j] \in Nat /\ served \in Nat /\ cur[i] \in Nat
          /\ \A y \in given[j] : y \in Nat
      BY <1>1, Types
    <3>2. x \in given[j] \/ x = cur[i]
      BY <1>2
    <3> QED BY <3>1, <3>2
  <2>2. last[j] <= served /\ (x \in given[j] => x <= served /\ (cur[j] <= last[j] => x < cur[j]))
    BY DEF RInv, GivenOK, Left
  <2>3. CASE j = i
    <3>1. cur'[j] = cur[j] + 1 /\ last'[j] = last[j] /\ cur[j] <= last[j]
      BY <1>1, <1>3, <2>3
    <3>2. x \in given[j] \/ x = cur[j]
      BY <1>2, <2>3
    <3> QED BY <2>1, <2>2, <3>1, <3>2
  <2>4. CASE j # i
    BY <1>2, <1>3, <2>2, <2>4
  <2> QED BY <2>3, <2>4
<1>6. RequestsOK'
  <2>1. ASSUME NEW d \in Callers, pc'[d] = "rpc"
        PROVE  pc[d] = "rpc" /\ inst[d] \in Instances /\ given'[inst[d]] = given[inst[d]]
    <3>1. pc[d] = "rpc"
      BY <1>4, <2>1 DEF RInv, IInv, TypeOK
    <3>2. inst[d] \in Instances /\ mu[inst[d]] = d /\ d # None
      BY <3>1, Types DEF RInv, IInv, TypeOK, Waits
    <3> QED BY <1>1, <1>2, <3>1, <3>2
  <2> QED BY <1>4, <2>1 DEF RInv, RequestsOK, Waits
<1> QED BY <1>2, <1>5, <1>6, TakeLeftIInv DEF RInv

\* The bar of a request is all that was returned, and so above what was given.
LEMMA RefillRInv == ASSUME RInv, NEW c \in Callers, Refill(c) PROVE RInv'
<1>1. PICK r \in Rpcs : Orphan(r) /\ Svc!Begin(r) /\ rpc' = [rpc EXCEPT ![c] = r]
  BY DEF Refill
<1>2. /\ rcall' = [rcall EXCEPT ![r] = [st |-> "wait", n |-> Step, bar |-> served, lo |-> 0]]
      /\ UNCHANGED <<granted, served>>
  BY <1>1 DEF Svc!Begin
<1>3. /\ inst[c] \in Instances /\ pc[c] = "lock" /\ pc' = [pc EXCEPT ![c] = "rpc"]
      /\ UNCHANGED <<cur, last, inst, num, given, top, bar>>
  BY Types DEF Refill, hist
<1>4. GivenOK'
  BY <1>2, <1>3 DEF RInv, GivenOK, Left
<1>5. HistoryOK'
  BY <1>3 DEF RInv, IInv, TypeOK, HistoryOK
<1>6. RequestsOK'
  <2>1. \A q \in Rpcs : rcall'[q] =
          IF q = r THEN [st |-> "wait", n |-> Step, bar |-> served, lo |-> 0] ELSE rcall[q]
    BY <1>2 DEF RInv, IInv, TypeOK
  <2>2. \A d \in Callers : rpc'[d] = IF d = c THEN r ELSE rpc[d]
    BY <1>1 DEF RInv, IInv, TypeOK
  <2>3. \A d \in Callers : rpc[d] # r
    BY <1>1 DEF Orphan
  <2>4. \A q \in Rpcs : rcall'[q].st = "got" => rcall'[q].lo > rcall'[q].bar
    BY <2>1 DEF RInv, RequestsOK
  <2>5. \A d, e \in Callers : d # e /\ rpc'[d] # None => rpc'[d] # rpc'[e]
    BY <2>2, <2>3 DEF RInv, RequestsOK
  <2>6. ASSUME NEW d \in Callers, pc'[d] = "rpc"
        PROVE  rcall'[rpc'[d]].st # "idle" /\ \A x \in given'[inst'[d]] : x <= rcall'[rpc'[d]].bar
    <3>1. CASE d = c
      BY <1>3, <2>1, <2>2, <3>1 DEF RInv, GivenOK
    <3>2. CASE d # c
      <4>1. Waits(d)
        BY <1>3, <2>6, <3>2 DEF RInv, IInv, TypeOK, Waits
      <4>2. rpc[d] \in Rpcs /\ rcall'[rpc[d]] = rcall[rpc[d]]
        BY <2>1, <2>3, <4>1, Types
      <4> QED BY <1>3, <2>2, <3>2, <4>1, <4>2 DEF RInv, RequestsOK
    <3> QED BY <3>1, <3>2
  <2> QED BY <2>4, <2>5, <2>6 DEF RequestsOK, Waits
<1> QED BY <1>4, <1>5, <1>6, RefillIInv DEF RInv

\* The first number of an answer is above all that the instance gave.
LEMMA ArriveIsAbove ==
    ASSUME RInv, NEW c \in Callers, Arrive(c)
    PROVE  /\ inst[c] \in Instances /\ rpc[c] \in Rpcs /\ rcall[rpc[c]].st = "got"
           /\ mu[inst[c]] = c
           /\ rcall[rpc[c]].lo \in Nat \ {0}
           /\ \A x \in given[inst[c]] : x \in Nat /\ x < rcall[rpc[c]].lo
           /\ rcall[rpc[c]].lo + Step - 1 <= served'
           /\ served <= served'
<1> DEFINE r == rpc[c]
<1>1. inst[c] \in Instances /\ r \in Rpcs /\ rcall[r].st = "got" /\ mu[inst[c]] = c /\ Waits(c)
  BY Types DEF Arrive, Svc!Return, RInv, IInv, TypeOK
<1>2. /\ rcall[r].lo \in Nat /\ rcall[r].bar \in Nat /\ served \in Nat /\ Step \in Nat \ {0}
      /\ \A x \in given[inst[c]] : x \in Nat
  BY <1>1, Types
<1>3. rcall[r].lo > rcall[r].bar /\ \A x \in given[inst[c]] : x <= rcall[r].bar
  BY <1>1 DEF RInv, RequestsOK
<1>4. rcall[r].n = Step
  BY <1>1 DEF RInv, IInv, CallsOK
<1>5. served' = LET hi == rcall[r].lo + Step - 1 IN IF hi > served THEN hi ELSE served
  BY <1>4 DEF Arrive, Svc!Return
<1>6. rcall[r].lo + Step - 1 <= served' /\ served <= served'
  BY <1>2, <1>5
<1> HIDE DEF r
<1>7. rcall[r].lo \in Nat \ {0} /\ \A x \in given[inst[c]] : x \in Nat /\ x < rcall[r].lo
  BY <1>2, <1>3
<1> QED BY <1>1, <1>6, <1>7 DEF r

\* The answer arrives.
LEMMA ArriveRInv == ASSUME RInv, NEW c \in Callers, Arrive(c) PROVE RInv'
<1> DEFINE i == inst[c]
           lo == rcall[rpc[c]].lo
<1>1. /\ i \in Instances /\ rpc[c] \in Rpcs /\ mu[i] = c /\ lo \in Nat \ {0}
      /\ \A x \in given[i] : x \in Nat /\ x < lo
      /\ lo + Step - 1 <= served' /\ served <= served' /\ Step \in Nat \ {0}
  BY ArriveIsAbove, Types
<1>2. /\ HistoryOK'
      /\ \A j \in Instances : given'[j] = IF j = i THEN given[j] \cup {lo} ELSE given[j]
  BY <1>1, GiveHistory DEF Arrive
<1>3. \A j \in Instances : /\ cur'[j] = IF j = i THEN lo + 1 ELSE cur[j]
                          /\ last'[j] = IF j = i THEN lo + Step - 1 ELSE last[j]
  BY <1>1 DEF Arrive, RInv, IInv, TypeOK
<1>4. /\ rcall' = [rcall EXCEPT ![rpc[c]] = Svc!Idle] /\ UNCHANGED <<granted, inst>>
      /\ pc' = [pc EXCEPT ![c] = "got"] /\ rpc' = [rpc EXCEPT ![c] = None]
  BY DEF Arrive, Svc!Return, Give
<1>5. served \in Nat /\ served' \in Nat
  BY <1>4, ArriveIInv DEF RInv, IInv, TypeOK
<1> HIDE DEF lo
<1>6. GivenOK'
  <2> SUFFICES ASSUME NEW j \in Instances
               PROVE  /\ last'[j] <= served'
                      /\ \A x \in given'[j] : x <= served' /\ (cur'[j] <= last'[j] => x < cur'[j])
    BY DEF GivenOK, Left
  <2>1. CASE j = i
    <3>1. last'[j] <= served'
      BY <1>1, <1>3, <2>1
    <3>2. \A x \in given'[j] : x \in Nat /\ x <= lo
      <4>1. \A x \in given'[j] : x \in given[i] \/ x = lo
        BY <1>2, <2>1
      <4> QED BY <1>1, <4>1
    <3>3. lo <= served' /\ cur'[j] = lo + 1
      BY <1>1, <1>3, <1>5, <2>1
    <3> QED BY <1>1, <1>5, <3>1, <3>2, <3>3
  <2>2. CASE j # i
    <3>1. /\ last[j] <= served /\ last[j] \in Nat /\ cur[j] \in Nat
          /\ \A x \in given[j] : x \in Nat /\ x <= served /\ (cur[j] <= last[j] => x < cur[j])
      BY Types DEF RInv, GivenOK, Left
    <3>2. given'[j] = given[j] /\ cur'[j] = cur[j] /\ last'[j] = last[j]
      BY <1>2, <1>3, <2>2
    <3> QED BY <1>1, <1>5, <3>1, <3>2
  <2> QED BY <2>1, <2>2
<1>7. RequestsOK'
  <2>1. \A r \in Rpcs : rcall'[r] = IF r = rpc[c] THEN Svc!Idle ELSE rcall[r]
    BY <1>1, <1>4 DEF RInv, IInv, TypeOK
  <2>2. \A d \in Callers : rpc'[d] = IF d = c THEN None ELSE rpc[d]
    BY <1>4 DEF RInv, IInv, TypeOK
  <2>3. \A r \in Rpcs : rcall'[r].st = "got" => rcall'[r].lo > rcall'[r].bar
    BY <2>1 DEF RInv, RequestsOK, Svc!Idle
  <2>4. \A d, e \in Callers : d # e /\ rpc'[d] # None => rpc'[d] # rpc'[e]
    BY <2>2 DEF RInv, RequestsOK
  <2>5. ASSUME NEW d \in Callers, pc'[d] = "rpc"
        PROVE  rcall'[rpc'[d]].st # "idle" /\ \A x \in given'[inst'[d]] : x <= rcall'[rpc'[d]].bar
    <3>1. d # c /\ Waits(d)
      BY <1>4, <2>5 DEF RInv, IInv, TypeOK, Waits
    <3>2. inst[d] \in Instances /\ rpc[d] \in Rpcs /\ mu[inst[d]] = d
      BY <3>1, Types DEF RInv, IInv, TypeOK
    <3>3. inst[d] # i /\ rpc[d] # rpc[c]
      <4>1. rpc[c] # None
        BY <1>1, PrefetchAssumption
      <4> QED BY <1>1, <3>1, <3>2, <4>1 DEF RInv, RequestsOK
    <3>4. rcall'[rpc'[d]] = rcall[rpc[d]]
      <4>1. rpc'[d] = rpc[d]
        BY <2>2, <3>1
      <4> QED BY <2>1, <3>2, <3>3, <4>1
    <3>5. given'[inst'[d]] = given[inst[d]]
      <4>1. inst'[d] = inst[d]
        BY <1>4
      <4> QED BY <1>2, <3>2, <3>3, <4>1
    <3> QED BY <3>1, <3>4, <3>5 DEF RInv, RequestsOK
  <2> QED BY <2>3, <2>4, <2>5 DEF RequestsOK, Waits
<1> QED BY <1>2, <1>6, <1>7, ArriveIInv DEF RInv

\* A request fails, or its caller gives up, or a number is returned.
LEMMA EndRInv ==
    ASSUME RInv, NEW c \in Callers, RpcFails(c) \/ TimesOut(c) \/ Return(c) PROVE RInv'
<1>1. End({c}) /\ UNCHANGED <<cur, last, given, served>> /\ {c} \in SUBSET Callers
  BY DEF RpcFails, TimesOut, Return, Svc!Fail, svc, mem
<1>2. \A i \in Instances : top'[i] \in given[i] \cup {0}
  <2>1. CASE Return(c)
    <3>1. pc[c] = "got" /\ inst[c] \in Instances
      BY <2>1, Types DEF Return
    <3> QED BY <2>1, <3>1 DEF Return, RInv, HistoryOK, IInv, TypeOK
  <2>2. CASE RpcFails(c) \/ TimesOut(c)
    BY <2>2 DEF RpcFails, TimesOut, RInv, HistoryOK
  <2> QED BY <2>1, <2>2
<1>3. \A r \in Rpcs : rcall'[r] = rcall[r] \/
        (rcall'[r].st = "idle" /\ \A d \in Callers \ {c} : Waits(d) => rpc[d] # r)
  <2>1. CASE RpcFails(c)
    <3>1. rpc[c] \in Rpcs /\ rcall' = [rcall EXCEPT ![rpc[c]] = Svc!Idle]
      BY <2>1, Types DEF RpcFails, Svc!Fail
    <3>2. \A d \in Callers \ {c} : rpc[d] # rpc[c]
      BY <3>1, PrefetchAssumption DEF RInv, RequestsOK
    <3>3. \A r \in Rpcs : rcall'[r] = IF r = rpc[c] THEN Svc!Idle ELSE rcall[r]
      BY <3>1 DEF RInv, IInv, TypeOK
    <3> QED BY <3>2, <3>3 DEF Svc!Idle
  <2>2. CASE TimesOut(c) \/ Return(c)
    <3>1. UNCHANGED rcall
      BY <2>2 DEF TimesOut, Return, svc
    <3> QED BY <3>1
  <2> QED BY <2>1, <2>2
<1>4. HistoryOK' /\ RequestsOK'
  BY <1>1, <1>2, <1>3, EndHistory, EndRequests
<1>5. GivenOK'
  BY <1>1 DEF RInv, GivenOK, Left
<1>6. IInv'
  BY RpcFailsIInv, TimesOutIInv, ReturnIInv DEF RInv
<1> QED BY <1>4, <1>5, <1>6 DEF RInv

\* The rest of a block is thrown away.
LEMMA ForgetGiven ==
    ASSUME RInv, NEW i \in Instances, UNCHANGED <<served, given>>,
           cur' = [cur EXCEPT ![i] = 1], last' = [last EXCEPT ![i] = 0]
    PROVE  GivenOK'
<1>1. \A j \in Instances : IF j = i THEN cur'[j] = 1 /\ last'[j] = 0
                           ELSE cur'[j] = cur[j] /\ last'[j] = last[j]
  BY DEF RInv, IInv, TypeOK
<1>2. served \in Nat
  BY Types
<1> QED BY <1>1, <1>2 DEF RInv, GivenOK, Left

\* The map is emptied, or the instance dies.
LEMMA ForgetRInv ==
    ASSUME RInv, NEW i \in Instances, Clear(i) \/ Crash(i) PROVE RInv'
<1>1. UNCHANGED <<granted, served, rcall, given, top>>
  BY DEF Clear, Crash, svc, hist
<1>2. GivenOK'
  BY <1>1, ForgetGiven DEF Clear, Crash
<1>3. RequestsOK' /\ HistoryOK'
  <2>1. CASE Clear(i)
    BY <2>1 DEF Clear, svc, loc, hist, RInv, RequestsOK, HistoryOK, Waits
  <2>2. CASE Crash(i)
    <3> DEFINE cs == {c \in Callers : inst[c] = i}
    <3>1. End(cs) /\ cs \in SUBSET Callers
      BY <2>2 DEF Crash
    <3>2. \A j \in Instances : top'[j] \in given[j] \cup {0}
      BY <1>1 DEF RInv, HistoryOK
    <3> HIDE DEF cs
    <3>3. \A r \in Rpcs : rcall'[r] = rcall[r]
      BY <1>1
    <3>4. HistoryOK'
      BY <1>1, <3>1, <3>2, EndHistory
    <3>5. RequestsOK'
      BY <1>1, <3>1, <3>3, EndRequests
    <3> QED BY <3>4, <3>5
  <2> QED BY <2>1, <2>2
<1>4. IInv'
  BY ClearIInv, CrashIInv DEF RInv
<1> QED BY <1>2, <1>3, <1>4 DEF RInv

\* The Seq Svc works on a request, or drops the answer of a call that gave up.
LEMMA ServeRInv == ASSUME RInv, NEW r \in Rpcs, Serve(r) PROVE RInv'
<1>1. UNCHANGED <<cur, last, mu, pc, inst, rpc, num, given, top, bar>>
  BY DEF Serve, mem, loc, hist
<1>2. HistoryOK'
  BY <1>1 DEF RInv, HistoryOK
<1>3. served' \in Nat /\ served <= served'
  BY Types DEF Serve, Svc!Grant, Svc!Return, Svc!Fail, RInv, IInv, CallsOK
<1>4. GivenOK'
  <2>1. \A i \in Instances : last[i] \in Nat /\ \A x \in given[i] : x \in Nat
    BY Types
  <2>2. served \in Nat
    BY Types
  <2> QED BY <1>1, <1>3, <2>1, <2>2 DEF RInv, GivenOK, Left
<1>5. RequestsOK'
  <2>1. CASE Svc!Grant(r)
    <3>1. PICK lo \in 1..MaxID :
            /\ lo > rcall[r].bar
            /\ rcall' = [rcall EXCEPT ![r] = [st |-> "got", n |-> rcall[r].n,
                                             bar |-> rcall[r].bar, lo |-> lo]]
      BY <2>1 DEF Svc!Grant
    <3>2. \A q \in Rpcs : IF q = r THEN /\ rcall'[q].st = "got" /\ rcall'[q].lo = lo
                                        /\ rcall'[q].bar = rcall[q].bar
                          ELSE rcall'[q] = rcall[q]
      BY <3>1 DEF RInv, IInv, TypeOK
    <3>3. \A c \in Callers : Waits(c) => rpc[c] \in Rpcs
      BY Types
    <3> QED BY <1>1, <3>1, <3>2, <3>3 DEF RInv, RequestsOK, Waits
  <2>2. CASE Orphan(r) /\ (Svc!Return(r) \/ Svc!Fail(r))
    <3>1. \A q \in Rpcs : rcall'[q] = IF q = r THEN Svc!Idle ELSE rcall[q]
      BY <2>2 DEF Svc!Return, Svc!Fail, RInv, IInv, TypeOK
    <3>2. \A c \in Callers : Waits(c) => rpc[c] \in Rpcs /\ rpc[c] # r
      BY <2>2, Types DEF Orphan
    <3> QED BY <1>1, <3>1, <3>2 DEF RInv, RequestsOK, Waits, Svc!Idle
  <2> QED BY <2>1, <2>2 DEF Serve
<1>6. IInv'
  BY GrantIInv, OrphanIInv DEF RInv, Serve
<1> QED BY <1>2, <1>4, <1>5, <1>6 DEF RInv

\* The Seq Svc restarts: all who wait get an error.
LEMMA SvcRestartRInv == ASSUME RInv, SvcRestart PROVE RInv'
<1> DEFINE cs == {c \in Callers : Waits(c)}
<1>1. /\ End(cs) /\ cs \in SUBSET Callers /\ UNCHANGED <<served, cur, last, given, top>>
      /\ \A r \in Rpcs : rcall'[r].st = "idle"
      /\ \A c \in Callers \ cs : ~Waits(c)
  BY DEF SvcRestart, Svc!Restart, Svc!Idle
<1>2. \A j \in Instances : top'[j] \in given[j] \cup {0}
  BY <1>1 DEF RInv, HistoryOK
<1> HIDE DEF cs
<1>3. HistoryOK' /\ RequestsOK'
  BY <1>1, <1>2, EndHistory, EndRequests
<1>4. GivenOK'
  BY <1>1 DEF RInv, GivenOK, Left
<1> QED BY <1>3, <1>4, SvcRestartIInv DEF RInv

\* The invariant of the refinement is inductive.
LEMMA StepRInv == RInv /\ [Next]_vars => RInv'
<1> SUFFICES ASSUME RInv, [Next]_vars PROVE RInv'
  OBVIOUS
<1>1. CASE UNCHANGED vars
  <2>1. IInv'
    BY <1>1, StepIInv DEF RInv
  <2> QED BY <1>1, <2>1 DEF vars, svc, mem, loc, hist, RInv, GivenOK, RequestsOK, HistoryOK, Waits, Left
<1> QED
  BY <1>1, CallRInv, TakeLeftRInv, RefillRInv, ArriveRInv, EndRInv, ForgetRInv, ServeRInv,
     SvcRestartRInv DEF Next, Alloc

-----------------------------------------------------------------------------
\* Nobody calls at the start.
LEMMA IssuerInit == Init => Issuer!Init
<1> SUFFICES ASSUME Init PROVE Issuer!Init
  OBVIOUS
<1>1. given[Here] = {} /\ top[Here] = 0
  BY PrefetchAssumption DEF Init, NoBar
<1>2. \A c \in Callers : CallOf(c) = Issuer!Idle
  BY PrefetchAssumption DEF Init, CallOf, Issuer!Idle
<1> QED BY <1>1, <1>2 DEF Issuer!Init

\* The call of c is replaced by v, the others stay.
LEMMA OneCall ==
    ASSUME NEW c \in Callers, NEW v, CallOf(c)' = v,
           \A d \in Callers \ {c} : CallOf(d)' = CallOf(d)
    PROVE  [d \in Callers |-> CallOf(d)]' = [[d \in Callers |-> CallOf(d)] EXCEPT ![c] = v]
OBVIOUS

\* Nothing shows of a step that leaves the calls of Here alone.
LEMMA Stutter ==
    ASSUME given'[Here] = given[Here], top'[Here] = top[Here],
           \A c \in Callers : CallOf(c)' = CallOf(c)
    PROVE  UNCHANGED Issuer!vars
BY DEF Issuer!vars

\* A call that another instance serves does not show, nor does a caller whose
\* own data stay.
LEMMA SameCall ==
    ASSUME NEW c \in Callers,
           \/ inst[c] # Here /\ inst'[c] # Here
           \/ /\ inst'[c] = inst[c] /\ bar'[c] = bar[c] /\ num'[c] = num[c]
              /\ pc'[c] = "got" <=> pc[c] = "got"
    PROVE  CallOf(c)' = CallOf(c)
BY DEF CallOf

\* A call of Here that waits, as the issuer sees it.
LEMMA WaitingCall ==
    ASSUME RInv, NEW c \in Callers, inst[c] = Here, pc[c] # "got"
    PROVE  CallOf(c) = [st |-> "wait", n |-> 1, bar |-> bar[c][Here], lo |-> 0]
BY DEF RInv, HistoryOK, CallOf

\* Calls end: for the issuer they are idle.
LEMMA EndedCall ==
    ASSUME NEW cs \in SUBSET Callers, End(cs)
    PROVE  \A c \in Callers : CallOf(c)' = IF c \in cs THEN Issuer!Idle ELSE CallOf(c)
<1>1. ASSUME NEW c \in cs PROVE CallOf(c)' = Issuer!Idle
  <2>1. inst'[c] = None /\ None # Here
    BY PrefetchAssumption DEF End
  <2> QED BY <2>1 DEF CallOf, Issuer!Idle
<1>2. ASSUME NEW c \in Callers \ cs PROVE CallOf(c)' = CallOf(c)
  BY SameCall DEF End
<1> QED BY <1>1, <1>2

\* A call begins.
LEMMA CallIsBegin ==
    ASSUME RInv, NEW c \in Callers, NEW i \in Instances, Call(c, i)
    PROVE  Issuer!Begin(c) \/ UNCHANGED Issuer!vars
<1>1. /\ pc[c] = "idle" /\ pc' = [pc EXCEPT ![c] = "lock"] /\ inst' = [inst EXCEPT ![c] = i]
      /\ bar' = [bar EXCEPT ![c] = top] /\ UNCHANGED <<num, given, top>>
  BY DEF Call
<1>2. inst[c] = None /\ None # Here /\ num[c] = 0
  BY <1>1, PrefetchAssumption DEF RInv, IInv, TypeOK, HistoryOK
<1>3. \A d \in Callers \ {c} : CallOf(d)' = CallOf(d)
  BY <1>1, SameCall DEF RInv, IInv, TypeOK
<1>4. /\ inst'[c] = i /\ pc'[c] = "lock" /\ bar'[c] = top /\ num'[c] = 0
  BY <1>1, <1>2 DEF RInv, IInv, TypeOK
<1>5. CASE i = Here
  <2>1. CallOf(c) = Issuer!Idle
    BY <1>2 DEF CallOf, Issuer!Idle
  <2>2. CallOf(c)' = [st |-> "wait", n |-> 1, bar |-> top[Here], lo |-> 0]
    BY <1>4, <1>5 DEF CallOf
  <2> QED BY <1>1, <1>3, <2>1, <2>2, OneCall DEF Issuer!Begin
<1>6. CASE i # Here
  <2>1. CallOf(c)' = CallOf(c)
    BY <1>2, <1>4, <1>6, SameCall
  <2> QED BY <1>1, <1>3, <2>1, Stutter
<1> QED BY <1>5, <1>6

\* Giving a number above the bar that the instance has not given is a grant.
LEMMA GiveIsGrant ==
    ASSUME RInv, NEW c \in Callers, inst[c] \in Instances, pc[c] # "got",
           NEW v \in 1..MaxID, Give(c, v), UNCHANGED <<inst, top, bar>>,
           v \notin given[inst[c]], \A x \in given[inst[c]] : x \in Nat /\ x < v
    PROVE  Issuer!Grant(c) \/ UNCHANGED Issuer!vars
<1>1. given'[Here] = IF Here = inst[c] THEN given[Here] \cup {v} ELSE given[Here]
  BY GiveHistory, PrefetchAssumption
<1>2. \A d \in Callers \ {c} : CallOf(d)' = CallOf(d)
  BY SameCall DEF Give, RInv, IInv, TypeOK
<1>3. CASE inst[c] = Here
  <2>1. CallOf(c) = [st |-> "wait", n |-> 1, bar |-> bar[c][Here], lo |-> 0]
    BY <1>3, WaitingCall
  <2>2. CallOf(c)' = [st |-> "got", n |-> 1, bar |-> bar[c][Here], lo |-> v]
    BY <1>3 DEF CallOf, Give, RInv, IInv, TypeOK
  <2>3. v > bar[c][Here]
    <3>1. bar[c][Here] \in given[Here] \cup {0}
      BY PrefetchAssumption DEF RInv, HistoryOK
    <3> QED BY <1>3, <3>1
  <2>4. v..(v + 1 - 1) = {v}
    OBVIOUS
  <2>5. given'[Here] = given[Here] \cup {v} /\ {v} \cap given[Here] = {} /\ {v} \subseteq 1..MaxID
    BY <1>1, <1>3
  <2>6. [d \in Callers |-> CallOf(d)]' =
          [[d \in Callers |-> CallOf(d)] EXCEPT
             ![c] = [st |-> "got", n |-> 1, bar |-> bar[c][Here], lo |-> v]]
    BY <1>2, <2>2, OneCall
  <2>7. /\ [d \in Callers |-> CallOf(d)][c].st = "wait"
        /\ [d \in Callers |-> CallOf(d)][c].n = 1
        /\ [d \in Callers |-> CallOf(d)][c].bar = bar[c][Here]
    BY <2>1
  <2>8. top'[Here] = top[Here]
    OBVIOUS
  <2> HIDE DEF CallOf
  <2> DEFINE call == [d \in Callers |-> CallOf(d)]
  <2>9. /\ call[c].st = "wait" /\ call[c].n = 1 /\ call[c].bar = bar[c][Here]
        /\ call' = [call EXCEPT ![c] = [st |-> "got", n |-> call[c].n,
                                       bar |-> call[c].bar, lo |-> v]]
    BY <2>6, <2>7
  <2> HIDE DEF call
  <2>10. Issuer!Grant(c)
    <3> SUFFICES /\ call[c].st = "wait"
                 /\ \E lo \in 1..MaxID :
                      /\ lo > call[c].bar
                      /\ lo..(lo + call[c].n - 1) \subseteq 1..MaxID
                      /\ lo..(lo + call[c].n - 1) \cap given[Here] = {}
                      /\ given'[Here] = given[Here] \cup lo..(lo + call[c].n - 1)
                      /\ call' = [call EXCEPT ![c] = [st |-> "got", n |-> call[c].n,
                                                     bar |-> call[c].bar, lo |-> lo]]
                 /\ top'[Here] = top[Here]
      BY DEF call, Issuer!Grant
    <3>1. v..(v + call[c].n - 1) = {v}
      BY <2>4, <2>9
    <3> QED BY <2>3, <2>5, <2>8, <2>9, <3>1
  <2> QED BY <2>10
<1>4. CASE inst[c] # Here
  <2>1. CallOf(c)' = CallOf(c)
    BY <1>4, SameCall
  <2> QED BY <1>1, <1>2, <1>4, <2>1, Stutter
<1> QED BY <1>3, <1>4

\* From the rest of the block, or with an answer of the Seq Svc.
LEMMA TakeIsGrant ==
    ASSUME RInv, NEW c \in Callers, TakeLeft(c) \/ Arrive(c)
    PROVE  Issuer!Grant(c) \/ UNCHANGED Issuer!vars
<1>1. inst[c] \in Instances /\ pc[c] # "got"
  BY Types DEF TakeLeft, Arrive, Waits
<1>2. CASE TakeLeft(c)
  <2> DEFINE v == cur[inst[c]]
  <2>1. v \in Rest(inst[c])
    BY <1>1, <1>2 DEF TakeLeft, Left, Rest, RInv, IInv, TypeOK
  <2>2. v \in granted /\ v \in 1..MaxID
    BY <1>1, <2>1 DEF RInv, IInv, Apart, TypeOK
  <2>3. \A x \in given[inst[c]] : x \in Nat /\ x < v
    BY <1>1, <1>2, Types DEF TakeLeft, RInv, GivenOK
  <2>4. v \notin given[inst[c]]
    BY <2>2, <2>3
  <2>5. Give(c, v) /\ UNCHANGED <<inst, top, bar>>
    BY <1>2 DEF TakeLeft
  <2> HIDE DEF v
  <2> QED BY <1>1, <2>2, <2>3, <2>4, <2>5, GiveIsGrant
<1>3. CASE Arrive(c)
  <2> DEFINE v == rcall[rpc[c]].lo
  <2>1. \A x \in given[inst[c]] : x \in Nat /\ x < v
    BY <1>3, ArriveIsAbove
  <2>2. v \in 1..MaxID
    BY <1>3, ArriveIsAbove, BlockFacts DEF RInv
  <2>3. v \notin given[inst[c]]
    BY <2>1, <2>2
  <2>4. Give(c, v) /\ UNCHANGED <<inst, top, bar>>
    BY <1>3 DEF Arrive
  <2> HIDE DEF v
  <2> QED BY <1>1, <2>1, <2>2, <2>3, <2>4, GiveIsGrant
<1> QED BY <1>2, <1>3

\* A request that is made does not show.
LEMMA RefillIsStutter ==
    ASSUME RInv, NEW c \in Callers, Refill(c) PROVE UNCHANGED Issuer!vars
<1>1. pc[c] = "lock" /\ pc' = [pc EXCEPT ![c] = "rpc"] /\ UNCHANGED <<inst, num, given, top, bar>>
  BY DEF Refill, hist
<1>2. \A d \in Callers : CallOf(d)' = CallOf(d)
  BY <1>1, SameCall DEF RInv, IInv, TypeOK
<1> QED BY <1>1, <1>2, Stutter

\* One waiting call ends with an error.
LEMMA EndIsFail ==
    ASSUME RInv, NEW c \in Callers, pc[c] \in {"lock", "rpc"}, UNCHANGED <<given, top>>,
           \A d \in Callers : CallOf(d)' = IF d = c THEN Issuer!Idle ELSE CallOf(d)
    PROVE  Issuer!Fail(c) \/ UNCHANGED Issuer!vars
<1>1. CASE inst[c] = Here
  <2>1. CallOf(c).st = "wait"
    BY <1>1, WaitingCall
  <2>2. [d \in Callers |-> CallOf(d)]' = [[d \in Callers |-> CallOf(d)] EXCEPT ![c] = Issuer!Idle]
    BY OneCall
  <2> QED BY <2>1, <2>2 DEF Issuer!Fail
<1>2. CASE inst[c] # Here
  <2>1. CallOf(c) = Issuer!Idle
    BY <1>2 DEF CallOf, Issuer!Idle
  <2> QED BY <2>1, Stutter
<1> QED BY <1>1, <1>2

\* The end of a call is its failure or its return.
LEMMA EndIsEnd ==
    ASSUME RInv, NEW c \in Callers, RpcFails(c) \/ TimesOut(c) \/ Return(c)
    PROVE  Issuer!Fail(c) \/ Issuer!Return(c) \/ UNCHANGED Issuer!vars
<1>1. \A d \in Callers : CallOf(d)' = IF d = c THEN Issuer!Idle ELSE CallOf(d)
  <2>1. End({c}) /\ {c} \in SUBSET Callers
    BY DEF RpcFails, TimesOut, Return
  <2> QED BY <2>1, EndedCall
<1>2. CASE RpcFails(c) \/ TimesOut(c)
  BY <1>1, <1>2, EndIsFail DEF RpcFails, TimesOut, Waits
<1>3. CASE Return(c)
  <2>1. /\ pc[c] = "got" /\ given' = given /\ inst[c] \in Instances
        /\ top' = [top EXCEPT ![inst[c]] = IF num[c] > top[inst[c]] THEN num[c] ELSE top[inst[c]]]
    BY <1>3, Types DEF Return
  <2>2. CASE inst[c] = Here
    <3>1. CallOf(c) = [st |-> "got", n |-> 1, bar |-> bar[c][Here], lo |-> num[c]]
      BY <2>1, <2>2 DEF CallOf
    <3>2. num[c] + 1 - 1 = num[c]
      BY PrefetchAssumption DEF RInv, IInv, TypeOK
    <3>3. top'[Here] = IF num[c] > top[Here] THEN num[c] ELSE top[Here]
      BY <2>1, <2>2 DEF RInv, IInv, TypeOK
    <3>4. [d \in Callers |-> CallOf(d)]' = [[d \in Callers |-> CallOf(d)] EXCEPT ![c] = Issuer!Idle]
      BY <1>1, OneCall
    <3>5. given'[Here] = given[Here] /\ [d \in Callers |-> CallOf(d)][c] = CallOf(c)
      BY <2>1
    <3> QED BY <3>1, <3>2, <3>3, <3>4, <3>5 DEF Issuer!Return
  <2>3. CASE inst[c] # Here
    <3>1. top'[Here] = top[Here] /\ given'[Here] = given[Here]
      BY <2>1, <2>3 DEF RInv, IInv, TypeOK
    <3>2. CallOf(c) = Issuer!Idle
      BY <2>3 DEF CallOf, Issuer!Idle
    <3> QED BY <1>1, <3>1, <3>2, Stutter
  <2> QED BY <2>2, <2>3
<1> QED BY <1>2, <1>3

\* The death of Here is a restart of the issuer, that of another instance does
\* not show.
LEMMA CrashIsRestart ==
    ASSUME RInv, NEW i \in Instances, Crash(i)
    PROVE  Issuer!Restart \/ UNCHANGED Issuer!vars
<1> DEFINE cs == {c \in Callers : inst[c] = i}
<1>1. End(cs) /\ cs \in SUBSET Callers /\ UNCHANGED <<given, top>>
  BY DEF Crash
<1>2. \A c \in Callers : CallOf(c)' = IF inst[c] = i THEN Issuer!Idle ELSE CallOf(c)
  BY <1>1, EndedCall
<1>3. \A c \in Callers : inst[c] # Here => CallOf(c) = Issuer!Idle
  BY DEF CallOf, Issuer!Idle
<1>4. CASE i = Here
  <2>1. [c \in Callers |-> CallOf(c)]' = [c \in Callers |-> Issuer!Idle]
    BY <1>2, <1>3, <1>4
  <2> QED BY <1>1, <2>1 DEF Issuer!Restart
<1>5. CASE i # Here
  <2>1. \A c \in Callers : CallOf(c)' = CallOf(c)
    BY <1>2, <1>3, <1>5
  <2> QED BY <1>1, <2>1, Stutter
<1> QED BY <1>4, <1>5

\* A restart of the Seq Svc fails the one call of Here that waits for it: the
\* mutex admits no second one.
LEMMA SvcRestartIsFail ==
    ASSUME RInv, SvcRestart
    PROVE  (\E c \in Callers : Issuer!Fail(c)) \/ UNCHANGED Issuer!vars
<1> DEFINE cs == {c \in Callers : Waits(c)}
<1>1. End(cs) /\ cs \in SUBSET Callers /\ UNCHANGED <<given, top>>
  BY DEF SvcRestart
<1>2. \A c \in Callers : CallOf(c)' = IF Waits(c) THEN Issuer!Idle ELSE CallOf(c)
  BY <1>1, EndedCall
<1>3. \A c \in Callers : inst[c] # Here => CallOf(c) = Issuer!Idle
  BY DEF CallOf, Issuer!Idle
<1>4. \A c, d \in Callers : Waits(c) /\ Waits(d) /\ inst[c] = inst[d] => c = d
  BY DEF RInv, IInv, TypeOK
<1>5. CASE \E c \in Callers : Waits(c) /\ inst[c] = Here
  <2>1. PICK c \in Callers : Waits(c) /\ inst[c] = Here
    BY <1>5
  <2>2. \A d \in Callers : CallOf(d)' = IF d = c THEN Issuer!Idle ELSE CallOf(d)
    BY <1>2, <1>3, <1>4, <2>1
  <2> QED BY <1>1, <2>1, <2>2, EndIsFail DEF Waits
<1>6. CASE ~\E c \in Callers : Waits(c) /\ inst[c] = Here
  <2>1. \A c \in Callers : CallOf(c)' = CallOf(c)
    BY <1>2, <1>3, <1>6
  <2> QED BY <1>1, <2>1, Stutter
<1> QED BY <1>5, <1>6

\* Every step of the instances is a step of the issuer Here or does not show.
LEMMA IssuerStep == RInv /\ [Next]_vars => [Issuer!Next]_(Issuer!vars)
<1> SUFFICES ASSUME RInv, [Next]_vars PROVE [Issuer!Next]_(Issuer!vars)
  OBVIOUS
<1>1. ASSUME NEW c \in Callers, Alloc(c) PROVE [Issuer!Next]_(Issuer!vars)
  BY <1>1, TakeIsGrant, RefillIsStutter, EndIsEnd DEF Alloc, Issuer!Next
<1>2. ASSUME NEW c \in Callers, NEW i \in Instances, Call(c, i) PROVE [Issuer!Next]_(Issuer!vars)
  BY <1>2, CallIsBegin DEF Issuer!Next
<1>3. ASSUME UNCHANGED <<loc, hist>> PROVE UNCHANGED Issuer!vars
  BY <1>3, SameCall, Stutter DEF loc, hist
<1>4. ASSUME NEW i \in Instances, Clear(i) \/ Crash(i) PROVE [Issuer!Next]_(Issuer!vars)
  BY <1>3, <1>4, CrashIsRestart DEF Clear, Issuer!Next
<1>5. ASSUME NEW r \in Rpcs, Serve(r) PROVE UNCHANGED Issuer!vars
  BY <1>3, <1>5 DEF Serve
<1>6. CASE SvcRestart
  BY <1>6, SvcRestartIsFail DEF Issuer!Next
<1>7. CASE UNCHANGED vars
  BY <1>3, <1>7 DEF vars
<1> QED BY <1>1, <1>2, <1>4, <1>5, <1>6, <1>7 DEF Next

\* An instance of yim-message is an issuer of single numbers: a number is above
\* all that the instance returned before the call, and new, whatever the other
\* instances, given-up requests, crashes and restarts of the Seq Svc do.
THEOREM InstanceIsIssuer == Spec => IssuerSpec
<1>1. Init => RInv /\ Issuer!Init
  BY InitRInv, IssuerInit
<1> QED BY <1>1, StepRInv, IssuerStep, PTL DEF Spec, IssuerSpec, Issuer!Spec

-----------------------------------------------------------------------------
(* SyncSeq *)

\* The flag is set as long as a timer is on its way; without it a flush is.
TimerComes == armed => timers > 0 \/ due > 0 \/ \E c \in Bumpers : stage[c] = "arm"
FlushComes ==
    Pending(buf) # {} /\ ~armed => due > 0 \/ \E c \in Bumpers : stage[c] = "flush"

\* A floor is Margin above what it was made from, and so is the one that a caller
\* who is about to ask Redis took.
FloorsHold ==
    /\ \A u \in Users : floor[u] = (IF floor[u] = 0 THEN base[u] ELSE base[u] + Margin)
    /\ \A c \in Bumpers : stage[c] = "bump" => val[c] = from[c] + Margin

\* The counter of a user whose key was never lost, and whom the Seq Svc did not
\* serve, is no lower than what he was told.
CounterLeads == \A u \in Users \ lapsed : high[u] <= key[u]

SyncInv == SyncTypeOK /\ TimerComes /\ FlushComes /\ FloorsHold /\ CounterLeads

Levels == [Users -> Nat]

\* The types in a form that names each variable
LEMMA SyncTypes ==
    ASSUME SyncTypeOK
    PROVE  /\ key \in Levels /\ db \in Levels /\ next \in Levels /\ end \in Levels
           /\ floor \in Levels /\ buf \in Levels /\ high \in Levels /\ base \in Levels
           /\ rows \in [Flushers -> Levels] /\ quota \in [Flushers -> 0..Rate]
           /\ timers \in Nat /\ due \in Nat /\ armed \in BOOLEAN
           /\ val \in [Bumpers -> Nat] /\ from \in [Bumpers -> Nat]
           /\ Margin \in Nat \ {0} /\ SvcStep \in Nat \ {0} /\ Rate \in Nat
           /\ FlushSize \in Nat \ {0}
BY SyncSeqAssumption DEF SyncTypeOK, Levels

\* A busy caller works for a user.
LEMMA BusyUser ==
    ASSUME SyncTypeOK, NEW c \in Bumpers, stage[c] # "idle" PROVE user[c] \in Users
BY DEF SyncTypeOK

\* The larger of two levels
LEMMA LargerLevel ==
    ASSUME NEW a \in Nat, NEW b \in Nat
    PROVE  Larger(a, b) \in Nat /\ Larger(a, b) >= a /\ Larger(a, b) >= b
           /\ Larger(a, b) \in {a, b}
BY DEF Larger

\* How many levels a bucket holds
LEMMA PendingSize ==
    ASSUME NEW levels \in Levels
    PROVE  IsFiniteSet(Pending(levels)) /\ Cardinality(Pending(levels)) \in Nat
<1>1. Pending(levels) \in SUBSET Users
  BY DEF Pending
<1> QED BY <1>1, FS_Subset, FS_CardinalityType, SyncSeqAssumption

\* A level that is dealt with leaves one fewer.
LEMMA PendingLess ==
    ASSUME NEW levels \in Levels, NEW u \in Users, levels[u] # 0
    PROVE  Cardinality(Pending([levels EXCEPT ![u] = 0])) = Cardinality(Pending(levels)) - 1
<1>1. Pending([levels EXCEPT ![u] = 0]) = Pending(levels) \ {u} /\ u \in Pending(levels)
  BY DEF Pending, Levels
<1> QED BY <1>1, PendingSize, FS_RemoveElement

\* A fresh process
LEMMA SyncInitInv == SyncInit => SyncInv
<1> SUFFICES ASSUME SyncInit PROVE SyncInv
  OBVIOUS
<1>1. Nothing \in Levels /\ Pending(Nothing) = {} /\ \A u \in Users : Nothing[u] = 0
  BY DEF Nothing, Levels, Pending
<1>2. [u \in Users |-> 1] \in Levels
  BY DEF Levels
<1>3. Cardinality({}) = 0 /\ 0 \in 0..Rate /\ 0 \in 0..MaxFaults
  BY FS_EmptySet, SyncSeqAssumption
<1>4. /\ rows \in [Flushers -> Levels] /\ quota \in [Flushers -> 0..Rate]
      /\ \A f \in Flushers : rows[f] = Nothing /\ quota[f] = 0
  BY <1>1, <1>3 DEF SyncInit
<1>5. SyncTypeOK
  <2>1. {key, db, next, end, floor, buf, high, base} \subseteq Levels
    BY <1>1, <1>2 DEF SyncInit
  <2>2. /\ stage \in [Bumpers -> {"idle", "floor", "keep", "bump", "buffer", "flush", "arm", "end"}]
        /\ user \in [Bumpers -> Users \cup {NoUser}]
        /\ val \in [Bumpers -> Nat] /\ from \in [Bumpers -> Nat]
        /\ \A c \in Bumpers : (stage[c] = "idle") <=> (user[c] = NoUser)
    BY DEF SyncInit
  <2>3. \A f \in Flushers : quota[f] <= Cardinality(Pending(rows[f]))
    BY <1>1, <1>3, <1>4
  <2> QED BY <1>3, <1>4, <2>1, <2>2, <2>3 DEF SyncTypeOK, SyncInit, Levels
<1>6. TimerComes /\ FlushComes
  BY <1>1 DEF SyncInit, TimerComes, FlushComes
<1>7. FloorsHold /\ CounterLeads
  BY <1>1 DEF SyncInit, FloorsHold, CounterLeads
<1> QED BY <1>5, <1>6, <1>7 DEF SyncInv

\* A level from Redis
LEMMA BumpFacts ==
    ASSUME SyncInv, NEW c \in Bumpers, stage[c] = "bump"
    PROVE  /\ user[c] \in Users /\ Raised(c) \in Nat \ {0} /\ Raised(c) > key[user[c]]
           /\ Raised(c) >= from[c] + Margin
<1>1. user[c] \in Users
  BY BusyUser DEF SyncInv
<1>2. key[user[c]] \in Nat /\ val[c] \in Nat /\ from[c] \in Nat /\ Margin \in Nat
  BY <1>1, SyncTypes DEF SyncInv, Levels
<1>3. val[c] = from[c] + Margin
  BY DEF SyncInv, FloorsHold
<1>4. /\ Larger(key[user[c]] + 1, val[c]) \in Nat
      /\ Larger(key[user[c]] + 1, val[c]) >= key[user[c]] + 1
      /\ Larger(key[user[c]] + 1, val[c]) >= val[c]
  BY <1>2 DEF Larger
<1> QED BY <1>1, <1>2, <1>3, <1>4 DEF Raised

\* What a call is told
LEMMA ReturnsLevel ==
    ASSUME SyncTypeOK, NEW u \in Users, NEW v \in Nat, Returns(u, v)
    PROVE  /\ high' \in Levels /\ \A w \in Users : w # u => high'[w] = high[w]
           /\ high'[u] \in {high[u], v}
BY SyncTypes DEF Returns, Levels, Larger

\* What SyncTypeOK says of the callers
CallersOK ==
    /\ stage \in [Bumpers -> {"idle", "floor", "keep", "bump", "buffer", "flush", "arm", "end"}]
    /\ user \in [Bumpers -> Users \cup {NoUser}]
    /\ \A c \in Bumpers : (stage[c] = "idle") <=> (user[c] = NoUser)

\* A busy caller goes on with its user.
LEMMA GotoType ==
    ASSUME SyncTypeOK, NEW c \in Bumpers, stage[c] # "idle", UNCHANGED user,
           NEW l \in {"floor", "keep", "bump", "buffer", "flush", "arm", "end"}, Goto(c, l)
    PROVE  CallersOK'
BY DEF SyncTypeOK, CallersOK, Goto

\* A call ends.
LEMMA LeaveType ==
    ASSUME SyncTypeOK, NEW c \in Bumpers, Leave(c) PROVE CallersOK'
BY SyncSeqAssumption DEF SyncTypeOK, CallersOK, Leave, Goto

\* A call begins, reads a floor, keeps it.
LEMMA CallType ==
    ASSUME SyncInv, NEW c \in Bumpers,
           (\E u \in Users : CallBump(c, u)) \/ ReadFloor(c) \/ KeepFloor(c)
    PROVE  SyncTypeOK'
<1>1. /\ UNCHANGED <<stores, batch, high, lapsed, dropped>>
      /\ CallersOK'
  <2>1. CASE \E u \in Users : CallBump(c, u)
    <3>1. PICK u \in Users : CallBump(c, u)
      BY <2>1
    <3>2. PICK l \in {"floor", "bump"} : Goto(c, l)
      BY <3>1 DEF CallBump
    <3>3. CallersOK'
      BY <3>1, <3>2, SyncSeqAssumption DEF SyncInv, SyncTypeOK, CallBump, Goto, CallersOK
    <3> QED BY <3>1, <3>3 DEF CallBump, history
  <2>2. CASE ReadFloor(c) \/ KeepFloor(c)
    BY <2>2, GotoType DEF ReadFloor, KeepFloor, history, SyncInv
  <2> QED BY <2>1, <2>2
<1>0. /\ floor \in Levels /\ base \in Levels /\ db \in Levels
      /\ val \in [Bumpers -> Nat] /\ from \in [Bumpers -> Nat]
  BY SyncTypes DEF SyncInv
<1>2. faults' \in 0..MaxFaults
  BY SyncSeqAssumption DEF SyncInv, SyncTypeOK, CallBump, ReadFloor, KeepFloor, NoFault, Fault
<1>3. /\ floor' \in Levels /\ base' \in Levels
      /\ val' \in [Bumpers -> Nat] /\ from' \in [Bumpers -> Nat]
  <2>1. CASE KeepFloor(c)
    <3> DEFINE u == user[c]
               f == Larger(floor[u], Floor(val[c]))
               b == Larger(base[u], val[c])
    <3>1. u \in Users /\ val[c] \in Nat
      BY <2>1, BusyUser DEF SyncInv, SyncTypeOK, KeepFloor
    <3>2. Floor(val[c]) \in Nat
      BY <3>1, SyncTypes DEF SyncInv, Floor
    <3>3. f \in Nat /\ b \in Nat
      BY <1>0, <3>1, <3>2, LargerLevel DEF Levels
    <3>4. /\ floor' = [floor EXCEPT ![u] = f] /\ val' = [val EXCEPT ![c] = f]
          /\ base' = [base EXCEPT ![u] = b] /\ from' = [from EXCEPT ![c] = b]
      BY <2>1 DEF KeepFloor
    <3> HIDE DEF f, b
    <3> QED BY <1>0, <3>1, <3>3, <3>4 DEF Levels
  <2>2. CASE ReadFloor(c)
    BY <1>0, <2>2, BusyUser DEF SyncInv, ReadFloor, history, Levels
  <2>3. ASSUME NEW u \in Users, CallBump(c, u)
        PROVE  /\ floor' \in Levels /\ base' \in Levels
               /\ val' \in [Bumpers -> Nat] /\ from' \in [Bumpers -> Nat]
    BY <1>0, <2>3 DEF CallBump, Levels
  <2> QED BY <2>1, <2>2, <2>3
<1> QED BY <1>1, <1>2, <1>3 DEF SyncInv, SyncTypeOK, stores, batch, Levels, CallersOK

\* Redis answers, or the Seq Svc does.
LEMMA BumpType ==
    ASSUME SyncInv, NEW c \in Bumpers, Bump(c) \/ FallBack(c)
    PROVE  SyncTypeOK'
<1> DEFINE u == user[c]
<1>0. stage[c] = "bump" /\ u \in Users
  BY BusyUser DEF Bump, FallBack, SyncInv
<1>1. /\ UNCHANGED <<floor, batch, base, dropped>>
      /\ CallersOK' /\ from' \in [Bumpers -> Nat]
      /\ lapsed' \subseteq Users /\ faults' \in 0..MaxFaults
  <2>1. CallersOK'
    BY <1>0, GotoType, LeaveType DEF SyncInv, Bump, FallBack
  <2>2. from' \in [Bumpers -> Nat]
    BY SyncTypes DEF SyncInv, Bump, FallBack
  <2> QED BY <1>0, <2>1, <2>2, SyncSeqAssumption
          DEF SyncInv, SyncTypeOK, Bump, FallBack, NoFault, Fault
<1>2. CASE Bump(c)
  <2> DEFINE v == Raised(c)
  <2>1. v \in Nat
    BY <1>0, BumpFacts
  <2>2. high' \in Levels
    BY <1>0, <1>2, <2>1, ReturnsLevel DEF Bump, SyncInv
  <2>3. key' \in Levels /\ val' \in [Bumpers -> Nat] /\ UNCHANGED <<db, next, end>>
    <3> HIDE DEF v
    <3>1. key' = [key EXCEPT ![u] = v] /\ val' = [val EXCEPT ![c] = v] /\ UNCHANGED <<db, next, end>>
      BY <1>2 DEF Bump, v
    <3> QED BY <1>0, <2>1, <3>1, SyncTypes DEF SyncInv, SyncTypeOK, Levels
  <2> QED BY <1>1, <2>2, <2>3 DEF SyncInv, SyncTypeOK, batch, Levels, CallersOK
<1>3. CASE FallBack(c)
  <2> DEFINE first == IF next[u] > end[u] THEN db[u] + 1 ELSE next[u]
  <2>1. /\ first \in Nat /\ db[u] + SvcStep \in Nat /\ db \in Levels /\ end \in Levels
        /\ next \in Levels /\ key \in Levels
    BY <1>0, SyncTypes DEF SyncInv, Levels
  <2>2. high' \in Levels
    BY <1>0, <1>3, <2>1, ReturnsLevel DEF FallBack, SyncInv
  <2>3. key' \in Levels
    <3>1. Raised(c) \in Nat
      BY <1>0, BumpFacts
    <3> QED BY <1>0, <1>3, <2>1, <3>1 DEF FallBack, Levels
  <2>4. db' \in Levels /\ end' \in Levels
    BY <1>0, <1>3, <2>1 DEF FallBack, Levels
  <2>5. next' \in Levels
    <3> HIDE DEF first
    <3>1. next' = [next EXCEPT ![u] = first + 1]
      BY <1>3 DEF FallBack, first
    <3> QED BY <1>0, <2>1, <3>1 DEF Levels
  <2>6. val' \in [Bumpers -> Nat]
    BY <1>3 DEF FallBack, Leave, SyncInv, SyncTypeOK
  <2> QED BY <1>1, <2>2, <2>3, <2>4, <2>5, <2>6 DEF SyncInv, SyncTypeOK, batch, Levels, CallersOK
<1> QED BY <1>2, <1>3

\* backfill
LEMMA BackfillType ==
    ASSUME SyncInv, NEW c \in Bumpers, Buffer(c) \/ AfterBuffer(c)
    PROVE  SyncTypeOK'
<1>1. /\ UNCHANGED <<stores, floor, rows, quota, history, faults>>
      /\ CallersOK' /\ val' \in [Bumpers -> Nat]
  <2>1. CASE Buffer(c)
    <3>1. PICK l \in {"flush", "arm", "end"} : Goto(c, l)
      BY <2>1 DEF Buffer
    <3> QED BY <2>1, <3>1, GotoType DEF Buffer, NoFault, history, SyncInv, SyncTypeOK
  <2>2. CASE AfterBuffer(c)
    <3>1. Leave(c)
      BY <2>2 DEF AfterBuffer
    <3>2. CallersOK' /\ val' \in [Bumpers -> Nat]
      BY <3>1, LeaveType DEF SyncInv, SyncTypeOK, Leave
    <3> QED BY <2>2, <3>2 DEF AfterBuffer, NoFault, history
  <2> QED BY <2>1, <2>2
<1>2. timers' \in Nat /\ due' \in Nat
  BY DEF SyncInv, SyncTypeOK, Buffer, AfterBuffer
<1>3. buf' \in Levels /\ armed' \in BOOLEAN
  <2>1. CASE Buffer(c)
    <3>1. user[c] \in Users /\ val[c] \in Nat
      BY <2>1, BusyUser DEF SyncInv, SyncTypeOK, Buffer
    <3> QED BY <2>1, <3>1, SyncTypes, LargerLevel DEF SyncInv, Buffer, WithLevel, NeedArm, Levels
  <2>2. CASE AfterBuffer(c)
    BY <2>2, SyncTypes DEF SyncInv, AfterBuffer
  <2> QED BY <2>1, <2>2
<1> QED BY <1>1, <1>2, <1>3 DEF SyncInv, SyncTypeOK, stores, history, Levels, CallersOK

\* Timers and restarts leave the types alone.
LEMMA EnvironmentType ==
    ASSUME SyncInv, Fire \/ RedisEmptied \/ Restart
    PROVE  SyncTypeOK'
<1>0. Nothing \in Levels /\ Pending(Nothing) = {} /\ 0 \in 0..Rate /\ Cardinality({}) = 0
  BY FS_EmptySet, SyncSeqAssumption DEF Nothing, Levels, Pending
<1>1. CASE Fire
  BY <1>1 DEF Fire, SyncInv, SyncTypeOK, NoFault, stores, calls, history
<1>2. CASE RedisEmptied
  <2>1. faults' \in 0..MaxFaults /\ lapsed' \subseteq Users /\ key' \in Levels
    BY <1>0, <1>2, SyncSeqAssumption DEF RedisEmptied, Fault, SyncInv, SyncTypeOK, Pending
  <2> QED BY <1>2, <2>1 DEF RedisEmptied, SyncInv, SyncTypeOK, batch, calls, Levels
<1>3. CASE Restart
  <2>1. /\ UNCHANGED <<key, db, next, end, high, lapsed>>
        /\ floor' \in Levels /\ buf' \in Levels /\ base' \in Levels
        /\ timers' \in Nat /\ due' \in Nat /\ armed' \in BOOLEAN
    BY <1>0, <1>3 DEF Restart, stores
  <2>6. faults' \in 0..MaxFaults
    BY <1>3, SyncSeqAssumption DEF Restart, Fault, SyncInv, SyncTypeOK
  <2>7. dropped' \subseteq Users
    BY <1>3 DEF Restart, SyncInv, SyncTypeOK
  <2>2. CallersOK' /\ val' \in [Bumpers -> Nat] /\ from' \in [Bumpers -> Nat]
    BY <1>3 DEF Restart, CallersOK
  <2>3. /\ rows' \in [Flushers -> Levels] /\ quota' \in [Flushers -> 0..Rate]
        /\ \A f \in Flushers : rows'[f] = Nothing /\ quota'[f] = 0
    BY <1>0, <1>3 DEF Restart
  <2>4. \A f \in Flushers : quota'[f] <= Cardinality(Pending(rows'[f]))
    BY <1>0, <2>3
  <2>5. (\A f \in Flushers : quota[f] <= Cardinality(Pending(rows[f])))'
    BY <2>4 DEF Pending
  <2> QED BY <2>1, <2>2, <2>3, <2>5, <2>6, <2>7 DEF SyncInv, SyncTypeOK, Levels, CallersOK
<1> QED BY <1>1, <1>2, <1>3

\* flush takes the bucket.
LEMMA TakeType ==
    ASSUME SyncInv, NEW f \in Flushers, Take(f)
    PROVE  SyncTypeOK'
<1> DEFINE size == Cardinality(Pending(buf))
<1>0. Nothing \in Levels /\ size \in Nat /\ Rate \in Nat
  BY PendingSize, SyncTypes DEF Nothing, Levels, SyncInv
<1> HIDE DEF size
<1>1. Quota(size) \in 0..Rate /\ Quota(size) <= size
  BY <1>0 DEF Quota
<1>2. /\ rows' = [rows EXCEPT ![f] = buf] /\ quota' = [quota EXCEPT ![f] = Quota(size)]
      /\ rows \in [Flushers -> Levels] /\ buf \in Levels /\ quota \in [Flushers -> 0..Rate]
  BY SyncTypes DEF Take, size, SyncInv
<1>3. rows' \in [Flushers -> Levels] /\ quota' \in [Flushers -> 0..Rate]
  BY <1>1, <1>2
<1>4. \A g \in Flushers : quota'[g] <= Cardinality(Pending(rows'[g]))
  <2> SUFFICES ASSUME NEW g \in Flushers PROVE quota'[g] <= Cardinality(Pending(rows'[g]))
    OBVIOUS
  <2>1. CASE g = f
    BY <1>1, <1>2, <2>1 DEF size
  <2>2. CASE g # f
    BY <1>2, <2>2 DEF SyncInv, SyncTypeOK
  <2> QED BY <2>1, <2>2
<1>5. (\A g \in Flushers : quota[g] <= Cardinality(Pending(rows[g])))'
  BY <1>4 DEF Pending
<1>6. UNCHANGED <<stores, floor, timers, calls, history, faults>>
  BY DEF Take, NoFault
<1>7. buf' \in Levels /\ armed' \in BOOLEAN
  BY <1>0 DEF Take, ClearFlag
<1>8. due' \in Nat
  BY DEF Take, SyncInv, SyncTypeOK
<1> QED BY <1>3, <1>5, <1>6, <1>7, <1>8 DEF SyncInv, SyncTypeOK, stores, calls, history, Levels

\* A row is written or put back.
LEMMA RowType ==
    ASSUME SyncInv, NEW f \in Flushers, NEW u \in Users, WriteBack(f, u) \/ PutBack(f, u)
    PROVE  SyncTypeOK'
<1>1. /\ rows \in [Flushers -> Levels] /\ quota \in [Flushers -> 0..Rate] /\ rows[f] \in Levels
      /\ rows[f][u] \in Nat /\ rows[f][u] # 0 /\ db[u] \in Nat /\ buf[u] \in Nat /\ Rate \in Nat
      /\ db \in Levels /\ buf \in Levels
  BY SyncTypes DEF SyncInv, Levels, WriteBack, PutBack
<1>2. rows' = [rows EXCEPT ![f] = [rows[f] EXCEPT ![u] = 0]]
  BY <1>1 DEF WriteBack, PutBack, Settled
<1>3. /\ rows' \in [Flushers -> Levels] /\ rows'[f] = [rows[f] EXCEPT ![u] = 0]
      /\ \A g \in Flushers : g # f => rows'[g] = rows[g]
  <2>1. [rows[f] EXCEPT ![u] = 0] \in Levels
    BY <1>1 DEF Levels
  <2> QED BY <1>1, <1>2, <2>1
<1>4. /\ quota' \in [Flushers -> 0..Rate] /\ \A g \in Flushers : g # f => quota'[g] = quota[g]
      /\ quota'[f] = 0 \/ quota'[f] = quota[f] - 1
  BY <1>1 DEF WriteBack, PutBack
<1>5. \A g \in Flushers : quota'[g] <= Cardinality(Pending(rows'[g]))
  <2> SUFFICES ASSUME NEW g \in Flushers PROVE quota'[g] <= Cardinality(Pending(rows'[g]))
    OBVIOUS
  <2>1. CASE g = f
    <3>1. Cardinality(Pending(rows'[f])) = Cardinality(Pending(rows[f])) - 1
      BY <1>1, <1>3, PendingLess
    <3>2. Cardinality(Pending(rows[f])) \in Nat /\ Cardinality(Pending(rows'[f])) \in Nat
      BY <1>1, <1>3, PendingSize
    <3>3. quota[f] \in Nat /\ quota[f] <= Cardinality(Pending(rows[f]))
      BY <1>1 DEF SyncInv, SyncTypeOK
    <3> QED BY <1>4, <2>1, <3>1, <3>2, <3>3
  <2>2. CASE g # f
    BY <1>3, <1>4, <2>2 DEF SyncInv, SyncTypeOK
  <2> QED BY <2>1, <2>2
<1>6. (\A g \in Flushers : quota[g] <= Cardinality(Pending(rows[g])))'
  BY <1>5 DEF Pending
<1>7. db' \in Levels /\ buf' \in Levels /\ armed' \in BOOLEAN /\ timers' \in Nat /\ due' \in Nat
  <2>1. /\ Larger(db[u], rows[f][u]) \in Nat
        /\ Larger(buf[u], rows[f][u]) \in Nat
    BY <1>1, LargerLevel
  <2>2. CASE WriteBack(f, u)
    BY <1>1, <2>1, <2>2 DEF WriteBack, Written, SyncInv, SyncTypeOK, Levels
  <2>3. CASE PutBack(f, u)
    BY <1>1, <2>1, <2>3 DEF PutBack, WithLevel, NeedArm, stores, SyncInv, SyncTypeOK, Levels
  <2> QED BY <2>2, <2>3
<1>8. /\ UNCHANGED <<key, next, end, floor, calls, high, base, from, lapsed>>
      /\ dropped' \subseteq Users /\ faults' \in 0..MaxFaults
  BY SyncSeqAssumption
     DEF WriteBack, PutBack, stores, history, NoFault, Fault, SyncInv, SyncTypeOK
<1> QED BY <1>3, <1>4, <1>6, <1>7, <1>8 DEF SyncInv, SyncTypeOK, calls, Levels

\* A caller that is not about to start a timer or a flush moves on.
LEMMA QuietFlags ==
    ASSUME SyncInv, UNCHANGED <<buf, armed, timers, due>>,
           \A c \in Bumpers : stage[c] \in {"arm", "flush"} => stage'[c] = stage[c]
    PROVE  TimerComes' /\ FlushComes'
BY DEF SyncInv, TimerComes, FlushComes, Pending

\* Whoever sets the flag starts a timer, whoever fills the bucket a flush.
LEMMA BackfillFlags ==
    ASSUME SyncInv, NEW c \in Bumpers, Buffer(c) \/ AfterBuffer(c)
    PROVE  TimerComes' /\ FlushComes'
<1>1. CASE Buffer(c)
  <2> DEFINE levels == WithLevel(user[c], val[c])
  <2>1. /\ armed' = (armed \/ NeedArm(levels)) /\ UNCHANGED <<timers, due>> /\ stage[c] = "buffer"
        /\ stage' = [stage EXCEPT ![c] = IF Full(levels) THEN "flush"
                                         ELSE IF NeedArm(levels) THEN "arm" ELSE "end"]
    BY <1>1 DEF Buffer, Goto
  <2> HIDE DEF levels
  <2>2. /\ \A d \in Bumpers : stage[d] \in {"arm", "flush"} => stage'[d] = stage[d]
        /\ Full(levels) => stage'[c] = "flush"
        /\ NeedArm(levels) => stage'[c] = "arm"
    BY <2>1 DEF SyncInv, SyncTypeOK, NeedArm
  <2>3. TimerComes'
    BY <2>1, <2>2 DEF SyncInv, TimerComes
  <2>4. ~armed' => Full(levels)
    BY <2>1 DEF NeedArm
  <2>5. FlushComes'
    BY <2>2, <2>4 DEF FlushComes
  <2> QED BY <2>3, <2>5
<1>2. CASE AfterBuffer(c)
  <2>1. /\ UNCHANGED <<buf, armed>> /\ timers \in Nat /\ due \in Nat
        /\ \A d \in Bumpers \ {c} : stage'[d] = stage[d]
        /\ \/ stage[c] = "flush" /\ due' = due + 1 /\ timers' = timers
           \/ stage[c] = "arm" /\ timers' = timers + 1 /\ due' = due
           \/ stage[c] = "end" /\ UNCHANGED <<timers, due>>
    BY <1>2 DEF AfterBuffer, Leave, Goto, SyncInv, SyncTypeOK
  <2>2. TimerComes'
    BY <2>1 DEF SyncInv, TimerComes
  <2>3. FlushComes'
    BY <2>1 DEF SyncInv, FlushComes, Pending
  <2> QED BY <2>2, <2>3
<1> QED BY <1>1, <1>2

\* A timer becomes a flush, a flush takes bucket and flag together, and a row
\* that is put back brings its own timer or flush.
LEMMA FlushFlags ==
    ASSUME SyncInv,
           \/ Fire
           \/ \E f \in Flushers : Take(f) \/ \E u \in Users : WriteBack(f, u) \/ PutBack(f, u)
    PROVE  TimerComes' /\ FlushComes'
<1>0. timers \in Nat /\ due \in Nat
  BY SyncTypes DEF SyncInv
<1>1. CASE Fire
  BY <1>0, <1>1 DEF Fire, calls, SyncInv, TimerComes, FlushComes, Pending
<1>2. ASSUME NEW f \in Flushers, Take(f) PROVE TimerComes' /\ FlushComes'
  <2>1. armed' = FALSE /\ \A u \in Users : buf'[u] = 0
    BY <1>2 DEF Take, ClearFlag, Nothing
  <2> QED BY <2>1 DEF TimerComes, FlushComes, Pending
<1>3. ASSUME NEW f \in Flushers, NEW u \in Users, WriteBack(f, u) PROVE TimerComes' /\ FlushComes'
  BY <1>3, QuietFlags DEF WriteBack, calls
<1>4. ASSUME NEW f \in Flushers, NEW u \in Users, PutBack(f, u) PROVE TimerComes' /\ FlushComes'
  <2> DEFINE levels == WithLevel(u, rows[f][u])
  <2>1. /\ armed' = (armed \/ NeedArm(levels)) /\ UNCHANGED stage
        /\ due' = IF Full(levels) THEN due + 1 ELSE due
        /\ timers' = IF NeedArm(levels) THEN timers + 1 ELSE timers
    BY <1>4 DEF PutBack, calls
  <2> HIDE DEF levels
  <2>2. TimerComes'
    BY <1>0, <2>1 DEF SyncInv, SyncTypeOK, TimerComes
  <2>3. FlushComes'
    <3>1. ~armed' => Full(levels)
      BY <2>1 DEF NeedArm
    <3> QED BY <1>0, <2>1, <3>1 DEF FlushComes
  <2> QED BY <2>2, <2>3
<1> QED BY <1>1, <1>2, <1>3, <1>4

\* The flags, whatever step is taken
LEMMA StepFlags == ASSUME SyncInv, [SyncNext]_syncVars PROVE TimerComes' /\ FlushComes'
<1>1. ASSUME NEW c \in Bumpers,
             (\E u \in Users : CallBump(c, u)) \/ ReadFloor(c) \/ KeepFloor(c) \/ Bump(c) \/ FallBack(c)
      PROVE  TimerComes' /\ FlushComes'
  <2>1. UNCHANGED batch /\ stage[c] \in {"idle", "floor", "keep", "bump"}
    BY <1>1 DEF CallBump, ReadFloor, KeepFloor, Bump, FallBack
  <2>2. \A d \in Bumpers \ {c} : stage'[d] = stage[d]
    BY <1>1 DEF CallBump, ReadFloor, KeepFloor, Bump, FallBack, Goto, Leave, SyncInv, SyncTypeOK
  <2> QED BY <2>1, <2>2, QuietFlags DEF batch
<1>2. CASE RedisEmptied
  BY <1>2, QuietFlags DEF RedisEmptied, batch, calls
<1>3. CASE Restart
  <2>1. armed' = FALSE /\ \A u \in Users : buf'[u] = 0
    BY <1>3 DEF Restart, Nothing
  <2> QED BY <2>1 DEF TimerComes, FlushComes, Pending
<1>4. CASE UNCHANGED syncVars
  BY <1>4, QuietFlags DEF syncVars, batch, calls
<1> QED BY <1>1, <1>2, <1>3, <1>4, BackfillFlags, FlushFlags DEF SyncNext, Caller, Flush

\* A floor is made Margin above what was read, and kept for the process' life;
\* the one that a caller took stays with him.
LEMMA StepFloors == ASSUME SyncInv, [SyncNext]_syncVars PROVE FloorsHold'
<1>0. /\ floor \in Levels /\ base \in Levels /\ Margin \in Nat \ {0} /\ SyncTypeOK /\ FloorsHold
      /\ val \in [Bumpers -> Nat] /\ from \in [Bumpers -> Nat]
  BY SyncTypes DEF SyncInv
<1>1. ASSUME NEW c \in Bumpers, KeepFloor(c) PROVE FloorsHold'
  <2> DEFINE u == user[c]
             f == Larger(floor[u], val[c] + Margin)
             b == Larger(base[u], val[c])
  <2>1. /\ u \in Users /\ val[c] \in Nat /\ floor[u] \in Nat /\ base[u] \in Nat
        /\ floor[u] = IF floor[u] = 0 THEN base[u] ELSE base[u] + Margin
    BY <1>0, <1>1, BusyUser DEF KeepFloor, SyncTypeOK, Levels, FloorsHold
  <2>2. /\ floor' = [floor EXCEPT ![u] = f] /\ val' = [val EXCEPT ![c] = f]
        /\ base' = [base EXCEPT ![u] = b] /\ from' = [from EXCEPT ![c] = b]
        /\ stage' = [stage EXCEPT ![c] = "bump"]
    BY <1>1 DEF KeepFloor, Floor, Goto
  <2>3. f # 0 /\ f = b + Margin
    BY <1>0, <2>1 DEF Larger
  <2> HIDE DEF f, b
  <2>4. \A w \in Users : floor'[w] = IF floor'[w] = 0 THEN base'[w] ELSE base'[w] + Margin
    BY <1>0, <2>1, <2>2, <2>3 DEF FloorsHold, Levels
  <2>5. \A d \in Bumpers : stage'[d] = "bump" => val'[d] = from'[d] + Margin
    BY <1>0, <2>2, <2>3 DEF FloorsHold, SyncTypeOK
  <2> QED BY <2>4, <2>5 DEF FloorsHold
<1>2. ASSUME UNCHANGED <<floor, base>>,
             \A d \in Bumpers : stage'[d] = "bump" =>
               stage[d] = "bump" /\ val'[d] = val[d] /\ from'[d] = from[d]
      PROVE  FloorsHold'
  BY <1>0, <1>2 DEF FloorsHold
<1>3. ASSUME NEW c \in Bumpers, NEW u \in Users, CallBump(c, u) PROVE FloorsHold'
  <2>1. /\ stage' = [stage EXCEPT ![c] = IF floor[u] = 0 THEN "floor" ELSE "bump"]
        /\ val' = [val EXCEPT ![c] = floor[u]] /\ from' = [from EXCEPT ![c] = base[u]]
        /\ UNCHANGED <<floor, base>>
    BY <1>3 DEF CallBump, Goto
  <2>2. stage'[c] = "bump" => floor[u] = base[u] + Margin
    BY <1>0, <2>1 DEF SyncTypeOK, FloorsHold
  <2>3. \A d \in Bumpers : stage'[d] = "bump" => val'[d] = from'[d] + Margin
    BY <1>0, <2>1, <2>2 DEF SyncTypeOK, FloorsHold
  <2> QED BY <1>0, <2>1, <2>3 DEF FloorsHold
<1>4. ASSUME NEW c \in Bumpers,
             ReadFloor(c) \/ Bump(c) \/ FallBack(c) \/ Buffer(c) \/ AfterBuffer(c)
      PROVE  FloorsHold'
  <2>1. UNCHANGED <<floor, base>>
    BY <1>4 DEF ReadFloor, Bump, FallBack, Buffer, AfterBuffer, history
  <2>2. /\ stage'[c] # "bump"
        /\ \A d \in Bumpers \ {c} :
             stage'[d] = stage[d] /\ val'[d] = val[d] /\ from'[d] = from[d]
    BY <1>0, <1>4
       DEF SyncTypeOK, ReadFloor, Bump, FallBack, Buffer, AfterBuffer, Goto, Leave, history
  <2> QED BY <1>2, <2>1, <2>2
<1>5. CASE Restart
  <2>1. (\A u \in Users : floor'[u] = 0 /\ base'[u] = 0) /\ \A d \in Bumpers : stage'[d] = "idle"
    BY <1>5 DEF Restart, Nothing
  <2> QED BY <2>1 DEF FloorsHold
<1>6. ASSUME UNCHANGED <<floor, base, from, calls>> PROVE FloorsHold'
  BY <1>0, <1>6 DEF FloorsHold, calls
<1>7. ASSUME NEW f \in Flushers, Flush(f) PROVE FloorsHold'
  BY <1>6, <1>7 DEF Flush, Take, WriteBack, PutBack, history
<1>8. CASE Fire \/ RedisEmptied \/ UNCHANGED syncVars
  BY <1>6, <1>8 DEF Fire, RedisEmptied, syncVars, history
<1> QED BY <1>1, <1>3, <1>4, <1>5, <1>7, <1>8 DEF SyncNext, Caller

\* Only an emptied Redis and the Seq Svc part the counter from what was told.
LEMMA StepCounter == ASSUME SyncInv, [SyncNext]_syncVars PROVE CounterLeads'
<1>0. key \in Levels /\ high \in Levels /\ SyncTypeOK /\ CounterLeads
  BY SyncTypes DEF SyncInv
<1>1. ASSUME NEW c \in Bumpers, Bump(c) PROVE CounterLeads'
  <2> DEFINE u == user[c]
             v == Raised(c)
  <2>1. /\ u \in Users /\ v \in Nat /\ v > key[u] /\ key' = [key EXCEPT ![u] = v]
        /\ Returns(u, v) /\ UNCHANGED lapsed
    BY <1>1, BumpFacts DEF Bump
  <2> HIDE DEF v
  <2>2. /\ high'[u] \in {high[u], v} /\ \A w \in Users : w # u => high'[w] = high[w]
    BY <1>0, <2>1, ReturnsLevel
  <2>3. key'[u] = v /\ (\A w \in Users : w # u => key'[w] = key[w]) /\ key[u] \in Nat /\ high[u] \in Nat
    BY <1>0, <2>1 DEF Levels
  <2> QED BY <1>0, <2>1, <2>2, <2>3 DEF CounterLeads
<1>2. ASSUME NEW c \in Bumpers, FallBack(c) PROVE CounterLeads'
  <2> DEFINE u == user[c]
             first == IF next[u] > end[u] THEN db[u] + 1 ELSE next[u]
  <2>1. /\ u \in Users /\ u \in lapsed' /\ lapsed \subseteq lapsed' /\ first \in Nat
        /\ \A w \in Users : w # u => key'[w] = key[w]
    BY <1>0, <1>2, BusyUser, SyncTypes DEF FallBack, Levels
  <2>2. Returns(u, first)
    BY <1>2 DEF FallBack
  <2> HIDE DEF first
  <2>3. \A w \in Users : w # u => high'[w] = high[w]
    BY <1>0, <2>1, <2>2, ReturnsLevel
  <2> QED BY <1>0, <2>1, <2>3 DEF CounterLeads
<1>3. CASE RedisEmptied
  <2>1. ASSUME NEW u \in Users \ lapsed' PROVE high'[u] <= key'[u]
    <3>1. key[u] = 0 /\ u \notin lapsed /\ key'[u] = 0 /\ high' = high
      BY <1>0, <1>3 DEF RedisEmptied, Pending, Nothing, Levels
    <3> QED BY <1>0, <3>1 DEF CounterLeads
  <2> QED BY <2>1 DEF CounterLeads
<1>4. ASSUME UNCHANGED <<key, high, lapsed>> PROVE CounterLeads'
  BY <1>0, <1>4 DEF CounterLeads
<1>5. ASSUME NEW c \in Bumpers, (\E u \in Users : CallBump(c, u)) \/ ReadFloor(c) \/ KeepFloor(c)
                                 \/ Buffer(c) \/ AfterBuffer(c)
      PROVE  CounterLeads'
  BY <1>4, <1>5 DEF CallBump, ReadFloor, KeepFloor, Buffer, AfterBuffer, stores, history
<1>6. ASSUME NEW f \in Flushers, Flush(f) PROVE CounterLeads'
  BY <1>4, <1>6 DEF Flush, Take, WriteBack, PutBack, stores, history
<1>7. CASE Fire \/ Restart \/ UNCHANGED syncVars
  BY <1>4, <1>7 DEF Fire, Restart, syncVars, stores, history
<1> QED BY <1>1, <1>2, <1>3, <1>5, <1>6, <1>7 DEF SyncNext, Caller

\* The invariant is inductive.
LEMMA SyncStepInv == SyncInv /\ [SyncNext]_syncVars => SyncInv'
<1> SUFFICES ASSUME SyncInv, [SyncNext]_syncVars PROVE SyncInv'
  OBVIOUS
<1>1. SyncTypeOK'
  <2>1. CASE UNCHANGED syncVars
    BY <2>1 DEF SyncInv, SyncTypeOK, syncVars, stores, batch, calls, history, Pending
  <2> QED BY <2>1, CallType, BumpType, BackfillType, EnvironmentType, TakeType, RowType
          DEF SyncNext, Caller, Flush
<1> QED BY <1>1, StepFlags, StepFloors, StepCounter DEF SyncInv

\* A level in the bucket is always going to be written: whatever calls, full
\* buckets, timers, flushes and put-back rows overlap, a flush or a timer is
\* on its way as long as the bucket holds a level.
THEOREM LevelsAreFlushed == SyncSpec => []NoLevelIsStranded
<1>1. SyncInv => NoLevelIsStranded
  BY DEF SyncInv, TimerComes, FlushComes, NoLevelIsStranded
<1> QED BY <1>1, SyncInitInv, SyncStepInv, PTL DEF SyncSpec

\* A level from Redis is not below the floor that the caller took.
LEMMA RaisedAboveFloor ==
    ASSUME SyncInv, [SyncNext]_syncVars, NEW u \in Users, key'[u] \notin {0, key[u]}
    PROVE  /\ key'[u] > key[u] /\ key'[u] \in Nat /\ (u \in lapsed => u \in lapsed')
           /\ \E c \in Bumpers : /\ user[c] = u /\ stage[c] = "bump" /\ stage'[c] # "bump"
                                 /\ key'[u] >= from[c] + Margin
<1> DEFINE Goal == /\ key'[u] > key[u] /\ key'[u] \in Nat /\ (u \in lapsed => u \in lapsed')
                   /\ \E c \in Bumpers : /\ user[c] = u /\ stage[c] = "bump" /\ stage'[c] # "bump"
                                         /\ key'[u] >= from[c] + Margin
<1>0. key \in Levels
  BY SyncTypes DEF SyncInv
<1>1. ASSUME NEW c \in Bumpers, Bump(c) \/ FallBack(c) PROVE Goal
  <2> DEFINE w == user[c]
             v == Raised(c)
  <2>1. /\ w \in Users /\ v \in Nat \ {0} /\ v > key[w] /\ v >= from[c] + Margin
        /\ stage[c] = "bump"
    BY <1>1, BumpFacts DEF Bump, FallBack
  <2>2. key' \in {key, [key EXCEPT ![w] = v]} /\ lapsed \subseteq lapsed' /\ stage'[c] # "bump"
    BY <1>1 DEF Bump, FallBack, Leave, Goto, SyncInv, SyncTypeOK
  <2> HIDE DEF v
  <2>3. u = w /\ key'[u] = v
    BY <1>0, <2>1, <2>2 DEF Levels
  <2> QED BY <2>1, <2>2, <2>3
<1>2. ASSUME RedisEmptied PROVE Goal
  BY <1>2 DEF RedisEmptied, Nothing
<1>3. ASSUME UNCHANGED key PROVE Goal
  BY <1>3
<1>4. UNCHANGED key \/ RedisEmptied \/ \E c \in Bumpers : Bump(c) \/ FallBack(c)
  BY DEF SyncNext, Caller, Flush, CallBump, ReadFloor, KeepFloor, Buffer, AfterBuffer, Take,
         WriteBack, PutBack, Fire, Restart, syncVars, stores
<1> QED BY <1>1, <1>2, <1>3, <1>4

\* A level from Redis is above every level returned, whatever calls race, unless
\* the key was lost or the Seq Svc served the user, and even then as long as the
\* margin of the floor that the call took is not used up.
THEOREM LevelsRise == SyncSpec => MarginCovers
<1> DEFINE Excused(u) ==
             /\ u \in lapsed'
             /\ \E c \in Bumpers : /\ user[c] = u /\ stage[c] = "bump" /\ stage'[c] # "bump"
                                   /\ high[u] - from[c] >= Margin
<1>1. ASSUME SyncInv, [SyncNext]_syncVars, NEW u \in Users,
             key'[u] \notin {0, key[u]}, high[u] >= key'[u]
      PROVE  Excused(u)
  <2>1. /\ key'[u] > key[u] /\ key'[u] \in Nat /\ (u \in lapsed => u \in lapsed')
    BY <1>1, RaisedAboveFloor
  <2>2. PICK c \in Bumpers : /\ user[c] = u /\ stage[c] = "bump" /\ stage'[c] # "bump"
                             /\ key'[u] >= from[c] + Margin
    BY <1>1, RaisedAboveFloor
  <2>3. key[u] \in Nat /\ high[u] \in Nat /\ from[c] \in Nat /\ Margin \in Nat
    BY <1>1, SyncTypes DEF SyncInv, Levels
  <2>4. u \in lapsed
    BY <1>1, <2>1, <2>3 DEF SyncInv, CounterLeads
  <2>5. high[u] - from[c] >= Margin
    BY <1>1, <2>1, <2>2, <2>3
  <2> QED BY <2>1, <2>2, <2>4, <2>5
<1>2. SyncInv /\ [SyncNext]_syncVars =>
        [\A u \in Users : key'[u] \notin {0, key[u]} /\ high[u] >= key'[u] => Excused(u)]_syncVars
  BY <1>1
<1> QED BY <1>2, SyncInitInv, SyncStepInv, PTL DEF SyncSpec, MarginCovers
=============================================================================
