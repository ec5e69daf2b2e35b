-------------------------- MODULE SchedulerProofs --------------------------
(***************************************************************************)
(* Proofs about Scheduler for any number of nodes, shards and windows.  A  *)
(* worker that finds the lock of its job taken lets the job go: nothing is *)
(* dropped because a lock is only there for a job that runs, has run or    *)
(* was lost.  Each lock stands for one execution that needs no excuse.     *)
(***************************************************************************)
EXTENDS Scheduler, TLAPS

\* A lock that is there was taken for an execution in this window.
Locked == \A j \in locks : j \in done \cup lost \/ \E n \in Nodes : run[n] = j

\* The lock of a job accounts for one of its executions.
Counted == \A j \in Jobs : runs[j] <= excuse[j] + (IF j \in locks THEN 1 ELSE 0)

\* NothingDropped job by job
Kept ==
    \A j \in asked :
        \/ j \in Queued \cup done \cup lost
        \/ \E n \in Nodes : j \in {popped[n], run[n], inline[n]}

\* A worker runs a job or is about to claim one.
OneJob == \A n \in Nodes : popped[n] = NoJob \/ run[n] = NoJob

SInv == TypeOK /\ Kept /\ Locked /\ Counted /\ OneJob

\* Kept is what NothingDropped says.
LEMMA KeptIs == TypeOK => (Kept <=> NothingDropped)
<1> SUFFICES ASSUME TypeOK PROVE Kept <=> NothingDropped
  OBVIOUS
<1>1. asked \subseteq Jobs /\ NoJob \notin Jobs
  BY SchedulerAssumption DEF TypeOK, Jobs
<1> DEFINE held == UNION {Held(n) : n \in Nodes}
<1>2. \A j \in Jobs : (\E n \in Nodes : j \in {popped[n], run[n], inline[n]}) <=> j \in held
  BY <1>1 DEF Held
<1>3. NothingDropped <=> asked \subseteq Queued \cup held \cup done \cup lost
  BY DEF NothingDropped
<1> HIDE DEF held
<1> QED BY <1>1, <1>2, <1>3 DEF Kept

\* The jobs of a queue, with one more at its end and with one less at its head
LEMMA QueueFacts ==
    ASSUME queue \in Seq(Jobs)
    PROVE  /\ Queued \subseteq Jobs
           /\ \A j \in Jobs : queue' = Append(queue, j) => queue' \in Seq(Jobs) /\ Queued' = Queued \cup {j}
           /\ \A j \in Jobs : queue' = Append(Append(queue, j), j) =>
                queue' \in Seq(Jobs) /\ Queued' = Queued \cup {j}
           /\ queue # <<>> /\ queue' = Tail(queue) =>
                queue' \in Seq(Jobs) /\ Head(queue) \in Jobs /\ Queued = Queued' \cup {Head(queue)}
           /\ queue' = <<>> => queue' \in Seq(Jobs) /\ Queued' = {}
           /\ queue' = queue => queue' \in Seq(Jobs) /\ Queued' = Queued
<1>1. DOMAIN queue = 1..Len(queue) /\ Len(queue) \in Nat
  OBVIOUS
<1>2. Queued \subseteq Jobs
  BY <1>1 DEF Queued
<1>3. ASSUME NEW j \in Jobs, queue' = Append(queue, j)
      PROVE  queue' \in Seq(Jobs) /\ Queued' = Queued \cup {j}
  <2>1. /\ queue' \in Seq(Jobs) /\ DOMAIN queue' = 1..(Len(queue) + 1)
        /\ \A k \in 1..Len(queue) : queue'[k] = queue[k]
        /\ queue'[Len(queue) + 1] = j
    BY <1>3
  <2>2. Queued' \subseteq Queued \cup {j}
    BY <1>1, <2>1 DEF Queued
  <2>3. Queued \subseteq Queued'
    BY <1>1, <2>1 DEF Queued
  <2>4. j \in Queued'
    BY <1>1, <2>1 DEF Queued
  <2> QED BY <2>1, <2>2, <2>3, <2>4
<1>d. ASSUME NEW j \in Jobs, queue' = Append(Append(queue, j), j)
      PROVE  queue' \in Seq(Jobs) /\ Queued' = Queued \cup {j}
  <2>1. /\ queue' \in Seq(Jobs) /\ DOMAIN queue' = 1..(Len(queue) + 2)
        /\ \A k \in 1..Len(queue) : queue'[k] = queue[k]
        /\ queue'[Len(queue) + 1] = j /\ queue'[Len(queue) + 2] = j
    BY <1>d
  <2>2. Queued' \subseteq Queued \cup {j}
    <3>1. \A k \in 1..(Len(queue) + 2) : k \in 1..Len(queue) \/ k = Len(queue) + 1 \/ k = Len(queue) + 2
      BY <1>1
    <3> QED BY <1>1, <2>1, <3>1 DEF Queued
  <2>3. Queued \subseteq Queued'
    BY <1>1, <2>1 DEF Queued
  <2>4. j \in Queued'
    BY <1>1, <2>1 DEF Queued
  <2> QED BY <2>1, <2>2, <2>3, <2>4
<1>4. ASSUME queue # <<>>, queue' = Tail(queue)
      PROVE  queue' \in Seq(Jobs) /\ Head(queue) \in Jobs /\ Queued = Queued' \cup {Head(queue)}
  <2>1. /\ queue' \in Seq(Jobs) /\ DOMAIN queue' = 1..(Len(queue) - 1) /\ Len(queue) >= 1
        /\ \A k \in 1..(Len(queue) - 1) : queue'[k] = queue[k + 1]
        /\ Head(queue) = queue[1] /\ Head(queue) \in Jobs
    BY <1>4
  <2>2. Queued' \subseteq Queued
    BY <1>1, <2>1 DEF Queued
  <2>3. Head(queue) \in Queued
    BY <1>1, <2>1 DEF Queued
  <2>4. ASSUME NEW k \in 1..Len(queue), k # 1 PROVE queue[k] \in Queued'
    <3>1. k - 1 \in 1..(Len(queue) - 1) /\ (k - 1) + 1 = k
      BY <1>1, <2>4
    <3> QED BY <2>1, <3>1 DEF Queued
  <2>5. Queued \subseteq Queued' \cup {Head(queue)}
    BY <1>1, <2>1, <2>4 DEF Queued
  <2> QED BY <2>1, <2>2, <2>3, <2>5
<1>5. queue' = <<>> => queue' \in Seq(Jobs) /\ Queued' = {}
  BY DEF Queued
<1>6. queue' = queue => queue' \in Seq(Jobs) /\ Queued' = Queued
  BY DEF Queued
<1> QED BY <1>2, <1>3, <1>d, <1>4, <1>5, <1>6

\* The next window number
LEMMA NextWindow ==
    ASSUME win \in 0..(Windows - 1) PROVE (win + 1) % Windows \in 0..(Windows - 1)
BY SchedulerAssumption

\* What a failed or successful end of a job leaves
LEMMA OutcomeFacts ==
    ASSUME TypeOK, NEW j \in Jobs, Outcome(j)
    PROVE  /\ done \subseteq done' /\ lost \subseteq lost' /\ j \in done' \cup lost'
           /\ done' \subseteq Jobs /\ lost' \subseteq Jobs /\ faults' \in 0..MaxFaults
BY SchedulerAssumption DEF Outcome, Fault, NoFault, TypeOK

\* A fault counts up to the bound.
LEMMA FaultType == ASSUME TypeOK, Fault \/ NoFault PROVE faults' \in 0..MaxFaults
BY SchedulerAssumption DEF Fault, NoFault, TypeOK

\* Start, Campaign, the loss of a session and the end of a lease
LEMMA ElectionType ==
    ASSUME TypeOK, NEW n \in Nodes,
           Start(n) \/ Campaign(n) \/ SessionLost(n) \/ ReleaseLease(n)
    PROVE  TypeOK'
<1>1. faults' \in 0..MaxFaults
  BY FaultType DEF Start, Campaign, SessionLost, ReleaseLease
<1>2. \A m \in Nodes : Held(m)' = Held(m)
  BY DEF Start, Campaign, SessionLost, ReleaseLease, trigger, work, Held
<1>3. CASE Start(n)
  <2>1. n \notin up /\ up' = up \cup {n} /\ rdb' \in {rdb \cup {n}, rdb \ {n}}
        /\ UNCHANGED <<win, leader, leads, trigger, redis, work, history>>
    BY <1>3 DEF Start
  <2>2. Held(n) = {} /\ NoJob \notin Jobs
    BY <2>1, SchedulerAssumption DEF TypeOK, Jobs
  <2>3. popped[n] = NoJob /\ run[n] = NoJob
    BY <2>2 DEF Held
  <2> QED
    BY <1>1, <1>2, <2>1, <2>3 DEF TypeOK, trigger, redis, work, history
<1>4. CASE Campaign(n)
  BY <1>1, <1>2, <1>4 DEF Campaign, TypeOK, redis, work, history
<1>5. CASE SessionLost(n) \/ ReleaseLease(n)
  BY <1>1, <1>2, <1>5 DEF SessionLost, ReleaseLease, TypeOK, trigger, redis, work, history
<1> QED BY <1>3, <1>4, <1>5

\* A process dies with what it had.
LEMMA DiesType ==
    ASSUME TypeOK, NEW n \in Nodes, Crash(n) \/ NoticeLoss(n) PROVE TypeOK'
<1>1. faults' \in 0..MaxFaults /\ Dies(n)
  BY FaultType DEF Crash, NoticeLoss
<1>2. /\ up' = up \ {n} /\ leads' = leads \ {n} /\ due' = due \ {n}
      /\ round' = [round EXCEPT ![n] = {}] /\ inline' = [inline EXCEPT ![n] = NoJob]
      /\ popped' = [popped EXCEPT ![n] = NoJob] /\ run' = [run EXCEPT ![n] = NoJob]
      /\ lost' = lost \cup Held(n)
      /\ UNCHANGED <<win, leader, rdb, queue, locks, asked, done, runs, excuse>>
  BY <1>1 DEF Dies, redis
<1>3. Held(n) \subseteq Jobs
  BY DEF TypeOK, Held
<1>4. /\ round' \in [Nodes -> SUBSET Jobs] /\ inline' \in [Nodes -> Jobs \cup {NoJob}]
      /\ popped' \in [Nodes -> Jobs \cup {NoJob}] /\ run' \in [Nodes -> Jobs \cup {NoJob}]
  BY <1>2 DEF TypeOK
<1>5. ASSUME NEW m \in Nodes
      PROVE  /\ m \notin up' => Held(m)' = {} /\ round'[m] = {}
             /\ m \notin rdb' => popped'[m] = NoJob /\ run'[m] = NoJob
  <2>1. CASE m = n
    BY <1>2, <2>1 DEF TypeOK, Held
  <2>2. CASE m # n
    BY <1>2, <2>2 DEF TypeOK, Held
  <2> QED BY <2>1, <2>2
<1> QED BY <1>1, <1>2, <1>3, <1>4, <1>5 DEF TypeOK

\* The trigger loop
LEMMA TriggeringType == ASSUME TypeOK, NEW n \in Nodes, Triggering(n) PROVE TypeOK'
<1>1. CASE Trigger(n)
  <2>1. /\ due' = due \ {n} /\ n \in due /\ round' = [round EXCEPT ![n] = {win} \X Shards]
        /\ UNCHANGED <<win, cluster, inline, redis, work, history, faults>>
    BY <1>1 DEF Trigger, NoFault
  <2>2. {win} \X Shards \subseteq Jobs /\ n \in up
    BY <2>1 DEF TypeOK, Jobs
  <2>3. round' \in [Nodes -> SUBSET Jobs]
    BY <2>1, <2>2 DEF TypeOK
  <2>4. \A m \in Nodes : (m # n => round'[m] = round[m]) /\ Held(m)' = Held(m)
    BY <2>1 DEF TypeOK, Held, work
  <2> QED BY <2>1, <2>2, <2>3, <2>4 DEF TypeOK, cluster, redis, work, history
<1>2. ASSUME NEW j \in Jobs, Enqueue(n, j) \/ ExecInline(n, j) PROVE TypeOK'
  <2>1. /\ j \in round[n] /\ round' = [round EXCEPT ![n] = round[n] \ {j}] /\ asked' = asked \cup {j}
        /\ queue' \in {queue, Append(queue, j), Append(Append(queue, j), j)} /\ faults' \in 0..MaxFaults
        /\ UNCHANGED <<win, cluster, due, locks, work, done, lost>>
    BY <1>2, FaultType DEF Enqueue, ExecInline, Ask
  <2>2. queue' \in Seq(Jobs)
    BY <2>1, QueueFacts DEF TypeOK
  <2>3. n \in up
    BY <2>1 DEF TypeOK
  <2>4. /\ round' \in [Nodes -> SUBSET Jobs]
        /\ \A m \in Nodes : round'[m] \subseteq round[m]
    BY <2>1 DEF TypeOK
  <2>5. /\ inline' \in [Nodes -> Jobs \cup {NoJob}] /\ \A m \in Nodes \ {n} : inline'[m] = inline[m]
        /\ runs' \in [Jobs -> Nat] /\ excuse' \in [Jobs -> Nat]
    <3>1. CASE Enqueue(n, j)
      BY <3>1 DEF Enqueue, TypeOK
    <3>2. CASE ExecInline(n, j)
      BY <3>2 DEF ExecInline, Begin, Unlocked, TypeOK
    <3> QED BY <1>2, <3>1, <3>2
  <2>6. \A m \in Nodes : m \notin up => Held(m)' = {} /\ round'[m] = {}
    BY <2>1, <2>3, <2>4, <2>5 DEF TypeOK, Held, work
  <2> QED BY <2>1, <2>2, <2>4, <2>5, <2>6 DEF TypeOK, cluster, work
<1>3. CASE InlineEnd(n)
  <2>1. /\ inline[n] \in Jobs /\ inline' = [inline EXCEPT ![n] = NoJob] /\ Outcome(inline[n])
        /\ UNCHANGED <<win, cluster, due, round, redis, work, asked, runs, excuse>>
    BY <1>3 DEF InlineEnd, TypeOK
  <2>2. done' \subseteq Jobs /\ lost' \subseteq Jobs /\ faults' \in 0..MaxFaults
    BY <2>1, OutcomeFacts
  <2>3. inline' \in [Nodes -> Jobs \cup {NoJob}] /\ \A m \in Nodes : Held(m)' \subseteq Held(m)
    BY <2>1 DEF TypeOK, Held, work
  <2> QED BY <2>1, <2>2, <2>3 DEF TypeOK, cluster, redis, work
<1> QED BY <1>1, <1>2, <1>3 DEF Triggering

\* The worker loop
LEMMA WorkingType == ASSUME TypeOK, NEW n \in Nodes, Working(n) PROVE TypeOK'
<1>1. NoJob \notin Jobs
  BY SchedulerAssumption DEF Jobs
<1>2. ASSUME n \in up, n \in rdb, popped' \in [Nodes -> Jobs \cup {NoJob}],
             run' \in [Nodes -> Jobs \cup {NoJob}],
             \A m \in Nodes \ {n} : popped'[m] = popped[m] /\ run'[m] = run[m],
             UNCHANGED <<up, rdb, round, inline>>
      PROVE  \A m \in Nodes :
               /\ m \notin up' => Held(m)' = {} /\ round'[m] = {}
               /\ m \notin rdb' => popped'[m] = NoJob /\ run'[m] = NoJob
  BY <1>2 DEF TypeOK, Held
<1>3. CASE Pop(n)
  <2>1. /\ n \in up /\ n \in rdb /\ queue # <<>> /\ queue' = Tail(queue)
        /\ popped' \in {popped, [popped EXCEPT ![n] = Head(queue)]}
        /\ lost' \in {lost, lost \cup {Head(queue)}} /\ (Fault \/ NoFault)
        /\ UNCHANGED <<win, cluster, trigger, locks, run, asked, done, runs, excuse>>
    BY <1>3 DEF Pop
  <2>2. queue' \in Seq(Jobs) /\ Head(queue) \in Jobs
    BY <2>1, QueueFacts DEF TypeOK
  <2>3. /\ popped' \in [Nodes -> Jobs \cup {NoJob}]
        /\ \A m \in Nodes \ {n} : popped'[m] = popped[m] /\ run'[m] = run[m]
    BY <2>1, <2>2 DEF TypeOK
  <2>4. lost' \subseteq Jobs /\ faults' \in 0..MaxFaults
    BY <2>1, <2>2, FaultType DEF TypeOK
  <2> QED BY <1>2, <2>1, <2>2, <2>3, <2>4 DEF TypeOK, cluster, trigger
<1>4. CASE Claim(n)
  <2>1. /\ popped[n] \in Jobs /\ popped' = [popped EXCEPT ![n] = NoJob]
        /\ UNCHANGED <<win, cluster, trigger, queue, asked, done>> /\ (Fault \/ NoFault)
        /\ lost' \in {lost, lost \cup {popped[n]}}
    BY <1>4 DEF Claim, TakesOwnForTaken, TypeOK
  <2>2. n \in up /\ n \in rdb
    BY <1>1, <2>1 DEF TypeOK, Held
  <2>3. /\ run' \in [Nodes -> Jobs \cup {NoJob}] /\ \A m \in Nodes \ {n} : run'[m] = run[m]
        /\ runs' \in [Jobs -> Nat] /\ excuse' \in [Jobs -> Nat] /\ locks' \subseteq Jobs
    <3>1. /\ locks' \in {locks, locks \cup {popped[n]}}
          /\ \/ UNCHANGED <<run, runs, excuse>>
             \/ /\ run' = [run EXCEPT ![n] = popped[n]] /\ Begin(popped[n])
                /\ excuse' = excuse \/ Unlocked(popped[n])
      BY <1>4 DEF Claim, RunsAnyway, RunsJob, TakesOwnForTaken
    <3>2. run' \in [Nodes -> Jobs \cup {NoJob}] /\ \A m \in Nodes \ {n} : run'[m] = run[m]
      BY <2>1, <3>1 DEF TypeOK
    <3>3. runs' \in [Jobs -> Nat]
      <4>1. CASE runs' = runs
        BY <4>1 DEF TypeOK
      <4>2. CASE Begin(popped[n])
        BY <2>1, <4>2 DEF Begin, TypeOK
      <4> QED BY <3>1, <4>1, <4>2
    <3>4. excuse' \in [Jobs -> Nat]
      <4>1. CASE excuse' = excuse
        BY <4>1 DEF TypeOK
      <4>2. CASE Unlocked(popped[n])
        BY <2>1, <4>2 DEF Unlocked, TypeOK
      <4> QED BY <3>1, <4>1, <4>2
    <3>5. locks' \subseteq Jobs
      BY <2>1, <3>1 DEF TypeOK
    <3> QED BY <3>2, <3>3, <3>4, <3>5
  <2>4. /\ popped' \in [Nodes -> Jobs \cup {NoJob}]
        /\ \A m \in Nodes \ {n} : popped'[m] = popped[m]
    BY <2>1 DEF TypeOK
  <2> QED BY <1>2, <2>1, <2>2, <2>3, <2>4, FaultType DEF TypeOK, cluster, trigger
<1>5. CASE RunEnd(n)
  <2>1. /\ run[n] \in Jobs /\ run' = [run EXCEPT ![n] = NoJob] /\ Outcome(run[n])
        /\ UNCHANGED <<win, cluster, trigger, redis, popped, asked, runs, excuse>>
    BY <1>5 DEF RunEnd, TypeOK
  <2>2. done' \subseteq Jobs /\ lost' \subseteq Jobs /\ faults' \in 0..MaxFaults
    BY <2>1, OutcomeFacts
  <2>3. n \in up /\ n \in rdb
    BY <1>1, <2>1 DEF TypeOK, Held
  <2>4. /\ run' \in [Nodes -> Jobs \cup {NoJob}]
        /\ \A m \in Nodes \ {n} : popped'[m] = popped[m] /\ run'[m] = run[m]
    BY <2>1 DEF TypeOK
  <2> QED BY <1>2, <2>1, <2>2, <2>3, <2>4 DEF TypeOK, cluster, trigger, redis
<1> QED BY <1>3, <1>4, <1>5 DEF Working

\* Locks and windows end, Redis is lost.
LEMMA TimeType ==
    ASSUME TypeOK, (\E j \in Jobs : LockExpires(j)) \/ RedisLost \/ Tick PROVE TypeOK'
<1>1. UNCHANGED <<popped, run, inline, round, up, rdb, leads, leader>>
  BY DEF LockExpires, RedisLost, Tick, work, trigger, cluster
<1>2. \A m \in Nodes : Held(m)' = Held(m)
  BY <1>1 DEF Held
<1>3. /\ locks' \subseteq Jobs /\ excuse' \in [Jobs -> Nat] /\ runs' \in [Jobs -> Nat]
      /\ faults' \in 0..MaxFaults
  <2>1. CASE \E j \in Jobs : LockExpires(j)
    BY <2>1, FaultType DEF LockExpires, Unlocked, TypeOK
  <2>2. CASE RedisLost
    BY <2>2, FaultType DEF RedisLost, TypeOK
  <2>3. CASE Tick
    BY <2>3, FaultType DEF Tick, TypeOK, redis
  <2> QED BY <2>1, <2>2, <2>3
<1>4. /\ queue' \in Seq(Jobs) /\ asked' \subseteq Jobs /\ done' \subseteq Jobs /\ lost' \subseteq Jobs
  BY QueueFacts DEF LockExpires, RedisLost, Tick, TypeOK, redis
<1>5. win' \in 0..(Windows - 1) /\ due' \subseteq leads
  BY NextWindow DEF LockExpires, RedisLost, Tick, TypeOK, trigger
<1> QED BY <1>1, <1>2, <1>3, <1>4, <1>5 DEF TypeOK

\* A worker takes a new job only when it has none.
LEMMA StepOneJob == TypeOK /\ OneJob /\ Next => OneJob'
<1> SUFFICES ASSUME TypeOK, OneJob, Next PROVE OneJob'
  OBVIOUS
<1>1. ASSUME UNCHANGED work PROVE OneJob'
  BY <1>1 DEF work, OneJob
<1>2. ASSUME NEW n \in Nodes, Crash(n) \/ NoticeLoss(n) PROVE OneJob'
  <2>1. popped' = [popped EXCEPT ![n] = NoJob] /\ run' = [run EXCEPT ![n] = NoJob]
    BY <1>2 DEF Crash, NoticeLoss, Dies
  <2> QED BY <2>1 DEF OneJob, TypeOK
<1>3. ASSUME NEW n \in Nodes, Working(n) PROVE OneJob'
  <2>1. CASE Pop(n)
    <3>1. /\ run[n] = NoJob /\ run' = run
          /\ popped' \in {popped, [popped EXCEPT ![n] = Head(queue)]}
      BY <2>1 DEF Pop
    <3> QED BY <3>1 DEF OneJob, TypeOK
  <2>2. CASE Claim(n)
    <3>1. /\ popped' = [popped EXCEPT ![n] = NoJob]
          /\ run' = run \/ run' = [run EXCEPT ![n] = popped[n]]
      BY <2>2 DEF Claim, RunsAnyway, RunsJob, TakesOwnForTaken
    <3> QED BY <3>1 DEF OneJob, TypeOK
  <2>3. CASE RunEnd(n)
    BY <2>3 DEF RunEnd, OneJob, TypeOK
  <2> QED BY <1>3, <2>1, <2>2, <2>3 DEF Working
<1> QED
  BY <1>1, <1>2, <1>3
     DEF Next, Start, Campaign, SessionLost, ReleaseLease, Triggering, Trigger, InlineEnd, Enqueue,
         ExecInline, LockExpires, RedisLost, Tick

\* The execution that a lock was taken for goes on, ends or is lost; it never
\* makes room for another one.
LEMMA StepLocked == TypeOK /\ OneJob /\ Locked /\ Next => Locked'
<1> SUFFICES ASSUME TypeOK, OneJob, Locked, Next PROVE Locked'
  OBVIOUS
<1>1. ASSUME locks' \subseteq locks, run' = run, done \subseteq done', lost \subseteq lost' PROVE Locked'
  BY <1>1 DEF Locked
<1>2. ASSUME NEW n \in Nodes,
             \/ Start(n) \/ Campaign(n) \/ SessionLost(n) \/ ReleaseLease(n) \/ Trigger(n) \/ Pop(n)
             \/ \E j \in Jobs : Enqueue(n, j) \/ ExecInline(n, j)
      PROVE  Locked'
  BY <1>1, <1>2
     DEF Start, Campaign, SessionLost, ReleaseLease, Trigger, Pop, Enqueue, ExecInline, redis, work,
         history
<1>3. ASSUME NEW n \in Nodes, InlineEnd(n) PROVE Locked'
  <2>1. inline[n] \in Jobs /\ Outcome(inline[n]) /\ UNCHANGED <<redis, work>>
    BY <1>3 DEF InlineEnd, TypeOK
  <2> QED BY <1>1, <2>1, OutcomeFacts DEF redis, work
<1>4. ASSUME NEW n \in Nodes, run' = [run EXCEPT ![n] = NoJob], locks' = locks,
             done \subseteq done', lost \subseteq lost', run[n] \in done' \cup lost' \cup {NoJob}
      PROVE  Locked'
  <2>1. \A m \in Nodes : run'[m] = run[m] \/ (m = n /\ run[m] \in done' \cup lost' \cup {NoJob})
    BY <1>4 DEF TypeOK
  <2>2. NoJob \notin locks
    BY SchedulerAssumption DEF TypeOK, Jobs
  <2> QED BY <1>4, <2>1, <2>2 DEF Locked
<1>5. ASSUME NEW n \in Nodes, Crash(n) \/ NoticeLoss(n) PROVE Locked'
  <2>1. /\ run' = [run EXCEPT ![n] = NoJob] /\ lost' = lost \cup Held(n)
        /\ UNCHANGED <<locks, done>>
    BY <1>5 DEF Crash, NoticeLoss, Dies, redis
  <2>2. run[n] \in Held(n) \cup {NoJob}
    BY DEF Held
  <2> QED BY <1>4, <2>1, <2>2
<1>6. ASSUME NEW n \in Nodes, RunEnd(n) PROVE Locked'
  <2>1. run[n] \in Jobs /\ Outcome(run[n]) /\ run' = [run EXCEPT ![n] = NoJob] /\ locks' = locks
    BY <1>6 DEF RunEnd, TypeOK, redis
  <2> QED BY <1>4, <2>1, OutcomeFacts
<1>7. ASSUME NEW n \in Nodes, Claim(n) PROVE Locked'
  <2>1. /\ popped[n] \in Jobs /\ run[n] = NoJob /\ done' = done /\ lost \subseteq lost'
        /\ NoJob \notin locks
    BY <1>7, SchedulerAssumption DEF Claim, TakesOwnForTaken, OneJob, TypeOK, Jobs
  <2>2. \/ UNCHANGED <<locks, run>>
        \/ /\ run' = [run EXCEPT ![n] = popped[n]]
           /\ locks' \in {locks, locks \cup {popped[n]}}
        \/ run' = run /\ locks' = locks \cup {popped[n]} /\ popped[n] \in lost'
    BY <1>7 DEF Claim, RunsAnyway, RunsJob, TakesOwnForTaken
  <2>3. ASSUME run' = [run EXCEPT ![n] = popped[n]], locks' \in {locks, locks \cup {popped[n]}}
        PROVE  Locked'
    <3>1. run'[n] = popped[n] /\ \A m \in Nodes \ {n} : run'[m] = run[m]
      BY <2>3 DEF TypeOK
    <3> QED BY <2>1, <2>3, <3>1 DEF Locked
  <2>4. ASSUME run' = run, locks' = locks \cup {popped[n]}, popped[n] \in lost'
        PROVE  Locked'
    BY <2>1, <2>4 DEF Locked
  <2> QED BY <1>1, <2>1, <2>2, <2>3, <2>4
<1>8. CASE \E j \in Jobs : LockExpires(j)
  BY <1>1, <1>8 DEF LockExpires, work
<1>9. CASE RedisLost
  BY <1>9 DEF RedisLost, Locked
<1>10. CASE Tick
  <2>1. PICK old \in {{(win + 1) % Windows} \X Shards} :
          /\ old \cap locks = {} /\ done' = done \ old /\ lost' = lost \ old
          /\ UNCHANGED <<redis, work>>
    BY <1>10 DEF Tick
  <2> QED BY <2>1 DEF Locked, redis, work
<1> QED BY <1>2, <1>3, <1>5, <1>6, <1>7, <1>8, <1>9, <1>10 DEF Next, Triggering, Working

\* Every execution that is begun, and every lock that goes, is counted.
LEMMA StepCounted == TypeOK /\ Counted /\ Next => Counted'
<1> SUFFICES ASSUME TypeOK, Counted, Next PROVE Counted'
  OBVIOUS
<1>1. \A j \in Jobs : runs[j] \in Nat /\ excuse[j] \in Nat
  BY DEF TypeOK
<1>2. ASSUME UNCHANGED <<locks, runs, excuse>> PROVE Counted'
  BY <1>2 DEF Counted
<1>3. ASSUME NEW j \in Jobs, Begin(j), Unlocked(j), locks' \in {locks, locks \cup {j}} PROVE Counted'
  <2>1. \A i \in Jobs : /\ runs'[i] = IF i = j THEN runs[i] + 1 ELSE runs[i]
                        /\ excuse'[i] = IF i = j THEN excuse[i] + 1 ELSE excuse[i]
    BY <1>3 DEF Begin, Unlocked, TypeOK
  <2> QED BY <1>1, <1>3, <2>1 DEF Counted
<1>4. ASSUME NEW n \in Nodes, NEW j \in Jobs, ExecInline(n, j) PROVE Counted'
  BY <1>3, <1>4 DEF ExecInline
<1>5. ASSUME NEW n \in Nodes, Claim(n) PROVE Counted'
  <2>1. popped[n] \in Jobs
    BY <1>5 DEF Claim, TypeOK
  <2>2. \/ UNCHANGED <<runs, excuse>> /\ locks \subseteq locks'
        \/ /\ popped[n] \notin locks /\ locks' = locks \cup {popped[n]}
           /\ Begin(popped[n]) /\ excuse' = excuse
        \/ /\ Begin(popped[n]) /\ Unlocked(popped[n])
           /\ locks' \in {locks, locks \cup {popped[n]}}
    BY <1>5 DEF Claim, Free, RunsAnyway, RunsJob, TakesOwnForTaken
  <2>3. ASSUME popped[n] \notin locks, locks' = locks \cup {popped[n]}, Begin(popped[n]),
               excuse' = excuse
        PROVE  Counted'
    <3>1. \A i \in Jobs : runs'[i] = IF i = popped[n] THEN runs[i] + 1 ELSE runs[i]
      BY <2>1, <2>3 DEF Begin, TypeOK
    <3>2. \A i \in Jobs : i \in locks' <=> i \in locks \/ i = popped[n]
      BY <2>3
    <3> QED BY <1>1, <2>1, <2>3, <3>1, <3>2 DEF Counted
  <2>4. ASSUME UNCHANGED <<runs, excuse>>, locks \subseteq locks' PROVE Counted'
    BY <1>1, <2>4 DEF Counted
  <2> QED BY <1>3, <2>1, <2>2, <2>3, <2>4
<1>6. ASSUME NEW j \in Jobs, LockExpires(j) PROVE Counted'
  <2>1. /\ j \in locks /\ runs' = runs
        /\ \A i \in Jobs : i \in locks' <=> i \in locks /\ i # j
        /\ \A i \in Jobs : excuse'[i] = IF i = j THEN excuse[i] + 1 ELSE excuse[i]
    BY <1>6 DEF LockExpires, Unlocked, TypeOK
  <2> QED BY <1>1, <2>1 DEF Counted
<1>7. CASE RedisLost
  BY <1>1, <1>7 DEF RedisLost, Counted
<1>8. CASE Tick
  <2>1. PICK old \in {{(win + 1) % Windows} \X Shards} :
          /\ runs' = [j \in Jobs |-> IF j \in old THEN 0 ELSE runs[j]]
          /\ excuse' = [j \in Jobs |-> IF j \in old THEN 0 ELSE excuse[j]]
          /\ locks' = locks
    BY <1>8 DEF Tick, redis
  <2> QED BY <1>1, <2>1 DEF Counted
<1>9. ASSUME NEW n \in Nodes,
             \/ Start(n) \/ Campaign(n) \/ SessionLost(n) \/ ReleaseLease(n) \/ Crash(n)
             \/ NoticeLoss(n) \/ Trigger(n) \/ InlineEnd(n) \/ (\E j \in Jobs : Enqueue(n, j))
             \/ Pop(n) \/ RunEnd(n)
      PROVE  Counted'
  BY <1>2, <1>9
     DEF Start, Campaign, SessionLost, ReleaseLease, Crash, NoticeLoss, Dies, Trigger, InlineEnd,
         Enqueue, Pop, RunEnd, redis, history
<1> QED BY <1>4, <1>5, <1>6, <1>7, <1>8, <1>9 DEF Next, Triggering, Working

\* A triggered job moves from the queue to a worker, or to the trigger itself,
\* to its end or to what is lost.
LEMMA StepKept == TypeOK /\ OneJob /\ Locked /\ Kept /\ Next => Kept'
<1> SUFFICES ASSUME TypeOK, OneJob, Locked, Kept, Next PROVE Kept'
  OBVIOUS
<1>1. /\ queue \in Seq(Jobs) /\ asked \subseteq Jobs /\ locks \subseteq Jobs /\ NoJob \notin Jobs
  BY SchedulerAssumption DEF TypeOK, Jobs
<1> DEFINE Has(n, j) == j \in {popped[n], run[n], inline[n]}
<1>2. ASSUME asked' = asked, Queued \subseteq Queued', done \subseteq done', lost \subseteq lost',
             \A n \in Nodes, j \in asked :
               Has(n, j) => Has(n, j)' \/ j \in done' \cup lost' \/ \E m \in Nodes : Has(m, j)'
      PROVE  Kept'
  BY <1>2 DEF Kept
<1>3. ASSUME NEW n \in Nodes,
             Start(n) \/ Campaign(n) \/ SessionLost(n) \/ ReleaseLease(n) \/ Trigger(n)
      PROVE  Kept'
  <2>1. UNCHANGED <<queue, asked, done, lost, popped, run, inline>>
    BY <1>3 DEF Start, Campaign, SessionLost, ReleaseLease, Trigger, trigger, redis, work, history
  <2> QED BY <2>1 DEF Kept, Queued
<1>4. ASSUME NEW n \in Nodes, Crash(n) \/ NoticeLoss(n) PROVE Kept'
  <2>1. /\ inline' = [inline EXCEPT ![n] = NoJob] /\ popped' = [popped EXCEPT ![n] = NoJob]
        /\ run' = [run EXCEPT ![n] = NoJob] /\ lost' = lost \cup Held(n)
        /\ UNCHANGED <<queue, asked, done>>
    BY <1>4 DEF Crash, NoticeLoss, Dies, redis
  <2>2. \A j \in asked : Has(n, j) => j \in lost'
    BY <1>1, <2>1 DEF Held
  <2>3. \A m \in Nodes \ {n} :
           popped'[m] = popped[m] /\ run'[m] = run[m] /\ inline'[m] = inline[m]
    BY <2>1 DEF TypeOK
  <2>4. Queued' = Queued
    BY <2>1 DEF Queued
  <2> QED BY <1>2, <2>1, <2>2, <2>3, <2>4
<1>5. ASSUME NEW n \in Nodes, NEW j \in Jobs, Enqueue(n, j) PROVE Kept'
  <2>1. /\ asked' = asked \cup {j} /\ queue' \in {Append(queue, j), Append(Append(queue, j), j)}
        /\ UNCHANGED <<inline, popped, run, done, lost>>
    BY <1>5 DEF Enqueue, Ask, work
  <2>2. Queued' = Queued \cup {j}
    BY <1>1, <2>1, QueueFacts
  <2> QED BY <2>1, <2>2 DEF Kept
<1>6. ASSUME NEW n \in Nodes, NEW j \in Jobs, ExecInline(n, j) PROVE Kept'
  <2>1. /\ asked' = asked \cup {j} /\ queue' \in {queue, Append(queue, j)} /\ inline[n] = NoJob
        /\ inline' = [inline EXCEPT ![n] = j] /\ UNCHANGED <<popped, run, done, lost>>
    BY <1>6 DEF ExecInline, Ask, work
  <2>2. Queued \subseteq Queued'
    BY <1>1, <2>1, QueueFacts
  <2>3. inline'[n] = j /\ \A m \in Nodes \ {n} : inline'[m] = inline[m]
    BY <2>1 DEF TypeOK
  <2>4. \A i \in asked, m \in Nodes : Has(m, i) => Has(m, i)'
    BY <1>1, <2>1, <2>3
  <2> HIDE DEF Has
  <2>5. Has(n, j)'
    BY <2>3 DEF Has
  <2>6. \A i \in asked : i \in Queued' \cup done' \cup lost' \/ \E m \in Nodes : Has(m, i)'
    BY <2>1, <2>2, <2>4 DEF Kept, Has
  <2> QED BY <2>1, <2>5, <2>6 DEF Kept, Has
<1>7. ASSUME NEW n \in Nodes, InlineEnd(n) PROVE Kept'
  <2>1. /\ inline[n] \in Jobs /\ Outcome(inline[n]) /\ inline' = [inline EXCEPT ![n] = NoJob]
        /\ UNCHANGED <<queue, popped, run, asked>>
    BY <1>7 DEF InlineEnd, TypeOK, redis, work
  <2>2. \A m \in Nodes \ {n} : inline'[m] = inline[m]
    BY <2>1 DEF TypeOK
  <2>3. Queued' = Queued
    BY <2>1 DEF Queued
  <2>4. done \subseteq done' /\ lost \subseteq lost' /\ inline[n] \in done' \cup lost'
    BY <2>1, OutcomeFacts
  <2> QED BY <1>2, <2>1, <2>2, <2>3, <2>4
<1>8. ASSUME NEW n \in Nodes, Pop(n) PROVE Kept'
  <2>1. /\ queue # <<>> /\ queue' = Tail(queue) /\ popped[n] = NoJob
        /\ \/ popped' = [popped EXCEPT ![n] = Head(queue)] /\ lost' = lost
           \/ popped' = popped /\ lost' = lost \cup {Head(queue)}
        /\ UNCHANGED <<run, inline, asked, done>>
    BY <1>8 DEF Pop, trigger
  <2>2. Queued = Queued' \cup {Head(queue)}
    BY <1>1, <2>1, QueueFacts
  <2>3. /\ popped'[n] = Head(queue) \/ Head(queue) \in lost'
        /\ \A m \in Nodes : popped'[m] = popped[m] \/ (m = n /\ popped[n] = NoJob)
    BY <2>1 DEF TypeOK
  <2>4. \A i \in asked, m \in Nodes : Has(m, i) => Has(m, i)'
    BY <1>1, <2>1, <2>3
  <2> HIDE DEF Has
  <2>5. \A i \in asked : \/ i \in Queued' \cup done' \cup lost' \/ i = Head(queue)
                         \/ \E m \in Nodes : Has(m, i)'
    BY <2>1, <2>2, <2>4 DEF Kept, Has
  <2>6. \A i \in asked : i = Head(queue) => i \in lost' \/ \E m \in Nodes : Has(m, i)'
    BY <2>1, <2>3 DEF Has
  <2> QED BY <2>1, <2>5, <2>6 DEF Kept, Has
<1>9. ASSUME NEW n \in Nodes, Claim(n) PROVE Kept'
  <2>1. /\ popped[n] \in Jobs /\ run[n] = NoJob /\ popped' = [popped EXCEPT ![n] = NoJob]
        /\ UNCHANGED <<inline, queue, asked, done>> /\ lost \subseteq lost'
        /\ \/ run' = [run EXCEPT ![n] = popped[n]]
           \/ popped[n] \in locks /\ run' = run
           \/ popped[n] \in lost' /\ run' = run
    BY <1>9 DEF Claim, Free, RunsAnyway, RunsJob, TakesOwnForTaken, OneJob, TypeOK, trigger
  <2>2. Queued' = Queued
    BY <2>1 DEF Queued
  <2>3. \A m \in Nodes \ {n} : popped'[m] = popped[m] /\ run'[m] = run[m]
    BY <2>1 DEF TypeOK
  <2>4. CASE run' = [run EXCEPT ![n] = popped[n]]
    <3>1. run'[n] = popped[n]
      BY <2>4 DEF TypeOK
    <3> QED BY <1>1, <1>2, <2>1, <2>2, <2>3, <3>1
  <2>5. CASE popped[n] \in locks /\ run' = run
    <3>1. popped[n] \in done \cup lost \/ \E m \in Nodes : run'[m] = popped[n]
      BY <2>5 DEF Locked
    <3> QED BY <1>1, <1>2, <2>1, <2>2, <2>3, <2>5, <3>1
  <2>6. CASE popped[n] \in lost' /\ run' = run
    BY <1>1, <1>2, <2>1, <2>2, <2>3, <2>6
  <2> QED BY <2>1, <2>4, <2>5, <2>6
<1>10. ASSUME NEW n \in Nodes, RunEnd(n) PROVE Kept'
  <2>1. /\ run[n] \in Jobs /\ Outcome(run[n]) /\ run' = [run EXCEPT ![n] = NoJob]
        /\ UNCHANGED <<queue, popped, inline, asked>>
    BY <1>10 DEF RunEnd, TypeOK, redis, trigger
  <2>2. \A m \in Nodes \ {n} : run'[m] = run[m]
    BY <2>1 DEF TypeOK
  <2>3. Queued' = Queued
    BY <2>1 DEF Queued
  <2>4. done \subseteq done' /\ lost \subseteq lost' /\ run[n] \in done' \cup lost'
    BY <2>1, OutcomeFacts
  <2> QED BY <1>2, <2>1, <2>2, <2>3, <2>4
<1>11. CASE \E j \in Jobs : LockExpires(j)
  <2>1. UNCHANGED <<queue, asked, done, lost, popped, run, inline>>
    BY <1>11 DEF LockExpires, trigger, work
  <2> QED BY <2>1 DEF Kept, Queued
<1>12. CASE RedisLost
  <2>1. lost' = lost \cup Queued /\ UNCHANGED <<asked, done, popped, run, inline>>
    BY <1>12 DEF RedisLost, trigger, work
  <2> QED BY <2>1 DEF Kept
<1>13. CASE Tick
  <2>1. PICK old \in {{(win + 1) % Windows} \X Shards} :
          /\ asked' = asked \ old /\ done' = done \ old /\ lost' = lost \ old
          /\ UNCHANGED <<inline, queue, popped, run>>
    BY <1>13 DEF Tick, redis, work
  <2>2. Queued' = Queued
    BY <2>1 DEF Queued
  <2> QED BY <2>1, <2>2 DEF Kept
<1> QED
  BY <1>3, <1>4, <1>5, <1>6, <1>7, <1>8, <1>9, <1>10, <1>11, <1>12, <1>13
     DEF Next, Triggering, Working

\* The invariant is inductive.
LEMMA Invariant == Spec => []SInv
<1>1. Init => SInv
  <2> SUFFICES ASSUME Init PROVE SInv
    OBVIOUS
  <2>1. TypeOK
    <3>1. 0 \in 0..(Windows - 1) /\ 0 \in 0..MaxFaults /\ <<>> \in Seq(Jobs)
      BY SchedulerAssumption
    <3> QED BY <3>1 DEF Init, TypeOK, Held
  <2>2. Kept /\ Locked /\ OneJob
    BY DEF Init, Kept, Locked, OneJob
  <2>3. Counted
    BY DEF Init, Counted
  <2> QED BY <2>1, <2>2, <2>3 DEF SInv
<1>2. SInv /\ [Next]_vars => SInv'
  <2>1. SInv /\ Next => TypeOK'
    BY ElectionType, DiesType, TriggeringType, WorkingType, TimeType DEF SInv, Next
  <2>2. SInv /\ Next => Kept' /\ Locked' /\ Counted' /\ OneJob'
    BY StepKept, StepLocked, StepCounted, StepOneJob DEF SInv
  <2>3. SInv /\ UNCHANGED vars => SInv'
    <3> SUFFICES ASSUME SInv, UNCHANGED vars PROVE SInv'
      OBVIOUS
    <3>1. /\ UNCHANGED <<win, leader, up, rdb, leads, due, round, inline, queue, locks, popped, run>>
          /\ UNCHANGED <<asked, done, lost, runs, excuse, faults>>
      BY DEF vars, cluster, trigger, redis, work, history
    <3>2. TypeOK'
      BY <3>1 DEF SInv, TypeOK, Held
    <3>3. Kept' /\ Locked' /\ Counted' /\ OneJob'
      BY <3>1 DEF SInv, Kept, Locked, Counted, OneJob, Queued
    <3> QED BY <3>2, <3>3 DEF SInv
  <2> QED BY <2>1, <2>2, <2>3 DEF SInv
<1> QED BY <1>1, <1>2, PTL DEF Spec

\* No shard that was triggered drops out: it is queued, in somebody's hands, run
\* or lost with a process, a failed Exec, Redis, or its reply to BLPOP or SETNX
\* (sched.go:196).
THEOREM Dropped == Spec => []NothingDropped
<1>1. SInv => NothingDropped
  BY KeptIs DEF SInv
<1> QED BY <1>1, Invariant, PTL

\* A shard runs again in its window only as often as its lock could not be used,
\* expired or was lost, for any number of leaders that queue it (sched.go:126).
THEOREM Repeated == Spec => []RepeatedOnlyUnlocked
<1>1. TypeOK /\ Counted => RepeatedOnlyUnlocked
  BY DEF TypeOK, Counted, RepeatedOnlyUnlocked
<1>2. SInv => RepeatedOnlyUnlocked
  BY <1>1 DEF SInv
<1> QED BY <1>2, Invariant, PTL
=============================================================================
