----------------------------- MODULE Scheduler -----------------------------
(***************************************************************************)
(* internal/sched/sched.go: one task of yim-sched on several nodes.  An    *)
(* etcd election names a leader; in every window (interval of the task)    *)
(* its trigger loop queues one job per shard in Redis; the workers of all  *)
(* nodes pop jobs, take the lock of the job with SETNX and run it.  A      *)
(* leader whose session is lost does not know it at once, so two of them   *)
(* may trigger.  When it finds out, Run returns and the process ends.      *)
(* The Redis client sends a command again whose reply is lost.             *)
(***************************************************************************)
EXTENDS Integers, Sequences, FiniteSets

CONSTANTS Nodes, Shards,
          NoNode, NoJob,
          Windows,    \* bound: window numbers before they are used again
          MaxFaults   \* bound: crashes, lost sessions, errors of Redis or of Exec

ASSUME SchedulerAssumption ==
    /\ Windows \in Nat /\ Windows > 1 /\ MaxFaults \in Nat
    /\ NoNode \notin Nodes /\ NoJob \notin (0..(Windows - 1)) \X Shards

VARIABLES
    win,     \* the current window
    leader,  \* whose key is in etcd
    up,      \* processes that run
    rdb,     \* processes that reached Redis when they started
    leads,   \* processes between Campaign and the end of leadLoop
    due,     \* their tickers that have fired
    round,   \* per process: jobs that trigger has yet to queue
    inline,  \* per process: the job trigger runs itself
    queue,   \* sched:q:{task}
    locks,   \* sched:lock:{task}:{window}:{shard}
    popped,  \* per worker: a job it has popped and not yet claimed
    run,     \* per worker: the job it runs
    asked,   \* history: jobs triggered
    done,    \* history: jobs run to their end
    lost,    \* history: jobs lost in a crash, a failed Exec, with Redis, or with
             \* its reply to BLPOP or SETNX
    runs,    \* history: per job, executions begun
    excuse,  \* history: per job, executions without lock, locks lost or expired
    faults

Jobs == (0..(Windows - 1)) \X Shards
cluster == <<leader, up, rdb, leads>>
trigger == <<due, round, inline>>
redis == <<queue, locks>>
work == <<popped, run>>
history == <<asked, done, lost, runs, excuse>>
vars == <<win, cluster, trigger, redis, work, history, faults>>

Fault == faults < MaxFaults /\ faults' = faults + 1
NoFault == UNCHANGED faults

Init ==
    /\ win = 0 /\ leader = NoNode
    /\ up = {} /\ rdb = {} /\ leads = {}
    /\ due = {} /\ round = [n \in Nodes |-> {}] /\ inline = [n \in Nodes |-> NoJob]
    /\ queue = <<>> /\ locks = {}
    /\ popped = [n \in Nodes |-> NoJob] /\ run = [n \in Nodes |-> NoJob]
    /\ asked = {} /\ done = {} /\ lost = {}
    /\ runs = [j \in Jobs |-> 0] /\ excuse = [j \in Jobs |-> 0]
    /\ faults = 0

Held(n) == {popped[n], run[n], inline[n]} \ {NoJob}
Queued == {queue[k] : k \in DOMAIN queue}

-----------------------------------------------------------------------------
(* Processes and the election *)

\* main: without Redis the process has neither queue nor lock for its life
Start(n) ==
    /\ n \notin up
    /\ up' = up \cup {n}
    /\ \/ rdb' = rdb \cup {n} /\ NoFault
       \/ rdb' = rdb \ {n} /\ Fault
    /\ UNCHANGED <<win, leader, leads, trigger, redis, work, history>>

\* leadLoop: Campaign returns; every trigger loop begins with a trigger
Campaign(n) ==
    /\ n \in up \ leads /\ leader = NoNode
    /\ leader' = n /\ leads' = leads \cup {n} /\ due' = due \cup {n}
    /\ UNCHANGED <<win, up, rdb, round, inline, redis, work, history>> /\ NoFault

\* etcd hears nothing for sessionTTL: the key goes, and the node may live on
SessionLost(n) ==
    /\ leader = n /\ n \in leads
    /\ leader' = NoNode
    /\ UNCHANGED <<win, up, rdb, leads, trigger, redis, work, history>> /\ Fault

\* The lease of a process that has ended runs out.
LeaseNeverEnds(n) == FALSE
LeaseEnds(n) == leader = n /\ n \notin leads

ReleaseLease(n) ==
    /\ LeaseEnds(n)
    /\ leader' = NoNode
    /\ UNCHANGED <<win, up, rdb, leads, trigger, redis, work, history>> /\ NoFault

Dies(n) ==
    /\ up' = up \ {n} /\ leads' = leads \ {n} /\ due' = due \ {n}
    /\ round' = [round EXCEPT ![n] = {}] /\ inline' = [inline EXCEPT ![n] = NoJob]
    /\ popped' = [popped EXCEPT ![n] = NoJob] /\ run' = [run EXCEPT ![n] = NoJob]
    /\ lost' = lost \cup Held(n)
    /\ UNCHANGED <<win, leader, rdb, redis, asked, done, runs, excuse>>

Crash(n) == n \in up /\ Dies(n) /\ Fault

\* <-session.Done(): leadLoop returns nil, Run returns, main ends
NoticeLoss(n) == n \in leads /\ leader # n /\ Dies(n) /\ NoFault

-----------------------------------------------------------------------------
(* trigger *)

Trigger(n) ==
    /\ n \in due /\ round[n] = {} /\ inline[n] = NoJob
    /\ due' = due \ {n}
    /\ round' = [round EXCEPT ![n] = {win} \X Shards]
    /\ UNCHANGED <<win, cluster, inline, redis, work, history>> /\ NoFault

Ask(n, j) ==
    /\ j \in round[n] /\ inline[n] = NoJob
    /\ round' = [round EXCEPT ![n] = @ \ {j}]
    /\ asked' = asked \cup {j}

\* RPUSH; one that is sent again queues the job twice.
Enqueue(n, j) ==
    /\ n \in rdb /\ Ask(n, j)
    /\ \/ queue' = Append(queue, j) /\ NoFault
       \/ queue' = Append(Append(queue, j), j) /\ Fault
    /\ UNCHANGED <<win, cluster, due, inline, locks, work, done, lost, runs, excuse>>

Begin(j) == runs' = [runs EXCEPT ![j] = @ + 1]
Unlocked(j) == excuse' = [excuse EXCEPT ![j] = @ + 1]

\* No Redis, or an RPUSH that failed or whose answer was lost: execInline
ExecInline(n, j) ==
    /\ Ask(n, j)
    /\ \/ n \notin rdb /\ UNCHANGED queue /\ NoFault
       \/ n \in rdb /\ queue' \in {queue, Append(queue, j)} /\ Fault
    /\ inline' = [inline EXCEPT ![n] = j]
    /\ Begin(j) /\ Unlocked(j)
    /\ UNCHANGED <<win, cluster, due, locks, work, done, lost>>

\* Exec succeeds, or its error is logged
Outcome(j) ==
    \/ done' = done \cup {j} /\ UNCHANGED lost /\ NoFault
    \/ lost' = lost \cup {j} /\ UNCHANGED done /\ Fault

InlineEnd(n) ==
    /\ inline[n] # NoJob
    /\ inline' = [inline EXCEPT ![n] = NoJob]
    /\ Outcome(inline[n])
    /\ UNCHANGED <<win, cluster, due, round, redis, work, asked, runs, excuse>>

-----------------------------------------------------------------------------
(* workerLoop *)

\* BLPOP; where its reply is lost the worker goes on without the job.
Pop(n) ==
    /\ n \in up \cap rdb /\ popped[n] = NoJob /\ run[n] = NoJob /\ queue # <<>>
    /\ queue' = Tail(queue)
    /\ \/ popped' = [popped EXCEPT ![n] = Head(queue)] /\ UNCHANGED lost /\ NoFault
       \/ lost' = lost \cup {Head(queue)} /\ UNCHANGED popped /\ Fault
    /\ UNCHANGED <<win, cluster, trigger, locks, run, asked, done, runs, excuse>>

\* SET instead of SETNX
FreeAlways(j) == TRUE

\* SETNX finds no lock.
Free(j) == j \notin locks

RunsJob(n, j) == run' = [run EXCEPT ![n] = j] /\ Begin(j)

\* A lock that cannot be checked counts as taken.
RunsUnchecked(n, j) == UNCHANGED <<run, runs, excuse>>

\* A lock that cannot be checked does not hold the job back, and may be set.
RunsAnyway(n, j) == RunsJob(n, j) /\ Unlocked(j)

\* A SETNX whose reply was lost is sent again and finds its own lock: the job
\* counts as taken and nobody runs it.
TakesOwnForTaken(j) ==
    /\ Free(j) /\ locks' = locks \cup {j} /\ lost' = lost \cup {j}
    /\ UNCHANGED <<run, runs, excuse>>

Claim(n) ==
    LET j == popped[n]
    IN  /\ j # NoJob
        /\ popped' = [popped EXCEPT ![n] = NoJob]
        /\ \/ /\ Free(j) /\ locks' = locks \cup {j}
              /\ RunsJob(n, j) /\ UNCHANGED <<excuse, lost>> /\ NoFault
           \/ ~Free(j) /\ UNCHANGED <<locks, run, runs, excuse, lost>> /\ NoFault
           \/ RunsAnyway(n, j) /\ locks' \in {locks, locks \cup {j}} /\ UNCHANGED lost /\ Fault
           \/ TakesOwnForTaken(j) /\ Fault
        /\ UNCHANGED <<win, cluster, trigger, queue, asked, done>>

\* The lock stays in either case.
RunEnd(n) ==
    /\ run[n] # NoJob
    /\ run' = [run EXCEPT ![n] = NoJob]
    /\ Outcome(run[n])
    /\ UNCHANGED <<win, cluster, trigger, redis, popped, asked, runs, excuse>>

\* lockTTL counts from before the Exec, which may take longer: Deliver, which it
\* calls, has no share in its context.
LockExpires(j) ==
    /\ j \in locks
    /\ locks' = locks \ {j} /\ Unlocked(j)
    /\ UNCHANGED <<win, cluster, trigger, queue, work, asked, done, lost, runs>> /\ NoFault

\* Redis restarts empty.
RedisLost ==
    /\ queue # <<>> \/ locks # {}
    /\ queue' = <<>> /\ locks' = {}
    /\ lost' = lost \cup Queued
    /\ excuse' = [j \in Jobs |-> IF j \in locks THEN excuse[j] + 1 ELSE excuse[j]]
    /\ UNCHANGED <<win, cluster, trigger, work, asked, done, runs>> /\ Fault

-----------------------------------------------------------------------------

\* The tickers fire.  The bound on Windows: a window number is used again when
\* nothing of its former use is left, so that jobs lag by less than Windows - 1.
\* What waits in a queue that nobody pops does not hold the windows up, and
\* counts as a job of the new window.
Tick ==
    LET next == (win + 1) % Windows
        old == {next} \X Shards
    IN  /\ old \cap locks = {}
        /\ up \cap rdb # {} => old \cap Queued = {}
        /\ \A n \in Nodes : old \cap (Held(n) \cup round[n]) = {}
        /\ win' = next /\ due' = leads
        /\ asked' = asked \ old /\ done' = done \ old /\ lost' = lost \ old
        /\ runs' = [j \in Jobs |-> IF j \in old THEN 0 ELSE runs[j]]
        /\ excuse' = [j \in Jobs |-> IF j \in old THEN 0 ELSE excuse[j]]
        /\ UNCHANGED <<cluster, round, inline, redis, work>> /\ NoFault

Triggering(n) ==
    \/ Trigger(n) \/ InlineEnd(n)
    \/ \E j \in Jobs : Enqueue(n, j) \/ ExecInline(n, j)

Working(n) == Pop(n) \/ Claim(n) \/ RunEnd(n)

Next ==
    \/ \E n \in Nodes : Start(n) \/ Campaign(n) \/ SessionLost(n) \/ ReleaseLease(n)
                        \/ Crash(n) \/ NoticeLoss(n) \/ Triggering(n) \/ Working(n)
    \/ \E j \in Jobs : LockExpires(j)
    \/ RedisLost \/ Tick

\* The goroutines of a process are scheduled, leases and locks run out, time
\* passes.  Nothing starts a process that has ended, and nothing ends an Exec:
\* a write that Deliver makes for it has no deadline.
Fairness ==
    /\ \A n \in Nodes :
          /\ WF_vars(Campaign(n)) /\ WF_vars(ReleaseLease(n)) /\ WF_vars(NoticeLoss(n))
          /\ WF_vars(Triggering(n) /\ ~InlineEnd(n)) /\ WF_vars(Working(n) /\ ~RunEnd(n))
    /\ \A j \in Jobs : WF_vars(LockExpires(j))
    /\ WF_vars(Tick)

Spec == Init /\ [][Next]_vars /\ Fairness

-----------------------------------------------------------------------------
(* Properties *)

\* Types; only processes that run do anything, a ticker is a leader's, and a
\* worker without Redis has no job.
TypeOK ==
    /\ win \in 0..(Windows - 1) /\ leader \in Nodes \cup {NoNode}
    /\ up \subseteq Nodes /\ rdb \subseteq Nodes /\ leads \subseteq up /\ due \subseteq leads
    /\ round \in [Nodes -> SUBSET Jobs] /\ inline \in [Nodes -> Jobs \cup {NoJob}]
    /\ queue \in Seq(Jobs) /\ locks \subseteq Jobs
    /\ popped \in [Nodes -> Jobs \cup {NoJob}] /\ run \in [Nodes -> Jobs \cup {NoJob}]
    /\ \A n \in Nodes : n \notin up => Held(n) = {} /\ round[n] = {}
    /\ \A n \in Nodes : n \notin rdb => popped[n] = NoJob /\ run[n] = NoJob
    /\ asked \subseteq Jobs /\ done \subseteq Jobs /\ lost \subseteq Jobs
    /\ runs \in [Jobs -> Nat] /\ excuse \in [Jobs -> Nat] /\ faults \in 0..MaxFaults

\* A shard that was triggered in a window is in the queue, in the hands of a
\* worker or a trigger, run to its end, or was lost with a process, a failed
\* Exec, Redis, or its reply to BLPOP or SETNX: neither the lock of another
\* window, nor one that cannot be checked, nor a failed RPUSH lets a shard drop
\* out (sched.go:196).  That is less than the at-least-once of sched.go:39.
\* With it, the types.
NothingDropped ==
    /\ TypeOK
    /\ asked \subseteq Queued \cup (UNION {Held(n) : n \in Nodes}) \cup done \cup lost

\* A shard runs more than once in a window only as often as a lock could not
\* be used, expired or was lost: however many leaders queue it, however often
\* a leader starts (sched.go:126).
RepeatedOnlyUnlocked == \A j \in Jobs : runs[j] <= excuse[j] + 1

\* Every shard is run again and again, whatever happened, unless in the end no
\* process is left, for a lost session ends one (sched.go:118), or an Exec never
\* ends: a new leader is found, and a dead worker's lock does not outlast the
\* window.
EveryShardRunsAgain ==
    \A s \in Shards :
      \/ []<>(\E n \in Nodes : {run[n], inline[n]} \cap ((0..(Windows - 1)) \X {s}) # {})
      \/ <>[](up = {}) \/ \E n \in Nodes : <>[]({run[n], inline[n]} # {NoJob})
=============================================================================
