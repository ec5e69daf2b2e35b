----------------------------- MODULE Delivery -----------------------------
(***************************************************************************)
(* The delivery layer for one conversation: internal/message/delivery.go   *)
(* (Deliverer), its two hosts yim-job (cmd/yim-job/main.go, Kafka          *)
(* consumer) and yim-sched (internal/message/compensation.go, table scan), *)
(* the Kafka topics yim.push and yim.ack (internal/message/kafka.go), and  *)
(* the link to each recipient: comet's connection and the client's         *)
(* watermark (clients/yim_app/lib/core/socket/yim_socket.dart).            *)
(*                                                                         *)
(* A message is its seq.  The three lines of defence are the retry chains  *)
(* (pend, chains), the offline box (box) and the scan (local, batch).      *)
(* Time is not modelled: a timer, a scan or a consumer may run at any      *)
(* moment after it is due.                                                 *)
(***************************************************************************)
EXTENDS Integers, Sequences, FiniteSets

CONSTANTS
    Users,       \* recipients: members of the conversation but the sender
    Job, Sched,  \* the two processes that hold a Deliverer
    NoUser,
    MaxSeq,      \* bound: messages sent
    MaxWire,     \* bound: frames in flight on a connection
    Levels,      \* len(retryDelays), 3 in the code
    ScanBatch,   \* LIMIT of the scan, 200 in the code
    MaxFaults    \* bound: failures of the environment

Procs == {Job, Sched}
Seqs == 1..MaxSeq

ASSUME DeliveryAssumption ==
    /\ NoUser \notin Users /\ Job # Sched
    /\ MaxSeq \in Nat /\ MaxWire \in Nat \ {0} /\ Levels \in Nat \ {0} /\ ScanBatch \in Nat \ {0}
    /\ MaxFaults \in Nat

VARIABLES
    local,    \* local_message.status of each: "none", "todo" (0), "done" (1)
    topic,    \* yim.push, the partition of the conversation
    next,     \* events the consumer has handled
    offset,   \* committed offset
    work,     \* per process: the event being delivered
    batch,    \* rows read by the scan round and not yet redelivered
    pend,     \* per process: pendingAcks
    chains,   \* per process: armed or pushed retries, counted by key and level
    marks,    \* per process: markBatcher.buf
    box,      \* offline_box: "none", "open" (0), "done" (1)
    acks,     \* yim.ack: acknowledgements on their way to the job
    link,     \* per user: "up", "down", "half" (only the server thinks it is up)
    wire,     \* per user: frames written to the connection
    wm,       \* per user: the client's watermark
    faults,   \* failures so far
    dropped   \* history: recipients and messages they did not know when the
              \* box row was not written, or was closed unpushed after its 7
              \* days, or when a SYNC failed that would have brought them

db == <<local, box>>
bus == <<topic, next, offset, acks>>
mem == <<work, batch, pend, chains, marks>>
net == <<link, wire, wm>>
vars == <<db, bus, mem, net, faults, dropped>>

Idle == [st |-> "idle", m |-> 0, left |-> {}, u |-> NoUser]
Keys == [u : Users, m : Seqs, lvl : 1..Levels, st : {"armed", "pushed"}]
NoChains == [k \in Keys |-> 0]

Init ==
    /\ local = [m \in Seqs |-> "none"]
    /\ topic = <<>> /\ next = 0 /\ offset = 0 /\ acks = {}
    /\ work = [p \in Procs |-> Idle] /\ batch = {}
    /\ pend = [p \in Procs |-> {}] /\ chains = [p \in Procs |-> NoChains]
    /\ marks = [p \in Procs |-> {}]
    /\ box = [d \in Users \X Seqs |-> "none"]
    /\ link \in [Users -> {"up", "down"}] /\ wire = [u \in Users |-> <<>>]
    /\ wm = [u \in Users |-> 0]
    /\ faults = 0
    /\ dropped = {}

\* Committed messages
Sent == {m \in Seqs : local[m] # "none"}

\* History: u is not told of those of ms that it does not know.
Lose(u, ms) == dropped' = dropped \cup {<<u, m>> : m \in {n \in ms : n > wm[u]}}

Fault == faults < MaxFaults /\ faults' = faults + 1
NoFault == UNCHANGED faults

-----------------------------------------------------------------------------
(* SendMessage, as delivery sees it: the message and its local_message row *)
(* in one transaction, then an asynchronous produce that may fail.  A seq  *)
(* is fixed before the transaction, so messages commit in any order.       *)
Send(m) ==
    /\ local[m] = "none"
    /\ local' = [local EXCEPT ![m] = "todo"]
    /\ \/ topic' = Append(topic, m) /\ NoFault
       \/ UNCHANGED topic /\ Fault
    /\ UNCHANGED <<box, next, offset, acks, mem, net, dropped>>

-----------------------------------------------------------------------------
(* The frame that comet writes to the connection of u (PushRouted).  A     *)
(* push RPC may fail with or without its effect.  A connection with        *)
(* MaxWire unread frames takes no more: the push waits for the client.     *)
Push(u, m, delivered) ==
    \/ /\ link[u] = "up" /\ delivered /\ NoFault
       /\ Len(wire[u]) < MaxWire
       /\ wire' = [wire EXCEPT ![u] = Append(@, m)]
    \/ link[u] = "half" /\ delivered /\ NoFault /\ UNCHANGED wire
    \/ link[u] = "down" /\ ~delivered /\ NoFault /\ UNCHANGED wire
    \/ /\ link[u] = "up" /\ ~delivered /\ Fault
       /\ Len(wire[u]) < MaxWire
       /\ wire' \in {wire, [wire EXCEPT ![u] = Append(@, m)]}

\* INSERT IGNORE into offline_box; an error is only logged.
Insert(u, m) == IF box[<<u, m>>] = "none" THEN [box EXCEPT ![<<u, m>>] = "open"] ELSE box
WriteBox(u, m) ==
    \/ box' = Insert(u, m) /\ NoFault /\ UNCHANGED dropped
    \/ UNCHANGED box /\ Fault /\ Lose(u, {m})

\* The event of m enters Deliver of process p.
Begin(p, m) == work' = [work EXCEPT ![p] = [st |-> "fan", m |-> m, left |-> Users, u |-> NoUser]]

-----------------------------------------------------------------------------
(* yim-job: consumeLoop                                                     *)

\* The batch is committed with the event that is fetched next.
HandledEarly ==
    /\ next' = next + 1
    /\ offset' \in {offset, next + 2}

\* The offset is committed after a batch of handled events, or later, or the
\* commit fails.
Handled ==
    /\ next' = next + 1
    /\ offset' \in {offset, next + 1}

\* FetchMessage and convMembers
Fetch ==
    /\ work[Job].st = "idle" /\ next < Len(topic)
    /\ Begin(Job, topic[next + 1])
    /\ NoFault
    /\ UNCHANGED <<db, bus, batch, pend, chains, marks, net, dropped>>

\* convMembers fails (or deliver panics before the first push): Deliver
\* returns nothing and the consumer goes on to the next event.
FetchFails ==
    /\ work[Job].st = "idle" /\ next < Len(topic)
    /\ Fault
    /\ Handled
    /\ UNCHANGED <<db, topic, acks, mem, net, dropped>>

\* A rebalance gives the partition back to the same process: the events after
\* the committed offset come again.
Rebalance ==
    /\ work[Job].st = "idle" /\ offset < next
    /\ Fault
    /\ next' = offset
    /\ UNCHANGED <<db, topic, offset, acks, mem, net, dropped>>

-----------------------------------------------------------------------------
(* yim-sched: ScanCompensationTask.Exec, one round at a time                *)

\* The message is on its way: not handled yet, being fanned out, or marked.
InTransit(m) ==
    \/ \E i \in (next + 1)..Len(topic) : topic[i] = m
    \/ \E p \in Procs : work[p].m = m \/ m \in marks[p]

\* Rows with status = 0 past the grace period of 60 s.  A message that is
\* still in transit after that time is a failure of the environment.
Scan ==
    /\ batch = {} /\ work[Sched].st = "idle"
    /\ batch' \in {b \in SUBSET {m \in Seqs : local[m] = "todo"} :
                     b # {} /\ Cardinality(b) <= ScanBatch}
    /\ IF \E m \in batch' : InTransit(m) THEN Fault ELSE NoFault
    /\ UNCHANGED <<db, bus, work, pend, chains, marks, net, dropped>>

\* redeliverOne; the row may be done by now, it is not read again
Redeliver(m) ==
    /\ work[Sched].st = "idle" /\ m \in batch
    /\ batch' = batch \ {m}
    /\ \/ Begin(Sched, m) /\ NoFault
       \/ UNCHANGED work /\ Fault
    /\ UNCHANGED <<db, bus, pend, chains, marks, net, dropped>>

-----------------------------------------------------------------------------
(* Deliverer.deliver of process p                                          *)

\* PushRouted to the next member
PushMember(p, u) ==
    LET w == work[p] IN
    /\ w.st = "fan" /\ u \in w.left
    /\ \E delivered \in BOOLEAN :
         /\ Push(u, w.m, delivered)
         /\ work' = [work EXCEPT ![p] = [w EXCEPT !.u = u, !.left = @ \ {u},
                                          !.st = IF delivered THEN "register" ELSE "box"]]
    /\ UNCHANGED <<db, bus, batch, pend, chains, marks, link, wm, dropped>>

\* A timer is started with the first key of a recipient only.
EnrollOneTimer(p, u, m) ==
    /\ pend' = [pend EXCEPT ![p] = @ \cup {<<u, m>>}]
    /\ chains' = IF \E d \in pend[p] : d[1] = u THEN chains
                 ELSE [chains EXCEPT ![p][[u |-> u, m |-> m, lvl |-> 1, st |-> "armed"]] = @ + 1]

\* pendingAcks.register: a key that waits already is left alone
Enroll(p, u, m) ==
    IF <<u, m>> \in pend[p] THEN UNCHANGED <<pend, chains>>
    ELSE /\ pend' = [pend EXCEPT ![p] = @ \cup {<<u, m>>}]
         /\ chains' = [chains EXCEPT ![p][[u |-> u, m |-> m, lvl |-> 1, st |-> "armed"]] = @ + 1]

Register(p) ==
    LET w == work[p] IN
    /\ w.st = "register"
    /\ Enroll(p, w.u, w.m)
    /\ work' = [work EXCEPT ![p].st = "fan", ![p].u = NoUser]
    /\ NoFault
    /\ UNCHANGED <<db, bus, batch, marks, net, dropped>>

BoxMember(p) ==
    LET w == work[p] IN
    /\ w.st = "box"
    /\ WriteBox(w.u, w.m)
    /\ work' = [work EXCEPT ![p].st = "fan", ![p].u = NoUser]
    /\ UNCHANGED <<local, bus, batch, pend, chains, marks, net>>

\* The event is marked as soon as its first member was served.
FanOutBegun(p) == work[p].st = "fan"

FanOutDone(p) == work[p].st = "fan" /\ work[p].left = {}

\* markBatcher.add at the end of the fan-out; the job's consumer moves on
Finish(p) ==
    /\ FanOutDone(p)
    /\ marks' = [marks EXCEPT ![p] = @ \cup {work[p].m}]
    /\ work' = [work EXCEPT ![p] = Idle]
    /\ IF p = Job THEN Handled ELSE UNCHANGED <<next, offset>>
    /\ NoFault
    /\ UNCHANGED <<db, topic, acks, batch, pend, chains, net, dropped>>

\* markBatcher.flush: UPDATE .. SET status = 1 WHERE status = 0.  What module
\* MarkQueue promises of the batcher: any part of the buffer goes at a time.
Flush(p) ==
    /\ \E rows \in SUBSET marks[p] :
         /\ rows # {}
         /\ marks' = [marks EXCEPT ![p] = @ \ rows]
         /\ \/ /\ local' = [m \in Seqs |-> IF m \in rows THEN "done" ELSE local[m]]
               /\ NoFault
            \/ UNCHANGED local /\ Fault
    /\ UNCHANGED <<box, bus, work, batch, pend, chains, net, dropped>>

-----------------------------------------------------------------------------
(* The retry chain: retryFire and pendingAcks.schedule                     *)

Drop(p, k) == chains' = [chains EXCEPT ![p][k] = @ - 1]
Move(p, k, l) == chains' = [chains EXCEPT ![p][k] = @ - 1, ![p][l] = @ + 1]

\* The timer fires and the key is no longer alive.
FireDead(p, k) ==
    /\ chains[p][k] > 0 /\ k.st = "armed" /\ <<k.u, k.m>> \notin pend[p]
    /\ Drop(p, k)
    /\ NoFault
    /\ UNCHANGED <<db, bus, work, batch, pend, marks, net, dropped>>

\* The timer fires, the key is alive, and the notice is pushed again.
FireAlive(p, k) ==
    /\ chains[p][k] > 0 /\ k.st = "armed" /\ <<k.u, k.m>> \in pend[p]
    /\ \E delivered \in BOOLEAN : Push(k.u, k.m, delivered)
    /\ Move(p, k, [k EXCEPT !.st = "pushed"])
    /\ UNCHANGED <<db, bus, work, batch, pend, marks, link, wm, dropped>>

\* The last level: out of the registry and into the offline box.
Exhaust(p, k) ==
    /\ chains[p][k] > 0 /\ k.st = "pushed" /\ k.lvl >= Levels
    /\ pend' = [pend EXCEPT ![p] = @ \ {<<k.u, k.m>>}]
    /\ WriteBox(k.u, k.m)
    /\ Drop(p, k)
    /\ UNCHANGED <<local, bus, work, batch, marks, net>>

\* schedule looks the closure up under the key of another message.
LooksUpOther(p, k) == \E m \in Seqs \ {k.m} : <<k.u, m>> \in pend[p]

\* Nothing is scheduled when the key left the registry during the push.
StillPending(p, k) == <<k.u, k.m>> \in pend[p]

Schedule(p, k) ==
    /\ chains[p][k] > 0 /\ k.st = "pushed" /\ k.lvl < Levels
    /\ IF StillPending(p, k)
       THEN Move(p, k, [k EXCEPT !.st = "armed", !.lvl = @ + 1])
       ELSE Drop(p, k)
    /\ NoFault
    /\ UNCHANGED <<db, bus, work, batch, pend, marks, net, dropped>>

-----------------------------------------------------------------------------
(* OfflineBoxTask.Exec for one row.  It reads 200 rows of a bucket in no    *)
(* order, so that a row may wait behind others for any time.               *)

\* The row is pushed again, and markDone closes it if that arrived.  A markDone
\* that fails has the effect of a push that fails after its frame was sent.
Repush(u, m) ==
    /\ box[<<u, m>>] = "open"
    /\ \E delivered \in BOOLEAN :
         /\ Push(u, m, delivered)
         /\ box' = IF delivered THEN [box EXCEPT ![<<u, m>>] = "done"] ELSE box
    /\ UNCHANGED <<local, bus, mem, link, wm, dropped>>

\* A row older than offlineBoxTTL is closed without a push.
GiveUp(u, m) ==
    /\ box[<<u, m>>] = "open"
    /\ box' = [box EXCEPT ![<<u, m>>] = "done"]
    /\ Lose(u, {m})
    /\ NoFault
    /\ UNCHANGED <<local, bus, mem, net>>

-----------------------------------------------------------------------------
(* The client, its connection and the way back of its ACK                  *)

\* CMD_MESSAGE_PUSH: a notice above the watermark raises it and is
\* acknowledged; any other notice is a duplicate and is dropped silently.
Receive(u) ==
    /\ link[u] = "up" /\ wire[u] # <<>>
    /\ LET m == Head(wire[u]) IN
       IF m > wm[u]
       THEN /\ wm' = [wm EXCEPT ![u] = m]
            /\ acks' = acks \cup {[u |-> u, m |-> m]}
       ELSE UNCHANGED <<wm, acks>>
    /\ wire' = [wire EXCEPT ![u] = Tail(@)]
    /\ NoFault
    /\ UNCHANGED <<db, topic, next, offset, mem, link, dropped>>

\* onAck of comet, AckPush of the Message Svc, yim.ack, handleAck of the job:
\* pendingAcks.ack removes every key up to the acknowledged seq.
AckArrives(a) ==
    /\ a \in acks
    /\ acks' = acks \ {a}
    /\ pend' = [pend EXCEPT ![Job] = {d \in @ : d[1] # a.u \/ d[2] > a.m}]
    /\ NoFault
    /\ UNCHANGED <<db, topic, next, offset, work, batch, chains, marks, net, dropped>>

AckLost(a) ==
    /\ a \in acks
    /\ acks' = acks \ {a}
    /\ Fault
    /\ UNCHANGED <<db, topic, next, offset, mem, net, dropped>>

\* The connection breaks; the server may take until its sweep to notice.
Break(u) ==
    /\ link[u] = "up"
    /\ \E l \in {"down", "half"} : link' = [link EXCEPT ![u] = l]
    /\ wire' = [wire EXCEPT ![u] = <<>>]
    /\ Fault
    /\ UNCHANGED <<db, bus, mem, wm, dropped>>

Sweep(u) ==
    /\ link[u] = "half"
    /\ link' = [link EXCEPT ![u] = "down"]
    /\ NoFault
    /\ UNCHANGED <<db, bus, mem, wire, wm, dropped>>

Highest(S) == CHOOSE m \in S : \A n \in S : n <= m

\* SYNC: the rows above the client's watermark
Synced(u) == {m \in Sent : m > wm[u]}

\* The client reconnects and SYNCs.  Where SYNC answers an error it goes on
\* without the rows.
Reconnect(u) ==
    /\ link[u] # "up"
    /\ link' = [link EXCEPT ![u] = "up"]
    /\ \/ wm' = [wm EXCEPT ![u] = Highest(Synced(u) \cup {@})] /\ NoFault /\ UNCHANGED dropped
       \/ Lose(u, Sent) /\ Fault /\ UNCHANGED wm
    /\ UNCHANGED <<db, bus, mem, wire>>

-----------------------------------------------------------------------------
\* Process p dies and restarts with empty memory; the consumer resumes at the
\* committed offset.
Crash(p) ==
    /\ Fault
    /\ work' = [work EXCEPT ![p] = Idle]
    /\ pend' = [pend EXCEPT ![p] = {}]
    /\ chains' = [chains EXCEPT ![p] = NoChains]
    /\ marks' = [marks EXCEPT ![p] = {}]
    /\ IF p = Job
       THEN next' = offset /\ UNCHANGED batch
       ELSE batch' = {} /\ UNCHANGED next
    /\ UNCHANGED <<db, topic, offset, acks, net, dropped>>

-----------------------------------------------------------------------------
Consume == Fetch \/ FetchFails
Compensate == Scan \/ \E m \in Seqs : Redeliver(m)
Deliver(p) == (\E u \in Users : PushMember(p, u)) \/ Register(p) \/ BoxMember(p) \/ Finish(p)
Retry(p, k) == FireDead(p, k) \/ FireAlive(p, k) \/ Exhaust(p, k) \/ Schedule(p, k)

Next ==
    \/ (\E m \in Seqs : Send(m)) \/ Consume \/ Rebalance \/ Compensate
    \/ \E p \in Procs : Deliver(p) \/ Flush(p) \/ Crash(p) \/ \E k \in Keys : Retry(p, k)
    \/ \E u \in Users, m \in Seqs : Repush(u, m) \/ GiveUp(u, m)
    \/ \E a \in acks : AckArrives(a) \/ AckLost(a)
    \/ \E u \in Users : Receive(u) \/ Break(u) \/ Sweep(u) \/ Reconnect(u)

Spec == Init /\ [][Next]_vars

(* Consumers and goroutines are scheduled, timers fire, a round that has    *)
(* read its rows goes through them, a connection carries its frames, a     *)
(* client reconnects.  That a row is ever among those a round reads is not *)
(* assumed, nor that a write of the offline box, which has no deadline,    *)
(* ever ends a fan-out's wait.                                             *)
FairSpec ==
    /\ Spec
    /\ WF_vars(Consume) /\ WF_vars(\E m \in Seqs : Redeliver(m))
    /\ \A p \in Procs : /\ WF_vars(Deliver(p) /\ ~BoxMember(p)) /\ WF_vars(Flush(p))
                        /\ \A k \in Keys : WF_vars(Retry(p, k))
    /\ \A u \in Users : WF_vars(Receive(u)) /\ WF_vars(Reconnect(u))

-----------------------------------------------------------------------------
(* Properties *)

TypeOK ==
    /\ local \in [Seqs -> {"none", "todo", "done"}]
    /\ box \in [Users \X Seqs -> {"none", "open", "done"}]
    /\ topic \in Seq(Seqs) /\ next \in 0..Len(topic) /\ offset \in 0..next
    /\ acks \subseteq [u : Users, m : Seqs]
    /\ work \in [Procs -> [st : {"idle", "fan", "register", "box"}, m : 0..MaxSeq,
                            left : SUBSET Users, u : Users \cup {NoUser}]]
    /\ batch \subseteq Seqs
    /\ pend \in [Procs -> SUBSET (Users \X Seqs)]
    /\ chains \in [Procs -> [Keys -> Nat]]
    /\ marks \in [Procs -> SUBSET Seqs]
    /\ link \in [Users -> {"up", "half", "down"}]
    /\ wire \in [Users -> Seq(Seqs)]
    /\ wm \in [Users -> 0..MaxSeq]
    /\ faults \in 0..MaxFaults /\ dropped \subseteq Users \X Seqs

\* A message that is closed (status = 1, never scanned again) is known to the
\* connected client, on its way to it, or open in the offline box, unless it was
\* dropped in one of the three ways the code has for it: its row of the box could
\* not be written, which is only logged, or was closed after 7 days without a
\* push, or a SYNC failed that would have brought it (delivery.go:332,
\* compensation.go:200, handler.go:171).  Otherwise no crash, failed push, lost
\* event, redelivery or order of commits loses it, and it takes no retry to be
\* so: the registry may lose its keys in a crash.  What a client knows is what
\* its watermark has passed: it asks for nothing below.
ClosedIsCovered ==
    \A m \in Seqs, u \in Users :
      local[m] = "done" /\ link[u] = "up" =>
        \/ wm[u] >= m
        \/ \E i \in 1..Len(wire[u]) : wire[u][i] >= m
        \/ box[<<u, m>>] = "open" \/ <<u, m>> \in dropped

\* A key that waits for its ACK always has a timer or a push in progress:
\* however ACKs, repeated registrations and crashes interleave with the
\* chain, no entry is left in the registry that nobody would ever remove.
PendingHasTimer ==
    \A p \in Procs : \A d \in pend[p] :
      \E k \in Keys : k.u = d[1] /\ k.m = d[2] /\ chains[p][k] > 0

\* The row of m is left to the scan: nobody has it.
Waiting(m) == local[m] = "todo" /\ m \notin batch /\ ~InTransit(m)

\* Every message reaches every client, by notice, retry, scan, offline box or
\* SYNC, or is dropped as above; it can stay unknown only in a row that the
\* rounds of the scan or of the offline box never come to: each reads 200 rows
\* in no order (compensation.go:78, compensation.go:171); or behind a fan-out
\* that waits for ever to write a row of the box (delivery.go:332).
EveryoneLearns ==
    \A u \in Users, m \in Seqs :
      \/ m \in Sent ~> wm[u] >= m \/ <<u, m>> \in dropped
      \/ <>[]Waiting(m) \/ <>[](box[<<u, m>>] = "open")
      \/ \E p \in Procs : <>[](work[p].st = "box")

\* The registry drains: each key is acknowledged or exhausted.
PendingDrains ==
    \A p \in Procs, u \in Users, m \in Seqs :
      <<u, m>> \in pend[p] ~> <<u, m>> \notin pend[p]
=============================================================================
