-------------------------- MODULE DeliveryProofs --------------------------
(***************************************************************************)
(* Proofs about Delivery for any recipients, messages, retry levels and    *)
(* failures.  A message is only marked when each recipient has seen it,    *)
(* will learn it from SYNC, has a row in the offline box, or was dropped   *)
(* in one of the ways that the history variable records.                   *)
(***************************************************************************)
EXTENDS Delivery, FiniteSetTheorems, WellFoundedInduction, TLAPS

\* A client has seen m or has it, or a later message, in its connection.
Seen(u, m) == wm[u] >= m \/ \E i \in 1..Len(wire[u]) : wire[u][i] >= m

\* A connected client has no gap at m but one that is recorded as dropped.
Covered(u, m) == link[u] = "up" => Seen(u, m) \/ box[<<u, m>>] = "open" \/ <<u, m>> \in dropped

\* The event a process works on
WorkOK ==
    \A p \in Procs :
      work[p].st # "idle" =>
        /\ work[p].m \in Sent
        /\ (work[p].st \in {"register", "box"} => work[p].u \in Users)
        /\ (p = Job => next < Len(topic))

\* Only committed messages are published, scanned, retried, marked or boxed.
OnlySent ==
    /\ \A i \in 1..Len(topic) : topic[i] \in Sent
    /\ batch \subseteq Sent
    /\ \A p \in Procs : marks[p] \subseteq Sent
    /\ \A p \in Procs, k \in Keys : chains[p][k] > 0 => k.m \in Sent
    /\ \A u \in Users, m \in Seqs : box[<<u, m>>] # "none" => m \in Sent

\* A row of the offline box is closed by a push that was delivered, or dropped.
BoxOK ==
    \A u \in Users, m \in Seqs :
      box[<<u, m>>] = "done" /\ link[u] = "up" => Seen(u, m) \/ <<u, m>> \in dropped

\* The recipients a fan-out has served are covered; the one it could not push
\* to is not yet.
Served ==
    \A p \in Procs : work[p].st # "idle" =>
      \A u \in Users \ work[p].left :
        (work[p].st = "box" /\ u = work[p].u) \/ Covered(u, work[p].m)

\* So are the recipients of what waits to be marked, and of what was marked.
MarkedOK == \A p \in Procs : \A m \in marks[p], u \in Users : Covered(u, m)
ClosedOK == \A m \in Seqs, u \in Users : local[m] = "done" => Covered(u, m)

DInv == TypeOK /\ WorkOK /\ OnlySent /\ BoxOK /\ Served /\ MarkedOK /\ ClosedOK /\ PendingHasTimer

-----------------------------------------------------------------------------
(* What each step leaves alone                                             *)

LocalBy == local' = local \/ (\E m \in Seqs : Send(m)) \/ (\E p \in Procs : Flush(p))
TopicBy == topic' = topic \/ (\E m \in Seqs : Send(m))
NextBy  == (next' = next /\ offset' = offset) \/ FetchFails \/ Rebalance \/ Finish(Job) \/ Crash(Job)
AcksBy  == acks' = acks \/ (\E u \in Users : Receive(u)) \/ (\E a \in acks : AckArrives(a) \/ AckLost(a))
WorkBy  ==
    \/ work' = work \/ Fetch \/ (\E m \in Seqs : Redeliver(m))
    \/ \E p \in Procs :
         (\E u \in Users : PushMember(p, u)) \/ Register(p) \/ BoxMember(p) \/ Finish(p) \/ Crash(p)
BatchBy == batch' = batch \/ Scan \/ (\E m \in Seqs : Redeliver(m)) \/ Crash(Sched)
ChainsBy ==
    \/ pend' = pend /\ chains' = chains
    \/ \E a \in acks : AckArrives(a)
    \/ \E p \in Procs : Register(p) \/ Crash(p) \/ (\E k \in Keys : Retry(p, k))
MarksBy == marks' = marks \/ (\E p \in Procs : Flush(p) \/ Finish(p) \/ Crash(p))
BoxBy   ==
    \/ box' = box
    \/ \E p \in Procs : BoxMember(p) \/ (\E k \in Keys : Exhaust(p, k))
    \/ \E u \in Users, m \in Seqs : Repush(u, m) \/ GiveUp(u, m)
DroppedBy ==
    \/ dropped' = dropped
    \/ \E p \in Procs : BoxMember(p) \/ (\E k \in Keys : Exhaust(p, k))
    \/ \E u \in Users : Reconnect(u) \/ (\E m \in Seqs : GiveUp(u, m))
NetBy   ==
    \/ link' = link /\ wire' = wire /\ wm' = wm
    \/ \E p \in Procs : (\E u \in Users : PushMember(p, u)) \/ (\E k \in Keys : FireAlive(p, k))
    \/ \E u \in Users, m \in Seqs : Repush(u, m)
    \/ \E u \in Users : Receive(u) \/ Break(u) \/ Sweep(u) \/ Reconnect(u)
FaultBy == Fault \/ NoFault

Frame == LocalBy /\ TopicBy /\ NextBy /\ AcksBy /\ WorkBy /\ BatchBy /\ ChainsBy /\ MarksBy
         /\ BoxBy /\ DroppedBy /\ NetBy /\ FaultBy

\* Which actions change which variable
LEMMA StepFrame == ASSUME Next PROVE Frame
<1> USE DEF Frame, LocalBy, TopicBy, NextBy, AcksBy, WorkBy, BatchBy, ChainsBy, MarksBy, BoxBy, DroppedBy, NetBy, FaultBy
<1>1. ASSUME NEW m \in Seqs, Send(m) PROVE Frame
  <2>1. UNCHANGED <<box, next, offset, acks, work, batch, pend, chains, marks, link, wire, wm, dropped>>
    BY <1>1 DEF Send, mem, net
  <2>2. Fault \/ NoFault
    BY <1>1 DEF Send
  <2> QED BY <1>1, <2>1, <2>2
<1>2. CASE Fetch
  <2>1. UNCHANGED <<local, box, topic, next, offset, acks, batch, pend, chains, marks, link, wire, wm, dropped>>
    BY <1>2 DEF Fetch, db, bus, net
  <2>2. NoFault
    BY <1>2 DEF Fetch
  <2> QED BY <1>2, <2>1, <2>2
<1>3. CASE FetchFails
  <2>1. UNCHANGED <<local, box, topic, acks, work, batch, pend, chains, marks, link, wire, wm, dropped>>
    BY <1>3 DEF FetchFails, db, mem, net
  <2>2. Fault
    BY <1>3 DEF FetchFails
  <2> QED BY <1>3, <2>1, <2>2
<1>4. CASE Rebalance
  <2>1. UNCHANGED <<local, box, topic, acks, work, batch, pend, chains, marks, link, wire, wm, dropped>>
    BY <1>4 DEF Rebalance, db, mem, net
  <2>2. Fault
    BY <1>4 DEF Rebalance
  <2> QED BY <1>4, <2>1, <2>2
<1>5. CASE Scan
  <2>1. UNCHANGED <<local, box, topic, next, offset, acks, work, pend, chains, marks, link, wire, wm, dropped>>
    BY <1>5 DEF Scan, db, bus, net
  <2>2. Fault \/ NoFault
    BY <1>5 DEF Scan
  <2> QED BY <1>5, <2>1, <2>2
<1>6. ASSUME NEW m \in Seqs, Redeliver(m) PROVE Frame
  <2>1. UNCHANGED <<local, box, topic, next, offset, acks, pend, chains, marks, link, wire, wm, dropped>>
    BY <1>6 DEF Redeliver, db, bus, net
  <2>2. Fault \/ NoFault
    BY <1>6 DEF Redeliver
  <2> QED BY <1>6, <2>1, <2>2
<1>7. ASSUME NEW p \in Procs, NEW u \in Users, PushMember(p, u) PROVE Frame
  <2>1. UNCHANGED <<local, box, topic, next, offset, acks, batch, pend, chains, marks, link, wm, dropped>>
    BY <1>7 DEF PushMember, db, bus
  <2>2. Fault \/ NoFault
    BY <1>7 DEF PushMember, Push
  <2> QED BY <1>7, <2>1, <2>2
<1>8. ASSUME NEW p \in Procs, Register(p) PROVE Frame
  <2>1. UNCHANGED <<local, box, topic, next, offset, acks, batch, marks, link, wire, wm, dropped>>
    BY <1>8 DEF Register, db, bus, net
  <2>2. NoFault
    BY <1>8 DEF Register
  <2> QED BY <1>8, <2>1, <2>2
<1>9. ASSUME NEW p \in Procs, BoxMember(p) PROVE Frame
  <2>1. UNCHANGED <<local, topic, next, offset, acks, batch, pend, chains, marks, link, wire, wm>>
    BY <1>9 DEF BoxMember, bus, net
  <2>2. Fault \/ NoFault
    BY <1>9 DEF BoxMember, WriteBox
  <2> QED BY <1>9, <2>1, <2>2
<1>10. ASSUME NEW p \in Procs, Finish(p) PROVE Frame
  <2>1. UNCHANGED <<local, box, topic, acks, batch, pend, chains, link, wire, wm, dropped>>
    BY <1>10 DEF Finish, db, net
  <2>2. NoFault
    BY <1>10 DEF Finish
  <2>3. p = Job \/ (next' = next /\ offset' = offset)
    BY <1>10 DEF Finish
  <2> QED BY <1>10, <2>1, <2>2, <2>3
<1>11. ASSUME NEW p \in Procs, Flush(p) PROVE Frame
  <2>1. UNCHANGED <<box, topic, next, offset, acks, work, batch, pend, chains, link, wire, wm, dropped>>
    BY <1>11 DEF Flush, bus, net
  <2>2. Fault \/ NoFault
    BY <1>11 DEF Flush
  <2> QED BY <1>11, <2>1, <2>2
<1>12. ASSUME NEW p \in Procs, Crash(p) PROVE Frame
  <2>1. UNCHANGED <<local, box, topic, offset, acks, link, wire, wm, dropped>>
    BY <1>12 DEF Crash, db, net
  <2>2. Fault
    BY <1>12 DEF Crash
  <2>3. (p = Job /\ batch' = batch) \/ (p = Sched /\ next' = next)
    BY <1>12 DEF Crash, Procs
  <2> QED BY <1>12, <2>1, <2>2, <2>3
<1>13. ASSUME NEW p \in Procs, NEW k \in Keys, FireDead(p, k) PROVE Frame
  <2>1. UNCHANGED <<local, box, topic, next, offset, acks, work, batch, pend, marks, link, wire, wm, dropped>>
    BY <1>13 DEF FireDead, db, bus, net
  <2>2. NoFault
    BY <1>13 DEF FireDead
  <2> QED BY <1>13, <2>1, <2>2 DEF Retry
<1>14. ASSUME NEW p \in Procs, NEW k \in Keys, FireAlive(p, k) PROVE Frame
  <2>1. UNCHANGED <<local, box, topic, next, offset, acks, work, batch, pend, marks, link, wm, dropped>>
    BY <1>14 DEF FireAlive, db, bus
  <2>2. Fault \/ NoFault
    BY <1>14 DEF FireAlive, Push
  <2> QED BY <1>14, <2>1, <2>2 DEF Retry
<1>15. ASSUME NEW p \in Procs, NEW k \in Keys, Exhaust(p, k) PROVE Frame
  <2>1. UNCHANGED <<local, topic, next, offset, acks, work, batch, marks, link, wire, wm>>
    BY <1>15 DEF Exhaust, bus, net
  <2>2. Fault \/ NoFault
    BY <1>15 DEF Exhaust, WriteBox
  <2> QED BY <1>15, <2>1, <2>2 DEF Retry
<1>16. ASSUME NEW p \in Procs, NEW k \in Keys, Schedule(p, k) PROVE Frame
  <2>1. UNCHANGED <<local, box, topic, next, offset, acks, work, batch, pend, marks, link, wire, wm, dropped>>
    BY <1>16 DEF Schedule, db, bus, net
  <2>2. NoFault
    BY <1>16 DEF Schedule
  <2> QED BY <1>16, <2>1, <2>2 DEF Retry
<1>17. ASSUME NEW u \in Users, NEW m \in Seqs, Repush(u, m) PROVE Frame
  <2>1. UNCHANGED <<local, topic, next, offset, acks, work, batch, pend, chains, marks, link, wm, dropped>>
    BY <1>17 DEF Repush, bus, mem
  <2>2. Fault \/ NoFault
    BY <1>17 DEF Repush, Push
  <2> QED BY <1>17, <2>1, <2>2
<1>18. ASSUME NEW a \in acks, AckArrives(a) PROVE Frame
  <2>1. UNCHANGED <<local, box, topic, next, offset, work, batch, chains, marks, link, wire, wm, dropped>>
    BY <1>18 DEF AckArrives, db, net
  <2>2. NoFault
    BY <1>18 DEF AckArrives
  <2> QED BY <1>18, <2>1, <2>2
<1>19. ASSUME NEW a \in acks, AckLost(a) PROVE Frame
  <2>1. UNCHANGED <<local, box, topic, next, offset, work, batch, pend, chains, marks, link, wire, wm, dropped>>
    BY <1>19 DEF AckLost, db, mem, net
  <2>2. Fault
    BY <1>19 DEF AckLost
  <2> QED BY <1>19, <2>1, <2>2
<1>20. ASSUME NEW u \in Users, Receive(u) PROVE Frame
  <2>1. UNCHANGED <<local, box, topic, next, offset, work, batch, pend, chains, marks, link, dropped>>
    BY <1>20 DEF Receive, db, mem
  <2>2. NoFault
    BY <1>20 DEF Receive
  <2> QED BY <1>20, <2>1, <2>2
<1>21. ASSUME NEW u \in Users, Break(u) PROVE Frame
  <2>1. UNCHANGED <<local, box, topic, next, offset, acks, work, batch, pend, chains, marks, wm, dropped>>
    BY <1>21 DEF Break, db, bus, mem
  <2>2. Fault
    BY <1>21 DEF Break
  <2> QED BY <1>21, <2>1, <2>2
<1>22. ASSUME NEW u \in Users, Sweep(u) PROVE Frame
  <2>1. UNCHANGED <<local, box, topic, next, offset, acks, work, batch, pend, chains, marks, wire, wm, dropped>>
    BY <1>22 DEF Sweep, db, bus, mem
  <2>2. NoFault
    BY <1>22 DEF Sweep
  <2> QED BY <1>22, <2>1, <2>2
<1>23. ASSUME NEW u \in Users, Reconnect(u) PROVE Frame
  <2>1. UNCHANGED <<local, box, topic, next, offset, acks, work, batch, pend, chains, marks, wire>>
    BY <1>23 DEF Reconnect, db, bus, mem
  <2>2. FaultBy
    BY <1>23 DEF Reconnect, FaultBy
  <2> QED BY <1>23, <2>1, <2>2
<1>24. ASSUME NEW u \in Users, NEW m \in Seqs, GiveUp(u, m) PROVE Frame
  <2>1. UNCHANGED <<local, topic, next, offset, acks, work, batch, pend, chains, marks, link, wire, wm>>
    BY <1>24 DEF GiveUp, bus, mem, net
  <2>2. NoFault
    BY <1>24 DEF GiveUp
  <2> QED BY <1>24, <2>1, <2>2
<1> QED BY <1>1, <1>2, <1>3, <1>4, <1>5, <1>6, <1>7, <1>8, <1>9, <1>10, <1>11, <1>12, <1>13, <1>14, <1>15, <1>16, <1>17, <1>18, <1>19, <1>20, <1>21, <1>22, <1>23, <1>24
    DEF Next, Consume, Compensate, Deliver, Retry

-----------------------------------------------------------------------------
(* Types, and what each variable keeps                                     *)

\* A failure counts up to the bound.
LEMMA FaultType == ASSUME TypeOK, FaultBy PROVE faults' \in 0..MaxFaults
BY DeliveryAssumption DEF FaultBy, Fault, NoFault, TypeOK

\* A committed message stays committed; a row is closed by a flush of its mark.
LEMMA LocalFacts ==
    ASSUME TypeOK, LocalBy
    PROVE  /\ local' \in [Seqs -> {"none", "todo", "done"}]
           /\ Sent \subseteq Sent'
           /\ \A m \in Seqs : local'[m] = "done" => local[m] = "done" \/ \E p \in Procs : m \in marks[p]
<1>1. CASE local' = local
  BY <1>1 DEF TypeOK, Sent
<1>2. ASSUME NEW m \in Seqs, Send(m)
      PROVE  /\ local' = [local EXCEPT ![m] = "todo"]
             /\ local' \in [Seqs -> {"none", "todo", "done"}]
  BY <1>2 DEF Send, TypeOK
<1>3. ASSUME NEW p \in Procs, Flush(p)
      PROVE  \/ local' = local
             \/ \E rows \in SUBSET marks[p] :
                  local' = [m \in Seqs |-> IF m \in rows THEN "done" ELSE local[m]]
  BY <1>3 DEF Flush
<1>4. ASSUME NEW p \in Procs, NEW rows \in SUBSET marks[p],
             local' = [m \in Seqs |-> IF m \in rows THEN "done" ELSE local[m]]
      PROVE  /\ local' \in [Seqs -> {"none", "todo", "done"}]
             /\ Sent \subseteq Sent'
             /\ \A m \in Seqs : local'[m] = "done" => local[m] = "done" \/ \E q \in Procs : m \in marks[q]
  BY <1>4 DEF TypeOK, Sent
<1>5. CASE \E m \in Seqs : Send(m)
  BY <1>2, <1>5 DEF TypeOK, Sent
<1>6. CASE \E p \in Procs : Flush(p)
  BY <1>1, <1>3, <1>4, <1>6
<1> QED BY <1>1, <1>5, <1>6 DEF LocalBy

\* The topic grows by committed messages, the consumer stays in it, and an
\* event that is being delivered stays ahead of it.
LEMMA BusFacts ==
    ASSUME TypeOK, WorkOK, TopicBy, NextBy
    PROVE  /\ topic' \in Seq(Seqs) /\ next' \in 0..Len(topic') /\ offset' \in 0..next'
           /\ Len(topic) <= Len(topic')
           /\ \A i \in 1..Len(topic') : (i \in 1..Len(topic) /\ topic'[i] = topic[i]) \/ topic'[i] \in Sent'
<1>1. Len(topic) \in Nat /\ next \in 0..Len(topic) /\ offset \in 0..next /\ topic \in Seq(Seqs)
  BY DEF TypeOK
<1>2. /\ topic' \in Seq(Seqs) /\ Len(topic) <= Len(topic') /\ Len(topic') \in Nat
      /\ \A i \in 1..Len(topic') : (i \in 1..Len(topic) /\ topic'[i] = topic[i]) \/ topic'[i] \in Sent'
  <2>1. CASE topic' = topic
    BY <1>1, <2>1
  <2>2. ASSUME NEW m \in Seqs, Send(m)
        PROVE  (topic' = topic \/ topic' = Append(topic, m)) /\ m \in Sent'
    <3>1. topic' = topic \/ topic' = Append(topic, m)
      BY <2>2 DEF Send
    <3>2. local' = [local EXCEPT ![m] = "todo"] /\ local \in [Seqs -> {"none", "todo", "done"}]
      BY <2>2 DEF Send, TypeOK
    <3> QED BY <3>1, <3>2 DEF Sent
  <2>3. ASSUME NEW m \in Seqs, m \in Sent', topic' = Append(topic, m)
        PROVE  /\ topic' \in Seq(Seqs) /\ Len(topic) <= Len(topic') /\ Len(topic') \in Nat
               /\ \A i \in 1..Len(topic') : (i \in 1..Len(topic) /\ topic'[i] = topic[i]) \/ topic'[i] \in Sent'
    BY <1>1, <2>3
  <2> QED BY <2>1, <2>2, <2>3 DEF TopicBy
<1>3. \/ next' = next /\ offset' = offset
      \/ next < Len(topic) /\ next' = next + 1 /\ offset' \in {offset, next + 1}
      \/ next' = offset /\ offset' = offset
  <2>1. CASE FetchFails
    BY <2>1 DEF FetchFails, Handled
  <2>2. CASE Rebalance
    BY <2>2 DEF Rebalance
  <2>3. CASE Finish(Job)
    <3>1. Job \in Procs /\ work[Job].st = "fan"
      BY <2>3 DEF Finish, FanOutDone, Procs
    <3>2. next < Len(topic)
      BY <3>1 DEF WorkOK
    <3> QED BY <2>3, <3>2 DEF Finish, Handled
  <2>4. CASE Crash(Job)
    BY <2>4 DEF Crash
  <2> QED BY <2>1, <2>2, <2>3, <2>4 DEF NextBy
<1> QED BY <1>1, <1>2, <1>3

\* Acknowledgements carry numbers that were pushed.
LEMMA AcksType == ASSUME TypeOK, AcksBy PROVE acks' \subseteq [u : Users, m : Seqs]
<1>1. CASE acks' = acks
  BY <1>1 DEF TypeOK
<1>2. ASSUME NEW u \in Users, Receive(u) PROVE acks' \subseteq [u : Users, m : Seqs]
  <2>1. wire[u] \in Seq(Seqs) /\ wire[u] # <<>>
    BY <1>2 DEF Receive, TypeOK
  <2>2. Head(wire[u]) \in Seqs
    BY <2>1
  <2>3. acks' = acks \/ acks' = acks \cup {[u |-> u, m |-> Head(wire[u])]}
    BY <1>2 DEF Receive
  <2> QED BY <2>2, <2>3 DEF TypeOK
<1>3. ASSUME NEW a \in acks, AckArrives(a) \/ AckLost(a) PROVE acks' \subseteq [u : Users, m : Seqs]
  BY <1>3 DEF AckArrives, AckLost, TypeOK
<1> QED BY <1>1, <1>2, <1>3 DEF AcksBy

\* Rows are read while they are committed.
LEMMA BatchFacts == ASSUME TypeOK, BatchBy PROVE batch' \subseteq batch \cup Sent
<1>1. CASE Scan
  BY <1>1 DEF Scan, Sent
<1>2. ASSUME NEW m \in Seqs, Redeliver(m) PROVE batch' \subseteq batch \cup Sent
  BY <1>2 DEF Redeliver
<1>3. CASE Crash(Sched)
  BY <1>3, DeliveryAssumption DEF Crash
<1> QED BY <1>1, <1>2, <1>3 DEF BatchBy

\* A mark is added by the fan-out that is done.
LEMMA MarksFacts ==
    ASSUME TypeOK, WorkOK, MarksBy
    PROVE  /\ marks' \in [Procs -> SUBSET Seqs]
           /\ \A p \in Procs, m \in Seqs : m \in marks'[p] =>
                m \in marks[p] \/ (FanOutDone(p) /\ m = work[p].m)
<1>1. CASE marks' = marks
  BY <1>1 DEF TypeOK
<1>2. ASSUME NEW p \in Procs, Flush(p)
      PROVE  \E rows \in SUBSET marks[p] : marks' = [marks EXCEPT ![p] = @ \ rows]
  BY <1>2 DEF Flush
<1>3. ASSUME NEW p \in Procs, Finish(p)
      PROVE  FanOutDone(p) /\ work[p].m \in Seqs /\ marks' = [marks EXCEPT ![p] = @ \cup {work[p].m}]
  <2>1. work[p].st # "idle"
    BY <1>3 DEF Finish, FanOutDone
  <2> QED BY <1>3, <2>1 DEF Finish, WorkOK, Sent
<1>4. ASSUME NEW p \in Procs, Crash(p) PROVE marks' = [marks EXCEPT ![p] = {}]
  BY <1>4 DEF Crash
<1>0. marks \in [Procs -> SUBSET Seqs]
  BY DEF TypeOK
<1>5. CASE \E p \in Procs : Flush(p)
  <2>p. PICK p \in Procs : Flush(p)
    BY <1>5
  <2>1. PICK rows \in SUBSET marks[p] : marks' = [marks EXCEPT ![p] = @ \ rows]
    BY <1>2, <2>p
  <2>2. \A q \in Procs : marks'[q] \subseteq marks[q]
    BY <1>0, <2>1
  <2> QED BY <1>0, <2>1, <2>2
<1>6. CASE \E p \in Procs : Finish(p)
  <2>1. PICK p \in Procs : FanOutDone(p) /\ work[p].m \in Seqs /\ marks' = [marks EXCEPT ![p] = @ \cup {work[p].m}]
    BY <1>3, <1>6
  <2>2. \A q \in Procs : marks'[q] = IF q = p THEN marks[p] \cup {work[p].m} ELSE marks[q]
    BY <1>0, <2>1
  <2> QED BY <1>0, <2>1, <2>2
<1>7. CASE \E p \in Procs : Crash(p)
  BY <1>4, <1>7 DEF TypeOK
<1> QED BY <1>1, <1>5, <1>6, <1>7 DEF MarksBy

-----------------------------------------------------------------------------
(* The event a process works on                                            *)

Works == [st : {"idle", "fan", "register", "box"}, m : 0..MaxSeq, left : SUBSET Users, u : Users \cup {NoUser}]

\* What one step may do to the event that process p works on
WorkMoves(p, w, v) ==
    \/ v = w \/ v = Idle
    \/ v.st = "fan" /\ v.m \in Sent /\ v.left = Users /\ (p = Job => next < Len(topic))
    \/ /\ w.st = "fan" /\ v.st \in {"register", "box"} /\ v.m = w.m
       /\ v.u \in w.left /\ v.left = w.left \ {v.u} /\ PushMember(p, v.u)
    \/ v.st = "fan" /\ v.m = w.m /\ v.left = w.left /\ (w.st = "register" \/ BoxMember(p))

\* Each step moves the work of one process at most, in one of these ways.
LEMMA WorkFacts ==
    ASSUME TypeOK, WorkOK, OnlySent, WorkBy
    PROVE  work' \in [Procs -> Works] /\ \A p \in Procs : WorkMoves(p, work[p], work'[p])
<1> DEFINE Goal == work' \in [Procs -> Works] /\ \A p \in Procs : WorkMoves(p, work[p], work'[p])
<1>0. work \in [Procs -> Works] /\ Job \in Procs /\ Sched \in Procs /\ Job # Sched /\ Sent \subseteq Seqs
  BY DeliveryAssumption DEF TypeOK, Works, Procs, Sent
<1>i. Idle \in Works
  BY DeliveryAssumption DEF Idle, Works
<1>s. ASSUME NEW p \in Procs, NEW v \in Works, work' = [work EXCEPT ![p] = v], WorkMoves(p, work[p], v)
      PROVE  Goal
  <2>1. work' \in [Procs -> Works]
    BY <1>0, <1>s
  <2>2. \A q \in Procs : work'[q] = IF q = p THEN v ELSE work[q]
    BY <1>0, <1>s
  <2>3. \A q \in Procs \ {p} : WorkMoves(q, work[q], work'[q])
    BY <2>2 DEF WorkMoves
  <2> QED BY <1>s, <2>1, <2>2, <2>3
<1>b. ASSUME NEW p \in Procs, NEW m \in Sent, Begin(p, m), p # Job \/ next < Len(topic)
      PROVE  Goal
  <2> DEFINE v == [st |-> "fan", m |-> m, left |-> Users, u |-> NoUser]
  <2>1. m \in 0..MaxSeq
    BY <1>0, DeliveryAssumption DEF Seqs
  <2>2. v \in Works
    BY <2>1 DEF Works
  <2>3. WorkMoves(p, work[p], v)
    BY <1>b DEF WorkMoves
  <2>4. work' = [work EXCEPT ![p] = v]
    BY <1>b DEF Begin
  <2> HIDE DEF v, Goal
  <2> QED BY <2>2, <2>3, <2>4, <1>s
<1>f. ASSUME NEW p \in Procs, work' = [work EXCEPT ![p].st = "fan", ![p].u = NoUser],
             work[p].st = "register" \/ BoxMember(p)
      PROVE  Goal
  <2> DEFINE v == [work[p] EXCEPT !.st = "fan", !.u = NoUser]
  <2>1. v \in Works /\ v.st = "fan" /\ v.m = work[p].m /\ v.left = work[p].left
    BY <1>0 DEF Works
  <2>2. work' = [work EXCEPT ![p] = v]
    BY <1>0, <1>f
  <2> HIDE DEF v, Goal
  <2>3. WorkMoves(p, work[p], v)
    BY <2>1, <1>f DEF WorkMoves
  <2> QED BY <2>1, <2>2, <2>3, <1>s
<1>1. CASE work' = work
  BY <1>0, <1>1 DEF WorkMoves
<1>2. CASE Fetch
  <2>1. Begin(Job, topic[next + 1]) /\ next < Len(topic) /\ next \in Nat /\ next + 1 \in 1..Len(topic)
    BY <1>2 DEF Fetch, TypeOK
  <2>2. topic[next + 1] \in Sent
    BY <2>1 DEF OnlySent
  <2>3. PICK m \in Sent : Begin(Job, m)
    BY <2>1, <2>2
  <2>5. Job \in Procs
    BY <1>0
  <2>6. (Job # Job \/ next < Len(topic)) /\ Begin(Job, m)
    BY <2>1, <2>3
  <2>7. Goal
    <3> HIDE DEF Goal
    <3> QED BY <2>5, <2>6, <1>b
  <2> QED BY <2>7
<1>3. ASSUME NEW m \in Seqs, Redeliver(m) PROVE Goal
  <2>1. m \in Sent /\ (Begin(Sched, m) \/ work' = work)
    BY <1>3 DEF Redeliver, OnlySent
  <2> HIDE DEF Goal
  <2>2. CASE work' = work
    BY <2>2, <1>0 DEF Goal, WorkMoves
  <2> QED BY <1>0, <2>1, <2>2, <1>b
<1>4. ASSUME NEW p \in Procs, NEW u \in Users, PushMember(p, u) PROVE Goal
  <2>1. PICK delivered \in BOOLEAN :
          work' = [work EXCEPT ![p] = [work[p] EXCEPT !.u = u, !.left = @ \ {u},
                                          !.st = IF delivered THEN "register" ELSE "box"]]
    BY <1>4 DEF PushMember
  <2> DEFINE v == [work[p] EXCEPT !.u = u, !.left = @ \ {u}, !.st = IF delivered THEN "register" ELSE "box"]
  <2>2. work[p].st = "fan" /\ u \in work[p].left
    BY <1>4 DEF PushMember
  <2>3. /\ v \in Works /\ v.st \in {"register", "box"} /\ v.m = work[p].m /\ v.u = u
        /\ v.left = work[p].left \ {u}
    BY <1>0, <2>2 DEF Works
  <2>4. work' = [work EXCEPT ![p] = v]
    BY <2>1
  <2> HIDE DEF v, Goal
  <2>5. WorkMoves(p, work[p], v)
    BY <1>4, <2>2, <2>3 DEF WorkMoves
  <2> QED BY <2>3, <2>4, <2>5, <1>s
<1>5. ASSUME NEW p \in Procs, Register(p) \/ BoxMember(p) PROVE Goal
  <2>1. work' = [work EXCEPT ![p].st = "fan", ![p].u = NoUser]
    BY <1>5 DEF Register, BoxMember
  <2>2. work[p].st = "register" \/ BoxMember(p)
    BY <1>5 DEF Register
  <2> HIDE DEF Goal
  <2> QED BY <2>1, <2>2, <1>f
<1>6. ASSUME NEW p \in Procs, Finish(p) \/ Crash(p) PROVE Goal
  <2>1. work' = [work EXCEPT ![p] = Idle]
    BY <1>6 DEF Finish, Crash
  <2>2. WorkMoves(p, work[p], Idle)
    BY DEF WorkMoves
  <2> HIDE DEF Goal
  <2> QED BY <1>i, <2>1, <2>2, <1>s
<1> QED BY <1>1, <1>2, <1>3, <1>4, <1>5, <1>6 DEF WorkBy

\* The consumer moves on only when it works on no event.
LEMMA NextMoves ==
    ASSUME TypeOK, NextBy PROVE next' = next \/ work'[Job].st = "idle"
<1>0. work \in [Procs -> Works] /\ Job \in Procs
  BY DEF TypeOK, Works, Procs
<1>1. CASE FetchFails
  BY <1>1 DEF FetchFails, mem
<1>2. CASE Rebalance
  BY <1>2 DEF Rebalance, mem
<1>3. CASE Finish(Job) \/ Crash(Job)
  <2>1. work' = [work EXCEPT ![Job] = Idle]
    BY <1>3 DEF Finish, Crash
  <2> QED BY <1>0, <2>1 DEF Idle
<1> QED BY <1>1, <1>2, <1>3 DEF NextBy

\* WorkOK is kept.
LEMMA WorkStep == ASSUME TypeOK, WorkOK, OnlySent, Frame PROVE WorkOK'
<1>1. \A p \in Procs : WorkMoves(p, work[p], work'[p])
  BY WorkFacts DEF Frame
<1>2. work' \in [Procs -> Works]
  BY WorkFacts DEF Frame
<1>3. Sent \subseteq Sent'
  BY LocalFacts DEF Frame
<1>4. Len(topic) <= Len(topic') /\ Len(topic) \in Nat /\ Len(topic') \in Nat /\ next \in Nat
  BY BusFacts DEF Frame, TypeOK
<1>5. next' = next \/ work'[Job].st = "idle"
  BY NextMoves DEF Frame
<1> SUFFICES ASSUME NEW p \in Procs, work'[p].st # "idle"
             PROVE  /\ work'[p].m \in Sent'
                    /\ work'[p].st \in {"register", "box"} => work'[p].u \in Users
                    /\ p = Job => next' < Len(topic')
  BY DEF WorkOK
<1>6. WorkMoves(p, work[p], work'[p]) /\ work'[p] # Idle /\ work[p] \in Works
  BY <1>1 DEF Idle, TypeOK, Works
<1>7. work'[p] = work[p] => work[p].st # "idle"
  OBVIOUS
<1>8. work'[p].m \in Sent /\ (work'[p].st \in {"register", "box"} => work'[p].u \in Users)
  BY <1>6, <1>7 DEF WorkMoves, WorkOK, BoxMember, Works
<1>9. p = Job => next < Len(topic)
  BY <1>6, <1>7 DEF WorkMoves, WorkOK, BoxMember
<1> QED BY <1>3, <1>4, <1>5, <1>8, <1>9

-----------------------------------------------------------------------------
(* The registry of a process and its retry chains                          *)

\* P is the registry and C the chains of a process before a step, Q and D
\* after it: acknowledged or unchanged, lost, enrolled, ended, moved on.
ChainMoves(P, C, Q, D) ==
    \/ D = C /\ Q \subseteq P
    \/ D = NoChains /\ Q = {}
    \/ \E k \in Keys : k.m \in Sent /\ D = [C EXCEPT ![k] = @ + 1] /\ Q = P \cup {<<k.u, k.m>>}
    \/ \E k \in Keys : C[k] > 0 /\ D = [C EXCEPT ![k] = @ - 1] /\ Q = P \ {<<k.u, k.m>>}
    \/ \E k, l \in Keys : /\ C[k] > 0 /\ k # l /\ l.u = k.u /\ l.m = k.m
                          /\ D = [C EXCEPT ![k] = @ - 1, ![l] = @ + 1] /\ Q = P

\* Every key of P has a timer or a push in progress in C.
HasTimer(P, C) == \A d \in P : \E k \in Keys : k.u = d[1] /\ k.m = d[2] /\ C[k] > 0

\* The keys that a chain goes through are those of its recipient and message.
LEMMA KeyFacts ==
    /\ \A k \in Keys : k.u \in Users /\ k.m \in Seqs /\ k.lvl \in 1..Levels /\ <<k.u, k.m>> \in Users \X Seqs
    /\ \A u \in Users, m \in Seqs : [u |-> u, m |-> m, lvl |-> 1, st |-> "armed"] \in Keys
    /\ \A k \in Keys : k.st = "armed" =>
         LET l == [k EXCEPT !.st = "pushed"] IN l \in Keys /\ l # k /\ l.u = k.u /\ l.m = k.m
    /\ \A k \in Keys : k.st = "pushed" /\ k.lvl < Levels =>
         LET l == [k EXCEPT !.st = "armed", !.lvl = @ + 1] IN l \in Keys /\ l # k /\ l.u = k.u /\ l.m = k.m
<1>1. 1 \in 1..Levels
  BY DeliveryAssumption
<1>2. \A k \in Keys : k.u \in Users /\ k.m \in Seqs /\ k.lvl \in 1..Levels /\ <<k.u, k.m>> \in Users \X Seqs
  BY DEF Keys
<1>3. \A u \in Users, m \in Seqs : [u |-> u, m |-> m, lvl |-> 1, st |-> "armed"] \in Keys
  BY <1>1 DEF Keys
<1>4. ASSUME NEW k \in Keys, k.st = "armed"
      PROVE  LET l == [k EXCEPT !.st = "pushed"] IN l \in Keys /\ l # k /\ l.u = k.u /\ l.m = k.m
  BY <1>4 DEF Keys
<1>5. ASSUME NEW k \in Keys, k.st = "pushed", k.lvl < Levels
      PROVE  LET l == [k EXCEPT !.st = "armed", !.lvl = @ + 1] IN l \in Keys /\ l # k /\ l.u = k.u /\ l.m = k.m
  <2>1. k.lvl \in 1..Levels /\ Levels \in Nat
    BY <1>2, DeliveryAssumption
  <2>2. k.lvl + 1 \in 1..Levels /\ k.lvl + 1 # k.lvl
    BY <1>5, <2>1
  <2> QED BY <1>5, <2>2 DEF Keys
<1> QED BY <1>2, <1>3, <1>4, <1>5

\* The types are kept, no key loses its timer, and only committed messages are
\* retried.
LEMMA MoveFacts ==
    ASSUME NEW P \in SUBSET (Users \X Seqs), NEW C \in [Keys -> Nat], NEW Q, NEW D,
           ChainMoves(P, C, Q, D), HasTimer(P, C),
           \A k \in Keys : C[k] > 0 => k.m \in Sent
    PROVE  /\ Q \in SUBSET (Users \X Seqs) /\ D \in [Keys -> Nat] /\ HasTimer(Q, D)
           /\ \A k \in Keys : D[k] > 0 => k.m \in Sent
<1> DEFINE Goal == /\ Q \in SUBSET (Users \X Seqs) /\ D \in [Keys -> Nat] /\ HasTimer(Q, D)
                   /\ \A k \in Keys : D[k] > 0 => k.m \in Sent
<1>1. CASE D = C /\ Q \subseteq P
  BY <1>1 DEF HasTimer
<1>2. CASE D = NoChains /\ Q = {}
  BY <1>2 DEF HasTimer, NoChains
<1>3. ASSUME NEW k \in Keys, k.m \in Sent, D = [C EXCEPT ![k] = @ + 1], Q = P \cup {<<k.u, k.m>>} PROVE Goal
  <2>1. D \in [Keys -> Nat] /\ D[k] > 0 /\ \A j \in Keys : C[j] > 0 => D[j] > 0
    BY <1>3
  <2>2. Q \in SUBSET (Users \X Seqs)
    BY <1>3, KeyFacts
  <2>3. \A j \in Keys : D[j] > 0 => j.m \in Sent
    BY <1>3
  <2>4. HasTimer(Q, D)
    <3> SUFFICES ASSUME NEW d \in Q PROVE \E j \in Keys : j.u = d[1] /\ j.m = d[2] /\ D[j] > 0
      BY DEF HasTimer
    <3>1. CASE d \in P
      BY <2>1, <3>1 DEF HasTimer
    <3>2. CASE d = <<k.u, k.m>>
      BY <2>1, <3>2
    <3> QED BY <1>3, <3>1, <3>2
  <2> QED BY <2>1, <2>2, <2>3, <2>4
<1>4. ASSUME NEW k \in Keys, C[k] > 0, D = [C EXCEPT ![k] = @ - 1], Q = P \ {<<k.u, k.m>>} PROVE Goal
  <2>1. D \in [Keys -> Nat] /\ \A j \in Keys \ {k} : D[j] = C[j]
    BY <1>4
  <2>2. \A j \in Keys : D[j] > 0 => j.m \in Sent
    BY <1>4
  <2>3. HasTimer(Q, D)
    <3> SUFFICES ASSUME NEW d \in Q PROVE \E j \in Keys : j.u = d[1] /\ j.m = d[2] /\ D[j] > 0
      BY DEF HasTimer
    <3>1. d \in P /\ d # <<k.u, k.m>> /\ d = <<d[1], d[2]>>
      BY <1>4
    <3>2. PICK j \in Keys : j.u = d[1] /\ j.m = d[2] /\ C[j] > 0
      BY <3>1 DEF HasTimer
    <3>3. j # k
      BY <3>1, <3>2
    <3> QED BY <2>1, <3>2, <3>3
  <2> QED BY <1>4, <2>1, <2>2, <2>3
<1>5. ASSUME NEW k \in Keys, NEW l \in Keys, C[k] > 0, k # l, l.u = k.u, l.m = k.m,
             D = [C EXCEPT ![k] = @ - 1, ![l] = @ + 1], Q = P
      PROVE  Goal
  <2>1. D \in [Keys -> Nat] /\ D[l] > 0 /\ \A j \in Keys \ {k, l} : D[j] = C[j]
    BY <1>5
  <2>2. \A j \in Keys : D[j] > 0 => j.m \in Sent
    BY <1>5, <2>1
  <2>3. HasTimer(Q, D)
    <3> SUFFICES ASSUME NEW d \in Q PROVE \E j \in Keys : j.u = d[1] /\ j.m = d[2] /\ D[j] > 0
      BY DEF HasTimer
    <3>2. PICK j \in Keys : j.u = d[1] /\ j.m = d[2] /\ C[j] > 0
      BY <1>5 DEF HasTimer
    <3>3. CASE j = k
      BY <1>5, <2>1, <3>2, <3>3
    <3>4. CASE j = l
      BY <2>1, <3>2, <3>4
    <3>5. CASE j \notin {k, l}
      BY <2>1, <3>2, <3>5
    <3> QED BY <3>3, <3>4, <3>5
  <2> QED BY <1>5, <2>1, <2>2, <2>3
<1> QED BY <1>1, <1>2, <1>3, <1>4, <1>5 DEF ChainMoves

\* Every step moves the registry of each process in one of these ways.
LEMMA ChainForm ==
    ASSUME TypeOK, WorkOK, OnlySent, ChainsBy
    PROVE  /\ \A p \in Procs : ChainMoves(pend[p], chains[p], pend'[p], chains'[p])
           /\ DOMAIN pend' = Procs /\ DOMAIN chains' = Procs
           /\ pend' = [p \in Procs |-> pend'[p]] /\ chains' = [p \in Procs |-> chains'[p]]
<1> DEFINE Goal == /\ \A p \in Procs : ChainMoves(pend[p], chains[p], pend'[p], chains'[p])
                   /\ DOMAIN pend' = Procs /\ DOMAIN chains' = Procs
                   /\ pend' = [p \in Procs |-> pend'[p]] /\ chains' = [p \in Procs |-> chains'[p]]
<1>0. pend \in [Procs -> SUBSET (Users \X Seqs)] /\ chains \in [Procs -> [Keys -> Nat]] /\ Job \in Procs
  BY DEF TypeOK, Procs
<1>s. ASSUME NEW p \in Procs, NEW Q, NEW D, ChainMoves(pend[p], chains[p], Q, D),
             pend' = [pend EXCEPT ![p] = Q], chains' = [chains EXCEPT ![p] = D]
      PROVE  Goal
  <2>1. \A q \in Procs : /\ pend'[q] = IF q = p THEN Q ELSE pend[q]
                         /\ chains'[q] = IF q = p THEN D ELSE chains[q]
    BY <1>0, <1>s
  <2>2. \A q \in Procs \ {p} : ChainMoves(pend[q], chains[q], pend'[q], chains'[q])
    BY <2>1 DEF ChainMoves
  <2>3. ChainMoves(pend[p], chains[p], pend'[p], chains'[p])
    BY <1>s, <2>1
  <2>4. /\ DOMAIN pend' = Procs /\ DOMAIN chains' = Procs
        /\ pend' = [q \in Procs |-> pend'[q]] /\ chains' = [q \in Procs |-> chains'[q]]
    BY <1>0, <1>s
  <2> QED BY <2>2, <2>3, <2>4
<1>1. CASE pend' = pend /\ chains' = chains
  BY <1>0, <1>1 DEF ChainMoves
<1>2. ASSUME NEW a \in acks, AckArrives(a) PROVE Goal
  <2> DEFINE Q == {d \in pend[Job] : d[1] # a.u \/ d[2] > a.m}
  <2>1. pend' = [pend EXCEPT ![Job] = Q] /\ chains' = [chains EXCEPT ![Job] = chains[Job]] /\ Q \subseteq pend[Job]
    BY <1>0, <1>2 DEF AckArrives
  <2> HIDE DEF Q
  <2>2. ChainMoves(pend[Job], chains[Job], Q, chains[Job])
    BY <2>1 DEF ChainMoves
  <2> HIDE DEF Goal
  <2> QED BY <1>0, <2>1, <2>2, <1>s
<1>3. ASSUME NEW p \in Procs, Register(p) PROVE Goal
  <2> DEFINE k == [u |-> work[p].u, m |-> work[p].m, lvl |-> 1, st |-> "armed"]
             Q == pend[p] \cup {<<k.u, k.m>>}
             D == [chains[p] EXCEPT ![k] = @ + 1]
  <2>1. work[p].u \in Users /\ work[p].m \in Sent
    BY <1>3 DEF Register, WorkOK
  <2>2. k \in Keys /\ k.m \in Sent /\ k.u = work[p].u /\ k.m = work[p].m
    BY <2>1, KeyFacts DEF Sent
  <2>3. \/ pend' = pend /\ chains' = chains
        \/ /\ pend' = [pend EXCEPT ![p] = @ \cup {<<work[p].u, work[p].m>>}]
           /\ chains' = [chains EXCEPT ![p][k] = @ + 1]
    BY <1>3 DEF Register, Enroll
  <2>4. CASE pend' = pend /\ chains' = chains
    BY <1>0, <2>4 DEF ChainMoves
  <2>5. CASE /\ pend' = [pend EXCEPT ![p] = @ \cup {<<work[p].u, work[p].m>>}]
             /\ chains' = [chains EXCEPT ![p][k] = @ + 1]
    <3>1. pend' = [pend EXCEPT ![p] = Q] /\ chains' = [chains EXCEPT ![p] = D]
      BY <1>0, <2>2, <2>5
    <3>2. ChainMoves(pend[p], chains[p], Q, D)
      BY <2>2 DEF ChainMoves
    <3> HIDE DEF Goal, Q, D
    <3>3. Goal
      BY <3>1, <3>2, <1>s
    <3> QED BY <3>3 DEF Goal
  <2> QED BY <2>3, <2>4, <2>5
<1>4. ASSUME NEW p \in Procs, Crash(p) PROVE Goal
  <2>1. pend' = [pend EXCEPT ![p] = {}] /\ chains' = [chains EXCEPT ![p] = NoChains]
    BY <1>4 DEF Crash
  <2>2. ChainMoves(pend[p], chains[p], {}, NoChains)
    BY DEF ChainMoves
  <2> HIDE DEF Goal
  <2> QED BY <2>1, <2>2, <1>s
\* A chain ends: its key is gone already, or it leaves the registry now.
<1>d. ASSUME NEW p \in Procs, NEW k \in Keys, chains[p][k] > 0, Drop(p, k),
             pend' = [pend EXCEPT ![p] = @ \ {<<k.u, k.m>>}]
      PROVE  Goal
  <2> DEFINE Q == pend[p] \ {<<k.u, k.m>>}
             D == [chains[p] EXCEPT ![k] = @ - 1]
  <2>1. pend' = [pend EXCEPT ![p] = Q] /\ chains' = [chains EXCEPT ![p] = D]
    BY <1>0, <1>d DEF Drop
  <2>2. ChainMoves(pend[p], chains[p], Q, D)
    BY <1>d DEF ChainMoves
  <2> HIDE DEF Goal, Q, D
  <2> QED BY <2>1, <2>2, <1>s
<1>m. ASSUME NEW p \in Procs, NEW k \in Keys, NEW l \in Keys, chains[p][k] > 0, Move(p, k, l),
             k # l, l.u = k.u, l.m = k.m, pend' = pend
      PROVE  Goal
  <2> DEFINE D == [chains[p] EXCEPT ![k] = @ - 1, ![l] = @ + 1]
  <2>1. pend' = [pend EXCEPT ![p] = pend[p]] /\ chains' = [chains EXCEPT ![p] = D]
    BY <1>0, <1>m DEF Move
  <2>2. ChainMoves(pend[p], chains[p], pend[p], D)
    BY <1>m DEF ChainMoves
  <2> HIDE DEF Goal, D
  <2> QED BY <2>1, <2>2, <1>s
<1>5. ASSUME NEW p \in Procs, NEW k \in Keys, FireDead(p, k) PROVE Goal
  <2>1. chains[p][k] > 0 /\ <<k.u, k.m>> \notin pend[p] /\ Drop(p, k) /\ pend' = pend
    BY <1>5 DEF FireDead
  <2>2. pend' = [pend EXCEPT ![p] = @ \ {<<k.u, k.m>>}]
    BY <1>0, <2>1
  <2> HIDE DEF Goal
  <2> QED BY <2>1, <2>2, <1>d
<1>6. ASSUME NEW p \in Procs, NEW k \in Keys, FireAlive(p, k) PROVE Goal
  <2> DEFINE l == [k EXCEPT !.st = "pushed"]
  <2>1. chains[p][k] > 0 /\ k.st = "armed" /\ Move(p, k, l) /\ pend' = pend
    BY <1>6 DEF FireAlive
  <2>2. l \in Keys /\ k # l /\ l.u = k.u /\ l.m = k.m
    BY <2>1, KeyFacts
  <2> HIDE DEF Goal, l
  <2> QED BY <2>1, <2>2, <1>m
<1>7. ASSUME NEW p \in Procs, NEW k \in Keys, Exhaust(p, k) PROVE Goal
  <2>1. chains[p][k] > 0 /\ Drop(p, k) /\ pend' = [pend EXCEPT ![p] = @ \ {<<k.u, k.m>>}]
    BY <1>7 DEF Exhaust
  <2> HIDE DEF Goal
  <2> QED BY <2>1, <1>d
<1>8. ASSUME NEW p \in Procs, NEW k \in Keys, Schedule(p, k) PROVE Goal
  <2> DEFINE l == [k EXCEPT !.st = "armed", !.lvl = @ + 1]
  <2>1. /\ chains[p][k] > 0 /\ k.st = "pushed" /\ k.lvl < Levels /\ pend' = pend
        /\ Move(p, k, l) \/ (Drop(p, k) /\ <<k.u, k.m>> \notin pend[p])
    BY <1>8 DEF Schedule, StillPending
  <2>2. l \in Keys /\ k # l /\ l.u = k.u /\ l.m = k.m
    BY <2>1, KeyFacts
  <2>3. CASE Move(p, k, l)
    <3> HIDE DEF Goal, l
    <3> QED BY <2>1, <2>2, <2>3, <1>m
  <2>4. CASE Drop(p, k) /\ <<k.u, k.m>> \notin pend[p]
    <3>1. pend' = [pend EXCEPT ![p] = @ \ {<<k.u, k.m>>}]
      BY <1>0, <2>1, <2>4
    <3> HIDE DEF Goal
    <3> QED BY <2>1, <2>4, <3>1, <1>d
  <2> QED BY <2>1, <2>3, <2>4
<1> QED BY <1>1, <1>2, <1>3, <1>4, <1>5, <1>6, <1>7, <1>8 DEF ChainsBy, Retry

-----------------------------------------------------------------------------
(* The connection of a recipient                                           *)

\* A nonempty set of numbers up to n has a highest one.
LEMMA HasHighest ==
    ASSUME NEW n \in Nat, NEW S, S \subseteq 0..n, S # {}
    PROVE  Highest(S) \in S /\ \A y \in S : y <= Highest(S)
<1> DEFINE above(x) == {k \in S : k >= x}
           T == {above(x) : x \in S}
           R == StrictSubsetOrdering(0..n)
<1>0. S \subseteq Int
  OBVIOUS
<1>1. T \subseteq FiniteSubsetsOf(0..n) /\ T # {}
  <2>1. IsFiniteSet(0..n)
    BY FS_Interval
  <2>2. \A x \in S : above(x) \in SUBSET (0..n)
    OBVIOUS
  <2>3. \A x \in S : IsFiniteSet(above(x))
    BY <2>1, <2>2, FS_Subset
  <2> QED BY <2>2, <2>3 DEF FiniteSubsetsOf
<1>2. PICK t \in T : \A s \in T : ~ (<<s, t>> \in R)
  <2> HIDE DEF T
  <2>1. IsWellFoundedOn(R, FiniteSubsetsOf(0..n))
    BY FS_StrictSubsetOrderingWellFounded
  <2> HIDE DEF R
  <2> QED BY <1>1, <2>1, WFMin
<1>3. PICK x \in S : t = above(x)
  OBVIOUS
<1>4. ASSUME NEW y \in S, y > x PROVE FALSE
  <2>0. x \in Int /\ y \in Int /\ ~(x >= y) /\ x >= x
    BY <1>0, <1>4
  <2>a. \A k \in S : k >= y => k >= x
    BY <1>0, <1>4, <2>0
  <2>1. above(y) \subseteq above(x) /\ x \in above(x) /\ x \notin above(y)
    BY <2>0, <2>a
  <2>2. above(y) \in SUBSET (0..n) /\ above(x) \in SUBSET (0..n) /\ above(y) \in T
    OBVIOUS
  <2>3. <<above(y), t>> \in R
    BY <2>1, <2>2, <1>3 DEF StrictSubsetOrdering
  <2> QED BY <2>2, <2>3, <1>2
<1>5. \A y \in S : y <= x
  BY <1>0, <1>4
<1> HIDE DEF T, R, above
<1> QED BY <1>5 DEF Highest

\* What is lost is recorded, but for what the client knows.
LEMMA LoseFacts ==
    ASSUME TypeOK, NEW u \in Users, NEW ms \in SUBSET Seqs, Lose(u, ms)
    PROVE  /\ dropped \subseteq dropped' /\ dropped' \subseteq Users \X Seqs
           /\ \A m \in ms : wm[u] >= m \/ <<u, m>> \in dropped'
<1>1. /\ dropped' = dropped \cup {<<u, m>> : m \in {n \in ms : n > wm[u]}}
      /\ dropped \subseteq Users \X Seqs /\ wm[u] \in Int /\ ms \subseteq Int
  BY DeliveryAssumption DEF Lose, TypeOK, Seqs
<1>2. dropped \subseteq dropped' /\ dropped' \subseteq Users \X Seqs
  BY <1>1
<1>3. \A m \in ms : m > wm[u] => <<u, m>> \in dropped'
  BY <1>1
<1>4. \A m \in ms : wm[u] >= m \/ m > wm[u]
  BY <1>1
<1> QED BY <1>2, <1>3, <1>4

\* A push leaves the frames that are in flight, and a delivered one is a frame
\* of a connection that is up.
LEMMA PushFacts ==
    ASSUME TypeOK, NEW u \in Users, NEW m \in Seqs, NEW delivered \in BOOLEAN, Push(u, m, delivered)
    PROVE  /\ wire' \in [Users -> Seq(Seqs)]
           /\ \A v \in Users : \A i \in 1..Len(wire[v]) :
                i \in 1..Len(wire'[v]) /\ wire'[v][i] = wire[v][i]
           /\ delivered /\ link[u] = "up" => \E i \in 1..Len(wire'[u]) : wire'[u][i] >= m
<1>0. wire \in [Users -> Seq(Seqs)] /\ m \in Int
  BY DeliveryAssumption DEF TypeOK, Seqs
<1>1. wire' = wire \/ wire' = [wire EXCEPT ![u] = Append(@, m)]
  BY DEF Push, NoFault
<1>2. delivered /\ link[u] = "up" => wire' = [wire EXCEPT ![u] = Append(@, m)]
  BY DEF Push
<1>3. CASE wire' = wire
  <2>1. delivered /\ link[u] = "up" => Len(Append(wire[u], m)) = Len(wire[u])
    BY <1>0, <1>2, <1>3
  <2>2. Len(Append(wire[u], m)) = Len(wire[u]) + 1 /\ Len(wire[u]) \in Nat
    BY <1>0
  <2>3. ~(delivered /\ link[u] = "up")
    BY <2>1, <2>2
  <2> QED BY <1>0, <1>3, <2>3
<1>4. CASE wire' = [wire EXCEPT ![u] = Append(@, m)]
  <2>1. wire[u] \in Seq(Seqs) /\ Append(wire[u], m) \in Seq(Seqs) /\ Len(wire[u]) \in Nat
    BY <1>0
  <2>2. wire' \in [Users -> Seq(Seqs)]
    BY <1>0, <1>4, <2>1
  <2>3. wire'[u] = Append(wire[u], m) /\ \A v \in Users \ {u} : wire'[v] = wire[v]
    BY <1>0, <1>4
  <2>4. /\ \A i \in 1..Len(wire[u]) : i \in 1..Len(wire'[u]) /\ wire'[u][i] = wire[u][i]
        /\ Len(wire[u]) + 1 \in 1..Len(wire'[u]) /\ wire'[u][Len(wire[u]) + 1] = m
    BY <2>1, <2>3
  <2>5. \E i \in 1..Len(wire'[u]) : wire'[u][i] >= m
    BY <1>0, <2>4
  <2> QED BY <2>2, <2>3, <2>4, <2>5
<1> QED BY <1>1, <1>3, <1>4

\* What a push makes of what a client has seen
LEMMA PushSeen ==
    ASSUME TypeOK, NEW u \in Users, NEW m \in Seqs, NEW delivered \in BOOLEAN, Push(u, m, delivered), wm' = wm
    PROVE  /\ \A v \in Users, n \in Seqs : Seen(v, n) => Seen(v, n)'
           /\ delivered /\ link[u] = "up" => Seen(u, m)'
<1>1. /\ \A v \in Users : \A i \in 1..Len(wire[v]) :
           i \in 1..Len(wire'[v]) /\ wire'[v][i] = wire[v][i]
      /\ delivered /\ link[u] = "up" => \E i \in 1..Len(wire'[u]) : wire'[u][i] >= m
  BY PushFacts
<1>2. ASSUME NEW v \in Users, NEW n \in Seqs, Seen(v, n) PROVE Seen(v, n)'
  <2>1. CASE wm[v] >= n
    BY <2>1 DEF Seen
  <2>2. ASSUME NEW i \in 1..Len(wire[v]), wire[v][i] >= n PROVE Seen(v, n)'
    <3>1. i \in 1..Len(wire'[v]) /\ wire'[v][i] >= n
      BY <1>1, <2>2
    <3> QED BY <3>1 DEF Seen
  <2> QED BY <1>2, <2>1, <2>2 DEF Seen
<1> QED BY <1>1, <1>2 DEF Seen

\* The pushes of a step
LEMMA Pushes ==
    ASSUME TypeOK, WorkOK,
           \/ \E p \in Procs : (\E u \in Users : PushMember(p, u)) \/ (\E k \in Keys : FireAlive(p, k))
           \/ \E u \in Users, m \in Seqs : Repush(u, m)
    PROVE  /\ link' = link /\ wm' = wm
           /\ \E u \in Users, m \in Seqs, delivered \in BOOLEAN : Push(u, m, delivered)
<1>1. ASSUME NEW p \in Procs, NEW u \in Users, PushMember(p, u)
      PROVE  /\ link' = link /\ wm' = wm
             /\ \E m \in Seqs, delivered \in BOOLEAN : Push(u, m, delivered)
  <2>1. work[p].m \in Seqs
    BY <1>1 DEF PushMember, WorkOK, Sent
  <2> QED BY <1>1, <2>1 DEF PushMember
<1>2. ASSUME NEW p \in Procs, NEW k \in Keys, FireAlive(p, k)
      PROVE  /\ link' = link /\ wm' = wm
             /\ k.u \in Users /\ k.m \in Seqs /\ \E delivered \in BOOLEAN : Push(k.u, k.m, delivered)
  BY <1>2, KeyFacts DEF FireAlive
<1>3. ASSUME NEW u \in Users, NEW m \in Seqs, Repush(u, m)
      PROVE  link' = link /\ wm' = wm /\ \E delivered \in BOOLEAN : Push(u, m, delivered)
  BY <1>3 DEF Repush
<1> QED BY <1>1, <1>2, <1>3

\* The types are kept.  A client that is connected after a step has seen what
\* it had seen before, or all that is committed, or what it lacks is dropped.
LEMMA NetFacts ==
    ASSUME TypeOK, WorkOK, NetBy
    PROVE  /\ link' \in [Users -> {"up", "half", "down"}] /\ wire' \in [Users -> Seq(Seqs)]
           /\ wm' \in [Users -> 0..MaxSeq]
           /\ \A u \in Users, m \in Sent : link'[u] = "up" =>
                Seen(u, m)' \/ <<u, m>> \in dropped' \/ (link[u] = "up" /\ ~Seen(u, m))
<1> DEFINE Goal == /\ link' \in [Users -> {"up", "half", "down"}] /\ wire' \in [Users -> Seq(Seqs)]
                   /\ wm' \in [Users -> 0..MaxSeq]
                   /\ \A u \in Users, m \in Sent : link'[u] = "up" =>
                        Seen(u, m)' \/ <<u, m>> \in dropped' \/ (link[u] = "up" /\ ~Seen(u, m))
<1>0. /\ link \in [Users -> {"up", "half", "down"}] /\ wire \in [Users -> Seq(Seqs)]
      /\ wm \in [Users -> 0..MaxSeq] /\ MaxSeq \in Nat /\ Sent \subseteq 1..MaxSeq /\ Seqs = 1..MaxSeq
  BY DeliveryAssumption DEF TypeOK, Sent, Seqs
<1>1. CASE link' = link /\ wire' = wire /\ wm' = wm
  <2>1. \A u \in Users, m \in Sent : Seen(u, m)' <=> Seen(u, m)
    BY <1>1 DEF Seen
  <2> QED BY <1>0, <1>1, <2>1
<1>2. CASE \/ \E p \in Procs : (\E u \in Users : PushMember(p, u)) \/ (\E k \in Keys : FireAlive(p, k))
           \/ \E u \in Users, m \in Seqs : Repush(u, m)
  <2>1. link' = link /\ wm' = wm
    BY <1>2, Pushes
  <2>2. PICK u \in Users, m \in Seqs, delivered \in BOOLEAN : Push(u, m, delivered)
    BY <1>2, Pushes
  <2>3. wire' \in [Users -> Seq(Seqs)]
    BY <2>2, PushFacts
  <2>4. \A v \in Users, n \in Seqs : Seen(v, n) => Seen(v, n)'
    BY <2>1, <2>2, PushSeen
  <2> QED BY <1>0, <2>1, <2>3, <2>4
<1>3. ASSUME NEW u \in Users, Receive(u) PROVE Goal
  <2> DEFINE h == Head(wire[u])
  <2>1. wire[u] \in Seq(Seqs) /\ wire[u] # <<>>
    BY <1>0, <1>3 DEF Receive
  <2>2. /\ h \in Seqs /\ Tail(wire[u]) \in Seq(Seqs) /\ Len(Tail(wire[u])) = Len(wire[u]) - 1
        /\ Len(wire[u]) \in Nat /\ h = wire[u][1]
        /\ \A i \in 1..(Len(wire[u]) - 1) : Tail(wire[u])[i] = wire[u][i + 1]
    BY <2>1
  <2>3. link' = link /\ wire' = [wire EXCEPT ![u] = Tail(@)]
    BY <1>3 DEF Receive
  <2>4. (h > wm[u] /\ wm' = [wm EXCEPT ![u] = h]) \/ (~(h > wm[u]) /\ wm' = wm)
    BY <1>3 DEF Receive
  <2>5. wire' \in [Users -> Seq(Seqs)] /\ wire'[u] = Tail(wire[u]) /\ \A v \in Users \ {u} : wire'[v] = wire[v]
    BY <1>0, <2>2, <2>3
  <2> HIDE DEF h
  <2>h. h \in 0..MaxSeq /\ \A v \in Users : wm[v] \in Nat
    BY <1>0, <2>2
  <2>6. wm' \in [Users -> 0..MaxSeq] /\ wm'[u] >= h /\ \A v \in Users : wm'[v] >= wm[v]
    <3>1. CASE h > wm[u] /\ wm' = [wm EXCEPT ![u] = h]
      <4>1. wm' \in [Users -> 0..MaxSeq]
        BY <1>0, <2>h, <3>1
      <4>2. \A v \in Users : wm'[v] = IF v = u THEN h ELSE wm[v]
        BY <1>0, <3>1
      <4> QED BY <2>h, <3>1, <4>1, <4>2
    <3>2. CASE ~(h > wm[u]) /\ wm' = wm
      BY <1>0, <2>h, <3>2
    <3> QED BY <2>4, <3>1, <3>2
  <2>7. ASSUME NEW v \in Users, NEW m \in Sent, Seen(v, m) PROVE Seen(v, m)'
    <3>0. m \in Nat /\ wm[v] \in Nat /\ wm'[v] \in Nat
      BY <1>0, <2>6
    <3>1. CASE wm[v] >= m
      BY <2>6, <3>0, <3>1 DEF Seen
    <3>2. ASSUME NEW i \in 1..Len(wire[v]), wire[v][i] >= m PROVE Seen(v, m)'
      <4>1. CASE v # u
        BY <2>5, <3>2, <4>1 DEF Seen
      <4>2. CASE v = u /\ i = 1
        BY <2>2, <2>6, <3>0, <3>2, <4>2, <1>0 DEF Seen
      <4>3. CASE v = u /\ i # 1
        <5>1. i - 1 \in 1..(Len(wire[u]) - 1) /\ (i - 1) + 1 = i
          BY <2>2, <4>3
        <5>2. i - 1 \in 1..Len(wire'[u]) /\ wire'[u][i - 1] = wire[u][i]
          BY <2>2, <2>5, <5>1
        <5> QED BY <3>2, <4>3, <5>2 DEF Seen
      <4> QED BY <4>1, <4>2, <4>3
    <3> QED BY <2>7, <3>1, <3>2 DEF Seen
  <2> QED BY <1>0, <2>3, <2>5, <2>6, <2>7
<1>4. ASSUME NEW u \in Users, Break(u) \/ Sweep(u) PROVE Goal
  <2>1. /\ link' \in [Users -> {"up", "half", "down"}] /\ link'[u] # "up"
        /\ \A v \in Users \ {u} : link'[v] = link[v]
    BY <1>0, <1>4 DEF Break, Sweep
  <2>2. wm' = wm
    BY <1>4 DEF Break, Sweep, net
  <2>3. wire' = [wire EXCEPT ![u] = <<>>] \/ wire' = wire
    BY <1>4 DEF Break, Sweep
  <2>e. <<>> \in Seq(Seqs)
    OBVIOUS
  <2>4. wire' \in [Users -> Seq(Seqs)] /\ \A v \in Users \ {u} : wire'[v] = wire[v]
    BY <1>0, <2>3, <2>e
  <2>5. \A v \in Users \ {u}, m \in Sent : Seen(v, m)' <=> Seen(v, m)
    BY <2>2, <2>4 DEF Seen
  <2> QED BY <1>0, <2>1, <2>2, <2>4, <2>5
<1>5. ASSUME NEW u \in Users, Reconnect(u), wm' = [wm EXCEPT ![u] = Highest(Synced(u) \cup {@})]
      PROVE  Goal
  <2> DEFINE S == Synced(u) \cup {wm[u]}
  <2>1. link' = [link EXCEPT ![u] = "up"] /\ wm' = [wm EXCEPT ![u] = Highest(S)] /\ wire' = wire
    BY <1>5 DEF Reconnect
  <2>s. wm[u] \in 0..MaxSeq /\ Sent \subseteq 0..MaxSeq
    BY <1>0
  <2>2. S \subseteq 0..MaxSeq /\ S # {} /\ wm[u] \in S
    BY <2>s DEF Synced
  <2>3. Highest(S) \in S /\ \A n \in S : n <= Highest(S)
    BY <1>0, <2>2, HasHighest
  <2>4. \A n \in Sent : n <= Highest(S)
    <3> SUFFICES ASSUME NEW n \in Sent PROVE n <= Highest(S)
      OBVIOUS
    <3>a. n \in 0..MaxSeq /\ wm[u] \in 0..MaxSeq
      BY <2>s
    <3>b. Highest(S) \in 0..MaxSeq /\ wm[u] <= Highest(S)
      BY <2>2, <2>3
    <3>0. n \in Nat /\ wm[u] \in Nat /\ Highest(S) \in Nat /\ wm[u] <= Highest(S)
      BY <1>0, <3>a, <3>b
    <3>1. CASE n > wm[u]
      <4>1. n \in S
        BY <3>1 DEF Synced
      <4> QED BY <2>3, <4>1
    <3>2. CASE ~(n > wm[u])
      BY <3>0, <3>2
    <3> QED BY <3>1, <3>2
  <2> HIDE DEF S
  <2>5. link' \in [Users -> {"up", "half", "down"}] /\ \A v \in Users \ {u} : link'[v] = link[v]
    BY <1>0, <2>1
  <2>6. /\ wm' \in [Users -> 0..MaxSeq] /\ \A v \in Users \ {u} : wm'[v] = wm[v]
        /\ wm'[u] = Highest(S) /\ Highest(S) \in Nat
    <3>1. Highest(S) \in 0..MaxSeq
      BY <2>2, <2>3
    <3> QED BY <1>0, <2>1, <3>1
  <2>7. \A n \in Sent : Seen(u, n)'
    BY <1>0, <2>4, <2>6 DEF Seen
  <2>8. \A v \in Users \ {u}, m \in Sent : Seen(v, m)' <=> Seen(v, m)
    BY <2>1, <2>6 DEF Seen
  <2> QED BY <1>0, <2>1, <2>5, <2>6, <2>7, <2>8
<1>6. ASSUME NEW u \in Users, Reconnect(u), Lose(u, Sent), wm' = wm PROVE Goal
  <2>1. link' = [link EXCEPT ![u] = "up"] /\ wire' = wire
    BY <1>6 DEF Reconnect
  <2>2. link' \in [Users -> {"up", "half", "down"}] /\ \A v \in Users \ {u} : link'[v] = link[v]
    BY <1>0, <2>1
  <2>3. \A v \in Users, m \in Sent : Seen(v, m)' <=> Seen(v, m)
    BY <1>6, <2>1 DEF Seen
  <2>4. \A m \in Sent : Seen(u, m) \/ <<u, m>> \in dropped'
    <3>1. \A m \in Sent : m \in Seqs /\ (wm[u] >= m \/ <<u, m>> \in dropped')
      <4>1. Sent \subseteq Seqs
        BY DEF Sent
      <4> QED BY <1>6, <4>1, LoseFacts
    <3> QED BY <3>1 DEF Seen
  <2> QED BY <1>0, <1>6, <2>1, <2>2, <2>3, <2>4
<1>7. ASSUME NEW u \in Users, Reconnect(u) PROVE Goal
  <2> HIDE DEF Goal
  <2> QED BY <1>5, <1>6, <1>7 DEF Reconnect
<1> QED BY <1>1, <1>2, <1>3, <1>4, <1>7 DEF NetBy

-----------------------------------------------------------------------------
(* The offline box                                                         *)

\* A row is inserted or its loss is remembered; rows that are there stay.
LEMMA WriteFacts ==
    ASSUME TypeOK, NEW u \in Users, NEW m \in Seqs, WriteBox(u, m)
    PROVE  /\ box' \in [Users \X Seqs -> {"none", "open", "done"}] /\ dropped' \subseteq Users \X Seqs
           /\ dropped \subseteq dropped'
           /\ \A d \in Users \X Seqs : box'[d] = box[d] \/ (d = <<u, m>> /\ box'[d] = "open")
           /\ box'[<<u, m>>] # "none" \/ wm[u] >= m \/ <<u, m>> \in dropped'
<1>0. /\ box \in [Users \X Seqs -> {"none", "open", "done"}] /\ dropped \subseteq Users \X Seqs
      /\ <<u, m>> \in Users \X Seqs
  BY DEF TypeOK
<1>1. CASE box' = Insert(u, m) /\ dropped' = dropped
  <2>1. CASE box[<<u, m>>] = "none"
    <3>1. box' = [box EXCEPT ![<<u, m>>] = "open"]
      BY <1>1, <2>1 DEF Insert
    <3> QED BY <1>0, <1>1, <3>1
  <2>2. CASE box[<<u, m>>] # "none"
    BY <1>0, <1>1, <2>2 DEF Insert
  <2> QED BY <2>1, <2>2
<1>2. CASE box' = box /\ Lose(u, {m})
  BY <1>0, <1>2, LoseFacts
<1> QED BY <1>1, <1>2 DEF WriteBox

\* A row is opened for a committed message and closed by a delivered push, or
\* dropped.
LEMMA BoxFacts ==
    ASSUME TypeOK, WorkOK, OnlySent, BoxOK, BoxBy
    PROVE  /\ box' \in [Users \X Seqs -> {"none", "open", "done"}]
           /\ \A u \in Users, m \in Seqs :
                \/ box'[<<u, m>>] = box[<<u, m>>]
                \/ box'[<<u, m>>] = "open" /\ m \in Sent
                \/ m \in Sent /\ link' = link /\ (link[u] = "up" => Seen(u, m)' \/ <<u, m>> \in dropped')
<1> DEFINE Goal == /\ box' \in [Users \X Seqs -> {"none", "open", "done"}]
                   /\ \A u \in Users, m \in Seqs :
                        \/ box'[<<u, m>>] = box[<<u, m>>]
                        \/ box'[<<u, m>>] = "open" /\ m \in Sent
                        \/ /\ m \in Sent /\ link' = link
                           /\ link[u] = "up" => Seen(u, m)' \/ <<u, m>> \in dropped'
<1>0. /\ box \in [Users \X Seqs -> {"none", "open", "done"}] /\ dropped \subseteq Users \X Seqs
      /\ Sent \subseteq Seqs
  BY DEF TypeOK, Sent
<1>1. ASSUME box' = box PROVE Goal
  BY <1>0, <1>1
<1>w. ASSUME NEW u \in Users, NEW m \in Sent, WriteBox(u, m) PROVE Goal
  <2>1. m \in Seqs
    BY <1>0
  <2>2. /\ box' \in [Users \X Seqs -> {"none", "open", "done"}]
        /\ \A d \in Users \X Seqs : box'[d] = box[d] \/ (d = <<u, m>> /\ box'[d] = "open")
    BY <1>w, <2>1, WriteFacts
  <2>3. ASSUME NEW v \in Users, NEW n \in Seqs, box'[<<v, n>>] # box[<<v, n>>]
        PROVE  box'[<<v, n>>] = "open" /\ n \in Sent
    <3>1. <<v, n>> \in Users \X Seqs
      OBVIOUS
    <3>2. <<v, n>> = <<u, m>> /\ box'[<<v, n>>] = "open"
      BY <2>2, <2>3, <3>1
    <3> QED BY <3>2
  <2> QED BY <2>2, <2>3
<1>2. ASSUME NEW p \in Procs, BoxMember(p) PROVE Goal
  <2>1. work[p].m \in Sent /\ work[p].u \in Users /\ WriteBox(work[p].u, work[p].m)
    BY <1>2 DEF BoxMember, WorkOK
  <2> HIDE DEF Goal
  <2> QED BY <2>1, <1>w
<1>3. ASSUME NEW p \in Procs, NEW k \in Keys, Exhaust(p, k) PROVE Goal
  <2>1. k.m \in Sent /\ k.u \in Users /\ WriteBox(k.u, k.m)
    BY <1>3, KeyFacts DEF Exhaust, OnlySent
  <2> HIDE DEF Goal
  <2> QED BY <2>1, <1>w
<1>4. ASSUME NEW u \in Users, NEW m \in Seqs, Repush(u, m) PROVE Goal
  <2>1. PICK delivered \in BOOLEAN :
          /\ Push(u, m, delivered)
          /\ box' = IF delivered THEN [box EXCEPT ![<<u, m>>] = "done"] ELSE box
    BY <1>4 DEF Repush
  <2>2. link' = link /\ wm' = wm /\ box[<<u, m>>] = "open"
    BY <1>4 DEF Repush
  <2>3. m \in Sent /\ (delivered /\ link[u] = "up" => Seen(u, m)')
    BY <2>1, <2>2, PushSeen DEF OnlySent
  <2>4. CASE delivered
    <3>1. box' = [box EXCEPT ![<<u, m>>] = "done"]
      BY <2>1, <2>4
    <3>2. box' \in [Users \X Seqs -> {"none", "open", "done"}]
      BY <1>0, <3>1
    <3>3. ASSUME NEW v \in Users, NEW n \in Seqs, box'[<<v, n>>] # box[<<v, n>>] PROVE v = u /\ n = m
      <4>1. <<v, n>> \in Users \X Seqs
        OBVIOUS
      <4>2. <<v, n>> = <<u, m>>
        BY <1>0, <3>1, <3>3, <4>1
      <4> QED BY <4>2
    <3> QED BY <1>0, <2>2, <2>3, <2>4, <3>2, <3>3
  <2>5. CASE ~delivered
    BY <1>0, <2>1, <2>2, <2>5
  <2> QED BY <2>4, <2>5
<1>5. ASSUME NEW u \in Users, NEW m \in Seqs, GiveUp(u, m) PROVE Goal
  <2>1. /\ box[<<u, m>>] = "open" /\ box' = [box EXCEPT ![<<u, m>>] = "done"]
        /\ Lose(u, {m}) /\ link' = link /\ wire' = wire /\ wm' = wm
    BY <1>5 DEF GiveUp, net
  <2>2. m \in Sent /\ (wm[u] >= m \/ <<u, m>> \in dropped')
    BY <2>1, LoseFacts DEF OnlySent
  <2>3. Seen(u, m)' \/ <<u, m>> \in dropped'
    BY <2>1, <2>2 DEF Seen
  <2>4. box' \in [Users \X Seqs -> {"none", "open", "done"}]
    BY <1>0, <2>1
  <2>5. ASSUME NEW v \in Users, NEW n \in Seqs, box'[<<v, n>>] # box[<<v, n>>] PROVE v = u /\ n = m
    <3>1. <<v, n>> \in Users \X Seqs
      OBVIOUS
    <3>2. <<v, n>> = <<u, m>>
      BY <1>0, <2>1, <2>5, <3>1
    <3> QED BY <3>2
  <2> QED BY <2>1, <2>2, <2>3, <2>4, <2>5
<1> HIDE DEF Goal
<1>6. Goal
  <2>1. CASE \E p \in Procs : BoxMember(p) \/ (\E k \in Keys : Exhaust(p, k))
    BY <1>2, <1>3, <2>1
  <2>2. CASE \E u \in Users, m \in Seqs : Repush(u, m) \/ GiveUp(u, m)
    BY <1>4, <1>5, <2>2
  <2> QED BY <1>1, <2>1, <2>2 DEF BoxBy
<1> QED BY <1>6 DEF Goal

\* What was dropped stays so.
LEMMA DroppedFacts ==
    ASSUME TypeOK, WorkOK, DroppedBy
    PROVE  dropped \subseteq dropped' /\ dropped' \subseteq Users \X Seqs
<1> DEFINE Kept == dropped \subseteq dropped' /\ dropped' \subseteq Users \X Seqs
<1>1. ASSUME dropped' = dropped PROVE Kept
  BY <1>1 DEF TypeOK
<1>2. ASSUME NEW p \in Procs, BoxMember(p) PROVE Kept
  <2>1. work[p].u \in Users /\ work[p].m \in Seqs /\ WriteBox(work[p].u, work[p].m)
    BY <1>2 DEF BoxMember, WorkOK, Sent
  <2> QED BY <2>1, WriteFacts
<1>3. ASSUME NEW p \in Procs, NEW k \in Keys, Exhaust(p, k) PROVE Kept
  <2>1. k.u \in Users /\ k.m \in Seqs /\ WriteBox(k.u, k.m)
    BY <1>3, KeyFacts DEF Exhaust
  <2> QED BY <2>1, WriteFacts
<1>4. ASSUME NEW u \in Users, Reconnect(u) PROVE Kept
  <2>1. dropped' = dropped \/ Lose(u, Sent)
    BY <1>4 DEF Reconnect
  <2>2. Sent \in SUBSET Seqs
    BY DEF Sent
  <2> QED BY <1>1, <2>1, <2>2, LoseFacts
<1>5. ASSUME NEW u \in Users, NEW m \in Seqs, GiveUp(u, m) PROVE Kept
  BY <1>5, LoseFacts DEF GiveUp
<1> HIDE DEF Kept
<1>6. Kept
  <2>1. CASE \E p \in Procs : BoxMember(p) \/ (\E k \in Keys : Exhaust(p, k))
    BY <1>2, <1>3, <2>1
  <2>2. CASE \E u \in Users : Reconnect(u) \/ (\E m \in Seqs : GiveUp(u, m))
    BY <1>4, <1>5, <2>2
  <2> QED BY <1>1, <2>1, <2>2 DEF DroppedBy
<1> QED BY <1>6 DEF Kept

-----------------------------------------------------------------------------
(* Coverage                                                                *)

\* Nothing that a step does uncovers a committed message.
LEMMA CoverStep ==
    ASSUME TypeOK, WorkOK, OnlySent, BoxOK, NetBy, BoxBy, DroppedBy, NEW u \in Users, NEW m \in Sent, Covered(u, m)
    PROVE  Covered(u, m)'
<1>0. m \in Seqs
  BY DEF Sent
<1>1. link'[u] = "up" => Seen(u, m)' \/ <<u, m>> \in dropped' \/ (link[u] = "up" /\ ~Seen(u, m))
  BY NetFacts
<1>2. dropped \subseteq dropped'
  BY DroppedFacts
<1>3. \/ box'[<<u, m>>] = box[<<u, m>>]
      \/ box'[<<u, m>>] = "open"
      \/ link' = link /\ (link[u] = "up" => Seen(u, m)' \/ <<u, m>> \in dropped')
  BY <1>0, BoxFacts
<1> QED BY <1>1, <1>2, <1>3 DEF Covered

\* A closed row stands for a client that has seen its message, or is dropped.
LEMMA BoxStep == ASSUME TypeOK, WorkOK, OnlySent, BoxOK, NetBy, BoxBy, DroppedBy PROVE BoxOK'
<1> SUFFICES ASSUME NEW u \in Users, NEW m \in Seqs, box'[<<u, m>>] = "done", link'[u] = "up"
             PROVE  Seen(u, m)' \/ <<u, m>> \in dropped'
  BY DEF BoxOK
<1>1. \/ box'[<<u, m>>] = box[<<u, m>>]
      \/ m \in Sent /\ link' = link /\ (link[u] = "up" => Seen(u, m)' \/ <<u, m>> \in dropped')
  BY BoxFacts
<1>2. CASE box'[<<u, m>>] = box[<<u, m>>]
  <2>1. m \in Sent
    BY <1>2 DEF OnlySent
  <2>2. Seen(u, m)' \/ <<u, m>> \in dropped' \/ (link[u] = "up" /\ ~Seen(u, m))
    BY <2>1, NetFacts
  <2> QED BY <1>2, <2>2, DroppedFacts DEF BoxOK
<1> QED BY <1>1, <1>2

\* The recipient of a delivered push is covered, and so is the one whose row is
\* written or lost.
LEMMA ServedNow ==
    ASSUME TypeOK, WorkOK, BoxOK, NEW p \in Procs, NEW u \in Users, NEW m \in Seqs, m = work[p].m
    PROVE  /\ PushMember(p, u) /\ work'[p].st # "box" => Covered(u, m)'
           /\ BoxMember(p) /\ u = work[p].u => Covered(u, m)'
<1>1. ASSUME PushMember(p, u), work'[p].st # "box"
      PROVE  Covered(u, m)'
  <2>1. PICK delivered \in BOOLEAN :
          /\ Push(u, m, delivered)
          /\ work' = [work EXCEPT ![p] = [work[p] EXCEPT !.u = u, !.left = @ \ {u},
                                              !.st = IF delivered THEN "register" ELSE "box"]]
    BY <1>1 DEF PushMember
  <2>2. work \in [Procs -> Works]
    BY DEF TypeOK, Works
  <2>3. work'[p].st = IF delivered THEN "register" ELSE "box"
    BY <2>1, <2>2 DEF Works
  <2>4. delivered /\ link' = link /\ wm' = wm
    BY <1>1, <2>3 DEF PushMember
  <2>5. link[u] = "up" => Seen(u, m)'
    BY <2>1, <2>4, PushSeen
  <2> QED BY <2>4, <2>5 DEF Covered
<1>2. ASSUME BoxMember(p), u = work[p].u PROVE Covered(u, m)'
  <2>1. WriteBox(u, m) /\ link' = link /\ wire' = wire /\ wm' = wm
    BY <1>2 DEF BoxMember, net
  <2>2. /\ box'[<<u, m>>] # "none" \/ wm[u] >= m \/ <<u, m>> \in dropped'
        /\ dropped \subseteq dropped'
    BY <2>1, WriteFacts
  <2>3. /\ box'[<<u, m>>] = box[<<u, m>>] \/ box'[<<u, m>>] = "open"
        /\ <<u, m>> \in Users \X Seqs
    BY <2>1, WriteFacts
  <2>4. Seen(u, m)' <=> Seen(u, m)
    BY <2>1 DEF Seen
  <2>5. box[<<u, m>>] \in {"none", "open", "done"}
    BY <2>3 DEF TypeOK
  <2>6. box[<<u, m>>] = "done" /\ link[u] = "up" => Seen(u, m) \/ <<u, m>> \in dropped
    BY DEF BoxOK
  <2>7. wm[u] >= m => Seen(u, m)
    BY DEF Seen
  <2> QED BY <2>1, <2>2, <2>3, <2>4, <2>5, <2>6, <2>7 DEF Covered
<1> QED BY <1>1, <1>2

-----------------------------------------------------------------------------
(* The invariant                                                           *)

\* TypeOK is kept.
LEMMA TypeStep == ASSUME DInv, Frame PROVE TypeOK'
<1>0. TypeOK /\ WorkOK /\ OnlySent /\ BoxOK
  BY DEF DInv
<1>1. local' \in [Seqs -> {"none", "todo", "done"}]
  BY <1>0, LocalFacts DEF Frame
<1>2. box' \in [Users \X Seqs -> {"none", "open", "done"}] /\ dropped' \subseteq Users \X Seqs
  BY <1>0, BoxFacts, DroppedFacts DEF Frame
<1>3. topic' \in Seq(Seqs) /\ next' \in 0..Len(topic') /\ offset' \in 0..next'
  BY <1>0, BusFacts DEF Frame
<1>4. acks' \subseteq [u : Users, m : Seqs]
  BY <1>0, AcksType DEF Frame
<1>5. work' \in [Procs -> [st : {"idle", "fan", "register", "box"}, m : 0..MaxSeq,
                            left : SUBSET Users, u : Users \cup {NoUser}]]
  BY <1>0, WorkFacts DEF Frame, Works
<1>6. batch' \subseteq Seqs
  BY <1>0, BatchFacts DEF Frame, OnlySent, Sent
<1>7. pend' \in [Procs -> SUBSET (Users \X Seqs)] /\ chains' \in [Procs -> [Keys -> Nat]]
  <2>1. /\ \A p \in Procs : ChainMoves(pend[p], chains[p], pend'[p], chains'[p])
        /\ pend' = [p \in Procs |-> pend'[p]] /\ chains' = [p \in Procs |-> chains'[p]]
    BY <1>0, ChainForm DEF Frame
  <2>2. ASSUME NEW p \in Procs
        PROVE  pend'[p] \in SUBSET (Users \X Seqs) /\ chains'[p] \in [Keys -> Nat]
    <3>1. pend[p] \in SUBSET (Users \X Seqs) /\ chains[p] \in [Keys -> Nat]
      BY <1>0 DEF TypeOK
    <3>2. HasTimer(pend[p], chains[p])
      BY DEF DInv, PendingHasTimer, HasTimer
    <3>3. \A k \in Keys : chains[p][k] > 0 => k.m \in Sent
      BY <1>0 DEF OnlySent
    <3>4. ChainMoves(pend[p], chains[p], pend'[p], chains'[p])
      BY <2>1
    <3> QED BY <3>1, <3>2, <3>3, <3>4, MoveFacts
  <2> QED BY <2>1, <2>2
<1>8. marks' \in [Procs -> SUBSET Seqs]
  BY <1>0, MarksFacts DEF Frame
<1>9. link' \in [Users -> {"up", "half", "down"}] /\ wire' \in [Users -> Seq(Seqs)] /\ wm' \in [Users -> 0..MaxSeq]
  BY <1>0, NetFacts DEF Frame
<1>10. faults' \in 0..MaxFaults
  BY <1>0, FaultType DEF Frame
<1> QED BY <1>1, <1>2, <1>3, <1>4, <1>5, <1>6, <1>7, <1>8, <1>9, <1>10 DEF TypeOK

\* Each chain that a step leaves is one of a committed message, and no key is
\* left without one.
LEMMA TimerStep ==
    ASSUME DInv, Frame
    PROVE  PendingHasTimer' /\ \A p \in Procs, k \in Keys : chains'[p][k] > 0 => k.m \in Sent
<1>1. \A p \in Procs : ChainMoves(pend[p], chains[p], pend'[p], chains'[p])
  BY ChainForm DEF Frame, DInv
<1>2. ASSUME NEW p \in Procs
      PROVE  /\ HasTimer(pend'[p], chains'[p])
             /\ \A k \in Keys : chains'[p][k] > 0 => k.m \in Sent
  <2>1. pend[p] \in SUBSET (Users \X Seqs) /\ chains[p] \in [Keys -> Nat]
    BY DEF DInv, TypeOK
  <2>2. HasTimer(pend[p], chains[p])
    BY DEF DInv, PendingHasTimer, HasTimer
  <2>3. \A k \in Keys : chains[p][k] > 0 => k.m \in Sent
    BY DEF DInv, OnlySent
  <2> QED BY <1>1, <2>1, <2>2, <2>3, MoveFacts
<1> QED BY <1>2 DEF PendingHasTimer, HasTimer

\* OnlySent is kept.
LEMMA SentStep == ASSUME DInv, Frame PROVE OnlySent'
<1>0. TypeOK /\ WorkOK /\ OnlySent /\ BoxOK
  BY DEF DInv
<1>1. Sent \subseteq Sent'
  BY <1>0, LocalFacts DEF Frame
<1>2. \A i \in 1..Len(topic') : topic'[i] \in Sent'
  <2>1. \A i \in 1..Len(topic') : (i \in 1..Len(topic) /\ topic'[i] = topic[i]) \/ topic'[i] \in Sent'
    BY <1>0, BusFacts DEF Frame
  <2> QED BY <1>0, <1>1, <2>1 DEF OnlySent
<1>3. batch' \subseteq Sent'
  BY <1>0, <1>1, BatchFacts DEF Frame, OnlySent
<1>4. \A p \in Procs : marks'[p] \subseteq Sent'
  <2>1. /\ marks' \in [Procs -> SUBSET Seqs]
        /\ \A p \in Procs, m \in Seqs : m \in marks'[p] =>
             m \in marks[p] \/ (FanOutDone(p) /\ m = work[p].m)
    BY <1>0, MarksFacts DEF Frame
  <2>2. \A p \in Procs : FanOutDone(p) => work[p].m \in Sent
    BY <1>0 DEF FanOutDone, WorkOK
  <2> QED BY <1>0, <1>1, <2>1, <2>2 DEF OnlySent
<1>5. \A p \in Procs, k \in Keys : chains'[p][k] > 0 => k.m \in Sent'
  BY <1>1, TimerStep
<1>6. \A u \in Users, m \in Seqs : box'[<<u, m>>] # "none" => m \in Sent'
  <2>1. \A u \in Users, m \in Seqs : box'[<<u, m>>] = box[<<u, m>>] \/ m \in Sent
    BY <1>0, BoxFacts DEF Frame
  <2> QED BY <1>0, <1>1, <2>1 DEF OnlySent
<1> QED BY <1>2, <1>3, <1>4, <1>5, <1>6 DEF OnlySent

\* A fan-out has covered the recipients it has served, but the one at hand.
LEMMA ServedStep == ASSUME DInv, Frame PROVE Served'
<1>0. TypeOK /\ WorkOK /\ OnlySent /\ BoxOK /\ NetBy /\ BoxBy /\ DroppedBy
  BY DEF DInv, Frame
<1> SUFFICES ASSUME NEW p \in Procs, work'[p].st # "idle", NEW u \in Users, u \notin work'[p].left,
                    ~(work'[p].st = "box" /\ u = work'[p].u)
             PROVE  Covered(u, work[p].m)'
  BY DEF Served
<1>1. WorkMoves(p, work[p], work'[p])
  BY <1>0, WorkFacts DEF Frame
<1>2. PICK m \in Sent : m = work'[p].m
  <2>1. work'[p].m \in Sent
    BY <1>0, <1>1 DEF WorkMoves, WorkOK, Idle, BoxMember
  <2> QED BY <2>1
<1>3. Covered(u, m)'
  <2>0. m \in Seqs
    BY DEF Sent
  <2>1. Covered(u, m) => Covered(u, m)'
    BY <1>0, CoverStep
  <2>2. /\ m = work[p].m /\ PushMember(p, u) /\ work'[p].st # "box" => Covered(u, m)'
        /\ m = work[p].m /\ BoxMember(p) /\ u = work[p].u => Covered(u, m)'
    BY <1>0, <2>0, ServedNow
  <2>3. /\ work[p].st # "idle" /\ m = work[p].m /\ u \notin work[p].left
        /\ ~(work[p].st = "box" /\ u = work[p].u)
        => Covered(u, m)
    BY DEF DInv, Served
  <2>4. CASE work'[p] = work[p]
    BY <1>2, <2>1, <2>3, <2>4
  <2>5. CASE work'[p].left = Users
    BY <2>5
  <2>6. CASE /\ work[p].st = "fan" /\ work'[p].m = work[p].m
             /\ work'[p].left = work[p].left \ {work'[p].u} /\ PushMember(p, work'[p].u)
             /\ work'[p].st \in {"register", "box"}
    BY <1>2, <2>1, <2>2, <2>3, <2>6
  <2>7. CASE /\ work'[p].m = work[p].m /\ work'[p].left = work[p].left
             /\ work[p].st = "register" \/ BoxMember(p)
    <3>1. BoxMember(p) => work[p].st = "box"
      BY DEF BoxMember
    <3> QED BY <1>2, <2>1, <2>2, <2>3, <2>7, <3>1
  <2>8. work'[p] # Idle
    BY DEF Idle
  <2> QED BY <1>1, <2>4, <2>5, <2>6, <2>7, <2>8 DEF WorkMoves
<1> QED BY <1>2, <1>3 DEF Covered, Seen

\* What is marked, and then what is closed, was served to every recipient.
LEMMA MarkStep == ASSUME DInv, Frame PROVE MarkedOK' /\ ClosedOK'
<1>0. TypeOK /\ WorkOK /\ OnlySent /\ BoxOK /\ NetBy /\ BoxBy /\ DroppedBy
  BY DEF DInv, Frame
<1>1. \A u \in Users, m \in Sent : Covered(u, m) => Covered(u, m)'
  BY <1>0, CoverStep
<1>2. ASSUME NEW p \in Procs, NEW m \in marks'[p], NEW u \in Users PROVE Covered(u, m)'
  <2>0. m \in Seqs
    BY <1>0, MarksFacts DEF Frame
  <2>1. m \in marks[p] \/ (FanOutDone(p) /\ m = work[p].m)
    BY <1>0, <2>0, MarksFacts DEF Frame
  <2>2. m \in Sent
    BY <1>0, <2>1 DEF OnlySent, WorkOK, FanOutDone
  <2>3. Covered(u, m)
    <3>1. CASE m \in marks[p]
      BY <3>1 DEF DInv, MarkedOK
    <3>2. CASE FanOutDone(p) /\ m = work[p].m
      BY <3>2 DEF DInv, Served, FanOutDone
    <3> QED BY <2>1, <3>1, <3>2
  <2> QED BY <1>1, <2>2, <2>3
<1>3. ASSUME NEW m \in Seqs, NEW u \in Users, local'[m] = "done" PROVE Covered(u, m)'
  <2>1. local[m] = "done" \/ \E p \in Procs : m \in marks[p]
    BY <1>0, <1>3, LocalFacts DEF Frame
  <2>2. m \in Sent
    BY <1>0, <2>1 DEF OnlySent, Sent
  <2>3. Covered(u, m)
    BY <2>1 DEF DInv, MarkedOK, ClosedOK
  <2> QED BY <1>1, <2>2, <2>3
<1> QED BY <1>2, <1>3 DEF MarkedOK, ClosedOK

\* DInv holds of the first state.
LEMMA DInit == Init => DInv
<1> SUFFICES ASSUME Init PROVE DInv
  OBVIOUS
<1>1. \A p \in Procs : work[p].st = "idle" /\ marks[p] = {} /\ pend[p] = {} /\ chains[p] = NoChains
  BY DEF Init, Idle
<1>2. topic = <<>> /\ Len(topic) = 0 /\ batch = {} /\ \A m \in Seqs : local[m] = "none"
  BY DEF Init
<1>3. \A d \in Users \X Seqs : box[d] = "none"
  BY DEF Init
<1>4. TypeOK
  <2>1. <<>> \in Seq(Seqs) /\ 0 \in 0..MaxSeq /\ 0 \in 0..MaxFaults /\ 0 \in 0..0
    BY DeliveryAssumption
  <2>2. Idle \in Works
    BY DeliveryAssumption DEF Idle, Works
  <2>3. NoChains \in [Keys -> Nat]
    BY DEF NoChains
  <2>4. work \in [Procs -> Works]
    BY <2>2 DEF Init
  <2>5. /\ local \in [Seqs -> {"none", "todo", "done"}]
        /\ box \in [Users \X Seqs -> {"none", "open", "done"}]
        /\ pend \in [Procs -> SUBSET (Users \X Seqs)]
        /\ marks \in [Procs -> SUBSET Seqs]
        /\ link \in [Users -> {"up", "half", "down"}]
    BY DEF Init
  <2>6. chains \in [Procs -> [Keys -> Nat]] /\ wire \in [Users -> Seq(Seqs)] /\ wm \in [Users -> 0..MaxSeq]
    BY <2>1, <2>3 DEF Init
  <2>7. topic \in Seq(Seqs) /\ next \in 0..Len(topic) /\ offset \in 0..next /\ faults \in 0..MaxFaults
    BY <1>2, <2>1 DEF Init
  <2>8. acks = {} /\ batch = {} /\ dropped = {}
    BY DEF Init
  <2> QED BY <2>4, <2>5, <2>6, <2>7, <2>8 DEF TypeOK, Works
<1>5. WorkOK /\ Served
  BY <1>1 DEF WorkOK, Served
<1>6. OnlySent
  BY <1>1, <1>2, <1>3 DEF OnlySent, NoChains
<1>7. BoxOK
  BY <1>3 DEF BoxOK
<1>8. MarkedOK /\ ClosedOK /\ PendingHasTimer
  BY <1>1, <1>2 DEF MarkedOK, ClosedOK, PendingHasTimer
<1> QED BY <1>4, <1>5, <1>6, <1>7, <1>8 DEF DInv

\* Every step keeps DInv.
LEMMA DStep == ASSUME DInv, [Next]_vars PROVE DInv'
<1>1. CASE Next
  <2>1. Frame
    BY <1>1, StepFrame
  <2>2. TypeOK' /\ OnlySent' /\ Served' /\ MarkedOK' /\ ClosedOK' /\ PendingHasTimer'
    BY <2>1, TypeStep, SentStep, ServedStep, MarkStep, TimerStep
  <2>3. WorkOK' /\ BoxOK'
    BY <2>1, WorkStep, BoxStep DEF DInv, Frame
  <2> QED BY <2>2, <2>3 DEF DInv
<1>2. CASE UNCHANGED vars
  <2>1. UNCHANGED <<local, topic, next, offset, work, batch, pend, chains, marks, box, acks, link, wire, wm,
                    faults, dropped>>
    BY <1>2 DEF vars, db, bus, mem, net
  <2>2. Frame
    BY <2>1 DEF Frame, LocalBy, TopicBy, NextBy, AcksBy, WorkBy, BatchBy, ChainsBy, MarksBy, BoxBy,
                DroppedBy, NetBy, FaultBy, NoFault
  <2>3. TypeOK' /\ OnlySent' /\ Served' /\ MarkedOK' /\ ClosedOK' /\ PendingHasTimer'
    BY <2>2, TypeStep, SentStep, ServedStep, MarkStep, TimerStep
  <2>4. WorkOK' /\ BoxOK'
    BY <2>2, WorkStep, BoxStep DEF DInv, Frame
  <2> QED BY <2>3, <2>4 DEF DInv
<1> QED BY <1>1, <1>2

\* A message that is marked as delivered (status = 1, never scanned again) is
\* known to each connected client, on its way to it, or open in its offline
\* box, unless it was dropped in one of three ways (the row of the box could
\* not be written, or expired unpushed, or a SYNC failed): however pushes,
\* retries, scans, rebalances, crashes and reconnections interleave.
THEOREM Closed == Spec => []ClosedIsCovered
<1>1. Init => DInv
  BY DInit
<1>2. DInv /\ [Next]_vars => DInv'
  BY DStep
<1>3. DInv => ClosedIsCovered
  BY DEF DInv, ClosedOK, ClosedIsCovered, Covered, Seen
<1> QED BY <1>1, <1>2, <1>3, PTL DEF Spec

\* The state keeps its types: consumers, timers, pushes, boxes, connections and
\* the history.
THEOREM TypeCorrect == Spec => []TypeOK
<1>1. Init => DInv
  BY DInit
<1>2. DInv /\ [Next]_vars => DInv'
  BY DStep
<1>3. DInv => TypeOK
  BY DEF DInv
<1> QED BY <1>1, <1>2, <1>3, PTL DEF Spec

\* No key of the registry of unacknowledged pushes is left without a timer or a
\* push that would remove it.
THEOREM Timed == Spec => []PendingHasTimer
<1>1. Init => DInv
  BY DInit
<1>2. DInv /\ [Next]_vars => DInv'
  BY DStep
<1>3. DInv => PendingHasTimer
  BY DEF DInv
<1> QED BY <1>1, <1>2, <1>3, PTL DEF Spec
=============================================================================
