# A verification development for YIM

YIM is an instant-messaging back end: a client writes a message over a comet
connection, the message service stores it once and gives it a sequence number
in its conversation, a delivery layer tells every recipient that there is
something new, and clients pull what they miss. This directory holds TLA+
modules of its core, the TLC configurations that check them, and theorems with
proofs for TLAPS.

    tlc -workers 2 -config SeqAllocator.cfg MCSeqAllocator     # a run
    tlapm SeqAllocatorProofs.tla                               # a proof

`PROJECT.json` lists components, runs, the source lines that each definition
stands for, hazards, findings and theorems.

## 1. Inventory

State is what survives an operation. "Hard" names what makes the part hard to
test; "correct" names what it should guarantee. Parts marked (m) are modelled,
(p) partly, the others not yet or not at all (section 9).

| part | state | operations | hard | correct |
|---|---|---|---|---|
| Seq Svc (m) `internal/seq`, `cmd/yim-seq` | `seq_segment.max_id` in MySQL; per key two segments, a mutex, a watermark; the pool | Next, Current, Peek, refillAsync, swapSync, Pool.For | lock-free take against swap; two first users; commit whose answer is lost; restart | a number once; monotone in real time; calls return unless a load hangs |
| Number prefetch (m) `message/service.go` | a block of msg_ids, a map of blocks per conversation | msgIDAlloc.Alloc, convSeqAlloc.Alloc | several instances, refill that times out, map cleared, crash | no seq twice; monotone per instance |
| SendMessage (p) `message/service.go`, `cache.go` | message and local_message rows, unique key, idempotency mark in Redis, Bloom filter | SendMessage | racing retries on two instances; failure at each step; lost commit; Redis absent | one stored message per client id; all attempts told the same ids |
| markBatcher (m) `message/delivery.go` | bucket and timer flag per shard | add, flush | timers, full buckets and flushes overlap after the unlock | no mark stranded; nothing marked that was not added |
| Deliverer (p) `message/delivery.go` | pendingAcks, retry closures, offline_box rows | Deliver, AckPush, retryFire | ACK against retry; crash between mark and ACK; partial fan-out | a closed message is known, on its way, boxed or dropped in a named way |
| yim-job (m) `cmd/yim-job` | Kafka offsets | consumeLoop, handlePush, handleAck | batched commits, redelivery, swallowed errors | every event handled at least once or left to the scan |
| yim-sched tasks (p) `message/compensation.go` | local_message and offline_box status | scan, offline box, unread reconciliation, Bloom rebuild, clean-up | acting on rows that changed meanwhile | what a round takes is settled; what may stay behind is named |
| Comet push path and client socket (p) | connections, client watermark | PushMessage, onAck, sweep; client push, ACK, SYNC | half-open connections, lost ACKs | a client ends up knowing the conversation |
| Comet keeper, server, drain (m) `internal/comet` | buckets of connections, closed and draining flags | onConnect, Add, Remove, Close, Kick, Drain, sweep | registration against removal, two devices, drain against handshake | index and connections agree; a drained instance ends empty |
| Routes (m) `cache.go`, `route_cache.go` | `route:{uid}` in Redis, routeCache | RouteAdd, Rem, Touch; get, seed, apply | late removal, seed against change event, partial sets | online users are reached |
| Sync watermark (m) `message/seq_client.go` | Redis counter, cached floor, write-back buffer | BumpSyncSeq, backfill, flush | Redis loses its keys, floor is old, batches put back | levels reach the table; no level is given again as long as the margin of the caller's floor holds |
| Read state, unread, last_seq batcher (m) | user_conv_state, conversations.last_seq, caches | MarkRead, lists, add, flush, reconcile | cache-aside, stale last_seq | unread never negative, and 0 in the end for who reads |
| Sync, history, search (p) | none (SYNC is part of Delivery) | Sync, PullHistory | seq order differs from commit order | nothing above the watermark is missed |
| Scheduler (m) `internal/sched` | etcd election, Redis windows, queue, locks | campaign, trigger, pop, claim | two leaders, worker dies after the pop | each triggered shard is run; a second time in its window only without the lock |
| Time wheel | slots, overflow wheels | After, advance, drain | jitter, cascading | every timer fires, not early |
| Bloom filter | two generations | Add, MightContain, Rebuild | rebuild against add, two rebuilds | no false negative after a rebuild |
| Relation (p) `internal/relation` | friends, requests, group_members, member_uids | friend and group operations | opposite requests, accept against delete, lost update of member_uids | friendship symmetric; who owns a group; rows and member_uids agree |
| Revoke, ephemeral, events, presence | a message whose client id is a msg_id; none | | | |
| JobPusher | bounded queue | Push, worker | back-pressure and drop | |
| Logic, JWT, HTTP gateway, handlers, sharding, hash ring, config, tracing | none, or constants | | | |

How they interact. A comet instance forwards CMD_MESSAGE_UP to a yim-message
instance (`SendMessage`). That takes a seq and a msg_id from its prefetched
blocks, which it refills from the Seq Svc by RPC; stores the message and a
local_message row in one transaction; and produces a push event to Kafka topic
yim.push. yim-job consumes it: for each member it pushes a notice through the
comet instances, registers the key (uid, conv, seq) in memory until an ACK comes
back on topic yim.ack, retries three times, and falls back to a row in
offline_box; then it marks the local_message row through markBatcher.
yim-sched scans for rows that stay unmarked and delivers them with a Deliverer
of its own, and pushes offline rows again. The client raises its watermark,
acknowledges, and SYNCs when it reconnects. Redis (marks, routes, counters) is an
optimisation everywhere: the unique key decides.

The hazards of this code, each with its line and the properties that would
catch it, are the "hazards" of `PROJECT.json`; those without a property say why.
Connections, routes and pushes meet in module Routing; the scheduler (module
Scheduler) is what runs the scan, the offline box and the reconciliation of
Delivery and ReadState, which take no more from it than that such a round may come;
the committed messages of SendMessage are what ReadState counts.

## 2. Modules

    SeqIssuer <--implements-- SeqAllocator         internal/seq/allocator.go
        ^                          (proofs: SeqAllocatorProofs)
        | used by, and implemented per instance by
    SeqPrefetch                                    message/service.go:73-150
        |                          (proofs: SeqClientProofs)
        | an attempt = a fresh (msg_id, seq)
    SendMessage                                    message/service.go:217-331
        |                          (proofs: SendMessageProofs)
        | sent messages, local_message rows, push events
    Delivery                                       delivery.go, compensation.go, yim-job
        |                          (proofs: DeliveryProofs)
        | marks flushed in any part at a time
    MarkQueue <--implements-- MarkBatcher          delivery.go:205-288
                                   (proofs: BatcherProofs)

    Comet <--EXTENDS-- Routing                     internal/comet; route table and
                                                   cache, PushRouted
                                   (proofs: RoutingProofs)
    Scheduler                                      internal/sched/sched.go
                                   (proofs: SchedulerProofs)
    SyncSeq                                        message/seq_client.go:95-238
                                   (proofs: SeqClientProofs)
    ReadState                                      conversations.go, service.go:152-211,
                                                   compensation.go:244-293, cache.go
                                   (proofs: BatcherProofs)
    Friends, Groups <--EXTENDS-- RelationSvc        internal/relation, CreateConv
                                   (proofs: RelationProofs)

**SeqIssuer** (abstract): a call begins, is granted a block of numbers nobody
has, all above everything returned before it began, and returns or fails.

**SeqAllocator**: one (biz, key). A segment is named by its end (segment ends
never repeat because max_id only grows); `cursor[end]` is its cursor. Each
caller goes through the labels of `Pool.For` and `Allocator.Next`: look up,
first load, register, `cur.Load`, take, store `last`, low-water test, and on
failure the mutex, swap or synchronous load. `RefillSkip/RefillLock/RefillLoad`
are the goroutine of refillAsync. A load succeeds, fails before the commit, or
fails with the commit done, or never ends; `Restart` keeps only `maxId`. The first loading of a
key inserts the row in the same transaction, so 0 stands for no row.

**SeqPrefetch**: convSeqAlloc for one conversation in several instances. It uses
SeqIssuer as the Seq Svc (`Svc!Begin`, `Grant`, `Return`, `Fail`, `Restart`): a
request that the caller gives up stays in the service as an orphan.
msgIDAlloc is the same algorithm for one key without `Clear`.

**SendMessage**: an attempt is one call and also names its own fresh (msg_id,
seq). The labels follow the code: look (Bloom + IdemGet), alloc, IdemPut, second
IdemGet, query, BeginTx, two INSERTs, Commit, and the error paths with IdemDel
and the deferred Rollback. The INSERT waits for the transaction that holds the
unique key. IdemPut may fail with or without its mark, or find its own mark because
the Redis client sent the SETNX again. `redis` is FALSE in behaviours where no Redis operation succeeds.
The Bloom filter answers any Boolean, because it is empty after a start and has
false positives.

**MarkBatcher**: `add` and `flush` with their critical sections as single steps
and everything they do after the unlock (start a timer, spawn a flush, run the
UPDATE) as steps of their own. **MarkQueue** is what Delivery relies on.

**Delivery**: one conversation, whose messages commit in any order of their seqs.
`local` and `box` are tables; `topic`,
`next`, `offset`, `acks` the two Kafka topics; `work[p]` the event that process
p (job or scheduler) fans out; `pend`, `chains`, `marks` the memory of its
Deliverer; `link`, `wire`, `wm` the connection and the client. A chain is an
armed or pushed retry of a key at a level; chains are counted because the same
key can be acknowledged, registered again, and then have two. `Repush` and `GiveUp`
are what a round of the offline box does with a row it has read: push it, or close it
unpushed once it is 7 days old. `Reconnect` is the new connection with its SYNC, which
may answer an error. `dropped` remembers whom the code lets go of which message: the
row of the box was not written, or closed unpushed, or the SYNC failed.

**Comet**: the connections of one user. Every connection has the label of its
pump (handshake steps: look up, replace, wait for the replaced one's hook, add,
register the route, announce it, live) and the progress of its Close, which
whoever wins the CAS on `closed` starts. `blind` remembers connections that were
added while another handshake of the same device was between Get and Add;
`missed` those that were in their handshake when the drain began.

**Routing** EXTENDS Comet with the table `route` in Redis, the channel of change
events `feed`, the copy `seen` of one pushing process and its PushRouted,
instance by instance. `owed` is the history that OfflineMeansOffline needs: the
connections that could be reached ever since the push began, whose instance it
has not called.

**Scheduler**: one task on several nodes. The etcd key `leader`, the belief
`leads` of each process, tickers, the rest of a trigger's round, the Redis list
and locks, and each worker's job. Each Redis command may fail or lose its reply: RPUSH
and SETNX are then sent again by the client (the job is queued twice; the worker finds
its own lock and lets the job go), a BLPOP has taken the job and nobody has it. A
process that ends stays down unless somebody happens to start it. A window number is used again when nothing of
its old use is left, so liveness can be checked on a finite model.

**SyncSeq**: Redis counter, cached floors, the write-back bucket with its flag
and timers, concurrent flushes with their rate, the fallback to the Seq Svc (which
takes one step here; its interleavings are those of SeqAllocator). A caller takes the
floor first and gives it to the script later, so it has it in hand (`val`). `base`
remembers the level that a cached floor was made from, `from` that of the floor in a
caller's hand, `lapsed` the users whose key Redis lost or whom
the Seq Svc served. The names of SyncSeq and ReadState (`SyncNext`, `ReadNext`,
`Bumpers`, `TakeEntry`) are chosen so that a module of proofs can extend them together
with SeqPrefetch and MarkBatcher.

**ReadState**: one user and one conversation: committed seqs, the last_seq
batcher, the row's last_seq and read_seq, their two cached copies, calls of
MarkRead and of readers step by step, CreateConv's late caching of the new
conversation (`creating`), and the reconciliation. `missed` remembers the messages whose
UPDATE failed or died with the process.

**Friends**, **Groups**: transactions statement by statement, with row locks and
visibility at commit. Friends has the requests and the two rows of a friendship.
Groups has the three records of membership (group_members, user_conversations,
member_uids), the cached copy and its loaders, and CreateConv of a group. Anybody may
call anything: `Add` takes the caller and the uids as they come, as the gateway does
(cmd/yimd/http.go:426). `seeders` remembers who added first members, `changed` whom a
committed change reached, `strayed` the owners whose quit read their role before they
became owner; `Orphans` are the founders that no change has reached.
**RelationSvc** runs one or the other: they have no row in common, so the variable
`part` is chosen at the start and the product of the two is not explored.

## 3. Runs and what they show

| run | instance | checks |
|---|---|---|
| SeqAllocator | 2 callers, step 10, calls for 5 or 7, numbers to 20, 2 load attempts | TypeOK, RealTimeOrder, FreshIds, IssuerSpec (refinement), CallsReturn |
| SeqPrefetch | 2 instances, 2 callers, 2 requests, blocks of 2, numbers to 5 | TypeOK, FreshSeqs, IssuerSpec (refinement) |
| SendMessage | 3 attempts at one message, 2 instances, 2 failures, with and without Redis | TypeOK, AnswersAgree, AnswerIsStored, OnlyStoredIsPushed, AnswerGetsStored, CallsReturn |
| MarkBatcher | 2 callers, 2 marks, 1 shard, 2 flushes, bucket size 2, 3 timers | TypeOK, NoMarkIsStranded, QueueSpec (refinement), BucketsDrain |
| Delivery | 1 recipient, 2 messages, 1 frame on the wire, 1 retry level, 1 failure | TypeOK, ClosedIsCovered, PendingHasTimer |
| DeliveryLive | 1 recipient, 1 message, 2 frames, 2 levels, 2 failures, fairness | EveryoneLearns, PendingDrains |
| Routing | 2 connections, 2 devices, 2 instances, 1 fault | OnlyOverlapsAreLost, DrainedOrMissed, OfflineMeansOffline |
| Scheduler | 2 nodes, 1 shard, 2 windows, 2 faults, fairness | NothingDropped, RepeatedOnlyUnlocked, EveryShardRunsAgain |
| SyncSeq | 3 callers, 2 users, 3 calls, 2 flushes, margin 2, flush size 2, rate 1, 2 faults | NoLevelIsStranded, MarginCovers, LevelsAreStored |
| ReadState | 2 messages, 1 MarkRead, 1 reader, 2 faults, fairness | EachIsBehind, OldMetaIsExcused, UnreadClears |
| Relation | 2 people, 2 calls at a time; or 3 users, 2 founders, 4 calls, 2 at a time, additions of one user, 1 loader | FriendshipIsMutual, DecidedOnce, OneOwner, MembershipAgrees, OldMembersAreExcused |
| RelationMerge | as Relation | refutes OppositeRequestsMerge (section 6) |

From Routing on, the type invariant is the first conjunct of the module's main
invariant (OfflineMeansOffline, NothingDropped, NoLevelIsStranded, EachIsBehind,
FriendshipIsMutual for Friends, OneOwner for Groups).

What the later runs show:

- *Routing*. A connection that was added and is open is the one that the keeper
  lists, unless two handshakes of its device overlapped (handler.go:89-96). When
  a drain has closed its snapshot, what is still open was in its handshake when
  the drain began. A push that reports the user offline is right: no connection
  could be reached all the while, however late removals, seeds and change events
  are. That is the fallback to the broadcast at work. It says nothing of a push
  that reached one device: the others may be missed (section 6).
- *SeqAllocator*, *Delivery*, *DeliveryLive*. What the code cannot promise is part of
  the property, not of the premises: calls return unless a load hangs; a closed
  message is covered unless it was dropped; a message is learnt or dropped, or stays in
  a row that no round ever reads, or behind a fan-out whose write of the box hangs.
- *Scheduler*. However many leaders trigger, a job of a window is repeated only
  for a lock that could not be checked, expired or was lost, and no shard drops
  out except in a crash, a failed Exec, with Redis or with a reply of BLPOP or SETNX.
  Each shard is run again and again as long as a process is left and no Exec hangs;
  in the model a lost session ends a process and nothing brings it back.
- *SyncSeq*. A put-back batch never leaves the bucket without flush or timer,
  levels reach the table, and every level Redis counts is above those given, but
  for a user whose key was lost or whom the Seq Svc served: for him only as long
  as fewer than the margin were given beyond what the caller's own floor was made from.
- *ReadState*. The stored unread count is never negative; only named races leave
  an old last_seq in the cache; the open chat's unread count is 0 in the end, in
  the rows and in the caches, though last_seq itself may stay behind a message
  whose UPDATE failed.
- *Relation*. Only who seeds an empty group becomes its owner, be it the creator or
  a later caller; the records agree but for founders of a group whose seed failed;
  `overlapped` names the users whose entry in member_uids the code does not guarantee.

*Bounds and why they are enough.* SeqAllocator: step 10 is the smallest with a
low-water mark other than 0 (step/10); two calls for 5 reach it, a call for 7
leaves a rest that cannot be used; MaxID 20 allows two loaded segments, so that
current and next, two first users, and a load after a restart all occur.
SeqPrefetch: blocks of two distinguish a full, a started and a used-up block;
as many requests as callers leave room for an orphan. SendMessage: messages
never meet (all tables are keyed by message); three attempts allow a winner, a
loser and a later retry on the other instance; two failures allow, for example,
a lost commit followed by a failing retry. MarkBatcher: shards share nothing; a
bucket of two is filled by two callers while a timer runs. Delivery: recipients
share only the event under fan-out; two messages give a cumulative ACK, a
notice that overtakes another and a commit out of order; the run with one message takes more levels and
failures instead. Routing: two connections can be of one device or two, to one
instance or two, so a replacement, an overlap, a reconnect elsewhere and two
devices all occur, and one fault makes a drain, a crash, a lost event or a failed
call meet any of them. Scheduler: two nodes give an old and a new leader;
jobs of the shards of a task share only the order of the list. SyncSeq: flush
size 2 over rate 1 is the smallest batch that is put back; of three calls for one
user one keeps an old floor while the second advances the level and the third reads a
higher floor. ReadState: with two messages one commits after its
successor; MarkRead and a reader meet in the caches. Relation: a friendship is
between two; a third member gives membership changes of different users, and four calls
are a failed seed, another caller's seed and two changes after it. Every bound (MaxID, MaxTries, MaxFaults, MaxTimers, MaxWire,
MaxSeq, MaxCalls, Conns, Windows, Flushers, Rpcs) is a constant named as such in its module. MaxFaults
counts failures of the environment; without it nothing would ever have to
succeed.

CHECK_DEADLOCK is off where the instance ends: in the runs of SendMessage all
attempts return, and in those of Delivery all messages settle; nothing is left
to do then. It is also off in Routing (each connection is made once), SyncSeq
(MaxCalls), ReadState (all messages read) and Relation (two founders and nobody
left to add). In the other runs a stuck state is an error.

## 4. Fairness

- SeqAllocator: weak fairness of each caller's steps but the loads, and
  strong fairness of `Lock`, since `sync.Mutex` hands over to waiters (starvation
  mode). No fairness of any load: the prefetch loads with context.Background()
  (allocator.go:133), and the DSN sets no read timeout. CallsReturn therefore allows that a
  load, which may hold the mutex, never ends. No fairness of `RefillLock`: nothing may
  depend on the prefetch.
- SendMessage: weak fairness of each attempt's steps. INSERT's lock wait ends
  because the holder's own steps are fair.
- MarkBatcher: started timers expire, goroutines run, an UPDATE ends; strong
  fairness of `Take` since each flush has a goroutine of its own and only the
  bound on concurrent flushes disables it in the model.
- Delivery: the consumer runs, a scan goes through the rows it has read,
  timers fire, a live connection carries its frames, a client reconnects. No fairness
  of `Scan` and `Repush`: a round reads 200 rows in no order (compensation.go:78, 171), so
  a row need never be among them. None of `BoxMember`: its INSERT has no deadline
  (delivery.go:332); a hanging INSERT of `Exhaust`, in a goroutine of its own, is the
  same as a failing one. No fairness of `AckArrives`, of the sweep, of rebalances or of
  any failure: ACKs need not arrive for anything to drain.
- Scheduler: goroutines run, etcd leases and lock TTLs end, time passes (`Tick`). No
  fairness of `Start`: the repository has nothing that starts yim-sched again. None of the
  end of an Exec: it calls Deliver, which takes no context (compensation.go:129). None of
  any crash, loss or error.
- SyncSeq: goroutines run, timers fire, UPDATEs end; strong fairness of `Take` as in
  MarkBatcher. No fairness of `CallBump`: what was given must be stored whether or
  not more calls come.
- ReadState: the batcher and the calls run, cached metadata expires, and strong
  fairness of the poll of a chat that stays open: its periodic timer fires whenever the
  previous request has ended. No fairness of the reconciliation: a round reads 500
  conversations in no order (compensation.go:251) and ends with the first MAX(seq) that
  fails (276-278). None of CreateConv's SET.
- Routing and Relation check safety only.

## 5. Theorems

All constants are arbitrary within the ASSUMEs of the modules (Step positive,
batches between 1 and Step, distinct names for callers and sentinels, and so on);
these are the only assumptions, and every run evaluates them.

- **SeqAllocatorProofs**. `IInv` = TypeOK and three parts. `SegInv`: segments are
  at least Step apart, and no number between a segment's cursor and its end was
  issued. `PtrInv`: the prefetched segment lies above the current one, and every
  number returned is at most the cursor of the current segment. `CallInv`: where
  each caller stands; a caller that is about to take has loaded a segment at or
  below the current one, whose cursor is at least the caller's bar. The last part
  is why RealTimeOrder holds: a caller may take from a segment that was replaced
  meanwhile, but the numbers returned before its call began were at most the
  cursor of the segment that it then loaded. From IInv follow `RealTimeOrdered`,
  `NumbersAreFresh` and `AllocatorIsIssuer` (each action is mapped to an issuer
  step or a stutter).
- **SeqClientProofs** (over SeqPrefetch and SyncSeq). `TypeCorrect` and `SeqsAreFresh`, by the fact that the
  rest of each instance's block, the blocks granted and on their way, and the
  numbers given are pairwise disjoint subsets of what the Seq Svc granted
  (`Blk`, `Rest`, `CallsOK`, `Apart`). `InstanceIsIssuer`: each instance by itself
  implements the same abstract issuer that it calls. Its invariant `RInv` adds the
  order: the rest of the current block lies above every number the instance gave
  (`GivenOK`), the request a caller waits for has a bar no lower than these numbers,
  and an answer on its way lies above the bar of its request (`RequestsOK`).
  For SyncSeq the invariant is `SyncInv`. `LevelsAreFlushed`: a set flag stands for a
  timer, a caller about to start one or a flush that waits for the lock
  (`TimerComes`), and a bucket with levels and no flag has a flush to come
  (`FlushComes`), also after a flush has put levels back. `LevelsRise` is an
  action property: a cached floor is the margin above `base`, and the floor in a
  caller's hand the margin above its `from` (`FloorsHold`); the counter
  of a user who did not lapse is no lower than what he was told (`CounterLeads`), so
  Redis can only repeat a level by starting from a floor in hand that was passed.
- **BatcherProofs** (over MarkBatcher and ReadState). `TypeCorrect`; `MarksAreFlushed`,
  by FlagIsKept (a timer flag has a timer behind it) and FullIsFlushed (a bucket with
  marks and no flag was full, and a flush is on its way); `BatcherIsQueue`, the
  refinement of MarkQueue. For ReadState the invariant is `ReadInv`.
  `PositionsAreBehind`: neither EachIsBehind nor the bound of MarkRead can be kept
  without what is between the steps of a call: the last_seq it loaded or was clamped
  to, and the read_seq it will cache, are behind rows that only rise (`CallHolds`,
  `RowsRise`). A message asks for at most one flush, so flushes are no more than
  messages (`FlushesHold`), which the types need. `OldMetaIsDropped`: an UPDATE that
  makes the cached last_seq old leaves its drop to come, and what loses that drop, or
  fills the key late (a reader, CreateConv), or the reconciliation, is an excuse that
  stays as long as the key does.
- **SendMessageProofs**. `TypeCorrect`; `PushedOnce` (a committed row is never
  replaced, and only its owner reaches the push); `UniqueKeyDecides` (without
  Redis no answer comes from a mark, by `KeyOK`, `RowOK` and `NoRedisOK`);
  `RacersAgree`: as long as nothing fails every answer names the attempt whose
  mark is in Redis, or without Redis the one that holds the row (`MarkDecides`).
- **DeliveryProofs**. `TypeCorrect`, `Closed` and `Timed`, from `DInv`. What ClosedIsCovered says of
  a closed message does not hold inductively by itself: it is carried back along
  the way that a mark takes. `Covered` says it for one recipient; `Served` has it for
  the recipients a fan-out is through with, except the one whose push failed and
  whose row is not written yet; `MarkedOK` for what waits in a markBatcher;
  `ClosedOK` for the table. `BoxOK` is why INSERT IGNORE on a row that is closed does
  no harm (closed means that the client has seen the message, or was let go of it), and
  `OnlySent` why a reconnection covers everything (only committed messages are published,
  scanned, retried or boxed, and SYNC reads the committed ones, or its failure is
  recorded). `dropped` only grows, by what `LoseFacts` says. The proof uses
  neither `pend` nor `chains`: the promise to a closed message rests on the
  offline box and on SYNC, the retries only make it quicker. `Timed` is a separate
  argument: every step does one of five things to a registry and its chains
  (`ChainMoves`), and each leaves every key a chain. `StepFrame` says which
  action changes which variable; every other lemma looks at those actions only.
- **RoutingProofs** (over Comet and Routing). `OnlyOverlaps` and `Drained`, from `CInv`:
  a handshake that has looked its slot up knows whoever is in it, and has closed
  whom it knows before it adds itself, or whoever is in it came while it was on its
  way and is in `blind` (`Looked`); no pump ends without a Close (`Ended`); what is
  open on a draining instance is still to be closed, was missed, or is in `blind`
  (`Covered`). `Offline`, from `RInv`: while a push broadcasts, it has yet to call the
  instance of every connection that is owed the message (`Broadcasts`).
- **SchedulerProofs**. `Dropped` and `Repeated`, from `SInv`. A worker that finds the
  lock taken lets the job go: nothing is dropped only because a lock stands for
  a job that is running, has run or was lost (`Locked`), its own lock found again by a
  resent SETNX included. Each lock accounts for
  one execution (`Counted`), so that executions beyond the excuses need it gone.
- **RelationProofs** (over Friends, Groups and their composition). `Mutual` and `Decided`:
  an accept or a deletion holds the locks of the two rows it has touched until it
  commits or rolls back (`FInv`). `SeederOwns`, `RecordsAgree`, `CopyIsExcused`, from `GInv`:
  only a call that found no members makes an owner, its caller; a kick that got past its
  check is one of a seeder, a quit that did is of somebody who strayed or beside whom
  there is another seeder (`CheckOK`); before the first change the group has no members,
  and member_uids holds the founders (`SeedersOK`, `YoungOK`); what a call reads of member_uids is out of step only on
  users that overlapping calls change (`ViewOK`, `OverlapOK`); a loader of the cache that read before
  a change is late (`LoadsOK`).

Three facts about data were needed and are proved from the library: a finite set of
numbers has a highest one (`HasHighest` of DeliveryProofs for SYNC, `HasMax` of
BatcherProofs for the newest message, by the well-foundedness of strict inclusion on
finite sets), what a step makes of the number of users with a pending level
(`PendingSize`, `PendingLess` of SeqClientProofs), and what Append and Tail make of the
set of queued jobs (`QueueFacts` of SchedulerProofs).

*Only model-checked.* All liveness properties (CallsReturn, AnswerGetsStored,
BucketsDrain, EveryoneLearns, PendingDrains, EveryShardRunsAgain, LevelsAreStored,
UnreadClears): TLAPS does not handle liveness under fairness or ENABLED. Every
invariant, action property and refinement that a passing run checks is also a
theorem. Induction over data would be out of the prover's reach too; no module has a
recursive definition, so nothing rests on it.

## 6. Where the code and its comments differ

*Opposite requests do not merge* (run `RelationMerge`, friend.go:40). When A asks
B while B's request to A is pending, SendFriendRequest calls
HandleFriendRequest(toUID, fromUID, true), whose parameters are (opUID, fromUID).
It looks for A's own request addressed to B, finds none and returns an error;
if A's request is there too, that one is accepted in B's name. friend.go:9-10
and 34 say that the two requests are merged. TLC ends this run with the
counterexample.

Met while modelling and not given a run of their own:

- *Peek is not the largest number returned* (allocator.go:92): two callers store
  `last` in the opposite order of their CAS. allocator.go:63 and 114 say that it
  is. allocator.go:251 says that Current reads the table only when nobody holds
  a segment; a creator between its load and its registration does.
- *The mutex does not prevent the herd* (allocator.go:146): callers that queued
  while the segment was replaced load one more each. Numbers stay unique, they
  are only wasted. allocator.go:65 says that it must not happen.
- *Several instances break monotony* (service.go:109 says they do not). A seq
  sent later through another instance can be lower by up to a block; the
  client's watermark is a maximum (yim_socket.dart:199), so the later message
  looks old: its notice is dropped without an ACK, every retry and the offline
  box are spent on it, and SYNC asks only for what lies above (sync.go:54). It
  is seen with the next page that the client reads. Two overlapping calls on one
  instance do the same. Delivery has these executions; what it promises of a
  client is what the watermark says, so such a message counts as known there.
- *A mark may name a message that is not stored* (service.go:266). IdemPut
  precedes the transaction; cache.go:9 says that a mark's value is stored.
  Without failures the row comes later (AnswerGetsStored); if the winner dies, its ids
  were already promised to the loser.
- *An attempt may be answered from its own mark*: when the reply of IdemPut's SETNX is
  late (the read timeout is 100 ms, store/redis.go:19) the Redis client sends it again,
  which finds the mark of the first; the attempt takes itself for the loser and returns
  its ids (service.go:264-267) without a row. The comment at 260 says that a loser's ids are
  being stored by somebody else.
- *BeginTx's error leaves the mark* (service.go:282), though cache.go:64 says that
  every failed insert must remove it; a retry within 24 hours is told success
  for a message that does not exist.
- *A lost ACK costs every retry* (yim_socket.dart:199): the client acknowledges
  only notices above its watermark. handler.go:200 says that it costs one push.
- docs/ARCHITECTURE.md:130 says that nothing is pushed again after the ACK.
  delivery.go:161-172 pushes before it registers the key, so an ACK may find
  nothing to remove, and the message is pushed again at every level.
- cmd/yim-job/main.go:10 says that a failed event is not committed. Deliver
  returns no error, so it is (main.go:203-216); the scan is what brings it back,
  and the model does it that way (`FetchFails`).
- *Three ways to be let go* (`dropped`): a failing INSERT into offline_box is only
  logged (delivery.go:332-338), and the message is closed all the same; a row that
  is 7 days old is closed without a push (compensation.go:200-203), which a row of an
  online user can reach as well when 200 others of his bucket are read before it every
  time; and a SYNC that fails is answered with an error frame (handler.go:171-175), on
  which the client goes ready as if it were empty (yim_socket.dart:185-194). The comment
  at compensation.go:201 relies on SYNC for the rows given up; a connected client makes
  none until it reconnects; only the open chat polls its history (app_state.dart:562).
- *Rounds without an order*: the scan and the offline box read 200 rows, the
  reconciliation 500 conversations, none with an ORDER BY (compensation.go:78, 171, 251).
  service.go:205 says of an UPDATE of last_seq that failed that the reconciliation will
  fix it; a conversation past the 500, or behind one whose MAX(seq) fails
  (compensation.go:276-278), stays behind until its next message.
- *A prefetch holds the mutex* (allocator.go:133, 143): refillAsync loads without a
  deadline while it holds `mu`, and swapSync waits for `mu` before it sets its own of 3 s.
  allocator.go:65 and 135 speak of the herd and of failures only: a load that hangs holds up
  every caller of the key.
- *Re-adding a former friend*: DeleteFriend keeps the request as accepted, and
  friend.go:50 renews rejected ones only, so a new request changes nothing and
  cannot be handled. friend.go:11 and docs/ARCHITECTURE.md section 11 call it
  the normal procedure. In the model `Renewed` says so.
- *Lost membership*: group.go:5-7 says that all changes keep member_uids in step.
  It is read by a plain SELECT (service.go:96), so of two overlapping changes
  one is lost. MembershipAgrees leaves out these users (`overlapped`).
- *Orphan group*: when the seed fails the conversation is there without members
  (noted as a debt in conversations.go:132), though its founders have it in their lists.
  The next AddGroupMembers counts no members and takes its caller for the founder: any
  user who names himself among the added ones becomes the owner (group.go:30-56),
  although group.go:20-22 says that the permission is checked there. Two such calls at a
  time, or one and the seed, both count none and make two owners. OneOwner says who can
  own a group, RecordsAgree in which founders its records differ.
- *An owner can quit* (group.go:112, 116): the role is read before the caller's own seed
  commits and the membership after it, so that the quit removes the row of an owner
  (`strayed`). The comment at 111 says that an owner cannot.
- *A single chat created twice at a time* ends with a duplicate-key error of the
  loser (conversations.go:119-123); the comment at 34 says that it gets the existing one.
- *Leadership*: sched.go:79-80 and 96 say that a process campaigns again. leadLoop
  returns nil on a lost session, and Run then returns: the process ends, and
  nothing in the repository starts it again (the Makefile starts yim-sched once,
  start-all.ps1 does not). When every process has lost its session no task runs any more,
  which EveryShardRunsAgain names. sched.go:126 says that a job
  is executed once in its window; the lock lasts two minutes, some windows longer, and an
  Exec may outlast it, for Deliver takes no context (compensation.go:129).
- *At least once* (sched.go:39): a job whose reply to BLPOP is lost is gone (169-178), and
  a SETNX that is sent again finds its own lock, so that the job counts as taken and
  nobody runs it (195-200). NothingDropped counts both among the losses; the next window
  brings the task again.
- *The margin* of the sync level (seq_client.go:106-108) covers what was given
  since the floor was read, which is once per process (144-151), not
  since the last write-back. And the script gets the floor that its call took
  (160, 169), which may be older than the cached one by then: MarginCovers states what
  holds, for the floor in the caller's hand.
- *Part of the devices*: a routed push that reached one instance is not followed by
  a broadcast (comet_cluster.go:74), so a device whose instance is missing from
  the table or the copy gets nothing until its next SYNC. comet_cluster.go:58 says
  that the table is not a matter of correctness.
- *Drain at exit*: cmd/yim-comet/main.go:174 calls Drain and ends; Drain works in a
  goroutine, so the notices to clients race with the end of the process.
- *Read positions*: MarkRead caches the position of its own call, which may be lower
  than the row's (conversations.go:224). The reconciliation moves last_seq and
  leaves the cached metadata, which is then old until it expires; CreateConv
  caches last_seq 0 some time after its commit (conversations.go:130), maybe over newer
  metadata.

## 7. Abstractions

- *Delivery*: no clocks. A timer fires at any time after it is armed. The scan's
  grace of 60 s is the premise that a message in transit is not scanned; that a
  message is in transit for longer counts as a failure. Routes and several
  instances of comet are inside `Push`: it delivers, fails, or fails at the
  server with the frame written. BumpSyncSeq is left out (its watermark is not
  used by the client's SYNC). `Exhaust` removes the key and writes the row in
  one step. A rebalance happens while the consumer is between events. Connecting and
  SYNC are one step, which raises the client's watermark to the highest row or fails,
  which counts as a failure of the environment; that the list of conversations may know
  of more than the socket's own watermark is left out, and so is SYNC's limit of 200
  messages, after which the client pages. Members do not change. A panic of Deliver is
  covered only before the first push.
- *SendMessage*: the member check and a marshalling error return before any
  state changes or leave what a failed INSERT leaves. Conversation and message
  shard are fixed. The 24-hour expiry of the mark happens when no attempt of the
  message is running.
- *SeqAllocator*: one key; keys share only the pool's mutex, which is held for a
  map access. `last` is part of the state although only Peek and Current read it.
- *SeqPrefetch*: the map of blocks is cleared at any time the mutex is free.
- *Routing*: one user, one pushing process, the instance list a constant (the code
  caches it for 5 s). Presence events and SCARD are left out. The expiry of the
  route key is an event of the environment and counts as a fault, as does a
  drain.
- *Scheduler*: no clocks; a lock expires at any time. What waits in the list when no
  process pops counts as a job of the window that comes to use its number (`Tick`).
- *SyncSeq*: one process writes a user's levels. That the Redis client sends a script
  again whose reply was lost leaves a gap in the levels, and is left out.
- *ReadState*: one MarkRead and one reader at a time; that a device does not know
  the newest message counts as a failure. The delay between the commit and
  lastSeqBatcher.add is part of the delay before the flush. The conversation begins with
  CreateConv's commit.
- *Friends, Groups*: MySQL's default isolation, REPEATABLE READ, which the code
  does not change. A waiting statement may fail at any time (`GiveUp`, `Fail`), which
  covers deadlocks and timeouts. The rows of one user in a group are written in
  one step, and the row lock of the conversation is held in the commit step only.
  The metadata and member caches are one copy. Single chats, whose members do not change,
  are left out, and so are events sent after a commit.

## 8. Plan

Done: SeqIssuer, SeqAllocator, SeqPrefetch, SendMessage, MarkQueue, MarkBatcher,
Delivery, Comet, Routing, Scheduler, SyncSeq, ReadState, Friends, Groups, RelationSvc,
with the proofs of their safety properties. Next, in this order:

1. **ConvOrder**: what a client with watermark w has seen, told apart from what
   the watermark has passed: the instances' blocks and open transactions of
   SeqPrefetch and SendMessage together with SYNC and the pages the client reads.
2. **TimeWheel**: slots, overflow wheels, late and early ticks.
3. **Bloom**: generations and overlapping rebuilds.
4. **JobPusher** and **Revoke**.

Each of them needs its own invariant, proved in the manner of section 5 once TLC has
checked it.

## 9. Not modelled, and why

The planned parts are in section 8. Out of scope: wire encoding and streams
(sequential I/O), tokens and the HTTP gateway (stateless), sharding (a constant
function in MarkBatcher), configuration, logging and tracing, benchmarks and
self-tests, the client's user interface. `hashring.go` is a pure look-up and a
candidate for a checked algorithm. Presence, relation events and ephemeral
signals are fire-and-forget and keep no state that a property could relate.
