----------------------------- MODULE ReadState -----------------------------
(***************************************************************************)
(* The unread count of one user in one conversation: last_seq - read_seq.  *)
(* conversations.last_seq follows the committed messages through the       *)
(* lastSeqBatcher (service.go) and the reconciliation (compensation.go);   *)
(* user_conv_state.read_seq follows MarkRead (conversations.go), which the *)
(* chat window of the client repeats (app_state.dart).  Both are read      *)
(* through Redis (cache.go).  The message service is one process.          *)
(***************************************************************************)
EXTENDS Integers, FiniteSets, FiniteSetsExt

CONSTANTS Markers,    \* MarkRead requests served at a time
          Readers,    \* ListConversations and GetReadState requests
          None,       \* a key that Redis does not hold; nothing in hand
          MaxSeq,     \* bound: messages
          MaxFaults   \* bound: failed statements, restarts

ASSUME ReadStateAssumption ==
    MaxSeq \in Nat \ {0} /\ MaxFaults \in Nat /\ None \notin Nat /\ Markers \cap Readers = {}

VARIABLES
    committed, \* seqs of the committed messages
    entry,     \* the conversation's entry in the bucket; 0 for none
    armed,     \* the bucket's timer flag
    flushes,   \* flushes to come: timers running, flushes spawned
    upd,       \* seqs whose UPDATE a flush is about to run
    del,       \* seqs whose cached metadata a flush is about to drop
    last,      \* conversations.last_seq
    read,      \* user_conv_state.read_seq
    meta,      \* last_seq in conv:{id}:meta
    mark,      \* read:{uid}:{id}
    stage, n, m, \* per call: label, read_seq in hand, last_seq in hand
    creating,  \* CreateConv has yet to cache the metadata of the new conversation
    excused,   \* history: the cached last_seq may be old
    missed,    \* history: seqs whose UPDATE failed or was lost with the process
    faults

batcher == <<entry, armed, flushes, upd, del>>
redis == <<meta, mark>>
calls == <<stage, n, m>>
readVars == <<committed, batcher, last, read, redis, calls, creating, excused, missed, faults>>

Seqs == 1..MaxSeq
Calls == Markers \cup Readers
Newest == Max(committed \cup {0})
Larger(a, b) == IF a >= b THEN a ELSE b

ReadInit ==
    /\ committed = {} /\ entry = 0 /\ armed = FALSE /\ flushes = 0 /\ upd = {} /\ del = {}
    /\ last = 0 /\ read = 0 /\ meta = None /\ mark = None
    /\ stage = [c \in Calls |-> "idle"] /\ n = [c \in Calls |-> None] /\ m = [c \in Calls |-> None]
    /\ creating = TRUE /\ excused = FALSE /\ missed = {} /\ faults = 0

Fault == faults < MaxFaults /\ faults' = faults + 1
NoFault == UNCHANGED faults

-----------------------------------------------------------------------------
(* Messages and the batcher *)

\* The bucket holds the last seq that was added.
EnteredLast(old, s) == s
Entered(old, s) == Larger(old, s)

\* SendMessage commits and calls lastSeqBatcher.add; seqs do not commit in
\* their order.  A delay or a crash between the two has the effect of a delay
\* or a crash before the flush.  The bucket holds other conversations too, so
\* it may be full at any time.
Commit(s) ==
    /\ s \notin committed /\ committed' = committed \cup {s}
    /\ entry' = Entered(entry, s)
    /\ \E full \in BOOLEAN :
          /\ armed' = (armed \/ ~full)
          /\ flushes' = IF full \/ ~armed THEN flushes + 1 ELSE flushes
    /\ UNCHANGED <<upd, del, last, read, redis, calls, creating, excused, missed>> /\ NoFault

\* lastSeqBatcher.flush, in its lock
TakeEntry ==
    /\ flushes > 0 /\ flushes' = flushes - 1
    /\ entry' = 0 /\ armed' = FALSE
    /\ upd' = IF entry = 0 THEN upd ELSE upd \cup {entry}
    /\ UNCHANGED <<committed, del, last, read, redis, calls, creating, excused, missed>> /\ NoFault

\* The metadata is not dropped after the UPDATE.
DropsNothing(s) == UNCHANGED del
Drops(s) == del' = del \cup {s}

\* flush: UPDATE conversations ... AND last_seq < ?
UpdateLast(s) ==
    /\ s \in upd /\ upd' = upd \ {s}
    /\ \/ last' = Larger(last, s) /\ Drops(s) /\ UNCHANGED missed /\ NoFault
       \/ UNCHANGED <<last, del>> /\ missed' = missed \cup {s} /\ Fault
    /\ UNCHANGED <<committed, entry, armed, flushes, read, redis, calls, creating, excused>>

\* flush: InvalidateConv, which may fail
Drop(s) ==
    /\ s \in del /\ del' = del \ {s}
    /\ \/ meta' = None /\ excused' = FALSE /\ NoFault
       \/ UNCHANGED meta /\ excused' = (meta # None) /\ Fault
    /\ UNCHANGED <<committed, entry, armed, flushes, upd, last, read, mark, calls, creating, missed>>

-----------------------------------------------------------------------------
(* UnreadReconcileTask.Exec, for this conversation *)

\* A round that takes the conversation: it may never, as a shard reads 500 in no
\* order and gives up on the first MAX(seq) that fails.  The MAX(seq) may be older
\* than the UPDATE.  The cached metadata is left alone.
Reconcile ==
    \E s \in committed :
        /\ s > last /\ last' = s
        /\ excused' = (meta # None)
        /\ UNCHANGED <<committed, batcher, read, redis, calls, creating, missed>> /\ NoFault

-----------------------------------------------------------------------------
(* The client *)

\* The open chat calls markRead with the highest seq it knows, and again with
\* every poll.  That a device does not know the newest message is a failure.
Poll(c, s) ==
    /\ stage[c] = "idle" /\ s \in committed
    /\ stage' = [stage EXCEPT ![c] = "mark"] /\ n' = [n EXCEPT ![c] = s]
    /\ IF s = Newest THEN NoFault ELSE Fault
    /\ UNCHANGED <<committed, batcher, last, read, redis, m, creating, excused, missed>>

\* ListConversations, GetReadState
List(c) ==
    /\ stage[c] = "idle"
    /\ stage' = [stage EXCEPT ![c] = "list"]
    /\ UNCHANGED <<committed, batcher, last, read, redis, n, m, creating, excused, missed>> /\ NoFault

-----------------------------------------------------------------------------
(* The calls *)

\* CreateConv: SET, some time after the commit that shows the conversation
CacheNew ==
    /\ creating /\ creating' = FALSE
    /\ meta' = 0 /\ excused' = (last > 0)
    /\ UNCHANGED <<committed, batcher, last, read, mark, calls, missed>> /\ NoFault

\* Only MarkRead goes on to use last_seq.
HasMeta(c, top) ==
    /\ stage' = [stage EXCEPT ![c] = IF c \in Markers THEN "write" ELSE "look"]
    /\ m' = [m EXCEPT ![c] = IF c \in Markers THEN top ELSE None]

Leave(c) ==
    /\ stage' = [stage EXCEPT ![c] = "idle"]
    /\ n' = [n EXCEPT ![c] = None] /\ m' = [m EXCEPT ![c] = None]

\* GetConvMeta: Redis
GetMeta(c) ==
    /\ stage[c] \in {"mark", "list"}
    /\ IF meta = None
       THEN stage' = [stage EXCEPT ![c] = "load"] /\ UNCHANGED m
       ELSE HasMeta(c, meta)
    /\ UNCHANGED <<committed, batcher, last, read, redis, n, creating, excused, missed>> /\ NoFault

\* GetConvMeta: SELECT
LoadMeta(c) ==
    /\ stage[c] = "load"
    /\ m' = [m EXCEPT ![c] = last] /\ stage' = [stage EXCEPT ![c] = "fill"]
    /\ UNCHANGED <<committed, batcher, last, read, redis, n, creating, excused, missed>> /\ NoFault

\* GetConvMeta: SET
FillMeta(c) ==
    /\ stage[c] = "fill"
    /\ meta' = m[c] /\ excused' = (m[c] < last)
    /\ HasMeta(c, m[c])
    /\ UNCHANGED <<committed, batcher, last, read, mark, n, creating, missed>> /\ NoFault

\* The position is not clamped to last_seq.
ClampedNot(s, top) == s
Clamped(s, top) == IF s > top THEN top ELSE s

\* MarkRead: INSERT ... GREATEST
Write(c) ==
    LET s == Clamped(n[c], m[c])
    IN  /\ stage[c] = "write"
        /\ \/ /\ read' = Larger(read, s) /\ n' = [n EXCEPT ![c] = s]
              /\ stage' = [stage EXCEPT ![c] = "put"] /\ m' = [m EXCEPT ![c] = None] /\ NoFault
           \/ Leave(c) /\ UNCHANGED read /\ Fault
        /\ UNCHANGED <<committed, batcher, last, redis, creating, excused, missed>>

\* SetReadSeq: of MarkRead, and of getReadSeq after a miss
Put(c) ==
    /\ stage[c] = "put" /\ mark' = n[c] /\ Leave(c)
    /\ UNCHANGED <<committed, batcher, last, read, meta, creating, excused, missed>> /\ NoFault

\* getReadSeq: Redis
Look(c) ==
    /\ stage[c] = "look"
    /\ IF mark # None THEN Leave(c) ELSE stage' = [stage EXCEPT ![c] = "select"] /\ UNCHANGED <<n, m>>
    /\ UNCHANGED <<committed, batcher, last, read, redis, creating, excused, missed>> /\ NoFault

\* getReadSeq: SELECT; without a row nothing is cached
Select(c) ==
    /\ stage[c] = "select"
    /\ IF read = 0
       THEN Leave(c)
       ELSE stage' = [stage EXCEPT ![c] = "put"] /\ n' = [n EXCEPT ![c] = read] /\ UNCHANGED m
    /\ UNCHANGED <<committed, batcher, last, read, redis, creating, excused, missed>> /\ NoFault

-----------------------------------------------------------------------------
(* Expiry and restart *)

ExpireMeta ==
    /\ meta # None /\ meta' = None /\ excused' = FALSE
    /\ UNCHANGED <<committed, batcher, last, read, mark, calls, creating, missed>> /\ NoFault

ExpireMark ==
    /\ mark # None /\ mark' = None
    /\ UNCHANGED <<committed, batcher, last, read, meta, calls, creating, excused, missed>> /\ NoFault

Restart ==
    /\ entry' = 0 /\ armed' = FALSE /\ flushes' = 0 /\ upd' = {} /\ del' = {}
    /\ stage' = [c \in Calls |-> "idle"] /\ n' = [c \in Calls |-> None] /\ m' = [c \in Calls |-> None]
    /\ creating' = FALSE /\ excused' = (excused \/ (meta # None /\ del # {}))
    /\ missed' = missed \cup upd \cup ({entry} \ {0})
    /\ UNCHANGED <<committed, last, read, redis>> /\ Fault

Serve(c) ==
    \/ GetMeta(c) \/ LoadMeta(c) \/ FillMeta(c) \/ Write(c)
    \/ Put(c) \/ Look(c) \/ Select(c)
Flush == TakeEntry \/ \E s \in Seqs : UpdateLast(s) \/ Drop(s)

ReadNext ==
    \/ \E s \in Seqs : Commit(s)
    \/ Flush \/ Reconcile
    \/ \E c \in Calls : Serve(c)
    \/ \E c \in Markers, s \in Seqs : Poll(c, s)
    \/ \E c \in Readers : List(c)
    \/ CacheNew \/ ExpireMeta \/ ExpireMark \/ Restart

\* Goroutines run and timers fire, keys expire, and a chat that stays open
\* polls.  That the reconciliation takes this conversation is not assumed.
Fairness ==
    /\ WF_readVars(Flush) /\ WF_readVars(ExpireMeta)
    /\ \A c \in Calls : WF_readVars(Serve(c))
    /\ SF_readVars(\E c \in Markers : Poll(c, Newest))

ReadSpec == ReadInit /\ [][ReadNext]_readVars /\ Fairness

-----------------------------------------------------------------------------
(* Properties *)

\* Types; an entry in the bucket has a flush to come.
ReadTypeOK ==
    /\ committed \subseteq Seqs
    /\ entry \in committed \cup {0} /\ armed \in BOOLEAN /\ flushes \in 0..MaxSeq
    /\ (entry # 0 => flushes > 0)
    /\ upd \subseteq committed /\ del \subseteq committed
    /\ {last, read} \subseteq 0..MaxSeq
    /\ {meta, mark} \subseteq 0..MaxSeq \cup {None}
    /\ stage \in [Calls -> {"idle", "mark", "list", "load", "fill", "write", "put", "look", "select"}]
    /\ {n, m} \subseteq [Calls -> 0..MaxSeq \cup {None}]
    /\ creating \in BOOLEAN /\ excused \in BOOLEAN
    /\ missed \subseteq committed /\ faults \in 0..MaxFaults

\* Every position is behind the one it was taken from: the cached one behind
\* the stored one, read_seq behind last_seq, last_seq behind the messages, so
\* that the stored unread count is never negative (conversations.go:207).  With
\* it, the types.
EachIsBehind ==
    /\ ReadTypeOK
    /\ read <= last /\ last <= Newest
    /\ meta # None => meta <= last
    /\ mark # None => mark <= read

\* Cached metadata with an old last_seq is about to be dropped, unless a reader
\* selected it before the UPDATE, CreateConv cached it late, the reconciliation
\* moved last_seq, or the drop was lost: only these wait for the key to expire
\* (cache.go:152).
OldMetaIsExcused == meta # None /\ meta < last => del # {} \/ excused

Seen(key, row) == IF key = None THEN row ELSE key

\* The open chat ends up with nothing unread, for whoever reads the rows and
\* for whoever reads the caches, although MarkRead clamps to a last_seq that is
\* late and readers write old values back (app_state.dart:577); and last_seq ends
\* up at the newest message, unless just its UPDATE failed or was lost with the
\* process: the reconciliation may leave it so for ever (compensation.go:251).
UnreadClears ==
    <>[](/\ read = last /\ Seen(meta, last) = Seen(mark, read)
         /\ last = Newest \/ Newest \in missed)
=============================================================================
