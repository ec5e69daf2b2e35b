--------------------------- MODULE SendMessage ---------------------------
(***************************************************************************)
(* internal/message/service.go: SendMessage, from the idempotency filters  *)
(* to the push, for attempts that carry client message ids of one          *)
(* conversation, in the instances of yim-message, with the Redis mark of   *)
(* internal/cache/cache.go and the message table with its unique key.      *)
(*                                                                         *)
(* An attempt is one call of SendMessage; it also names the (msg_id, seq)  *)
(* pair that the call is given, which no other call gets (SeqPrefetch).    *)
(* The Bloom filter may or may not contain a key: it knows nothing after a *)
(* restart and has false positives, so its answer is any Boolean.          *)
(***************************************************************************)
EXTENDS Integers

CONSTANTS Attempts,   \* calls of SendMessage, by members of the conversation
          Msgs,       \* client message ids
          Insts,      \* instances of yim-message
          None,
          Failed,     \* the answer is an error, or the caller hears nothing
          MaxFaults   \* bound: failures of the environment

ASSUME SendAssumption ==
    /\ None \notin Attempts /\ Failed \notin Attempts /\ None # Failed
    /\ None \notin Msgs \cup Insts
    /\ MaxFaults \in Nat

VARIABLES
    mark,     \* per message: the value of idem:{conv}:{client_msg_id}
    row,      \* per message: the attempt whose row is committed
    lock,     \* per message: the attempt whose transaction holds the key
    pc,       \* per attempt: where it is
    msg, at,  \* per attempt: its message and its instance
    answer,   \* per attempt: what SendMessage returned
    pushed,   \* attempts that produced a push event
    redis,    \* is there a Redis?  Without one none of its operations succeeds
    faults    \* failures so far

db == <<row, lock>>
loc == <<pc, msg, at, answer>>
env == <<redis, faults>>
vars == <<mark, db, loc, pushed, env>>

Stages == {"new", "look", "alloc", "put", "again", "query", "begin", "insert", "local",
           "commit", "undo", "rollback", "dup", "stored", "push", "done"}

Init ==
    /\ mark = [m \in Msgs |-> None]
    /\ row = [m \in Msgs |-> None] /\ lock = [m \in Msgs |-> None]
    /\ pc = [a \in Attempts |-> "new"]
    /\ msg = [a \in Attempts |-> None] /\ at = [a \in Attempts |-> None]
    /\ answer = [a \in Attempts |-> None]
    /\ pushed = {} /\ redis \in BOOLEAN /\ faults = 0

Fault == faults < MaxFaults /\ faults' = faults + 1 /\ UNCHANGED redis
NoFault == UNCHANGED env
RedisFault == IF redis THEN Fault ELSE NoFault

Goto(a, l) == pc' = [pc EXCEPT ![a] = l] /\ UNCHANGED <<msg, at, answer>>
Reply(a, v) ==
    /\ pc' = [pc EXCEPT ![a] = "done"] /\ answer' = [answer EXCEPT ![a] = v]
    /\ UNCHANGED <<msg, at>>

-----------------------------------------------------------------------------
\* A client sends, or sends again, while other attempts may be in progress.
Send(a, m, i) ==
    /\ pc[a] = "new"
    /\ pc' = [pc EXCEPT ![a] = "look"]
    /\ msg' = [msg EXCEPT ![a] = m] /\ at' = [at EXCEPT ![a] = i]
    /\ NoFault
    /\ UNCHANGED <<mark, db, answer, pushed>>

\* IdemGet: a hit is returned as the answer.
Hit(a) ==
    /\ redis /\ mark[msg[a]] # None
    /\ Reply(a, mark[msg[a]]) /\ NoFault

\* No mark, or no Redis.
Miss(a, l) ==
    /\ \/ redis /\ mark[msg[a]] = None /\ NoFault
       \/ RedisFault
    /\ Goto(a, l)

\* Filters 1 and 2: Bloom filter, then Redis.
Look(a) ==
    /\ pc[a] = "look"
    /\ \/ Goto(a, "alloc") /\ NoFault
       \/ Hit(a)
       \/ Miss(a, "alloc")
    /\ UNCHANGED <<mark, db, pushed>>

\* seq and msg_id, or an error of the Seq Svc
AllocIds(a) ==
    /\ pc[a] = "alloc"
    /\ (Goto(a, "put") /\ NoFault) \/ (Reply(a, Failed) /\ Fault)
    /\ UNCHANGED <<mark, db, pushed>>

\* The mark is written by SET, not by SETNX.
SetMark(a) == mark' = [mark EXCEPT ![msg[a]] = a] /\ Goto(a, "begin") /\ NoFault

SetMarkNX(a) ==
    IF mark[msg[a]] = None
    THEN mark' = [mark EXCEPT ![msg[a]] = a] /\ Goto(a, "begin") /\ NoFault
    ELSE UNCHANGED mark /\ Goto(a, "again") /\ NoFault

\* IdemPut: an error, with or without an effect, is ignored.  A SETNX whose reply
\* was lost is sent again by the Redis client, and finds its own mark there.
Put(a) ==
    /\ pc[a] = "put"
    /\ \/ redis /\ SetMarkNX(a)
       \/ /\ RedisFault /\ Goto(a, "begin")
          /\ \/ UNCHANGED mark
             \/ redis /\ mark[msg[a]] = None /\ mark' = [mark EXCEPT ![msg[a]] = a]
       \/ /\ redis /\ mark[msg[a]] = None /\ mark' = [mark EXCEPT ![msg[a]] = a]
          /\ Goto(a, "again") /\ Fault
    /\ UNCHANGED <<db, pushed>>

\* The mark was there: its value is the answer; without it, the table is asked.
Again(a) ==
    /\ pc[a] = "again"
    /\ Hit(a) \/ Miss(a, "query")
    /\ UNCHANGED <<mark, db, pushed>>

\* queryByClientMsgID: a row that is not there yet does not stop the insert.
Query(a) ==
    /\ pc[a] = "query"
    /\ \/ row[msg[a]] # None /\ Reply(a, row[msg[a]]) /\ NoFault
       \/ row[msg[a]] = None /\ Goto(a, "begin") /\ NoFault
       \/ Goto(a, "begin") /\ Fault
    /\ UNCHANGED <<mark, db, pushed>>

-----------------------------------------------------------------------------
(* The transaction *)

\* BeginTx: its error returns at once.
BeginTx(a) ==
    /\ pc[a] = "begin"
    /\ (Goto(a, "insert") /\ NoFault) \/ (Reply(a, Failed) /\ Fault)
    /\ UNCHANGED <<mark, db, pushed>>

\* The duplicate key of a message of the same client is not recognised.
NeverDuplicate(a) == FALSE

Duplicate(a) == row[msg[a]] # None

\* INSERT of the message.  It waits while another transaction holds the key.
Insert(a) ==
    /\ pc[a] = "insert"
    /\ \/ /\ lock[msg[a]] = None /\ NoFault
          /\ IF Duplicate(a) THEN Goto(a, "dup") /\ UNCHANGED lock
             ELSE Goto(a, "local") /\ lock' = [lock EXCEPT ![msg[a]] = a]
       \/ Goto(a, "undo") /\ Fault /\ UNCHANGED lock
    /\ UNCHANGED <<mark, row, pushed>>

\* INSERT of the local_message row
InsertLocal(a) ==
    /\ pc[a] = "local"
    /\ (Goto(a, "commit") /\ NoFault) \/ (Goto(a, "undo") /\ Fault)
    /\ UNCHANGED <<mark, db, pushed>>

\* A failed commit may have committed.
Commit(a) ==
    /\ pc[a] = "commit"
    /\ \/ Goto(a, "push") /\ NoFault /\ row' = [row EXCEPT ![msg[a]] = a]
       \/ Goto(a, "undo") /\ Fault /\ row' \in {row, [row EXCEPT ![msg[a]] = a]}
    /\ lock' = [lock EXCEPT ![msg[a]] = None]
    /\ UNCHANGED <<mark, pushed>>

-----------------------------------------------------------------------------
(* The error paths *)

\* IdemDel, whose own error is ignored, then on to l
Del(a, l) ==
    /\ \/ redis /\ mark' = [mark EXCEPT ![msg[a]] = None] /\ NoFault
       \/ RedisFault /\ UNCHANGED mark
    /\ Goto(a, l)

Undo(a) == pc[a] = "undo" /\ Del(a, "rollback") /\ UNCHANGED <<db, pushed>>
DelDup(a) == pc[a] = "dup" /\ Del(a, "stored") /\ UNCHANGED <<db, pushed>>

\* No rollback is deferred.
KeepLock(a) == UNCHANGED lock

ReleaseLock(a) ==
    lock' = [lock EXCEPT ![msg[a]] = IF @ = a THEN None ELSE @]

\* The deferred Rollback, then the error is returned.
Rollback(a) ==
    /\ pc[a] = "rollback"
    /\ ReleaseLock(a)
    /\ Reply(a, Failed)
    /\ NoFault
    /\ UNCHANGED <<mark, row, pushed>>

\* The duplicate is answered with its own ids.
OwnIds(a) == a

StoredIds(a) == row[msg[a]]

\* queryByClientMsgID after the duplicate key error
AnswerStored(a) ==
    /\ pc[a] = "stored"
    /\ (Reply(a, StoredIds(a)) /\ NoFault) \/ (Reply(a, Failed) /\ Fault)
    /\ UNCHANGED <<mark, db, pushed>>

\* After the commit: Bloom filter, recent messages, last_seq, push, answer
Push(a) ==
    /\ pc[a] = "push"
    /\ pushed' = pushed \cup {a}
    /\ Reply(a, a)
    /\ NoFault
    /\ UNCHANGED <<mark, db>>

-----------------------------------------------------------------------------
Busy(a) == pc[a] \notin {"new", "done"}

\* Instance i dies: its calls end and its transactions roll back.
Crash(i) ==
    LET gone == {a \in Attempts : Busy(a) /\ at[a] = i} IN
    /\ gone # {} /\ Fault
    /\ pc' = [a \in Attempts |-> IF a \in gone THEN "done" ELSE pc[a]]
    /\ answer' = [a \in Attempts |-> IF a \in gone THEN Failed ELSE answer[a]]
    /\ lock' = [m \in Msgs |-> IF lock[m] \in gone THEN None ELSE lock[m]]
    /\ UNCHANGED <<mark, row, msg, at, pushed>>

\* The mark lives for 24 hours, longer than any call.
Expire(m) ==
    /\ mark[m] # None /\ \A a \in Attempts : msg[a] = m => ~Busy(a)
    /\ Fault
    /\ mark' = [mark EXCEPT ![m] = None]
    /\ UNCHANGED <<db, loc, pushed>>

Step(a) ==
    \/ Look(a) \/ AllocIds(a) \/ Put(a) \/ Again(a) \/ Query(a)
    \/ BeginTx(a) \/ Insert(a) \/ InsertLocal(a) \/ Commit(a) \/ Push(a)
    \/ Undo(a) \/ Rollback(a) \/ DelDup(a) \/ AnswerStored(a)

Next ==
    \/ \E a \in Attempts : Step(a) \/ \E m \in Msgs, i \in Insts : Send(a, m, i)
    \/ \E i \in Insts : Crash(i)
    \/ \E m \in Msgs : Expire(m)

Spec == Init /\ [][Next]_vars

\* Calls run; Redis and the database answer or fail.
FairSpec == Spec /\ \A a \in Attempts : WF_vars(Step(a))

-----------------------------------------------------------------------------
(* Properties *)

\* Types, and the row lock: it is held exactly by the transaction between its
\* INSERT and its end, so never by a call that returned.
TypeOK ==
    /\ mark \in [Msgs -> Attempts \cup {None}]
    /\ row \in [Msgs -> Attempts \cup {None}] /\ lock \in [Msgs -> Attempts \cup {None}]
    /\ pc \in [Attempts -> Stages]
    /\ msg \in [Attempts -> Msgs \cup {None}] /\ at \in [Attempts -> Insts \cup {None}]
    /\ answer \in [Attempts -> Attempts \cup {None, Failed}]
    /\ pushed \subseteq Attempts /\ redis \in BOOLEAN /\ faults \in 0..MaxFaults
    /\ \A a \in Attempts : pc[a] = "new" <=> msg[a] = None
    /\ \A m \in Msgs : lock[m] # None =>
         msg[lock[m]] = m /\ pc[lock[m]] \in {"local", "commit", "undo", "rollback"}

Answered(a) == answer[a] \in Attempts

\* As long as nothing fails, two attempts to send one message are told the same
\* msg_id and seq, in whatever way they race through the mark and the unique key.
AnswersAgree ==
    faults = 0 =>
      \A a, b \in Attempts :
        Answered(a) /\ Answered(b) /\ msg[a] = msg[b] => answer[a] = answer[b]

\* The answer is the row in the table, at the latest when the attempt that it
\* names is through, unless something fails.
AnswerGetsStored ==
    \A b \in Attempts :
      (\E a \in Attempts : answer[a] = b) ~> (\E m \in Msgs : row[m] = b) \/ faults > 0

\* Without Redis an answer names a row that is in the table, whatever retries,
\* failed or lost commits and crashes there are: the unique key decides.
AnswerIsStored == ~redis => \A a \in Attempts : Answered(a) => row[msg[a]] = answer[a]

\* A message is pushed by the attempt that stored it and by no other, however
\* often it is sent.
OnlyStoredIsPushed == \A a \in pushed : row[msg[a]] = a

\* Every call returns: no call waits for the unique key of a transaction that
\* nobody will end.
CallsReturn == \A a \in Attempts : Busy(a) ~> ~Busy(a)
=============================================================================
