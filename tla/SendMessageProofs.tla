------------------------ MODULE SendMessageProofs ------------------------
(***************************************************************************)
(* Proofs about SendMessage for any number of attempts, messages and       *)
(* instances and any failures.  The argument is the unique key: a row is   *)
(* written once, by the transaction that holds its key, and never changes, *)
(* so an answer read from the table, or given after the own commit, stays  *)
(* true.                                                                   *)
(***************************************************************************)
EXTENDS SendMessage, TLAPS

\* A transaction that is through its INSERT holds the key, and no row has it.
KeyOK ==
    /\ \A m \in Msgs : lock[m] # None => row[m] = None
    /\ \A a \in Attempts : pc[a] \in {"local", "commit"} => lock[msg[a]] = a

\* An attempt that saw the duplicate, or its own commit, relies on the row; one
\* that did not begin has no answer.
RowOK ==
    /\ \A a \in Attempts : pc[a] \in {"dup", "stored"} => row[msg[a]] # None
    /\ \A a \in Attempts : pc[a] = "push" => row[msg[a]] = a
    /\ \A a \in Attempts : pc[a] = "new" => answer[a] = None /\ a \notin pushed

\* Without Redis there are no marks.
NoRedisOK == AnswerIsStored /\ (~redis => \A m \in Msgs : mark[m] = None)

IInv == TypeOK /\ KeyOK /\ RowOK /\ OnlyStoredIsPushed /\ NoRedisOK

-----------------------------------------------------------------------------
\* Nothing is stored, marked or answered at the start.
LEMMA InitIInv == Init => IInv
BY SendAssumption DEF Init, IInv, TypeOK, Stages, KeyOK, RowOK, OnlyStoredIsPushed,
   NoRedisOK, AnswerIsStored, Answered

\* What the invariant says of one attempt in progress.
LEMMA BusyFacts ==
    ASSUME IInv, NEW a \in Attempts, pc[a] # "new"
    PROVE  msg[a] \in Msgs /\ a # None /\ a # Failed
BY SendAssumption DEF IInv, TypeOK

\* An attempt that moves on without touching the table, to a place where
\* nothing is expected of it, or with an answer that is stored.
LEMMA MoveIInv ==
    ASSUME IInv, NEW a \in Attempts, UNCHANGED <<db, pushed, msg, at>>,
           pc[a] \in Stages \ {"new", "local", "commit", "undo", "rollback"},
           NEW l \in Stages \ {"new", "local", "commit", "dup", "stored", "push"},
           pc' = [pc EXCEPT ![a] = l],
           NEW v \in Attempts \cup {None, Failed},
           answer' = [answer EXCEPT ![a] = v],
           v \in {answer[a], Failed} \/ redis \/ row[msg[a]] = v,
           mark' \in [Msgs -> Attempts \cup {None}],
           ~redis => mark' = mark,
           redis' = redis, faults' \in 0..MaxFaults
    PROVE  IInv'
<1>1. TypeOK'
  BY DEF IInv, TypeOK, db
<1>2. KeyOK'
  BY DEF IInv, KeyOK, TypeOK, db
<1>3. RowOK'
  BY DEF IInv, RowOK, TypeOK, db
<1>4. OnlyStoredIsPushed'
  BY DEF IInv, OnlyStoredIsPushed, db
<1>5. NoRedisOK'
  BY SendAssumption DEF IInv, NoRedisOK, AnswerIsStored, Answered, TypeOK, db
<1> QED BY <1>1, <1>2, <1>3, <1>4, <1>5 DEF IInv

\* A failure is counted, a step without one is not.
LEMMA FaultsOK ==
    ASSUME TypeOK, Fault \/ NoFault \/ RedisFault
    PROVE  faults' \in 0..MaxFaults /\ redis' = redis
BY SendAssumption DEF TypeOK, Fault, NoFault, RedisFault, env

\* An attempt that goes on without an answer.
LEMMA GotoIInv ==
    ASSUME IInv, NEW a \in Attempts, UNCHANGED <<db, pushed>>,
           pc[a] \in Stages \ {"new", "local", "commit", "undo", "rollback"},
           NEW l \in Stages \ {"new", "local", "commit", "dup", "stored", "push"},
           Goto(a, l),
           mark' \in [Msgs -> Attempts \cup {None}],
           ~redis => mark' = mark,
           Fault \/ NoFault \/ RedisFault
    PROVE  IInv'
<1>1. faults' \in 0..MaxFaults /\ redis' = redis
  BY FaultsOK DEF IInv
<1>2. answer[a] \in Attempts \cup {None, Failed} /\ answer' = [answer EXCEPT ![a] = answer[a]]
  BY DEF IInv, TypeOK, Goto
<1>3. UNCHANGED <<db, pushed, msg, at>> /\ pc' = [pc EXCEPT ![a] = l]
  BY DEF Goto
<1> QED BY <1>1, <1>2, <1>3, MoveIInv

\* An attempt that returns: an error, a stored row or what Redis said.
LEMMA ReplyIInv ==
    ASSUME IInv, NEW a \in Attempts, UNCHANGED <<db, pushed, mark>>,
           pc[a] \in Stages \ {"new", "local", "commit", "undo", "rollback"},
           NEW v \in Attempts \cup {None, Failed}, Reply(a, v),
           v = Failed \/ redis \/ row[msg[a]] = v,
           Fault \/ NoFault \/ RedisFault
    PROVE  IInv'
<1>1. faults' \in 0..MaxFaults /\ redis' = redis
  BY FaultsOK DEF IInv
<1>2. /\ UNCHANGED <<db, pushed, msg, at>> /\ pc' = [pc EXCEPT ![a] = "done"]
      /\ answer' = [answer EXCEPT ![a] = v]
      /\ mark' = mark /\ mark \in [Msgs -> Attempts \cup {None}]
      /\ "done" \in Stages \ {"new", "local", "commit", "dup", "stored", "push"}
  BY DEF Reply, IInv, TypeOK, Stages
<1> QED BY <1>1, <1>2, MoveIInv

\* A client sends.
LEMMA SendIInv ==
    ASSUME IInv, NEW a \in Attempts, NEW m \in Msgs, NEW i \in Insts, Send(a, m, i)
    PROVE  IInv'
<1>1. /\ pc[a] = "new" /\ pc' = [pc EXCEPT ![a] = "look"]
      /\ msg' = [msg EXCEPT ![a] = m] /\ at' = [at EXCEPT ![a] = i]
      /\ UNCHANGED <<mark, row, lock, answer, pushed, redis, faults>>
  BY DEF Send, NoFault, env, db
<1>2. ASSUME NEW n \in Msgs, lock[n] = a PROVE FALSE
  <2>1. lock[n] # None
    BY <1>2, SendAssumption
  <2>2. pc[a] \in {"local", "commit", "undo", "rollback"}
    BY <1>2, <2>1 DEF IInv, TypeOK
  <2> QED BY <1>1, <2>2
<1>3. TypeOK'
  <2>1. \A n \in Msgs : lock'[n] # None =>
          msg'[lock'[n]] = n /\ pc'[lock'[n]] \in {"local", "commit", "undo", "rollback"}
    BY <1>1, <1>2 DEF IInv, TypeOK
  <2>2. m # None
    BY SendAssumption
  <2>3. \A b \in Attempts : pc'[b] = "new" <=> msg'[b] = None
    BY <1>1, <2>2 DEF IInv, TypeOK
  <2> QED BY <1>1, <2>1, <2>3 DEF IInv, TypeOK, Stages
<1>4. KeyOK'
  BY <1>1 DEF IInv, KeyOK, TypeOK
<1>5. RowOK'
  BY <1>1 DEF IInv, RowOK, TypeOK
<1>6. OnlyStoredIsPushed' /\ NoRedisOK'
  <2>1. a \notin pushed /\ ~Answered(a)
    BY <1>1, SendAssumption DEF IInv, RowOK, Answered
  <2> QED
    BY <1>1, <2>1 DEF IInv, TypeOK, OnlyStoredIsPushed, NoRedisOK, AnswerIsStored, Answered
<1> QED BY <1>3, <1>4, <1>5, <1>6 DEF IInv

\* The look at Redis, before or after the mark was tried.
LEMMA RedisIInv ==
    ASSUME IInv, NEW a \in Attempts, NEW l \in {"alloc", "query"},
           pc[a] \in {"look", "again"}, Hit(a) \/ Miss(a, l), UNCHANGED <<mark, db, pushed>>
    PROVE  IInv'
<1>1. msg[a] \in Msgs /\ mark[msg[a]] \in Attempts \cup {None}
  BY BusyFacts DEF IInv, TypeOK
<1>2. CASE Hit(a)
  BY <1>1, <1>2, ReplyIInv DEF Hit, Stages
<1>3. CASE Miss(a, l)
  BY <1>3, GotoIInv DEF Miss, Stages, IInv, TypeOK
<1> QED BY <1>2, <1>3

\* The steps before the transaction.
LEMMA EarlyIInv ==
    ASSUME IInv, NEW a \in Attempts,
           Look(a) \/ AllocIds(a) \/ Again(a) \/ Query(a) \/ BeginTx(a)
    PROVE  IInv'
<1>1. mark \in [Msgs -> Attempts \cup {None}]
  BY DEF IInv, TypeOK
<1>2. CASE Look(a)
  BY <1>1, <1>2, RedisIInv, GotoIInv DEF Look, Stages
<1>3. CASE AllocIds(a)
  BY <1>1, <1>3, GotoIInv, ReplyIInv DEF AllocIds, Stages
<1>4. CASE Again(a)
  BY <1>4, RedisIInv DEF Again
<1>5. CASE Query(a)
  <2>1. msg[a] \in Msgs /\ row[msg[a]] \in Attempts \cup {None}
    BY <1>5, BusyFacts DEF Query, IInv, TypeOK
  <2> QED BY <1>1, <1>5, <2>1, GotoIInv, ReplyIInv DEF Query, Stages
<1>6. CASE BeginTx(a)
  BY <1>1, <1>6, GotoIInv, ReplyIInv DEF BeginTx, Stages
<1> QED BY <1>2, <1>3, <1>4, <1>5, <1>6

\* IdemPut
LEMMA PutIInv == ASSUME IInv, NEW a \in Attempts, Put(a) PROVE IInv'
<1>1. UNCHANGED <<db, pushed>> /\ pc[a] = "put"
  BY DEF Put
<1>2. mark' \in [Msgs -> Attempts \cup {None}] /\ (~redis => mark' = mark)
  BY DEF Put, SetMarkNX, IInv, TypeOK
<1>3. Goto(a, "begin") \/ Goto(a, "again")
  BY DEF Put, SetMarkNX
<1>4. Fault \/ NoFault \/ RedisFault
  BY DEF Put, SetMarkNX
<1> QED BY <1>1, <1>2, <1>3, <1>4, GotoIInv DEF Stages

\* INSERT takes the key of a message that has no row.
LEMMA InsertIInv == ASSUME IInv, NEW a \in Attempts, Insert(a) PROVE IInv'
<1>1. msg[a] \in Msgs /\ pc[a] = "insert"
  BY BusyFacts DEF Insert
<1>2. CASE Goto(a, "undo") /\ Fault /\ UNCHANGED lock
  BY <1>1, <1>2, GotoIInv DEF Insert, Stages, db, IInv, TypeOK
<1>3. CASE Duplicate(a) /\ Goto(a, "dup") /\ UNCHANGED lock /\ NoFault
  BY <1>1, <1>3, SendAssumption
     DEF IInv, TypeOK, Stages, KeyOK, RowOK, OnlyStoredIsPushed, NoRedisOK,
         AnswerIsStored, Answered, Insert, Duplicate, Goto, NoFault, env
<1>4. CASE /\ ~Duplicate(a) /\ lock[msg[a]] = None /\ Goto(a, "local") /\ NoFault
           /\ lock' = [lock EXCEPT ![msg[a]] = a]
  <2>1. TypeOK'
    BY <1>1, <1>4, SendAssumption DEF IInv, TypeOK, Stages, Insert, Goto, NoFault, env
  <2>2. KeyOK'
    BY <1>1, <1>4, SendAssumption
       DEF IInv, TypeOK, KeyOK, Insert, Goto, Duplicate
  <2>3. RowOK' /\ OnlyStoredIsPushed' /\ NoRedisOK'
    BY <1>1, <1>4
       DEF IInv, TypeOK, RowOK, OnlyStoredIsPushed, NoRedisOK, AnswerIsStored, Answered,
           Insert, Goto, NoFault, env
  <2> QED BY <2>1, <2>2, <2>3 DEF IInv
<1> QED BY <1>2, <1>3, <1>4 DEF Insert

\* INSERT of the local_message row
LEMMA InsertLocalIInv == ASSUME IInv, NEW a \in Attempts, InsertLocal(a) PROVE IInv'
<1>1. faults' \in 0..MaxFaults /\ redis' = redis
  BY FaultsOK DEF IInv, InsertLocal
<1> QED
  BY <1>1, SendAssumption
     DEF IInv, TypeOK, Stages, KeyOK, RowOK, OnlyStoredIsPushed, NoRedisOK, AnswerIsStored,
         Answered, InsertLocal, Goto, db

\* The commit writes a row that was not there: no other row changes, and no
\* row that was there.
LEMMA CommitIInv == ASSUME IInv, NEW a \in Attempts, Commit(a) PROVE IInv'
<1>1. msg[a] \in Msgs /\ pc[a] = "commit" /\ a # None
  BY BusyFacts DEF Commit
<1>2. lock[msg[a]] = a /\ row[msg[a]] = None
  BY <1>1 DEF IInv, KeyOK
<1>3. row' = row \/ row' = [row EXCEPT ![msg[a]] = a]
  BY DEF Commit
<1>4. \A m \in Msgs : row[m] # None => row'[m] = row[m]
  BY <1>1, <1>2, <1>3 DEF IInv, TypeOK
<1>5. faults' \in 0..MaxFaults /\ redis' = redis
  BY FaultsOK DEF IInv, Commit
<1>6. /\ UNCHANGED <<mark, pushed, msg, at, answer>>
      /\ lock' = [lock EXCEPT ![msg[a]] = None]
      /\ \/ pc' = [pc EXCEPT ![a] = "push"] /\ row' = [row EXCEPT ![msg[a]] = a]
         \/ pc' = [pc EXCEPT ![a] = "undo"]
  BY DEF Commit, Goto
<1>7. TypeOK'
  BY <1>1, <1>2, <1>3, <1>5, <1>6 DEF IInv, TypeOK, Stages
<1>8. KeyOK'
  <2>1. \A m \in Msgs : lock'[m] # None => row'[m] = None
    BY <1>1, <1>3, <1>6 DEF IInv, KeyOK, TypeOK
  <2>2. \A b \in Attempts : pc'[b] \in {"local", "commit"} => lock'[msg'[b]] = b
    <3>1. TAKE b \in Attempts
    <3>2. HAVE pc'[b] \in {"local", "commit"}
    <3>3. b # a /\ pc[b] \in {"local", "commit"}
      BY <1>6, <3>2 DEF IInv, TypeOK
    <3>4. lock[msg[b]] = b /\ msg[b] \in Msgs
      BY <3>3, BusyFacts DEF IInv, KeyOK
    <3> QED BY <1>1, <1>2, <1>6, <3>3, <3>4 DEF IInv, TypeOK
  <2> QED BY <2>1, <2>2 DEF KeyOK
<1>9. RowOK'
  <2>1. ASSUME NEW b \in Attempts, pc'[b] \in {"dup", "stored"} PROVE row'[msg'[b]] # None
    <3>1. pc[b] = pc'[b]
      BY <1>6, <2>1 DEF IInv, TypeOK
    <3>2. msg[b] \in Msgs /\ row[msg[b]] # None
      BY <2>1, <3>1, BusyFacts DEF IInv, RowOK
    <3> QED BY <1>4, <1>6, <3>2
  <2>2. ASSUME NEW b \in Attempts, pc'[b] = "push" PROVE row'[msg'[b]] = b
    <3>1. CASE b = a
      BY <1>1, <1>6, <2>2, <3>1 DEF IInv, TypeOK
    <3>2. CASE b # a
      <4>1. msg[b] \in Msgs /\ row[msg[b]] = b /\ b # None
        BY <1>6, <2>2, <3>2, BusyFacts DEF IInv, RowOK, TypeOK
      <4> QED BY <1>4, <1>6, <4>1
    <3> QED BY <3>1, <3>2
  <2>3. ASSUME NEW b \in Attempts, pc'[b] = "new" PROVE answer'[b] = None /\ b \notin pushed'
    BY <1>6, <2>3 DEF IInv, RowOK, TypeOK
  <2> QED BY <2>1, <2>2, <2>3 DEF RowOK
<1>10. OnlyStoredIsPushed'
  <2>1. \A b \in pushed : msg[b] \in Msgs /\ b # None /\ row[msg[b]] = b
    BY BusyFacts DEF IInv, OnlyStoredIsPushed, RowOK, TypeOK
  <2> QED BY <1>4, <1>6, <2>1 DEF OnlyStoredIsPushed
<1>11. NoRedisOK'
  <2>1. ASSUME ~redis, NEW b \in Attempts, Answered(b) PROVE row'[msg[b]] = answer[b]
    <3>1. row[msg[b]] = answer[b] /\ answer[b] # None
      BY <2>1, SendAssumption DEF IInv, NoRedisOK, AnswerIsStored, Answered
    <3>2. msg[b] \in Msgs
      BY <3>1, BusyFacts DEF IInv, RowOK
    <3> QED BY <1>4, <3>1, <3>2
  <2> QED BY <1>5, <1>6, <2>1 DEF IInv, NoRedisOK, AnswerIsStored, Answered
<1> QED BY <1>7, <1>8, <1>9, <1>10, <1>11 DEF IInv

\* The error paths, before the deferred rollback and with it.
LEMMA UndoIInv ==
    ASSUME IInv, NEW a \in Attempts, Undo(a) \/ Rollback(a) \/ DelDup(a) PROVE IInv'
<1>1. faults' \in 0..MaxFaults /\ redis' = redis
  BY FaultsOK DEF IInv, Undo, DelDup, Del, Rollback
<1>2. pc[a] \in {"undo", "rollback", "dup"} /\ msg[a] \in Msgs
  BY BusyFacts DEF Undo, Rollback, DelDup
<1>3. CASE Undo(a)
  BY <1>1, <1>2, <1>3
     DEF IInv, TypeOK, Stages, KeyOK, RowOK, OnlyStoredIsPushed, NoRedisOK, AnswerIsStored,
         Answered, Undo, Del, Goto, db
<1>4. CASE Rollback(a)
  <2>1. /\ UNCHANGED <<mark, row, msg, at, pushed>> /\ pc' = [pc EXCEPT ![a] = "done"]
        /\ answer' = [answer EXCEPT ![a] = Failed] /\ pc[a] = "rollback"
        /\ lock' = [lock EXCEPT ![msg[a]] = IF lock[msg[a]] = a THEN None ELSE lock[msg[a]]]
    BY <1>4 DEF Rollback, ReleaseLock, Reply
  <2>2. TypeOK'
    BY <1>1, <1>2, <2>1 DEF IInv, TypeOK, Stages
  <2>3. KeyOK'
    <3>1. \A m \in Msgs : lock'[m] # None => row'[m] = None
      BY <1>2, <2>1 DEF IInv, KeyOK, TypeOK
    <3>2. \A b \in Attempts : pc'[b] \in {"local", "commit"} => lock'[msg'[b]] = b
      <4>1. \A b \in Attempts : pc[b] # "new" => msg[b] \in Msgs
        BY BusyFacts
      <4> QED BY <1>2, <2>1, <4>1 DEF IInv, KeyOK, TypeOK
    <3> QED BY <3>1, <3>2 DEF KeyOK
  <2>4. RowOK' /\ OnlyStoredIsPushed' /\ NoRedisOK'
    BY <1>1, <2>1, SendAssumption
       DEF IInv, TypeOK, RowOK, OnlyStoredIsPushed, NoRedisOK, AnswerIsStored, Answered
  <2> QED BY <2>2, <2>3, <2>4 DEF IInv
<1>5. CASE DelDup(a)
  BY <1>1, <1>2, <1>5
     DEF IInv, TypeOK, Stages, KeyOK, RowOK, OnlyStoredIsPushed, NoRedisOK, AnswerIsStored,
         Answered, DelDup, Del, Goto, db
<1> QED BY <1>3, <1>4, <1>5

\* The duplicate is answered with the row.
LEMMA AnswerStoredIInv == ASSUME IInv, NEW a \in Attempts, AnswerStored(a) PROVE IInv'
<1>1. msg[a] \in Msgs /\ row[msg[a]] \in Attempts \cup {None}
  BY BusyFacts DEF AnswerStored, IInv, TypeOK
<1> QED BY <1>1, ReplyIInv DEF AnswerStored, StoredIds, Stages

\* The own commit is answered and pushed.
LEMMA PushIInv == ASSUME IInv, NEW a \in Attempts, Push(a) PROVE IInv'
<1>1. row[msg[a]] = a /\ msg[a] \in Msgs /\ pc[a] = "push"
  BY BusyFacts DEF Push, IInv, RowOK
<1> QED
  BY <1>1, SendAssumption
     DEF IInv, TypeOK, Stages, KeyOK, RowOK, OnlyStoredIsPushed, NoRedisOK, AnswerIsStored,
         Answered, Push, Reply, NoFault, env, db

\* A crash ends calls with an error and frees their keys.
LEMMA CrashIInv == ASSUME IInv, NEW i \in Insts, Crash(i) PROVE IInv'
<1> DEFINE gone == {a \in Attempts : Busy(a) /\ at[a] = i}
<1>1. /\ pc' = [a \in Attempts |-> IF a \in gone THEN "done" ELSE pc[a]]
      /\ answer' = [a \in Attempts |-> IF a \in gone THEN Failed ELSE answer[a]]
      /\ lock' = [m \in Msgs |-> IF lock[m] \in gone THEN None ELSE lock[m]]
      /\ UNCHANGED <<mark, row, msg, at, pushed>>
  BY DEF Crash
<1>2. faults' \in 0..MaxFaults /\ redis' = redis
  BY FaultsOK DEF IInv, Crash
<1>3. \A a \in gone : pc[a] # "new"
  BY DEF Busy
<1>4. TypeOK'
  BY <1>1, <1>2, <1>3 DEF IInv, TypeOK, Stages
<1>5. KeyOK'
  <2>1. \A a \in Attempts : pc[a] # "new" => msg[a] \in Msgs
    BY BusyFacts
  <2> QED BY <1>1, <2>1 DEF IInv, KeyOK, TypeOK
<1>6. RowOK' /\ OnlyStoredIsPushed' /\ NoRedisOK'
  BY <1>1, <1>2, SendAssumption
     DEF IInv, TypeOK, RowOK, OnlyStoredIsPushed, NoRedisOK, AnswerIsStored, Answered
<1> QED BY <1>4, <1>5, <1>6 DEF IInv

\* A mark expires.
LEMMA ExpireIInv == ASSUME IInv, NEW m \in Msgs, Expire(m) PROVE IInv'
<1>1. faults' \in 0..MaxFaults /\ redis' = redis
  BY FaultsOK DEF IInv, Expire
<1> QED
  BY <1>1 DEF IInv, TypeOK, KeyOK, RowOK, OnlyStoredIsPushed, NoRedisOK, AnswerIsStored,
     Answered, Expire, db, loc

-----------------------------------------------------------------------------
\* The invariant is inductive.
LEMMA StepIInv == IInv /\ [Next]_vars => IInv'
<1> SUFFICES ASSUME IInv, [Next]_vars PROVE IInv'
  OBVIOUS
<1>1. ASSUME NEW a \in Attempts, Step(a) PROVE IInv'
  BY <1>1, EarlyIInv, PutIInv, InsertIInv, InsertLocalIInv, CommitIInv, UndoIInv,
     AnswerStoredIInv, PushIInv DEF Step
<1>2. CASE UNCHANGED vars
  BY <1>2 DEF IInv, TypeOK, KeyOK, RowOK, OnlyStoredIsPushed, NoRedisOK, AnswerIsStored,
     Answered, vars, env, db, loc
<1> QED BY <1>1, <1>2, SendIInv, CrashIInv, ExpireIInv DEF Next

\* The inductive invariant holds in every reachable state.
LEMMA Invariant == Spec => []IInv
BY InitIInv, StepIInv, PTL DEF Spec

\* Types, and the key of a message is held only by a transaction in progress.
THEOREM TypeCorrect == Spec => []TypeOK
<1>1. IInv => TypeOK
  BY DEF IInv
<1> QED BY <1>1, Invariant, PTL

\* A message is pushed by SendMessage only from the attempt whose row is in the
\* table: once, whatever retries, marks, failures and crashes there are.
THEOREM PushedOnce == Spec => []OnlyStoredIsPushed
<1>1. IInv => OnlyStoredIsPushed
  BY DEF IInv
<1> QED BY <1>1, Invariant, PTL

\* "优化层可缺席，唯一键是正确性来源" (README.md:18): without Redis every answer of
\* SendMessage is the stored row.
THEOREM UniqueKeyDecides == Spec => []AnswerIsStored
<1>1. IInv => AnswerIsStored
  BY DEF IInv, NoRedisOK
<1> QED BY <1>1, Invariant, PTL

-----------------------------------------------------------------------------
\* With Redis and no failure the first mark of a message decides: it stays, the
\* attempt that set it is the only one that goes on to the table, all others
\* find it and return it, and the paths of an error or a duplicate are not taken.
MarkDecides ==
    faults = 0 /\ redis =>
      /\ \A m \in Msgs : row[m] # None => row[m] = mark[m]
      /\ \A a \in Attempts :
           /\ pc[a] \notin {"query", "undo", "rollback", "dup", "stored"}
           /\ pc[a] = "again" => mark[msg[a]] # None
           /\ pc[a] \in {"begin", "insert", "local", "commit", "push"} => mark[msg[a]] = a
           /\ pc[a] \in {"begin", "insert"} => row[msg[a]] = None
           /\ Answered(a) => mark[msg[a]] = answer[a]

\* No mark is set at the start.
LEMMA InitMarkDecides == Init => MarkDecides
BY SendAssumption DEF Init, MarkDecides, Answered

\* An attempt moves and the table and the marks stay as they are.
LEMMA MoveMarkDecides ==
    ASSUME IInv, MarkDecides, NEW a \in Attempts, UNCHANGED <<mark, row, msg>>,
           faults = 0, redis,
           NEW l \in Stages \ {"query", "undo", "rollback", "dup", "stored"},
           pc' = [pc EXCEPT ![a] = l],
           NEW v \in Attempts \cup {None, Failed},
           answer' = [answer EXCEPT ![a] = v],
           v \in Attempts => mark[msg[a]] = v,
           l = "again" => mark[msg[a]] # None,
           l \in {"begin", "insert", "local", "commit", "push"} => mark[msg[a]] = a,
           l \in {"begin", "insert"} => row[msg[a]] = None
    PROVE  MarkDecides'
BY DEF IInv, TypeOK, MarkDecides, Answered

\* As long as nothing fails, the first mark decides.
LEMMA StepMarkDecides ==
    ASSUME IInv, MarkDecides, [Next]_vars PROVE MarkDecides'
<1> SUFFICES ASSUME faults' = 0, redis' PROVE MarkDecides'
  BY DEF MarkDecides
<1>0. faults \in Nat /\ MaxFaults \in Nat /\ faults + 1 # 0
  BY SendAssumption DEF IInv, TypeOK
<1>1. ~Fault /\ (RedisFault => NoFault)
  BY <1>0 DEF Fault, RedisFault
<1>2. ASSUME NoFault PROVE faults = 0 /\ redis
  BY <1>2 DEF NoFault, env
<1>3. ASSUME NEW a \in Attempts, NEW m \in Msgs, NEW i \in Insts, Send(a, m, i)
      PROVE  MarkDecides'
  <2>1. ~Answered(a)
    BY <1>3, SendAssumption DEF Send, IInv, RowOK, Answered
  <2> QED BY <1>2, <1>3, <2>1 DEF Send, IInv, TypeOK, MarkDecides, Answered, db
<1>4. ASSUME NEW a \in Attempts, Step(a) PROVE MarkDecides'
  <2>1. faults = 0 /\ redis
    BY <1>1, <1>2, <1>4
       DEF Step, Look, AllocIds, Put, Again, Query, BeginTx, Insert, InsertLocal, Commit, Push,
           Undo, Rollback, DelDup, AnswerStored, Hit, Miss, SetMarkNX, Del
  <2>2. /\ pc[a] \notin {"query", "undo", "rollback", "dup", "stored"}
        /\ pc[a] = "again" => mark[msg[a]] # None
        /\ pc[a] \in {"begin", "insert", "local", "commit", "push"} => mark[msg[a]] = a
        /\ pc[a] \in {"begin", "insert"} => row[msg[a]] = None
        /\ Answered(a) => mark[msg[a]] = answer[a]
    BY <2>1 DEF MarkDecides
  <2>3. /\ answer \in [Attempts -> Attempts \cup {None, Failed}]
        /\ mark \in [Msgs -> Attempts \cup {None}]
        /\ row \in [Msgs -> Attempts \cup {None}]
        /\ msg \in [Attempts -> Msgs \cup {None}]
        /\ pc \in [Attempts -> Stages]
    BY DEF IInv, TypeOK
  <2>4. ASSUME NEW l \in Stages \ {"query", "undo", "rollback", "dup", "stored"}, Goto(a, l),
               UNCHANGED <<mark, row>>,
               l = "again" => mark[msg[a]] # None,
               l \in {"begin", "insert", "local", "commit", "push"} => mark[msg[a]] = a,
               l \in {"begin", "insert"} => row[msg[a]] = None
        PROVE  MarkDecides'
    <3>1. /\ answer[a] \in Attempts \cup {None, Failed}
          /\ answer' = [answer EXCEPT ![a] = answer[a]]
          /\ answer[a] \in Attempts => mark[msg[a]] = answer[a]
      BY <2>2, <2>3, <2>4 DEF Goto, Answered
    <3> QED BY <2>1, <2>4, <3>1, MoveMarkDecides DEF Goto
  <2>5. ASSUME NEW v \in Attempts \cup {None, Failed}, Reply(a, v),
               UNCHANGED <<mark, row>>, v \in Attempts => mark[msg[a]] = v
        PROVE  MarkDecides'
    <3>1. "done" \in Stages \ {"query", "undo", "rollback", "dup", "stored"}
      BY DEF Stages
    <3> QED BY <2>1, <2>5, <3>1, MoveMarkDecides DEF Reply
  <2>6. CASE Look(a)
    <3>1. msg[a] \in Msgs
      BY <2>6, BusyFacts DEF Look
    <3>2. CASE Hit(a)
      BY <2>3, <2>5, <2>6, <3>1, <3>2 DEF Hit, Look, db
    <3>3. CASE Goto(a, "alloc")
      BY <2>4, <2>6, <3>3 DEF Look, db, Stages
    <3> QED BY <2>6, <3>2, <3>3 DEF Look, Miss
  <2>7. CASE AllocIds(a)
    BY <1>1, <2>4, <2>7 DEF AllocIds, db, Stages
  <2>8. CASE Put(a)
    <3>1. msg[a] \in Msgs /\ a # None
      BY <2>8, BusyFacts DEF Put
    <3>2. SetMarkNX(a) /\ UNCHANGED <<row, lock>>
      BY <1>1, <2>1, <2>8, <1>0 DEF Put, RedisFault, db, Fault
    <3>3. CASE mark[msg[a]] = None
      <4>1. /\ mark' = [mark EXCEPT ![msg[a]] = a] /\ pc' = [pc EXCEPT ![a] = "begin"]
            /\ UNCHANGED <<msg, answer, row>>
        BY <3>2, <3>3 DEF SetMarkNX, Goto
      <4>2. row[msg[a]] = None
        BY <2>1, <3>1, <3>3 DEF MarkDecides
      <4>3. ASSUME NEW b \in Attempts, b # a, msg[b] = msg[a]
            PROVE  ~Answered(b) /\ pc[b] \notin {"begin", "insert", "local", "commit", "push"}
        BY <2>1, <3>3, <4>3, SendAssumption DEF MarkDecides, Answered
      <4>4. ~Answered(a)
        BY <2>2, <3>3, SendAssumption DEF Answered
      <4> QED BY <2>1, <2>3, <2>8, <3>1, <4>1, <4>2, <4>3, <4>4
              DEF MarkDecides, Answered, Put
    <3>4. CASE mark[msg[a]] # None
      BY <2>4, <2>8, <3>2, <3>4 DEF SetMarkNX, Stages
    <3> QED BY <3>3, <3>4
  <2>9. CASE Again(a)
    <3>1. msg[a] \in Msgs /\ mark[msg[a]] # None
      BY <2>2, <2>9, BusyFacts DEF Again
    <3>2. Hit(a) /\ UNCHANGED <<mark, row>>
      BY <1>1, <2>1, <2>9, <3>1, <1>0 DEF Again, Miss, RedisFault, Fault, db
    <3> QED BY <2>3, <2>5, <3>1, <3>2 DEF Hit
  <2>10. CASE BeginTx(a)
    BY <1>1, <2>2, <2>4, <2>10 DEF BeginTx, db, Stages
  <2>11. CASE Insert(a)
    BY <1>1, <2>2, <2>4, <2>11 DEF Insert, Duplicate, Stages
  <2>12. CASE InsertLocal(a)
    BY <1>1, <2>2, <2>4, <2>12 DEF InsertLocal, db, Stages
  <2>13. CASE Commit(a)
    <3>1. msg[a] \in Msgs /\ a # None /\ mark[msg[a]] = a
      BY <2>2, <2>13, BusyFacts DEF Commit
    <3>2. /\ pc' = [pc EXCEPT ![a] = "push"] /\ row' = [row EXCEPT ![msg[a]] = a]
          /\ UNCHANGED <<mark, msg, answer>>
      BY <1>1, <2>13 DEF Commit, Goto
    <3>3. ASSUME NEW b \in Attempts, b # a, msg[b] = msg[a]
          PROVE  pc[b] \notin {"begin", "insert"}
      BY <2>1, <3>1, <3>3 DEF MarkDecides
    <3> QED BY <2>1, <2>3, <3>1, <3>2, <3>3 DEF MarkDecides, Answered
  <2>14. CASE Push(a)
    BY <2>2, <2>5, <2>14 DEF Push, db
  <2> QED
    BY <1>4, <2>2, <2>6, <2>7, <2>8, <2>9, <2>10, <2>11, <2>12, <2>13, <2>14
       DEF Step, Query, Undo, Rollback, DelDup, AnswerStored
<1>5. CASE UNCHANGED vars
  BY <1>5 DEF vars, db, loc, env, MarkDecides, Answered
<1> QED BY <1>1, <1>3, <1>4, <1>5 DEF Next, Crash, Expire

\* Each client message id has one answer: however two attempts race through the
\* filters, the mark and the unique key, as long as nothing fails they are told
\* the same msg_id and seq.
THEOREM RacersAgree == Spec => []AnswersAgree
<1>1. Init => IInv /\ MarkDecides
  BY InitIInv, InitMarkDecides
<1>2. IInv /\ MarkDecides /\ [Next]_vars => IInv' /\ MarkDecides'
  BY StepIInv, StepMarkDecides
<1>3. IInv /\ MarkDecides => AnswersAgree
  BY DEF IInv, NoRedisOK, AnswerIsStored, AnswersAgree, MarkDecides
<1> QED BY <1>1, <1>2, <1>3, PTL DEF Spec
=============================================================================
