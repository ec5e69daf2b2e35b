------------------------- MODULE RelationProofs -------------------------
(***************************************************************************)
(* Proofs about RelationSvc for any number of people, group members and    *)
(* concurrent calls.  Friends: what a transaction found out about the rows *)
(* that it has locked stays true until it ends.  Groups: until the seeding *)
(* call commits there is no member and no owner, so that no other change   *)
(* passes its role check; afterwards the creator is the owner and no call  *)
(* that passed its check names the creator.                                *)
(***************************************************************************)
EXTENDS RelationSvc, TLAPS

(* Friends *)

\* A call is about two people.
TwoPeople(s) ==
    at[s] # "idle" => op[s] \in People /\ peer[s] \in People /\ op[s] # peer[s]

\* The rows of friendships that the statements of s have been through
Done(s) ==
    IF at[s] \in {"befriend2", "delete2"} THEN {Mine(s)}
    ELSE IF at[s] = "leave" \/ (at[s] = "decide" /\ accept[s]) THEN {Mine(s), Theirs(s)}
    ELSE {}

\* These rows are locked, and touched are the ones to insert or to delete.
Transaction(s) ==
    /\ \A r \in Done(s) : <<"friends", r>> \in locks[s]
    /\ touched[s] = IF at[s] \in {"befriend2", "decide"} THEN Done(s) \ friends
                    ELSE Done(s) \cap friends
    /\ at[s] \in {"befriend1", "befriend2"} => accept[s]

\* The request that is being handled is locked and pending.
Pending(s) ==
    at[s] \in {"befriend1", "befriend2", "decide"} =>
        <<"request", Theirs(s)>> \in locks[s] /\ request[Theirs(s)] = "pending"

Exclusive == \A s, t \in Sessions : s # t => locks[s] \cap locks[t] = {}

FInv ==
    /\ FriendshipIsMutual /\ Exclusive
    /\ \A s \in Sessions : TwoPeople(s) /\ Transaction(s) /\ Pending(s)

\* The two rows of a call are two rows, each the other way round.
LEMMA TwoRows ==
    ASSUME NEW s, op[s] \in People, peer[s] \in People, op[s] # peer[s]
    PROVE  /\ Mine(s) \in Pairs /\ Theirs(s) \in Pairs
           /\ Swap(Mine(s)) = Theirs(s) /\ Swap(Theirs(s)) = Mine(s)
BY DEF Mine, Theirs, Pairs, Swap

\* Turned round twice, a pair is itself.
LEMMA SwapTwice == ASSUME NEW r \in Pairs PROVE Swap(r) \in Pairs /\ Swap(Swap(r)) = r
BY DEF Pairs, Swap

\* The step of s leaves the locals of the others.
OthersStay(s) ==
    \A t \in Sessions \ {s} :
      /\ at'[t] = at[t] /\ op'[t] = op[t] /\ peer'[t] = peer[t] /\ accept'[t] = accept[t]
      /\ locks'[t] = locks[t] /\ touched'[t] = touched[t]

\* It changes no row that another call has locked.
RowsStay(s) ==
    \A t \in Sessions \ {s} :
      /\ \A r \in Pairs : <<"request", r>> \in locks[t] => request'[r] = request[r]
      /\ \A r \in Pairs : <<"friends", r>> \in locks[t] => (r \in friends' <=> r \in friends)

\* What the invariant says of the others stays true.
LEMMA OthersFInv ==
    ASSUME FInv, NEW s \in Sessions, OthersStay(s), RowsStay(s)
    PROVE  \A t \in Sessions \ {s} : TwoPeople(t)' /\ Transaction(t)' /\ Pending(t)'
<1> TAKE t \in Sessions \ {s}
<1>1. /\ at'[t] = at[t] /\ op'[t] = op[t] /\ peer'[t] = peer[t] /\ accept'[t] = accept[t]
      /\ locks'[t] = locks[t] /\ touched'[t] = touched[t]
  BY DEF OthersStay
<1>2. TwoPeople(t) /\ Transaction(t) /\ Pending(t)
  BY DEF FInv
<1>3. Mine(t)' = Mine(t) /\ Theirs(t)' = Theirs(t) /\ Done(t)' = Done(t)
  BY <1>1 DEF Mine, Theirs, Done
<1>4. TwoPeople(t)'
  BY <1>1, <1>2 DEF TwoPeople
<1>5. at[t] # "idle" => Mine(t) \in Pairs /\ Theirs(t) \in Pairs
  BY <1>2, TwoRows DEF TwoPeople
<1>6. Transaction(t)'
  <2>1. \A r \in Done(t) : r \in friends' <=> r \in friends
    <3>1. \A r \in Done(t) : r \in Pairs /\ <<"friends", r>> \in locks[t]
      BY <1>2, <1>5 DEF Transaction, Done
    <3> QED BY <3>1 DEF RowsStay
  <2> QED BY <1>1, <1>2, <1>3, <2>1 DEF Transaction
<1>7. Pending(t)'
  BY <1>1, <1>2, <1>3, <1>5 DEF Pending, RowsStay
<1> QED BY <1>4, <1>6, <1>7

\* Tables that stay typed and mutual.
TablesOK ==
    /\ request \in [Pairs -> {"none", "pending", "accepted", "rejected"}]
    /\ friends \subseteq Pairs /\ \A r \in friends : Swap(r) \in friends

\* Without changes the tables are as they should be, for everyone.
LEMMA SameTables ==
    ASSUME FInv, UNCHANGED <<request, friends>>, NEW s \in Sessions
    PROVE  TablesOK' /\ RowsStay(s)
BY DEF FInv, FriendshipIsMutual, FriendsTypeOK, TablesOK, RowsStay

\* A call ends.
LEMMA EndFInv ==
    ASSUME FInv, NEW s \in Sessions, End(s), TablesOK', RowsStay(s) PROVE FInv'
<1>1. /\ at' = [at EXCEPT ![s] = "idle"] /\ op' = [op EXCEPT ![s] = Nobody]
      /\ peer' = [peer EXCEPT ![s] = Nobody] /\ accept' = [accept EXCEPT ![s] = FALSE]
      /\ locks' = [locks EXCEPT ![s] = {}] /\ touched' = [touched EXCEPT ![s] = {}]
  BY DEF End, Call
<1>2. FriendsTypeOK
  BY DEF FInv, FriendshipIsMutual
<1>3. FriendshipIsMutual'
  BY <1>1, <1>2 DEF FriendshipIsMutual, FriendsTypeOK, TablesOK
<1>4. Exclusive'
  BY <1>1, <1>2 DEF Exclusive, FInv, FriendsTypeOK
<1>5. OthersStay(s)
  BY <1>1, <1>2 DEF OthersStay, FriendsTypeOK
<1>6. TwoPeople(s)' /\ Transaction(s)' /\ Pending(s)'
  BY <1>1, <1>2 DEF FriendsTypeOK, TwoPeople, Transaction, Pending, Done
<1> QED BY <1>3, <1>4, <1>5, <1>6, OthersFInv DEF FInv

\* A call begins, or goes on without touching rows.
LEMMA GoFInv ==
    ASSUME FInv, NEW s \in Sessions, NEW l \in {"check", "opposite", "insert", "lock", "delete1"},
           at[s] \in {"idle", "check", "opposite"},
           NEW o \in People, NEW q \in People, o # q, NEW a \in BOOLEAN, Call(s, l, o, q, a),
           UNCHANGED <<request, friends, locks, touched>>
    PROVE  FInv'
<1>1. /\ at' = [at EXCEPT ![s] = l] /\ op' = [op EXCEPT ![s] = o]
      /\ peer' = [peer EXCEPT ![s] = q] /\ accept' = [accept EXCEPT ![s] = a]
  BY DEF Call
<1>2. FriendsTypeOK
  BY DEF FInv, FriendshipIsMutual
<1>3. FriendshipIsMutual'
  BY <1>1, <1>2 DEF FInv, FriendshipIsMutual, FriendsTypeOK
<1>4. Exclusive'
  BY DEF Exclusive, FInv
<1>5. OthersStay(s)
  BY <1>1, <1>2 DEF OthersStay, FriendsTypeOK
<1>6. touched[s] = {}
  BY DEF FInv, Transaction, Done
<1>7. TwoPeople(s)' /\ Transaction(s)' /\ Pending(s)'
  BY <1>1, <1>2, <1>6 DEF FriendsTypeOK, TwoPeople, Transaction, Pending, Done
<1> QED BY <1>3, <1>4, <1>5, <1>7, SameTables, OthersFInv DEF FInv

\* SendFriendRequest up to its INSERT
LEMMA SendFInv ==
    ASSUME FInv, NEW s \in Sessions, CheckFriend(s) \/ Opposite(s) \/ Insert(s) PROVE FInv'
<1>1. at[s] \in {"check", "opposite", "insert"}
  BY DEF CheckFriend, Opposite, Insert
<1>2. op[s] \in People /\ peer[s] \in People /\ op[s] # peer[s]
  BY <1>1 DEF FInv, TwoPeople
<1>3. FriendsTypeOK
  BY DEF FInv, FriendshipIsMutual
<1>4. /\ op = [op EXCEPT ![s] = op[s]] /\ peer = [peer EXCEPT ![s] = peer[s]]
      /\ accept = [accept EXCEPT ![s] = accept[s]] /\ accept[s] \in BOOLEAN
  BY <1>3 DEF FriendsTypeOK
<1>6. CASE CheckFriend(s)
  <2>1. CASE End(s)
    BY <1>6, <2>1, SameTables, EndFInv DEF CheckFriend
  <2>2. CASE Go(s, "opposite") /\ UNCHANGED <<op, peer, accept, locks, touched>>
    <3>1. Call(s, "opposite", op[s], peer[s], accept[s])
      BY <1>4, <2>2 DEF Call, Go
    <3> QED BY <1>2, <1>4, <1>6, <2>2, <3>1, GoFInv DEF CheckFriend
  <2> QED BY <1>6, <2>1, <2>2 DEF CheckFriend
<1>7. CASE Opposite(s)
  <2>1. CASE Call(s, "lock", peer[s], op[s], TRUE)
    BY <1>2, <1>7, <2>1, GoFInv DEF Opposite
  <2>2. CASE Go(s, "insert") /\ UNCHANGED <<op, peer, accept>>
    <3>1. Call(s, "insert", op[s], peer[s], accept[s])
      BY <1>4, <2>2 DEF Call, Go
    <3> QED BY <1>2, <1>4, <1>7, <3>1, GoFInv DEF Opposite
  <2> QED BY <1>7, <2>1, <2>2 DEF Opposite
<1>8. CASE Insert(s)
  <2>1. request' = [request EXCEPT ![Mine(s)] = Renewed(request[Mine(s)])] /\ friends' = friends
    BY <1>8 DEF Insert
  <2>2. Mine(s) \in Pairs
    BY <1>2, TwoRows
  <2>3. Renewed(request[Mine(s)]) \in {"none", "pending", "accepted", "rejected"}
    BY <1>3, <2>2 DEF FriendsTypeOK, Renewed
  <2>4. TablesOK'
    BY <1>3, <2>1, <2>2, <2>3 DEF FInv, FriendshipIsMutual, FriendsTypeOK, TablesOK
  <2>5. RowsStay(s)
    BY <1>3, <1>8, <2>1, <2>2 DEF RowsStay, Insert, Free, FriendsTypeOK
  <2> QED BY <1>8, <2>4, <2>5, EndFInv DEF Insert
<1> QED BY <1>6, <1>7, <1>8

\* The request is locked: it stays pending.
LEMMA LockRequestFInv == ASSUME FInv, NEW s \in Sessions, LockRequest(s) PROVE FInv'
<1>1. FriendsTypeOK
  BY DEF FInv, FriendshipIsMutual
<1>2. at[s] = "lock" /\ op[s] \in People /\ peer[s] \in People /\ op[s] # peer[s]
  BY DEF FInv, TwoPeople, LockRequest
<1>3. CASE End(s)
  BY <1>3, SameTables, EndFInv DEF LockRequest
<1>4. CASE /\ request[Theirs(s)] = "pending" /\ Lock(s, <<"request", Theirs(s)>>)
           /\ Go(s, IF accept[s] THEN "befriend1" ELSE "decide")
           /\ UNCHANGED <<op, peer, accept, touched, request, friends>>
  <2> DEFINE row == <<"request", Theirs(s)>>
  <2>1. row \in {"request", "friends"} \X Pairs
    BY <1>2, TwoRows
  <2>2. /\ locks' = [locks EXCEPT ![s] = locks[s] \cup {row}]
        /\ \A t \in Sessions \ {s} : row \notin locks[t]
        /\ at' = [at EXCEPT ![s] = IF accept[s] THEN "befriend1" ELSE "decide"]
    BY <1>4 DEF Lock, Free, Go
  <2>3. Mine(s)' = Mine(s) /\ Theirs(s)' = Theirs(s)
    BY <1>4 DEF Mine, Theirs
  <2>4. touched[s] = {}
    BY <1>2 DEF FInv, Transaction, Done
  <2>5. TwoPeople(s)' /\ Transaction(s)' /\ Pending(s)'
    <3>1. Done(s)' = {} /\ accept'[s] = accept[s]
      BY <1>1, <1>4, <2>2 DEF Done, FriendsTypeOK
    <3>2. TwoPeople(s)'
      BY <1>2, <1>4 DEF TwoPeople
    <3>3. Transaction(s)'
      BY <1>1, <1>4, <2>2, <2>4, <3>1 DEF Transaction, FriendsTypeOK
    <3>4. Pending(s)'
      BY <1>1, <1>4, <2>2, <2>3 DEF Pending, FriendsTypeOK
    <3> QED BY <3>2, <3>3, <3>4
  <2> HIDE DEF row
  <2>6. FriendshipIsMutual'
    BY <1>1, <1>4, <2>1, <2>2 DEF FInv, FriendshipIsMutual, FriendsTypeOK
  <2>7. Exclusive'
    BY <1>1, <2>2 DEF FInv, Exclusive, FriendsTypeOK
  <2>8. OthersStay(s)
    BY <1>1, <1>4, <2>2 DEF OthersStay, FriendsTypeOK
  <2> QED BY <1>4, <2>5, <2>6, <2>7, <2>8, SameTables, OthersFInv DEF FInv
<1> QED BY <1>3, <1>4 DEF LockRequest, ReadsLocked

\* A statement about a row of friendships: the row is locked from now on, and
\* was not locked by another call.
LEMMA StatementFInv ==
    ASSUME FInv, NEW s \in Sessions, NEW r \in {Mine(s), Theirs(s)}, NEW changes,
           NEW l \in {"befriend2", "decide", "delete2", "leave"}, Go(s, l),
           Statement(s, r, changes),
           at[s] # "idle", UNCHANGED <<request, friends>>,
           Pending(s)', Transaction(s)'
    PROVE  FInv'
<1>1. FriendsTypeOK
  BY DEF FInv, FriendshipIsMutual
<1>2. op[s] \in People /\ peer[s] \in People /\ op[s] # peer[s]
  BY DEF FInv, TwoPeople
<1> DEFINE row == <<"friends", r>>
<1>3. /\ locks' = [locks EXCEPT ![s] = locks[s] \cup {row}]
      /\ \A t \in Sessions \ {s} : row \notin locks[t]
      /\ at' = [at EXCEPT ![s] = l]
      /\ touched' = [touched EXCEPT ![s] = touched[s] \cup ({r} \cap changes)]
      /\ UNCHANGED <<op, peer, accept>>
  BY DEF Statement, Lock, Free, Go
<1>4. row \in {"request", "friends"} \X Pairs /\ r \in Pairs
  BY <1>2, TwoRows
<1> HIDE DEF row
<1>5. FriendshipIsMutual'
  BY <1>1, <1>3, <1>4 DEF FInv, FriendshipIsMutual, FriendsTypeOK
<1>6. Exclusive'
  BY <1>1, <1>3 DEF FInv, Exclusive, FriendsTypeOK
<1>7. OthersStay(s)
  BY <1>1, <1>3 DEF OthersStay, FriendsTypeOK
<1>8. TwoPeople(s)'
  BY <1>2, <1>3 DEF TwoPeople
<1> QED BY <1>5, <1>6, <1>7, <1>8, SameTables, OthersFInv DEF FInv

\* INSERT IGNORE, of one row or the other
LEMMA BefriendFInv == ASSUME FInv, NEW s \in Sessions, Befriend(s) PROVE FInv'
<1>1. FriendsTypeOK /\ Transaction(s) /\ Pending(s) /\ accept[s]
  BY DEF FInv, FriendshipIsMutual, Transaction, Befriend
<1>2. at[s] \in {"befriend1", "befriend2"} /\ UNCHANGED <<op, peer, accept, request, friends>>
  BY DEF Befriend, Statement
<1>3. op[s] \in People /\ peer[s] \in People /\ op[s] # peer[s]
  BY <1>2 DEF FInv, TwoPeople
<1>4. Mine(s)' = Mine(s) /\ Theirs(s)' = Theirs(s) /\ Mine(s) \in Pairs /\ Theirs(s) \in Pairs
  BY <1>2, <1>3, TwoRows DEF Mine, Theirs
<1>5. /\ locks[s] \subseteq locks'[s] /\ at'[s] \in {"befriend2", "decide"}
      /\ at[s] = "befriend1" => at'[s] = "befriend2"
      /\ at[s] = "befriend2" => at'[s] = "decide"
  BY <1>1 DEF Befriend, Statement, Lock, Go, FriendsTypeOK
<1>6. Pending(s)'
  BY <1>1, <1>2, <1>4, <1>5 DEF Pending
<1>7. Transaction(s)'
  <2>1. CASE at[s] = "befriend1"
    <3>1. /\ Statement(s, Mine(s), Pairs \ friends) /\ touched[s] = {}
      BY <1>1, <2>1 DEF Befriend, Transaction, Done
    <3>2. /\ <<"friends", Mine(s)>> \in locks'[s] /\ touched'[s] = {Mine(s)} \cap (Pairs \ friends)
      BY <1>1, <3>1 DEF Statement, Lock, FriendsTypeOK
    <3>3. Done(s)' = {Mine(s)}
      BY <1>4, <1>5, <2>1 DEF Done
    <3> QED BY <1>1, <1>2, <1>4, <1>5, <2>1, <3>2, <3>3 DEF Transaction
  <2>2. CASE at[s] = "befriend2"
    <3>1. /\ Statement(s, Theirs(s), Pairs \ friends) /\ touched[s] = {Mine(s)} \ friends
          /\ <<"friends", Mine(s)>> \in locks[s]
      BY <1>1, <2>2 DEF Befriend, Transaction, Done
    <3>2. /\ <<"friends", Theirs(s)>> \in locks'[s] /\ <<"friends", Mine(s)>> \in locks'[s]
          /\ touched'[s] = ({Mine(s)} \ friends) \cup ({Theirs(s)} \cap (Pairs \ friends))
      BY <1>1, <3>1 DEF Statement, Lock, FriendsTypeOK
    <3>3. Done(s)' = {Mine(s), Theirs(s)}
      BY <1>1, <1>2, <1>4, <1>5, <2>2 DEF Done
    <3> QED BY <1>1, <1>2, <1>4, <1>5, <2>2, <3>2, <3>3 DEF Transaction
  <2> QED BY <1>2, <2>1, <2>2
<1> QED BY <1>2, <1>6, <1>7, StatementFInv DEF Befriend

\* DELETE of one row or the other
LEMMA DeleteRowFInv == ASSUME FInv, NEW s \in Sessions, DeleteRow(s) PROVE FInv'
<1>1. FriendsTypeOK /\ Transaction(s)
  BY DEF FInv, FriendshipIsMutual
<1>2. at[s] \in {"delete1", "delete2"} /\ UNCHANGED <<op, peer, accept, request, friends>>
  BY DEF DeleteRow, Statement, CommitDelete
<1>3. Mine(s)' = Mine(s) /\ Theirs(s)' = Theirs(s)
  BY <1>2 DEF Mine, Theirs
<1>4. /\ at'[s] \in {"delete2", "leave"}
      /\ at[s] = "delete1" => at'[s] = "delete2"
      /\ at[s] = "delete2" => at'[s] = "leave"
  BY <1>1 DEF DeleteRow, Statement, Lock, Go, FriendsTypeOK
<1>5. Pending(s)'
  BY <1>4 DEF Pending
<1>6. Transaction(s)'
  <2>1. CASE at[s] = "delete1"
    <3>1. Statement(s, Mine(s), friends) /\ touched[s] = {}
      BY <1>1, <2>1 DEF DeleteRow, Transaction, Done
    <3>2. /\ <<"friends", Mine(s)>> \in locks'[s] /\ touched'[s] = {Mine(s)} \cap friends
      BY <1>1, <3>1 DEF Statement, Lock, FriendsTypeOK
    <3>3. Done(s)' = {Mine(s)}
      BY <1>3, <1>4, <2>1 DEF Done
    <3> QED BY <1>2, <1>3, <1>4, <2>1, <3>2, <3>3 DEF Transaction
  <2>2. CASE at[s] = "delete2"
    <3>1. /\ Statement(s, Theirs(s), friends) /\ touched[s] = {Mine(s)} \cap friends
          /\ <<"friends", Mine(s)>> \in locks[s]
      BY <1>1, <2>2 DEF DeleteRow, Transaction, Done
    <3>2. /\ <<"friends", Theirs(s)>> \in locks'[s] /\ <<"friends", Mine(s)>> \in locks'[s]
          /\ touched'[s] = ({Mine(s)} \cap friends) \cup ({Theirs(s)} \cap friends)
      BY <1>1, <3>1 DEF Statement, Lock, FriendsTypeOK
    <3>3. Done(s)' = {Mine(s), Theirs(s)}
      BY <1>3, <1>4, <2>2 DEF Done
    <3> QED BY <1>2, <1>3, <1>4, <2>2, <3>2, <3>3 DEF Transaction
  <2> QED BY <1>2, <2>1, <2>2
<1> QED BY <1>2, <1>5, <1>6, StatementFInv DEF DeleteRow

\* Nobody else has locked the rows that s is about to change.
LEMMA OwnRows ==
    ASSUME FInv, NEW s \in Sessions, request' = request,
           \A r \in Pairs : r \notin Done(s) => (r \in friends' <=> r \in friends)
    PROVE  RowsStay(s)
BY DEF FInv, Transaction, Exclusive, RowsStay

\* The decision commits both rows of a friendship, or none.
LEMMA DecideFInv == ASSUME FInv, NEW s \in Sessions, Decide(s) PROVE FInv'
<1>1. FriendsTypeOK /\ Transaction(s) /\ Pending(s) /\ Exclusive
  BY DEF FInv, FriendshipIsMutual
<1>2. /\ at[s] = "decide" /\ op[s] \in People /\ peer[s] \in People /\ op[s] # peer[s]
      /\ friends' = friends \cup touched[s] /\ End(s)
      /\ request' = [request EXCEPT ![Theirs(s)] = IF accept[s] THEN "accepted" ELSE "rejected"]
  BY DEF FInv, TwoPeople, Decide
<1>3. /\ Mine(s) \in Pairs /\ Theirs(s) \in Pairs
      /\ Swap(Mine(s)) = Theirs(s) /\ Swap(Theirs(s)) = Mine(s)
  BY <1>2, TwoRows
<1>4. friends' = friends \cup Done(s) /\ Done(s) \in {{}, {Mine(s), Theirs(s)}}
  BY <1>1, <1>2 DEF Transaction, Done
<1>5. \A r \in friends : Swap(r) \in friends
  BY DEF FInv, FriendshipIsMutual
<1>6. TablesOK'
  <2>1. \A r \in friends' : Swap(r) \in friends'
    BY <1>3, <1>4, <1>5
  <2> QED BY <1>1, <1>2, <1>3, <1>4, <2>1 DEF FriendsTypeOK, TablesOK
<1>7. RowsStay(s)
  <2>1. \A t \in Sessions \ {s}, r \in Done(s) : <<"friends", r>> \notin locks[t]
    BY <1>1 DEF Transaction, Exclusive
  <2>2. \A t \in Sessions \ {s} : <<"request", Theirs(s)>> \notin locks[t]
    BY <1>1, <1>2 DEF Pending, Exclusive
  <2> QED BY <1>1, <1>2, <1>4, <2>1, <2>2 DEF RowsStay, FriendsTypeOK
<1> QED BY <1>2, <1>6, <1>7, EndFInv

\* The removal commits both rows.
LEMMA CommitDeleteFInv == ASSUME FInv, NEW s \in Sessions, CommitDelete(s) PROVE FInv'
<1>1. FriendsTypeOK /\ Transaction(s) /\ Exclusive
  BY DEF FInv, FriendshipIsMutual
<1>2. /\ at[s] = "leave" /\ op[s] \in People /\ peer[s] \in People /\ op[s] # peer[s]
      /\ friends' = friends \ touched[s] /\ End(s) /\ request' = request
  BY DEF FInv, TwoPeople, CommitDelete
<1>3. Swap(Mine(s)) = Theirs(s) /\ Swap(Theirs(s)) = Mine(s)
  BY <1>2, TwoRows
<1>4. friends' = friends \ Done(s) /\ Done(s) = {Mine(s), Theirs(s)}
  BY <1>1, <1>2 DEF Transaction, Done
<1>5. \A r \in friends' : Swap(r) \in friends'
  <2>1. \A r \in friends : Swap(r) \in friends /\ Swap(Swap(r)) = r
    BY <1>1, SwapTwice DEF FInv, FriendshipIsMutual, FriendsTypeOK
  <2> QED BY <1>3, <1>4, <2>1
<1>6. TablesOK'
  BY <1>1, <1>2, <1>4, <1>5 DEF FriendsTypeOK, TablesOK
<1>7. RowsStay(s)
  BY <1>2, <1>4, OwnRows
<1> QED BY <1>2, <1>6, <1>7, EndFInv

\* No call is in progress at the start.
LEMMA InitFInv == InitFriends => FInv
<1> SUFFICES ASSUME InitFriends PROVE FInv
  OBVIOUS
<1>1. FriendshipIsMutual
  BY DEF InitFriends, FriendshipIsMutual, FriendsTypeOK
<1>2. Exclusive
  BY DEF InitFriends, Exclusive
<1>3. \A s \in Sessions : TwoPeople(s) /\ Transaction(s) /\ Pending(s)
  BY DEF InitFriends, TwoPeople, Transaction, Pending, Done
<1> QED BY <1>1, <1>2, <1>3 DEF FInv

\* The invariant of the friends is inductive.
LEMMA StepFInv == FInv /\ [NextFriends]_friendVars => FInv'
<1> SUFFICES ASSUME FInv, [NextFriends]_friendVars PROVE FInv'
  OBVIOUS
<1>1. ASSUME NEW s \in Sessions, NEW x \in People, NEW y \in People,
             \/ Send(s, x, y) \/ Delete(s, x, y) \/ \E a \in BOOLEAN : Handle(s, x, y, a)
      PROVE  FInv'
  BY <1>1, GoFInv DEF Send, Delete, Handle
<1>2. ASSUME NEW s \in Sessions, GiveUp(s) PROVE FInv'
  BY <1>2, SameTables, EndFInv DEF GiveUp
<1>3. CASE UNCHANGED friendVars
  BY <1>3 DEF friendVars, FInv, FriendshipIsMutual, FriendsTypeOK, Exclusive, TwoPeople,
     Transaction, Pending, Done, Mine, Theirs
<1> QED
  BY <1>1, <1>2, <1>3, SendFInv, LockRequestFInv, BefriendFInv, DecideFInv, DeleteRowFInv,
     CommitDeleteFInv DEF NextFriends

\* A decided request changes only when it is rejected and sent again.
LEMMA StepDecided ==
    ASSUME FInv, [NextFriends]_friendVars, NEW r \in Pairs,
           request[r] \in {"accepted", "rejected"}, request'[r] # request[r]
    PROVE  request[r] = "rejected" /\ request'[r] = "pending"
<1>1. request \in [Pairs -> {"none", "pending", "accepted", "rejected"}]
  BY DEF FInv, FriendshipIsMutual, FriendsTypeOK
<1>2. ASSUME UNCHANGED request PROVE FALSE
  BY <1>2
<1>3. ASSUME NEW s \in Sessions, Insert(s)
      PROVE  request[r] = "rejected" /\ request'[r] = "pending"
  BY <1>1, <1>3 DEF Insert, Renewed
<1>4. ASSUME NEW s \in Sessions, Decide(s) PROVE FALSE
  <2>1. request[Theirs(s)] = "pending"
    BY <1>4 DEF Decide, FInv, Pending
  <2> QED BY <1>1, <1>4, <2>1 DEF Decide
<1> QED
  BY <1>2, <1>3, <1>4
     DEF NextFriends, friendVars, Send, Delete, Handle, CheckFriend, Opposite, LockRequest,
         Befriend, Statement, DeleteRow, CommitDelete, GiveUp

-----------------------------------------------------------------------------
(* Groups *)

\* What kind of call is at which step, and whom it names.
CallOK(s) ==
    /\ call[s] = "none" <=> step[s] = "idle"
    /\ step[s] # "idle" => created /\ by[s] \in Users
    /\ call[s] = "seed" => step[s] # "member"
    /\ call[s] = "add" => step[s] \notin {"cache", "member"}
    /\ call[s] = "kick" =>
         /\ by[s] \notin whom[s] /\ whom[s] # {}
         /\ step[s] \notin {"cache", "count", "member"}
    /\ call[s] = "quit" => whom[s] = {by[s]} /\ step[s] \notin {"cache", "count"}

\* What a call that got past its checks has found: an addition, that the group is
\* empty or has been seeded; a kick, that its caller once seeded it; a quit, that
\* its caller strayed or is not the only one who seeded it.
CheckOK(s) ==
    /\ Adds(s) /\ step[s] \in {"write", "mutate"} => empty[s] \/ seeders # {}
    /\ Adds(s) /\ step[s] = "mutate" /\ empty[s] => by[s] \in whom[s]
    /\ call[s] = "kick" /\ step[s] \in {"write", "mutate"} => by[s] \in seeders
    /\ call[s] = "quit" /\ step[s] \in {"write", "mutate"} =>
         by[s] \in strayed \/ \E u \in seeders : u # by[s]

\* A group has members only when someone seeded it, and who did is in it.
SeedersOK == seeders \subseteq changed /\ (Members # {} => seeders # {})

\* The group before it is created, and before anything in it changed
YoungOK ==
    /\ ~created => /\ Members = {} /\ changed = {} /\ cached = NoSet
                   /\ \A r \in Loaders : load[r] = NoSet
    /\ created /\ changed = {} => memberUids = Founders

\* A transaction that read member_uids
HasView(s) == step[s] = "mutate" \/ (Adds(s) /\ step[s] \in {"role", "write"})

\* What it read is still there, but for uids of calls that overlapped.
ViewOK(s) == HasView(s) => \A u \in Users \ overlapped : u \in view[s] <=> u \in memberUids

OverlapOK ==
    \A s, t \in Servers : s # t /\ Open(s) /\ Open(t) => whom[s] \cup whom[t] \subseteq overlapped

\* A loader that no commit made late has the members of the table.
LoadsOK == \A r \in Loaders : load[r] # NoSet /\ r \notin late => load[r] = memberUids

GInv ==
    /\ OneOwner /\ SeedersOK /\ YoungOK /\ OverlapOK /\ MembershipAgrees
    /\ \A s \in Servers : CallOK(s) /\ CheckOK(s) /\ ViewOK(s)
    /\ LoadsOK /\ OldMembersAreExcused

\* The step of s leaves the locals of the other calls.
ServersStay(s) ==
    \A t \in Servers \ {s} :
      /\ step'[t] = step[t] /\ call'[t] = call[t] /\ by'[t] = by[t]
      /\ whom'[t] = whom[t] /\ view'[t] = view[t] /\ empty'[t] = empty[t]

\* A step of s that changes no row.
LEMMA QuietGInv ==
    ASSUME GInv, NEW s \in Servers, created, UNCHANGED <<created, tables, load, late>>,
           GroupsTypeOK', ServersStay(s), strayed \subseteq strayed', overlapped \subseteq overlapped',
           CallOK(s)', CheckOK(s)', ViewOK(s)', OldMembersAreExcused',
           changed = {} => memberUids = Founders,
           Open(s)' => \A t \in Servers \ {s} : Open(t) => whom'[s] \cup whom[t] \subseteq overlapped'
    PROVE  GInv'
<1>1. UNCHANGED <<role, listed, memberUids, seeders, changed>>
  BY DEF tables
<1>2. Members' = Members /\ Owners' = Owners /\ Orphans' = Orphans
  BY <1>1 DEF Members, Owners, Orphans
<1>3. OneOwner' /\ SeedersOK' /\ YoungOK' /\ MembershipAgrees'
  BY <1>1, <1>2 DEF GInv, OneOwner, SeedersOK, YoungOK, MembershipAgrees
<1>4. ASSUME NEW t \in Servers \ {s} PROVE CallOK(t)' /\ CheckOK(t)' /\ ViewOK(t)'
  <2>1. /\ step'[t] = step[t] /\ call'[t] = call[t] /\ by'[t] = by[t]
        /\ whom'[t] = whom[t] /\ view'[t] = view[t] /\ empty'[t] = empty[t]
    BY DEF ServersStay
  <2>2. CallOK(t) /\ CheckOK(t) /\ ViewOK(t)
    BY DEF GInv
  <2>3. CallOK(t)'
    BY <2>1, <2>2 DEF CallOK
  <2>4. CheckOK(t)'
    BY <1>1, <2>1, <2>2 DEF CheckOK, Adds
  <2>5. ViewOK(t)'
    BY <1>1, <2>1, <2>2 DEF ViewOK, HasView, Adds
  <2> QED BY <2>3, <2>4, <2>5
<1>5. OverlapOK'
  <2>1. ASSUME NEW t \in Servers \ {s} PROVE Open(t)' = Open(t) /\ whom'[t] = whom[t]
    BY DEF ServersStay, Open, Adds
  <2> QED BY <2>1 DEF GInv, OverlapOK
<1>6. LoadsOK'
  BY <1>1 DEF GInv, LoadsOK
<1> QED BY <1>3, <1>4, <1>5, <1>6 DEF GInv

\* The copies are as they were, and no change was about to invalidate them.
LEMMA SameCache ==
    ASSUME GInv, NEW s \in Servers, step[s] # "invalidate", ServersStay(s),
           UNCHANGED <<cached, memberUids, excused>>
    PROVE  OldMembersAreExcused'
BY DEF GInv, OldMembersAreExcused, ServersStay

\* A call returns.
LEMMA ReturnGInv ==
    ASSUME GInv, NEW s \in Servers, step[s] # "idle", Return(s),
           UNCHANGED <<created, rows, load, overlapped, late>>,
           cached' \in (SUBSET Users) \cup {NoSet}, excused' \in BOOLEAN,
           ServersStay(s) => OldMembersAreExcused'
    PROVE  GInv'
<1>1. GroupsTypeOK
  BY DEF GInv, OneOwner
<1>2. /\ step' = [step EXCEPT ![s] = "idle"] /\ call' = [call EXCEPT ![s] = "none"]
      /\ by' = [by EXCEPT ![s] = NoOne] /\ whom' = [whom EXCEPT ![s] = {}]
      /\ todo' = [todo EXCEPT ![s] = {}] /\ view' = [view EXCEPT ![s] = {}]
      /\ empty' = [empty EXCEPT ![s] = FALSE]
  BY DEF Return, Label
<1>3. GroupsTypeOK' /\ UNCHANGED <<tables, strayed>>
  BY <1>1, <1>2 DEF GroupsTypeOK, Return, Label, rows, tables, Steps
<1>4. ServersStay(s)
  BY <1>1, <1>2 DEF GroupsTypeOK, ServersStay
<1>5. step'[s] = "idle" /\ call'[s] = "none"
  BY <1>1, <1>2 DEF GroupsTypeOK
<1>6. CallOK(s)' /\ CheckOK(s)' /\ ViewOK(s)' /\ ~Open(s)'
  BY <1>5 DEF CallOK, CheckOK, ViewOK, HasView, Open, Adds
<1>7. created /\ (changed = {} => memberUids = Founders)
  BY DEF GInv, CallOK, YoungOK
<1> QED BY <1>3, <1>4, <1>5, <1>6, <1>7, QuietGInv

\* A call begins.
LEMMA BeginGInv ==
    ASSUME GInv, NEW s \in Servers, NEW o \in Users,
           (\E w \in Picks : Add(s, o, w)) \/ (\E u \in Users : Kick(s, o, u)) \/ Quit(s, o)
    PROVE  GInv'
<1>1. GroupsTypeOK
  BY DEF GInv, OneOwner
<1>2. /\ created /\ UNCHANGED <<created, rows, load, late, overlapped, cached, excused>>
      /\ step[s] = "idle"
  BY DEF Add, Kick, Quit
<1>3. PICK w \in SUBSET Users, l \in {"count", "role"}, c \in {"add", "kick", "quit"} :
        /\ Begin(s, l, c, o, w)
        /\ c = "add" => l = "count"
        /\ c = "kick" => l = "role" /\ o \notin w /\ w # {}
        /\ c = "quit" => l = "role" /\ w = {o}
  <2>1. ASSUME NEW w \in Picks, Add(s, o, w) PROVE w \in SUBSET Users /\ Begin(s, "count", "add", o, w)
    BY <2>1, GroupsAssumption DEF Add
  <2>2. ASSUME NEW u \in Users, Kick(s, o, u)
        PROVE  {u} \in SUBSET Users /\ Begin(s, "role", "kick", o, {u}) /\ o \notin {u}
    BY <2>2 DEF Kick
  <2>3. ASSUME Quit(s, o) PROVE {o} \in SUBSET Users /\ Begin(s, "role", "quit", o, {o})
    BY <2>3 DEF Quit
  <2> QED BY <2>1, <2>2, <2>3
<1>4. /\ step' = [step EXCEPT ![s] = l] /\ call' = [call EXCEPT ![s] = c]
      /\ by' = [by EXCEPT ![s] = o] /\ whom' = [whom EXCEPT ![s] = w]
      /\ calls' = calls + 1 /\ UNCHANGED <<todo, view, empty>>
  BY <1>3 DEF Begin
<1>5. GroupsTypeOK' /\ UNCHANGED <<tables, strayed>>
  <2>1. calls' \in Nat
    BY <1>1, <1>4 DEF GroupsTypeOK
  <2> QED BY <1>1, <1>2, <1>4, <2>1 DEF GroupsTypeOK, rows, tables, Steps
<1>6. ServersStay(s)
  BY <1>1, <1>4 DEF GroupsTypeOK, ServersStay
<1>7. step'[s] = l /\ call'[s] = c /\ by'[s] = o /\ whom'[s] = w
  BY <1>1, <1>4 DEF GroupsTypeOK
<1>8. CallOK(s)' /\ CheckOK(s)' /\ ViewOK(s)' /\ ~Open(s)'
  <2>1. CallOK(s)'
    BY <1>2, <1>3, <1>7 DEF CallOK
  <2>2. CheckOK(s)'
    BY <1>3, <1>7 DEF CheckOK, Adds
  <2>3. ViewOK(s)' /\ ~Open(s)'
    BY <1>3, <1>7 DEF ViewOK, HasView, Open, Adds
  <2> QED BY <2>1, <2>2, <2>3
<1>9. OldMembersAreExcused' /\ (changed = {} => memberUids = Founders)
  BY <1>2, <1>5, <1>6, SameCache DEF tables, GInv, YoungOK
<1> QED BY <1>2, <1>5, <1>6, <1>7, <1>8, <1>9, QuietGInv

\* SetConvMeta stores the members with which the group was created.
LEMMA SetConvMetaGInv == ASSUME GInv, NEW s \in Servers, SetConvMeta(s) PROVE GInv'
<1>1. GroupsTypeOK /\ CallOK(s)
  BY DEF GInv, OneOwner
<1>2. /\ step[s] = "cache" /\ step' = [step EXCEPT ![s] = "count"]
      /\ UNCHANGED <<created, tables, strayed, load, late, overlapped>>
      /\ UNCHANGED <<call, by, whom, todo, view, empty, calls>>
  BY DEF SetConvMeta, Label, rows
<1>3. \/ cached' = Founders /\ excused' = (changed # {})
      \/ UNCHANGED <<cached, excused>>
  BY DEF SetConvMeta
<1>4. created /\ (changed = {} => memberUids = Founders)
  BY <1>1, <1>2 DEF CallOK, GInv, YoungOK
<1>5. GroupsTypeOK'
  <2>1. cached' \in (SUBSET Users) \cup {NoSet} /\ excused' \in BOOLEAN
    BY <1>1, <1>3, GroupsAssumption DEF GroupsTypeOK
  <2> QED BY <1>1, <1>2, <2>1 DEF GroupsTypeOK, tables, Steps
<1>6. ServersStay(s) /\ step'[s] = "count"
  BY <1>1, <1>2 DEF GroupsTypeOK, ServersStay
<1>7. CallOK(s)' /\ CheckOK(s)' /\ ViewOK(s)' /\ ~Open(s)'
  BY <1>1, <1>2, <1>6 DEF CallOK, CheckOK, ViewOK, HasView, Open, Adds
<1>8. OldMembersAreExcused'
  <2>1. CASE cached' = Founders /\ excused' = (changed # {})
    BY <1>2, <1>4, <2>1 DEF OldMembersAreExcused, tables
  <2>2. CASE UNCHANGED <<cached, excused>>
    BY <1>2, <1>6, <2>2, SameCache DEF tables
  <2> QED BY <1>3, <2>1, <2>2
<1> QED BY <1>2, <1>4, <1>5, <1>6, <1>7, <1>8, QuietGInv

\* What a transaction that starts adds to overlapped.
LEMMA StartsFacts ==
    ASSUME GroupsTypeOK, NEW s \in Servers, Starts(s)
    PROVE  /\ todo' \in [Servers -> SUBSET Users] /\ overlapped' \subseteq Users
           /\ overlapped \subseteq overlapped'
           /\ \A t \in Servers \ {s} : Open(t) => whom[s] \cup whom[t] \subseteq overlapped'
<1>1. \A t \in Servers : whom[t] \subseteq Users
  BY DEF GroupsTypeOK
<1>2. overlapped \subseteq overlapped'
  BY DEF Starts
<1>3. \A t \in Servers \ {s} : Open(t) => whom[s] \cup whom[t] \subseteq overlapped'
  BY DEF Starts
<1>4. overlapped' \subseteq Users
  BY <1>1 DEF Starts, GroupsTypeOK
<1>5. todo' \in [Servers -> SUBSET Users]
  BY <1>1 DEF Starts, GroupsTypeOK
<1> QED BY <1>2, <1>3, <1>4, <1>5

\* Adding members starts with a look at whether there are any.
LEMMA CountGInv == ASSUME GInv, NEW s \in Servers, Count(s) PROVE GInv'
<1>1. GroupsTypeOK /\ CallOK(s) /\ CheckOK(s)
  BY DEF GInv, OneOwner
<1> DEFINE l == IF Members = {} THEN "write" ELSE "role"
<1>2. /\ step[s] = "count" /\ step' = [step EXCEPT ![s] = l]
      /\ view' = [view EXCEPT ![s] = memberUids] /\ empty' = [empty EXCEPT ![s] = (Members = {})]
      /\ Starts(s)
      /\ UNCHANGED <<created, tables, strayed, cached, call, by, whom, calls, load, late, excused>>
  BY DEF Count, Label, rows
<1>3. GroupsTypeOK'
  <2>1. memberUids \subseteq Users
    BY <1>1 DEF GroupsTypeOK
  <2> QED BY <1>1, <1>2, <2>1, StartsFacts DEF GroupsTypeOK, tables, Steps
<1>4. ServersStay(s) /\ step'[s] = l /\ view'[s] = memberUids /\ (empty'[s] <=> Members = {})
  BY <1>1, <1>2 DEF GroupsTypeOK, ServersStay
<1>5. call[s] \in {"seed", "add"}
  <2>1. call[s] \in {"none", "seed", "add", "kick", "quit"}
    BY <1>1 DEF GroupsTypeOK
  <2> QED BY <1>1, <1>2, <2>1 DEF CallOK
<1>6. CallOK(s)' /\ CheckOK(s)' /\ ViewOK(s)'
  <2>1. CallOK(s)'
    BY <1>1, <1>2, <1>4, <1>5 DEF CallOK
  <2>2. CheckOK(s)'
    BY <1>2, <1>4, <1>5 DEF CheckOK
  <2>3. ViewOK(s)'
    BY <1>2, <1>4 DEF ViewOK, tables
  <2> QED BY <2>1, <2>2, <2>3
<1>7. OldMembersAreExcused'
  BY <1>2, <1>4, SameCache DEF tables
<1>8. /\ overlapped \subseteq overlapped'
      /\ \A t \in Servers \ {s} : Open(t) => whom'[s] \cup whom[t] \subseteq overlapped'
  BY <1>1, <1>2, StartsFacts
<1>9. created /\ (changed = {} => memberUids = Founders)
  BY <1>1, <1>2 DEF CallOK, GInv, YoungOK
<1> QED BY <1>2, <1>3, <1>4, <1>6, <1>7, <1>8, <1>9, QuietGInv

\* Who is an owner has seeded the group, and who alone seeded it is one.
LEMMA OwnerFacts ==
    ASSUME GInv
    PROVE  /\ \A u \in Users : role[u] = "owner" => u \in seeders
           /\ \A u \in Users : role[u] # "none" => seeders # {}
           /\ \A u \in Users \ strayed : seeders = {u} => role[u] = "owner"
<1>1. /\ \A u \in Users : u \in Members <=> role[u] # "none"
      /\ \A u \in Users : u \in Owners <=> role[u] = "owner"
  BY DEF Members, Owners
<1> QED BY <1>1 DEF GInv, OneOwner, SeedersOK

\* The role of the caller is checked, and where it is the right one the call
\* goes on: the owner may add and kick, who is not the owner may quit.
LEMMA CheckRoleGInv == ASSUME GInv, NEW s \in Servers, CheckRole(s) PROVE GInv'
<1>1. GroupsTypeOK /\ CallOK(s) /\ CheckOK(s) /\ ViewOK(s)
  BY DEF GInv, OneOwner
<1>2. step[s] = "role" /\ UNCHANGED <<created, rows, cached, load, late, excused>>
  BY DEF CheckRole
<1>3. created /\ by[s] \in Users /\ (changed = {} => memberUids = Founders)
  BY <1>1, <1>2 DEF CallOK, GInv, YoungOK
<1>4. UNCHANGED <<tables, strayed, seeders, memberUids>>
  BY <1>2 DEF rows, tables
<1>5. CASE Return(s) /\ UNCHANGED overlapped
  <2>1. ServersStay(s) => OldMembersAreExcused'
    BY <1>2, <1>4, SameCache
  <2> QED BY <1>1, <1>2, <1>5, <2>1, ReturnGInv DEF GroupsTypeOK
<1>6. ASSUME NEW l \in {"write", "member"}, Goes(s, l), todo' \in [Servers -> SUBSET Users],
             overlapped \subseteq overlapped', overlapped' \subseteq Users,
             CheckOK(s)', ViewOK(s)', l = "member" => call[s] = "quit",
             l = "write" =>
               \A t \in Servers \ {s} : Open(t) => whom[s] \cup whom[t] \subseteq overlapped'
      PROVE  GInv'
  <2>1. /\ step' = [step EXCEPT ![s] = l] /\ UNCHANGED <<call, by, whom, view, empty, calls>>
    BY <1>6 DEF Goes, Label
  <2>2. GroupsTypeOK'
    BY <1>1, <1>2, <1>4, <1>6, <2>1 DEF GroupsTypeOK, tables, Steps
  <2>3. ServersStay(s) /\ step'[s] = l
    BY <1>1, <2>1 DEF GroupsTypeOK, ServersStay
  <2>4. CallOK(s)'
    BY <1>1, <1>2, <1>6, <2>1, <2>3 DEF CallOK
  <2>5. OldMembersAreExcused'
    BY <1>2, <1>4, <2>3, SameCache
  <2>6. Open(s)' => l = "write"
    BY <1>6, <2>3 DEF Open
  <2> QED BY <1>2, <1>3, <1>4, <1>6, <2>1, <2>2, <2>3, <2>4, <2>5, <2>6, QuietGInv
<1>7. CASE May(s) /\ Adds(s) /\ Goes(s, "write") /\ UNCHANGED <<todo, overlapped>>
  <2>1. role[by[s]] = "owner" /\ seeders # {}
    BY <1>3, <1>7, OwnerFacts DEF May, Adds
  <2>2. step'[s] = "write" /\ UNCHANGED <<call, by, whom, view, empty>>
    BY <1>1, <1>7 DEF Goes, Label, GroupsTypeOK
  <2>3. CheckOK(s)'
    BY <1>4, <1>7, <2>1, <2>2 DEF CheckOK, Adds
  <2>4. ViewOK(s)'
    BY <1>1, <1>2, <1>4, <1>7, <2>2 DEF ViewOK, HasView, Adds
  <2>5. \A t \in Servers \ {s} : Open(t) => whom[s] \cup whom[t] \subseteq overlapped'
    BY <1>2, <1>7 DEF GInv, OverlapOK, Open, Adds
  <2> QED BY <1>1, <1>6, <1>7, <2>3, <2>4, <2>5 DEF GroupsTypeOK
<1>8. CASE May(s) /\ call[s] = "kick" /\ Goes(s, "write") /\ Starts(s)
  <2>1. by[s] \in seeders
    BY <1>3, <1>8, OwnerFacts DEF May
  <2>2. step'[s] = "write" /\ UNCHANGED <<call, by, whom, view, empty>>
    BY <1>1, <1>8 DEF Goes, Label, GroupsTypeOK
  <2>3. CheckOK(s)'
    BY <1>4, <1>8, <2>1, <2>2 DEF CheckOK, Adds
  <2>4. ViewOK(s)'
    BY <1>8, <2>2 DEF ViewOK, HasView, Adds
  <2> QED BY <1>1, <1>6, <1>8, <2>3, <2>4, StartsFacts
<1>9. CASE May(s) /\ call[s] = "quit" /\ Goes(s, "member") /\ UNCHANGED <<todo, overlapped>>
  <2>1. step'[s] = "member" /\ UNCHANGED <<call, by, whom, view, empty>>
    BY <1>1, <1>9 DEF Goes, Label, GroupsTypeOK
  <2>2. CheckOK(s)' /\ ViewOK(s)'
    BY <2>1 DEF CheckOK, ViewOK, HasView, Adds
  <2> QED BY <1>1, <1>6, <1>9, <2>2 DEF GroupsTypeOK
<1> QED BY <1>5, <1>7, <1>8, <1>9 DEF CheckRole

\* Who quits is a member; an owner by now, the caller has strayed.
LEMMA IsMemberGInv == ASSUME GInv, NEW s \in Servers, IsMember(s) PROVE GInv'
<1>1. GroupsTypeOK /\ CallOK(s)
  BY DEF GInv, OneOwner
<1>2. step[s] = "member" /\ UNCHANGED <<created, tables, cached, load, late, excused>>
  BY DEF IsMember
<1>3. /\ created /\ by[s] \in Users /\ call[s] = "quit" /\ whom[s] = {by[s]}
      /\ changed = {} => memberUids = Founders
  <2>1. call[s] \in {"none", "seed", "add", "kick", "quit"}
    BY <1>1 DEF GroupsTypeOK
  <2> QED BY <1>1, <1>2, <2>1 DEF CallOK, GInv, YoungOK
<1>4. CASE Return(s) /\ UNCHANGED <<overlapped, strayed>>
  <2>1. ServersStay(s) => OldMembersAreExcused'
    BY <1>2, SameCache DEF tables
  <2> QED BY <1>1, <1>2, <1>4, <2>1, ReturnGInv DEF GroupsTypeOK, rows
<1>5. CASE /\ role[by[s]] # "none" /\ Goes(s, "write") /\ Starts(s)
           /\ strayed' = strayed \cup ({by[s]} \cap Owners)
  <2>1. by[s] \in strayed' \/ \E u \in seeders : u # by[s]
    <3>1. seeders # {} /\ (by[s] \notin strayed /\ seeders = {by[s]} => by[s] \in Owners)
      BY <1>3, <1>5, OwnerFacts DEF Owners
    <3> QED BY <1>5, <3>1
  <2>2. /\ step' = [step EXCEPT ![s] = "write"] /\ UNCHANGED <<call, by, whom, view, empty, calls>>
    BY <1>5 DEF Goes, Label
  <2>3. GroupsTypeOK' /\ strayed \subseteq strayed'
    <3>1. strayed' \subseteq Users
      BY <1>1, <1>5 DEF GroupsTypeOK, Owners
    <3> QED BY <1>1, <1>2, <1>5, <2>2, <3>1, StartsFacts DEF GroupsTypeOK, tables, Steps
  <2>4. ServersStay(s) /\ step'[s] = "write"
    BY <1>1, <2>2 DEF GroupsTypeOK, ServersStay
  <2>5. CallOK(s)' /\ ViewOK(s)'
    BY <1>1, <1>2, <1>3, <2>2, <2>4 DEF CallOK, ViewOK, HasView, Adds
  <2>6. CheckOK(s)'
    BY <1>2, <1>3, <2>1, <2>2, <2>4 DEF CheckOK, Adds, tables
  <2>7. OldMembersAreExcused'
    BY <1>2, <2>4, SameCache DEF tables
  <2>8. /\ overlapped \subseteq overlapped'
        /\ \A t \in Servers \ {s} : Open(t) => whom'[s] \cup whom[t] \subseteq overlapped'
    BY <1>1, <1>5, <2>2, StartsFacts
  <2> QED BY <1>2, <1>3, <2>2, <2>3, <2>4, <2>5, <2>6, <2>7, <2>8, QuietGInv
<1> QED BY <1>4, <1>5 DEF IsMember

\* Rows are written within the transaction: nobody sees them yet.
LEMMA WriteGInv ==
    ASSUME GInv, NEW s \in Servers, NEW u \in Users, Write(s, u) PROVE GInv'
<1>1. /\ todo' = [todo EXCEPT ![s] = todo[s] \ {u}]
      /\ UNCHANGED <<created, tables, strayed, cached, step, call, by, whom, view, empty>>
      /\ UNCHANGED <<calls, load, overlapped, late, excused>>
  BY DEF Write, rows
<1>2. GroupsTypeOK /\ CallOK(s) /\ CheckOK(s) /\ ViewOK(s) /\ step[s] = "write"
  BY DEF GInv, OneOwner, Write
<1>3. GroupsTypeOK'
  BY <1>1, <1>2 DEF GroupsTypeOK, tables
<1>4. ServersStay(s) /\ step'[s] = step[s]
  BY <1>1 DEF ServersStay
<1>5. CallOK(s)' /\ CheckOK(s)' /\ ViewOK(s)'
  BY <1>1, <1>2 DEF CallOK, CheckOK, ViewOK, HasView, Adds, tables
<1>6. OldMembersAreExcused'
  BY <1>1, <1>2, <1>4, SameCache DEF tables
<1>7. \A t \in Servers \ {s} : Open(t) => whom'[s] \cup whom[t] \subseteq overlapped'
  BY <1>1, <1>2 DEF GInv, OverlapOK, Open
<1>8. created /\ (changed = {} => memberUids = Founders)
  BY <1>2 DEF CallOK, GInv, YoungOK
<1> QED BY <1>1, <1>3, <1>4, <1>5, <1>6, <1>7, <1>8, QuietGInv

\* The rows are written; an addition to an empty group must be for the caller too.
LEMMA ReadMembersGInv == ASSUME GInv, NEW s \in Servers, ReadMembers(s) PROVE GInv'
<1>1. GroupsTypeOK /\ CallOK(s) /\ CheckOK(s) /\ ViewOK(s)
  BY DEF GInv, OneOwner
<1>2. /\ step[s] = "write"
      /\ UNCHANGED <<created, tables, strayed, cached, load, overlapped, late, excused>>
  BY DEF ReadMembers, rows
<1>3. created /\ (changed = {} => memberUids = Founders)
  BY <1>1, <1>2 DEF CallOK, GInv, YoungOK
<1>4. CASE Return(s)
  <2>1. ServersStay(s) => OldMembersAreExcused'
    BY <1>2, SameCache DEF tables
  <2> QED BY <1>1, <1>2, <1>4, <2>1, ReturnGInv DEF GroupsTypeOK, rows
<1>5. CASE /\ Adds(s) => SeedsRightly(s)
           /\ Label(s, "mutate") /\ view' = [view EXCEPT ![s] = Reads(s)]
           /\ UNCHANGED <<call, by, whom, todo, empty>>
  <2>1. step' = [step EXCEPT ![s] = "mutate"] /\ UNCHANGED calls
    BY <1>5 DEF Label
  <2>2. Reads(s) \subseteq Users
    BY <1>1 DEF Reads, GroupsTypeOK
  <2>3. GroupsTypeOK'
    BY <1>1, <1>2, <1>5, <2>1, <2>2 DEF GroupsTypeOK, tables, Steps
  <2>4. ServersStay(s) /\ step'[s] = "mutate" /\ view'[s] = Reads(s)
    BY <1>1, <1>5, <2>1 DEF GroupsTypeOK, ServersStay
  <2>5. CallOK(s)'
    BY <1>1, <1>2, <1>5, <2>4 DEF CallOK
  <2>6. CheckOK(s)'
    BY <1>1, <1>2, <1>5, <2>4 DEF CheckOK, Adds, SeedsRightly, tables
  <2>7. ViewOK(s)'
    BY <1>1, <1>2, <2>4 DEF ViewOK, HasView, Reads, tables
  <2>8. OldMembersAreExcused'
    BY <1>2, <2>4, SameCache DEF tables
  <2>9. \A t \in Servers \ {s} : Open(t) => whom'[s] \cup whom[t] \subseteq overlapped'
    BY <1>2, <1>5 DEF GInv, OverlapOK, Open
  <2> QED BY <1>2, <1>3, <1>5, <2>3, <2>4, <2>5, <2>6, <2>7, <2>8, <2>9, QuietGInv
<1> QED BY <1>4, <1>5 DEF ReadMembers

\* What a commit does to the members and their owners: an addition makes all it
\* names members, and an owner of its caller if the group was empty; a removal
\* takes out whom it names.
LEMMA CommitFacts ==
    ASSUME GInv, NEW s \in Servers, Commit(s)
    PROVE  /\ role' \in [Users -> Roles]
           /\ Members' = (IF Adds(s) THEN Members \cup whom[s] ELSE Members \ whom[s])
           /\ Owners' \subseteq Owners \cup (IF Adds(s) /\ empty[s] THEN {by[s]} ELSE {})
           /\ \A u \in Users : u \in Owners /\ (Adds(s) \/ u \notin whom[s]) => u \in Owners'
           /\ Adds(s) /\ empty[s] => by[s] \in Owners' /\ by[s] \in whom[s]
<1>1. GroupsTypeOK /\ CallOK(s) /\ CheckOK(s)
  BY DEF GInv, OneOwner
<1>2. /\ step[s] = "mutate" /\ by[s] \in Users /\ whom[s] \subseteq Users
      /\ role' = [u \in Users |-> IF u \in whom[s] THEN RoleAfter(s, u) ELSE role[u]]
  BY <1>1 DEF Commit, CallOK, GroupsTypeOK
<1>3. role' \in [Users -> Roles]
  BY <1>1, <1>2 DEF GroupsTypeOK, RoleAfter, Roles
<1>4. \A u \in Users : role'[u] = IF u \in whom[s] THEN RoleAfter(s, u) ELSE role[u]
  BY <1>2
<1>5. /\ \A u : u \in Members <=> u \in Users /\ role[u] # "none"
      /\ \A u : u \in Members' <=> u \in Users /\ role'[u] # "none"
      /\ \A u : u \in Owners <=> u \in Users /\ role[u] = "owner"
      /\ \A u : u \in Owners' <=> u \in Users /\ role'[u] = "owner"
  BY DEF Members, Owners
<1>6. Members' = (IF Adds(s) THEN Members \cup whom[s] ELSE Members \ whom[s])
  BY <1>2, <1>4, <1>5 DEF RoleAfter
<1>7. Owners' \subseteq Owners \cup (IF Adds(s) /\ empty[s] THEN {by[s]} ELSE {})
  BY <1>2, <1>4, <1>5 DEF RoleAfter
<1>8. \A u \in Users : u \in Owners /\ (Adds(s) \/ u \notin whom[s]) => u \in Owners'
  BY <1>4, <1>5 DEF RoleAfter
<1>9. Adds(s) /\ empty[s] => by[s] \in Owners' /\ by[s] \in whom[s]
  BY <1>1, <1>2, <1>4, <1>5 DEF RoleAfter, CheckOK
<1> QED BY <1>3, <1>6, <1>7, <1>8, <1>9

\* A commit changes the owners only by the caller that seeds, and never takes
\* away the one who alone seeded.
LEMMA CommitOwners ==
    ASSUME GInv, NEW s \in Servers, Commit(s)
    PROVE  /\ Owners' \subseteq seeders' /\ seeders' \subseteq changed'
           /\ Members' # {} => seeders' # {}
           /\ \A u \in Users \ strayed' : seeders' = {u} => Owners' = {u}
<1>1. GroupsTypeOK /\ CallOK(s) /\ CheckOK(s) /\ SeedersOK
  BY DEF GInv, OneOwner
<1>2. /\ step[s] = "mutate" /\ strayed' = strayed /\ changed' = changed \cup whom[s]
      /\ seeders' = IF Adds(s) /\ empty[s] THEN seeders \cup {by[s]} ELSE seeders
  BY DEF Commit
<1>3. Owners \subseteq seeders /\ \A u \in Users \ strayed : seeders = {u} => u \in Owners
  BY DEF GInv, OneOwner
<1>4. Owners' \subseteq seeders' /\ seeders' \subseteq changed'
  BY <1>1, <1>2, <1>3, CommitFacts DEF SeedersOK
<1>5. Members' # {} => seeders' # {}
  BY <1>1, <1>2, CommitFacts DEF SeedersOK, CheckOK
<1>6. call[s] \in {"seed", "add", "kick", "quit"}
  BY <1>1, <1>2 DEF GroupsTypeOK, CallOK
<1>7. ASSUME NEW u \in Users \ strayed', seeders' = {u} PROVE u \in Owners'
  <2>1. CASE Adds(s) /\ empty[s]
    BY <1>2, <1>7, <2>1, CommitFacts
  <2>2. CASE ~(Adds(s) /\ empty[s])
    <3>1. seeders = {u} /\ u \in Owners
      BY <1>2, <1>3, <1>7, <2>2
    <3>2. Adds(s) \/ u \notin whom[s]
      BY <1>1, <1>2, <1>6, <1>7, <3>1 DEF CheckOK, CallOK, Adds
    <3> QED BY <3>1, <3>2, CommitFacts
  <2> QED BY <2>1, <2>2
<1> QED BY <1>4, <1>5, <1>7

\* A commit changes member_uids by the same uids as the members, unless another
\* call overlapped.
LEMMA CommitGInv == ASSUME GInv, NEW s \in Servers, Commit(s) PROVE GInv'
<1>1. GroupsTypeOK /\ CallOK(s) /\ CheckOK(s) /\ ViewOK(s)
  BY DEF GInv, OneOwner
<1>2. /\ step[s] = "mutate" /\ step' = [step EXCEPT ![s] = "invalidate"]
      /\ memberUids' = (IF Adds(s) THEN view[s] \cup whom[s] ELSE view[s] \ whom[s])
      /\ listed' = (IF Adds(s) THEN listed \cup whom[s] ELSE listed \ whom[s])
      /\ changed' = changed \cup whom[s]
      /\ late' = {r \in Loaders : load[r] # NoSet}
      /\ UNCHANGED <<created, strayed, cached, call, by, whom, todo, view, empty, calls>>
      /\ UNCHANGED <<load, overlapped, excused>>
  BY DEF Commit, Label, Listed
<1>3. created /\ view[s] \subseteq Users /\ whom[s] \subseteq Users /\ by[s] \in Users
  BY <1>1, <1>2 DEF CallOK, GroupsTypeOK
<1>4. ServersStay(s) /\ step'[s] = "invalidate"
  BY <1>1, <1>2 DEF ServersStay, GroupsTypeOK
<1>5. seeders \subseteq seeders' /\ seeders' \subseteq Users
  BY <1>1, <1>3 DEF Commit, GroupsTypeOK
<1>6. OneOwner' /\ SeedersOK'
  <2>1. GroupsTypeOK'
    <3>1. listed' \subseteq Users /\ memberUids' \subseteq Users /\ changed' \subseteq Users
      BY <1>1, <1>2, <1>3 DEF GroupsTypeOK
    <3> QED BY <1>1, <1>2, <1>5, <3>1, CommitFacts DEF GroupsTypeOK, Steps
  <2> QED BY <2>1, CommitOwners DEF OneOwner, SeedersOK
<1>7. YoungOK'
  <2>1. changed' # {}
    <3>1. call[s] \in {"seed", "add", "kick", "quit"}
      BY <1>1, <1>2 DEF GroupsTypeOK, CallOK
    <3>2. whom[s] # {} \/ seeders # {}
      BY <1>1, <1>2, <3>1 DEF CheckOK, CallOK, Adds
    <3> QED BY <1>2, <3>2 DEF GInv, SeedersOK
  <2> QED BY <1>2, <1>3, <2>1 DEF YoungOK
<1>8. OverlapOK'
  <2>1. \A t \in Servers : Open(t)' => Open(t)
    BY <1>2, <1>4 DEF ServersStay, Open, Adds
  <2> QED BY <1>2, <2>1 DEF GInv, OverlapOK
<1>9. MembershipAgrees'
  <2>1. \A u \in Users \ overlapped : u \in view[s] <=> u \in memberUids
    BY <1>1, <1>2 DEF ViewOK, HasView
  <2>2. Orphans' = Orphans \ whom[s]
    BY <1>2 DEF Orphans
  <2>3. /\ listed = Members \cup Orphans
        /\ \A u \in Users \ overlapped : u \in memberUids <=> u \in Members \cup Orphans
    BY DEF GInv, MembershipAgrees
  <2>4. listed' = Members' \cup Orphans'
    BY <1>2, <2>2, <2>3, CommitFacts
  <2>5. \A u \in Users \ overlapped : u \in memberUids' <=> u \in Members' \cup Orphans'
    BY <1>2, <2>1, <2>2, <2>3, CommitFacts
  <2> QED BY <1>2, <2>4, <2>5 DEF MembershipAgrees
<1>10. CallOK(s)' /\ CheckOK(s)' /\ ViewOK(s)'
  <2>1. CallOK(s)'
    BY <1>1, <1>2, <1>4 DEF CallOK
  <2>2. CheckOK(s)' /\ ViewOK(s)'
    BY <1>4 DEF CheckOK, ViewOK, HasView, Adds
  <2> QED BY <2>1, <2>2
<1>11. ASSUME NEW t \in Servers \ {s} PROVE CallOK(t)' /\ CheckOK(t)' /\ ViewOK(t)'
  <2>1. step'[t] = step[t]
    BY <1>4 DEF ServersStay
  <2>2. CallOK(t) /\ CheckOK(t) /\ ViewOK(t)
    BY DEF GInv
  <2>3. CallOK(t)'
    BY <1>2, <2>1, <2>2 DEF CallOK
  <2>4. CheckOK(t)'
    BY <1>2, <1>5, <2>1, <2>2 DEF CheckOK, Adds
  <2>5. ViewOK(t)'
    <3>1. HasView(t)' <=> HasView(t)
      BY <1>2, <2>1 DEF HasView, Adds
    <3>2. HasView(t) => whom[s] \subseteq overlapped
      BY <1>2 DEF GInv, OverlapOK, Open, HasView, Adds
    <3>3. \A u \in Users \ overlapped : u \in view[s] <=> u \in memberUids
      BY <1>1, <1>2 DEF ViewOK, HasView
    <3> QED BY <1>2, <2>2, <3>1, <3>2, <3>3 DEF ViewOK
  <2> QED BY <2>3, <2>4, <2>5
<1>12. LoadsOK' /\ OldMembersAreExcused'
  BY <1>2, <1>4 DEF LoadsOK, OldMembersAreExcused
<1> QED BY <1>6, <1>7, <1>8, <1>9, <1>10, <1>11, <1>12 DEF GInv

\* The group is created when nothing of it is there yet.
LEMMA CreateConvGInv == ASSUME GInv, NEW s \in Servers, CreateConv(s) PROVE GInv'
<1>1. GroupsTypeOK /\ YoungOK /\ SeedersOK
  BY DEF GInv, OneOwner
<1>2. /\ ~created /\ created' = TRUE /\ memberUids' = Founders /\ listed' = Founders
      /\ step' = [step EXCEPT ![s] = "cache"] /\ call' = [call EXCEPT ![s] = "seed"]
      /\ by' = [by EXCEPT ![s] = Creator] /\ whom' = [whom EXCEPT ![s] = Founders]
      /\ calls' = calls + 1
      /\ UNCHANGED <<todo, view, empty, role, seeders, changed, strayed, cached, load>>
      /\ UNCHANGED <<overlapped, late, excused>>
  BY DEF CreateConv, Begin
<1>3. /\ Members = {} /\ Members' = Members /\ Owners' = Owners /\ changed = {} /\ cached = NoSet
      /\ \A r \in Loaders : load[r] = NoSet
  BY <1>1, <1>2 DEF YoungOK, Members, Owners
<1>4. \A t \in Servers : step[t] = "idle" /\ call[t] = "none"
  BY <1>2 DEF GInv, CallOK
<1>5. /\ step'[s] = "cache" /\ call'[s] = "seed" /\ by'[s] = Creator /\ whom'[s] = Founders
      /\ \A t \in Servers \ {s} : step'[t] = "idle" /\ call'[t] = "none"
  BY <1>1, <1>2, <1>4 DEF GroupsTypeOK
<1>6. OneOwner' /\ SeedersOK'
  <2>1. Founders \subseteq Users /\ Creator \in Users /\ calls' \in Nat
    BY <1>1, <1>2, GroupsAssumption DEF GroupsTypeOK
  <2>2. GroupsTypeOK'
    BY <1>1, <1>2, <2>1 DEF GroupsTypeOK, Steps
  <2> QED BY <1>1, <1>2, <1>3, <2>2 DEF GInv, OneOwner, SeedersOK
<1>7. YoungOK' /\ MembershipAgrees'
  BY <1>2, <1>3 DEF YoungOK, MembershipAgrees, Orphans
<1>8. OverlapOK'
  BY <1>5 DEF OverlapOK, Open
<1>9. ASSUME NEW t \in Servers PROVE CallOK(t)' /\ CheckOK(t)' /\ ViewOK(t)'
  <2>1. CallOK(t)'
    BY <1>2, <1>5, GroupsAssumption DEF CallOK
  <2>2. CheckOK(t)' /\ ViewOK(t)'
    BY <1>5 DEF CheckOK, ViewOK, HasView, Adds
  <2> QED BY <2>1, <2>2
<1>10. LoadsOK' /\ OldMembersAreExcused'
  BY <1>2, <1>3 DEF LoadsOK, OldMembersAreExcused
<1> QED BY <1>6, <1>7, <1>8, <1>9, <1>10 DEF GInv

\* After InvalidateConv there is no copy; a call that fails before it leaves an
\* excuse.
LEMMA ReturnsGInv ==
    ASSUME GInv, NEW s \in Servers, InvalidateConv(s) \/ Fail(s) PROVE GInv'
<1>1. GroupsTypeOK
  BY DEF GInv, OneOwner
<1>2. CASE InvalidateConv(s)
  <2>1. /\ step[s] # "idle" /\ Return(s) /\ UNCHANGED <<created, rows, load, overlapped, late>>
        /\ cached' = NoSet /\ excused' = FALSE
    BY <1>2 DEF InvalidateConv, Forgotten
  <2>2. OldMembersAreExcused'
    BY <2>1 DEF OldMembersAreExcused
  <2> QED BY <2>1, <2>2, ReturnGInv
<1>3. CASE Fail(s)
  <2>1. /\ step[s] # "idle" /\ Return(s) /\ UNCHANGED <<created, rows, cached, load, overlapped, late>>
        /\ excused' = (excused \/ step[s] = "invalidate")
    BY <1>3 DEF Fail
  <2>2. cached' \in (SUBSET Users) \cup {NoSet} /\ excused' \in BOOLEAN
    BY <1>1, <2>1 DEF GroupsTypeOK
  <2>3. ASSUME ServersStay(s) PROVE OldMembersAreExcused'
    <3>1. CASE step[s] = "invalidate"
      BY <2>1, <3>1 DEF OldMembersAreExcused
    <3>2. CASE step[s] # "invalidate"
      BY <2>1, <2>3, <3>2 DEF GInv, OldMembersAreExcused, ServersStay, rows, tables
    <3> QED BY <3>1, <3>2
  <2> QED BY <2>1, <2>2, <2>3, ReturnGInv
<1> QED BY <1>2, <1>3

\* The cache: a loader fills in what it read, which is the table unless a change
\* committed meanwhile.
LEMMA CacheGInv ==
    ASSUME GInv, Expire \/ \E r \in Loaders : Miss(r) \/ Fill(r) PROVE GInv'
<1>1. GroupsTypeOK /\ YoungOK /\ LoadsOK /\ OldMembersAreExcused
  BY DEF GInv, OneOwner
<1>2. UNCHANGED <<created, rows, callVars, overlapped>>
  BY DEF Expire, Miss, Fill
<1>3. /\ GroupsTypeOK' /\ LoadsOK' /\ OldMembersAreExcused'
      /\ ~created => cached' = NoSet /\ \A r \in Loaders : load'[r] = NoSet
  <2>1. ASSUME NEW r \in Loaders, Miss(r)
        PROVE  /\ GroupsTypeOK' /\ LoadsOK' /\ OldMembersAreExcused' /\ created
    BY <1>1, <2>1 DEF Miss, GroupsTypeOK, LoadsOK, OldMembersAreExcused, rows, tables, callVars
  <2>2. ASSUME NEW r \in Loaders, Fill(r)
        PROVE  /\ GroupsTypeOK' /\ LoadsOK' /\ OldMembersAreExcused' /\ created
    <3>1. /\ load[r] # NoSet /\ cached' = load[r] /\ load' = [load EXCEPT ![r] = NoSet]
          /\ late' = late \ {r} /\ excused' = (r \in late)
          /\ UNCHANGED <<created, rows, callVars, overlapped>>
      BY <2>2 DEF Fill
    <3>2. GroupsTypeOK'
      BY <1>1, <3>1 DEF GroupsTypeOK, rows, tables, callVars
    <3>3. LoadsOK'
      BY <1>1, <3>1 DEF GroupsTypeOK, LoadsOK, rows, tables
    <3>4. r \notin late => cached' = memberUids'
      BY <1>1, <3>1 DEF LoadsOK, rows, tables
    <3> QED BY <1>1, <3>1, <3>2, <3>3, <3>4 DEF OldMembersAreExcused, YoungOK
  <2>3. ASSUME Expire
        PROVE  GroupsTypeOK' /\ LoadsOK' /\ OldMembersAreExcused' /\ cached' = NoSet /\ load' = load
    BY <1>1, <2>3 DEF Expire, GroupsTypeOK, LoadsOK, OldMembersAreExcused, rows, tables, callVars
  <2> QED BY <1>1, <2>1, <2>2, <2>3 DEF YoungOK
<1>4. Members' = Members /\ Owners' = Owners /\ Orphans' = Orphans
  BY <1>2 DEF Members, Owners, Orphans, rows, tables
<1>5. OneOwner' /\ SeedersOK' /\ YoungOK' /\ OverlapOK' /\ MembershipAgrees'
  <2>1. OneOwner' /\ SeedersOK' /\ YoungOK' /\ MembershipAgrees'
    BY <1>2, <1>3, <1>4 DEF GInv, OneOwner, SeedersOK, YoungOK, MembershipAgrees, rows, tables
  <2>2. OverlapOK'
    BY <1>2 DEF GInv, OverlapOK, Open, Adds, callVars
  <2> QED BY <2>1, <2>2
<1>6. \A s \in Servers : CallOK(s)' /\ CheckOK(s)' /\ ViewOK(s)'
  BY <1>2, <1>4 DEF GInv, CallOK, CheckOK, ViewOK, HasView, Adds, rows, tables, callVars
<1> QED BY <1>3, <1>5, <1>6 DEF GInv

\* Nothing is there at the start.
LEMMA InitGInv == InitGroups => GInv
<1> SUFFICES ASSUME InitGroups PROVE GInv
  OBVIOUS
<1>1. Members = {} /\ Owners = {} /\ Orphans = {} /\ \A s \in Servers : call[s] = "none" /\ step[s] = "idle"
  BY DEF InitGroups, Members, Owners, Orphans
<1>2. OneOwner
  BY <1>1 DEF InitGroups, OneOwner, GroupsTypeOK, Roles, Steps
<1>3. SeedersOK /\ YoungOK /\ OverlapOK /\ MembershipAgrees /\ LoadsOK /\ OldMembersAreExcused
  BY <1>1 DEF InitGroups, SeedersOK, YoungOK, OverlapOK, Open, MembershipAgrees, LoadsOK,
     OldMembersAreExcused
<1>4. \A s \in Servers : CallOK(s) /\ CheckOK(s) /\ ViewOK(s)
  BY <1>1 DEF CallOK, CheckOK, ViewOK, HasView, Adds
<1> QED BY <1>2, <1>3, <1>4 DEF GInv

\* The invariant of the groups is inductive.
LEMMA StepGInv == GInv /\ [NextGroups]_groupVars => GInv'
<1> SUFFICES ASSUME GInv, [NextGroups]_groupVars PROVE GInv'
  OBVIOUS
<1>1. CASE UNCHANGED groupVars
  <2>1. /\ UNCHANGED <<created, role, listed, memberUids, cached, step, call, by, whom, todo>>
        /\ UNCHANGED <<view, empty, calls, load, seeders, changed, strayed, overlapped, late, excused>>
    BY <1>1 DEF groupVars, rows, tables, callVars
  <2>2. /\ GroupsTypeOK' = GroupsTypeOK /\ OverlapOK' = OverlapOK /\ LoadsOK' = LoadsOK
        /\ OldMembersAreExcused' = OldMembersAreExcused
    BY <2>1 DEF GroupsTypeOK, OverlapOK, Open, Adds, LoadsOK, OldMembersAreExcused
  <2>3. Members' = Members /\ Owners' = Owners /\ Orphans' = Orphans
    BY <2>1 DEF Members, Owners, Orphans
  <2>4. OneOwner' /\ SeedersOK' /\ YoungOK' /\ MembershipAgrees'
    BY <2>1, <2>2, <2>3 DEF GInv, OneOwner, SeedersOK, YoungOK, MembershipAgrees
  <2>5. \A s \in Servers : CallOK(s)' /\ CheckOK(s)' /\ ViewOK(s)'
    BY <2>1 DEF GInv, CallOK, CheckOK, ViewOK, HasView, Adds
  <2> QED BY <2>2, <2>4, <2>5 DEF GInv
<1>2. ASSUME NEW s \in Servers, NEW o \in Users,
             \/ (\E w \in Picks : Add(s, o, w)) \/ (\E u \in Users : Kick(s, o, u))
             \/ Quit(s, o)
      PROVE  GInv'
  BY <1>2, BeginGInv
<1>3. ASSUME NEW s \in Servers,
             \/ CreateConv(s) \/ SetConvMeta(s) \/ Count(s) \/ CheckRole(s) \/ IsMember(s)
             \/ (\E u \in Users : Write(s, u)) \/ ReadMembers(s) \/ Commit(s)
             \/ InvalidateConv(s) \/ Fail(s)
      PROVE  GInv'
  BY <1>3, CreateConvGInv, SetConvMetaGInv, CountGInv, CheckRoleGInv, IsMemberGInv, WriteGInv,
     ReadMembersGInv, CommitGInv, ReturnsGInv
<1> QED BY <1>1, <1>2, <1>3, CacheGInv DEF NextGroups

-----------------------------------------------------------------------------
(* The service *)

\* A behaviour is one of friends or of a group; the other part does not move.
LEMMA Invariant == Spec => [](FInv /\ GInv)
<1>1. Init => FInv /\ GInv
  BY InitFInv, InitGInv DEF Init
<1>2. FInv /\ GInv /\ [Next]_vars => (FInv /\ GInv)'
  BY StepFInv, StepGInv DEF Next, vars
<1> QED BY <1>1, <1>2, PTL DEF Spec

\* Whatever accepts and removals of friends run at the same time, in whichever
\* order their statements reach the two rows of a friendship: the rows are there
\* both or neither (friend.go:92, friend.go:195).
THEOREM Mutual == Spec => []FriendshipIsMutual
<1>1. FInv => FriendshipIsMutual
  BY DEF FInv
<1> QED BY <1>1, Invariant, PTL

\* Of the calls that accept and reject one request at a time, one decides it:
\* the locking read makes the others wait and find it decided (friend.go:68).
THEOREM Decided == Spec => DecidedOnce
<1>1. FInv /\ [Next]_vars =>
        [\A r \in Pairs : request[r] \in {"accepted", "rejected"} /\ request'[r] # request[r]
            => request[r] = "rejected" /\ request'[r] = "pending"]_friendVars
  BY StepDecided DEF Next, vars
<1> QED BY <1>1, Invariant, PTL DEF Spec, DecidedOnce

\* Whoever alone added the first members is the one owner, and no one becomes
\* owner in another way, for any number of concurrent additions, kicks and quits;
\* only a quit that began before the seeding committed takes the owner out
\* (group.go:36, group.go:117).
THEOREM SeederOwns == Spec => []OneOwner
<1>1. GInv => OneOwner
  BY DEF GInv
<1> QED BY <1>1, Invariant, PTL

\* The members, their conversation lists and member_uids agree, but for founders
\* not seeded and, in member_uids, for uids of transactions that overlapped
\* (group.go:5, service.go:96).
THEOREM RecordsAgree == Spec => []MembershipAgrees
<1>1. GInv => MembershipAgrees
  BY DEF GInv
<1> QED BY <1>1, Invariant, PTL

\* A cached copy of the members is that of the table, or its difference has one
\* of the three reasons that OldMembersAreExcused gives (cache.go:132,
\* service.go:135).
THEOREM CopyIsExcused == Spec => []OldMembersAreExcused
<1>1. GInv => OldMembersAreExcused
  BY DEF GInv
<1> QED BY <1>1, Invariant, PTL
=============================================================================
