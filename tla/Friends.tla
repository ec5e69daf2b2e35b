------------------------------ MODULE Friends ------------------------------
(***************************************************************************)
(* internal/relation/friend.go: requests and friendships.  Statements of a *)
(* transaction are steps; rows that it has locked are its own until it     *)
(* ends, and what it wrote is seen by others when it commits.  A statement *)
(* that has to wait, in a deadlock too, may fail instead, as may any other *)
(* statement: the call then rolls back and reports the error.              *)
(***************************************************************************)
EXTENDS FiniteSets, TLC

CONSTANTS People,
          Sessions,   \* calls served at a time
          Nobody

ASSUME FriendsAssumption == Nobody \notin People

VARIABLES
    request, \* friend_requests.status by <<from, to>>; "none" without a row
    friends, \* friendships: pairs <<uid, friend_uid>>
    at,      \* per call: label
    op, peer,   \* per call: op_uid and the other user of the statement
    accept,  \* per call: what HandleFriendRequest is to do
    locks,   \* per call: locked rows, <<table, pair>>
    touched  \* per call: rows of friendships its statements inserted or deleted

friendVars == <<request, friends, at, op, peer, accept, locks, touched>>

Pairs == {r \in People \X People : r[1] # r[2]}
Swap(r) == <<r[2], r[1]>>
Mine(s) == <<op[s], peer[s]>>
Theirs(s) == <<peer[s], op[s]>>     \* the request that op_uid may handle

InitFriends ==
    /\ request = [r \in Pairs |-> "none"] /\ friends = {}
    /\ at = [s \in Sessions |-> "idle"]
    /\ locks = [s \in Sessions |-> {}] /\ touched = [s \in Sessions |-> {}]
    /\ op = [s \in Sessions |-> Nobody] /\ peer = [s \in Sessions |-> Nobody]
    /\ accept = [s \in Sessions |-> FALSE]

Free(s, row) == \A other \in Sessions \ {s} : row \notin locks[other]
Lock(s, row) == Free(s, row) /\ locks' = [locks EXCEPT ![s] = @ \cup {row}]
Go(s, label) == at' = [at EXCEPT ![s] = label]

Call(s, label, o, p, a) ==
    /\ at' = [at EXCEPT ![s] = label]
    /\ op' = [op EXCEPT ![s] = o] /\ peer' = [peer EXCEPT ![s] = p]
    /\ accept' = [accept EXCEPT ![s] = a]

\* The end of a call, with its transaction
End(s) ==
    /\ Call(s, "idle", Nobody, Nobody, FALSE)
    /\ locks' = [locks EXCEPT ![s] = {}] /\ touched' = [touched EXCEPT ![s] = {}]

-----------------------------------------------------------------------------
(* SendFriendRequest *)

Send(s, x, y) ==
    /\ at[s] = "idle" /\ x # y
    /\ Call(s, "check", x, y, FALSE)
    /\ UNCHANGED <<request, friends, locks, touched>>

\* isFriend, in either direction
CheckFriend(s) ==
    /\ at[s] = "check"
    /\ IF {Mine(s), Theirs(s)} \cap friends # {}
       THEN End(s)
       ELSE Go(s, "opposite") /\ UNCHANGED <<op, peer, accept, locks, touched>>
    /\ UNCHANGED <<request, friends>>

\* A pending request of the peer is accepted, as a call in the peer's name.
Opposite(s) ==
    /\ at[s] = "opposite"
    /\ IF request[Theirs(s)] = "pending"
       THEN Call(s, "lock", peer[s], op[s], TRUE)
       ELSE Go(s, "insert") /\ UNCHANGED <<op, peer, accept>>
    /\ UNCHANGED <<request, friends, locks, touched>>

\* INSERT ... status=IF(status=2,0,status)
Renewed(status) == IF status \in {"none", "rejected"} THEN "pending" ELSE status

Insert(s) ==
    /\ at[s] = "insert" /\ Free(s, <<"request", Mine(s)>>)
    /\ request' = [request EXCEPT ![Mine(s)] = Renewed(@)]
    /\ End(s)
    /\ UNCHANGED friends

-----------------------------------------------------------------------------
(* HandleFriendRequest *)

Handle(s, o, from, a) ==
    /\ at[s] = "idle" /\ o # from
    /\ Call(s, "lock", o, from, a)
    /\ UNCHANGED <<request, friends, locks, touched>>

\* SELECT without FOR UPDATE
ReadsOnly(s, row) == UNCHANGED locks
ReadsLocked(s, row) == Lock(s, row)

\* SELECT ... FOR UPDATE; only a pending row of which op_uid is the addressee
LockRequest(s) ==
    /\ at[s] = "lock"
    /\ IF request[Theirs(s)] = "pending"
       THEN /\ ReadsLocked(s, <<"request", Theirs(s)>>)
            /\ Go(s, IF accept[s] THEN "befriend1" ELSE "decide")
            /\ UNCHANGED <<op, peer, accept, touched>>
       ELSE Free(s, <<"request", Theirs(s)>>) /\ End(s)
    /\ UNCHANGED <<request, friends>>

\* The statements are no transaction: the lock is not kept.
StatementAlone(s, row, changes) ==
    /\ Free(s, <<"friends", row>>)
    /\ touched' = [touched EXCEPT ![s] = @ \cup ({row} \cap changes)]
    /\ UNCHANGED <<request, friends, op, peer, accept, locks>>

\* A statement about one row of friendships: it waits for the row's lock, and
\* the row is changed if it is (not) there.
Statement(s, row, changes) ==
    /\ Lock(s, <<"friends", row>>)
    /\ touched' = [touched EXCEPT ![s] = @ \cup ({row} \cap changes)]
    /\ UNCHANGED <<request, friends, op, peer, accept>>

\* INSERT IGNORE, twice
Befriend(s) ==
    \/ at[s] = "befriend1" /\ Go(s, "befriend2") /\ Statement(s, Mine(s), Pairs \ friends)
    \/ at[s] = "befriend2" /\ Go(s, "decide") /\ Statement(s, Theirs(s), Pairs \ friends)

\* Commit; the UPDATE comes before the INSERTs, of a row that is already locked
Decide(s) ==
    /\ at[s] = "decide" /\ Free(s, <<"request", Theirs(s)>>)
    /\ request' = [request EXCEPT ![Theirs(s)] = IF accept[s] THEN "accepted" ELSE "rejected"]
    /\ friends' = friends \cup touched[s]
    /\ End(s)

-----------------------------------------------------------------------------
(* DeleteFriend *)

Delete(s, o, f) ==
    /\ at[s] = "idle" /\ o # f
    /\ Call(s, "delete1", o, f, FALSE)
    /\ UNCHANGED <<request, friends, locks, touched>>

DeleteRow(s) ==
    \/ at[s] = "delete1" /\ Go(s, "delete2") /\ Statement(s, Mine(s), friends)
    \/ at[s] = "delete2" /\ Go(s, "leave") /\ Statement(s, Theirs(s), friends)

CommitDelete(s) ==
    /\ at[s] = "leave"
    /\ friends' = friends \ touched[s]
    /\ End(s)
    /\ UNCHANGED request

\* A statement fails, or the wait for a lock ends: the transaction rolls back.
GiveUp(s) == at[s] # "idle" /\ End(s) /\ UNCHANGED <<request, friends>>

NextFriends ==
    \E s \in Sessions :
        \/ \E x, y \in People : Send(s, x, y) \/ Delete(s, x, y)
        \/ \E x, y \in People, a \in BOOLEAN : Handle(s, x, y, a)
        \/ CheckFriend(s) \/ Opposite(s) \/ Insert(s)
        \/ LockRequest(s) \/ Befriend(s) \/ Decide(s)
        \/ DeleteRow(s) \/ CommitDelete(s)
        \/ GiveUp(s)

-----------------------------------------------------------------------------
(* Properties *)

FriendsTypeOK ==
    /\ request \in [Pairs -> {"none", "pending", "accepted", "rejected"}]
    /\ friends \subseteq Pairs
    /\ at \in [Sessions -> {"idle", "check", "opposite", "insert", "lock", "befriend1",
                            "befriend2", "decide", "delete1", "delete2", "leave"}]
    /\ op \in [Sessions -> People \cup {Nobody}] /\ peer \in [Sessions -> People \cup {Nobody}]
    /\ accept \in [Sessions -> BOOLEAN]
    /\ locks \in [Sessions -> SUBSET ({"request", "friends"} \X Pairs)]
    /\ touched \in [Sessions -> SUBSET Pairs]

\* Friendship is mutual whatever calls accept and delete at the same time, in
\* whichever order they reach the two rows (friend.go:92, friend.go:195).  With
\* it, the types.
FriendshipIsMutual ==
    /\ FriendsTypeOK
    /\ \A r \in friends : Swap(r) \in friends

\* A pending request is decided once: a call that accepts and one that rejects
\* do not both succeed, and only a new request reopens a rejected one
\* (friend.go:68).
DecidedOnce ==
    [][\A r \in Pairs : request[r] \in {"accepted", "rejected"} /\ request'[r] # request[r]
            => request[r] = "rejected" /\ request'[r] = "pending"]_friendVars

\* A request that finds the opposite one pending accepts that one: the two are
\* merged, and nobody has to answer (friend.go:10, friend.go:34).
OppositeRequestsMerge ==
    [][\A s \in Sessions :
        at[s] = "opposite" /\ at'[s] = "lock" => Theirs(s)' = Theirs(s)]_friendVars
=============================================================================
