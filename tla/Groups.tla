------------------------------- MODULE Groups -------------------------------
(***************************************************************************)
(* The members of one group: the rows of group_members and of              *)
(* user_conversations, conversations.member_uids and its cached copy.      *)
(* CreateConv (internal/message/conversations.go) writes the conversation, *)
(* then has internal/relation/group.go write the members.  Statements of a *)
(* transaction are steps under REPEATABLE READ: a plain SELECT reads as of *)
(* the transaction's first one.  What a transaction wrote is seen when it  *)
(* commits; UpdateGroupInfo changes no members and is left out.            *)
(***************************************************************************)
EXTENDS Naturals, FiniteSets, TLC

CONSTANTS Users,
          Founders,   \* the members that the group is created with
          Creator,
          Picks,      \* sets of users that a caller may ask to add
          Servers,    \* calls served at a time
          Loaders,    \* GetConvMeta or ConvMembers in progress
          MaxCalls,   \* bound on the calls of a behaviour
          NoOne, NoSet

ASSUME GroupsAssumption ==
    /\ Founders \subseteq Users /\ Creator \in Founders /\ Picks \subseteq SUBSET Users
    /\ NoOne \notin Users /\ MaxCalls \in Nat

VARIABLES
    created,    \* the conversation is there
    role,       \* group_members.role by uid; "none" without a row
    listed,     \* uids with a row of user_conversations
    memberUids, \* conversations.member_uids
    cached,     \* conv:{id}:meta and conv:{id}:members, or NoSet
    step,       \* per call: label
    call,       \* per call: "seed", "add", "kick" or "quit"
    by,         \* per call: opUID
    whom,       \* per call: uids to add or remove
    todo,       \* per call: uids whose rows are not yet written
    view,       \* per call: member_uids as its transaction reads it
    empty,      \* per call: count == 0
    calls,      \* calls begun so far
    load,       \* per loader: what it read from the table, or NoSet
    seeders,    \* history: callers who added first members
    changed,    \* history: uids that a committed change added or removed
    strayed,    \* history: owners who quit, having become owner after their
                \* role was read
    overlapped, \* history: uids that were changed while another call changed some
    late,       \* history: loaders that read before a change committed
    excused     \* history: the cached copy comes from such a loader or from a
                \* CreateConv that a change passed, or a change was not
                \* followed by its InvalidateConv

callVars == <<step, call, by, whom, todo, view, empty, calls>>
tables == <<role, listed, memberUids, seeders, changed>>
rows == <<tables, strayed>>
groupVars == <<created, rows, cached, callVars, load, overlapped, late, excused>>

Roles == {"none", "member", "owner"}
Steps == {"idle", "cache", "count", "role", "member", "write", "mutate", "invalidate"}
Members == {u \in Users : role[u] # "none"}
Owners == {u \in Users : role[u] = "owner"}

\* Founders that no change has reached yet: their seeding is under way or failed.
Orphans == (IF created THEN Founders ELSE {}) \ changed

InitGroups ==
    /\ created = FALSE /\ role = [u \in Users |-> "none"]
    /\ listed = {} /\ memberUids = {} /\ cached = NoSet
    /\ step = [s \in Servers |-> "idle"] /\ call = [s \in Servers |-> "none"]
    /\ by = [s \in Servers |-> NoOne] /\ whom = [s \in Servers |-> {}]
    /\ todo = [s \in Servers |-> {}] /\ view = [s \in Servers |-> {}]
    /\ empty = [s \in Servers |-> FALSE] /\ calls = 0
    /\ load = [r \in Loaders |-> NoSet] /\ late = {}
    /\ overlapped = {} /\ excused = FALSE
    /\ seeders = {} /\ changed = {} /\ strayed = {}

Label(s, label) == step' = [step EXCEPT ![s] = label] /\ UNCHANGED calls

Begin(s, label, c, o, w) ==
    /\ calls < MaxCalls /\ calls' = calls + 1
    /\ step' = [step EXCEPT ![s] = label] /\ call' = [call EXCEPT ![s] = c]
    /\ by' = [by EXCEPT ![s] = o] /\ whom' = [whom EXCEPT ![s] = w]
    /\ UNCHANGED <<todo, view, empty>>

Return(s) ==
    /\ Label(s, "idle") /\ call' = [call EXCEPT ![s] = "none"]
    /\ by' = [by EXCEPT ![s] = NoOne] /\ whom' = [whom EXCEPT ![s] = {}]
    /\ todo' = [todo EXCEPT ![s] = {}] /\ view' = [view EXCEPT ![s] = {}]
    /\ empty' = [empty EXCEPT ![s] = FALSE]

Adds(s) == call[s] \in {"seed", "add"}
Open(s) == step[s] \in {"role", "write", "mutate"} /\ (Adds(s) \/ step[s] # "role")

\* BeginTx; from here to the commit other changes overlap with this one
Starts(s) ==
    /\ todo' = [todo EXCEPT ![s] = whom[s]]
    /\ overlapped' = overlapped \cup
           UNION {whom[s] \cup whom[t] : t \in {t \in Servers \ {s} : Open(t)}}

\* The call goes on.
Goes(s, label) == Label(s, label) /\ UNCHANGED <<call, by, whom, view, empty>>

-----------------------------------------------------------------------------
(* CreateConv *)

\* The transaction of CreateConv: conversations and user_conversations
CreateConv(s) ==
    /\ step[s] = "idle" /\ ~created /\ created' = TRUE
    /\ memberUids' = Founders /\ listed' = Founders
    /\ Begin(s, "cache", "seed", Creator, Founders)
    /\ UNCHANGED <<role, seeders, changed, strayed, cached, load, overlapped, late, excused>>

\* SetConvMeta, which may fail and which another change may have passed since
\* CreateConv's commit; then AddGroupMembers
SetConvMeta(s) ==
    /\ step[s] = "cache" /\ Label(s, "count")
    /\ \/ cached' = Founders /\ excused' = (changed # {})
       \/ UNCHANGED <<cached, excused>>
    /\ UNCHANGED <<created, rows, call, by, whom, todo, view, empty, load, overlapped, late>>

-----------------------------------------------------------------------------
(* AddGroupMembers, RemoveGroupMember, QuitGroup *)

\* The gateway passes on what it is asked for, whoever asks.
Add(s, o, w) ==
    /\ step[s] = "idle" /\ created
    /\ Begin(s, "count", "add", o, w)
    /\ UNCHANGED <<created, rows, cached, load, overlapped, late, excused>>

Kick(s, o, u) ==
    /\ step[s] = "idle" /\ created /\ o # u
    /\ Begin(s, "role", "kick", o, {u})
    /\ UNCHANGED <<created, rows, cached, load, overlapped, late, excused>>

Quit(s, o) ==
    /\ step[s] = "idle" /\ created
    /\ Begin(s, "role", "quit", o, {o})
    /\ UNCHANGED <<created, rows, cached, load, overlapped, late, excused>>

\* SELECT COUNT(*) opens the transaction: member_uids will be read as of now.
Count(s) ==
    /\ step[s] = "count"
    /\ view' = [view EXCEPT ![s] = memberUids]
    /\ empty' = [empty EXCEPT ![s] = Members = {}]
    /\ Label(s, IF Members = {} THEN "write" ELSE "role")
    /\ Starts(s)
    /\ UNCHANGED <<created, rows, cached, call, by, whom, load, late, excused>>

\* memberRole
May(s) == IF call[s] = "quit" THEN role[by[s]] # "owner" ELSE role[by[s]] = "owner"

CheckRole(s) ==
    /\ step[s] = "role"
    /\ \/ ~May(s) /\ Return(s) /\ UNCHANGED overlapped
       \/ May(s) /\ Adds(s) /\ Goes(s, "write") /\ UNCHANGED <<todo, overlapped>>
       \/ May(s) /\ call[s] = "kick" /\ Goes(s, "write") /\ Starts(s)
       \/ May(s) /\ call[s] = "quit" /\ Goes(s, "member") /\ UNCHANGED <<todo, overlapped>>
    /\ UNCHANGED <<created, rows, cached, load, late, excused>>

\* isMember, for QuitGroup
IsMember(s) ==
    /\ step[s] = "member"
    /\ IF role[by[s]] # "none"
       THEN Goes(s, "write") /\ Starts(s)
            /\ strayed' = strayed \cup ({by[s]} \cap Owners)
       ELSE Return(s) /\ UNCHANGED <<overlapped, strayed>>
    /\ UNCHANGED <<created, tables, cached, load, late, excused>>

\* The INSERTs or DELETEs of one uid wait for its rows; their locks are kept.
Locked(s) == IF step[s] \in {"write", "mutate"} THEN whom[s] \ todo[s] ELSE {}

Write(s, u) ==
    /\ step[s] = "write" /\ u \in todo[s]
    /\ \A t \in Servers \ {s} : u \notin Locked(t)
    /\ todo' = [todo EXCEPT ![s] = @ \ {u}]
    /\ UNCHANGED <<created, rows, cached, step, call, by, whom, view, empty>>
    /\ UNCHANGED <<calls, load, overlapped, late, excused>>

\* The first members need not contain the caller.
SeedsBlindly(s) == TRUE
\* found: the first members must contain the caller
SeedsRightly(s) == ~empty[s] \/ by[s] \in whom[s]

\* SELECT member_uids: the first plain read of a removal, the second of an addition
Reads(s) == IF Adds(s) THEN view[s] ELSE memberUids

ReadMembers(s) ==
    /\ step[s] = "write" /\ todo[s] = {}
    /\ IF Adds(s) => SeedsRightly(s)
       THEN Label(s, "mutate") /\ view' = [view EXCEPT ![s] = Reads(s)]
            /\ UNCHANGED <<call, by, whom, todo, empty>>
       ELSE Return(s)
    /\ UNCHANGED <<created, rows, cached, load, overlapped, late, excused>>

\* role=GREATEST(role,VALUES(role))
RoleAfter(s, u) ==
    IF ~Adds(s) THEN "none"
    ELSE IF role[u] = "owner" \/ (empty[s] /\ u = by[s]) THEN "owner" ELSE "member"

\* A removal leaves the row of user_conversations.
ListedStill(s) == IF Adds(s) THEN listed \cup whom[s] ELSE listed
Listed(s) == IF Adds(s) THEN listed \cup whom[s] ELSE listed \ whom[s]

\* UPDATE conversations SET member_uids, Commit
Commit(s) ==
    /\ step[s] = "mutate" /\ Label(s, "invalidate")
    /\ role' = [u \in Users |-> IF u \in whom[s] THEN RoleAfter(s, u) ELSE role[u]]
    /\ listed' = Listed(s)
    /\ memberUids' = IF Adds(s) THEN view[s] \cup whom[s] ELSE view[s] \ whom[s]
    /\ seeders' = IF Adds(s) /\ empty[s] THEN seeders \cup {by[s]} ELSE seeders
    /\ changed' = changed \cup whom[s]
    /\ late' = {r \in Loaders : load[r] # NoSet}
    /\ UNCHANGED <<created, strayed, cached, call, by, whom, todo, view, empty>>
    /\ UNCHANGED <<load, overlapped, excused>>

\* The copies are left.
ForgottenNot(copy) == copy
\* InvalidateConv deletes the copies.
Forgotten(copy) == NoSet

InvalidateConv(s) ==
    /\ step[s] = "invalidate" /\ Return(s)
    /\ cached' = Forgotten(cached)
    /\ excused' = FALSE
    /\ UNCHANGED <<created, rows, load, overlapped, late>>

\* A statement fails or its wait for a lock ends, which rolls the transaction
\* back; Redis or the process fails before InvalidateConv.
Fail(s) ==
    /\ step[s] # "idle" /\ Return(s)
    /\ excused' = (excused \/ step[s] = "invalidate")
    /\ UNCHANGED <<created, rows, cached, load, overlapped, late>>

-----------------------------------------------------------------------------
(* Cache: GetConvMeta, ConvMembers *)

Miss(r) ==
    /\ created /\ cached = NoSet /\ load[r] = NoSet
    /\ load' = [load EXCEPT ![r] = memberUids]
    /\ UNCHANGED <<created, rows, cached, callVars, overlapped, late, excused>>

Fill(r) ==
    /\ load[r] # NoSet /\ cached' = load[r]
    /\ load' = [load EXCEPT ![r] = NoSet] /\ late' = late \ {r}
    /\ excused' = (r \in late)
    /\ UNCHANGED <<created, rows, callVars, overlapped>>

\* membersTTL, metaTTL
Expire ==
    /\ cached # NoSet /\ cached' = NoSet
    /\ UNCHANGED <<created, rows, callVars, load, overlapped, late, excused>>

NextGroups ==
    \/ \E s \in Servers :
        \/ CreateConv(s) \/ SetConvMeta(s)
        \/ \E o \in Users, w \in Picks : Add(s, o, w)
        \/ \E o, u \in Users : Kick(s, o, u)
        \/ \E o \in Users : Quit(s, o)
        \/ Count(s) \/ CheckRole(s) \/ IsMember(s)
        \/ \E u \in Users : Write(s, u)
        \/ ReadMembers(s) \/ Commit(s) \/ InvalidateConv(s) \/ Fail(s)
    \/ \E r \in Loaders : Miss(r) \/ Fill(r)
    \/ Expire

-----------------------------------------------------------------------------
(* Properties *)

GroupsTypeOK ==
    /\ created \in BOOLEAN /\ role \in [Users -> Roles]
    /\ listed \subseteq Users /\ memberUids \subseteq Users
    /\ cached \in (SUBSET Users) \cup {NoSet}
    /\ load \in [Loaders -> (SUBSET Users) \cup {NoSet}]
    /\ step \in [Servers -> Steps] /\ call \in [Servers -> {"none", "seed", "add", "kick", "quit"}]
    /\ by \in [Servers -> Users \cup {NoOne}] /\ empty \in [Servers -> BOOLEAN]
    /\ calls \in Nat /\ {whom, todo, view} \subseteq [Servers -> SUBSET Users]
    /\ {seeders, changed, strayed, overlapped} \subseteq SUBSET Users /\ late \subseteq Loaders /\ excused \in BOOLEAN

\* Only who added the first members of an empty group is ever its owner, and
\* who alone did so is the one owner: whatever adds, kicks and quits are under
\* way, nobody else becomes owner and the owner does not leave, but for one whose
\* quit read the role before the seeding committed (group.go:36, group.go:117).
\* With it, the types.
OneOwner ==
    /\ GroupsTypeOK
    /\ Owners \subseteq seeders
    /\ \A u \in Users \ strayed : seeders = {u} => Owners = {u}

\* The three records of the members agree but for founders without a row of
\* their own yet, who stay listed when the seeding fails, and for member_uids on
\* uids changed by calls that overlapped: it is written from a plain SELECT, so
\* that one of two changes is lost (group.go:5, service.go:96).
MembershipAgrees ==
    /\ listed = Members \cup Orphans
    /\ \A u \in Users \ overlapped : u \in memberUids <=> u \in Members \cup Orphans

\* The cached members are those of the table, unless a change is about to
\* invalidate them, or one was made between a loader's SELECT (or CreateConv's
\* commit) and its Set, or its InvalidateConv failed (cache.go:132,
\* conversations.go:130, service.go:135).
OldMembersAreExcused ==
    \/ cached \in {NoSet, memberUids}
    \/ excused
    \/ \E s \in Servers : step[s] = "invalidate"
=============================================================================
