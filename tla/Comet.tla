------------------------------ MODULE Comet ------------------------------
(***************************************************************************)
(* internal/comet and cmd/yim-comet: the connections of one user on the    *)
(* comet instances.  The pump of a connection runs the handshake; a        *)
(* connection is closed by its own pump, by the handshake that replaces    *)
(* it, by the heartbeat sweep, a kick or the drain, and whoever wins the   *)
(* CAS on `closed` takes it out of the keeper.  Handshakes and closings    *)
(* therefore overlap.  The Redis steps in between (labels "route",         *)
(* "announce", "srem", "tell") are those of module Routing.                *)
(***************************************************************************)
EXTENDS Integers, FiniteSets

CONSTANTS Instances,  \* comet processes, by RPC address
          Devices,
          Conns,      \* bound: connections that are ever made
          NoConn      \* empty slot

ASSUME CometAssumption == NoConn \notin Conns /\ Instances # {} /\ Devices # {}

VARIABLES
    site,    \* per connection: the instance it is made to
    device,  \*   and the device that makes it, for good
    pc,      \* per connection: label of its pump
    old,     \* per connection: what Get found in its handshake
    shut,    \* connections whose closed flag is set
    cl,      \* per connection: progress of its Close
    keeper,  \* per instance: device -> connection
    snap,    \* per instance: connections the drain has yet to close
    drain,   \* per instance: draining flag
    blind,   \* history: added while another handshake of the device, which
             \*   had looked before, was on its way
    missed   \* history: per instance, in their handshake when it began to drain

conns == <<site, device, pc, old, shut, cl, keeper>>
ends == <<site, device>>
comet == <<conns, snap, drain, blind, missed>>

Labels == {"none", "new", "replace", "wait", "add", "route", "announce", "live", "ended"}
Closings == {"no", "remove", "srem", "tell", "done"}

Slot(c) == keeper[site[c]][device[c]]
Known(i) == {keeper[i][d] : d \in Devices} \ {NoConn}
Added(c) == pc[c] \in {"route", "announce", "live"}
InHandshake(c) == pc[c] \in {"new", "replace", "wait", "add"}

CometInit ==
    /\ site \in [Conns -> Instances] /\ device \in [Conns -> Devices]
    /\ pc = [c \in Conns |-> "none"] /\ old = [c \in Conns |-> NoConn]
    /\ shut = {} /\ cl = [c \in Conns |-> "no"]
    /\ keeper = [i \in Instances |-> [d \in Devices |-> NoConn]]
    /\ snap = [i \in Instances |-> {}] /\ drain = [i \in Instances |-> FALSE]
    /\ blind = {} /\ missed = [i \in Instances |-> {}]

Goto(c, label) == pc' = [pc EXCEPT ![c] = label]

-----------------------------------------------------------------------------
(* Close *)

\* Close: the CAS on the closed flag; only the winner goes on
BeginClose(c) ==
    /\ c \notin shut
    /\ shut' = shut \cup {c}
    /\ cl' = [cl EXCEPT ![c] = "remove"]

\* A slot is given up whoever is in it.
GivesUpAnything(c) == Slot(c) # NoConn

\* A slot is given up only by the connection that is in it.
GivesUp(c) == Slot(c) = c

\* Keeper.Remove in onConnClosed: TRUE to onOffline if it took the last one
Remove(c) ==
    LET i == site[c]
        rest == IF GivesUp(c) THEN [keeper[i] EXCEPT ![device[c]] = NoConn]
                              ELSE keeper[i]
        last == Known(i) # {} /\ \A d \in Devices : rest[d] = NoConn
    IN  /\ cl[c] = "remove"
        /\ keeper' = [keeper EXCEPT ![i] = rest]
        /\ cl' = [cl EXCEPT ![c] = IF last THEN "srem" ELSE "done"]
        /\ UNCHANGED <<ends, pc, old, shut, snap, drain, blind, missed>>

-----------------------------------------------------------------------------
(* The pump *)

\* The flag is not read.
WelcomesAlways(i) == TRUE

\* onStream: a draining instance refuses
Welcomes(i) == ~drain[i]

Accept(c) ==
    /\ pc[c] = "none" /\ Welcomes(site[c])
    /\ Goto(c, "new")
    /\ UNCHANGED <<ends, old, shut, cl, keeper, snap, drain, blind, missed>>

\* The client leaves before CONNECT, or its token is refused: there is
\* nothing to remove.
Reject(c) ==
    /\ pc[c] = "new"
    /\ Goto(c, "ended") /\ shut' = shut \cup {c} /\ cl' = [cl EXCEPT ![c] = "done"]
    /\ UNCHANGED <<ends, old, keeper, snap, drain, blind, missed>>

\* onConnect: Keeper.Get
LookUp(c) ==
    /\ pc[c] = "new"
    /\ old' = [old EXCEPT ![c] = Slot(c)]
    /\ Goto(c, IF Slot(c) = NoConn THEN "add" ELSE "replace")
    /\ UNCHANGED <<ends, shut, cl, keeper, snap, drain, blind, missed>>

\* onConnect: old.Close().  If it wins the CAS it runs the hook, Redis
\* commands included, before the handshake goes on.
Replace(c) ==
    /\ pc[c] = "replace"
    /\ \/ BeginClose(old[c]) /\ Goto(c, "wait")
       \/ old[c] \in shut /\ Goto(c, "add") /\ UNCHANGED <<shut, cl>>
    /\ UNCHANGED <<ends, old, keeper, snap, drain, blind, missed>>

Replaced(c) ==
    /\ pc[c] = "wait" /\ cl[old[c]] = "done"
    /\ Goto(c, "add")
    /\ UNCHANGED <<ends, old, shut, cl, keeper, snap, drain, blind, missed>>

\* Another handshake of this device has looked and not yet added.
Rival(c) == \E e \in Conns \ {c} :
    /\ site[e] = site[c] /\ device[e] = device[c]
    /\ pc[e] \in {"replace", "wait", "add"}

\* setIdentity, Keeper.Add
Add(c) ==
    /\ pc[c] = "add"
    /\ keeper' = [keeper EXCEPT ![site[c]][device[c]] = c]
    /\ blind' = IF Rival(c) THEN blind \cup {c} ELSE blind
    /\ old' = [old EXCEPT ![c] = NoConn]
    /\ Goto(c, "route")
    /\ UNCHANGED <<ends, shut, cl, snap, drain, missed>>

\* readFrame fails: the peer is gone, or the connection was closed under it
EndPump(c) ==
    /\ pc[c] = "live"
    /\ Goto(c, "ended")
    /\ BeginClose(c) \/ (c \in shut /\ UNCHANGED <<shut, cl>>)
    /\ UNCHANGED <<ends, old, keeper, snap, drain, blind, missed>>

-----------------------------------------------------------------------------
(* Closing from outside *)

\* Kick, or the heartbeat sweep: connections that the keeper lists
CloseListed(c) ==
    /\ Slot(c) = c /\ BeginClose(c)
    /\ UNCHANGED <<ends, pc, old, keeper, snap, drain, blind, missed>>

\* Drain: the flag, then the snapshot of the keeper
Drain(i) ==
    /\ ~drain[i]
    /\ drain' = [drain EXCEPT ![i] = TRUE]
    /\ snap' = [snap EXCEPT ![i] = Known(i)]
    /\ missed' = [missed EXCEPT ![i] = {c \in Conns : site[c] = i /\ InHandshake(c)}]
    /\ UNCHANGED <<conns, blind>>

\* Drain, after the timeout: Close each connection of the snapshot
CloseDrained(c) ==
    LET i == site[c]
    IN  /\ c \in snap[i]
        /\ snap' = [snap EXCEPT ![i] = @ \ {c}]
        /\ BeginClose(c) \/ (c \in shut /\ UNCHANGED <<shut, cl>>)
        /\ UNCHANGED <<ends, pc, old, keeper, drain, blind, missed>>

\* The process dies and starts again; its clients see their connections break.
Crash(i) ==
    LET gone == {c \in Conns : site[c] = i /\ pc[c] # "none"}
    IN  /\ pc' = [c \in Conns |-> IF c \in gone THEN "ended" ELSE pc[c]]
        /\ shut' = shut \cup gone
        /\ cl' = [c \in Conns |-> IF c \in gone THEN "done" ELSE cl[c]]
        /\ keeper' = [keeper EXCEPT ![i] = [d \in Devices |-> NoConn]]
        /\ snap' = [snap EXCEPT ![i] = {}] /\ drain' = [drain EXCEPT ![i] = FALSE]
        /\ blind' = blind \ gone /\ missed' = [missed EXCEPT ![i] = {}]
        /\ UNCHANGED <<ends, old>>

-----------------------------------------------------------------------------
(* Properties *)

\* The comet's variables have their types; a Close is under way only behind
\* the flag; the keeper lists a connection under its own instance and device.
CometTypeOK ==
    /\ site \in [Conns -> Instances] /\ device \in [Conns -> Devices]
    /\ pc \in [Conns -> Labels] /\ old \in [Conns -> Conns \cup {NoConn}]
    /\ shut \subseteq Conns /\ cl \in [Conns -> Closings]
    /\ keeper \in [Instances -> [Devices -> Conns \cup {NoConn}]]
    /\ \A i \in Instances, d \in Devices :
          LET c == keeper[i][d] IN c # NoConn => site[c] = i /\ device[c] = d
    /\ snap \in [Instances -> SUBSET Conns] /\ drain \in [Instances -> BOOLEAN]
    /\ blind \subseteq Conns /\ missed \in [Instances -> SUBSET Conns]
    /\ \A c \in Conns : (cl[c] # "no") <=> (c \in shut)

\* An open connection that has been added is the one the keeper lists, so that
\* pushes, sweeps, kicks and drains find it; the only way to lose one is that
\* two handshakes of its device overlapped (handler.go:89, Get and Add are not
\* one step).  In particular no late Close of a replaced connection removes
\* its successor.
OnlyOverlapsAreLost ==
    \A c \in Conns : Added(c) /\ c \notin shut => Slot(c) = c \/ c \in blind

\* When the drain of an instance has closed its snapshot, whatever is still
\* open there was in its handshake when the drain began: later connections are
\* refused, and registered ones are all closed (server.go:124).
DrainedOrMissed ==
    \A c \in Conns :
        drain[site[c]] /\ snap[site[c]] = {} /\ pc[c] # "none" /\ c \notin shut
            => c \in missed[site[c]] \/ c \in blind
=============================================================================
