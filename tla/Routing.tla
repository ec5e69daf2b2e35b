------------------------------ MODULE Routing ------------------------------
(***************************************************************************)
(* The route table route:{uid} in Redis (internal/cache/cache.go), the     *)
(* copy of it that a message or job process keeps (route_cache.go), and    *)
(* PushRouted, which uses it to reach the user's connections               *)
(* (comet_cluster.go, comet_handler.go), over the connections of module    *)
(* Comet.  Everything is about one user and one pushing process.           *)
(*                                                                         *)
(* The list of instances that the pusher gets from etcd and keeps for five *)
(* seconds is the constant Instances: an instance that is younger than     *)
(* that is outside the model.  Presence events, which go to another topic  *)
(* and change nothing here, are left out.                                  *)
(***************************************************************************)
EXTENDS Comet, Sequences

CONSTANTS MaxFaults  \* bound: drains, crashes, expiries, broken or failed Redis and RPC calls

ASSUME RoutingAssumption == MaxFaults \in Nat

VARIABLES
    route,   \* the members of route:{uid}; {} when the key is missing
    feed,    \* route:change messages on their way to the subscriber
    sub,     \* the subscription is up
    seen,    \* routeCache.m[uid]; {} when there is no entry
    at,      \* label of the push: idle, read, store, push, done
    todo,    \* instances it has yet to call; what the seed read, in "store"
    wide,    \* it broadcasts (PushAll)
    hit,     \* it wrote to a connection
    owed,    \* history, until it wrote to one: connections that could be
             \*   reached ever since it began, whose instance it has not
             \*   called, or only with an error of the routed call
    faults   \* faults so far

pushing == <<at, todo, wide, hit>>
table == <<route, feed, sub, seen>>
vars == <<comet, table, pushing, owed, faults>>

Reachable == {c \in Conns : Slot(c) = c /\ c \notin shut}

Init ==
    /\ CometInit
    /\ route = {} /\ feed = <<>> /\ sub = TRUE /\ seen = {}
    /\ at = "idle" /\ todo = {} /\ wide = FALSE /\ hit = FALSE
    /\ owed = {} /\ faults = 0

Fault == faults < MaxFaults /\ faults' = faults + 1
NoFault == UNCHANGED faults

-----------------------------------------------------------------------------
(* Writers: RouteAdd in the handshake, RouteRem(Last) in the offline hook *)

\* A message reaches a subscriber that listens, or nobody.
Publish(op, i) == feed' = IF sub THEN Append(feed, [op |-> op, addr |-> i]) ELSE feed

\* SADD, EXPIRE; the error of a failing command is not looked at
RouteAdd(c) ==
    /\ pc[c] = "route" /\ Goto(c, "announce")
    /\ \/ route' = route \cup {site[c]} /\ NoFault
       \/ UNCHANGED route /\ Fault
    /\ UNCHANGED <<ends, old, shut, cl, keeper, snap, drain, blind, missed, feed, sub, seen, pushing>>

\* PUBLISH add, and the CONNECT_RSP
AnnounceAdd(c) ==
    /\ pc[c] = "announce" /\ Goto(c, "live")
    /\ Publish("add", site[c])
    /\ UNCHANGED <<ends, old, shut, cl, keeper, snap, drain, blind, missed, route, sub, seen, pushing>>
    /\ NoFault

\* SREM of this instance only
Without(i) == route \ {i}

RouteRem(c) ==
    /\ cl[c] = "srem" /\ cl' = [cl EXCEPT ![c] = "tell"]
    /\ \/ route' = Without(site[c]) /\ NoFault
       \/ UNCHANGED route /\ Fault
    /\ UNCHANGED <<ends, pc, old, shut, keeper, snap, drain, blind, missed, feed, sub, seen, pushing>>

\* PUBLISH rem; SCARD decides about a presence event only
AnnounceRem(c) ==
    /\ cl[c] = "tell" /\ cl' = [cl EXCEPT ![c] = "done"]
    /\ Publish("rem", site[c])
    /\ UNCHANGED <<ends, pc, old, shut, keeper, snap, drain, blind, missed, route, sub, seen, pushing>>
    /\ NoFault

\* The TTL runs out: nobody is connected, or heartbeats (RouteTouch) are late.
\* RouteTouch does not bring a missing key back, so the connections that are
\* there stay without a route.
Expire ==
    /\ route # {} /\ route' = {}
    /\ UNCHANGED <<comet, feed, sub, seen, pushing>> /\ Fault

-----------------------------------------------------------------------------
(* The copy: SubscribeRouteChanges *)

Applied(m) == IF m.op = "add" THEN seen \cup {m.addr} ELSE seen \ {m.addr}

Apply ==
    /\ feed # <<>>
    /\ seen' = Applied(Head(feed)) /\ feed' = Tail(feed)
    /\ UNCHANGED <<comet, route, sub, pushing>> /\ NoFault

Break ==
    /\ sub /\ sub' = FALSE /\ feed' = <<>>
    /\ UNCHANGED <<comet, route, seen, pushing>> /\ Fault

\* Subscribe, then reset
Resubscribe ==
    /\ ~sub /\ sub' = TRUE /\ seen' = {}
    /\ UNCHANGED <<comet, route, feed, pushing>> /\ NoFault

-----------------------------------------------------------------------------
(* PushRouted *)

\* routeCache.get, the local map
Begin ==
    /\ at = "idle"
    /\ at' = IF seen # {} THEN "push" ELSE "read"
    /\ todo' = seen
    /\ UNCHANGED <<comet, table, wide, hit>> /\ NoFault

\* RouteGet: a miss or an error leads to PushAll
ReadRoute ==
    /\ at = "read"
    /\ \/ /\ route # {} /\ at' = "store" /\ todo' = route /\ NoFault /\ UNCHANGED wide
       \/ /\ IF route = {} THEN NoFault ELSE Fault
          /\ at' = "push" /\ todo' = Instances /\ wide' = TRUE
    /\ UNCHANGED <<comet, table, hit>>

\* seed: whatever was applied since the read is overwritten
Seed ==
    /\ at = "store"
    /\ seen' = todo /\ at' = "push"
    /\ UNCHANGED <<comet, route, feed, sub, todo, wide, hit>> /\ NoFault

Listening(i) == Known(i) \ shut

\* pushOne, with CometHandler.PushMessage: every listed connection is written to
PushOne(i) ==
    /\ at = "push" /\ i \in todo
    /\ todo' = todo \ {i}
    /\ \/ hit' = (hit \/ Listening(i) # {}) /\ NoFault
       \/ Fault /\ UNCHANGED hit
    /\ UNCHANGED <<comet, table, at, wide>>

\* A routed push that reached nobody is taken for an answer.
FallsBackNever == FALSE

\* The routed push reached nobody: PushAll
FallsBack == ~hit /\ ~wide

PushEnd ==
    /\ at = "push" /\ todo = {}
    /\ IF FallsBack
       THEN todo' = Instances /\ wide' = TRUE /\ UNCHANGED <<at, hit>>
       ELSE at' = "done" /\ wide' = FALSE /\ UNCHANGED <<todo, hit>>
    /\ UNCHANGED <<comet, table>> /\ NoFault

Forget ==
    /\ at = "done"
    /\ at' = "idle" /\ hit' = FALSE
    /\ UNCHANGED <<comet, table, todo, wide>> /\ NoFault

-----------------------------------------------------------------------------

Local == UNCHANGED <<table, pushing>> /\ NoFault

Pump(c) ==
    \/ (Accept(c) \/ Reject(c) \/ LookUp(c) \/ Replace(c) \/ Replaced(c) \/ Add(c)) /\ Local
    \/ RouteAdd(c) \/ AnnounceAdd(c)
    \/ EndPump(c) /\ Local

Closing(c) == (Remove(c) /\ Local) \/ RouteRem(c) \/ AnnounceRem(c)

Outside ==
    \/ \E c \in Conns : (CloseListed(c) \/ CloseDrained(c)) /\ Local
    \/ \E i \in Instances : (Drain(i) \/ Crash(i)) /\ Fault /\ UNCHANGED <<table, pushing>>
    \/ Expire

Pusher ==
    \/ Begin \/ ReadRoute \/ Seed \/ PushEnd \/ Forget
    \/ \E i \in Instances : PushOne(i)

Step ==
    \/ \E c \in Conns : Pump(c) \/ Closing(c)
    \/ Outside \/ Apply \/ Break \/ Resubscribe \/ Pusher

\* The instance that a step of the push calls, for good
Called == IF at = "push" /\ (wide \/ faults' = faults) THEN todo \ todo' ELSE {}

Next == Step /\ owed' = IF at' = "idle" \/ hit' THEN {}
                        ELSE IF at = "idle" THEN Reachable
                        ELSE {c \in owed \cap Reachable' : site[c] \notin Called}

Spec == Init /\ [][Next]_vars

-----------------------------------------------------------------------------
(* Properties *)

\* The types of both parts; what a push has still to call is made of
\* instances, and a broadcast never goes back to being routed.
TypeOK ==
    /\ CometTypeOK
    /\ route \subseteq Instances /\ seen \subseteq Instances
    /\ feed \in Seq([op : {"add", "rem"}, addr : Instances])
    /\ sub \in BOOLEAN /\ (~sub => feed = <<>>)
    /\ at \in {"idle", "read", "store", "push", "done"}
    /\ todo \subseteq Instances /\ wide \in BOOLEAN /\ hit \in BOOLEAN
    /\ owed \subseteq Conns /\ faults \in 0..MaxFaults

\* A push that reports the user offline (so that a row in offline_box is
\* written) is right: no connection was there all the while, however old the
\* route table and its copy are (comet_cluster.go:74, "route table is an
\* optimisation, not a matter of correctness").  With it, the types.
OfflineMeansOffline ==
    /\ TypeOK
    /\ at = "done" /\ ~hit => owed = {}
=============================================================================
