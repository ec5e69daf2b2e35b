---------------------------- MODULE SeqIssuer ----------------------------
(***************************************************************************)
(* What the number issuer of the Seq Svc promises for one (biz, key_id):   *)
(* a call receives a block of consecutive numbers that nobody received     *)
(* before, all of them above every number returned before the call began.  *)
(* Holes are allowed, calls may fail, and a restart of the service drops   *)
(* the calls in flight (numbers granted but not returned stay used).       *)
(***************************************************************************)
EXTENDS Integers

CONSTANTS Callers,   \* concurrent callers of Next
          Sizes,     \* sizes of the blocks that calls ask for
          MaxID      \* bound on the numbers of the instance

VARIABLES issued,    \* numbers handed out so far
          top,       \* largest number returned by a completed call
          call       \* call[c]: what caller c is doing

vars == <<issued, top, call>>

Idle == [st |-> "idle", n |-> 0, bar |-> 0, lo |-> 0]

Init == /\ issued = {}
        /\ top = 0
        /\ call = [c \in Callers |-> Idle]

\* A call for n numbers begins: its answer must lie above everything returned.
Begin(c) ==
    /\ call[c] = Idle
    /\ \E n \in Sizes :
         call' = [call EXCEPT ![c] = [st |-> "wait", n |-> n, bar |-> top, lo |-> 0]]
    /\ UNCHANGED <<issued, top>>

\* The numbers of the call are fixed.
Grant(c) ==
    /\ call[c].st = "wait"
    /\ \E lo \in 1..MaxID :
         LET block == lo..(lo + call[c].n - 1)
         IN  /\ lo > call[c].bar
             /\ block \subseteq 1..MaxID
             /\ block \cap issued = {}
             /\ issued' = issued \cup block
             /\ call' = [call EXCEPT ![c] = [st |-> "got", n |-> call[c].n,
                                              bar |-> call[c].bar, lo |-> lo]]
    /\ UNCHANGED top

\* The call returns its block.
Return(c) ==
    /\ call[c].st = "got"
    /\ top' = LET hi == call[c].lo + call[c].n - 1 IN IF hi > top THEN hi ELSE top
    /\ call' = [call EXCEPT ![c] = Idle]
    /\ UNCHANGED issued

\* The call returns an error.
Fail(c) ==
    /\ call[c].st = "wait"
    /\ call' = [call EXCEPT ![c] = Idle]
    /\ UNCHANGED <<issued, top>>

\* The service restarts.
Restart ==
    /\ call' = [c \in Callers |-> Idle]
    /\ UNCHANGED <<issued, top>>

Next == \/ \E c \in Callers : Begin(c) \/ Grant(c) \/ Return(c) \/ Fail(c)
        \/ Restart

Spec == Init /\ [][Next]_vars
=============================================================================
