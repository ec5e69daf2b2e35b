--------------------------- MODULE SeqPrefetch ---------------------------
(***************************************************************************)
(* internal/message/service.go: convSeqAlloc for one conversation (and     *)
(* msgIDAlloc, which is the same without Clear) in the instances of        *)
(* yim-message, on top of the Seq Svc, which is taken as its abstract      *)
(* specification SeqIssuer.  An instance fetches blocks of Step numbers    *)
(* and hands them out one by one.                                          *)
(***************************************************************************)
EXTENDS Integers

CONSTANTS Instances,  \* yim-message processes
          Callers,    \* SendMessage calls
          Rpcs,       \* bound: AllocConvSeq requests the Seq Svc serves at a time
          None,
          Here,       \* the instance whose callers are told apart, any of them
          Step,       \* convSeqStep, 64 in the code (msgIDStep: 512)
          MaxID       \* bound on the numbers

ASSUME PrefetchAssumption ==
    /\ Step \in Nat \ {0} /\ MaxID \in Nat
    /\ None \notin Callers \cup Rpcs \cup Instances
    /\ Here \in Instances

VARIABLES
    granted, served, rcall,  \* the Seq Svc: numbers, largest answer, requests
    cur, last,  \* per instance: the rest of its block; cur > last is none
    mu,         \* per instance: the caller that holds the mutex
    pc,         \* per caller: "idle", "lock", "rpc", "got"
    inst,       \* per caller: its instance
    rpc,        \* per caller: the request it waits for
    num,        \* per caller: the number it was given
    given,      \* history: per instance, numbers given to its callers
    top,        \* history: per instance, largest number its Alloc returned
    bar         \* history: per caller, top when its call began

svc == <<granted, served, rcall>>
mem == <<cur, last, mu>>
loc == <<pc, inst, rpc, num>>
hist == <<given, top, bar>>
vars == <<svc, mem, loc, hist>>

\* The Seq Svc serves one block per request.
Svc == INSTANCE SeqIssuer WITH
    Callers <- Rpcs, Sizes <- {Step},
    issued <- granted, top <- served, call <- rcall

NoBar == [i \in Instances |-> 0]

Init ==
    /\ Svc!Init
    /\ cur = [i \in Instances |-> 1] /\ last = [i \in Instances |-> 0]
    /\ mu = [i \in Instances |-> None]
    /\ pc = [c \in Callers |-> "idle"] /\ inst = [c \in Callers |-> None]
    /\ rpc = [c \in Callers |-> None] /\ num = [c \in Callers |-> 0]
    /\ given = [i \in Instances |-> {}] /\ top = NoBar /\ bar = [c \in Callers |-> NoBar]

\* The calls cs are over.
End(cs) ==
    /\ pc' = [c \in Callers |-> IF c \in cs THEN "idle" ELSE pc[c]]
    /\ inst' = [c \in Callers |-> IF c \in cs THEN None ELSE inst[c]]
    /\ rpc' = [c \in Callers |-> IF c \in cs THEN None ELSE rpc[c]]
    /\ num' = [c \in Callers |-> IF c \in cs THEN 0 ELSE num[c]]
    /\ bar' = [c \in Callers |-> IF c \in cs THEN NoBar ELSE bar[c]]

\* The mutex is given up for the time of the request.
NoLock(i, c) == UNCHANGED mu

Lock(i, c) == mu' = [mu EXCEPT ![i] = c]
Unlock(i) == mu' = [mu EXCEPT ![i] = None]
Waits(c) == pc[c] = "rpc"
Orphan(r) == \A c \in Callers : rpc[c] # r

-----------------------------------------------------------------------------
(* Alloc *)

Call(c, i) ==
    /\ pc[c] = "idle"
    /\ pc' = [pc EXCEPT ![c] = "lock"] /\ inst' = [inst EXCEPT ![c] = i]
    /\ bar' = [bar EXCEPT ![c] = top]
    /\ UNCHANGED <<svc, mem, rpc, num, given, top>>

Give(c, v) ==
    /\ pc' = [pc EXCEPT ![c] = "got"]
    /\ num' = [num EXCEPT ![c] = v]
    /\ given' = [given EXCEPT ![inst[c]] = @ \cup {v}]

\* The block lasts for one number more than it has.
LeftPastEnd(i) == cur[i] <= last[i] + 1 /\ last[i] # 0

Left(i) == cur[i] <= last[i]

\* A number is left in the block: the whole critical section.
TakeLeft(c) ==
    LET i == inst[c] IN
    /\ pc[c] = "lock" /\ mu[i] = None /\ Left(i)
    /\ Give(c, cur[i])
    /\ cur' = [cur EXCEPT ![i] = @ + 1]
    /\ UNCHANGED <<svc, last, mu, inst, rpc, top, bar>>

\* The block is used up: AllocConvSeq is called with the mutex held.
Refill(c) ==
    LET i == inst[c] IN
    /\ pc[c] = "lock" /\ mu[i] = None /\ ~Left(i)
    /\ Lock(i, c)
    /\ \E r \in Rpcs :
         /\ Orphan(r) /\ Svc!Begin(r)
         /\ rpc' = [rpc EXCEPT ![c] = r]
    /\ pc' = [pc EXCEPT ![c] = "rpc"]
    /\ UNCHANGED <<cur, last, inst, num, hist>>

\* The answer arrives; the loop goes round and takes its first number.
Arrive(c) ==
    LET i  == inst[c]
        lo == rcall[rpc[c]].lo
    IN  /\ Waits(c)
        /\ Svc!Return(rpc[c])
        /\ Give(c, lo)
        /\ cur' = [cur EXCEPT ![i] = lo + 1]
        /\ last' = [last EXCEPT ![i] = lo + Step - 1]
        /\ Unlock(i)
        /\ rpc' = [rpc EXCEPT ![c] = None]
        /\ UNCHANGED <<inst, top, bar>>

\* The Seq Svc answers with an error.
RpcFails(c) ==
    /\ Waits(c)
    /\ Svc!Fail(rpc[c])
    /\ Unlock(inst[c])
    /\ End({c})
    /\ UNCHANGED <<cur, last, given, top>>

\* The caller gives up waiting; the Seq Svc does not learn it.
TimesOut(c) ==
    /\ Waits(c)
    /\ Unlock(inst[c])
    /\ End({c})
    /\ UNCHANGED <<svc, cur, last, given, top>>

Return(c) ==
    /\ pc[c] = "got"
    /\ top' = [top EXCEPT ![inst[c]] = IF num[c] > @ THEN num[c] ELSE @]
    /\ End({c})
    /\ UNCHANGED <<svc, mem, given>>

-----------------------------------------------------------------------------
\* The map of blocks is emptied by the refill of another conversation.
Clear(i) ==
    /\ mu[i] = None /\ Left(i)
    /\ cur' = [cur EXCEPT ![i] = 1] /\ last' = [last EXCEPT ![i] = 0]
    /\ UNCHANGED <<svc, mu, loc, hist>>

\* Instance i dies and starts again.
Crash(i) ==
    /\ cur' = [cur EXCEPT ![i] = 1] /\ last' = [last EXCEPT ![i] = 0]
    /\ Unlock(i)
    /\ End({c \in Callers : inst[c] = i})
    /\ UNCHANGED <<svc, given, top>>

\* The Seq Svc works on a request; the answer to one that nobody waits for
\* any more is lost.
Serve(r) ==
    /\ Svc!Grant(r) \/ (Orphan(r) /\ (Svc!Return(r) \/ Svc!Fail(r)))
    /\ UNCHANGED <<mem, loc, hist>>

\* The Seq Svc restarts and the requests in progress fail.
SvcRestart ==
    /\ Svc!Restart
    /\ mu' = [i \in Instances |-> None]
    /\ End({c \in Callers : Waits(c)})
    /\ UNCHANGED <<cur, last, given, top>>

-----------------------------------------------------------------------------
Alloc(c) ==
    \/ TakeLeft(c) \/ Refill(c) \/ Arrive(c) \/ RpcFails(c) \/ TimesOut(c) \/ Return(c)

Next == \/ \E c \in Callers : Alloc(c) \/ \E i \in Instances : Call(c, i)
        \/ \E i \in Instances : Clear(i) \/ Crash(i)
        \/ \E r \in Rpcs : Serve(r)
        \/ SvcRestart

Spec == Init /\ [][Next]_vars

-----------------------------------------------------------------------------
(* Properties *)

TypeOK ==
    /\ granted \subseteq 1..MaxID /\ served \in 0..MaxID
    /\ rcall \in [Rpcs -> [st : {"idle", "wait", "got"}, n : {0, Step},
                           bar : 0..MaxID, lo : 0..MaxID]]
    /\ cur \in [Instances -> 1..(MaxID + 1)] /\ last \in [Instances -> 0..MaxID]
    /\ mu \in [Instances -> Callers \cup {None}]
    /\ pc \in [Callers -> {"idle", "lock", "rpc", "got"}]
    /\ inst \in [Callers -> Instances \cup {None}]
    /\ rpc \in [Callers -> Rpcs \cup {None}]
    /\ num \in [Callers -> 0..MaxID]
    /\ given \in [Instances -> SUBSET granted]
    /\ top \in [Instances -> 0..MaxID] /\ bar \in [Callers -> [Instances -> 0..MaxID]]
    /\ \A c \in Callers : pc[c] = "idle" <=> inst[c] = None
    /\ \A c \in Callers : Waits(c) => rpc[c] # None /\ mu[inst[c]] = c
    /\ \A i \in Instances : mu[i] # None => Waits(mu[i]) /\ inst[mu[i]] = i

\* Numbers given to any caller.
Taken == UNION {given[i] : i \in Instances}

\* No number is given twice: not by two instances, not after a refill that
\* timed out, not after a crash, a cleared map or a restart of the Seq Svc.
FreshSeqs ==
    [][\A c \in Callers : pc[c] # "got" /\ pc'[c] = "got" => num'[c] \notin Taken]_vars

\* An instance of yim-message is again an issuer, of single numbers: what it
\* hands out is above every number that it returned before the call began, and
\* new, whatever the other instances, crashes and lost answers do.
CallOf(c) ==
    IF inst[c] # Here THEN [st |-> "idle", n |-> 0, bar |-> 0, lo |-> 0]
    ELSE [st |-> IF pc[c] = "got" THEN "got" ELSE "wait",
          n |-> 1, bar |-> bar[c][Here], lo |-> num[c]]
Issuer == INSTANCE SeqIssuer WITH
    Sizes <- {1}, issued <- given[Here], top <- top[Here],
    call <- [c \in Callers |-> CallOf(c)]
IssuerSpec == Issuer!Spec
=============================================================================
