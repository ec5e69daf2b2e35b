---------------------------- MODULE MarkQueue ----------------------------
(***************************************************************************)
(* What the delivery layer may expect of its batched "delivered" marks: a  *)
(* mark that was added is written to the table some time later, together   *)
(* with any other waiting marks, or it is dropped (a failed UPDATE, a      *)
(* crash); a row that is marked stays marked, and nothing is marked that   *)
(* was not added.                                                          *)
(***************************************************************************)
CONSTANTS Items   \* (conv_id, msg_id) pairs

VARIABLES waiting,  \* marks added and neither written nor dropped
          stored,   \* rows with status = 1
          lost      \* marks that a failure dropped

vars == <<waiting, stored, lost>>

Init == waiting = {} /\ stored = {} /\ lost = {}

Add(i) == waiting' = waiting \cup {i} /\ UNCHANGED <<stored, lost>>

\* A batch is written.  Some of its marks may wait a second time.
Write(batch) ==
    /\ batch \subseteq waiting
    /\ stored' = stored \cup batch
    /\ waiting' \subseteq waiting
    /\ waiting \ waiting' \subseteq batch
    /\ UNCHANGED lost

Lose(batch) ==
    /\ batch \subseteq waiting
    /\ lost' = lost \cup batch
    /\ waiting' \subseteq waiting
    /\ waiting \ waiting' \subseteq batch
    /\ UNCHANGED stored

Next == \/ \E i \in Items : Add(i)
        \/ \E batch \in SUBSET Items : Write(batch) \/ Lose(batch)

Spec == Init /\ [][Next]_vars
=============================================================================
