--------------------------- MODULE RoutingProofs ---------------------------
(***************************************************************************)
(* Proofs about Comet and Routing for any number of instances, devices and *)
(* connections.  Comet: a handshake that has looked its slot up has either *)
(* seen whoever is in it, and closed it before it adds, or whoever is in   *)
(* it came while the handshake was on its way and is in blind.  Routing: a *)
(* broadcast has yet to call the instance of every connection that is owed *)
(* the message.                                                            *)
(***************************************************************************)
EXTENDS Routing, TLAPS

(* Comet *)

\* A handshake past LookUp knows whoever is in its slot, unless that one came
\* later; before it adds, it has closed whom it knows.
Looked(c) ==
    pc[c] \in {"replace", "wait", "add"} =>
        /\ Slot(c) \in {NoConn, old[c]} \cup shut \cup blind
        /\ pc[c] = "replace" => old[c] # NoConn
        /\ pc[c] # "replace" => old[c] \in {NoConn} \cup shut

\* No pump ends without a Close.
Ended(c) == pc[c] = "ended" => c \in shut

\* What is open on a draining instance is still to be closed, or was missed.
Covered(c) ==
    drain[site[c]] /\ pc[c] # "none" /\ c \notin shut =>
        c \in snap[site[c]] \cup missed[site[c]] \cup blind

CInv ==
    /\ CometTypeOK /\ OnlyOverlapsAreLost
    /\ \A c \in Conns : Looked(c) /\ Ended(c) /\ Covered(c)

\* The slot of a connection
LEMMA SlotType ==
    ASSUME CometTypeOK, NEW c \in Conns
    PROVE  /\ site[c] \in Instances /\ device[c] \in Devices
           /\ Slot(c) \in Conns \cup {NoConn}
           /\ Slot(c) # NoConn => site[Slot(c)] = site[c] /\ device[Slot(c)] = device[c]
BY DEF CometTypeOK, Slot

\* What a Close does to the flag and its progress
LEMMA BeginCloseType ==
    ASSUME CometTypeOK, NEW c \in Conns, BeginClose(c) \/ (c \in shut /\ UNCHANGED <<shut, cl>>)
    PROVE  /\ shut' = shut \cup {c} /\ shut' \subseteq Conns /\ cl' \in [Conns -> Closings]
           /\ \A e \in Conns : (cl'[e] # "no") <=> (e \in shut')
BY DEF CometTypeOK, BeginClose, Closings

\* A step that leaves the keeper, the drains and the histories alone and opens
\* no connection; handshakes that are past LookUp keep what they know.
LEMMA QuietCInv ==
    ASSUME CInv, CometTypeOK', shut \subseteq shut',
           UNCHANGED <<ends, keeper, drain, blind, missed>>,
           \A i \in Instances : snap[i] \subseteq snap'[i] \cup shut',
           \A c \in Conns :
             /\ Added(c)' => Added(c)
             /\ pc'[c] # "none" => pc[c] # "none" \/ ~drain[site[c]]
             /\ Looked(c)' /\ Ended(c)'
    PROVE  CInv'
<1>1. /\ CometTypeOK /\ OnlyOverlapsAreLost /\ site' = site /\ keeper' = keeper
      /\ \A c \in Conns : Covered(c) /\ Slot(c)' = Slot(c)
  BY DEF CInv, ends, Slot
<1>2. OnlyOverlapsAreLost'
  BY <1>1 DEF OnlyOverlapsAreLost
<1>3. \A c \in Conns : Covered(c)'
  BY <1>1, SlotType DEF Covered
<1> QED BY <1>2, <1>3 DEF CInv

\* The pump up to LookUp, after a close, and at its end
LEMMA PumpCInv ==
    ASSUME CInv, NEW c \in Conns,
           Accept(c) \/ Reject(c) \/ LookUp(c) \/ Replaced(c) \/ EndPump(c)
    PROVE  CInv'
<1>1. CometTypeOK /\ \A e \in Conns : Looked(e) /\ Ended(e)
  BY DEF CInv
<1>2. UNCHANGED <<ends, keeper, drain, blind, missed, snap>>
  BY DEF Accept, Reject, LookUp, Replaced, EndPump
<1>3. PICK l \in Labels : pc' = [pc EXCEPT ![c] = l]
  BY <1>1, SlotType DEF Accept, Reject, LookUp, Replaced, EndPump, Goto, Labels
<1>4. /\ shut \subseteq shut' /\ shut' \subseteq Conns /\ cl' \in [Conns -> Closings]
      /\ \A e \in Conns : (cl'[e] # "no") <=> (e \in shut')
  <2>1. CASE shut' = shut /\ cl' = cl
    BY <1>1, <2>1 DEF CometTypeOK
  <2>2. CASE shut' = shut \cup {c} /\ cl' = [cl EXCEPT ![c] = "done"]
    BY <1>1, <2>2 DEF CometTypeOK, Closings
  <2>3. CASE Replaced(c) \/ EndPump(c)
    BY <1>1, <2>3, BeginCloseType DEF Replaced, EndPump, CometTypeOK, Closings
  <2> QED BY <2>1, <2>2, <2>3 DEF Accept, Reject, LookUp
<1>5. old' \in [Conns -> Conns \cup {NoConn}]
  <2>1. CASE LookUp(c)
    BY <1>1, <2>1, SlotType DEF LookUp, CometTypeOK
  <2>2. CASE UNCHANGED old
    BY <1>1, <2>2 DEF CometTypeOK
  <2> QED BY <2>1, <2>2 DEF Accept, Reject, Replaced, EndPump
<1>6. CometTypeOK'
  BY <1>1, <1>2, <1>3, <1>4, <1>5 DEF CometTypeOK, ends
<1>7. \A e \in Conns : e # c => pc'[e] = pc[e] /\ old'[e] = old[e]
  BY <1>1, <1>3 DEF Accept, Reject, LookUp, Replaced, EndPump, CometTypeOK
<1>8. \A e \in Conns : Slot(e)' = Slot(e)
  BY <1>2 DEF Slot, ends
<1>9. \A e \in Conns \ {c} : Looked(e)' /\ Ended(e)'
  BY <1>1, <1>2, <1>4, <1>7, <1>8 DEF Looked, Ended
<1>10. Looked(c)' /\ Ended(c)'
  <2>1. CASE Accept(c)
    BY <1>1, <2>1 DEF Accept, Goto, Looked, Ended, CometTypeOK
  <2>2. CASE Reject(c)
    BY <1>1, <2>2 DEF Reject, Goto, Looked, Ended, CometTypeOK
  <2>3. CASE LookUp(c)
    BY <1>1, <1>8, <2>3 DEF LookUp, Goto, Looked, Ended, CometTypeOK
  <2>4. CASE Replaced(c)
    <3>1. pc'[c] = "add" /\ old' = old /\ shut' = shut /\ blind' = blind /\ pc[c] = "wait"
      BY <1>1, <2>4 DEF Replaced, Goto, CometTypeOK
    <3> QED BY <1>1, <1>8, <3>1 DEF Looked, Ended
  <2>5. CASE EndPump(c)
    <3>1. pc'[c] = "ended" /\ c \in shut'
      BY <1>1, <2>5 DEF EndPump, Goto, BeginClose, CometTypeOK
    <3> QED BY <3>1 DEF Looked, Ended
  <2> QED BY <2>1, <2>2, <2>3, <2>4, <2>5
<1>11. \A e \in Conns : /\ Added(e)' => Added(e)
                        /\ pc'[e] # "none" => pc[e] # "none" \/ ~drain[site[e]]
  <2>1. ~Added(c)'
    BY <1>1 DEF Accept, Reject, LookUp, Replaced, EndPump, Goto, Added, CometTypeOK
  <2>2. pc[c] # "none" \/ ~drain[site[c]]
    BY DEF Accept, Reject, LookUp, Replaced, EndPump, Welcomes
  <2> QED BY <1>7, <2>1, <2>2 DEF Added
<1> QED BY <1>1, <1>2, <1>4, <1>6, <1>9, <1>10, <1>11, QuietCInv

\* The connection that LookUp found is closed before the handshake goes on.
LEMMA ReplaceCInv == ASSUME CInv, NEW c \in Conns, Replace(c) PROVE CInv'
<1>1. CometTypeOK /\ \A e \in Conns : Looked(e) /\ Ended(e)
  BY DEF CInv
<1>2. pc[c] = "replace" /\ UNCHANGED <<ends, old, keeper, snap, drain, blind, missed>>
  BY DEF Replace
<1>3. PICK l \in {"wait", "add"} : pc' = [pc EXCEPT ![c] = l]
  BY DEF Replace, Goto
<1>4. old[c] \in Conns
  BY <1>1, <1>2 DEF Looked, CometTypeOK
<1>5. /\ shut' = shut \cup {old[c]} /\ shut' \subseteq Conns /\ cl' \in [Conns -> Closings]
      /\ \A e \in Conns : (cl'[e] # "no") <=> (e \in shut')
  BY <1>1, <1>4, BeginCloseType DEF Replace
<1>6. CometTypeOK'
  <2>1. pc' \in [Conns -> Labels]
    BY <1>1, <1>3 DEF CometTypeOK, Labels
  <2> QED BY <1>1, <1>2, <1>5, <2>1 DEF CometTypeOK, ends
<1>7. pc'[c] = l /\ \A e \in Conns : e # c => pc'[e] = pc[e]
  BY <1>1, <1>3 DEF CometTypeOK
<1>8. \A e \in Conns : Slot(e)' = Slot(e)
  BY <1>2 DEF Slot, ends
<1>9. \A e \in Conns : Looked(e)' /\ Ended(e)'
  BY <1>1, <1>2, <1>5, <1>7, <1>8 DEF Looked, Ended
<1>10. \A e \in Conns : /\ Added(e)' => Added(e)
                        /\ pc'[e] # "none" => pc[e] # "none" \/ ~drain[site[e]]
  BY <1>2, <1>7 DEF Added
<1> QED BY <1>2, <1>5, <1>6, <1>9, <1>10, QuietCInv

\* Keeper.Add puts the connection into its slot.  Whoever was in there is
\* closed, or lost to an overlap; a rival that has looked puts it in blind.
LEMMA AddCInv == ASSUME CInv, NEW c \in Conns, Add(c) PROVE CInv'
<1>1. CometTypeOK /\ OnlyOverlapsAreLost /\ \A e \in Conns : Looked(e) /\ Ended(e) /\ Covered(e)
  BY DEF CInv
<1>2. /\ pc[c] = "add" /\ pc' = [pc EXCEPT ![c] = "route"] /\ old' = [old EXCEPT ![c] = NoConn]
      /\ keeper' = [keeper EXCEPT ![site[c]] = [keeper[site[c]] EXCEPT ![device[c]] = c]]
      /\ blind' = (IF Rival(c) THEN blind \cup {c} ELSE blind)
      /\ UNCHANGED <<site, device, shut, cl, snap, drain, missed>>
  BY DEF Add, Goto, ends
<1>3. site[c] \in Instances /\ device[c] \in Devices
  BY <1>1, SlotType
<1>4. CometTypeOK'
  <2>1. keeper' \in [Instances -> [Devices -> Conns \cup {NoConn}]]
    BY <1>1, <1>2, <1>3 DEF CometTypeOK
  <2>2. \A i \in Instances, d \in Devices :
           keeper'[i][d] = IF i = site[c] /\ d = device[c] THEN c ELSE keeper[i][d]
    BY <1>1, <1>2, <1>3 DEF CometTypeOK
  <2> QED BY <1>1, <1>2, <2>1, <2>2 DEF CometTypeOK, Labels
<1>5. \A e \in Conns :
         Slot(e)' = IF site[e] = site[c] /\ device[e] = device[c] THEN c ELSE Slot(e)
  BY <1>1, <1>2 DEF CometTypeOK, Slot
<1>6. \A e \in Conns : pc'[e] = (IF e = c THEN "route" ELSE pc[e])
                       /\ old'[e] = (IF e = c THEN NoConn ELSE old[e])
  BY <1>1, <1>2 DEF CometTypeOK
<1>7. blind \subseteq blind'
  BY <1>2
<1>8. OnlyOverlapsAreLost'
  <2> SUFFICES ASSUME NEW e \in Conns, Added(e)', e \notin shut' PROVE Slot(e)' = e \/ e \in blind'
    BY DEF OnlyOverlapsAreLost
  <2>1. CASE e = c
    BY <1>5, <2>1
  <2>2. CASE e # c
    <3>1. Slot(e) = e \/ e \in blind
      BY <1>1, <1>2, <1>6, <2>2 DEF Added, OnlyOverlapsAreLost
    <3>2. ASSUME Slot(e) = e, site[e] = site[c], device[e] = device[c] PROVE e \in blind
      <4>1. Slot(c) = e
        BY <3>2 DEF Slot
      <4> QED BY <1>1, <1>2, <4>1, CometAssumption DEF Looked
    <3> QED BY <1>5, <1>7, <3>1, <3>2
  <2> QED BY <2>1, <2>2
<1>9. \A e \in Conns : Looked(e)'
  <2> SUFFICES ASSUME NEW e \in Conns, pc'[e] \in {"replace", "wait", "add"} PROVE Looked(e)'
    BY DEF Looked
  <2>1. e # c /\ pc'[e] = pc[e] /\ old'[e] = old[e]
    BY <1>6
  <2>2. Slot(e)' \in {NoConn, old[e]} \cup shut \cup blind'
    <3>1. CASE site[e] = site[c] /\ device[e] = device[c]
      <4>1. Rival(c)
        BY <2>1, <3>1 DEF Rival
      <4> QED BY <1>2, <1>5, <3>1, <4>1
    <3>2. CASE ~(site[e] = site[c] /\ device[e] = device[c])
      BY <1>1, <1>5, <1>7, <2>1, <3>2 DEF Looked
    <3> QED BY <3>1, <3>2
  <2> QED BY <1>1, <1>2, <2>1, <2>2 DEF Looked
<1>10. \A e \in Conns : Ended(e)' /\ Covered(e)'
  BY <1>1, <1>2, <1>6, <1>7 DEF Ended, Covered
<1> QED BY <1>4, <1>8, <1>9, <1>10 DEF CInv

\* Keeper.Remove gives up a slot only when the connection that is in it, which
\* is closed, is the one to remove.
LEMMA RemoveCInv == ASSUME CInv, NEW c \in Conns, Remove(c) PROVE CInv'
<1>1. CometTypeOK /\ OnlyOverlapsAreLost /\ \A e \in Conns : Looked(e) /\ Ended(e) /\ Covered(e)
  BY DEF CInv
<1> DEFINE rest == IF Slot(c) = c THEN [keeper[site[c]] EXCEPT ![device[c]] = NoConn]
                                  ELSE keeper[site[c]]
<1>2. /\ cl[c] = "remove" /\ keeper' = [keeper EXCEPT ![site[c]] = rest]
      /\ UNCHANGED <<site, device, pc, old, shut, snap, drain, blind, missed>>
  BY DEF Remove, GivesUp, ends
<1>3. PICK l \in {"srem", "done"} : cl' = [cl EXCEPT ![c] = l]
  BY DEF Remove
<1>4. site[c] \in Instances /\ device[c] \in Devices /\ c \in shut
  BY <1>1, <1>2, SlotType DEF CometTypeOK
<1>5. \A i \in Instances, d \in Devices :
         keeper'[i][d] = IF Slot(c) = c /\ i = site[c] /\ d = device[c] THEN NoConn ELSE keeper[i][d]
  BY <1>1, <1>2, <1>4 DEF CometTypeOK
<1>6. CometTypeOK'
  <2>1. keeper' \in [Instances -> [Devices -> Conns \cup {NoConn}]]
    BY <1>1, <1>2, <1>4 DEF CometTypeOK
  <2>2. cl' \in [Conns -> Closings] /\ \A e \in Conns : (cl'[e] # "no") <=> (e \in shut)
    BY <1>1, <1>3, <1>4 DEF CometTypeOK, Closings
  <2> QED BY <1>1, <1>2, <1>5, <2>1, <2>2 DEF CometTypeOK
<1>7. \A e \in Conns : Slot(e)' = Slot(e) \/ (Slot(e)' = NoConn /\ Slot(e) = c)
  BY <1>1, <1>2, <1>5, SlotType DEF Slot
<1>8. OnlyOverlapsAreLost'
  BY <1>1, <1>2, <1>4, <1>7 DEF OnlyOverlapsAreLost, Added
<1>9. \A e \in Conns : Looked(e)' /\ Ended(e)' /\ Covered(e)'
  BY <1>1, <1>2, <1>7 DEF Looked, Ended, Covered
<1> QED BY <1>6, <1>8, <1>9 DEF CInv

\* A sweep, a kick or a drain closes a connection.
LEMMA CloseCInv == ASSUME CInv, NEW c \in Conns, CloseListed(c) \/ CloseDrained(c) PROVE CInv'
<1>1. CometTypeOK /\ \A e \in Conns : Looked(e) /\ Ended(e)
  BY DEF CInv
<1>2. /\ BeginClose(c) \/ (c \in shut /\ UNCHANGED <<shut, cl>>)
      /\ UNCHANGED <<ends, pc, old, keeper, drain, blind, missed>>
  BY DEF CloseListed, CloseDrained
<1>3. /\ shut' = shut \cup {c} /\ shut' \subseteq Conns /\ cl' \in [Conns -> Closings]
      /\ \A e \in Conns : (cl'[e] # "no") <=> (e \in shut')
  BY <1>1, <1>2, BeginCloseType
<1>4. /\ snap' \in [Instances -> SUBSET Conns]
      /\ \A i \in Instances : snap[i] \subseteq snap'[i] \cup shut'
  <2>1. CASE CloseListed(c)
    BY <1>1, <2>1 DEF CloseListed, CometTypeOK
  <2>2. CASE CloseDrained(c)
    <3>1. snap' = [snap EXCEPT ![site[c]] = snap[site[c]] \ {c}]
      BY <2>2 DEF CloseDrained
    <3> QED BY <1>1, <1>3, <3>1 DEF CometTypeOK
  <2> QED BY <2>1, <2>2
<1>5. CometTypeOK'
  BY <1>1, <1>2, <1>3, <1>4 DEF CometTypeOK, ends
<1>6. \A e \in Conns : Slot(e)' = Slot(e)
  BY <1>2 DEF Slot, ends
<1>7. \A e \in Conns : Looked(e)' /\ Ended(e)'
  BY <1>1, <1>2, <1>3, <1>6 DEF Looked, Ended
<1> QED BY <1>2, <1>3, <1>4, <1>5, <1>7, QuietCInv DEF Added

\* The snapshot has whatever is registered; what is in its handshake is missed.
LEMMA DrainCInv == ASSUME CInv, NEW i \in Instances, Drain(i) PROVE CInv'
<1>1. CometTypeOK /\ OnlyOverlapsAreLost /\ \A e \in Conns : Looked(e) /\ Ended(e) /\ Covered(e)
  BY DEF CInv
<1>2. /\ drain' = [drain EXCEPT ![i] = TRUE] /\ snap' = [snap EXCEPT ![i] = Known(i)]
      /\ missed' = [missed EXCEPT ![i] = {c \in Conns : site[c] = i /\ InHandshake(c)}]
      /\ UNCHANGED <<site, device, pc, old, shut, cl, keeper, blind>>
  BY DEF Drain, conns
<1>3. Known(i) \subseteq Conns
  BY <1>1 DEF Known, CometTypeOK
<1>4. CometTypeOK'
  <2>1. /\ snap' \in [Instances -> SUBSET Conns] /\ drain' \in [Instances -> BOOLEAN]
        /\ missed' \in [Instances -> SUBSET Conns]
    BY <1>1, <1>2, <1>3 DEF CometTypeOK
  <2> QED BY <1>1, <1>2, <2>1 DEF CometTypeOK
<1>5. \A e \in Conns : Slot(e)' = Slot(e) /\ Added(e)' = Added(e)
  BY <1>2 DEF Slot, Added
<1>6. OnlyOverlapsAreLost'
  BY <1>1, <1>2, <1>5 DEF OnlyOverlapsAreLost
<1>7. \A e \in Conns : Looked(e)' /\ Ended(e)'
  BY <1>1, <1>2, <1>5 DEF Looked, Ended
<1>8. ASSUME NEW e \in Conns PROVE Covered(e)'
  <2>1. CASE site[e] = i
    <3>1. snap'[i] = Known(i) /\ missed'[i] = {c \in Conns : site[c] = i /\ InHandshake(c)}
      BY <1>1, <1>2 DEF CometTypeOK
    <3>2. Added(e) /\ e \notin shut => e \in Known(i) \cup blind
      BY <1>1, <2>1, SlotType, CometAssumption DEF OnlyOverlapsAreLost, Known, Slot
    <3>3. pc[e] = "none" \/ pc[e] = "ended" \/ Added(e) \/ InHandshake(e)
      BY <1>1 DEF CometTypeOK, Labels, Added, InHandshake
    <3> QED BY <1>1, <1>2, <2>1, <3>1, <3>2, <3>3 DEF Covered, Ended
  <2>2. CASE site[e] # i
    BY <1>1, <1>2, <2>2, SlotType DEF Covered, CometTypeOK
  <2> QED BY <2>1, <2>2
<1> QED BY <1>4, <1>6, <1>7, <1>8 DEF CInv

\* A crash ends what is on the instance, and nothing elsewhere.
LEMMA CrashCInv == ASSUME CInv, NEW i \in Instances, Crash(i) PROVE CInv'
<1>1. CometTypeOK /\ OnlyOverlapsAreLost /\ \A e \in Conns : Looked(e) /\ Ended(e) /\ Covered(e)
  BY DEF CInv
<1> DEFINE gone == {c \in Conns : site[c] = i /\ pc[c] # "none"}
<1>2. /\ pc' = [c \in Conns |-> IF c \in gone THEN "ended" ELSE pc[c]] /\ shut' = shut \cup gone
      /\ cl' = [c \in Conns |-> IF c \in gone THEN "done" ELSE cl[c]]
      /\ keeper' = [keeper EXCEPT ![i] = [d \in Devices |-> NoConn]]
      /\ snap' = [snap EXCEPT ![i] = {}] /\ drain' = [drain EXCEPT ![i] = FALSE]
      /\ blind' = blind \ gone /\ missed' = [missed EXCEPT ![i] = {}]
      /\ UNCHANGED <<site, device, old>>
  BY DEF Crash, ends
<1>3. /\ \A e \in Conns : e \in gone <=> site[e] = i /\ pc[e] # "none"
      /\ gone \subseteq Conns
  OBVIOUS
<1> HIDE DEF gone
<1>4. \A j \in Instances, d \in Devices : keeper'[j][d] = IF j = i THEN NoConn ELSE keeper[j][d]
  BY <1>1, <1>2 DEF CometTypeOK
<1>5. CometTypeOK'
  <2>1. pc' \in [Conns -> Labels] /\ cl' \in [Conns -> Closings] /\ shut' \subseteq Conns
    BY <1>1, <1>2, <1>3 DEF CometTypeOK, Labels, Closings
  <2>2. \A e \in Conns : (cl'[e] # "no") <=> (e \in shut')
    BY <1>1, <1>2 DEF CometTypeOK
  <2>3. keeper' \in [Instances -> [Devices -> Conns \cup {NoConn}]]
    BY <1>1, <1>2 DEF CometTypeOK
  <2>4. /\ snap' \in [Instances -> SUBSET Conns] /\ drain' \in [Instances -> BOOLEAN]
        /\ missed' \in [Instances -> SUBSET Conns] /\ blind' \subseteq Conns
    BY <1>1, <1>2 DEF CometTypeOK
  <2> QED BY <1>1, <1>2, <1>4, <2>1, <2>2, <2>3, <2>4 DEF CometTypeOK
<1>6. \A e \in Conns : Slot(e)' = IF site[e] = i THEN NoConn ELSE Slot(e)
  BY <1>1, <1>2, <1>4, SlotType DEF Slot
<1>7. \A e \in Conns : pc'[e] = IF e \in gone THEN "ended" ELSE pc[e]
  BY <1>2
<1>8. OnlyOverlapsAreLost'
  BY <1>1, <1>2, <1>3, <1>6, <1>7 DEF OnlyOverlapsAreLost, Added
<1>9. ASSUME NEW e \in Conns PROVE Looked(e)'
  <2>1. CASE e \in gone
    BY <1>7, <2>1 DEF Looked
  <2>2. CASE e \notin gone
    BY <1>1, <1>2, <1>3, <1>6, <1>7, <2>2 DEF Looked
  <2> QED BY <2>1, <2>2
<1>10. ASSUME NEW e \in Conns PROVE Ended(e)' /\ Covered(e)'
  <2>1. Ended(e)'
    BY <1>1, <1>2, <1>7 DEF Ended
  <2>2. Covered(e)'
    <3>1. CASE site[e] = i
      BY <1>1, <1>2, <3>1, SlotType DEF Covered, CometTypeOK
    <3>2. CASE site[e] # i
      <4>1. /\ drain'[site[e]] = drain[site[e]] /\ snap'[site[e]] = snap[site[e]]
            /\ missed'[site[e]] = missed[site[e]] /\ e \notin gone
        BY <1>1, <1>2, <1>3, <3>2, SlotType DEF CometTypeOK
      <4> QED BY <1>1, <1>2, <1>7, <4>1 DEF Covered
    <3> QED BY <3>1, <3>2
  <2> QED BY <2>1, <2>2
<1> QED BY <1>5, <1>8, <1>9, <1>10 DEF CInv

\* The Redis steps of a handshake and of a Close
LEMMA RedisCInv ==
    ASSUME CInv, NEW c \in Conns,
           RouteAdd(c) \/ AnnounceAdd(c) \/ RouteRem(c) \/ AnnounceRem(c)
    PROVE  CInv'
<1>1. CometTypeOK /\ \A e \in Conns : Looked(e) /\ Ended(e)
  BY DEF CInv
<1>2. UNCHANGED <<ends, old, shut, keeper, snap, drain, blind, missed>>
  BY DEF RouteAdd, AnnounceAdd, RouteRem, AnnounceRem
<1>3. /\ pc' \in [Conns -> Labels]
      /\ \A e \in Conns : pc'[e] # pc[e] => Added(e) /\ Added(e)'
  <2>1. \/ pc' = pc
        \/ /\ Added(c) /\ \E l \in {"announce", "live"} : pc' = [pc EXCEPT ![c] = l]
    <3>1. CASE RouteAdd(c)
      BY <3>1 DEF RouteAdd, Goto, Added
    <3>2. CASE AnnounceAdd(c)
      BY <3>2 DEF AnnounceAdd, Goto, Added
    <3>3. CASE RouteRem(c) \/ AnnounceRem(c)
      BY <3>3 DEF RouteRem, AnnounceRem
    <3> QED BY <3>1, <3>2, <3>3
  <2>2. CASE pc' = pc
    BY <1>1, <2>2 DEF CometTypeOK
  <2>3. ASSUME Added(c), NEW l \in {"announce", "live"}, pc' = [pc EXCEPT ![c] = l]
        PROVE  pc' \in [Conns -> Labels] /\ \A e \in Conns : pc'[e] # pc[e] => Added(e) /\ Added(e)'
    BY <1>1, <2>3 DEF CometTypeOK, Added, Labels
  <2> QED BY <2>1, <2>2, <2>3
<1>4. cl' \in [Conns -> Closings] /\ \A e \in Conns : (cl'[e] # "no") <=> (cl[e] # "no")
  <2>1. \/ cl' = cl
        \/ /\ cl[c] # "no" /\ \E l \in {"tell", "done"} : cl' = [cl EXCEPT ![c] = l]
    <3>1. CASE RouteAdd(c) \/ AnnounceAdd(c)
      BY <3>1 DEF RouteAdd, AnnounceAdd
    <3>2. CASE RouteRem(c)
      BY <3>2 DEF RouteRem
    <3>3. CASE AnnounceRem(c)
      BY <3>3 DEF AnnounceRem
    <3> QED BY <3>1, <3>2, <3>3
  <2>2. CASE cl' = cl
    BY <1>1, <2>2 DEF CometTypeOK
  <2>3. ASSUME cl[c] # "no", NEW l \in {"tell", "done"}, cl' = [cl EXCEPT ![c] = l]
        PROVE  cl' \in [Conns -> Closings] /\ \A e \in Conns : (cl'[e] # "no") <=> (cl[e] # "no")
    BY <1>1, <2>3 DEF CometTypeOK, Closings
  <2> QED BY <2>1, <2>2, <2>3
<1>5. CometTypeOK'
  BY <1>1, <1>2, <1>3, <1>4 DEF CometTypeOK, ends
<1>6. \A e \in Conns : Slot(e)' = Slot(e)
  BY <1>2 DEF Slot, ends
<1>7. \A e \in Conns : Looked(e)' /\ Ended(e)'
  BY <1>1, <1>2, <1>3, <1>6 DEF Looked, Ended, Added
<1>8. \A e \in Conns : (Added(e)' => Added(e)) /\ (pc'[e] # "none" => pc[e] # "none")
  BY <1>3 DEF Added
<1> QED BY <1>1, <1>2, <1>5, <1>7, <1>8, QuietCInv

\* There are no connections at the start.
LEMMA InitCInv == CometInit => CInv
<1> SUFFICES ASSUME CometInit PROVE CInv
  OBVIOUS
<1>1. CometTypeOK
  BY DEF CometInit, CometTypeOK, Labels, Closings
<1>2. OnlyOverlapsAreLost /\ \A c \in Conns : Looked(c) /\ Ended(c) /\ Covered(c)
  BY DEF CometInit, OnlyOverlapsAreLost, Added, Looked, Ended, Covered
<1> QED BY <1>1, <1>2 DEF CInv

\* The invariant of the connections is inductive.
LEMMA StepCInv == CInv /\ Step => CInv'
<1> SUFFICES ASSUME CInv, Step PROVE CInv'
  OBVIOUS
<1>1. ASSUME NEW c \in Conns, Pump(c) \/ Closing(c) PROVE CInv'
  BY <1>1, PumpCInv, ReplaceCInv, AddCInv, RemoveCInv, RedisCInv DEF Pump, Closing
<1>2. CASE Outside
  <2>1. ASSUME UNCHANGED comet PROVE CInv'
    BY <2>1 DEF comet, conns, ends, CInv, CometTypeOK, OnlyOverlapsAreLost, Looked, Ended, Covered,
       Added, Slot
  <2> QED BY <1>2, <2>1, CloseCInv, DrainCInv, CrashCInv DEF Outside, Expire
<1>3. CASE Apply \/ Break \/ Resubscribe \/ Pusher
  <2>1. UNCHANGED comet
    BY <1>3 DEF Apply, Break, Resubscribe, Pusher, Begin, ReadRoute, Seed, PushOne, PushEnd, Forget
  <2> QED
    BY <2>1 DEF comet, conns, ends, CInv, CometTypeOK, OnlyOverlapsAreLost, Looked, Ended, Covered,
       Added, Slot
<1> QED BY <1>1, <1>2, <1>3 DEF Step

-----------------------------------------------------------------------------
(* Routing *)

\* What is published on route:change
Messages == [op : {"add", "rem"}, addr : Instances]

TableOK ==
    /\ route \subseteq Instances /\ seen \subseteq Instances /\ feed \in Seq(Messages)
    /\ sub \in BOOLEAN /\ (~sub => feed = <<>>)

PushOK ==
    /\ at \in {"idle", "read", "store", "push", "done"}
    /\ todo \subseteq Instances /\ wide \in BOOLEAN /\ hit \in BOOLEAN

\* While it broadcasts, the push has yet to call whom it owes the message.
Broadcasts == wide => at = "push" /\ \A c \in owed : site[c] \in todo

RInv == CInv /\ OfflineMeansOffline /\ Broadcasts

\* A message that is published is one of route:change.
LEMMA PublishType ==
    ASSUME TableOK, NEW i \in Instances, NEW o \in {"add", "rem"}, Publish(o, i)
    PROVE  feed' \in Seq(Messages) /\ (~sub => feed' = <<>>)
<1> DEFINE m == [op |-> o, addr |-> i]
<1>1. m \in Messages
  BY DEF Messages
<1> HIDE DEF m
<1>2. Append(feed, m) \in Seq(Messages)
  BY <1>1 DEF TableOK
<1> QED BY <1>2 DEF TableOK, Publish, m

\* The route table and its copy keep their types.
LEMMA TableStep ==
    ASSUME CInv, TableOK, PushOK, faults \in 0..MaxFaults, Step
    PROVE  TableOK' /\ faults' \in 0..MaxFaults
<1>1. ASSUME UNCHANGED table PROVE TableOK'
  BY <1>1 DEF table, TableOK
<1>2. ASSUME Fault \/ NoFault PROVE faults' \in 0..MaxFaults
  BY <1>2, RoutingAssumption DEF Fault, NoFault
<1>3. ASSUME NEW c \in Conns, Pump(c) \/ Closing(c) PROVE TableOK' /\ (Fault \/ NoFault)
  <2>1. site[c] \in Instances
    BY DEF CInv, CometTypeOK
  <2>2. CASE RouteAdd(c) \/ RouteRem(c)
    <3>1. /\ route' \in {route, route \cup {site[c]}, route \ {site[c]}}
          /\ UNCHANGED <<feed, sub, seen>> /\ (Fault \/ NoFault)
      BY <2>2 DEF RouteAdd, RouteRem, Without
    <3> QED BY <2>1, <3>1 DEF TableOK
  <2>3. CASE AnnounceAdd(c) \/ AnnounceRem(c)
    <3>1. /\ \E o \in {"add", "rem"} : Publish(o, site[c])
          /\ UNCHANGED <<route, sub, seen>> /\ NoFault
      BY <2>3 DEF AnnounceAdd, AnnounceRem
    <3> QED BY <2>1, <3>1, PublishType DEF TableOK
  <2> QED BY <1>1, <1>3, <2>2, <2>3 DEF Pump, Closing, Local
<1>4. CASE Outside
  <2>1. Fault \/ NoFault
    BY <1>4 DEF Outside, Local, Expire
  <2>2. UNCHANGED table \/ (route' = {} /\ UNCHANGED <<feed, sub, seen>>)
    BY <1>4 DEF Outside, Local, Expire
  <2> QED BY <1>1, <1>2, <2>1, <2>2 DEF TableOK
<1>5. CASE Apply
  <2>1. feed # <<>> /\ seen' = Applied(Head(feed)) /\ feed' = Tail(feed) /\ UNCHANGED <<route, sub>>
        /\ NoFault
    BY <1>5 DEF Apply
  <2>2. Head(feed) \in Messages /\ Tail(feed) \in Seq(Messages)
    BY <2>1 DEF TableOK
  <2>3. Head(feed).addr \in Instances
    BY <2>2 DEF Messages
  <2>4. seen' \subseteq Instances
    BY <2>1, <2>3 DEF Applied, TableOK
  <2> QED BY <1>2, <2>1, <2>2, <2>4 DEF TableOK
<1>6. CASE Break \/ Resubscribe
  <2>1. Fault \/ NoFault
    BY <1>6 DEF Break, Resubscribe
  <2>2. TableOK'
    <3>1. <<>> \in Seq(Messages)
      OBVIOUS
    <3>2. CASE Break
      BY <3>1, <3>2 DEF Break, TableOK
    <3>3. CASE Resubscribe
      BY <3>3 DEF Resubscribe, TableOK
    <3> QED BY <1>6, <3>2, <3>3
  <2> QED BY <1>2, <2>1, <2>2
<1>7. CASE Pusher
  <2>1. Fault \/ NoFault
    BY <1>7 DEF Pusher, Begin, ReadRoute, Seed, PushOne, PushEnd, Forget
  <2>2. UNCHANGED table \/ (seen' = todo /\ UNCHANGED <<route, feed, sub>>)
    BY <1>7 DEF Pusher, Begin, ReadRoute, Seed, PushOne, PushEnd, Forget
  <2> QED BY <1>1, <1>2, <2>1, <2>2 DEF TableOK, PushOK
<1> QED BY <1>2, <1>3, <1>4, <1>5, <1>6, <1>7 DEF Step

\* A push keeps its types, and what it owes stays owed until its instance is
\* called.
LEMMA PushStep ==
    ASSUME CInv, TableOK, PushOK, owed \subseteq Conns, Broadcasts,
           at = "done" /\ ~hit => owed = {}, Next
    PROVE  /\ PushOK' /\ owed' \subseteq Conns /\ Broadcasts'
           /\ (at = "done" /\ ~hit => owed = {})'
<1>1. /\ Step /\ site' = site
      /\ owed' = IF at' = "idle" \/ hit' THEN {}
                 ELSE IF at = "idle" THEN Reachable
                 ELSE {c \in owed \cap Reachable' : site[c] \notin Called}
  <2>1. Step => site' = site
    BY DEF Step, Pump, Closing, Outside, Apply, Break, Resubscribe, Pusher, Accept, Reject, LookUp,
       Replace, Replaced, Add, RouteAdd, AnnounceAdd, EndPump, Remove, RouteRem, AnnounceRem,
       CloseListed, CloseDrained, Drain, Crash, Expire, Begin, ReadRoute, Seed, PushOne, PushEnd,
       Forget, comet, conns, ends
  <2> QED BY <2>1 DEF Next
<1>2. /\ owed' \subseteq Conns /\ (at # "idle" => owed' \subseteq owed) /\ (at' = "idle" => owed' = {})
      /\ (hit' => owed' = {})
      /\ at # "idle" => \A c \in owed' : site[c] \notin Called
  BY <1>1 DEF Reachable
<1>3. \A c \in Conns : site[c] \in Instances
  BY DEF CInv, CometTypeOK
<1>4. CASE UNCHANGED pushing
  <2>1. UNCHANGED <<at, todo, wide, hit>>
    BY <1>4 DEF pushing
  <2> QED BY <1>1, <1>2, <2>1 DEF PushOK, Broadcasts
<1>5. CASE Begin
  <2>1. at = "idle" /\ at' \in {"push", "read"} /\ todo' = seen /\ wide' = wide /\ hit' = hit
    BY <1>5 DEF Begin
  <2> QED BY <1>2, <2>1 DEF PushOK, Broadcasts, TableOK
<1>6. CASE ReadRoute
  <2>1. /\ at = "read" /\ hit' = hit
        /\ \/ at' = "store" /\ todo' = route /\ wide' = wide
           \/ at' = "push" /\ todo' = Instances /\ wide' = TRUE
    BY <1>6 DEF ReadRoute
  <2>2. PushOK'
    BY <2>1 DEF PushOK, TableOK
  <2>3. Broadcasts'
    BY <1>1, <1>2, <1>3, <2>1 DEF Broadcasts
  <2> QED BY <1>2, <2>1, <2>2, <2>3
<1>7. CASE Seed
  <2>1. at = "store" /\ at' = "push" /\ UNCHANGED <<todo, wide, hit>>
    BY <1>7 DEF Seed
  <2> QED BY <1>1, <1>2, <2>1 DEF PushOK, Broadcasts
<1>8. ASSUME NEW i \in Instances, PushOne(i)
      PROVE  PushOK' /\ Broadcasts' /\ (at = "done" /\ ~hit => owed = {})'
  <2>1. /\ at = "push" /\ i \in todo /\ todo' = todo \ {i} /\ at' = at /\ wide' = wide
        /\ hit' \in BOOLEAN
    BY <1>8 DEF PushOne, PushOK, NoFault
  <2>2. PushOK'
    BY <2>1 DEF PushOK
  <2>3. wide => Called = {i}
    BY <2>1 DEF Called
  <2> QED BY <1>1, <1>2, <2>1, <2>2, <2>3 DEF Broadcasts
<1>9. CASE PushEnd
  <2>1. /\ at = "push" /\ todo = {}
        /\ \/ todo' = Instances /\ wide' = TRUE /\ at' = at /\ hit' = hit
           \/ (hit \/ wide) /\ at' = "done" /\ wide' = FALSE /\ todo' = todo /\ hit' = hit
    BY <1>9 DEF PushEnd, FallsBack
  <2>2. PushOK'
    BY <2>1 DEF PushOK
  <2>3. Broadcasts'
    BY <1>1, <1>2, <1>3, <2>1 DEF Broadcasts
  <2>4. at' = "done" /\ ~hit' => owed' = {}
    BY <1>2, <2>1 DEF Broadcasts
  <2> QED BY <1>2, <2>2, <2>3, <2>4
<1>10. CASE Forget
  <2>1. at' = "idle" /\ hit' = FALSE /\ todo' = todo /\ wide' = wide /\ at = "done"
    BY <1>10 DEF Forget
  <2> QED BY <1>2, <2>1 DEF PushOK, Broadcasts
<1>11. UNCHANGED pushing \/ Pusher
  BY <1>1 DEF Step, Pump, Closing, Local, Outside, Apply, Break, Resubscribe, RouteAdd, AnnounceAdd,
     RouteRem, AnnounceRem, Expire
<1> QED BY <1>2, <1>4, <1>5, <1>6, <1>7, <1>8, <1>9, <1>10, <1>11 DEF Pusher

\* TypeOK in parts
LEMMA Parts ==
    TypeOK <=> CometTypeOK /\ TableOK /\ PushOK /\ owed \subseteq Conns /\ faults \in 0..MaxFaults
BY DEF TypeOK, TableOK, PushOK, Messages

\* The invariant of the whole is inductive.
LEMMA Invariant == Spec => []RInv
<1>1. Init => RInv
  <2> SUFFICES ASSUME Init PROVE RInv
    OBVIOUS
  <2>1. TableOK /\ PushOK /\ owed \subseteq Conns /\ faults \in 0..MaxFaults
    <3>1. <<>> \in Seq(Messages)
      OBVIOUS
    <3>2. TableOK
      BY <3>1 DEF Init, TableOK
    <3>3. PushOK
      BY DEF Init, PushOK
    <3>4. owed \subseteq Conns /\ faults \in 0..MaxFaults
      BY RoutingAssumption DEF Init
    <3> QED BY <3>2, <3>3, <3>4
  <2>2. CInv
    BY InitCInv DEF Init
  <2>3. Broadcasts /\ (at = "done" /\ ~hit => owed = {})
    BY DEF Init, Broadcasts
  <2> QED BY <2>1, <2>2, <2>3, Parts DEF CInv, RInv, OfflineMeansOffline
<1>2. RInv /\ [Next]_vars => RInv'
  <2> SUFFICES ASSUME RInv, [Next]_vars PROVE RInv'
    OBVIOUS
  <2>1. /\ TableOK /\ PushOK /\ owed \subseteq Conns /\ faults \in 0..MaxFaults /\ CInv /\ Broadcasts
        /\ (at = "done" /\ ~hit => owed = {})
    BY Parts DEF RInv, OfflineMeansOffline
  <2>2. CASE Next
    <3>1. CInv' /\ TableOK' /\ faults' \in 0..MaxFaults
      BY <2>1, <2>2, StepCInv, TableStep DEF Next
    <3>2. /\ PushOK' /\ owed' \subseteq Conns /\ Broadcasts'
          /\ (at = "done" /\ ~hit => owed = {})'
      BY <2>1, <2>2, PushStep
    <3>3. TypeOK'
      BY <3>1, <3>2 DEF CInv, TypeOK, TableOK, PushOK, Messages
    <3> QED BY <3>1, <3>2, <3>3 DEF RInv, OfflineMeansOffline
  <2>3. CASE UNCHANGED vars
    <3>1. /\ UNCHANGED <<comet, route, feed, sub, seen, at, todo, wide, hit, owed, faults>>
      BY <2>3 DEF vars, table, pushing
    <3>2. CInv'
      BY <2>1, <3>1 DEF comet, conns, ends, CInv, CometTypeOK, OnlyOverlapsAreLost, Looked, Ended,
         Covered, Added, Slot
    <3>3. TypeOK'
      BY <2>1, <3>1, <3>2 DEF CInv, TypeOK, TableOK, PushOK, Messages
    <3>4. site' = site
      BY <3>1 DEF comet, conns, ends
    <3> QED BY <2>1, <3>1, <3>2, <3>3, <3>4 DEF RInv, OfflineMeansOffline, Broadcasts
  <2> QED BY <2>2, <2>3
<1> QED BY <1>1, <1>2, PTL DEF Spec

\* An open connection that has been added is the one that its slot lists, except
\* where two handshakes of one device overlapped: no Close of a replaced
\* connection, however late, takes its successor out (handler.go:89).
THEOREM OnlyOverlaps == Spec => []OnlyOverlapsAreLost
<1>1. RInv => OnlyOverlapsAreLost
  BY DEF RInv, CInv
<1> QED BY <1>1, Invariant, PTL

\* When a drain is through its snapshot, only connections that were in their
\* handshake when it began are left open (server.go:124).
THEOREM Drained == Spec => []DrainedOrMissed
<1>1. CInv => DrainedOrMissed
  BY DEF CInv, Covered, DrainedOrMissed
<1>2. RInv => DrainedOrMissed
  BY <1>1 DEF RInv
<1> QED BY <1>2, Invariant, PTL

\* A push that ends without having reached a connection owes the message to
\* none, whatever is lost between the instances, the route table, its change
\* feed and the copy of it (comet_cluster.go:74).
THEOREM Offline == Spec => []OfflineMeansOffline
<1>1. RInv => OfflineMeansOffline
  BY DEF RInv
<1> QED BY <1>1, Invariant, PTL
=============================================================================
