------------------------- MODULE CtlServer_proofs -------------------------
(***************************************************************************)
(* Proofs about the control server, for every number of connections,       *)
(* drones, owners, commands and starts.                                    *)
(*                                                                         *)
(* The reference counts are the delicate part: a count is raised by the    *)
(* event thread when it queues a command, lowered by a drone long after it *)
(* took the command from the queue, and read by a third thread that wants  *)
(* to release the entry. cmdof, the pointer in a scheduled_cmd, links the  *)
(* three: the connections that point to an entry are exactly those queued  *)
(* or in a drone's hands, and the count is their number.                   *)
(***************************************************************************)
EXTENDS CtlServer, FiniteSetTheorems, FunctionTheorems, SequenceTheorems,
        WellFoundedInduction, TLAPS

-----------------------------------------------------------------------------
\* The inductive invariant.

\* Entries are numbered as they are allocated; none is both linked and released
TableInv ==
  /\ table \cup freed \subseteq 1..nalloc
  /\ table \cap freed = {}

\* A drone has a connection: from taking the command to closing it
Holds(d) == dpc[d] \in {"run", "unref", "close"}

\* The event thread has a connection, not yet handed on or closed
EvHolds == evpc \in {"recv", "dispatch", "signalfail", "refuse"}

\* Who holds a connection, and that nobody else does
QueueInv ==
  /\ \A i, j \in 1..Len(pending) : pending[i] = pending[j] => i = j
  /\ \A i \in 1..Len(pending) : sd[pending[i]] = "open"
  /\ \A i, j \in 1..Len(backlog) : backlog[i] = backlog[j] => i = j
  /\ \A i \in 1..Len(backlog) : sd[backlog[i]] = "backlog"

HandInv ==
  /\ \A d \in Drones : Holds(d) =>
       /\ dconn[d] \in Conns
       /\ sd[dconn[d]] = "open"
       /\ \A i \in 1..Len(pending) : pending[i] # dconn[d]
       /\ \A x \in Drones : Holds(x) /\ dconn[x] = dconn[d] => x = d
  /\ EvHolds =>
       /\ evconn \in Conns
       /\ sd[evconn] = "open"
       /\ \A i \in 1..Len(pending) : pending[i] # evconn
       /\ \A d \in Drones : Holds(d) => dconn[d] # evconn

\* The entry a connection points to: while it is queued or being run, and only
\* then; the entry is linked, and counts its pointers
PointInv ==
  /\ \A i \in 1..Len(pending) : cmdof[pending[i]] # 0
  /\ \A d \in Drones : dpc[d] \in {"run", "unref"} => cmdof[dconn[d]] # 0
  /\ \A k \in Conns : cmdof[k] # 0 =>
       \/ \E i \in 1..Len(pending) : pending[i] = k
       \/ \E d \in Drones : dpc[d] \in {"run", "unref"} /\ dconn[d] = k

Pointers(e) == {k \in Conns : cmdof[k] = e}

CountInv ==
  /\ \A k \in Conns : cmdof[k] # 0 => cmdof[k] \in table
  /\ \A e \in Entries : refcount[e] = Cardinality(Pointers(e))

\* The herd shrinks from the top, and it is gone when the server is down
HerdInv ==
  /\ \A d \in Drones : d > herd => dpc[d] = "none"
  /\ mpc \in {"down", "errclose"} => herd = 0

IInv == TypeOK /\ TableInv /\ QueueInv /\ HandInv /\ PointInv /\ CountInv /\ HerdInv

-----------------------------------------------------------------------------
\* Facts about the operators of the model.

\* A non-empty set of entries has a latest one: the walk from the head of
\* cmdtable stops at a well-defined entry.
LEMMA LatestEntry ==
  ASSUME NEW S, S \subseteq Entries, S # {}
  PROVE  \E e \in S : \A f \in S : f <= e
<1> DEFINE T == {MaxEntries - e : e \in S}
<1>1. T \subseteq Nat /\ T # {}
  <2>1. MaxEntries \in Nat
    BY CtlAssumption DEF CtlAssumption
  <2>2. \A e \in S : MaxEntries - e \in Nat
    BY <2>1 DEF Entries
  <2>3. PICK e \in S : TRUE
    OBVIOUS
  <2>4. MaxEntries - e \in T
    OBVIOUS
  <2> QED BY <2>2, <2>4
<1> DEFINE R == OpToRel(<, Nat)
<1>a. R = {ss \in Nat \X Nat : ss[1] < ss[2]}
  BY Zenon DEF OpToRel
<1>b. IsWellFoundedOn(R, Nat)
  BY NatLessThanWellFounded
<1> HIDE DEF R
<1>2. \E x \in T : \A y \in T : ~ (<<y, x>> \in R)
  <2> HIDE DEF T
  <2> QED BY <1>1, <1>b, WFMin
<1>3. PICK x \in T : \A y \in T : ~ (<<y, x>> \in R)
  BY <1>2
<1>4. \A y \in T : ~ (y < x)
  BY <1>1, <1>3, <1>a
<1>5. PICK e \in S : x = MaxEntries - e
  OBVIOUS
<1>6. ASSUME NEW f \in S PROVE f <= e
  <2>1. ~ (MaxEntries - f < MaxEntries - e)
    BY <1>4, <1>5
  <2> QED BY <2>1, CtlAssumption DEF CtlAssumption, Entries
<1> QED BY <1>6

\* FirstMatch() is an entry of the table with that name.
LEMMA FirstMatchIsLinked ==
  ASSUME table \subseteq Entries, NEW n, Matches(n) # {}
  PROVE  FirstMatch(n) \in table /\ FirstMatch(n) \in Entries
<1>1. Matches(n) \subseteq Entries
  BY DEF Matches
<1>2. \E e \in Matches(n) : \A f \in Matches(n) : f <= e
  BY <1>1, LatestEntry
<1>3. FirstMatch(n) \in Matches(n)
  BY <1>2 DEF FirstMatch
<1> QED BY <1>1, <1>3 DEF Matches

\* The values that the constants supply, and the two that stand for no pointer
\* and no command, are told apart.
LEMMA ConstFacts ==
  /\ MaxEntries \in Nat /\ NDrones \in Nat /\ MaxInits \in Nat
  /\ Main \in Owners
  /\ NoConn \notin Conns
  /\ Names # {}
  /\ \A o \in Owners : Len(Commands[o]) \in Nat
  /\ \A o \in Owners : \A i \in 1..Len(Commands[o]) : Commands[o][i] \in Names
<1>1. ASSUME NEW o \in Owners
      PROVE  /\ Len(Commands[o]) \in Nat
             /\ \A i \in 1..Len(Commands[o]) : Commands[o][i] \in Names
  <2>1. Commands[o] \in Seq(Registered)
    BY CtlAssumption DEF CtlAssumption
  <2> QED BY <2>1, LenProperties, ElementOfSeq DEF Names
<1> QED BY <1>1, CtlAssumption DEF CtlAssumption, Owners

-----------------------------------------------------------------------------
\* The initial state.

\* Before init_ctlserver() the table, the queue and the herd are empty.
LEMMA InitIInv == Init => IInv
<1> SUFFICES ASSUME Init PROVE IInv
  OBVIOUS
<1> USE ConstFacts
<1>1. TypeOK
  <2>1. TableType
    BY DEF Init, TableType
  <2>2. SchedType
    BY EmptySeq DEF Init, SchedType
  <2>3. OwnerType
    BY DEF Init, OwnerType
  <2>4. SockType
    BY EmptySeq DEF Init, SockType
  <2>5. EvType /\ DroneType
    BY DEF Init, EvType, DroneType
  <2>6. MainType
    <3>1. herd \in 0..NDrones /\ inits \in 0..MaxInits
      BY DEF Init
    <3>2. mpc = "down" /\ ctlev = "null" /\ twice \in BOOLEAN
      BY DEF Init
    <3> QED BY <3>1, <3>2 DEF MainType
  <2> QED BY <2>1, <2>2, <2>3, <2>4, <2>5, <2>6 DEF TypeOK
<1>2. TableInv
  BY DEF Init, TableInv
<1>3. QueueInv /\ HandInv /\ PointInv
  BY EmptySeq DEF Init, QueueInv, HandInv, PointInv, Holds, EvHolds
<1>4. CountInv
  <2>1. \A e \in Entries : Pointers(e) = {}
    BY DEF Init, Pointers, Entries
  <2> QED BY <2>1, FS_EmptySet DEF Init, CountInv
<1>5. HerdInv
  BY DEF Init, HerdInv
<1> QED BY <1>1, <1>2, <1>3, <1>4, <1>5 DEF IInv

-----------------------------------------------------------------------------
\* Facts about a state that satisfies the invariant.

\* The connection that the event thread dispatches is one of Conns.
LEMMA EvConnIsHeld ==
  ASSUME IInv, evpc = "dispatch"
  PROVE  evconn \in Conns /\ cmdof[evconn] = 0
BY DEF IInv, HandInv, PointInv, EvHolds, Holds

\* Pushing at the head of the queue.
LEMMA ConsProperties ==
  ASSUME NEW S, NEW x \in S, NEW s \in Seq(S)
  PROVE  /\ <<x>> \o s \in Seq(S)
         /\ Len(<<x>> \o s) = Len(s) + 1
         /\ (<<x>> \o s)[1] = x
         /\ \A i \in 1..Len(s) : (<<x>> \o s)[i + 1] = s[i]
         /\ \A i \in 2..Len(s) + 1 : (<<x>> \o s)[i] = s[i - 1]
<1>1. <<x>> \in Seq(S) /\ Len(<<x>>) = 1 /\ <<x>>[1] = x
  OBVIOUS
<1>2. Len(s) \in Nat
  BY LenProperties
<1> QED BY <1>1, <1>2, ConcatProperties

\* What points to an entry is a finite set.
LEMMA PointersFinite == \A e : IsFiniteSet(Pointers(e))
<1>1. IsFiniteSet(Conns)
  BY CtlAssumption DEF CtlAssumption
<1> QED BY <1>1, FS_Subset DEF Pointers

\* A drone that gives its reference back was counted.
LEMMA UnrefIsCounted ==
  ASSUME IInv, NEW d \in Drones, dpc[d] = "unref"
  PROVE  /\ dconn[d] \in Conns
         /\ cmdof[dconn[d]] \in Entries
         /\ refcount[cmdof[dconn[d]]] \in Nat \ {0}
<1>1. dconn[d] \in Conns /\ cmdof[dconn[d]] # 0
  BY DEF IInv, HandInv, PointInv, Holds
<1>2. cmdof[dconn[d]] \in Entries
  BY <1>1 DEF IInv, TypeOK, SchedType
<1>3. Pointers(cmdof[dconn[d]]) # {}
  BY <1>1 DEF Pointers
<1>4. refcount[cmdof[dconn[d]]] # 0
  BY <1>2, <1>3, PointersFinite, FS_EmptySet DEF IInv, CountInv
<1> QED BY <1>1, <1>2, <1>4 DEF IInv, TypeOK, TableType

-----------------------------------------------------------------------------
\* Every step preserves every part.

\* Every step preserves the types, given the rest of the invariant: that a count
\* is not below zero is not a matter of types alone.
LEMMA TypeStep == IInv /\ [Next]_vars => TypeOK'
<1> SUFFICES ASSUME IInv, [Next]_vars PROVE TypeOK'
  OBVIOUS
<1> USE DEF IInv, TypeOK
<1>1. ASSUME NEW o \in Owners, RegCommand(o) PROVE TypeOK'
  <2>1. TableType'
    <3>1. nalloc + 1 \in Entries
      BY <1>1, ConstFacts DEF RegCommand, TableType, Entries
    <3>2. Commands[o][oidx[o] + 1] \in Names
      BY <1>1, ConstFacts DEF RegCommand, OwnerType
    <3>3. nalloc' \in 0..MaxEntries
      BY <1>1, <3>1, ConstFacts DEF RegCommand, Entries
    <3>4. ename' \in [Entries -> Names]
      BY <1>1, <3>2 DEF RegCommand, TableType
    <3>5. refcount' \in [Entries -> Nat]
      BY <1>1 DEF RegCommand, TableType
    <3>6. table' \subseteq Entries /\ freed' \subseteq Entries
      BY <1>1, <3>1 DEF RegCommand, TableType
    <3> QED BY <3>3, <3>4, <3>5, <3>6 DEF TableType
  <2>2. OwnerType'
    BY <1>1, ConstFacts DEF RegCommand, OwnerType, ownvars
  <2>3. SchedType' /\ SockType' /\ EvType' /\ DroneType' /\ MainType'
    BY <1>1 DEF RegCommand, SchedType, SockType, EvType, DroneType, MainType,
       schedvars, sockvars, evvars, dronevars, mainvars
  <2> QED BY <2>1, <2>2, <2>3
<1>2. ASSUME NEW o \in Owners, RegFails(o) PROVE TypeOK'
  <2>1. OwnerType'
    BY <1>2 DEF RegFails, OwnerType, ownvars
  <2>2. TableType' /\ SchedType' /\ SockType' /\ EvType' /\ DroneType' /\ MainType'
    BY <1>2 DEF RegFails, TableType, SchedType, SockType, EvType, DroneType,
       MainType, tabvars, schedvars, sockvars, evvars, dronevars, mainvars
  <2> QED BY <2>1, <2>2
<1>3. ASSUME NEW o \in Owners, RegDone(o) PROVE TypeOK'
  <2>1. OwnerType'
    BY <1>3 DEF RegDone, OwnerType, ownvars
  <2>2. MainType'
    BY <1>3 DEF RegDone, MainType, mainvars
  <2>3. TableType' /\ SchedType' /\ SockType' /\ EvType' /\ DroneType'
    BY <1>3 DEF RegDone, TableType, SchedType, SockType, EvType, DroneType,
       tabvars, schedvars, sockvars, evvars, dronevars
  <2> QED BY <2>1, <2>2, <2>3
<1>4. ASSUME NEW o \in Owners, DelCommand(o) PROVE TypeOK'
  <2>1. TableType'
    BY <1>4, FirstMatchIsLinked DEF DelCommand, TableType, tabvars
  <2>2. OwnerType'
    BY <1>4, ConstFacts DEF DelCommand, OwnerType, ownvars
  <2>3. SchedType' /\ SockType' /\ EvType' /\ DroneType' /\ MainType'
    BY <1>4 DEF DelCommand, SchedType, SockType, EvType, DroneType, MainType,
       schedvars, sockvars, evvars, dronevars, mainvars
  <2> QED BY <2>1, <2>2, <2>3
<1>5. ASSUME NEW o \in Owners, DelDone(o) PROVE TypeOK'
  <2>1. OwnerType'
    BY <1>5 DEF DelDone, OwnerType, ownvars
  <2>2. MainType'
    BY <1>5 DEF DelDone, MainType, mainvars
  <2>3. TableType' /\ SchedType' /\ SockType' /\ EvType' /\ DroneType'
    BY <1>5 DEF DelDone, TableType, SchedType, SockType, EvType, DroneType,
       tabvars, schedvars, sockvars, evvars, dronevars
  <2> QED BY <2>1, <2>2, <2>3
<1>6. ASSUME NEW o \in Owners, ComponentReg(o) PROVE TypeOK'
  <2>1. OwnerType'
    BY <1>6 DEF ComponentReg, OwnerType, ownvars
  <2>2. TableType' /\ SchedType' /\ SockType' /\ EvType' /\ DroneType' /\ MainType'
    BY <1>6 DEF ComponentReg, TableType, SchedType, SockType, EvType,
       DroneType, MainType, tabvars, schedvars, sockvars, evvars, dronevars,
       mainvars
  <2> QED BY <2>1, <2>2
<1>7. ASSUME NEW o \in Owners, ComponentDel(o) PROVE TypeOK'
  <2>1. OwnerType'
    BY <1>7 DEF ComponentDel, OwnerType, ownvars
  <2>2. TableType' /\ SchedType' /\ SockType' /\ EvType' /\ DroneType' /\ MainType'
    BY <1>7 DEF ComponentDel, TableType, SchedType, SockType, EvType,
       DroneType, MainType, tabvars, schedvars, sockvars, evvars, dronevars,
       mainvars
  <2> QED BY <2>1, <2>2
<1>8. ASSUME NEW k \in Conns, Connect(k) PROVE TypeOK'
  <2>1. SockType'
    BY <1>8, AppendProperties DEF Connect, SockType, sockvars
  <2>2. TableType' /\ SchedType' /\ OwnerType' /\ EvType' /\ DroneType' /\ MainType'
    BY <1>8 DEF Connect, TableType, SchedType, OwnerType, EvType, DroneType,
       MainType, tabvars, schedvars, ownvars, evvars, dronevars, mainvars
  <2> QED BY <2>1, <2>2
<1>9. ASSUME EvWake PROVE TypeOK'
  <2>1. SockType'
    BY <1>9 DEF EvWake, SockType, sockvars
  <2>2. EvType'
    BY <1>9 DEF EvWake, EvType, evvars
  <2>3. TableType' /\ SchedType' /\ OwnerType' /\ DroneType' /\ MainType'
    BY <1>9 DEF EvWake, TableType, SchedType, OwnerType, DroneType, MainType,
       tabvars, schedvars, ownvars, dronevars, mainvars
  <2> QED BY <2>1, <2>2, <2>3
<1>10. ASSUME EvAccept PROVE TypeOK'
  <2>1. SockType'
    <3>1. backlog' \in Seq(Conns)
      BY <1>10, HeadTailProperties DEF EvAccept, SockType
    <3>2. sd' \in [Conns -> {"none", "backlog", "open", "closed"}]
      BY <1>10 DEF EvAccept, SockType
    <3> QED BY <1>10, <3>1, <3>2 DEF EvAccept, SockType
  <2>2. EvType'
    BY <1>10, HeadTailProperties DEF EvAccept, EvType, evvars, SockType
  <2>3. TableType' /\ SchedType' /\ OwnerType' /\ DroneType' /\ MainType'
    BY <1>10 DEF EvAccept, TableType, SchedType, OwnerType, DroneType,
       MainType, tabvars, schedvars, ownvars, dronevars, mainvars
  <2> QED BY <2>1, <2>2, <2>3
<1>11. ASSUME EvRecv PROVE TypeOK'
  <2>1. SockType'
    BY <1>11 DEF EvRecv, SockType, sockvars
  <2>2. EvType'
    BY <1>11 DEF EvRecv, EvType, evvars
  <2>3. TableType' /\ SchedType' /\ OwnerType' /\ DroneType' /\ MainType'
    BY <1>11 DEF EvRecv, TableType, SchedType, OwnerType, DroneType, MainType,
       tabvars, schedvars, ownvars, dronevars, mainvars
  <2> QED BY <2>1, <2>2, <2>3
<1>12. ASSUME EvRecvFails PROVE TypeOK'
  <2>1. SockType'
    BY <1>12 DEF EvRecvFails, SockType, sockvars
  <2>2. EvType'
    BY <1>12 DEF EvRecvFails, EvType, evvars
  <2>3. TableType' /\ SchedType' /\ OwnerType' /\ DroneType' /\ MainType'
    BY <1>12 DEF EvRecvFails, TableType, SchedType, OwnerType, DroneType,
       MainType, tabvars, schedvars, ownvars, dronevars, mainvars
  <2> QED BY <2>1, <2>2, <2>3
<1>13. ASSUME EvServerCommand PROVE TypeOK'
  <2>1. SockType'
    BY <1>13 DEF EvServerCommand, SockType, sockvars, CloseBoth
  <2>2. EvType'
    BY <1>13 DEF EvServerCommand, EvType, evvars, CloseBoth
  <2>3. TableType' /\ SchedType' /\ OwnerType' /\ DroneType' /\ MainType'
    BY <1>13 DEF EvServerCommand, TableType, SchedType, OwnerType, DroneType,
       MainType, tabvars, schedvars, ownvars, dronevars, mainvars
  <2> QED BY <2>1, <2>2, <2>3
<1>14. ASSUME EvSchedule PROVE TypeOK'
  <2>1. TableType'
    BY <1>14, FirstMatchIsLinked DEF EvSchedule, TableType, tabvars
  <2>2. SchedType'
    BY <1>14, FirstMatchIsLinked, EvConnIsHeld, ConsProperties DEF EvSchedule,
       SchedType, schedvars, TableType
  <2>3. EvType'
    BY <1>14 DEF EvSchedule, EvType, evvars
  <2>4. OwnerType' /\ SockType' /\ DroneType' /\ MainType'
    BY <1>14 DEF EvSchedule, OwnerType, SockType, DroneType, MainType,
       ownvars, sockvars, dronevars, mainvars
  <2> QED BY <2>1, <2>2, <2>3, <2>4
<1>15. ASSUME EvScheduleFails PROVE TypeOK'
  <2>1. EvType'
    BY <1>15 DEF EvScheduleFails, EvType, evvars
  <2>2. TableType' /\ SchedType' /\ OwnerType' /\ SockType' /\ DroneType' /\ MainType'
    BY <1>15 DEF EvScheduleFails, TableType, SchedType, OwnerType, SockType,
       DroneType, MainType, tabvars, schedvars, ownvars, sockvars, dronevars,
       mainvars
  <2> QED BY <2>1, <2>2
<1>16. ASSUME EvSignal PROVE TypeOK'
  <2>1. EvType'
    BY <1>16 DEF EvSignal, EvType, evvars
  <2>2. DroneType'
    BY <1>16 DEF EvSignal, DroneType, dronevars, Signal
  <2>3. TableType' /\ SchedType' /\ OwnerType' /\ SockType' /\ MainType'
    BY <1>16 DEF EvSignal, TableType, SchedType, OwnerType, SockType,
       MainType, tabvars, schedvars, ownvars, sockvars, mainvars
  <2> QED BY <2>1, <2>2, <2>3
<1>17. ASSUME EvRefuse PROVE TypeOK'
  <2>1. SockType'
    BY <1>17 DEF EvRefuse, SockType, sockvars, CloseBoth
  <2>2. EvType'
    BY <1>17 DEF EvRefuse, EvType, evvars, CloseBoth
  <2>3. TableType' /\ SchedType' /\ OwnerType' /\ DroneType' /\ MainType'
    BY <1>17 DEF EvRefuse, TableType, SchedType, OwnerType, DroneType,
       MainType, tabvars, schedvars, ownvars, dronevars, mainvars
  <2> QED BY <2>1, <2>2, <2>3
<1>18. ASSUME EvCancelled PROVE TypeOK'
  <2>1. EvType'
    BY <1>18 DEF EvCancelled, EvType, evvars
  <2>2. TableType' /\ SchedType' /\ OwnerType' /\ SockType' /\ DroneType' /\ MainType'
    BY <1>18 DEF EvCancelled, TableType, SchedType, OwnerType, SockType,
       DroneType, MainType, tabvars, schedvars, ownvars, sockvars, dronevars,
       mainvars
  <2> QED BY <2>1, <2>2
<1>19. ASSUME NEW d \in Drones, DroneSleep(d) PROVE TypeOK'
  <2>1. DroneType'
    BY <1>19 DEF DroneSleep, DroneType, dronevars
  <2>2. TableType' /\ SchedType' /\ OwnerType' /\ SockType' /\ EvType' /\ MainType'
    BY <1>19 DEF DroneSleep, TableType, SchedType, OwnerType, SockType,
       EvType, MainType, tabvars, schedvars, ownvars, sockvars, evvars,
       mainvars
  <2> QED BY <2>1, <2>2
<1>20. ASSUME NEW d \in Drones, DroneTake(d) PROVE TypeOK'
  <2>1. SchedType'
    BY <1>20, HeadTailProperties DEF DroneTake, SchedType, schedvars
  <2>2. DroneType'
    BY <1>20, HeadTailProperties DEF DroneTake, DroneType, dronevars,
       SchedType
  <2>3. TableType' /\ OwnerType' /\ SockType' /\ EvType' /\ MainType'
    BY <1>20 DEF DroneTake, TableType, OwnerType, SockType, EvType, MainType,
       tabvars, ownvars, sockvars, evvars, mainvars
  <2> QED BY <2>1, <2>2, <2>3
<1>21. ASSUME NEW d \in Drones, DroneRun(d) PROVE TypeOK'
  <2>1. DroneType'
    BY <1>21 DEF DroneRun, DroneType, dronevars
  <2>2. TableType' /\ SchedType' /\ OwnerType' /\ SockType' /\ EvType' /\ MainType'
    BY <1>21 DEF DroneRun, TableType, SchedType, OwnerType, SockType, EvType,
       MainType, tabvars, schedvars, ownvars, sockvars, evvars, mainvars
  <2> QED BY <2>1, <2>2
<1>22. ASSUME NEW d \in Drones, DroneUnref(d) PROVE TypeOK'
  <2>1. TableType'
    BY <1>22, UnrefIsCounted DEF DroneUnref, TableType, tabvars
  <2>2. SchedType'
    BY <1>22 DEF DroneUnref, SchedType, schedvars
  <2>3. DroneType'
    BY <1>22 DEF DroneUnref, DroneType, dronevars
  <2>4. OwnerType' /\ SockType' /\ EvType' /\ MainType'
    BY <1>22 DEF DroneUnref, OwnerType, SockType, EvType, MainType, ownvars,
       sockvars, evvars, mainvars
  <2> QED BY <2>1, <2>2, <2>3, <2>4
<1>23. ASSUME NEW d \in Drones, DroneClose(d) PROVE TypeOK'
  <2>1. SockType'
    BY <1>23 DEF DroneClose, SockType, sockvars, CloseBoth
  <2>2. DroneType'
    BY <1>23 DEF DroneClose, DroneType, dronevars, CloseBoth
  <2>3. TableType' /\ SchedType' /\ OwnerType' /\ EvType' /\ MainType'
    BY <1>23 DEF DroneClose, TableType, SchedType, OwnerType, EvType,
       MainType, tabvars, schedvars, ownvars, evvars, mainvars
  <2> QED BY <2>1, <2>2, <2>3
<1>24. ASSUME NEW d \in Drones, DroneTest(d) PROVE TypeOK'
  <2>1. DroneType'
    BY <1>24 DEF DroneTest, DroneType, dronevars
  <2>2. TableType' /\ SchedType' /\ OwnerType' /\ SockType' /\ EvType' /\ MainType'
    BY <1>24 DEF DroneTest, TableType, SchedType, OwnerType, SockType, EvType,
       MainType, tabvars, schedvars, ownvars, sockvars, evvars, mainvars
  <2> QED BY <2>1, <2>2
<1>25. ASSUME NEW d \in Drones, DroneCancelled(d) PROVE TypeOK'
  <2>1. DroneType'
    BY <1>25 DEF DroneCancelled, DroneType, dronevars
  <2>2. TableType' /\ SchedType' /\ OwnerType' /\ SockType' /\ EvType' /\ MainType'
    BY <1>25 DEF DroneCancelled, TableType, SchedType, OwnerType, SockType,
       EvType, MainType, tabvars, schedvars, ownvars, sockvars, evvars,
       mainvars
  <2> QED BY <2>1, <2>2
<1>26. ASSUME NEW d \in Drones, SpuriousWakeup(d) PROVE TypeOK'
  <2>1. DroneType'
    BY <1>26 DEF SpuriousWakeup, DroneType, dronevars
  <2>2. TableType' /\ SchedType' /\ OwnerType' /\ SockType' /\ EvType' /\ MainType'
    BY <1>26 DEF SpuriousWakeup, TableType, SchedType, OwnerType, SockType,
       EvType, MainType, tabvars, schedvars, ownvars, sockvars, evvars,
       mainvars
  <2> QED BY <2>1, <2>2
<1>27. ASSUME InitFailsEarly PROVE TypeOK'
  <2>1. MainType'
    BY <1>27, ConstFacts DEF InitFailsEarly, MainType, mainvars, DestroyCtlev
  <2>2. TableType' /\ SchedType' /\ OwnerType' /\ SockType' /\ EvType' /\ DroneType'
    BY <1>27 DEF InitFailsEarly, TableType, SchedType, OwnerType, SockType,
       EvType, DroneType, tabvars, schedvars, ownvars, sockvars, evvars,
       dronevars
  <2> QED BY <2>1, <2>2
<1>28. ASSUME InitStart PROVE TypeOK'
  <2>1. OwnerType'
    BY <1>28 DEF InitStart, OwnerType, ownvars
  <2>2. SockType'
    BY <1>28 DEF InitStart, SockType, sockvars
  <2>3. DroneType'
    BY <1>28 DEF InitStart, DroneType, dronevars
  <2>4. MainType'
    BY <1>28, ConstFacts DEF InitStart, MainType, mainvars
  <2>5. TableType' /\ SchedType' /\ EvType'
    BY <1>28 DEF InitStart, TableType, SchedType, EvType, tabvars, schedvars,
       evvars
  <2> QED BY <2>1, <2>2, <2>3, <2>4, <2>5
<1>29. ASSUME InitEv PROVE TypeOK'
  <2>1. SockType'
    BY <1>29 DEF InitEv, SockType, sockvars
  <2>2. EvType'
    BY <1>29 DEF InitEv, EvType, evvars
  <2>3. MainType'
    BY <1>29 DEF InitEv, MainType, mainvars
  <2>4. TableType' /\ SchedType' /\ OwnerType' /\ DroneType'
    BY <1>29 DEF InitEv, TableType, SchedType, OwnerType, DroneType, tabvars,
       schedvars, ownvars, dronevars
  <2> QED BY <2>1, <2>2, <2>3, <2>4
<1>30. ASSUME InitEvFails PROVE TypeOK'
  <2>1. OwnerType'
    BY <1>30 DEF InitEvFails, OwnerType, ownvars
  <2>2. MainType'
    BY <1>30 DEF InitEvFails, MainType, mainvars
  <2>3. TableType' /\ SchedType' /\ SockType' /\ EvType' /\ DroneType'
    BY <1>30 DEF InitEvFails, TableType, SchedType, SockType, EvType,
       DroneType, tabvars, schedvars, sockvars, evvars, dronevars
  <2> QED BY <2>1, <2>2, <2>3
<1>31. ASSUME InitErrClose PROVE TypeOK'
  <2>1. SockType'
    BY <1>31, EmptySeq DEF InitErrClose, SockType, sockvars, MainservClose
  <2>2. MainType'
    BY <1>31 DEF InitErrClose, MainType, mainvars, DestroyCtlev
  <2>3. TableType' /\ SchedType' /\ OwnerType' /\ EvType' /\ DroneType'
    BY <1>31 DEF InitErrClose, TableType, SchedType, OwnerType, EvType,
       DroneType, tabvars, schedvars, ownvars, evvars, dronevars
  <2> QED BY <2>1, <2>2, <2>3
<1>32. ASSUME StopBegin PROVE TypeOK'
  <2>1. OwnerType'
    BY <1>32 DEF StopBegin, OwnerType, ownvars
  <2>2. MainType'
    BY <1>32 DEF StopBegin, MainType, mainvars
  <2>3. TableType' /\ SchedType' /\ SockType' /\ EvType' /\ DroneType'
    BY <1>32 DEF StopBegin, TableType, SchedType, SockType, EvType, DroneType,
       tabvars, schedvars, sockvars, evvars, dronevars
  <2> QED BY <2>1, <2>2, <2>3
<1>33. ASSUME StopClose PROVE TypeOK'
  <2>1. SockType'
    BY <1>33, EmptySeq DEF StopClose, SockType, sockvars, MainservClose
  <2>2. EvType'
    BY <1>33 DEF StopClose, EvType, evvars
  <2>3. MainType'
    BY <1>33 DEF StopClose, MainType, mainvars
  <2>4. TableType' /\ SchedType' /\ OwnerType' /\ DroneType'
    BY <1>33 DEF StopClose, TableType, SchedType, OwnerType, DroneType,
       tabvars, schedvars, ownvars, dronevars
  <2> QED BY <2>1, <2>2, <2>3, <2>4
<1>34. ASSUME StopEv PROVE TypeOK'
  <2>1. EvType'
    BY <1>34 DEF StopEv, EvType, evvars
  <2>2. MainType'
    BY <1>34 DEF StopEv, MainType, mainvars, DestroyCtlev
  <2>3. TableType' /\ SchedType' /\ OwnerType' /\ SockType' /\ DroneType'
    BY <1>34 DEF StopEv, TableType, SchedType, OwnerType, SockType, DroneType,
       tabvars, schedvars, ownvars, sockvars, dronevars
  <2> QED BY <2>1, <2>2, <2>3
<1>35. ASSUME CorralCancel PROVE TypeOK'
  <2>1. DroneType'
    BY <1>35, ConstFacts DEF CorralCancel, DroneType, dronevars, Drones,
       MainType
  <2>2. TableType' /\ SchedType' /\ OwnerType' /\ SockType' /\ EvType' /\ MainType'
    BY <1>35 DEF CorralCancel, TableType, SchedType, OwnerType, SockType,
       EvType, MainType, tabvars, schedvars, ownvars, sockvars, evvars,
       mainvars
  <2> QED BY <2>1, <2>2
<1>36. ASSUME CorralJoin PROVE TypeOK'
  <2>1. DroneType'
    BY <1>36 DEF CorralJoin, DroneType, dronevars
  <2>2. MainType'
    BY <1>36, ConstFacts DEF CorralJoin, MainType, mainvars
  <2>3. TableType' /\ SchedType' /\ OwnerType' /\ SockType' /\ EvType'
    BY <1>36 DEF CorralJoin, TableType, SchedType, OwnerType, SockType,
       EvType, tabvars, schedvars, ownvars, sockvars, evvars
  <2> QED BY <2>1, <2>2, <2>3
<1>37. ASSUME CorralDone PROVE TypeOK'
  <2>1. MainType'
    BY <1>37 DEF CorralDone, MainType, mainvars
  <2>2. TableType' /\ SchedType' /\ OwnerType' /\ SockType' /\ EvType' /\ DroneType'
    BY <1>37 DEF CorralDone, TableType, SchedType, OwnerType, SockType,
       EvType, DroneType, tabvars, schedvars, ownvars, sockvars, evvars,
       dronevars
  <2> QED BY <2>1, <2>2
<1>38. CASE UNCHANGED vars
  BY <1>38 DEF vars, tabvars, schedvars, ownvars, sockvars, evvars, dronevars,
     mainvars, TableType, SchedType, OwnerType, SockType, EvType, DroneType,
     MainType
<1> QED BY <1>1, <1>2, <1>3, <1>4, <1>5, <1>6, <1>7, <1>8, <1>9, <1>10, <1>11,
       <1>12, <1>13, <1>14, <1>15, <1>16, <1>17, <1>18, <1>19, <1>20, <1>21,
       <1>22, <1>23, <1>24, <1>25, <1>26, <1>27, <1>28, <1>29, <1>30, <1>31,
       <1>32, <1>33, <1>34, <1>35, <1>36, <1>37,
       <1>38
       DEF Next, OwnerStep, EvStep, DroneStep, MainStep

\* Only regcommand() and delcommand() link, unlink, allocate or release entries.
LEMMA TableStep == IInv /\ [Next]_vars => TableInv'
<1> SUFFICES ASSUME IInv, [Next]_vars PROVE TableInv'
  OBVIOUS
<1> USE DEF IInv, TypeOK, TableType, TableInv, tabvars
<1>1. ASSUME NEW o \in Owners, RegCommand(o) PROVE TableInv'
  BY <1>1 DEF RegCommand, Entries
<1>2. ASSUME NEW o \in Owners, DelCommand(o) PROVE TableInv'
  BY <1>2, FirstMatchIsLinked DEF DelCommand
<1>3. CASE UNCHANGED <<table, nalloc, freed>>
  BY <1>3
<1>4. ASSUME NEW o \in Owners, OwnerStep(o) \/ ComponentReg(o) \/ ComponentDel(o)
      PROVE  TableInv'
  BY <1>1, <1>2, <1>3, <1>4
     DEF OwnerStep, RegFails, RegDone, DelDone, ComponentReg, ComponentDel
<1>5. ASSUME NEW k \in Conns, Connect(k) PROVE TableInv'
  BY <1>3, <1>5 DEF Connect
<1>6. CASE EvStep
  BY <1>3, <1>6 DEF EvStep, EvWake, EvAccept, EvRecv, EvRecvFails,
     EvServerCommand, EvSchedule, EvScheduleFails, EvSignal, EvRefuse, EvCancelled
<1>7. ASSUME NEW d \in Drones, DroneStep(d) \/ SpuriousWakeup(d) PROVE TableInv'
  BY <1>3, <1>7 DEF DroneStep, DroneSleep, DroneTake, DroneRun, DroneUnref,
     DroneClose, DroneTest, DroneCancelled, SpuriousWakeup
<1>8. CASE MainStep \/ InitFailsEarly \/ InitStart \/ StopBegin
  BY <1>3, <1>8 DEF MainStep, InitEv, InitEvFails, InitErrClose, StopClose,
     StopEv, CorralCancel, CorralJoin, CorralDone, InitFailsEarly, InitStart,
     StopBegin
<1>9. CASE UNCHANGED vars
  BY <1>3, <1>9 DEF vars
<1> QED BY <1>4, <1>5, <1>6, <1>7, <1>8, <1>9 DEF Next

\* A drone's number is above the herd only once the drone was collected.
LEMMA HerdStep == IInv /\ [Next]_vars => HerdInv'
<1> SUFFICES ASSUME IInv, [Next]_vars PROVE HerdInv'
  OBVIOUS
<1> USE DEF IInv, TypeOK, DroneType, MainType, HerdInv, Drones
<1>1. CASE UNCHANGED <<dpc, mpc, herd>>
  BY <1>1
<1>2. ASSUME NEW o \in Owners, OwnerStep(o) \/ ComponentReg(o) \/ ComponentDel(o)
      PROVE  HerdInv'
  <2>1. CASE RegDone(o) \/ DelDone(o)
    BY <2>1 DEF RegDone, DelDone, dronevars
  <2> QED BY <1>1, <1>2, <2>1 DEF OwnerStep, RegCommand, RegFails, DelCommand,
          ComponentReg, ComponentDel, dronevars, mainvars
<1>3. ASSUME NEW k \in Conns, Connect(k) PROVE HerdInv'
  BY <1>1, <1>3 DEF Connect, dronevars, mainvars
<1>4. CASE EvStep
  BY <1>1, <1>4 DEF EvStep, EvWake, EvAccept, EvRecv, EvRecvFails,
     EvServerCommand, EvSchedule, EvScheduleFails, EvSignal, EvRefuse,
     EvCancelled, dronevars, mainvars
<1>5. ASSUME NEW d \in Drones, DroneStep(d) \/ SpuriousWakeup(d) PROVE HerdInv'
  <2>1. UNCHANGED <<mpc, herd>>
    BY <1>5 DEF DroneStep, DroneSleep, DroneTake, DroneRun, DroneUnref,
       DroneClose, DroneTest, DroneCancelled, SpuriousWakeup, mainvars
  <2>2. \/ dpc[d] # "none" /\ \A x \in Drones \ {d} : dpc'[x] = dpc[x]
        \/ UNCHANGED dpc
    BY <1>5 DEF DroneStep, DroneSleep, DroneTake, DroneRun, DroneUnref,
       DroneClose, DroneTest, DroneCancelled, SpuriousWakeup, AtPending
  <2> QED BY <2>1, <2>2
<1>6. CASE InitStart
  BY <1>6, ConstFacts DEF InitStart
<1>7. CASE CorralJoin
  BY <1>7, ConstFacts DEF CorralJoin
<1>8. CASE CorralDone \/ InitErrClose
  BY <1>8 DEF CorralDone, InitErrClose, dronevars
<1>9. CASE InitFailsEarly \/ InitEv \/ InitEvFails \/ StopBegin \/ StopClose
           \/ StopEv \/ CorralCancel
  BY <1>9 DEF InitFailsEarly, InitEv, InitEvFails, StopBegin, StopClose, StopEv,
     CorralCancel, dronevars, mainvars
<1>10. CASE UNCHANGED vars
  BY <1>1, <1>10 DEF vars, dronevars, mainvars
<1> QED BY <1>2, <1>3, <1>4, <1>5, <1>6, <1>7, <1>8, <1>9, <1>10
        DEF Next, MainStep

\* The counts: raised with a pointer, lowered with one, and an entry that is
\* unlinked has none.
LEMMA CountStep == IInv /\ [Next]_vars => CountInv'
<1> SUFFICES ASSUME IInv, [Next]_vars PROVE CountInv'
  OBVIOUS
<1> USE DEF IInv, TypeOK, TableType, SchedType
<1>1. ASSUME NEW o \in Owners, RegCommand(o) PROVE CountInv'
  <2>1. nalloc + 1 \in Entries /\ nalloc + 1 \notin table /\ nalloc + 1 # 0
    BY <1>1, ConstFacts DEF RegCommand, Entries, TableInv
  <2>2. Pointers(nalloc + 1) = {}
    BY <2>1 DEF Pointers, CountInv
  <2>3. \A e : Pointers(e)' = Pointers(e)
    BY <1>1 DEF RegCommand, schedvars, Pointers
  <2>4. \A k \in Conns : cmdof'[k] # 0 => cmdof'[k] \in table'
    BY <1>1 DEF RegCommand, schedvars, CountInv
  <2>5. ASSUME NEW e \in Entries
        PROVE  refcount'[e] = Cardinality(Pointers(e)')
    BY <1>1, <2>1, <2>2, <2>3, FS_EmptySet DEF RegCommand, CountInv
  <2> QED BY <2>4, <2>5 DEF CountInv
<1>2. ASSUME NEW o \in Owners, DelCommand(o) PROVE CountInv'
  <2> DEFINE n == Commands[o][oidx[o]]
  <2>1. \A e : Pointers(e)' = Pointers(e)
    BY <1>2 DEF DelCommand, schedvars, Pointers
  <2>2. \A e \in Entries : refcount'[e] = Cardinality(Pointers(e)')
    BY <1>2, <2>1 DEF DelCommand, CountInv
  <2>3. CASE Matches(n) = {}
    BY <1>2, <2>2, <2>3 DEF DelCommand, schedvars, CountInv
  <2>4. CASE Matches(n) # {}
    <3>1. FirstMatch(n) \in Entries
      BY <2>4, FirstMatchIsLinked
    <3>2. refcount[FirstMatch(n)] = 0
      BY <1>2, <2>4 DEF DelCommand
    <3>3. Pointers(FirstMatch(n)) = {}
      BY <3>1, <3>2, PointersFinite, FS_EmptySet DEF CountInv
    <3>4. \A k \in Conns : cmdof[k] # FirstMatch(n)
      BY <3>3 DEF Pointers
    <3>5. table' = table \ {FirstMatch(n)} /\ cmdof' = cmdof
      BY <1>2, <2>4 DEF DelCommand, schedvars
    <3> QED BY <2>2, <3>4, <3>5 DEF CountInv
  <2> QED BY <2>3, <2>4
<1>3. CASE EvSchedule
  <2>0. PICK e \in Entries : e = FirstMatch(cmdbuf) /\ e \in table
    BY <1>3, FirstMatchIsLinked DEF EvSchedule
  <2>1. evconn \in Conns /\ cmdof[evconn] = 0
    BY <1>3, EvConnIsHeld DEF EvSchedule
  <2>2. e \in table /\ e \in Entries /\ e # 0
    BY <2>0 DEF Entries
  <2>3. /\ cmdof' = [cmdof EXCEPT ![evconn] = e]
        /\ refcount' = [refcount EXCEPT ![e] = @ + 1]
        /\ table' = table
    BY <1>3, <2>0 DEF EvSchedule
  <2>4. Pointers(e)' = Pointers(e) \cup {evconn} /\ evconn \notin Pointers(e)
    BY <2>1, <2>2, <2>3 DEF Pointers
  <2>5. \A f \in Entries \ {e} : Pointers(f)' = Pointers(f)
    BY <2>1, <2>2, <2>3 DEF Pointers, Entries
  <2>6. Cardinality(Pointers(e)') = Cardinality(Pointers(e)) + 1
    BY <2>4, PointersFinite, FS_AddElement
  <2>7. \A f \in Entries : refcount'[f] = Cardinality(Pointers(f)')
    BY <2>2, <2>3, <2>5, <2>6 DEF CountInv
  <2>8. \A k \in Conns : cmdof'[k] # 0 => cmdof'[k] \in table'
    BY <2>1, <2>2, <2>3 DEF CountInv
  <2> QED BY <2>7, <2>8 DEF CountInv
<1>4. ASSUME NEW d \in Drones, DroneUnref(d) PROVE CountInv'
  <2>0. PICK k \in Conns, e \in Entries : k = dconn[d] /\ e = cmdof[k]
    BY <1>4, UnrefIsCounted DEF DroneUnref
  <2>1. cmdof[k] = e /\ e # 0
    BY <2>0 DEF Entries
  <2>2. /\ cmdof' = [cmdof EXCEPT ![k] = 0]
        /\ refcount' = [refcount EXCEPT ![e] = @ - 1]
        /\ table' = table
    BY <1>4, <2>0 DEF DroneUnref
  <2>3. Pointers(e)' = Pointers(e) \ {k} /\ k \in Pointers(e)
    BY <2>1, <2>2 DEF Pointers
  <2>4. \A f \in Entries \ {e} : Pointers(f)' = Pointers(f)
    BY <2>1, <2>2 DEF Pointers, Entries
  <2>5. Cardinality(Pointers(e)') = Cardinality(Pointers(e)) - 1
    BY <2>3, PointersFinite, FS_RemoveElement
  <2>6. \A f \in Entries : refcount'[f] = Cardinality(Pointers(f)')
    BY <2>1, <2>2, <2>4, <2>5 DEF CountInv
  <2>7. \A x \in Conns : cmdof'[x] # 0 => cmdof'[x] \in table'
    BY <2>1, <2>2 DEF CountInv
  <2> QED BY <2>6, <2>7 DEF CountInv
<1>5. CASE UNCHANGED <<table, refcount, cmdof>>
  BY <1>5 DEF CountInv, Pointers
<1> USE DEF tabvars, schedvars
<1>6. ASSUME NEW o \in Owners, OwnerStep(o) \/ ComponentReg(o) \/ ComponentDel(o)
      PROVE  CountInv'
  BY <1>1, <1>2, <1>5, <1>6
     DEF OwnerStep, RegFails, RegDone, DelDone, ComponentReg, ComponentDel
<1>7. ASSUME NEW k \in Conns, Connect(k) PROVE CountInv'
  BY <1>5, <1>7 DEF Connect
<1>8. CASE EvStep
  BY <1>3, <1>5, <1>8 DEF EvStep, EvWake, EvAccept, EvRecv, EvRecvFails,
     EvServerCommand, EvScheduleFails, EvSignal, EvRefuse, EvCancelled
<1>9. ASSUME NEW d \in Drones, DroneStep(d) \/ SpuriousWakeup(d) PROVE CountInv'
  BY <1>4, <1>5, <1>9 DEF DroneStep, DroneSleep, DroneTake, DroneRun,
     DroneClose, DroneTest, DroneCancelled, SpuriousWakeup
<1>10. CASE MainStep \/ InitFailsEarly \/ InitStart \/ StopBegin
  BY <1>5, <1>10 DEF MainStep, InitEv, InitEvFails, InitErrClose, StopClose,
     StopEv, CorralCancel, CorralJoin, CorralDone, InitFailsEarly, InitStart,
     StopBegin
<1>11. CASE UNCHANGED vars
  BY <1>5, <1>11 DEF vars
<1> QED BY <1>6, <1>7, <1>8, <1>9, <1>10, <1>11 DEF Next

\* The hands that hold a connection: who takes one is the only one to have it.
LEMMA HandStep == IInv /\ [Next]_vars => QueueInv' /\ HandInv' /\ PointInv'
<1> SUFFICES ASSUME IInv, [Next]_vars PROVE QueueInv' /\ HandInv' /\ PointInv'
  OBVIOUS
<1> DEFINE Goal == QueueInv' /\ HandInv' /\ PointInv'
<1> USE DEF IInv, TypeOK, QueueInv, HandInv, PointInv, Holds, EvHolds
<1>0. /\ Len(pending) \in Nat /\ Len(backlog) \in Nat
      /\ \A i \in 1..Len(pending) : pending[i] \in Conns
      /\ \A i \in 1..Len(backlog) : backlog[i] \in Conns
  BY LenProperties, ElementOfSeq DEF SchedType, SockType
<1>1. CASE UNCHANGED <<pending, cmdof, sd, backlog, evpc, evconn, dpc, dconn>>
  BY <1>1
<1>2. ASSUME NEW k \in Conns, Connect(k) PROVE Goal
  <2>1. /\ Len(backlog') = Len(backlog) + 1
        /\ \A i \in 1..Len(backlog) : backlog'[i] = backlog[i]
        /\ backlog'[Len(backlog) + 1] = k
    BY <1>2, AppendProperties DEF Connect, SockType
  <2>2. sd[k] \in {"none", "closed"} /\ sd' = [sd EXCEPT ![k] = "backlog"]
    BY <1>2 DEF Connect
  <2>3. UNCHANGED <<pending, cmdof, evpc, evconn, dpc, dconn>>
    BY <1>2 DEF Connect, schedvars, evvars, dronevars
  <2>4. \A i \in 1..Len(backlog') :
          \/ i \in 1..Len(backlog) /\ backlog'[i] = backlog[i] /\ backlog[i] # k
          \/ i = Len(backlog) + 1 /\ backlog'[i] = k
    BY <1>0, <2>1, <2>2
  <2>5. QueueInv'
    <3>1. \A i, j \in 1..Len(backlog') : backlog'[i] = backlog'[j] => i = j
      BY <1>0, <2>4
    <3>2. \A i \in 1..Len(backlog') : sd'[backlog'[i]] = "backlog"
      BY <1>0, <2>2, <2>4 DEF SockType
    <3>3. \A i \in 1..Len(pending') : sd'[pending'[i]] = "open"
      BY <1>0, <2>2, <2>3 DEF SockType
    <3> QED BY <2>3, <3>1, <3>2, <3>3
  <2>6. HandInv' /\ PointInv'
    BY <2>2, <2>3 DEF SockType
  <2> QED BY <2>5, <2>6
<1>3. CASE EvWake \/ EvRecv \/ EvScheduleFails \/ EvCancelled
  BY <1>3 DEF EvWake, EvRecv, EvScheduleFails, EvCancelled, schedvars, sockvars,
     dronevars
<1>4. CASE EvAccept
  <2>1. CASE backlog = <<>>
    BY <1>4, <2>1 DEF EvAccept, schedvars, dronevars
  <2>2. CASE backlog # <<>>
    <3> DEFINE k == Head(backlog)
    <3>1. /\ k \in Conns /\ k = backlog[1] /\ Len(backlog) >= 1
          /\ Len(backlog') = Len(backlog) - 1
          /\ \A i \in 1..Len(backlog') : backlog'[i] = backlog[i + 1]
      <4>1. backlog \in Seq(Conns) /\ backlog' = Tail(backlog)
        BY <1>4, <2>2 DEF EvAccept, SockType
      <4>2. Len(backlog) \in Nat \ {0}
        BY <2>2, <4>1, EmptySeq
      <4> QED BY <2>2, <4>1, <4>2, HeadTailProperties
    <3>2. sd[k] = "backlog" /\ sd' = [sd EXCEPT ![k] = "open"]
      BY <1>0, <1>4, <2>2, <3>1 DEF EvAccept
    <3>3. /\ evpc' = "recv" /\ evconn' = k
          /\ UNCHANGED <<pending, cmdof, dpc, dconn>>
      BY <1>4, <2>2 DEF EvAccept, schedvars, dronevars
    <3> HIDE DEF k
    <3>4. QueueInv'
      BY SMTT(30), <1>0, <3>1, <3>2, <3>3 DEF SockType
    <3>5. HandInv' /\ PointInv'
      BY <1>0, <3>1, <3>2, <3>3 DEF SockType
    <3> QED BY <3>4, <3>5
  <2> QED BY <2>1, <2>2
<1>5. CASE EvRecvFails \/ EvServerCommand \/ EvRefuse
  <2>1. sd' = [sd EXCEPT ![evconn] = "closed"] /\ EvHolds /\ evpc' = "wait"
    BY <1>5 DEF EvRecvFails, EvServerCommand, EvRefuse, CloseBoth
  <2>2. UNCHANGED <<pending, cmdof, backlog, dpc, dconn>>
    BY <1>5 DEF EvRecvFails, EvServerCommand, EvRefuse, schedvars, dronevars
  <2> QED BY <1>0, <2>1, <2>2 DEF SockType
<1>6. CASE EvSchedule
  <2>1. evconn \in Conns /\ cmdof[evconn] = 0
    BY <1>6, EvConnIsHeld DEF EvSchedule
  <2>2. /\ Len(pending') = Len(pending) + 1
        /\ pending'[1] = evconn
        /\ \A i \in 1..Len(pending) : pending'[i + 1] = pending[i]
        /\ \A i \in 2..Len(pending') : pending'[i] = pending[i - 1]
    BY <1>6, <2>1, ConsProperties DEF EvSchedule, SchedType
  <2>3. PICK e \in Entries : cmdof' = [cmdof EXCEPT ![evconn] = e]
    BY <1>6, FirstMatchIsLinked DEF EvSchedule, TableType
  <2>4. e # 0
    BY DEF Entries
  <2>5. /\ EvHolds /\ ~EvHolds' /\ UNCHANGED <<sd, backlog, dpc, dconn>>
    BY <1>6 DEF EvSchedule, sockvars, dronevars
  <2>6. \A i \in 1..Len(pending') :
          \/ i = 1 /\ pending'[i] = evconn
          \/ i - 1 \in 1..Len(pending) /\ pending'[i] = pending[i - 1]
             /\ pending[i - 1] # evconn
    BY <1>0, <2>2, <2>5
  <2>7. QueueInv'
    <3>1. \A i, j \in 1..Len(pending') : pending'[i] = pending'[j] => i = j
      BY <1>0, <2>6
    <3>2. \A i \in 1..Len(pending') : sd'[pending'[i]] = "open"
      BY SMTT(30), <2>5, <2>6
    <3> QED BY <2>5, <3>1, <3>2
  <2>8. HandInv'
    BY <2>5, <2>6
  <2>9. PointInv'
    BY <1>0, <2>1, <2>2, <2>3, <2>4, <2>5 DEF SchedType
  <2> QED BY <2>7, <2>8, <2>9
<1>7. CASE EvSignal
  BY <1>7 DEF EvSignal, schedvars, sockvars
<1>8. ASSUME NEW d \in Drones, DroneTake(d) PROVE Goal
  <2> DEFINE k == Head(pending)
  <2>1. /\ k \in Conns /\ k = pending[1] /\ Len(pending) >= 1
        /\ Len(pending') = Len(pending) - 1
        /\ \A i \in 1..Len(pending') : pending'[i] = pending[i + 1]
    BY <1>0, <1>8, HeadTailProperties, EmptySeq DEF DroneTake, SchedType
  <2>2. /\ dconn' = [dconn EXCEPT ![d] = k]
        /\ dpc' = [dpc EXCEPT ![d] = "run"]
        /\ dpc[d] \in {"top", "waiting"}
        /\ UNCHANGED <<cmdof, sd, backlog, evpc, evconn>>
    BY <1>8 DEF DroneTake, AtPending, sockvars, evvars
  <2> HIDE DEF k
  <2>3. QueueInv'
    BY SMTT(30), <1>0, <2>1, <2>2
  <2>4. HandInv'
    BY <1>0, <2>1, <2>2 DEF DroneType
  <2>5. PointInv'
    <3>1. \A i \in 1..Len(pending') : cmdof'[pending'[i]] # 0
      BY <1>0, <2>1, <2>2
    <3>2. \A x \in Drones : dpc'[x] \in {"run", "unref"} => cmdof'[dconn'[x]] # 0
      BY <1>0, <2>1, <2>2 DEF DroneType
    <3>3. ASSUME NEW q \in Conns, cmdof'[q] # 0
          PROVE  \/ \E i \in 1..Len(pending') : pending'[i] = q
                 \/ \E x \in Drones : dpc'[x] \in {"run", "unref"} /\ dconn'[x] = q
      <4>1. CASE q = k
        BY <2>2, <4>1 DEF DroneType
      <4>2. ASSUME NEW i \in 1..Len(pending), pending[i] = q, q # k
            PROVE  i - 1 \in 1..Len(pending') /\ pending'[i - 1] = q
        BY <1>0, <2>1, <4>2
      <4>3. ASSUME NEW x \in Drones, dpc[x] \in {"run", "unref"}, dconn[x] = q
            PROVE  dpc'[x] \in {"run", "unref"} /\ dconn'[x] = q
        BY <2>2, <4>3 DEF DroneType
      <4> QED BY <2>2, <3>3, <4>1, <4>2, <4>3
    <3> QED BY <3>1, <3>2, <3>3
  <2> QED BY <2>3, <2>4, <2>5
<1>9. ASSUME NEW d \in Drones, DroneUnref(d) PROVE Goal
  <2>1. /\ dconn[d] \in Conns /\ dpc[d] = "unref"
        /\ cmdof' = [cmdof EXCEPT ![dconn[d]] = 0]
        /\ dpc' = [dpc EXCEPT ![d] = "close"]
        /\ UNCHANGED <<pending, sd, backlog, evpc, evconn, dconn>>
    BY <1>9 DEF DroneUnref, sockvars, evvars
  <2>2. QueueInv' /\ HandInv'
    BY <2>1 DEF DroneType
  <2>3. PointInv'
    BY <1>0, <2>1 DEF DroneType, SchedType
  <2> QED BY <2>2, <2>3
<1>10. ASSUME NEW d \in Drones, DroneClose(d) PROVE Goal
  <2>1. /\ dconn[d] \in Conns /\ dpc[d] = "close"
        /\ sd' = [sd EXCEPT ![dconn[d]] = "closed"]
        /\ dconn' = [dconn EXCEPT ![d] = NoConn]
        /\ dpc' = [dpc EXCEPT ![d] = "test"]
        /\ UNCHANGED <<pending, cmdof, backlog, evpc, evconn>>
    BY <1>10 DEF DroneClose, CloseBoth, schedvars, evvars
  <2>2. QueueInv'
    BY <1>0, <2>1 DEF SockType
  <2>3. HandInv'
    BY <1>0, <2>1 DEF DroneType, SockType
  <2>4. PointInv'
    BY <1>0, <2>1 DEF DroneType
  <2> QED BY <2>2, <2>3, <2>4
<1>11. ASSUME NEW d \in Drones, DroneRun(d) PROVE Goal
  BY <1>11 DEF DroneRun, schedvars, sockvars, evvars, DroneType
<1>12. ASSUME NEW d \in Drones,
              DroneSleep(d) \/ DroneTest(d) \/ DroneCancelled(d) PROVE Goal
  <2>1. /\ ~Holds(d) /\ \E v \in {"waiting", "gone", "top"} : dpc' = [dpc EXCEPT ![d] = v]
        /\ UNCHANGED <<pending, cmdof, sd, backlog, evpc, evconn, dconn>>
    BY <1>12 DEF DroneSleep, DroneTest, DroneCancelled, AtPending, schedvars,
       sockvars, evvars
  <2> QED BY <2>1 DEF DroneType
<1>13. ASSUME NEW d \in Drones, SpuriousWakeup(d) PROVE Goal
  BY <1>1, <1>13 DEF SpuriousWakeup, schedvars, sockvars, evvars
<1>14. CASE InitStart
  <2>1. \A d \in Drones : dpc[d] = "none"
    BY <1>14 DEF InitStart, HerdInv, Drones
  <2>2. /\ dpc' = [d \in Drones |-> "top"]
        /\ UNCHANGED <<pending, cmdof, sd, backlog, evpc, evconn>>
    BY <1>14 DEF InitStart, schedvars, evvars
  <2> QED BY <2>1, <2>2
<1>15. CASE InitEv \/ StopEv
  BY <1>15 DEF InitEv, StopEv, schedvars, sockvars, dronevars
<1>16. CASE InitErrClose \/ StopClose
  <2>1. /\ backlog' = <<>>
        /\ \A k \in Conns : sd[k] = "open" => sd'[k] = "open"
        /\ UNCHANGED <<pending, cmdof, evpc, evconn, dpc, dconn>>
    BY <1>16 DEF InitErrClose, StopClose, MainservClose, schedvars, evvars,
       dronevars, SockType
  <2> QED BY <1>0, <2>1, EmptySeq
<1>17. CASE CorralJoin
  BY <1>17, ConstFacts DEF CorralJoin, schedvars, sockvars, evvars, DroneType,
     MainType, Drones
<1>18. CASE InitFailsEarly \/ InitEvFails \/ StopBegin \/ CorralCancel \/ CorralDone
  BY <1>1, <1>18 DEF InitFailsEarly, InitEvFails, StopBegin, CorralCancel,
     CorralDone, schedvars, sockvars, evvars, dronevars
<1>19. ASSUME NEW o \in Owners, OwnerStep(o) \/ ComponentReg(o) \/ ComponentDel(o)
       PROVE  Goal
  BY <1>1, <1>19 DEF OwnerStep, RegCommand, RegFails, RegDone, DelCommand,
     DelDone, ComponentReg, ComponentDel, schedvars, sockvars, evvars, dronevars
<1>20. CASE UNCHANGED vars
  BY <1>1, <1>20 DEF vars, schedvars, sockvars, evvars, dronevars
<1> HIDE DEF QueueInv, HandInv, PointInv
<1> QED BY <1>2, <1>3, <1>4, <1>5, <1>6, <1>7, <1>8, <1>9, <1>10, <1>11, <1>12,
           <1>13, <1>14, <1>15, <1>16, <1>17, <1>18, <1>19, <1>20
        DEF Next, EvStep, DroneStep, MainStep

-----------------------------------------------------------------------------
\* The theorems.

\* The invariant holds in every state: init_ctlserver() and all that runs after
\* it keep every part.
LEMMA SpecIInv == Spec => []IInv
<1>1. IInv /\ [Next]_vars => IInv'
  BY TypeStep, TableStep, HandStep, CountStep, HerdStep DEF IInv
<1> QED BY InitIInv, <1>1, PTL DEF Spec

\* Every variable of the control server keeps to its values; a reference count,
\* an unsigned in export_cmd, is never lowered below zero.
THEOREM TypeCorrect == Spec => []TypeOK
<1>1. IInv => TypeOK
  BY DEF IInv
<1> QED BY SpecIInv, <1>1, PTL

\* The connections that are queued or run are those that point to an entry.
LEMMA UsersPoint ==
  ASSUME IInv
  PROVE  /\ \A k \in Queued \cup InHand : k \in Conns /\ cmdof[k] # 0
         /\ \A e \in Entries : Users(e) = Pointers(e)
<1>1. \A i \in 1..Len(pending) : pending[i] \in Conns
  BY ElementOfSeq DEF IInv, TypeOK, SchedType
<1>2. \A k \in Queued \cup InHand : k \in Conns /\ cmdof[k] # 0
  BY <1>1 DEF IInv, HandInv, PointInv, Holds, Queued, InHand
<1>3. ASSUME NEW e \in Entries, NEW k \in Pointers(e)
      PROVE  k \in Queued \cup InHand
  <2>1. k \in Conns /\ cmdof[k] # 0
    BY <1>3 DEF Pointers, Entries
  <2> QED BY <2>1 DEF IInv, PointInv, Queued, InHand
<1> QED BY <1>2, <1>3 DEF Users, Pointers

\* schedule(), ctldrone_main() and delcommand() keep the count of every entry
\* equal to the number of commands queued or running on it.
THEOREM RefcountCorrect == Spec => []RefcountIsExact
<1>1. IInv => RefcountIsExact
  BY UsersPoint DEF IInv, CountInv, RefcountIsExact
<1> QED BY SpecIInv, <1>1, PTL

\* No command is queued or running on an entry that delcommand() has unlinked
\* or released.
THEOREM HandlersStayCorrect == Spec => []HandlersStay
<1>1. IInv => HandlersStay
  BY UsersPoint DEF IInv, TableInv, CountInv, HandlersStay
<1> QED BY SpecIInv, <1>1, PTL

\* A queue without duplicates has as many connections as places.
LEMMA QueuedCount ==
  ASSUME IInv
  PROVE  Cardinality(Queued) = Len(pending)
<1>1. Len(pending) \in Nat /\ pending \in [1..Len(pending) -> Conns]
  BY LenProperties DEF IInv, TypeOK, SchedType
<1>2. pending \in Bijection(1..Len(pending), Queued)
  <2>1. pending \in [1..Len(pending) -> Queued]
    BY <1>1 DEF Queued
  <2>2. \A i, j \in 1..Len(pending) : pending[i] = pending[j] => i = j
    BY DEF IInv, QueueInv
  <2>3. \A k \in Queued : \E i \in 1..Len(pending) : pending[i] = k
    BY DEF Queued
  <2> QED BY <2>1, <2>2, <2>3, Fun_IsBij
<1>3. ExistsBijection(1..Len(pending), Queued)
  BY <1>2 DEF ExistsBijection
<1>4. IsFiniteSet(1..Len(pending)) /\ Cardinality(1..Len(pending)) = Len(pending)
  BY <1>1, FS_Interval
<1> QED BY <1>3, <1>4, FS_Bijection

\* localaccept(), the queue and the drones hand a connection on without ever
\* sharing it, and whoever has it finds its descriptor open.
THEOREM OneHandlerCorrect == Spec => []OneHandlerPerConnection
<1>1. ASSUME IInv PROVE OneHandlerPerConnection
  <2> USE DEF IInv
  <2>1. Cardinality(Queued) = Len(pending)
    BY <1>1, QueuedCount
  <2>2. \A d \in Drones : Holds(d) => dconn[d] \notin Queued
    BY <1>1 DEF HandInv, Queued
  <2>3. \A d, x \in Drones : Holds(d) /\ Holds(x) /\ dconn[d] = dconn[x] => d = x
    BY <1>1 DEF HandInv
  <2>4. EvHolds => /\ evconn \notin Queued /\ sd[evconn] = "open"
                   /\ \A d \in Drones : Holds(d) => dconn[d] # evconn
    BY <1>1 DEF HandInv, Queued
  <2>5. /\ \A k \in Queued : sd[k] = "open"
        /\ \A d \in Drones : Holds(d) => sd[dconn[d]] = "open"
    BY <1>1 DEF HandInv, QueueInv, Queued
  <2> HIDE DEF IInv
  <2> QED BY <2>1, <2>2, <2>3, <2>4, <2>5
          DEF OneHandlerPerConnection, Holds, EvHolds
<1> QED BY SpecIInv, <1>1, PTL
=============================================================================
