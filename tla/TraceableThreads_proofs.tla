------------------------ MODULE TraceableThreads_proofs ------------------------
(***************************************************************************)
(* Proofs about TraceableThreads, for any number of callers and launches.   *)
(* Two things are asked: setup_sigstack() does not fail in a detached       *)
(* thread, and no pthread_t is reused between the pthread_join() and the    *)
(* remove_thread_stack() of one collection, which is the case whenever one  *)
(* thread launches and collects all others.                                 *)
(***************************************************************************)
EXTENDS TraceableThreads, TLAPS

DetachedSetup == "detached" \notin SetupFails

\* The pthread_t of a joined thread is not taken before its entry is gone
NoReuse ==
  \A c \in Callers :
    cpc[c] \in {"remove", "removefailed"} => tid[cslot[c]] \notin TakenTids

\* One thread launches and collects all the others
OneCaller == \A c, d \in Callers : c = d

\* Callers at work have slots of their own
Apart(cs, cp) ==
  \A c, d \in Callers : cp[c] # "idle" /\ cp[d] # "idle" /\ cs[c] = cs[d] => c = d

\* Where the caller at work on a slot is
PlaceIn(cs, cp, s) ==
  IF \E c \in Callers : cs[c] = s /\ cp[c] # "idle"
  THEN cp[CHOOSE c \in Callers : cs[c] = s /\ cp[c] # "idle"]
  ELSE "idle"

Place(s) == PlaceIn(cslot, cpc, s)

Confirming(s) == Place(s) \in {"confirm", "waiting"}

\* A slot that was not handed out, or whose launch failed early
NoneInv(s) ==
  /\ s > launched => tpc[s] = "none" /\ state[s] = "CREATED"
  /\ tpc[s] = "none" =>
       s \notin bound \cup stacks \cup held \cup cancel /\ Place(s) = "idle" /\ sw[s] # "live"

\* Before its launch is confirmed
LaunchInv(s) ==
  /\ tpc[s] \in {"start", "registered", "failing"} => state[s] = "CREATED" /\ Confirming(s)
  /\ tpc[s] \in {"running", "exiting", "waiting", "cleanup", "freeing"} =>
       /\ state[s] # "CREATED"
       /\ Confirming(s) <=> state[s] # "CONFIRMED"
  /\ Confirming(s) =>
       /\ tpc[s] \in {"start", "registered", "failing", "running", "exiting", "waiting"}
       /\ s \notin held \cup cancel
  /\ state[s] = "FAILED" \/ tpc[s] = "failing" => kind[s] = "joinable"

\* The thread
ThreadInv(s) ==
  /\ tpc[s] \notin {"none", "gone"} => sw[s] = "live" /\ s \in bound
  /\ tpc[s] \in {"registered", "running", "cleanup"} => s \in stacks
  /\ tpc[s] \in {"none", "start", "failing", "freeing"} => s \notin stacks
  /\ tpc[s] \in {"running", "exiting", "waiting"} =>
       /\ state[s] = "READY" => s \in stacks
       /\ state[s] = "FAILED" => s \notin stacks
       /\ kind[s] = "detached" => s \in stacks
  /\ tpc[s] \in {"cleanup", "freeing"} => kind[s] = "detached" /\ state[s] = "CONFIRMED"
  /\ tpc[s] = "freeing" => tvict[s] = s
  /\ tpc[s] = "gone" /\ kind[s] = "detached" =>
       sw[s] = "freed" /\ s \notin stacks \cup bound \cup held

\* A joinable thread after its launch
JoinInv(s) ==
  /\ s \in held \/ Place(s) = "join" =>
       sw[s] = "live" /\ s \in stacks /\ s \in bound /\ tpc[s] # "none"
  /\ s \in held => Place(s) = "idle"
  /\ Place(s) = "remove" => sw[s] = "live" /\ s \in stacks /\ s \notin bound /\ tpc[s] = "gone"
  /\ Place(s) = "joinfailed" => sw[s] = "live" /\ s \notin stacks /\ s \in bound /\ tpc[s] # "none"
  /\ Place(s) \in {"free", "removefailed", "freefailed"} =>
       sw[s] = "live" /\ s \notin stacks \cup bound /\ tpc[s] = "gone"
  /\ s \in held \/ (Place(s) # "idle" /\ ~Confirming(s)) =>
       kind[s] = "joinable" /\ state[s] = "CONFIRMED"
  /\ s \in cancel => s \notin held /\ (tpc[s] # "gone" => Place(s) = "join")
  /\ kind[s] = "joinable" /\ tpc[s] \notin {"none", "start", "registered", "failing"} =>
       \/ s \in held \/ Place(s) # "idle"
       \/ tpc[s] = "gone" /\ sw[s] = "freed" /\ s \notin stacks \cup bound

SlotInv(s) == NoneInv(s) /\ LaunchInv(s) /\ ThreadInv(s) /\ JoinInv(s)

\* The victim of remove_thread_stack() is the thread that was collected
CallerInv ==
  /\ Apart(cslot, cpc)
  /\ \A c \in Callers : IF cpc[c] = "free" THEN cvict[c] = cslot[c] ELSE cvict[c] = 0

\* Threads whose entry may be looked for are told apart by their pthread_t
Known == bound \cup {s \in Slots : Place(s) \in {"remove", "removefailed"}}

TidInv ==
  /\ stacks \subseteq Known
  /\ \A s1, s2 \in Known : tid[s1] = tid[s2] => s1 = s2

IInv ==
  /\ TypeOK /\ CallerInv /\ TidInv
  /\ \A s \in Slots : SlotInv(s)
  /\ touched = {}

-----------------------------------------------------------------------------
(* The places of the callers.                                              *)

LEMMA PlaceOfCaller ==
  ASSUME NEW cs, NEW cp, Apart(cs, cp), NEW c \in Callers, cp[c] # "idle"
  PROVE  PlaceIn(cs, cp, cs[c]) = cp[c]
BY DEF PlaceIn, Apart

LEMMA CallerOfPlace ==
  ASSUME NEW cs, NEW cp, NEW s, PlaceIn(cs, cp, s) # "idle"
  PROVE  \E c \in Callers : cs[c] = s /\ cp[c] = PlaceIn(cs, cp, s)
BY DEF PlaceIn

LEMMA NoCaller ==
  ASSUME NEW cs, NEW cp, NEW s, \A c \in Callers : cs[c] = s => cp[c] = "idle"
  PROVE  PlaceIn(cs, cp, s) = "idle"
BY DEF PlaceIn

\* A caller takes another place, with the slot it has or with one of its own
LEMMA CallerMoves ==
  ASSUME Apart(cslot, cpc), cpc \in [Callers -> CallerPcs], cslot \in [Callers -> Slots],
         NEW c \in Callers, NEW s \in Slots, NEW l \in CallerPcs,
         cpc' = [cpc EXCEPT ![c] = l], cslot' = [cslot EXCEPT ![c] = s],
         \/ cpc[c] # "idle" /\ cslot[c] = s
         \/ cpc[c] = "idle" /\ Place(s) = "idle"
  PROVE  /\ Apart(cslot', cpc')
         /\ Place(s)' = l
         /\ \A x \in Slots \ {s} : Place(x)' = Place(x)
         /\ cpc' \in [Callers -> CallerPcs] /\ cslot' \in [Callers -> Slots]
<1>1. \A d \in Callers \ {c} : cslot[d] = s => cpc[d] = "idle"
  BY PlaceOfCaller DEF Apart, Place
<1>2. Apart(cslot', cpc')
  BY <1>1 DEF Apart
<1>3. PlaceIn(cslot', cpc', s) = l
  <2>1. cslot'[c] = s /\ cpc'[c] = l
    OBVIOUS
  <2>2. CASE l = "idle"
    BY <1>1, <2>1, <2>2, NoCaller
  <2>3. CASE l # "idle"
    <3>1. PlaceIn(cslot', cpc', cslot'[c]) = cpc'[c]
      BY <1>2, <2>1, <2>3, PlaceOfCaller
    <3> QED BY <2>1, <3>1
  <2> QED BY <2>2, <2>3
<1>4. ASSUME NEW x \in Slots \ {s}
      PROVE  PlaceIn(cslot', cpc', x) = PlaceIn(cslot, cpc, x)
  <2>1. CASE \E d \in Callers \ {c} : cslot[d] = x /\ cpc[d] # "idle"
    <3>1. PICK d \in Callers \ {c} : cslot[d] = x /\ cpc[d] # "idle"
      BY <2>1
    <3>2. cslot'[d] = x /\ cpc'[d] = cpc[d]
      BY <3>1
    <3>3. PlaceIn(cslot', cpc', cslot'[d]) = cpc'[d]
      BY ZenonT(60), <1>2, <3>1, <3>2, PlaceOfCaller
    <3>4. PlaceIn(cslot, cpc, cslot[d]) = cpc[d]
      BY <3>1, PlaceOfCaller
    <3> QED BY <3>1, <3>2, <3>3, <3>4
  <2>2. CASE \A d \in Callers \ {c} : cslot[d] = x => cpc[d] = "idle"
    <3>1. \A d \in Callers : cslot[d] = x => cpc[d] = "idle"
      BY <1>4, <2>2
    <3>2. \A d \in Callers : cslot'[d] = x => cpc'[d] = "idle"
      BY <1>4, <2>2
    <3>3. PlaceIn(cslot, cpc, x) = "idle" /\ PlaceIn(cslot', cpc', x) = "idle"
      BY <3>1, <3>2, NoCaller
    <3> QED BY <3>3
  <2> QED BY <2>1, <2>2
<1> QED BY <1>2, <1>3, <1>4 DEF Place

\* What a slot's invariant depends on
LEMMA SlotStays ==
  ASSUME NEW s \in Slots, SlotInv(s), Place(s)' = Place(s),
         UNCHANGED <<kind[s], sw[s], state[s], tpc[s], tvict[s]>>,
         s \in bound' <=> s \in bound, s \in stacks' <=> s \in stacks,
         s \in held' <=> s \in held, s \in cancel' <=> s \in cancel,
         s > launched' => s > launched
  PROVE  SlotInv(s)'
BY DEF SlotInv, NoneInv, LaunchInv, ThreadInv, JoinInv, Confirming

\* remove_thread_stack() finds the entry of a known thread and no other
LEMMA RightEntry ==
  ASSUME TidInv, stacks \subseteq Slots, NEW s \in Known
  PROVE  /\ s \in stacks => Matches(tid[s]) = {s} /\ FirstMatch(tid[s]) = s
         /\ s \notin stacks => Matches(tid[s]) = {}
<1>1. Matches(tid[s]) \subseteq {s}
  BY DEF Matches, TidInv
<1>2. s \in stacks => Matches(tid[s]) = {s}
  BY <1>1 DEF Matches
<1>3. s \in stacks => s <= s
  BY DEF Slots
<1>4. s \in stacks => FirstMatch(tid[s]) = s
  BY <1>2, <1>3 DEF FirstMatch
<1> QED BY <1>1, <1>2, <1>4 DEF Matches

-----------------------------------------------------------------------------
(* The steps of the callers and of the threads.                            *)

LEMMA ConfirmWaitStep ==
  ASSUME IInv, DetachedSetup, NEW c \in Callers, ConfirmWait(c)
  PROVE  IInv'
<1> USE ConstAssumption DEF IInv
<1>1. PICK s \in Slots : s = cslot[c]
  BY DEF TypeOK
<1>2. /\ cpc[c] \in CallerPcs \ {"idle"} /\ Place(s) = cpc[c] /\ SlotInv(s)
  BY <1>1, PlaceOfCaller DEF TypeOK, CallerInv, Place, ConfirmWait
<1>3. PICK l \in CallerPcs :
        cpc' = [cpc EXCEPT ![c] = l] /\ cslot' = [cslot EXCEPT ![c] = s]
  BY <1>1, <1>2 DEF TypeOK, CallerPcs, ConfirmWait
<1>4. /\ Apart(cslot', cpc') /\ Place(s)' = l
      /\ \A x \in Slots \ {s} : Place(x)' = Place(x)
      /\ cpc' \in [Callers -> CallerPcs] /\ cslot' \in [Callers -> Slots]
  BY <1>1, <1>2, <1>3, CallerMoves DEF TypeOK, CallerInv
<1>5. TypeOK'
  BY <1>1, <1>2, <1>4 DEF TypeOK, CallerInv, States, ConfirmWait, Touch
<1>6. CallerInv'
  BY <1>1, <1>2, <1>3, <1>4 DEF TypeOK, CallerInv, ConfirmWait, Touch
<1>7. SlotInv(s)'
  BY <1>1, <1>2, <1>3, <1>4 DEF TypeOK, CallerInv, ConfirmWait, Touch, SlotInv, NoneInv,
      LaunchInv, ThreadInv, JoinInv, Confirming
<1>8. ASSUME NEW x \in Slots \ {s} PROVE SlotInv(x)'
  BY <1>1, <1>2, <1>3, <1>4, <1>8, SlotStays DEF TypeOK, CallerInv, ConfirmWait, Touch
<1>9. TidInv'
  BY <1>1, <1>2, <1>3, <1>4 DEF TypeOK, TidInv, Known, ConfirmWait, Touch, SlotInv, JoinInv
<1>10. touched' = {}
  BY <1>1, <1>2 DEF CallerInv, ConfirmWait, Touch, SlotInv, NoneInv, LaunchInv, ThreadInv,
      JoinInv, Confirming
<1> QED BY <1>5, <1>6, <1>7, <1>8, <1>9, <1>10

LEMMA ConfirmStep ==
  ASSUME IInv, DetachedSetup, NEW c \in Callers, Confirm(c)
  PROVE  IInv'
<1> USE ConstAssumption DEF IInv
<1>1. PICK s \in Slots : s = cslot[c]
  BY DEF TypeOK
<1>2. /\ cpc[c] \in CallerPcs \ {"idle"} /\ Place(s) = cpc[c] /\ SlotInv(s)
  BY <1>1, PlaceOfCaller DEF TypeOK, CallerInv, Place, Confirm
<1>3. /\ state[s] \in {"READY", "FAILED"}
      /\ state[s] = "FAILED" => kind[s] = "joinable"
      /\ cpc' = [cpc EXCEPT ![c] = IF state[s] = "READY" THEN "idle" ELSE "joinfailed"]
  <2>1. /\ state[s] \in {"READY", "FAILED"}
        /\ state[s] = "FAILED" => kind[s] = "joinable"
    BY <1>1, <1>2 DEF Confirm, TypeOK, States, SlotInv, LaunchInv, Confirming
  <2>2. CASE state[s] = "READY"
    BY <1>1, <2>2 DEF Confirm
  <2>3. CASE state[s] = "FAILED"
    <3>1. kind[s] # "detached"
      BY <2>1, <2>3
    <3> QED BY <1>1, <2>1, <2>3, <3>1 DEF Confirm
  <2> QED BY <2>1, <2>2, <2>3
<1>4. PICK l \in CallerPcs :
        cpc' = [cpc EXCEPT ![c] = l] /\ cslot' = [cslot EXCEPT ![c] = s]
  BY <1>3, <1>1, <1>2 DEF TypeOK, CallerPcs, Confirm
<1>5. \/ state[s] = "READY" /\ l = "idle"
      \/ state[s] = "FAILED" /\ kind[s] = "joinable" /\ l = "joinfailed"
  BY <1>3, <1>4 DEF TypeOK
<1>6. /\ Apart(cslot', cpc') /\ Place(s)' = l
      /\ \A x \in Slots \ {s} : Place(x)' = Place(x)
      /\ cpc' \in [Callers -> CallerPcs] /\ cslot' \in [Callers -> Slots]
  BY <1>1, <1>2, <1>4, CallerMoves DEF TypeOK, CallerInv
<1>7. TypeOK'
  BY <1>1, <1>2, <1>6, <1>5 DEF TypeOK, CallerInv, States, Confirm, Touch, Signal
<1>8. CallerInv'
  BY <1>1, <1>2, <1>4, <1>6, <1>5 DEF TypeOK, CallerInv, Confirm, Touch, Signal
<1>9. SlotInv(s)'
  BY <1>1, <1>2, <1>4, <1>6, <1>5 DEF TypeOK, CallerInv, Confirm, Touch, Signal, SlotInv,
      NoneInv, LaunchInv, ThreadInv, JoinInv, Confirming
<1>10. ASSUME NEW x \in Slots \ {s} PROVE SlotInv(x)'
  BY <1>1, <1>2, <1>4, <1>6, <1>10, <1>5, SlotStays
  DEF TypeOK, CallerInv, Confirm, Touch, Signal
<1>11. TidInv'
  BY <1>1, <1>2, <1>4, <1>6, <1>5 DEF TypeOK, TidInv, Known, Confirm, Touch, Signal, SlotInv,
      JoinInv
<1>12. touched' = {}
  BY <1>1, <1>2 DEF CallerInv, Confirm, Touch, Signal, SlotInv, NoneInv, LaunchInv, ThreadInv,
      JoinInv, Confirming
<1> QED BY <1>7, <1>8, <1>9, <1>10, <1>11, <1>12

LEMMA FreeFailedStep ==
  ASSUME IInv, DetachedSetup, NEW c \in Callers, FreeFailed(c)
  PROVE  IInv'
<1> USE ConstAssumption DEF IInv
<1>1. PICK s \in Slots : s = cslot[c]
  BY DEF TypeOK
<1>2. /\ cpc[c] \in CallerPcs \ {"idle"} /\ Place(s) = cpc[c] /\ SlotInv(s)
  BY <1>1, PlaceOfCaller DEF TypeOK, CallerInv, Place, FreeFailed
<1>3. PICK l \in CallerPcs :
        cpc' = [cpc EXCEPT ![c] = l] /\ cslot' = [cslot EXCEPT ![c] = s]
  BY <1>1, <1>2 DEF TypeOK, CallerPcs, FreeFailed
<1>4. /\ Apart(cslot', cpc') /\ Place(s)' = l
      /\ \A x \in Slots \ {s} : Place(x)' = Place(x)
      /\ cpc' \in [Callers -> CallerPcs] /\ cslot' \in [Callers -> Slots]
  BY <1>1, <1>2, <1>3, CallerMoves DEF TypeOK, CallerInv
<1>5. TypeOK'
  BY <1>1, <1>2, <1>4 DEF TypeOK, CallerInv, States, FreeFailed, Touch, FreeWrapper
<1>6. CallerInv'
  BY <1>1, <1>2, <1>3, <1>4 DEF TypeOK, CallerInv, FreeFailed, Touch, FreeWrapper
<1>7. SlotInv(s)'
  BY <1>1, <1>2, <1>3, <1>4 DEF TypeOK, CallerInv, FreeFailed, Touch, FreeWrapper, SlotInv,
      NoneInv, LaunchInv, ThreadInv, JoinInv, Confirming
<1>8. ASSUME NEW x \in Slots \ {s} PROVE SlotInv(x)'
  BY <1>1, <1>2, <1>3, <1>4, <1>8, SlotStays
  DEF TypeOK, CallerInv, FreeFailed, Touch, FreeWrapper
<1>9. TidInv'
  BY <1>1, <1>2, <1>3, <1>4 DEF TypeOK, TidInv, Known, FreeFailed, Touch, FreeWrapper,
      SlotInv, JoinInv
<1>10. touched' = {}
  BY <1>1, <1>2 DEF CallerInv, FreeFailed, Touch, FreeWrapper, SlotInv, NoneInv, LaunchInv,
      ThreadInv, JoinInv, Confirming
<1> QED BY <1>5, <1>6, <1>7, <1>8, <1>9, <1>10

LEMMA JoinStep ==
  ASSUME IInv, DetachedSetup, NEW c \in Callers, Join(c)
  PROVE  IInv'
<1> USE ConstAssumption DEF IInv
<1>1. PICK s \in Slots : s = cslot[c]
  BY DEF TypeOK
<1>2. /\ cpc[c] \in CallerPcs \ {"idle"} /\ Place(s) = cpc[c] /\ SlotInv(s)
  BY <1>1, PlaceOfCaller DEF TypeOK, CallerInv, Place, Join
<1>3. PICK l \in CallerPcs :
        cpc' = [cpc EXCEPT ![c] = l] /\ cslot' = [cslot EXCEPT ![c] = s]
  BY <1>1, <1>2 DEF TypeOK, CallerPcs, Join
<1>4. /\ Apart(cslot', cpc') /\ Place(s)' = l
      /\ \A x \in Slots \ {s} : Place(x)' = Place(x)
      /\ cpc' \in [Callers -> CallerPcs] /\ cslot' \in [Callers -> Slots]
  BY <1>1, <1>2, <1>3, CallerMoves DEF TypeOK, CallerInv
<1>5. TypeOK'
  BY <1>1, <1>2, <1>4 DEF TypeOK, CallerInv, States, Join
<1>6. CallerInv'
  BY <1>1, <1>2, <1>3, <1>4 DEF TypeOK, CallerInv, Join
<1>7. SlotInv(s)'
  BY <1>1, <1>2, <1>3, <1>4 DEF TypeOK, CallerInv, Join, SlotInv, NoneInv, LaunchInv,
      ThreadInv, JoinInv, Confirming
<1>8. ASSUME NEW x \in Slots \ {s} PROVE SlotInv(x)'
  BY <1>1, <1>2, <1>3, <1>4, <1>8, SlotStays DEF TypeOK, CallerInv, Join
<1>9. TidInv'
  BY <1>1, <1>2, <1>3, <1>4 DEF TypeOK, TidInv, Known, Join, SlotInv, JoinInv
<1>10. touched' = {}
  BY <1>1, <1>2 DEF CallerInv, Join, SlotInv, NoneInv, LaunchInv, ThreadInv, JoinInv, Confirming
<1> QED BY <1>5, <1>6, <1>7, <1>8, <1>9, <1>10

LEMMA RemoveStep ==
  ASSUME IInv, DetachedSetup, NEW c \in Callers, Remove(c)
  PROVE  IInv'
<1> USE ConstAssumption DEF IInv
<1>1. PICK s \in Slots : s = cslot[c]
  BY DEF TypeOK
<1>2. /\ cpc[c] \in CallerPcs \ {"idle"} /\ Place(s) = cpc[c] /\ SlotInv(s)
  BY <1>1, PlaceOfCaller DEF TypeOK, CallerInv, Place, Remove
<1>3. PICK l \in CallerPcs :
        cpc' = [cpc EXCEPT ![c] = l] /\ cslot' = [cslot EXCEPT ![c] = s]
  BY <1>1, <1>2 DEF TypeOK, CallerPcs, Remove
<1>4. IF s \in stacks
      THEN /\ stacks' = stacks \ {s} /\ cvict' = [cvict EXCEPT ![c] = s]
           /\ cpc[c] = "remove" /\ l = "free"
      ELSE stacks' = stacks /\ cvict' = cvict /\ cpc[c] = "removefailed" /\ l = "freefailed"
  <2>1. s \in Known /\ stacks \subseteq Slots
    BY <1>1, <1>2 DEF Known, Remove, TypeOK
  <2>2. cpc[c] = "remove" <=> s \in stacks
    BY <1>1, <1>2 DEF SlotInv, JoinInv, Remove
  <2>3. Matches(tid[s]) = IF s \in stacks THEN {s} ELSE {}
    BY <2>1, RightEntry
  <2>4. l = cpc'[c]
    BY <1>3 DEF TypeOK
  <2>5. CASE s \in stacks
    <3>1. Matches(tid[s]) # {} /\ FirstMatch(tid[s]) = s /\ cpc[c] = "remove"
      BY <2>1, <2>2, <2>3, <2>5, RightEntry
    <3>2. /\ stacks' = stacks \ {s} /\ cvict' = [cvict EXCEPT ![c] = s]
          /\ cpc' = [cpc EXCEPT ![c] = "free"]
      BY <1>1, <3>1 DEF Remove
    <3> QED BY <2>4, <2>5, <3>1, <3>2 DEF TypeOK
  <2>6. CASE s \notin stacks
    <3>1. Matches(tid[s]) = {} /\ cpc[c] = "removefailed"
      BY <1>1, <2>2, <2>3, <2>6 DEF Remove
    <3>2. stacks' = stacks /\ cvict' = cvict /\ cpc' = [cpc EXCEPT ![c] = "freefailed"]
      BY <1>1, <3>1 DEF Remove
    <3> QED BY <2>4, <2>6, <3>1, <3>2 DEF TypeOK
  <2> QED BY <2>5, <2>6
<1>5. /\ Apart(cslot', cpc') /\ Place(s)' = l
      /\ \A x \in Slots \ {s} : Place(x)' = Place(x)
      /\ cpc' \in [Callers -> CallerPcs] /\ cslot' \in [Callers -> Slots]
  BY <1>1, <1>2, <1>3, CallerMoves DEF TypeOK, CallerInv
<1>6. TypeOK'
  BY <1>1, <1>2, <1>5, <1>4 DEF TypeOK, CallerInv, States, Remove
<1>7. CallerInv'
  BY <1>1, <1>2, <1>3, <1>5, <1>4 DEF TypeOK, CallerInv, Remove
<1>8. SlotInv(s)'
  BY <1>1, <1>2, <1>3, <1>5, <1>4 DEF TypeOK, CallerInv, Remove, SlotInv, NoneInv, LaunchInv,
      ThreadInv, JoinInv, Confirming
<1>9. ASSUME NEW x \in Slots \ {s} PROVE SlotInv(x)'
  BY <1>1, <1>2, <1>3, <1>5, <1>9, <1>4, SlotStays DEF TypeOK, CallerInv, Remove
<1>10. TidInv'
  BY <1>1, <1>2, <1>3, <1>5, <1>4 DEF TypeOK, TidInv, Known, Remove, SlotInv, JoinInv
<1>11. touched' = {}
  BY <1>1, <1>2 DEF CallerInv, Remove, SlotInv, NoneInv, LaunchInv, ThreadInv, JoinInv,
      Confirming
<1> QED BY <1>6, <1>7, <1>8, <1>9, <1>10, <1>11

LEMMA FreeRemovedStep ==
  ASSUME IInv, DetachedSetup, NEW c \in Callers, FreeRemoved(c)
  PROVE  IInv'
<1> USE ConstAssumption DEF IInv
<1>1. PICK s \in Slots : s = cslot[c]
  BY DEF TypeOK
<1>2. /\ cpc[c] \in CallerPcs \ {"idle"} /\ Place(s) = cpc[c] /\ SlotInv(s)
  BY <1>1, PlaceOfCaller DEF TypeOK, CallerInv, Place, FreeRemoved
<1>3. PICK l \in CallerPcs :
        cpc' = [cpc EXCEPT ![c] = l] /\ cslot' = [cslot EXCEPT ![c] = s]
  BY <1>1, <1>2 DEF TypeOK, CallerPcs, FreeRemoved
<1>4. /\ Apart(cslot', cpc') /\ Place(s)' = l
      /\ \A x \in Slots \ {s} : Place(x)' = Place(x)
      /\ cpc' \in [Callers -> CallerPcs] /\ cslot' \in [Callers -> Slots]
  BY <1>1, <1>2, <1>3, CallerMoves DEF TypeOK, CallerInv
<1>5. TypeOK'
  BY <1>1, <1>2, <1>4 DEF TypeOK, CallerInv, States, FreeRemoved, Touch, FreeWrapper
<1>6. CallerInv'
  BY <1>1, <1>2, <1>3, <1>4 DEF TypeOK, CallerInv, FreeRemoved, Touch, FreeWrapper
<1>7. SlotInv(s)'
  BY <1>1, <1>2, <1>3, <1>4 DEF TypeOK, CallerInv, FreeRemoved, Touch, FreeWrapper, SlotInv,
      NoneInv, LaunchInv, ThreadInv, JoinInv, Confirming
<1>8. ASSUME NEW x \in Slots \ {s} PROVE SlotInv(x)'
  BY <1>1, <1>2, <1>3, <1>4, <1>8, SlotStays
  DEF TypeOK, CallerInv, FreeRemoved, Touch, FreeWrapper
<1>9. TidInv'
  BY <1>1, <1>2, <1>3, <1>4 DEF TypeOK, TidInv, Known, FreeRemoved, Touch, FreeWrapper,
      SlotInv, JoinInv
<1>10. touched' = {}
  BY <1>1, <1>2 DEF CallerInv, FreeRemoved, Touch, FreeWrapper, SlotInv, NoneInv, LaunchInv,
      ThreadInv, JoinInv, Confirming
<1> QED BY <1>5, <1>6, <1>7, <1>8, <1>9, <1>10

LEMMA SetupSigstackStep ==
  ASSUME IInv, DetachedSetup, NEW s \in Slots, SetupSigstack(s)
  PROVE  IInv'
<1> USE ConstAssumption DEF IInv
<1>1. SlotInv(s)
  OBVIOUS
<1>2. CallerInv' /\ \A x \in Slots : Place(x)' = Place(x)
  BY DEF CallerInv, Place, SetupSigstack
<1>3. TypeOK'
  BY <1>1 DEF TypeOK, States, ThreadPcs, SetupSigstack, Touch
<1>4. SlotInv(s)'
  BY <1>1, <1>2 DEF TypeOK, SetupSigstack, Touch, SlotInv, NoneInv, LaunchInv, ThreadInv,
      JoinInv, Confirming, DetachedSetup, Kinds
<1>5. ASSUME NEW x \in Slots \ {s} PROVE SlotInv(x)'
  BY <1>2, <1>5, SlotStays DEF TypeOK, SetupSigstack, Touch
<1>6. TidInv'
  BY <1>1, <1>2 DEF TypeOK, TidInv, Known, SetupSigstack, Touch, SlotInv, ThreadInv
<1>7. touched' = {}
  BY <1>1 DEF SetupSigstack, Touch, SlotInv, ThreadInv
<1> QED BY <1>2, <1>3, <1>4, <1>5, <1>6, <1>7

LEMMA SetupSigstackFailsStep ==
  ASSUME IInv, DetachedSetup, NEW s \in Slots, SetupSigstackFails(s)
  PROVE  IInv'
<1> USE ConstAssumption DEF IInv
<1>1. SlotInv(s)
  OBVIOUS
<1>2. CallerInv' /\ \A x \in Slots : Place(x)' = Place(x)
  BY DEF CallerInv, Place, SetupSigstackFails
<1>3. TypeOK'
  BY <1>1 DEF TypeOK, States, ThreadPcs, SetupSigstackFails, Touch
<1>4. SlotInv(s)'
  BY <1>1, <1>2 DEF TypeOK, SetupSigstackFails, Touch, SlotInv, NoneInv, LaunchInv, ThreadInv,
      JoinInv, Confirming, DetachedSetup, Kinds
<1>5. ASSUME NEW x \in Slots \ {s} PROVE SlotInv(x)'
  BY <1>2, <1>5, SlotStays DEF TypeOK, SetupSigstackFails, Touch
<1>6. TidInv'
  BY <1>1, <1>2 DEF TypeOK, TidInv, Known, SetupSigstackFails, Touch, SlotInv, ThreadInv
<1>7. touched' = {}
  BY <1>1 DEF SetupSigstackFails, Touch, SlotInv, ThreadInv
<1> QED BY <1>2, <1>3, <1>4, <1>5, <1>6, <1>7

LEMMA ReportStep ==
  ASSUME IInv, DetachedSetup, NEW s \in Slots, Report(s)
  PROVE  IInv'
<1> USE ConstAssumption DEF IInv
<1>1. SlotInv(s)
  OBVIOUS
<1>2. CallerInv' /\ \A x \in Slots : Place(x)' = Place(x)
  BY DEF CallerInv, Place, Report
<1>3. TypeOK'
  BY <1>1 DEF TypeOK, States, ThreadPcs, Report, Touch, Signal
<1>4. SlotInv(s)'
  BY <1>1, <1>2 DEF TypeOK, Report, Touch, Signal, SlotInv, NoneInv, LaunchInv, ThreadInv,
      JoinInv, Confirming, DetachedSetup, Kinds
<1>5. ASSUME NEW x \in Slots \ {s} PROVE SlotInv(x)'
  BY <1>2, <1>5, SlotStays DEF TypeOK, Report, Touch, Signal
<1>6. TidInv'
  BY <1>1, <1>2 DEF TypeOK, TidInv, Known, Report, Touch, Signal, SlotInv, ThreadInv
<1>7. touched' = {}
  BY <1>1 DEF Report, Touch, Signal, SlotInv, ThreadInv
<1> QED BY <1>2, <1>3, <1>4, <1>5, <1>6, <1>7

LEMMA TfxnReturnsStep ==
  ASSUME IInv, DetachedSetup, NEW s \in Slots, TfxnReturns(s)
  PROVE  IInv'
<1> USE ConstAssumption DEF IInv
<1>1. SlotInv(s)
  OBVIOUS
<1>2. CallerInv' /\ \A x \in Slots : Place(x)' = Place(x)
  BY DEF CallerInv, Place, TfxnReturns
<1>3. TypeOK'
  BY <1>1 DEF TypeOK, States, ThreadPcs, TfxnReturns
<1>4. SlotInv(s)'
  BY <1>1, <1>2 DEF TypeOK, TfxnReturns, SlotInv, NoneInv, LaunchInv, ThreadInv, JoinInv,
      Confirming, DetachedSetup, Kinds
<1>5. ASSUME NEW x \in Slots \ {s} PROVE SlotInv(x)'
  BY <1>2, <1>5, SlotStays DEF TypeOK, TfxnReturns
<1>6. TidInv'
  BY <1>1, <1>2 DEF TypeOK, TidInv, Known, TfxnReturns, SlotInv, ThreadInv
<1>7. touched' = {}
  BY <1>1 DEF TfxnReturns, SlotInv, ThreadInv
<1> QED BY <1>2, <1>3, <1>4, <1>5, <1>6, <1>7

LEMMA CancelledStep ==
  ASSUME IInv, DetachedSetup, NEW s \in Slots, Cancelled(s)
  PROVE  IInv'
<1> USE ConstAssumption DEF IInv
<1>1. SlotInv(s)
  OBVIOUS
<1>2. CallerInv' /\ \A x \in Slots : Place(x)' = Place(x)
  BY DEF CallerInv, Place, Cancelled
<1>3. TypeOK'
  BY <1>1 DEF TypeOK, States, ThreadPcs, Cancelled
<1>4. SlotInv(s)'
  BY <1>1, <1>2 DEF TypeOK, Cancelled, SlotInv, NoneInv, LaunchInv, ThreadInv, JoinInv,
      Confirming, DetachedSetup, Kinds
<1>5. ASSUME NEW x \in Slots \ {s} PROVE SlotInv(x)'
  BY <1>2, <1>5, SlotStays DEF TypeOK, Cancelled
<1>6. TidInv'
  BY <1>1, <1>2 DEF TypeOK, TidInv, Known, Cancelled, SlotInv, ThreadInv
<1>7. touched' = {}
  BY <1>1 DEF Cancelled, SlotInv, ThreadInv
<1> QED BY <1>2, <1>3, <1>4, <1>5, <1>6, <1>7

LEMMA ExitWaitStep ==
  ASSUME IInv, DetachedSetup, NEW s \in Slots, ExitWait(s)
  PROVE  IInv'
<1> USE ConstAssumption DEF IInv
<1>1. SlotInv(s)
  OBVIOUS
<1>2. CallerInv' /\ \A x \in Slots : Place(x)' = Place(x)
  BY DEF CallerInv, Place, ExitWait
<1>3. TypeOK'
  BY <1>1 DEF TypeOK, States, ThreadPcs, ExitWait, Touch
<1>4. SlotInv(s)'
  BY <1>1, <1>2 DEF TypeOK, ExitWait, Touch, SlotInv, NoneInv, LaunchInv, ThreadInv, JoinInv,
      Confirming, DetachedSetup, Kinds
<1>5. ASSUME NEW x \in Slots \ {s} PROVE SlotInv(x)'
  BY <1>2, <1>5, SlotStays DEF TypeOK, ExitWait, Touch
<1>6. TidInv'
  BY <1>1, <1>2 DEF TypeOK, TidInv, Known, ExitWait, Touch, SlotInv, ThreadInv
<1>7. touched' = {}
  BY <1>1 DEF ExitWait, Touch, SlotInv, ThreadInv
<1> QED BY <1>2, <1>3, <1>4, <1>5, <1>6, <1>7

LEMMA ExitConfirmedStep ==
  ASSUME IInv, DetachedSetup, NEW s \in Slots, ExitConfirmed(s)
  PROVE  IInv'
<1> USE ConstAssumption DEF IInv
<1>1. SlotInv(s)
  OBVIOUS
<1>2. CallerInv' /\ \A x \in Slots : Place(x)' = Place(x)
  BY DEF CallerInv, Place, ExitConfirmed
<1>3. TypeOK'
  BY <1>1 DEF TypeOK, States, ThreadPcs, ExitConfirmed, Touch
<1>4. SlotInv(s)'
  BY <1>1, <1>2 DEF TypeOK, ExitConfirmed, Touch, SlotInv, NoneInv, LaunchInv, ThreadInv,
      JoinInv, Confirming, DetachedSetup, Kinds
<1>5. ASSUME NEW x \in Slots \ {s} PROVE SlotInv(x)'
  BY <1>2, <1>5, SlotStays DEF TypeOK, ExitConfirmed, Touch
<1>6. TidInv'
  BY <1>1, <1>2 DEF TypeOK, TidInv, Known, ExitConfirmed, Touch, SlotInv, ThreadInv
<1>7. touched' = {}
  BY <1>1 DEF ExitConfirmed, Touch, SlotInv, ThreadInv
<1> QED BY <1>2, <1>3, <1>4, <1>5, <1>6, <1>7

LEMMA RemoveSelfStep ==
  ASSUME IInv, DetachedSetup, NEW s \in Slots, RemoveSelf(s)
  PROVE  IInv'
<1> USE ConstAssumption DEF IInv
<1>1. SlotInv(s)
  OBVIOUS
<1>2. s \in stacks /\ stacks' = stacks \ {s} /\ tvict' = [tvict EXCEPT ![s] = s]
  <2>1. s \in stacks /\ s \in Known /\ stacks \subseteq Slots
    BY <1>1 DEF Known, RemoveSelf, TypeOK, SlotInv, ThreadInv
  <2> QED BY <2>1, RightEntry DEF RemoveSelf
<1>3. CallerInv' /\ \A x \in Slots : Place(x)' = Place(x)
  BY DEF CallerInv, Place, RemoveSelf
<1>4. TypeOK'
  BY <1>1, <1>2 DEF TypeOK, States, ThreadPcs, RemoveSelf, Touch
<1>5. SlotInv(s)'
  BY <1>1, <1>3, <1>2 DEF TypeOK, RemoveSelf, Touch, SlotInv, NoneInv, LaunchInv, ThreadInv,
      JoinInv, Confirming, DetachedSetup, Kinds
<1>6. ASSUME NEW x \in Slots \ {s} PROVE SlotInv(x)'
  BY <1>3, <1>6, <1>2, SlotStays DEF TypeOK, RemoveSelf, Touch
<1>7. TidInv'
  BY <1>1, <1>3, <1>2 DEF TypeOK, TidInv, Known, RemoveSelf, Touch, SlotInv, ThreadInv
<1>8. touched' = {}
  BY <1>1, <1>2 DEF RemoveSelf, Touch, SlotInv, ThreadInv
<1> QED BY <1>3, <1>4, <1>5, <1>6, <1>7, <1>8

LEMMA FreeSelfStep ==
  ASSUME IInv, DetachedSetup, NEW s \in Slots, FreeSelf(s)
  PROVE  IInv'
<1> USE ConstAssumption DEF IInv
<1>1. SlotInv(s)
  OBVIOUS
<1>2. tvict[s] = s
  BY <1>1 DEF SlotInv, ThreadInv, FreeSelf
<1>3. CallerInv' /\ \A x \in Slots : Place(x)' = Place(x)
  BY DEF CallerInv, Place, FreeSelf
<1>4. TypeOK'
  BY <1>1, <1>2 DEF TypeOK, States, ThreadPcs, FreeSelf, Touch, FreeWrapper
<1>5. SlotInv(s)'
  BY <1>1, <1>3, <1>2 DEF TypeOK, FreeSelf, Touch, FreeWrapper, SlotInv, NoneInv, LaunchInv,
      ThreadInv, JoinInv, Confirming, DetachedSetup, Kinds
<1>6. ASSUME NEW x \in Slots \ {s} PROVE SlotInv(x)'
  BY <1>3, <1>6, <1>2, SlotStays DEF TypeOK, FreeSelf, Touch, FreeWrapper
<1>7. TidInv'
  BY <1>1, <1>3, <1>2 DEF TypeOK, TidInv, Known, FreeSelf, Touch, FreeWrapper, SlotInv,
      ThreadInv
<1>8. touched' = {}
  BY <1>1, <1>2 DEF FreeSelf, Touch, FreeWrapper, SlotInv, ThreadInv
<1> QED BY <1>3, <1>4, <1>5, <1>6, <1>7, <1>8

LEMMA SpuriousWakeupStep ==
  ASSUME IInv, DetachedSetup, NEW s \in Slots, SpuriousWakeup(s)
  PROVE  IInv'
<1> USE ConstAssumption DEF IInv
<1>1. SlotInv(s)
  OBVIOUS
<1>2. CallerInv' /\ \A x \in Slots : Place(x)' = Place(x)
  BY DEF CallerInv, Place, SpuriousWakeup
<1>3. TypeOK'
  BY <1>1 DEF TypeOK, States, ThreadPcs, SpuriousWakeup
<1>4. SlotInv(s)'
  BY <1>1, <1>2 DEF TypeOK, SpuriousWakeup, SlotInv, NoneInv, LaunchInv, ThreadInv, JoinInv,
      Confirming, DetachedSetup, Kinds
<1>5. ASSUME NEW x \in Slots \ {s} PROVE SlotInv(x)'
  BY <1>2, <1>5, SlotStays DEF TypeOK, SpuriousWakeup
<1>6. TidInv'
  BY <1>1, <1>2 DEF TypeOK, TidInv, Known, SpuriousWakeup, SlotInv, ThreadInv
<1>7. touched' = {}
  BY <1>1 DEF SpuriousWakeup, SlotInv, ThreadInv
<1> QED BY <1>2, <1>3, <1>4, <1>5, <1>6, <1>7

LEMMA BeginReapStep ==
  ASSUME IInv, NEW c \in Callers, NEW s \in held, BeginReap(c, s)
  PROVE  IInv'
<1> USE ConstAssumption DEF IInv
<1>1. s \in Slots /\ SlotInv(s) /\ cpc[c] = "idle" /\ Place(s) = "idle"
  BY DEF TypeOK, SlotInv, JoinInv, BeginReap
<1>2. /\ Apart(cslot', cpc') /\ Place(s)' = "join"
      /\ \A x \in Slots \ {s} : Place(x)' = Place(x)
      /\ cpc' \in [Callers -> CallerPcs] /\ cslot' \in [Callers -> Slots]
  <2>1. "join" \in CallerPcs
    BY DEF CallerPcs
  <2> QED BY <1>1, <2>1, CallerMoves DEF TypeOK, CallerInv, BeginReap
<1>3. TypeOK'
  BY <1>1, <1>2 DEF TypeOK, BeginReap
<1>4. CallerInv'
  BY <1>1, <1>2 DEF TypeOK, CallerInv, BeginReap
<1>5. SlotInv(s)'
  BY <1>1, <1>2 DEF TypeOK, BeginReap, SlotInv, NoneInv, LaunchInv, ThreadInv, JoinInv,
      Confirming
<1>6. ASSUME NEW x \in Slots \ {s} PROVE SlotInv(x)'
  BY <1>1, <1>2, <1>6, SlotStays DEF TypeOK, BeginReap
<1>7. TidInv'
  BY <1>1, <1>2 DEF TypeOK, TidInv, Known, BeginReap
<1>8. touched' = {}
  BY DEF BeginReap
<1> QED BY <1>3, <1>4, <1>5, <1>6, <1>7, <1>8

\* A slot that was not handed out
LEMMA NextSlot ==
  ASSUME IInv, launched < MaxLaunch
  PROVE  /\ launched + 1 \in Slots /\ launched + 1 \in 0..MaxLaunch
         /\ NoneInv(launched + 1) /\ SlotInv(launched + 1)
         /\ tpc[launched + 1] = "none" /\ state[launched + 1] = "CREATED"
<1>1. launched + 1 \in Slots /\ launched + 1 > launched /\ launched + 1 \in 0..MaxLaunch
  BY ConstAssumption DEF IInv, TypeOK, Slots
<1> QED BY <1>1 DEF IInv, SlotInv, NoneInv

LEMMA NewFailsStep ==
  ASSUME IInv, NEW c \in Callers, NEW k \in Kinds, NewFailsEarly(c) \/ NewFailsCreate(c, k)
  PROVE  IInv'
<1> USE ConstAssumption DEF IInv
<1>1. PICK s \in Slots : s = launched + 1
  BY NextSlot DEF NewFailsEarly, NewFailsCreate
<1>2. /\ s \in 0..MaxLaunch /\ SlotInv(s) /\ tpc[s] = "none" /\ state[s] = "CREATED"
      /\ launched' = s
  BY <1>1, NextSlot DEF NewFailsEarly, NewFailsCreate
<1>3. UNCHANGED <<state, waiters, tpc, tid, bound, stacks, cancel, held, cpc, cslot,
                  tvict, cvict, touched>>
  BY DEF NewFailsEarly, NewFailsCreate
<1>4. \/ UNCHANGED <<kind, sw>>
      \/ kind' = [kind EXCEPT ![s] = k] /\ sw' = [sw EXCEPT ![s] = "freed"]
  BY <1>1 DEF NewFailsEarly, NewFailsCreate
<1>5. TypeOK'
  BY <1>2, <1>3, <1>4 DEF TypeOK
<1>6. CallerInv' /\ \A x \in Slots : Place(x)' = Place(x)
  BY <1>3 DEF CallerInv, Place
<1>7. SlotInv(s)'
  BY <1>2, <1>3, <1>4, <1>6
  DEF TypeOK, SlotInv, NoneInv, LaunchInv, ThreadInv, JoinInv, Confirming
<1>8. ASSUME NEW x \in Slots \ {s} PROVE SlotInv(x)'
  <2>1. x > s => x > launched
    BY <1>1, <1>8 DEF Slots, TypeOK
  <2> QED BY <1>2, <1>3, <1>4, <1>6, <1>8, <2>1, SlotStays DEF TypeOK
<1>9. TidInv'
  BY <1>3, <1>6 DEF TypeOK, TidInv, Known
<1> QED BY <1>3, <1>5, <1>6, <1>7, <1>8, <1>9

LEMMA NewStep ==
  ASSUME IInv, NoReuse', NEW c \in Callers, NEW k \in Kinds, NEW t \in Tids, New(c, k, t)
  PROVE  IInv'
<1> USE ConstAssumption DEF IInv
<1>1. PICK s \in Slots : s = launched + 1
  BY NextSlot DEF New
<1>2. /\ s \in 0..MaxLaunch /\ SlotInv(s) /\ tpc[s] = "none" /\ state[s] = "CREATED"
      /\ launched' = s /\ Place(s) = "idle" /\ s \notin bound \cup stacks
  BY <1>1, NextSlot DEF New, NoneInv
<1>3. /\ Apart(cslot', cpc') /\ Place(s)' = "confirm"
      /\ \A x \in Slots \ {s} : Place(x)' = Place(x)
      /\ cpc' \in [Callers -> CallerPcs] /\ cslot' \in [Callers -> Slots]
  <2>1. "confirm" \in CallerPcs
    BY DEF CallerPcs
  <2> QED BY <1>1, <1>2, <2>1, CallerMoves DEF TypeOK, CallerInv, New
<1>4. TypeOK'
  BY <1>1, <1>2, <1>3 DEF TypeOK, New, ThreadPcs
<1>5. CallerInv'
  BY <1>1, <1>2, <1>3 DEF TypeOK, CallerInv, New
<1>6. SlotInv(s)'
  BY <1>1, <1>2, <1>3 DEF TypeOK, New, SlotInv, NoneInv, LaunchInv, ThreadInv, JoinInv,
      Confirming
<1>7. ASSUME NEW x \in Slots \ {s} PROVE SlotInv(x)'
  <2>1. x > s => x > launched
    BY <1>1, <1>7 DEF Slots, TypeOK
  <2> QED BY <1>1, <1>2, <1>3, <1>7, <2>1, SlotStays DEF TypeOK, New
<1>8. TidInv'
  <2>1. Known' = Known \cup {s}
    BY <1>1, <1>2, <1>3 DEF Known, New
  <2>2. ASSUME NEW x \in Known PROVE x # s /\ tid'[x] = tid[x] /\ tid[x] # t
    <3>1. x \in Slots /\ x # s
      BY <1>2, <2>2 DEF Known, TypeOK
    <3>2. tid'[x] = tid[x]
      BY <1>1, <3>1 DEF New, TypeOK
    <3>3. CASE x \in bound
      BY <3>1, <3>2, <3>3 DEF New, TakenTids
    <3>4. CASE Place(x) \in {"remove", "removefailed"}
      <4>1. PlaceIn(cslot', cpc', x) \in {"remove", "removefailed"}
        BY <1>3, <3>1, <3>4 DEF Place
      <4>2. PICK d \in Callers : cslot'[d] = x /\ cpc'[d] = PlaceIn(cslot', cpc', x)
        BY <4>1, CallerOfPlace
      <4>3. tid'[x] \notin {tid'[y] : y \in bound'}
        BY <4>1, <4>2 DEF NoReuse, TakenTids
      <4>4. s \in bound' /\ tid'[s] = t
        BY <1>1 DEF New, TypeOK
      <4> QED BY <3>1, <3>2, <4>3, <4>4
    <3> QED BY <2>2, <3>1, <3>2, <3>3, <3>4 DEF Known
  <2>3. tid'[s] = t /\ stacks' = stacks
    BY <1>1 DEF New, TypeOK
  <2> QED BY <2>1, <2>2, <2>3 DEF TidInv
<1>9. touched' = {}
  BY DEF New
<1> QED BY <1>4, <1>5, <1>6, <1>7, <1>8, <1>9

-----------------------------------------------------------------------------

LEMMA InitIInv == Init => IInv
<1> SUFFICES ASSUME Init PROVE IInv
  OBVIOUS
<1> USE ConstAssumption DEF Init
<1>1. TypeOK
  BY DEF TypeOK, Slots, Kinds, States, ThreadPcs, CallerPcs
<1>2. \A s : Place(s) = "idle"
  BY NoCaller DEF Place
<1>3. ASSUME NEW s \in Slots PROVE SlotInv(s)
  BY <1>2, <1>3 DEF SlotInv, NoneInv, LaunchInv, ThreadInv, JoinInv, Confirming
<1>4. CallerInv /\ TidInv
  BY <1>2 DEF CallerInv, Apart, TidInv, Known
<1> QED BY <1>1, <1>3, <1>4 DEF IInv

LEMMA StutterIInv == IInv /\ UNCHANGED vars => IInv'
<1> SUFFICES ASSUME IInv, UNCHANGED vars PROVE IInv'
  OBVIOUS
<1> USE DEF IInv, vars
<1>1. TypeOK'
  BY DEF TypeOK
<1>2. CallerInv' /\ \A x \in Slots : Place(x)' = Place(x)
  BY DEF CallerInv, Place
<1>3. ASSUME NEW x \in Slots PROVE SlotInv(x)'
  BY <1>2, <1>3, SlotStays
<1>4. TidInv'
  BY <1>2 DEF TidInv, Known
<1> QED BY <1>1, <1>2, <1>3, <1>4

LEMMA NextIInv ==
  ASSUME DetachedSetup, IInv, NoReuse', [Next]_vars
  PROVE  IInv'
<1>1. CASE UNCHANGED vars
  BY <1>1, StutterIInv
<1>2. ASSUME NEW c \in Callers, CallerStep(c) PROVE IInv'
  <2>1. "joinable" \in Kinds
    BY DEF Kinds
  <2> QED BY <1>2, <2>1, NewFailsStep, NewStep, ConfirmWaitStep, ConfirmStep, FreeFailedStep,
             BeginReapStep, JoinStep, RemoveStep, FreeRemovedStep DEF CallerStep
<1>3. ASSUME NEW s \in Slots, ThreadStep(s) \/ SpuriousWakeup(s) PROVE IInv'
  BY <1>3, SetupSigstackStep, SetupSigstackFailsStep, ReportStep, TfxnReturnsStep, CancelledStep,
     ExitWaitStep, ExitConfirmedStep, RemoveSelfStep, FreeSelfStep, SpuriousWakeupStep
  DEF ThreadStep
<1> QED BY <1>1, <1>2, <1>3 DEF Next

LEMMA SpecIInv == ASSUME DetachedSetup PROVE Spec /\ []NoReuse => []IInv
<1>1. IInv /\ NoReuse' /\ [Next]_vars => IInv'
  BY NextIInv
<1> QED BY InitIInv, <1>1, PTL DEF Spec

\* What the runs check of a state
Safe == TypeOK /\ NoUseAfterFree /\ EntriesLeadToLiveWrappers /\ NothingLeaks

LEMMA IInvSafe == IInv => Safe
<1> SUFFICES ASSUME IInv PROVE Safe
  OBVIOUS
<1> USE DEF IInv
<1>1. EntriesLeadToLiveWrappers
  <2>1. ASSUME NEW s \in stacks PROVE sw[s] = "live"
    <3>1. s \in Slots /\ SlotInv(s) /\ (s \in bound \/ Place(s) \in {"remove", "removefailed"})
      BY <2>1 DEF TidInv, Known, TypeOK
    <3>2. kind[s] \in {"joinable", "detached"}
      BY <3>1 DEF TypeOK, Kinds
    <3>3. Place(s) \in CallerPcs
      BY CallerOfPlace DEF Place, TypeOK, CallerPcs
    <3>4. CASE tpc[s] # "gone" \/ kind[s] = "detached"
      BY <2>1, <3>1, <3>4 DEF SlotInv, NoneInv, ThreadInv
    <3>5. CASE tpc[s] = "gone" /\ kind[s] = "joinable"
      BY <2>1, <3>1, <3>3, <3>5 DEF SlotInv, LaunchInv, JoinInv, Confirming, CallerPcs
    <3> QED BY <3>2, <3>4, <3>5
  <2> QED BY <2>1 DEF EntriesLeadToLiveWrappers
<1>2. NothingLeaks
  <2>1. ASSUME NEW s \in Slots, tpc[s] = "gone", s \notin held,
               \A c \in Callers : cslot[c] = s => cpc[c] = "idle"
        PROVE  sw[s] = "freed" /\ s \notin stacks
    <3>1. Place(s) = "idle"
      BY <2>1, NoCaller DEF Place
    <3>2. kind[s] \in {"joinable", "detached"}
      BY <2>1 DEF TypeOK, Kinds
    <3>3. SlotInv(s)
      BY <2>1
    <3> QED BY <2>1, <3>1, <3>2, <3>3 DEF SlotInv, ThreadInv, JoinInv
  <2> QED BY <2>1 DEF NothingLeaks
<1> QED BY <1>1, <1>2 DEF Safe, NoUseAfterFree

\* With one caller nobody takes a pthread_t between its two steps.
LEMMA OneCallerNoReuse ==
  ASSUME OneCaller, IInv, NoReuse, [Next]_vars
  PROVE  NoReuse'
<1> USE DEF IInv
<1>1. SUFFICES ASSUME NEW c \in Callers, cpc'[c] \in {"remove", "removefailed"}
               PROVE  tid'[cslot'[c]] \notin {tid'[x] : x \in bound'}
  BY DEF NoReuse, TakenTids
<1>2. CASE Join(c)
  <2>1. PICK s \in Slots : s = cslot[c]
    BY DEF TypeOK
  <2>2. Place(s) = cpc[c] /\ SlotInv(s) /\ cpc[c] \in {"join", "joinfailed"}
    BY <1>2, <2>1, PlaceOfCaller DEF Place, CallerInv, Join
  <2>3. s \in bound
    BY <2>2 DEF SlotInv, JoinInv
  <2>4. \A x \in bound \ {s} : tid[x] # tid[s]
    BY <2>3 DEF TidInv, Known
  <2> QED BY <1>2, <2>1, <2>4 DEF Join
<1>3. CASE /\ cpc[c] \in {"remove", "removefailed"}
            /\ UNCHANGED <<tid, cslot>> /\ bound' \subseteq bound
  BY <1>1, <1>3 DEF NoReuse, TakenTids
<1>4. CASE UNCHANGED vars
  BY <1>1, <1>3, <1>4 DEF vars
<1>5. ASSUME NEW d \in Callers, CallerStep(d)
      PROVE  tid'[cslot'[c]] \notin {tid'[x] : x \in bound'}
  <2>1. d = c
    BY DEF OneCaller
  <2>2. CASE NewFailsEarly(d) \/ \E k \in Kinds : NewFailsCreate(d, k)
    BY <1>1, <1>3, <2>2 DEF NewFailsEarly, NewFailsCreate
  <2>3. ~(\E k \in Kinds, t \in Tids : New(d, k, t))
    BY <1>1, <2>1 DEF New, TypeOK
  <2>4. ~ConfirmWait(d) /\ ~FreeFailed(d) /\ ~(\E s \in held : BeginReap(d, s))
    BY <1>1, <2>1 DEF ConfirmWait, FreeFailed, BeginReap, TypeOK
  <2>5. ~Confirm(d) /\ ~Remove(d) /\ ~FreeRemoved(d)
    BY <1>1, <2>1 DEF Confirm, Remove, FreeRemoved, TypeOK
  <2>6. CASE Join(d)
    BY <1>2, <2>1, <2>6 DEF Join
  <2> QED BY <1>5, <2>2, <2>3, <2>4, <2>5, <2>6 DEF CallerStep
<1>6. ASSUME NEW s \in Slots, ThreadStep(s) \/ SpuriousWakeup(s)
      PROVE  tid'[cslot'[c]] \notin {tid'[x] : x \in bound'}
  <2>1. UNCHANGED <<tid, cpc, cslot>> /\ bound' \subseteq bound
    BY <1>6 DEF ThreadStep, SetupSigstack, SetupSigstackFails, Report, TfxnReturns, Cancelled,
       ExitWait, ExitConfirmed, RemoveSelf, FreeSelf, SpuriousWakeup
  <2> QED BY <1>1, <1>3, <2>1
<1> QED BY <1>4, <1>5, <1>6 DEF Next

\* new_traceable_*(), the threads and their collection release every wrapper once
\* and leave none behind, whoever runs first, as long as no pthread_t is reused
\* between pthread_join() and remove_thread_stack().
THEOREM NoReuseSafe == ASSUME DetachedSetup PROVE Spec /\ []NoReuse => []Safe
BY SpecIInv, IInvSafe, PTL

LEMMA InitNoReuse == Init => NoReuse
BY DEF Init, NoReuse

\* Which it never is when one thread launches and collects the others.
LEMMA OneCallerIInv ==
  ASSUME DetachedSetup, OneCaller
  PROVE  Spec => [](IInv /\ NoReuse)
<1>1. (IInv /\ NoReuse) /\ [Next]_vars => (IInv /\ NoReuse)'
  BY OneCallerNoReuse, NextIInv
<1> QED BY InitIInv, InitNoReuse, <1>1, PTL DEF Spec

\* Every variable keeps to its values.
THEOREM TypeCorrect == ASSUME DetachedSetup, OneCaller PROVE Spec => []TypeOK
BY OneCallerIInv, IInvSafe, PTL DEF Safe

\* No stack_wrapper is used or released after its release.
THEOREM WrappersCorrect == ASSUME DetachedSetup, OneCaller PROVE Spec => []NoUseAfterFree
BY OneCallerIInv, IInvSafe, PTL DEF Safe

\* Entries of thread_stacks lead to wrappers that are there, whenever a fault
\* handler walks the list.
THEOREM EntriesCorrect ==
  ASSUME DetachedSetup, OneCaller
  PROVE  Spec => []EntriesLeadToLiveWrappers
BY OneCallerIInv, IInvSafe, PTL DEF Safe

\* Threads that have ended and were collected leave neither wrapper nor entry.
THEOREM LeaksCorrect == ASSUME DetachedSetup, OneCaller PROVE Spec => []NothingLeaks
BY OneCallerIInv, IInvSafe, PTL DEF Safe
================================================================================
