----------------------------- MODULE EvCore_proofs -----------------------------
(***************************************************************************)
(* Proofs about EvCore, for any number of event threads, descriptors and    *)
(* registrations.  Nothing is asked of the scheduling: fairness plays no     *)
(* part in what is shown here.                                              *)
(***************************************************************************)
EXTENDS EvCore, FiniteSetTheorems, TLAPS

Regs == Nat \cup {None}
AddPcs == {"idle", "lock", "queue", "flush", "register", "reap"}
ThreadPcs == {"none", "wait", "handle", "callback", "demux"}
Reports == [fd : Fds, reg : Nat]
Events == [fd : Fds, reg : Nat, cb : Regs]
Targets == Fds \cup Threads \cup {None}
Batches == Seq(Reports)
Happenings == Events \cup {None}
ThreadRecs == [pc : ThreadPcs, batch : Batches, event : Happenings, eintr : BOOLEAN]

TypeOK ==
  /\ state \in {"none", "live", "dying", "gone"}
  /\ lock \in Actors \cup {None}
  /\ externalvec \in Seq(Fds)
  /\ fdarray \in [Fds -> Regs] /\ open \in [Fds -> Regs] /\ interest \in [Fds -> Regs]
  /\ threadlist \subseteq Threads
  /\ adding \in [Actors -> [fd : Targets, pc : AddPcs]]
  /\ regs \in Nat
  /\ ready \subseteq Fds /\ data \subseteq Fds
  /\ thread \in [Threads -> ThreadRecs]
  /\ missed \in BOOLEAN

Registering(a) == adding[a].pc \in {"lock", "queue", "flush"}

\* One registration at a time gets past the lock, and the vector is its own.
LockInv ==
  /\ lock = None => externalvec = <<>>
  /\ lock # None => adding[lock].pc \in {"queue", "flush"}
  /\ \A a \in Actors :
       /\ adding[a].pc \in {"queue", "flush"} => lock = a
       /\ adding[a].pc = "queue" => externalvec = <<>>
       /\ adding[a].pc = "flush" => externalvec = <<adding[a].fd>>

\* A descriptor that is being registered is open, and known to its actor only
\* until it is in the interest list; its callback is there before.
AddInv ==
  /\ \A a \in Actors : Registering(a) => adding[a].fd \in Fds /\ open[adding[a].fd] # None
  /\ \A a, b \in Actors : Registering(a) /\ Registering(b) /\ adding[a].fd = adding[b].fd => a = b
  /\ \A a \in Actors : adding[a].pc = "flush" => fdarray[adding[a].fd] = open[adding[a].fd]
  /\ \A a \in Actors : adding[a].pc \in {"lock", "queue"} => interest[adding[a].fd] = None
  /\ \A a \in Actors : adding[a].pc = "idle" => adding[a] = Idle
  /\ \A t \in Threads : adding[t] # Idle => Registering(t) /\ thread[t].pc = "callback"

\* The interest list holds what is open and has its callback
FdInv ==
  /\ \A f \in Fds : interest[f] # None => interest[f] = open[f] /\ fdarray[f] = open[f]
  /\ \A f \in Fds : open[f] # None => open[f] <= regs
  /\ \A f \in ready : interest[f] # None

\* Every thread that runs is in the list or about to be put there
OwnerInv ==
  /\ adding[Owner].pc \in {"register", "reap"} => adding[Owner].fd \in Threads
  /\ adding[Owner].pc = "register" => state = "live" /\ thread[adding[Owner].fd].pc # "none"
  /\ adding[Owner].pc = "reap" => state = "dying" /\ adding[Owner].fd \in threadlist
  /\ Registering(Owner) => state = "live"
  /\ \A t \in Threads :
       /\ thread[t].pc # "none" =>
            t \in threadlist \/ adding[Owner] = [fd |-> t, pc |-> "register"]
       /\ t \in threadlist => thread[t].pc # "none"
       /\ state \in {"none", "gone"} => thread[t].pc = "none"

\* What was reported has a callback, its own unless it was closed since
Meets(e) == /\ e.reg <= regs /\ fdarray[e.fd] # None
            /\ open[e.fd] = e.reg => fdarray[e.fd] = e.reg

BatchInv(t) ==
  /\ thread[t].pc \in {"none", "wait"} => thread[t].batch = <<>>
  /\ \A k \in DOMAIN thread[t].batch : Meets(thread[t].batch[k])

\* An event in hand was met by the callback it was for, unless it was closed since
EventInv(t) ==
  LET e == thread[t].event
  IN thread[t].pc \in {"callback", "demux"} =>
       /\ e \in Events /\ e.reg <= regs
       /\ open[e.fd] = e.reg => e.cb = e.reg

IInv ==
  /\ TypeOK /\ LockInv /\ AddInv /\ FdInv /\ OwnerInv
  /\ \A t \in Threads : BatchInv(t) /\ EventInv(t)
  /\ ~missed

\* Where the parts of a record come from
LEMMA Members ==
  /\ Fds \subseteq Targets /\ Threads \subseteq Targets /\ None \in Targets
  /\ <<>> \in Batches
  /\ None \in Happenings /\ Events \subseteq Happenings
BY DEF Targets, Batches, Happenings

LEMMA RecordsStay ==
  ASSUME NEW r \in ThreadRecs, NEW p \in ThreadPcs, NEW v \in Happenings, NEW e \in BOOLEAN
  PROVE  /\ [r EXCEPT !.pc = p, !.event = v] \in ThreadRecs
         /\ [r EXCEPT !.pc = p, !.eintr = e] \in ThreadRecs
BY DEF ThreadRecs

-------------------------------------------------------------------------------
(* What the threads have in hand while others work.                         *)

\* A descriptor keeps its registration, is closed, or is opened anew, and its
\* callback stays or becomes that of its registration.
FdsMoveOn ==
  /\ regs' \in Nat /\ regs <= regs'
  /\ \A f \in Fds : open'[f] \in {open[f], None} \/ (open'[f] \in Nat /\ open'[f] > regs)
  /\ \A f \in Fds : \/ fdarray'[f] = fdarray[f]
                    \/ fdarray'[f] = open[f] /\ open[f] # None /\ open'[f] = open[f]

LEMMA EntryStays ==
  ASSUME TypeOK, FdsMoveOn, NEW e \in Reports, Meets(e)
  PROVE  Meets(e)'
BY EvAssumption DEF TypeOK, FdsMoveOn, Meets, Reports, Regs

LEMMA BatchStays ==
  ASSUME TypeOK, FdsMoveOn, NEW t \in Threads, BatchInv(t),
         thread'[t].batch = thread[t].batch,
         thread'[t].pc \in {"none", "wait"} => thread[t].pc \in {"none", "wait"}
  PROVE  BatchInv(t)'
<1>1. \A k \in DOMAIN thread[t].batch : thread[t].batch[k] \in Reports
  BY DEF TypeOK, ThreadRecs, Batches
<1>2. \A k \in DOMAIN thread[t].batch : Meets(thread[t].batch[k])'
  <2>1. SUFFICES ASSUME NEW k \in DOMAIN thread[t].batch
                 PROVE  Meets(thread[t].batch[k])'
    BY DEF BatchInv
  <2>2. thread[t].batch[k] \in Reports /\ Meets(thread[t].batch[k])
    BY <1>1, <2>1 DEF BatchInv
  <2>3. PICK e \in Reports : e = thread[t].batch[k]
    BY <2>2
  <2>4. Meets(e)'
    BY <2>2, <2>3, EntryStays
  <2>5. (thread[t].batch[k])' = e
    BY <2>3
  <2> QED BY <2>4, <2>5 DEF Meets
<1> QED BY <1>2 DEF BatchInv

LEMMA EventStays ==
  ASSUME TypeOK, FdsMoveOn, NEW t \in Threads, EventInv(t),
         thread'[t].pc \in {"callback", "demux"} =>
           thread'[t].event = thread[t].event /\ thread[t].pc \in {"callback", "demux"}
  PROVE  EventInv(t)'
BY EvAssumption DEF TypeOK, FdsMoveOn, EventInv, Events, Regs

\* A thread goes on to p, with batch b and event v
Turns(t, p, b, v) ==
  /\ thread' \in [Threads -> ThreadRecs]
  /\ thread'[t].pc = p /\ thread'[t].batch = b /\ thread'[t].event = v
  /\ \A x \in Threads \ {t} : thread'[x] = thread[x]

LEMMA Turning ==
  ASSUME TypeOK, NEW t \in Threads, NEW p \in ThreadPcs, NEW b \in Batches, NEW v \in Happenings,
         \/ v = thread[t].event /\ thread' = [thread EXCEPT ![t].pc = p, ![t].batch = b]
         \/ thread' = [thread EXCEPT ![t].batch = b, ![t].event = v, ![t].pc = p]
  PROVE  Turns(t, p, b, v)
<1> USE DEF TypeOK, ThreadRecs, Turns
<1>1. CASE v = thread[t].event /\ thread' = [thread EXCEPT ![t].pc = p, ![t].batch = b]
  <2>1. thread'[t].pc = p /\ thread'[t].batch = b /\ thread'[t].event = thread[t].event
    BY <1>1
  <2>2. \A x \in Threads \ {t} : thread'[x] = thread[x]
    BY <1>1
  <2>3. [thread[t] EXCEPT !.pc = p, !.batch = b] \in ThreadRecs
    <3>1. PICK r \in ThreadRecs : r = thread[t]
      OBVIOUS
    <3>2. [r EXCEPT !.pc = p, !.batch = b] \in ThreadRecs
      OBVIOUS
    <3> QED BY <3>1, <3>2
  <2>4. thread' = [thread EXCEPT ![t] = [thread[t] EXCEPT !.pc = p, !.batch = b]]
    BY <1>1
  <2>5. thread' \in [Threads -> ThreadRecs]
    <3> HIDE DEF ThreadRecs
    <3> QED BY <2>3, <2>4
  <2> QED BY <1>1, <2>1, <2>2, <2>5
<1>2. CASE thread' = [thread EXCEPT ![t].batch = b, ![t].event = v, ![t].pc = p]
  BY <1>2
<1> QED BY <1>1, <1>2

-------------------------------------------------------------------------------
(* The steps.                                                               *)

LEMMA CreateEvhandlerStep ==
  ASSUME IInv, create_evhandler
  PROVE  IInv'
<1> USE EvAssumption DEF IInv, create_evhandler, Actors, Regs, Idle
<1>1. TypeOK'
  BY Members DEF TypeOK, AddPcs, ThreadPcs, ThreadRecs
<1>2. LockInv'
  BY DEF TypeOK, LockInv
<1>3. AddInv'
  BY DEF TypeOK, AddInv, Registering, LockInv, FdInv
<1>4. FdInv'
  BY DEF TypeOK, FdInv, AddInv, Registering, LockInv
<1>5. OwnerInv'
  BY DEF TypeOK, OwnerInv, Registering, AddInv
<1>6. FdsMoveOn
  BY DEF TypeOK, FdsMoveOn, AddInv, Registering
<1>7. ASSUME NEW x \in Threads PROVE BatchInv(x)' /\ EventInv(x)'
  BY <1>6, <1>7, BatchStays, EventStays DEF TypeOK
<1>8. ~missed'
  BY DEF TypeOK
<1> QED BY <1>1, <1>2, <1>3, <1>4, <1>5, <1>7, <1>8

LEMMA CreateFailsStep ==
  ASSUME IInv, CreateFails
  PROVE  IInv'
<1> USE EvAssumption DEF IInv, CreateFails, Actors, Regs, Idle
<1>1. TypeOK'
  BY Members DEF TypeOK, AddPcs, ThreadPcs, ThreadRecs
<1>2. LockInv'
  BY DEF TypeOK, LockInv
<1>3. AddInv'
  BY DEF TypeOK, AddInv, Registering, LockInv, FdInv
<1>4. FdInv'
  BY DEF TypeOK, FdInv, AddInv, Registering, LockInv
<1>5. OwnerInv'
  BY DEF TypeOK, OwnerInv, Registering, AddInv
<1>6. FdsMoveOn
  BY DEF TypeOK, FdsMoveOn, AddInv, Registering
<1>7. ASSUME NEW x \in Threads PROVE BatchInv(x)' /\ EventInv(x)'
  BY <1>6, <1>7, BatchStays, EventStays DEF TypeOK
<1>8. ~missed'
  BY DEF TypeOK
<1> QED BY <1>1, <1>2, <1>3, <1>4, <1>5, <1>7, <1>8

LEMMA OpenFdStep ==
  ASSUME IInv, NEW a \in Actors, NEW f \in Fds, OpenFd(a, f)
  PROVE  IInv'
<1> USE EvAssumption DEF IInv, OpenFd, May, Actors, Regs, Idle
<1>1. TypeOK'
  BY Members DEF TypeOK, AddPcs, ThreadPcs, ThreadRecs
<1>2. LockInv'
  BY DEF TypeOK, LockInv
<1>3. AddInv'
  BY DEF TypeOK, AddInv, Registering, LockInv, FdInv
<1>4. FdInv'
  BY DEF TypeOK, FdInv, AddInv, Registering, LockInv
<1>5. OwnerInv'
  BY DEF TypeOK, OwnerInv, Registering, AddInv
<1>6. FdsMoveOn
  BY DEF TypeOK, FdsMoveOn, AddInv, Registering
<1>7. ASSUME NEW x \in Threads PROVE BatchInv(x)' /\ EventInv(x)'
  BY <1>6, <1>7, BatchStays, EventStays DEF TypeOK
<1>8. ~missed'
  BY DEF TypeOK
<1> QED BY <1>1, <1>2, <1>3, <1>4, <1>5, <1>7, <1>8

LEMMA LockHandlerStep ==
  ASSUME IInv, NEW a \in Actors, LockHandler(a)
  PROVE  IInv'
<1> USE EvAssumption DEF IInv, LockHandler, Actors, Regs, Idle
<1>1. TypeOK'
  BY Members DEF TypeOK, AddPcs, ThreadPcs, ThreadRecs
<1>2. LockInv'
  BY DEF TypeOK, LockInv
<1>3. AddInv'
  BY DEF TypeOK, AddInv, Registering, LockInv, FdInv
<1>4. FdInv'
  BY DEF TypeOK, FdInv, AddInv, Registering, LockInv
<1>5. OwnerInv'
  BY DEF TypeOK, OwnerInv, Registering, AddInv
<1>6. FdsMoveOn
  BY DEF TypeOK, FdsMoveOn, AddInv, Registering
<1>7. ASSUME NEW x \in Threads PROVE BatchInv(x)' /\ EventInv(x)'
  BY <1>6, <1>7, BatchStays, EventStays DEF TypeOK
<1>8. ~missed'
  BY DEF TypeOK
<1> QED BY <1>1, <1>2, <1>3, <1>4, <1>5, <1>7, <1>8

LEMMA AddFdToEvcoreStep ==
  ASSUME IInv, NEW a \in Actors, add_fd_to_evcore(a)
  PROVE  IInv'
<1> USE EvAssumption DEF IInv, add_fd_to_evcore, add_evector_kevents, Actors, Regs, Idle
<1>1. /\ adding[a].fd \in Fds /\ open[adding[a].fd] # None
      /\ externalvec' = <<adding[a].fd>> /\ externalvec' \in Seq(Fds)
  <2>1. externalvec = <<>> /\ adding[a].fd \in Fds /\ open[adding[a].fd] # None
    BY DEF LockInv, AddInv, Registering
  <2>2. externalvec' = Append(<<>>, adding[a].fd)
    BY <2>1
  <2> QED BY <2>1, <2>2
<1>2. TypeOK'
  BY <1>1, Members DEF TypeOK, AddPcs, ThreadPcs, ThreadRecs
<1>3. LockInv'
  BY <1>1 DEF TypeOK, LockInv
<1>4. AddInv'
  BY DEF TypeOK, AddInv, Registering, LockInv, FdInv
<1>5. FdInv'
  BY DEF TypeOK, FdInv, AddInv, Registering, LockInv
<1>6. OwnerInv'
  BY DEF TypeOK, OwnerInv, Registering, AddInv
<1>7. FdsMoveOn
  BY DEF TypeOK, FdsMoveOn, AddInv, Registering
<1>8. ASSUME NEW x \in Threads PROVE BatchInv(x)' /\ EventInv(x)'
  BY <1>7, <1>8, BatchStays, EventStays DEF TypeOK
<1>9. ~missed'
  BY DEF TypeOK
<1> QED BY <1>2, <1>3, <1>4, <1>5, <1>6, <1>8, <1>9

LEMMA AddRefusedStep ==
  ASSUME IInv, NEW a \in Actors, AddRefused(a)
  PROVE  IInv'
<1> USE EvAssumption DEF IInv, AddRefused, Actors, Regs, Idle
<1>1. TypeOK'
  BY Members DEF TypeOK, AddPcs, ThreadPcs, ThreadRecs
<1>2. LockInv'
  BY DEF TypeOK, LockInv
<1>3. AddInv'
  BY DEF TypeOK, AddInv, Registering, LockInv, FdInv
<1>4. FdInv'
  BY DEF TypeOK, FdInv, AddInv, Registering, LockInv
<1>5. OwnerInv'
  BY DEF TypeOK, OwnerInv, Registering, AddInv
<1>6. FdsMoveOn
  BY DEF TypeOK, FdsMoveOn, AddInv, Registering
<1>7. ASSUME NEW x \in Threads PROVE BatchInv(x)' /\ EventInv(x)'
  BY <1>6, <1>7, BatchStays, EventStays DEF TypeOK
<1>8. ~missed'
  BY DEF TypeOK
<1> QED BY <1>1, <1>2, <1>3, <1>4, <1>5, <1>7, <1>8

LEMMA FlushEvectorChangesStep ==
  ASSUME IInv, NEW a \in Actors, flush_evector_changes(a)
  PROVE  IInv'
<1> USE EvAssumption DEF IInv, flush_evector_changes, Actors, Regs, Idle
<1>1. TypeOK'
  BY Members DEF TypeOK, AddPcs, ThreadPcs, ThreadRecs
<1>2. LockInv'
  BY DEF TypeOK, LockInv
<1>3. AddInv'
  BY DEF TypeOK, AddInv, Registering, LockInv, FdInv
<1>4. FdInv'
  BY DEF TypeOK, FdInv, AddInv, Registering, LockInv
<1>5. OwnerInv'
  BY DEF TypeOK, OwnerInv, Registering, AddInv
<1>6. FdsMoveOn
  BY DEF TypeOK, FdsMoveOn, AddInv, Registering
<1>7. ASSUME NEW x \in Threads PROVE BatchInv(x)' /\ EventInv(x)'
  BY <1>6, <1>7, BatchStays, EventStays DEF TypeOK
<1>8. ~missed'
  BY DEF TypeOK
<1> QED BY <1>1, <1>2, <1>3, <1>4, <1>5, <1>7, <1>8

LEMMA ArriveStep ==
  ASSUME IInv, NEW f \in Fds, Arrive(f)
  PROVE  IInv'
<1> USE EvAssumption DEF IInv, Arrive, Actors, Regs, Idle
<1>1. TypeOK'
  BY Members DEF TypeOK, AddPcs, ThreadPcs, ThreadRecs
<1>2. LockInv'
  BY DEF TypeOK, LockInv
<1>3. AddInv'
  BY DEF TypeOK, AddInv, Registering, LockInv, FdInv
<1>4. FdInv'
  BY DEF TypeOK, FdInv, AddInv, Registering, LockInv
<1>5. OwnerInv'
  BY DEF TypeOK, OwnerInv, Registering, AddInv
<1>6. FdsMoveOn
  BY DEF TypeOK, FdsMoveOn, AddInv, Registering
<1>7. ASSUME NEW x \in Threads PROVE BatchInv(x)' /\ EventInv(x)'
  BY <1>6, <1>7, BatchStays, EventStays DEF TypeOK
<1>8. ~missed'
  BY DEF TypeOK
<1> QED BY <1>1, <1>2, <1>3, <1>4, <1>5, <1>7, <1>8

LEMMA SpawnEvthreadStep ==
  ASSUME IInv, NEW t \in Threads, spawn_evthread(t)
  PROVE  IInv'
<1> USE EvAssumption DEF IInv, spawn_evthread, Actors, Regs, Idle
<1>1. TypeOK'
  BY Members DEF TypeOK, AddPcs, ThreadPcs, ThreadRecs
<1>2. LockInv'
  BY DEF TypeOK, LockInv
<1>3. AddInv'
  BY DEF TypeOK, AddInv, Registering, LockInv, FdInv
<1>4. FdInv'
  BY DEF TypeOK, FdInv, AddInv, Registering, LockInv
<1>5. OwnerInv'
  BY DEF TypeOK, OwnerInv, Registering, AddInv
<1>6. FdsMoveOn
  BY DEF TypeOK, FdsMoveOn, AddInv, Registering
<1>7. ASSUME NEW x \in Threads PROVE BatchInv(x)' /\ EventInv(x)'
  BY <1>6, <1>7, BatchStays, EventStays DEF TypeOK
<1>8. ~missed'
  BY DEF TypeOK
<1> QED BY <1>1, <1>2, <1>3, <1>4, <1>5, <1>7, <1>8

LEMMA RegisterEvthreadStep ==
  ASSUME IInv, register_evthread
  PROVE  IInv'
<1> USE EvAssumption DEF IInv, register_evthread, Actors, Regs, Idle
<1>1. adding[Owner].fd \in Threads
  BY DEF OwnerInv
<1>2. TypeOK'
  BY <1>1, Members DEF TypeOK, AddPcs, ThreadPcs, ThreadRecs
<1>3. LockInv'
  BY DEF TypeOK, LockInv
<1>4. AddInv'
  BY DEF TypeOK, AddInv, Registering, LockInv, FdInv
<1>5. FdInv'
  BY DEF TypeOK, FdInv, AddInv, Registering, LockInv
<1>6. OwnerInv'
  BY DEF TypeOK, OwnerInv, Registering, AddInv
<1>7. FdsMoveOn
  BY DEF TypeOK, FdsMoveOn, AddInv, Registering
<1>8. ASSUME NEW x \in Threads PROVE BatchInv(x)' /\ EventInv(x)'
  BY <1>7, <1>8, BatchStays, EventStays DEF TypeOK
<1>9. ~missed'
  BY DEF TypeOK
<1> QED BY <1>2, <1>3, <1>4, <1>5, <1>6, <1>8, <1>9

LEMMA InterruptedStep ==
  ASSUME IInv, NEW t \in Threads, Interrupted(t)
  PROVE  IInv'
<1> USE EvAssumption DEF IInv, Interrupted, Actors, Regs, Idle
<1>1. TypeOK'
  BY Members DEF TypeOK, AddPcs, ThreadPcs, ThreadRecs
<1>2. LockInv'
  BY DEF TypeOK, LockInv
<1>3. AddInv'
  BY DEF TypeOK, AddInv, Registering, LockInv, FdInv
<1>4. FdInv'
  BY DEF TypeOK, FdInv, AddInv, Registering, LockInv
<1>5. OwnerInv'
  BY DEF TypeOK, OwnerInv, Registering, AddInv
<1>6. FdsMoveOn
  BY DEF TypeOK, FdsMoveOn, AddInv, Registering
<1>7. ASSUME NEW x \in Threads PROVE BatchInv(x)' /\ EventInv(x)'
  BY <1>6, <1>7, BatchStays, EventStays DEF TypeOK
<1>8. ~missed'
  BY DEF TypeOK
<1> QED BY <1>1, <1>2, <1>3, <1>4, <1>5, <1>7, <1>8

LEMMA EvmainStep ==
  ASSUME IInv, NEW t \in Threads, evmain(t)
  PROVE  IInv'
<1> USE EvAssumption DEF IInv, Actors, Regs, Idle
<1>1. PICK b \in Batches :
        /\ Turns(t, "handle", b, thread[t].event)
        /\ \A k \in DOMAIN b : b[k].fd \in ready /\ b[k].reg = interest[b[k].fd]
        /\ thread[t].pc = "wait" /\ ready' = {}
        /\ UNCHANGED <<state, lock, externalvec, fdarray, threadlist, adding, open, regs,
                       interest, data, missed>>
  <2>1. PICK c \in [1 .. Cardinality(ready) -> ready] :
          thread' = [thread EXCEPT ![t].pc = "handle",
                       ![t].batch = [k \in DOMAIN c |-> [fd |-> c[k], reg |-> interest[c[k]]]]]
    BY DEF evmain
  <2>2. PICK b : b = [k \in DOMAIN c |-> [fd |-> c[k], reg |-> interest[c[k]]]]
    OBVIOUS
  <2>3. Cardinality(ready) \in Nat
    BY FS_Subset, FS_CardinalityType DEF TypeOK
  <2>4. \A f \in ready : f \in Fds /\ interest[f] \in Nat
    BY DEF TypeOK, FdInv
  <2>5. DOMAIN b = 1 .. Cardinality(ready) /\ \A k \in DOMAIN b : b[k] \in Reports
    BY <2>2, <2>4 DEF Reports
  <2>6. b \in Batches
    BY <2>2, <2>3, <2>5 DEF Batches
  <2>7. \A k \in DOMAIN b : b[k].fd \in ready /\ b[k].reg = interest[b[k].fd]
    BY <2>2
  <2>8. thread' = [thread EXCEPT ![t].pc = "handle", ![t].batch = b]
    BY <2>1, <2>2
  <2>9. Turns(t, "handle", b, thread[t].event)
    BY <2>6, <2>8, Turning DEF ThreadPcs, TypeOK, ThreadRecs
  <2> QED BY <2>6, <2>7, <2>9 DEF evmain
<1>2. TypeOK'
  BY <1>1 DEF Turns, TypeOK
<1>3. LockInv'
  BY <1>1 DEF TypeOK, LockInv
<1>4. AddInv'
  <2>1. adding[t] = Idle
    BY <1>1 DEF AddInv
  <2>2. \A x \in Threads : adding[x] # Idle => thread'[x].pc = "callback"
    BY <1>1, <2>1 DEF Turns, AddInv
  <2> QED BY <1>1, <2>2 DEF AddInv, Registering
<1>5. FdInv'
  BY <1>1 DEF TypeOK, FdInv
<1>6. OwnerInv'
  BY <1>1 DEF TypeOK, Turns, OwnerInv, Registering
<1>7. FdsMoveOn
  BY <1>1 DEF TypeOK, FdsMoveOn
<1>8. ASSUME NEW x \in Threads PROVE BatchInv(x)' /\ EventInv(x)'
  <2>1. CASE x # t
    BY <1>1, <1>7, <1>8, <2>1, BatchStays, EventStays DEF Turns
  <2>2. CASE x = t
    <3>1. \A k \in DOMAIN b : Meets(b[k])
      BY <1>1 DEF TypeOK, FdInv, Meets
    <3>2. BatchInv(x)'
      BY <1>1, <2>2, <3>1 DEF Turns, BatchInv, Meets
    <3>3. EventInv(x)'
      BY <1>1, <2>2 DEF Turns, EventInv
    <3> QED BY <3>2, <3>3
  <2> QED BY <2>1, <2>2
<1>9. ~missed'
  BY <1>1
<1> QED BY <1>2, <1>3, <1>4, <1>5, <1>6, <1>8, <1>9

LEMMA HandleEventsStep ==
  ASSUME IInv, NEW t \in Threads, handle_events(t)
  PROVE  IInv'
<1> USE EvAssumption DEF IInv, Actors, Regs, Idle
<1>1. PICK e \in Reports, rest \in Batches, p \in {"demux", "callback"}, v \in Events :
        /\ Turns(t, p, rest, v)
        /\ Meets(e) /\ v = [fd |-> e.fd, reg |-> e.reg, cb |-> fdarray[e.fd]]
        /\ \A k \in DOMAIN rest : Meets(rest[k])
        /\ thread[t].pc = "handle"
        /\ UNCHANGED <<state, lock, externalvec, fdarray, threadlist, adding, open, regs,
                       interest, ready, data, missed>>
  <2>1. PICK b : b = thread[t].batch
    OBVIOUS
  <2>2. b \in Seq(Reports) /\ b # <<>> /\ \A k \in DOMAIN b : Meets(b[k])
    BY <2>1 DEF TypeOK, ThreadRecs, Batches, BatchInv, handle_events
  <2>3. Len(b) \in Nat /\ Len(b) \in 1 .. Len(b) /\ DOMAIN b = 1 .. Len(b)
    BY <2>2
  <2>4. PICK e \in Reports : e = b[Len(b)] /\ Meets(e)
    BY <2>2, <2>3
  <2>5. PICK rest : rest = SubSeq(b, 1, Len(b) - 1)
    OBVIOUS
  <2>6. rest \in Batches /\ \A k \in DOMAIN rest : k \in DOMAIN b /\ rest[k] = b[k]
    BY <2>2, <2>3, <2>5 DEF Batches
  <2>7. PICK p \in {"demux", "callback"} : p = IF e.fd = SigFd THEN "demux" ELSE "callback"
    OBVIOUS
  <2>8. PICK v \in Events : v = [fd |-> e.fd, reg |-> e.reg, cb |-> fdarray[e.fd]]
    BY <2>4 DEF TypeOK, Reports, Events
  <2>9. fdarray[e.fd] # None
    BY <2>4 DEF Meets
  <2>10. /\ thread' = [thread EXCEPT ![t].batch = rest, ![t].event = v, ![t].pc = p]
         /\ missed' = missed
    BY <2>1, <2>4, <2>5, <2>7, <2>8, <2>9 DEF TypeOK, handle_events
  <2>11. Turns(t, p, rest, v)
    BY <2>6, <2>10, Turning, Members DEF ThreadPcs
  <2>12. /\ thread[t].pc = "handle"
         /\ UNCHANGED <<state, lock, externalvec, fdarray, threadlist, adding, open, regs,
                        interest, ready, data>>
    BY DEF handle_events
  <2>13. \A k \in DOMAIN rest : Meets(rest[k])
    BY <2>2, <2>6
  <2> QED BY <2>4, <2>6, <2>8, <2>10, <2>11, <2>12, <2>13
<1>2. TypeOK'
  BY <1>1 DEF Turns, TypeOK
<1>3. LockInv'
  BY <1>1 DEF TypeOK, LockInv
<1>4. AddInv'
  <2>1. adding[t] = Idle
    BY <1>1 DEF AddInv
  <2>2. \A x \in Threads : adding[x] # Idle => thread'[x].pc = "callback"
    BY <1>1, <2>1 DEF Turns, AddInv
  <2> QED BY <1>1, <2>2 DEF AddInv, Registering
<1>5. FdInv'
  BY <1>1 DEF TypeOK, FdInv
<1>6. OwnerInv'
  BY <1>1 DEF TypeOK, Turns, OwnerInv, Registering
<1>7. FdsMoveOn
  BY <1>1 DEF TypeOK, FdsMoveOn
<1>8. ASSUME NEW x \in Threads PROVE BatchInv(x)' /\ EventInv(x)'
  <2>1. CASE x # t
    BY <1>1, <1>7, <1>8, <2>1, BatchStays, EventStays DEF Turns
  <2>2. CASE x = t
    <3>1. BatchInv(x)'
      BY <1>1, <2>2 DEF Turns, BatchInv, Meets
    <3>2. EventInv(x)'
      BY <1>1, <2>2 DEF Turns, EventInv, Meets, Reports
    <3> QED BY <3>1, <3>2
  <2> QED BY <2>1, <2>2
<1>9. ~missed'
  BY <1>1
<1> QED BY <1>2, <1>3, <1>4, <1>5, <1>6, <1>8, <1>9

LEMMA BatchDoneStep ==
  ASSUME IInv, NEW t \in Threads, BatchDone(t)
  PROVE  IInv'
<1> USE EvAssumption DEF IInv, BatchDone, Actors, Regs, Idle
<1>1. TypeOK'
  <2>1. [thread[t] EXCEPT !.pc = "wait", !.event = None] \in ThreadRecs
    BY Members, RecordsStay DEF TypeOK, ThreadPcs
  <2>2. thread' = [thread EXCEPT ![t] = [thread[t] EXCEPT !.pc = "wait", !.event = None]]
    BY DEF TypeOK
  <2>3. thread' \in [Threads -> ThreadRecs]
    BY <2>1, <2>2 DEF TypeOK
  <2> QED BY <2>3 DEF TypeOK
<1>2. LockInv'
  BY DEF TypeOK, LockInv
<1>3. AddInv'
  BY DEF TypeOK, AddInv, Registering, LockInv, FdInv
<1>4. FdInv'
  BY DEF TypeOK, FdInv, AddInv, Registering, LockInv
<1>5. OwnerInv'
  BY DEF TypeOK, OwnerInv, Registering, AddInv
<1>6. FdsMoveOn
  BY DEF TypeOK, FdsMoveOn, AddInv, Registering
<1>7. ASSUME NEW x \in Threads PROVE BatchInv(x)' /\ EventInv(x)'
  <2>1. CASE x # t
    BY <1>6, <1>7, <2>1, BatchStays, EventStays DEF TypeOK
  <2>2. CASE x = t
    BY <2>2 DEF TypeOK, BatchInv, EventInv
  <2> QED BY <2>1, <2>2
<1>8. ~missed'
  BY DEF TypeOK
<1> QED BY <1>1, <1>2, <1>3, <1>4, <1>5, <1>7, <1>8

LEMMA CallbackReadsStep ==
  ASSUME IInv, NEW t \in Threads, CallbackReads(t)
  PROVE  IInv'
<1> USE EvAssumption DEF IInv, CallbackReads, Actors, Regs, Idle
<1>1. TypeOK'
  <2>1. [thread[t] EXCEPT !.pc = "handle", !.event = None] \in ThreadRecs
    BY Members, RecordsStay DEF TypeOK, ThreadPcs
  <2>2. thread' = [thread EXCEPT ![t] = [thread[t] EXCEPT !.pc = "handle", !.event = None]]
    BY DEF TypeOK
  <2>3. thread' \in [Threads -> ThreadRecs]
    BY <2>1, <2>2 DEF TypeOK
  <2> QED BY <2>3 DEF TypeOK
<1>2. LockInv'
  BY DEF TypeOK, LockInv
<1>3. AddInv'
  BY DEF TypeOK, AddInv, Registering, LockInv, FdInv
<1>4. FdInv'
  BY DEF TypeOK, FdInv, AddInv, Registering, LockInv
<1>5. OwnerInv'
  BY DEF TypeOK, OwnerInv, Registering, AddInv
<1>6. FdsMoveOn
  BY DEF TypeOK, FdsMoveOn, AddInv, Registering
<1>7. ASSUME NEW x \in Threads PROVE BatchInv(x)' /\ EventInv(x)'
  <2>1. CASE x # t
    BY <1>6, <1>7, <2>1, BatchStays, EventStays DEF TypeOK
  <2>2. CASE x = t
    <3>1. thread'[t].batch = thread[t].batch /\ thread'[t].pc = "handle"
      BY DEF TypeOK
    <3> QED BY <1>6, <2>2, <3>1, BatchStays, EventStays
  <2> QED BY <2>1, <2>2
<1>8. ~missed'
  BY DEF TypeOK
<1> QED BY <1>1, <1>2, <1>3, <1>4, <1>5, <1>7, <1>8

LEMMA CallbackClosesStep ==
  ASSUME IInv, NEW t \in Threads, CallbackCloses(t)
  PROVE  IInv'
<1> USE EvAssumption DEF IInv, CallbackCloses, Actors, Regs, Idle
<1>1. TypeOK'
  <2>1. [thread[t] EXCEPT !.pc = "handle", !.event = None] \in ThreadRecs
    BY Members, RecordsStay DEF TypeOK, ThreadPcs
  <2>2. thread' = [thread EXCEPT ![t] = [thread[t] EXCEPT !.pc = "handle", !.event = None]]
    BY DEF TypeOK
  <2>3. thread' \in [Threads -> ThreadRecs]
    BY <2>1, <2>2 DEF TypeOK
  <2> QED BY <2>3 DEF TypeOK
<1>2. LockInv'
  BY DEF TypeOK, LockInv
<1>3. AddInv'
  BY DEF TypeOK, AddInv, Registering, LockInv, FdInv
<1>4. FdInv'
  BY DEF TypeOK, FdInv, AddInv, Registering, LockInv
<1>5. OwnerInv'
  BY DEF TypeOK, OwnerInv, Registering, AddInv
<1>6. FdsMoveOn
  BY DEF TypeOK, FdsMoveOn, AddInv, Registering
<1>7. ASSUME NEW x \in Threads PROVE BatchInv(x)' /\ EventInv(x)'
  <2>1. CASE x # t
    BY <1>6, <1>7, <2>1, BatchStays, EventStays DEF TypeOK
  <2>2. CASE x = t
    <3>1. thread'[t].batch = thread[t].batch /\ thread'[t].pc = "handle"
      BY DEF TypeOK
    <3> QED BY <1>6, <2>2, <3>1, BatchStays, EventStays
  <2> QED BY <2>1, <2>2
<1>8. ~missed'
  BY DEF TypeOK
<1> QED BY <1>1, <1>2, <1>3, <1>4, <1>5, <1>7, <1>8

LEMMA DemuxReadStep ==
  ASSUME IInv, NEW t \in Threads, DemuxRead(t)
  PROVE  IInv'
<1> USE EvAssumption DEF IInv, DemuxRead, Actors, Regs, Idle
<1>1. TypeOK'
  BY Members DEF TypeOK, AddPcs, ThreadPcs, ThreadRecs
<1>2. LockInv'
  BY DEF TypeOK, LockInv
<1>3. AddInv'
  BY DEF TypeOK, AddInv, Registering, LockInv, FdInv
<1>4. FdInv'
  BY DEF TypeOK, FdInv, AddInv, Registering, LockInv
<1>5. OwnerInv'
  BY DEF TypeOK, OwnerInv, Registering, AddInv
<1>6. FdsMoveOn
  BY DEF TypeOK, FdsMoveOn, AddInv, Registering
<1>7. ASSUME NEW x \in Threads PROVE BatchInv(x)' /\ EventInv(x)'
  BY <1>6, <1>7, BatchStays, EventStays DEF TypeOK
<1>8. ~missed'
  BY DEF TypeOK
<1> QED BY <1>1, <1>2, <1>3, <1>4, <1>5, <1>7, <1>8

LEMMA DemuxEmptyStep ==
  ASSUME IInv, NEW t \in Threads, DemuxEmpty(t)
  PROVE  IInv'
<1> USE EvAssumption DEF IInv, DemuxEmpty, Actors, Regs, Idle
<1>1. TypeOK'
  <2>1. [thread[t] EXCEPT !.pc = "handle", !.eintr = FALSE] \in ThreadRecs
    BY Members, RecordsStay DEF TypeOK, ThreadPcs
  <2>2. thread' = [thread EXCEPT ![t] = [thread[t] EXCEPT !.pc = "handle", !.eintr = FALSE]]
    BY DEF TypeOK
  <2>3. thread' \in [Threads -> ThreadRecs]
    BY <2>1, <2>2 DEF TypeOK
  <2> QED BY <2>3 DEF TypeOK
<1>2. LockInv'
  BY DEF TypeOK, LockInv
<1>3. AddInv'
  BY DEF TypeOK, AddInv, Registering, LockInv, FdInv
<1>4. FdInv'
  BY DEF TypeOK, FdInv, AddInv, Registering, LockInv
<1>5. OwnerInv'
  BY DEF TypeOK, OwnerInv, Registering, AddInv
<1>6. FdsMoveOn
  BY DEF TypeOK, FdsMoveOn, AddInv, Registering
<1>7. ASSUME NEW x \in Threads PROVE BatchInv(x)' /\ EventInv(x)'
  <2>1. CASE x # t
    BY <1>6, <1>7, <2>1, BatchStays, EventStays DEF TypeOK
  <2>2. CASE x = t
    <3>1. thread'[t].batch = thread[t].batch /\ thread'[t].pc = "handle"
      BY DEF TypeOK
    <3> QED BY <1>6, <2>2, <3>1, BatchStays, EventStays
  <2> QED BY <2>1, <2>2
<1>8. ~missed'
  BY DEF TypeOK
<1> QED BY <1>1, <1>2, <1>3, <1>4, <1>5, <1>7, <1>8

LEMMA DestroyEvhandlerStep ==
  ASSUME IInv, destroy_evhandler
  PROVE  IInv'
<1> USE EvAssumption DEF IInv, destroy_evhandler, Actors, Regs, Idle
<1>1. adding[Owner].pc = "idle"
  OBVIOUS
<1>2. TypeOK'
  BY Members DEF TypeOK, AddPcs, ThreadPcs, ThreadRecs
<1>3. LockInv'
  BY DEF TypeOK, LockInv
<1>4. AddInv'
  BY DEF TypeOK, AddInv, Registering, LockInv, FdInv
<1>5. FdInv'
  BY DEF TypeOK, FdInv, AddInv, Registering, LockInv
<1>6. OwnerInv'
  BY <1>1 DEF TypeOK, OwnerInv, Registering, AddInv
<1>7. FdsMoveOn
  BY DEF TypeOK, FdsMoveOn, AddInv, Registering
<1>8. ASSUME NEW x \in Threads PROVE BatchInv(x)' /\ EventInv(x)'
  BY <1>7, <1>8, BatchStays, EventStays DEF TypeOK
<1>9. ~missed'
  BY DEF TypeOK
<1> QED BY <1>2, <1>3, <1>4, <1>5, <1>6, <1>8, <1>9

LEMMA CancelStep ==
  ASSUME IInv, NEW t \in Threads, Cancel(t)
  PROVE  IInv'
<1> USE EvAssumption DEF IInv, Cancel, Actors, Regs, Idle
<1>1. TypeOK'
  BY Members DEF TypeOK, AddPcs, ThreadPcs, ThreadRecs
<1>2. LockInv'
  BY DEF TypeOK, LockInv
<1>3. AddInv'
  BY DEF TypeOK, AddInv, Registering, LockInv, FdInv
<1>4. FdInv'
  BY DEF TypeOK, FdInv, AddInv, Registering, LockInv
<1>5. OwnerInv'
  BY DEF TypeOK, OwnerInv, Registering, AddInv
<1>6. FdsMoveOn
  BY DEF TypeOK, FdsMoveOn, AddInv, Registering
<1>7. ASSUME NEW x \in Threads PROVE BatchInv(x)' /\ EventInv(x)'
  BY <1>6, <1>7, BatchStays, EventStays DEF TypeOK
<1>8. ~missed'
  BY DEF TypeOK
<1> QED BY <1>1, <1>2, <1>3, <1>4, <1>5, <1>7, <1>8

LEMMA ReapStep ==
  ASSUME IInv, NEW t \in Threads, Reap(t)
  PROVE  IInv'
<1> USE EvAssumption DEF IInv, Reap, Cancelled, Fresh, Actors, Regs, Idle
<1>1. TypeOK'
  BY Members DEF TypeOK, AddPcs, ThreadPcs, ThreadRecs
<1>2. LockInv'
  BY DEF TypeOK, LockInv
<1>3. AddInv'
  BY DEF TypeOK, AddInv, Registering, LockInv, FdInv
<1>4. FdInv'
  BY DEF TypeOK, FdInv, AddInv, Registering, LockInv
<1>5. OwnerInv'
  BY DEF TypeOK, OwnerInv, Registering, AddInv
<1>6. FdsMoveOn
  BY DEF TypeOK, FdsMoveOn, AddInv, Registering
<1>7. ASSUME NEW x \in Threads PROVE BatchInv(x)' /\ EventInv(x)'
  <2>1. CASE x # t
    BY <1>6, <1>7, <2>1, BatchStays, EventStays DEF TypeOK
  <2>2. CASE x = t
    BY <2>2 DEF TypeOK, BatchInv, EventInv
  <2> QED BY <2>1, <2>2
<1>8. ~missed'
  BY DEF TypeOK
<1> QED BY <1>1, <1>2, <1>3, <1>4, <1>5, <1>7, <1>8

LEMMA DestroyRestStep ==
  ASSUME IInv, DestroyRest
  PROVE  IInv'
<1> USE EvAssumption DEF IInv, DestroyRest, Actors, Regs, Idle
<1>1. /\ adding[Owner].pc = "idle" /\ lock = None /\ externalvec = <<>>
      /\ \A x \in Threads : thread[x].pc = "none" /\ adding[x] = Idle
  <2>1. adding[Owner].pc = "idle"
    OBVIOUS
  <2>2. ASSUME NEW x \in Threads PROVE thread[x].pc = "none"
    <3>1. adding[Owner] # [fd |-> x, pc |-> "register"]
      BY <2>1
    <3> QED BY <3>1 DEF OwnerInv
  <2>3. \A x \in Threads : adding[x] = Idle
    BY <2>2 DEF AddInv
  <2>4. \A a \in Actors : adding[a].pc = "idle"
    BY <2>1, <2>3
  <2>5. lock = None
    BY <2>4 DEF LockInv, TypeOK
  <2> QED BY <2>1, <2>2, <2>3, <2>5 DEF LockInv
<1>2. TypeOK'
  BY Members DEF TypeOK, AddPcs, ThreadPcs, ThreadRecs
<1>3. LockInv'
  BY <1>1 DEF TypeOK, LockInv
<1>4. AddInv'
  BY <1>1 DEF TypeOK, AddInv, Registering
<1>5. FdInv'
  BY DEF TypeOK, FdInv, AddInv, Registering, LockInv
<1>6. OwnerInv'
  BY <1>1 DEF TypeOK, OwnerInv, Registering
<1>7. ASSUME NEW x \in Threads PROVE BatchInv(x)' /\ EventInv(x)'
  BY <1>1, <1>7 DEF BatchInv, EventInv
<1>8. ~missed'
  BY DEF TypeOK
<1> QED BY <1>2, <1>3, <1>4, <1>5, <1>6, <1>7, <1>8

-------------------------------------------------------------------------------
(* The theorems.                                                            *)

LEMMA InitHolds == EvInit => IInv
<1> SUFFICES ASSUME EvInit PROVE IInv
  OBVIOUS
<1> USE EvAssumption DEF EvInit, Actors, Idle, Fresh, Regs
<1>1. TypeOK
  <2>1. Fresh \in ThreadRecs
    BY Members DEF ThreadPcs, ThreadRecs
  <2>2. Idle \in [fd : Targets, pc : AddPcs]
    BY Members DEF AddPcs
  <2>3. thread \in [Threads -> ThreadRecs]
    BY <2>1
  <2>4. adding \in [Actors -> [fd : Targets, pc : AddPcs]]
    BY <2>2
  <2>5. /\ fdarray \in [Fds -> Regs] /\ open \in [Fds -> Regs] /\ interest \in [Fds -> Regs]
        /\ lock \in Actors \cup {None} /\ externalvec \in Seq(Fds)
    OBVIOUS
  <2>6. /\ state \in {"none", "live", "dying", "gone"} /\ threadlist \subseteq Threads
        /\ regs \in Nat /\ ready \subseteq Fds /\ data \subseteq Fds /\ missed \in BOOLEAN
    OBVIOUS
  <2> HIDE DEF EvInit
  <2> QED BY <2>3, <2>4, <2>5, <2>6 DEF TypeOK
<1>2. LockInv /\ AddInv /\ FdInv
  BY DEF LockInv, AddInv, FdInv, Registering
<1>3. OwnerInv
  BY DEF OwnerInv, Registering
<1>4. \A t \in Threads : BatchInv(t) /\ EventInv(t)
  BY DEF BatchInv, EventInv
<1> QED BY <1>1, <1>2, <1>3, <1>4 DEF IInv

\* A step that changes nothing
LEMMA StutterStep ==
  ASSUME IInv, UNCHANGED evvars
  PROVE  IInv'
<1> USE DEF IInv, evvars
<1>1. TypeOK' /\ LockInv' /\ AddInv' /\ FdInv' /\ OwnerInv'
  BY DEF TypeOK, LockInv, AddInv, FdInv, OwnerInv, Registering
<1>2. \A t \in Threads : BatchInv(t)' /\ EventInv(t)'
  BY DEF BatchInv, EventInv, Meets
<1> QED BY <1>1, <1>2

LEMMA NextKeeps == IInv /\ [EvNext]_evvars => IInv'
<1> SUFFICES ASSUME IInv, [EvNext]_evvars PROVE IInv'
  OBVIOUS
<1>1. CASE create_evhandler \/ CreateFails \/ register_evthread \/ destroy_evhandler \/ DestroyRest
  BY <1>1, CreateEvhandlerStep, CreateFailsStep, RegisterEvthreadStep, DestroyEvhandlerStep,
     DestroyRestStep
<1>2. CASE \E a \in Actors : EvStep(a) \/ \E f \in Fds : OpenFd(a, f)
  BY <1>2, LockHandlerStep, AddFdToEvcoreStep, AddRefusedStep, FlushEvectorChangesStep,
     OpenFdStep DEF EvStep
<1>3. CASE \E f \in Fds : Arrive(f)
  BY <1>3, ArriveStep
<1>4. CASE \E t \in Threads : Loop(t)
  BY <1>4, EvmainStep, HandleEventsStep, BatchDoneStep, CallbackReadsStep, DemuxReadStep,
     DemuxEmptyStep, ReapStep DEF Loop
<1>5. CASE \E t \in Threads : Cancel(t) \/ spawn_evthread(t) \/ Interrupted(t) \/ CallbackCloses(t)
  BY <1>5, CancelStep, SpawnEvthreadStep, InterruptedStep, CallbackClosesStep
<1>6. CASE Done \/ UNCHANGED evvars
  BY <1>6, StutterStep DEF Done
<1> QED BY <1>1, <1>2, <1>3, <1>4, <1>5, <1>6 DEF EvNext

\* The inductive invariant holds in every reachable state of the event core
THEOREM InvariantHolds == EvSpec => []IInv
BY InitHolds, NextKeeps, PTL DEF EvSpec

\* Every variable of the event core keeps its type: registrations are numbers, batches
\* are sequences of what evmain() was told by epoll_wait()
THEOREM TypeCorrect == EvSpec => []TypeOK
<1>1. IInv => TypeOK
  BY DEF IInv
<1> QED BY <1>1, InvariantHolds, PTL

\* handle_events() never meets a descriptor without a callback, and an event of a
\* descriptor that was not closed since it was reported is handled by the callback that
\* add_fd_to_evcore() put there for this registration, whatever the event threads, the
\* callbacks that register and close, and the owner do at the same time
THEOREM EventsCorrect == EvSpec => []EventsMeetTheirCallback
<1>1. IInv => EventsMeetTheirCallback
  BY DEF IInv, EventInv, EventsMeetTheirCallback
<1> QED BY <1>1, InvariantHolds, PTL

\* The lock of the evhandler is held by a registration and by nothing else, nobody
\* finds a change of another in the vector, and when destroy_evhandler() has ended no
\* event thread is in its loop, in a batch or in a callback
THEOREM HandlerCorrect == EvSpec => []HandlerOutlivesItsUsers
<1>1. IInv => HandlerOutlivesItsUsers
  BY DEF IInv, LockInv, AddInv, OwnerInv, HandlerOutlivesItsUsers
<1> QED BY <1>1, InvariantHolds, PTL

===============================================================================
