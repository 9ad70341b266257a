-------------------------------- MODULE EvCore --------------------------------
(***************************************************************************)
(* The event core, libdank/modules/events: an evhandler (an epoll           *)
(* descriptor, the callbacks by descriptor and by signal, a vector of        *)
(* queued changes under a lock) served by event threads.  Modelled as it is  *)
(* built on Linux.  A registration is a number that no other gets, so that  *)
(* a descriptor that is closed and opened again is told apart.              *)
(***************************************************************************)
EXTENDS Integers, Sequences, FiniteSets

CONSTANTS Owner,     \* the thread that creates and destroys the handler
          Threads,   \* the event threads it may spawn
          Fds,       \* descriptors, below fdarraysize
          SigFd,     \* the one that is a signalfd
          MaxRegs,   \* bound: registrations in a behaviour
          None

ASSUME EvAssumption ==
  /\ IsFiniteSet(Fds) /\ SigFd \in Fds
  /\ Owner \notin Threads
  /\ None \notin Nat \cup Threads \cup {Owner}

VARIABLES
  state,     \* of the evhandler: "none", "live", "dying", "gone"
  lock,      \* eh->lock
  externalvec, \* the queued changes, a sequence of descriptors
  fdarray,   \* fd -> the registration whose callback is installed
  threadlist,\* the registered event threads
  adding,    \* actor -> the descriptor it is registering, and how far
  open,      \* fd -> the registration it is open for
  regs,      \* registrations so far
  interest,  \* epoll: fd -> the registration in the interest list
  ready,     \* epoll: descriptors with an edge not yet reported
  data,      \* descriptors with something to read
  thread,    \* event thread -> [pc, batch, event, errno = EINTR]
  missed     \* an event that met no callback

evvars == <<state, lock, externalvec, fdarray, threadlist, adding, open, regs,
            interest, ready, data, thread, missed>>

Cancelled(t) == adding[Owner] = [fd |-> t, pc |-> "reap"]
Actors == Threads \cup {Owner}
Idle == [fd |-> None, pc |-> "idle"]
Fresh == [pc |-> "none", batch |-> <<>>, event |-> None, eintr |-> FALSE]

-------------------------------------------------------------------------------
EvInit ==
  /\ state = "none" /\ lock = None /\ externalvec = <<>>
  /\ fdarray = [f \in Fds |-> None] /\ threadlist = {} /\ adding = [a \in Actors |-> Idle]
  /\ open = [f \in Fds |-> None] /\ regs = 0
  /\ interest = [f \in Fds |-> None] /\ ready = {} /\ data = {}
  /\ thread = [t \in Threads |-> Fresh] /\ missed = FALSE

create_evhandler ==
  /\ state = "none"
  /\ state' = "live"
  /\ UNCHANGED <<lock, externalvec, fdarray, threadlist, adding, open, regs, interest, ready,
                 data, thread, missed>>

\* Whatever initialize_evhandler() fails at, what came before is released.
CreateFails ==
  /\ state = "none"
  /\ state' = "gone"
  /\ UNCHANGED <<lock, externalvec, fdarray, threadlist, adding, open, regs, interest, ready,
                 data, thread, missed>>

-------------------------------------------------------------------------------
(* Registering a descriptor: by the owner, or by a callback.                *)
May(a) == /\ adding[a] = Idle
          /\ IF a = Owner THEN state = "live" ELSE thread[a].pc = "callback"

\* The descriptor comes from the kernel just now.
OpenFd(a, f) ==
  /\ May(a) /\ open[f] = None /\ regs < MaxRegs
  /\ open' = [open EXCEPT ![f] = regs + 1] /\ regs' = regs + 1
  /\ adding' = [adding EXCEPT ![a] = [fd |-> f, pc |-> "lock"]]
  /\ UNCHANGED <<state, lock, externalvec, fdarray, threadlist, interest, ready, data,
                 thread, missed>>

LockHandler(a) ==
  /\ adding[a].pc = "lock" /\ lock = None
  /\ lock' = a
  /\ adding' = [adding EXCEPT ![a].pc = "queue"]
  /\ UNCHANGED <<state, externalvec, fdarray, threadlist, open, regs, interest, ready,
                 data, thread, missed>>

\* A change at the end of the vector.
add_evector_kevents(f) == externalvec' = Append(externalvec, f)

AddBeforeSetup(a) ==
  LET f == adding[a].fd
  IN /\ adding[a].pc = "queue"
     /\ add_evector_kevents(f)
     /\ adding' = [adding EXCEPT ![a].pc = "flush"]
     /\ UNCHANGED <<state, lock, fdarray, threadlist, open, regs, interest, ready, data, thread,
                    missed>>

\* The change is queued and then setup_evsource() called: the callback is in place
\* before the kernel hears of the descriptor.
add_fd_to_evcore(a) ==
  LET f == adding[a].fd
  IN /\ adding[a].pc = "queue"
     /\ add_evector_kevents(f)
     /\ fdarray' = [fdarray EXCEPT ![f] = open[f]]
     /\ adding' = [adding EXCEPT ![a].pc = "flush"]
     /\ UNCHANGED <<state, lock, threadlist, open, regs, interest, ready, data, thread,
                    missed>>

\* Too high a descriptor, no callback, or a full vector: the lock is
\* given back and the caller closes the descriptor.
AddRefused(a) ==
  LET f == adding[a].fd
  IN /\ adding[a].pc = "queue"
     /\ lock' = None
     /\ adding' = [adding EXCEPT ![a] = Idle]
     /\ open' = [open EXCEPT ![f] = None] /\ data' = data \ {f}
     /\ UNCHANGED <<state, externalvec, fdarray, threadlist, regs, interest, ready,
                    thread, missed>>

FlushKeepsLock(a) ==
  LET fs == {externalvec[k] : k \in DOMAIN externalvec}
  IN /\ adding[a].pc = "flush"
     /\ interest' = [f \in Fds |-> IF f \in fs THEN open[f] ELSE interest[f]]
     /\ ready' = ready \cup (fs \cap data)
     /\ externalvec' = <<>>
     /\ adding' = [adding EXCEPT ![a] = Idle]
     /\ UNCHANGED <<state, lock, fdarray, threadlist, open, regs, data, thread, missed>>

\* Kevent() without events: every queued change goes to epoll_ctl(), then the
\* lock is given back.  What can be read already is an edge.
flush_evector_changes(a) ==
  LET fs == {externalvec[k] : k \in DOMAIN externalvec}
  IN /\ adding[a].pc = "flush"
     /\ interest' = [f \in Fds |-> IF f \in fs THEN open[f] ELSE interest[f]]
     /\ ready' = ready \cup (fs \cap data)
     /\ externalvec' = <<>> /\ lock' = None
     /\ adding' = [adding EXCEPT ![a] = Idle]
     /\ UNCHANGED <<state, fdarray, threadlist, open, regs, data, thread, missed>>

-------------------------------------------------------------------------------
(* The kernel.  Data arrives once until it is read: for the signalfd, a      *)
(* standard signal that is pending already is not queued again.             *)
Arrive(f) ==
  /\ open[f] # None /\ f \notin data /\ state \in {"live", "dying"}
  /\ data' = data \cup {f}
  /\ ready' = IF interest[f] = None THEN ready ELSE ready \cup {f}
  /\ UNCHANGED <<state, lock, externalvec, fdarray, threadlist, adding, open, regs,
                 interest, thread, missed>>

-------------------------------------------------------------------------------
(* The event threads.                                                       *)

\* The thread runs before it is in the list.
spawn_evthread(t) ==
  /\ state = "live" /\ adding[Owner] = Idle /\ thread[t].pc = "none"
  /\ thread' = [thread EXCEPT ![t].pc = "wait"]
  /\ adding' = [adding EXCEPT ![Owner] = [fd |-> t, pc |-> "register"]]
  /\ UNCHANGED <<state, lock, externalvec, fdarray, threadlist, open, regs, interest,
                 ready, data, missed>>

register_evthread ==
  /\ adding[Owner].pc = "register" /\ lock = None
  /\ threadlist' = threadlist \cup {adding[Owner].fd}
  /\ adding' = [adding EXCEPT ![Owner] = Idle]
  /\ UNCHANGED <<state, lock, externalvec, fdarray, open, regs, interest, ready, data,
                 thread, missed>>

\* epoll_wait() is interrupted and called again: errno keeps EINTR.
Interrupted(t) ==
  /\ thread[t].pc = "wait"
  /\ thread' = [thread EXCEPT ![t].eintr = TRUE]
  /\ UNCHANGED <<state, lock, externalvec, fdarray, threadlist, adding, open, regs,
                 interest, ready, data, missed>>

\* The edges there are, in some order, each reported once and to one thread:
\* the vector has room for every descriptor.
evmain(t) ==
  /\ thread[t].pc = "wait" /\ ~Cancelled(t)
  /\ ready # {}
  /\ \E b \in [1 .. Cardinality(ready) -> ready] :
       /\ {b[k] : k \in DOMAIN b} = ready
       /\ thread' = [thread EXCEPT ![t].pc = "handle",
                       ![t].batch = [k \in DOMAIN b |-> [fd |-> b[k], reg |-> interest[b[k]]]]]
  /\ ready' = {}
  /\ UNCHANGED <<state, lock, externalvec, fdarray, threadlist, adding, open, regs,
                 interest, data, missed>>

HandleFirst(t) ==
  LET e == thread[t].batch[1]
  IN /\ thread[t].pc = "handle" /\ thread[t].batch # <<>>
     /\ thread' = [thread EXCEPT ![t].batch = <<>>,
                     ![t].event = [fd |-> e.fd, reg |-> e.reg, cb |-> fdarray[e.fd]],
                     ![t].pc = IF fdarray[e.fd] = None THEN "handle"
                               ELSE IF e.fd = SigFd THEN "demux" ELSE "callback"]
     /\ missed' = (missed \/ fdarray[e.fd] = None)
     /\ UNCHANGED <<state, lock, externalvec, fdarray, threadlist, adding, open, regs,
                    interest, ready, data>>

\* The last event of the batch first.  The callback is looked up when the event
\* is handled, not when it was reported.
handle_events(t) ==
  LET b == thread[t].batch
      e == b[Len(b)]
      cb == fdarray[e.fd]
  IN /\ thread[t].pc = "handle" /\ b # <<>>
     /\ thread' = [thread EXCEPT ![t].batch = SubSeq(b, 1, Len(b) - 1),
                     ![t].event = [fd |-> e.fd, reg |-> e.reg, cb |-> cb],
                     ![t].pc = IF cb = None THEN "handle"
                               ELSE IF e.fd = SigFd THEN "demux" ELSE "callback"]
     /\ missed' = (missed \/ cb = None)
     /\ UNCHANGED <<state, lock, externalvec, fdarray, threadlist, adding, open, regs,
                    interest, ready, data>>

BatchDone(t) ==
  /\ thread[t].pc = "handle" /\ thread[t].batch = <<>>
  /\ thread' = [thread EXCEPT ![t].pc = "wait", ![t].event = None]
  /\ UNCHANGED <<state, lock, externalvec, fdarray, threadlist, adding, open, regs,
                 interest, ready, data, missed>>

\* A callback reads what there is and returns, after a registration of its own
\* perhaps.
CallbackReads(t) ==
  LET f == thread[t].event.fd
  IN /\ thread[t].pc = "callback" /\ adding[t] = Idle
     /\ data' = data \ {f}
     /\ thread' = [thread EXCEPT ![t].pc = "handle", ![t].event = None]
     /\ UNCHANGED <<state, lock, externalvec, fdarray, threadlist, adding, open, regs,
                    interest, ready, missed>>

\* A callback may close its descriptor, which leaves the interest list but not
\* the batches it was reported in, nor fdarray.
CallbackCloses(t) ==
  LET f == thread[t].event.fd
  IN /\ thread[t].pc = "callback" /\ adding[t] = Idle
     /\ open[f] # None /\ \A a \in Actors : adding[a].fd # f
     /\ open' = [open EXCEPT ![f] = None]
     /\ interest' = [interest EXCEPT ![f] = None]
     /\ ready' = ready \ {f} /\ data' = data \ {f}
     /\ thread' = [thread EXCEPT ![t].pc = "handle", ![t].event = None]
     /\ UNCHANGED <<state, lock, externalvec, fdarray, threadlist, adding, regs, missed>>

\* signalfd_demultiplexer() reads on until a read fails, or errno is EINTR, be
\* it from an earlier call.
DemuxRead(t) ==
  /\ thread[t].pc = "demux" /\ SigFd \in data
  /\ data' = data \ {SigFd}
  /\ thread' = [thread EXCEPT ![t].pc = IF thread[t].eintr THEN "handle" ELSE "demux"]
  /\ UNCHANGED <<state, lock, externalvec, fdarray, threadlist, adding, open, regs,
                 interest, ready, missed>>

DemuxEmpty(t) ==
  /\ thread[t].pc = "demux" /\ SigFd \notin data
  /\ thread' = [thread EXCEPT ![t].pc = "handle", ![t].eintr = FALSE]
  /\ UNCHANGED <<state, lock, externalvec, fdarray, threadlist, adding, open, regs,
                 interest, ready, data, missed>>

-------------------------------------------------------------------------------
(* Destruction.                                                             *)
destroy_evhandler ==
  /\ state = "live" /\ adding[Owner] = Idle
  /\ state' = "dying"
  /\ UNCHANGED <<lock, externalvec, fdarray, threadlist, adding, open, regs, interest,
                 ready, data, thread, missed>>

\* reap_traceable_thread() cancels one thread after the other, and each ends
\* where it waits or reads.
Cancel(t) ==
  /\ state = "dying" /\ adding[Owner] = Idle /\ t \in threadlist
  /\ adding' = [adding EXCEPT ![Owner] = [fd |-> t, pc |-> "reap"]]
  /\ UNCHANGED <<state, lock, externalvec, fdarray, threadlist, open, regs, interest,
                 ready, data, thread, missed>>

Reap(t) ==
  /\ Cancelled(t) /\ thread[t].pc \in {"wait", "demux"}
  /\ thread' = [thread EXCEPT ![t] = Fresh]
  /\ threadlist' = threadlist \ {t}
  /\ adding' = [adding EXCEPT ![Owner] = Idle]
  /\ UNCHANGED <<state, lock, externalvec, fdarray, open, regs, interest, ready, data,
                 missed>>

DestroyAtOnce ==
  /\ state = "dying" /\ adding[Owner] = Idle
  /\ state' = "gone" /\ externalvec' = <<>> /\ fdarray' = [f \in Fds |-> None]
  /\ interest' = [f \in Fds |-> None] /\ ready' = {}
  /\ UNCHANGED <<lock, threadlist, adding, open, regs, data, thread, missed>>

\* The rest goes when the last thread is reaped; no signalfd is closed.
DestroyRest ==
  /\ state = "dying" /\ threadlist = {} /\ adding[Owner] = Idle
  /\ state' = "gone"
  /\ externalvec' = <<>> /\ fdarray' = [f \in Fds |-> None]
  /\ interest' = [f \in Fds |-> None] /\ ready' = {}
  /\ UNCHANGED <<lock, threadlist, adding, open, regs, data, thread, missed>>

Done == state = "gone" /\ UNCHANGED evvars

EvStep(a) == LockHandler(a) \/ add_fd_to_evcore(a) \/ AddRefused(a) \/ flush_evector_changes(a)

Loop(t) == \/ evmain(t) \/ handle_events(t) \/ BatchDone(t) \/ CallbackReads(t)
           \/ DemuxRead(t) \/ DemuxEmpty(t) \/ Reap(t)

EvNext ==
  \/ create_evhandler \/ CreateFails \/ register_evthread \/ destroy_evhandler \/ DestroyRest
  \/ \E a \in Actors : EvStep(a) \/ \E f \in Fds : OpenFd(a, f)
  \/ \E f \in Fds : Arrive(f)
  \/ \E t \in Threads : Loop(t) \/ Cancel(t) \/ spawn_evthread(t) \/ Interrupted(t) \/ CallbackCloses(t)
  \/ Done

\* A thread that is in a call goes on with it, callbacks return, a lock
\* that keeps coming free is got, and signals do not come as fast as they are
\* read for ever.
EvFairness == /\ WF_evvars(register_evthread) /\ WF_evvars(DestroyRest)
              /\ WF_evvars(\E t \in Threads : Cancel(t))
              /\ \A a \in Actors : WF_evvars(EvStep(a)) /\ SF_evvars(LockHandler(a))
              /\ \A t \in Threads : WF_evvars(Loop(t)) /\ SF_evvars(DemuxEmpty(t))

EvSpec == EvInit /\ [][EvNext]_evvars /\ EvFairness

-------------------------------------------------------------------------------
(* Properties. *)

\* The event of a descriptor that has not been closed since it was reported
\* meets the callback of its own registration: setup_evsource() comes before
\* flush_evector_changes() although neither takes a lock against the threads.
EventsMeetTheirCallback ==
  /\ ~missed
  /\ \A t \in Threads :
       LET e == thread[t].event
       IN thread[t].pc \in {"callback", "demux"} /\ open[e.fd] = e.reg => e.cb = e.reg

\* Whoever holds the lock is in the middle of a registration, the change vector
\* is empty whenever nobody is, and no thread is left in the loop, in a batch or
\* in a callback when what it works on is destroyed.
HandlerOutlivesItsUsers ==
  /\ lock = None => externalvec = <<>>
  /\ lock # None => adding[lock].pc \in {"queue", "flush"}
  /\ state = "gone" => \A t \in Threads : thread[t].pc = "none" /\ adding[t] = Idle

\* What arrives on a registered descriptor or as a signal is read, though it is
\* reported only once, at the edge, and a read may leave early on an errno from
\* before.
DataIsRead ==
  \A f \in Fds : (f \in data /\ interest[f] # None /\ threadlist # {})
                 ~> (f \notin data \/ state \in {"dying", "gone"})

\* Destroying the handler ends.
DestroyEnds == (state = "dying") ~> (state = "gone")

===============================================================================
