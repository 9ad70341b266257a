------------------------- MODULE TraceableThreads -------------------------
(***************************************************************************)
(* libdank/modules/tracing/threads.c: threads launched through             *)
(* new_traceable_thread()/new_traceable_detached() and collected through   *)
(* reap_traceable_thread()/join_traceable_thread().                        *)
(*                                                                         *)
(* A launch allocates a stack_wrapper sw, shared by the caller and the new *)
(* thread; the two meet through sw->state, sw->statelock, sw->statecond.   *)
(* Every thread that set up its signal stack has an entry in the global    *)
(* list thread_stacks, found again by pthread_t.                           *)
(*                                                                         *)
(* A slot is one call of new_traceable_*(), slots being handed out in      *)
(* order: slot s stands for its stack_wrapper, its thread and its entry.   *)
(* A critical section of statelock or sigstack_lock is one step.           *)
(***************************************************************************)
EXTENDS Integers

CONSTANTS Callers,     \* threads that launch and collect traceable threads
          MaxLaunch,   \* bound: number of launches
          Tids,        \* values of pthread_t; the C library reuses them
          SetupFails,  \* kinds of thread whose setup_sigstack() may fail
          CreateFails  \* can Malloc() or pthread_create() fail in the caller?

Kinds == {"joinable", "detached"}
Slots == 1..MaxLaunch

ASSUME ConstAssumption ==
  /\ MaxLaunch \in Nat \ {0}
  /\ SetupFails \subseteq Kinds
  /\ CreateFails \in BOOLEAN
  /\ Callers # {}
  /\ Tids # {}

VARIABLES
  launched,  \* number of slots handed out so far
  kind,      \* slot -> sw->detached
  sw,        \* slot -> "none", "live" or "freed": the stack_wrapper
  state,     \* slot -> sw->state
  waiters,   \* slot -> who is blocked on sw->statecond
  tpc,       \* slot -> where its thread is
  tid,       \* slot -> the pthread_t its thread got
  bound,     \* slots whose pthread_t is still taken (not joined, not gone)
  stacks,    \* slots with an entry in thread_stacks
  cancel,    \* slots whose thread was sent pthread_cancel()
  held,      \* joinable slots whose owner may still collect them
  cpc,       \* caller -> where it is
  cslot,     \* caller -> the slot it works on
  tvict,     \* slot -> the slot whose entry its thread unlinked
  cvict,     \* caller -> the slot whose entry it unlinked; 0 for none
  touched    \* slots whose wrapper was used or freed after it was freed

vars == <<launched, kind, sw, state, waiters, tpc, tid, bound, stacks, cancel,
          held, cpc, cslot, tvict, cvict, touched>>

States == {"CREATED", "READY", "FAILED", "CONFIRMED"}
ThreadPcs == {"none", "start", "registered", "failing", "running", "exiting",
              "waiting", "cleanup", "freeing", "gone"}
CallerPcs == {"idle", "confirm", "waiting", "freefailed", "joinfailed",
              "removefailed", "join", "remove", "free"}

\* The values of the variables
TypeOK ==
  /\ launched \in 0..MaxLaunch
  /\ kind \in [Slots -> Kinds]
  /\ sw \in [Slots -> {"none", "live", "freed"}]
  /\ state \in [Slots -> States]
  /\ waiters \in [Slots -> SUBSET {"caller", "thread"}]
  /\ tpc \in [Slots -> ThreadPcs]
  /\ tid \in [Slots -> Tids]
  /\ bound \subseteq Slots
  /\ stacks \subseteq Slots
  /\ cancel \subseteq Slots
  /\ held \subseteq Slots
  /\ cpc \in [Callers -> CallerPcs]
  /\ cslot \in [Callers -> Slots]
  /\ tvict \in [Slots -> Slots]
  /\ cvict \in [Callers -> Slots \cup {0}]
  /\ touched \subseteq Slots

Init ==
  /\ launched = 0
  /\ kind = [s \in Slots |-> "joinable"]
  /\ sw = [s \in Slots |-> "none"]
  /\ state = [s \in Slots |-> "CREATED"]
  /\ waiters = [s \in Slots |-> {}]
  /\ tpc = [s \in Slots |-> "none"]
  /\ tid \in [Slots -> Tids] /\ \A s1, s2 \in Slots : tid[s1] = tid[s2]
  /\ bound = {}
  /\ stacks = {}
  /\ cancel = {}
  /\ held = {}
  /\ cpc = [c \in Callers |-> "idle"]
  /\ cslot = [c \in Callers |-> 1]
  /\ tvict = [s \in Slots |-> s]
  /\ cvict = [c \in Callers |-> 0]
  /\ touched = {}

(***************************************************************************)
(* Shared pieces.                                                          *)
(***************************************************************************)

\* sw is dereferenced: a fault if it was freed already
Touch(s) == touched' = IF sw[s] = "live" THEN touched ELSE touched \cup {s}

\* pthread_cond_signal(&sw->statecond) wakes one waiter, if there is one
Signal(s) ==
  IF waiters[s] = {} THEN UNCHANGED waiters
  ELSE \E w \in waiters[s] : waiters' = [waiters EXCEPT ![s] = @ \ {w}]

\* free_stack_wrapper(): the mutex, the name and the structure go
FreeWrapper(s) ==
  /\ Touch(s)
  /\ sw' = [sw EXCEPT ![s] = "freed"]

\* The entries that carry the given pthread_t
Matches(t) == {s \in stacks : tid[s] = t}

\* register_thread_stack() pushes at the head and remove_thread_stack() walks
\* from the head: of two entries with one pthread_t the later is found. The
\* later one belongs to the later launch, as a pthread_t is taken only once at
\* a time.
FirstMatch(t) == CHOOSE s \in Matches(t) : \A o \in Matches(t) : o <= s

TakenTids == {tid[s] : s \in bound}

(***************************************************************************)
(* The caller of new_traceable_thread() and new_traceable_detached().      *)
(***************************************************************************)

\* create_stack_wrapper() fails: nothing was allocated that is not released
NewFailsEarly(c) ==
  /\ CreateFails
  /\ cpc[c] = "idle"
  /\ launched < MaxLaunch
  /\ launched' = launched + 1
  /\ UNCHANGED <<kind, sw, state, waiters, tpc, tid, bound, stacks, cancel,
                 held, cpc, cslot, tvict, cvict, touched>>

\* pthread_create() fails: the caller releases the wrapper
NewFailsCreate(c, k) ==
  LET s == launched + 1 IN
  /\ CreateFails
  /\ cpc[c] = "idle"
  /\ launched < MaxLaunch
  /\ launched' = s
  /\ kind' = [kind EXCEPT ![s] = k]
  /\ sw' = [sw EXCEPT ![s] = "freed"]
  /\ UNCHANGED <<state, waiters, tpc, tid, bound, stacks, cancel, held, cpc,
                 cslot, tvict, cvict, touched>>

\* The thread exists; the caller goes on to confirm_traceable_thread()
New(c, k, t) ==
  LET s == launched + 1 IN
  /\ cpc[c] = "idle"
  /\ launched < MaxLaunch
  /\ t \notin TakenTids
  /\ launched' = s
  /\ kind' = [kind EXCEPT ![s] = k]
  /\ sw' = [sw EXCEPT ![s] = "live"]
  /\ tpc' = [tpc EXCEPT ![s] = "start"]
  /\ tid' = [tid EXCEPT ![s] = t]
  /\ bound' = bound \cup {s}
  /\ cpc' = [cpc EXCEPT ![c] = "confirm"]
  /\ cslot' = [cslot EXCEPT ![c] = s]
  /\ UNCHANGED <<state, waiters, stacks, cancel, held, tvict, cvict, touched>>

\* confirm_traceable_thread(): still CREATED, so sleep on the condition
ConfirmWait(c) ==
  LET s == cslot[c] IN
  /\ \/ cpc[c] = "confirm"
     \/ cpc[c] = "waiting" /\ "caller" \notin waiters[s]
  /\ state[s] = "CREATED"
  /\ Touch(s)
  /\ waiters' = [waiters EXCEPT ![s] = @ \cup {"caller"}]
  /\ cpc' = [cpc EXCEPT ![c] = "waiting"]
  /\ UNCHANGED <<launched, kind, sw, state, tpc, tid, bound, stacks, cancel,
                 held, cslot, tvict, cvict>>

\* The thread has reported: mark CONFIRMED_LAUNCHED, and act on the report
Confirm(c) ==
  LET s == cslot[c] IN
  /\ \/ cpc[c] = "confirm"
     \/ cpc[c] = "waiting" /\ "caller" \notin waiters[s]
  /\ state[s] # "CREATED"
  /\ Touch(s)
  /\ state' = [state EXCEPT ![s] = "CONFIRMED"]
  /\ Signal(s)
  /\ cpc' = [cpc EXCEPT ![c] =
                CASE state[s] = "READY" -> "idle"
                  [] state[s] # "READY" /\ kind[s] = "detached" -> "freefailed"
                  [] OTHER -> "joinfailed"]
  /\ held' = IF state[s] = "READY" /\ kind[s] = "joinable"
             THEN held \cup {s} ELSE held
  /\ UNCHANGED <<launched, kind, sw, tpc, tid, bound, stacks, cancel, cslot,
                 tvict, cvict>>

\* new_traceable_detached() after a failed confirmation, and
\* new_traceable_thread() after it joined the failed thread: free the wrapper
FreeFailed(c) ==
  /\ cpc[c] = "freefailed"
  /\ cvict[c] = 0
  /\ FreeWrapper(cslot[c])
  /\ cpc' = [cpc EXCEPT ![c] = "idle"]
  /\ UNCHANGED <<launched, kind, state, waiters, tpc, tid, bound, stacks,
                 cancel, held, cslot, tvict, cvict>>

(***************************************************************************)
(* Collecting a joinable thread.                                           *)
(***************************************************************************)

\* reap_traceable_thread(): cancel, wake it up through the helper, then join.
\* join_traceable_thread(): join only.
BeginReap(c, s) ==
  /\ cpc[c] = "idle"
  /\ s \in held
  /\ held' = held \ {s}
  /\ \/ cancel' = cancel \cup {s}
     \/ UNCHANGED cancel
  /\ cpc' = [cpc EXCEPT ![c] = "join"]
  /\ cslot' = [cslot EXCEPT ![c] = s]
  /\ UNCHANGED <<launched, kind, sw, state, waiters, tpc, tid, bound, stacks,
                 tvict, cvict, touched>>

\* pthread_join() returns; the pthread_t is free for a new thread from now on
Join(c) ==
  LET s == cslot[c] IN
  /\ cpc[c] \in {"join", "joinfailed"}
  /\ tpc[s] = "gone"
  /\ bound' = bound \ {s}
  /\ cpc' = [cpc EXCEPT ![c] = IF @ = "join" THEN "remove" ELSE "removefailed"]
  /\ UNCHANGED <<launched, kind, sw, state, waiters, tpc, tid, stacks, cancel,
                 held, cslot, tvict, cvict, touched>>

\* Mutant of Remove: the walk has no break, so ts is NULL after it
RemoveWithoutBreak(c) ==
  /\ cpc[c] \in {"remove", "removefailed"}
  /\ stacks' = stacks \ Matches(tid[cslot[c]])
  /\ cpc' = [cpc EXCEPT ![c] = IF @ = "remove" THEN "idle" ELSE "freefailed"]
  /\ UNCHANGED <<launched, kind, sw, state, waiters, tpc, tid, bound, cancel,
                 held, cslot, tvict, cvict, touched>>

\* remove_thread_stack(): unlink the first entry with this pthread_t
Remove(c) ==
  LET t == tid[cslot[c]] IN
  /\ cpc[c] \in {"remove", "removefailed"}
  /\ IF Matches(t) = {}
     THEN /\ cpc' = [cpc EXCEPT ![c] = IF @ = "remove" THEN "idle" ELSE "freefailed"]
          /\ UNCHANGED <<stacks, cvict>>
     ELSE /\ stacks' = stacks \ {FirstMatch(t)}
          /\ cvict' = [cvict EXCEPT ![c] = FirstMatch(t)]
          /\ cpc' = [cpc EXCEPT ![c] = IF @ = "remove" THEN "free" ELSE "freefailed"]
  /\ UNCHANGED <<launched, kind, sw, state, waiters, tpc, tid, bound, cancel,
                 held, cslot, tvict, touched>>

\* ... and, outside the lock, free the wrapper it pointed to
FreeRemoved(c) ==
  /\ cpc[c] \in {"free", "freefailed"}
  /\ cvict[c] # 0
  /\ FreeWrapper(cvict[c])
  /\ cvict' = [cvict EXCEPT ![c] = 0]
  /\ cpc' = [cpc EXCEPT ![c] = IF @ = "free" THEN "idle" ELSE "freefailed"]
  /\ UNCHANGED <<launched, kind, state, waiters, tpc, tid, bound, stacks,
                 cancel, held, cslot, tvict>>

(***************************************************************************)
(* The launched thread, stack_wrapperfxn().                                *)
(***************************************************************************)

\* The logctx becomes thread-specific data, then setup_sigstack() registers
\* the stack in thread_stacks
SetupSigstack(s) ==
  /\ tpc[s] = "start"
  /\ Touch(s)
  /\ stacks' = stacks \cup {s}
  /\ tpc' = [tpc EXCEPT ![s] = "registered"]
  /\ UNCHANGED <<launched, kind, sw, state, waiters, tid, bound, cancel, held,
                 cpc, cslot, tvict, cvict>>

\* setup_sigstack() fails, before it adds an entry
SetupSigstackFails(s) ==
  /\ tpc[s] = "start"
  /\ kind[s] \in SetupFails
  /\ Touch(s)
  /\ tpc' = [tpc EXCEPT ![s] = "failing"]
  /\ UNCHANGED <<launched, kind, sw, state, waiters, tid, bound, stacks,
                 cancel, held, cpc, cslot, tvict, cvict>>

\* Mutant of Report: the caller is not woken
ReportWithoutSignal(s) ==
  /\ tpc[s] \in {"registered", "failing"}
  /\ Touch(s)
  /\ state' = [state EXCEPT ![s] =
                 IF tpc[s] = "registered" THEN "READY" ELSE "FAILED"]
  /\ tpc' = [tpc EXCEPT ![s] =
               IF tpc[s] = "registered" THEN "running" ELSE "exiting"]
  /\ UNCHANGED <<launched, kind, sw, waiters, tid, bound, stacks, cancel, held,
                 cpc, cslot, tvict, cvict>>

\* Tell the caller THREAD_READY and run tfxn(), or THREAD_FAILED and leave
Report(s) ==
  /\ tpc[s] \in {"registered", "failing"}
  /\ Touch(s)
  /\ state' = [state EXCEPT ![s] =
                 IF tpc[s] = "registered" THEN "READY" ELSE "FAILED"]
  /\ Signal(s)
  /\ tpc' = [tpc EXCEPT ![s] =
               IF tpc[s] = "registered" THEN "running" ELSE "exiting"]
  /\ UNCHANGED <<launched, kind, sw, tid, bound, stacks, cancel, held, cpc,
                 cslot, tvict, cvict>>

\* tfxn() returns
TfxnReturns(s) ==
  /\ tpc[s] = "running"
  /\ tpc' = [tpc EXCEPT ![s] = "exiting"]
  /\ UNCHANGED <<launched, kind, sw, state, waiters, tid, bound, stacks,
                 cancel, held, cpc, cslot, tvict, cvict, touched>>

\* A cancellation point is reached, in tfxn() or in the wait below: the thread
\* ends there, without the exit protocol
Cancelled(s) ==
  /\ s \in cancel
  /\ tpc[s] \in {"running", "exiting", "waiting"}
  /\ tpc' = [tpc EXCEPT ![s] = "gone"]
  /\ waiters' = [waiters EXCEPT ![s] = @ \ {"thread"}]
  /\ UNCHANGED <<launched, kind, sw, state, tid, bound, stacks, cancel, held,
                 cpc, cslot, tvict, cvict, touched>>

\* "don't allow a race": not yet confirmed, so sleep on the condition
ExitWait(s) ==
  /\ \/ tpc[s] = "exiting"
     \/ tpc[s] = "waiting" /\ "thread" \notin waiters[s]
  /\ state[s] # "CONFIRMED"
  /\ Touch(s)
  /\ waiters' = [waiters EXCEPT ![s] = @ \cup {"thread"}]
  /\ tpc' = [tpc EXCEPT ![s] = "waiting"]
  /\ UNCHANGED <<launched, kind, sw, state, tid, bound, stacks, cancel, held,
                 cpc, cslot, tvict, cvict>>

\* Mutant of ExitConfirmed: "in case that exited really quickly" is forgotten
ExitUnconfirmed(s) ==
  /\ tpc[s] = "exiting"
  /\ Touch(s)
  /\ tpc' = [tpc EXCEPT ![s] = IF kind[s] = "detached" THEN "cleanup" ELSE "gone"]
  /\ UNCHANGED <<launched, kind, sw, state, waiters, tid, bound, stacks,
                 cancel, held, cpc, cslot, tvict, cvict>>

\* Confirmed: a joinable thread is done, a detached one cleans up after itself
ExitConfirmed(s) ==
  /\ \/ tpc[s] = "exiting"
     \/ tpc[s] = "waiting" /\ "thread" \notin waiters[s]
  /\ state[s] = "CONFIRMED"
  /\ Touch(s)
  /\ tpc' = [tpc EXCEPT ![s] = IF kind[s] = "detached" THEN "cleanup" ELSE "gone"]
  /\ UNCHANGED <<launched, kind, sw, state, waiters, tid, bound, stacks,
                 cancel, held, cpc, cslot, tvict, cvict>>

\* Mutant of RemoveSelf: the wrapper goes but its entry stays
RemoveSelfKeepsEntry(s) ==
  /\ tpc[s] = "cleanup"
  /\ tvict' = [tvict EXCEPT ![s] = s]
  /\ Touch(s)
  /\ tpc' = [tpc EXCEPT ![s] = "freeing"]
  /\ UNCHANGED <<launched, kind, sw, state, waiters, tid, bound, stacks, cancel,
                 held, cpc, cslot, cvict>>

\* remove_thread_stack(pthread_self()): without an entry the thread frees its
\* own wrapper, with one it frees the wrapper of the entry
RemoveSelf(s) ==
  /\ tpc[s] = "cleanup"
  /\ IF Matches(tid[s]) = {}
     THEN /\ tvict' = [tvict EXCEPT ![s] = s]
          /\ UNCHANGED stacks
     ELSE /\ tvict' = [tvict EXCEPT ![s] = FirstMatch(tid[s])]
          /\ stacks' = stacks \ {FirstMatch(tid[s])}
  /\ Touch(s)
  /\ tpc' = [tpc EXCEPT ![s] = "freeing"]
  /\ UNCHANGED <<launched, kind, sw, state, waiters, tid, bound, cancel, held,
                 cpc, cslot, cvict>>

\* free_stack_wrapper(), and the thread ends; nobody joins a detached thread
FreeSelf(s) ==
  /\ tpc[s] = "freeing"
  /\ FreeWrapper(tvict[s])
  /\ tpc' = [tpc EXCEPT ![s] = "gone"]
  /\ bound' = bound \ {s}
  /\ UNCHANGED <<launched, kind, state, waiters, tid, stacks, cancel, held,
                 cpc, cslot, tvict, cvict>>

\* pthread_cond_wait() may return without a signal
SpuriousWakeup(s) ==
  \E w \in waiters[s] :
    /\ waiters' = [waiters EXCEPT ![s] = @ \ {w}]
    /\ UNCHANGED <<launched, kind, sw, state, tpc, tid, bound, stacks, cancel,
                   held, cpc, cslot, tvict, cvict, touched>>

CallerStep(c) ==
  \/ NewFailsEarly(c)
  \/ \E k \in Kinds : NewFailsCreate(c, k)
  \/ \E k \in Kinds, t \in Tids : New(c, k, t)
  \/ ConfirmWait(c)
  \/ Confirm(c)
  \/ FreeFailed(c)
  \/ \E s \in held : BeginReap(c, s)
  \/ Join(c)
  \/ Remove(c)
  \/ FreeRemoved(c)

ThreadStep(s) ==
  \/ SetupSigstack(s)
  \/ SetupSigstackFails(s)
  \/ Report(s)
  \/ TfxnReturns(s)
  \/ Cancelled(s)
  \/ ExitWait(s)
  \/ ExitConfirmed(s)
  \/ RemoveSelf(s)
  \/ FreeSelf(s)

Next ==
  \/ \E c \in Callers : CallerStep(c)
  \/ \E s \in Slots : ThreadStep(s) \/ SpuriousWakeup(s)

Spec == Init /\ [][Next]_vars

\* Threads that can run do run: the scheduler starves nobody. Whether tfxn()
\* ever returns is its own business, hence no fairness on TfxnReturns; the
\* cancellation of a thread takes effect at its next cancellation point.
Fairness ==
  /\ \A c \in Callers :
       WF_vars(ConfirmWait(c) \/ Confirm(c) \/ FreeFailed(c) \/ Join(c)
               \/ Remove(c) \/ FreeRemoved(c))
  /\ \A s \in Slots :
       /\ WF_vars(SetupSigstack(s) \/ SetupSigstackFails(s) \/ Report(s)
                  \/ ExitWait(s) \/ ExitConfirmed(s) \/ RemoveSelf(s) \/ FreeSelf(s))
       /\ WF_vars(Cancelled(s))

FairSpec == Spec /\ Fairness

-----------------------------------------------------------------------------

\* No stack_wrapper is used or released once it has been released: the caller
\* leaves confirm_traceable_thread(), the thread its exit protocol and the
\* collector remove_thread_stack() on a wrapper that is still there.
NoUseAfterFree == touched = {}

\* Every entry of thread_stacks leads to a wrapper that is still allocated: the
\* wrapper is released after its entry is unlinked, whoever does either. Walks
\* that no removal can meet (threads.c:94) follow ts->sw to memory that is there.
\* log_tstk() takes no lock (threads.c:39-53): the entry it stands on may be freed
\* under it, of which this says nothing.
EntriesLeadToLiveWrappers == \A s \in stacks : sw[s] = "live"

\* Nothing is left behind: when a thread has ended, nobody holds it for
\* collection and no caller is working on it, its wrapper has been released and
\* its entry is gone from thread_stacks.
NothingLeaks ==
  \A s \in Slots :
    /\ tpc[s] = "gone"
    /\ s \notin held
    /\ \A c \in Callers : cslot[c] = s => cpc[c] = "idle"
    => sw[s] = "freed" /\ s \notin stacks

\* A caller of new_traceable_*() always gets its answer: neither side of the
\* confirmation misses a wakeup, although both use one condition variable.
LaunchesReturn ==
  \A c \in Callers : cpc[c] \in {"confirm", "waiting"} ~> cpc[c] = "idle"

\* A detached thread whose function has returned goes away: stack_wrapperfxn()
\* does not sleep through the confirmation it waits for at its end.
DetachedThreadsEnd ==
  \A s \in Slots : tpc[s] = "exiting" /\ kind[s] = "detached" ~> tpc[s] = "gone"

\* Both sides of a launch come to their end.
LaunchesFinish == LaunchesReturn /\ DetachedThreadsEnd
=============================================================================
