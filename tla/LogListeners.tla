---------------------------- MODULE LogListeners ----------------------------
(***************************************************************************)
(* libdank/modules/logging/logging.c: the listeners of the log. A client   *)
(* of the control server that asks for log_dump gets a listener, a ring of *)
(* messages that every logging thread fills and one drone empties.         *)
(*                                                                         *)
(* Logging must not block, so inner_vflog() only tries the locks: a        *)
(* message is lost when listener_lock or the listener's own lock is taken. *)
(* Messages are numbered in the order they are logged, those that some     *)
(* listener queues: one that all of them drop leaves its number to the     *)
(* next. 0 is the sentinel of stop_log_server(), -k stands for "k messages *)
(* dropped".                                                               *)
(*                                                                         *)
(* Reader r stands for the drone that runs srv_dump_log() and for its      *)
(* listener. Who holds listener_lock to walk the listeners does not        *)
(* matter: there is one walk at a time. The order of a walk, the list's,   *)
(* is left open.                                                           *)
(***************************************************************************)
EXTENDS Integers

CONSTANTS Readers,    \* drones that may run log_dump
          NoReader,   \* none of them
          QueueSize,  \* MSG_QUEUE_SZ
          MaxMsgs,    \* bound: messages queued on a listener
          MaxDrops,   \* bound: drops a listener has to tell of when a message is logged
          MaxDumps    \* bound: log_dump commands

ASSUME LogAssumption ==
  /\ NoReader \notin Readers
  /\ QueueSize \in Nat \ {0, 1}
  /\ MaxMsgs \in Nat /\ MaxDrops \in Nat /\ MaxDumps \in Nat

Slots == 0..(QueueSize - 1)
NoSlot == -1

\* inc_qindex()
inc_qindex(i) == (i + 1) % QueueSize

VARIABLES
  srv,         \* where init_log_server() and stop_log_server() are
  prohibit,    \* prohibit_new_listeners
  listeners,   \* the list of listeners
  locked,      \* listener_lock is held by a walk
  todo,        \* the listeners the walk has not come to
  tosignal,    \* the listener whose condition it is about to signal
  wmsg,        \* the message it carries
  logged,      \* messages queued on some listener so far
  dumps,       \* log_dump commands so far
  pc,          \* reader -> where it is
  asleep,      \* readers in pthread_cond_wait()
  head, tail,  \* reader -> l->head, l->tail
  queue,       \* reader -> l->msg_queue
  dropped,     \* reader -> l->dropped
  lm,          \* reader -> the slot l->lm points to
  hand,        \* reader -> the message l->lm led to when the lock was given up
  last,        \* reader -> the last message it took
  owed,        \* reader -> messages offered to it and not yet accounted for
  missed       \* readers that did not get the sentinel

walkvars == <<locked, todo, tosignal, wmsg>>
counts == <<logged, dumps>>
ringvars == <<head, tail, queue, dropped, lm, hand, last, owed>>
vars == <<srv, prohibit, listeners, walkvars, counts, pc, asleep, ringvars, missed>>

\* The listener is on the list, from create_listener() to purge_listener()
Linked == {"block", "held", "wait", "write", "purge"}

ServerType ==
  /\ srv \in {"down", "reg", "up", "stop", "walk", "del"}
  /\ listeners \subseteq Readers
  /\ todo \subseteq Readers
  /\ tosignal \in Readers \cup {NoReader}
  /\ wmsg \in 0..MaxMsgs
  /\ logged \in 0..MaxMsgs
  /\ dumps \in 0..MaxDumps
  /\ asleep \subseteq Readers
  /\ missed \subseteq Readers

RingType ==
  /\ pc \in [Readers -> {"off", "create"} \cup Linked]
  /\ head \in [Readers -> Slots]
  /\ tail \in [Readers -> Slots]
  /\ queue \in [Readers -> [Slots -> Int]]
  /\ dropped \in [Readers -> Nat]
  /\ lm \in [Readers -> Slots \cup {NoSlot}]
  /\ hand \in [Readers -> Int]
  /\ last \in [Readers -> Nat]
  /\ owed \in [Readers -> Nat]

\* The values of the variables; no count is ever below zero
TypeOK ==
  /\ prohibit \in BOOLEAN
  /\ locked \in BOOLEAN
  /\ ServerType
  /\ RingType

Init ==
  /\ srv = "down"
  /\ prohibit = TRUE
  /\ listeners = {}
  /\ locked = FALSE /\ todo = {} /\ tosignal = NoReader /\ wmsg = 0
  /\ logged = 0 /\ dumps = 0
  /\ pc = [r \in Readers |-> "off"]
  /\ asleep = {}
  /\ head = [r \in Readers |-> 0]
  /\ tail = [r \in Readers |-> 0]
  /\ queue = [r \in Readers |-> [i \in Slots |-> 0]]
  /\ dropped = [r \in Readers |-> 0]
  /\ lm = [r \in Readers |-> NoSlot]
  /\ hand = [r \in Readers |-> 0]
  /\ last = [r \in Readers |-> 0]
  /\ owed = [r \in Readers |-> 0]
  /\ missed = {}

-----------------------------------------------------------------------------
(* inner_vflog() and stop_log_server(): a walk over the listeners.         *)

\* listener_log() got listener_lock; without it the message is lost, which
\* changes nothing here
Log ==
  /\ ~locked
  /\ logged < MaxMsgs /\ \A r \in Readers : dropped[r] < MaxDrops
  /\ listeners # {}
  /\ locked' = TRUE
  /\ todo' = listeners
  /\ wmsg' = logged + 1
  /\ UNCHANGED <<srv, prohibit, listeners, tosignal, counts, pc, asleep, ringvars,
                 missed>>

\* A listener goes without the message
Miss(r) == missed' = IF wmsg = 0 THEN missed \cup {r} ELSE missed

\* enqueue_msg(): trylock fails, the reader has the lock
EnqueueContended(r) ==
  /\ pc[r] = "held"
  /\ Miss(r)
  /\ UNCHANGED <<tosignal, logged, ringvars>>

\* Mutant of EnqueueQueued: every slot is used, the ring is never full
EnqueueQueuedFull(r) ==
  /\ pc[r] # "held"
  /\ queue' = [queue EXCEPT ![r][tail[r]] = wmsg]
  /\ tail' = [tail EXCEPT ![r] = inc_qindex(@)]
  /\ logged' = IF wmsg > logged THEN wmsg ELSE logged
  /\ tosignal' = r
  /\ owed' = [owed EXCEPT ![r] = @ + 1]
  /\ UNCHANGED <<head, dropped, lm, hand, last, missed>>

\* enqueue_msg(): there is room
EnqueueQueued(r) ==
  /\ pc[r] # "held"
  /\ inc_qindex(tail[r]) # head[r]
  /\ queue' = [queue EXCEPT ![r][tail[r]] = wmsg]
  /\ tail' = [tail EXCEPT ![r] = inc_qindex(@)]
  /\ logged' = IF wmsg > logged THEN wmsg ELSE logged
  /\ tosignal' = r
  /\ owed' = [owed EXCEPT ![r] = @ + 1]
  /\ UNCHANGED <<head, dropped, lm, hand, last, missed>>

\* enqueue_msg(): the ring is full; no wakeup
EnqueueDropped(r) ==
  /\ pc[r] # "held"
  /\ inc_qindex(tail[r]) = head[r]
  /\ dropped' = [dropped EXCEPT ![r] = @ + 1]
  /\ owed' = [owed EXCEPT ![r] = @ + 1]
  /\ Miss(r)
  /\ UNCHANGED <<tosignal, logged, head, tail, queue, lm, hand, last>>

\* enqueue_all(): the next listener
Enqueue(r) ==
  /\ r \in todo
  /\ tosignal = NoReader
  /\ todo' = todo \ {r}
  /\ EnqueueContended(r) \/ EnqueueQueued(r) \/ EnqueueDropped(r)
  /\ UNCHANGED <<srv, prohibit, listeners, locked, wmsg, dumps, pc, asleep>>

\* enqueue_msg(), after it has given up the listener's lock
Signal ==
  /\ tosignal # NoReader
  /\ asleep' = asleep \ {tosignal}
  /\ tosignal' = NoReader
  /\ UNCHANGED <<srv, prohibit, listeners, locked, todo, wmsg, counts, pc,
                 ringvars, missed>>

\* listener_lock is given up; stop_log_server() goes on to delcommands()
WalkDone ==
  /\ locked
  /\ todo = {}
  /\ tosignal = NoReader
  /\ locked' = FALSE
  /\ srv' = IF srv = "walk" THEN "del" ELSE srv
  /\ UNCHANGED <<prohibit, listeners, todo, tosignal, wmsg, counts, pc, asleep,
                 ringvars, missed>>

-----------------------------------------------------------------------------
(* init_log_server() and stop_log_server(). The commands are registered    *)
(* one by one, log_dump first; delcommand() waits until nobody runs it.    *)

Idle == \A r \in Readers : pc[r] = "off"

InitLogServer ==
  /\ srv = "down"
  /\ srv' = "reg"
  /\ prohibit' = FALSE
  /\ UNCHANGED <<listeners, walkvars, counts, pc, asleep, ringvars, missed>>

RegDone ==
  /\ srv = "reg"
  /\ srv' = "up"
  /\ UNCHANGED <<prohibit, listeners, walkvars, counts, pc, asleep, ringvars, missed>>

\* regcommands() fails and has taken log_dump back
RegFails ==
  /\ srv = "reg"
  /\ Idle
  /\ srv' = "down"
  /\ prohibit' = TRUE
  /\ UNCHANGED <<listeners, walkvars, counts, pc, asleep, ringvars, missed>>

StopBegin ==
  /\ srv = "up"
  /\ srv' = "stop"
  /\ UNCHANGED <<prohibit, listeners, walkvars, counts, pc, asleep, ringvars, missed>>

\* Mutant of StopLock: new listeners stay welcome
StopLockOpen ==
  /\ srv = "stop"
  /\ ~locked
  /\ srv' = "walk"
  /\ locked' = TRUE
  /\ todo' = listeners
  /\ wmsg' = 0
  /\ UNCHANGED <<prohibit, listeners, tosignal, counts, pc, asleep, ringvars, missed>>

\* "Killing all logdumpers": the sentinel goes round
StopLock ==
  /\ srv = "stop"
  /\ ~locked
  /\ srv' = "walk"
  /\ prohibit' = TRUE
  /\ locked' = TRUE
  /\ todo' = listeners
  /\ wmsg' = 0
  /\ UNCHANGED <<listeners, tosignal, counts, pc, asleep, ringvars, missed>>

\* delcommands() returns
Deleted ==
  /\ srv = "del"
  /\ Idle
  /\ srv' = "down"
  /\ UNCHANGED <<prohibit, listeners, walkvars, counts, pc, asleep, ringvars, missed>>

-----------------------------------------------------------------------------
(* A drone in srv_dump_log(): attach_listener().                           *)

\* create_listener(): the listener is allocated, all zero
DumpLog(r) ==
  /\ srv # "down"
  /\ pc[r] = "off"
  /\ dumps < MaxDumps
  /\ dumps' = dumps + 1
  /\ pc' = [pc EXCEPT ![r] = "create"]
  /\ head' = [head EXCEPT ![r] = 0]
  /\ tail' = [tail EXCEPT ![r] = 0]
  /\ queue' = [queue EXCEPT ![r] = [i \in Slots |-> 0]]
  /\ dropped' = [dropped EXCEPT ![r] = 0]
  /\ lm' = [lm EXCEPT ![r] = NoSlot]
  /\ hand' = [hand EXCEPT ![r] = 0]
  /\ last' = [last EXCEPT ![r] = 0]
  /\ owed' = [owed EXCEPT ![r] = 0]
  /\ UNCHANGED <<srv, prohibit, listeners, walkvars, logged, asleep, missed>>

\* create_listener(): linked, or released again
CreateListener(r) ==
  /\ pc[r] = "create"
  /\ ~locked
  /\ IF prohibit
     THEN pc' = [pc EXCEPT ![r] = "off"] /\ UNCHANGED listeners
     ELSE pc' = [pc EXCEPT ![r] = "block"] /\ listeners' = listeners \cup {r}
  /\ UNCHANGED <<srv, prohibit, walkvars, counts, asleep, ringvars, missed>>

\* block_on_lmsg() gets the listener's lock, at its start or in the wait
Lock(r) ==
  /\ pc[r] = "block" \/ (pc[r] = "wait" /\ r \notin asleep)
  /\ pc' = [pc EXCEPT ![r] = "held"]
  /\ UNCHANGED <<srv, prohibit, listeners, walkvars, counts, asleep, ringvars, missed>>

\* Mutant of ReportDrops: the count is not reset
ReportDropsAgain(r) ==
  /\ pc[r] = "held"
  /\ lm[r] # NoSlot /\ dropped[r] > 0
  /\ queue' = [queue EXCEPT ![r][lm[r]] = -dropped[r]]
  /\ hand' = [hand EXCEPT ![r] = -dropped[r]]
  /\ pc' = [pc EXCEPT ![r] = "write"]
  /\ UNCHANGED <<srv, prohibit, listeners, walkvars, counts, asleep, head, tail,
                 dropped, lm, last, owed, missed>>

\* It tells of dropped messages in the slot it still has
ReportDrops(r) ==
  /\ pc[r] = "held"
  /\ lm[r] # NoSlot /\ dropped[r] > 0
  /\ dropped' = [dropped EXCEPT ![r] = 0]
  /\ queue' = [queue EXCEPT ![r][lm[r]] = -dropped[r]]
  /\ hand' = [hand EXCEPT ![r] = -dropped[r]]
  /\ pc' = [pc EXCEPT ![r] = "write"]
  /\ UNCHANGED <<srv, prohibit, listeners, walkvars, counts, asleep, head, tail,
                 lm, last, owed, missed>>

\* It gives the slot back, and has to wait
Wait(r) ==
  /\ pc[r] = "held"
  /\ lm[r] = NoSlot \/ dropped[r] = 0
  /\ head[r] = tail[r]
  /\ lm' = [lm EXCEPT ![r] = NoSlot]
  /\ pc' = [pc EXCEPT ![r] = "wait"]
  /\ asleep' = asleep \cup {r}
  /\ UNCHANGED <<srv, prohibit, listeners, walkvars, counts, head, tail, queue,
                 dropped, hand, last, owed, missed>>

\* Mutant of Take: the latest message first
TakeLatest(r) ==
  LET new == (tail[r] + QueueSize - 1) % QueueSize IN
  /\ pc[r] = "held"
  /\ lm[r] = NoSlot \/ dropped[r] = 0
  /\ head[r] # tail[r]
  /\ lm' = [lm EXCEPT ![r] = new]
  /\ tail' = [tail EXCEPT ![r] = new]
  /\ hand' = [hand EXCEPT ![r] = queue[r][new]]
  /\ last' = [last EXCEPT ![r] = IF queue[r][new] > 0 THEN queue[r][new] ELSE @]
  /\ pc' = [pc EXCEPT ![r] = IF queue[r][new] = 0 THEN "purge" ELSE "write"]
  /\ UNCHANGED <<srv, prohibit, listeners, walkvars, counts, asleep, head,
                 queue, dropped, owed, missed>>

\* It takes the next message; the sentinel ends the dump with a last line
Take(r) ==
  LET msg == queue[r][head[r]] IN
  /\ pc[r] = "held"
  /\ lm[r] = NoSlot \/ dropped[r] = 0
  /\ head[r] # tail[r]
  /\ lm' = [lm EXCEPT ![r] = head[r]]
  /\ head' = [head EXCEPT ![r] = inc_qindex(@)]
  /\ hand' = [hand EXCEPT ![r] = msg]
  /\ last' = [last EXCEPT ![r] = IF msg > 0 THEN msg ELSE @]
  /\ pc' = [pc EXCEPT ![r] = IF msg = 0 THEN "purge" ELSE "write"]
  /\ UNCHANGED <<srv, prohibit, listeners, walkvars, counts, asleep, tail,
                 queue, dropped, owed, missed>>

\* The messages a line stands for
Weight(msg) == IF msg < 0 THEN -msg ELSE 1

\* Writen() of what l->lm leads to, without any lock: done, or the client is gone
Write(r) ==
  /\ pc[r] = "write"
  /\ \/ /\ pc' = [pc EXCEPT ![r] = "block"]
        /\ owed' = [owed EXCEPT ![r] = @ - Weight(queue[r][lm[r]])]
     \/ /\ pc' = [pc EXCEPT ![r] = "purge"]
        /\ UNCHANGED owed
  /\ UNCHANGED <<srv, prohibit, listeners, walkvars, counts, asleep, head, tail,
                 queue, dropped, lm, hand, last, missed>>

\* Mutant of PurgeListener: it does not wait for listener_lock
PurgeListenerAtOnce(r) ==
  /\ pc[r] = "purge"
  /\ listeners' = listeners \ {r}
  /\ pc' = [pc EXCEPT ![r] = "off"]
  /\ missed' = missed \ {r}
  /\ UNCHANGED <<srv, prohibit, walkvars, counts, asleep, ringvars>>

\* purge_listener(): unlinked under listener_lock, then released by its only user
PurgeListener(r) ==
  /\ pc[r] = "purge"
  /\ ~locked
  /\ listeners' = listeners \ {r}
  /\ pc' = [pc EXCEPT ![r] = "off"]
  /\ missed' = missed \ {r}
  /\ UNCHANGED <<srv, prohibit, walkvars, counts, asleep, ringvars>>

\* pthread_cond_wait() may return without a signal
SpuriousWakeup(r) ==
  /\ r \in asleep
  /\ asleep' = asleep \ {r}
  /\ UNCHANGED <<srv, prohibit, listeners, walkvars, counts, pc, ringvars, missed>>

WalkStep == Signal \/ WalkDone \/ \E r \in Readers : Enqueue(r)

ReaderStep(r) ==
  \/ CreateListener(r) \/ Lock(r) \/ ReportDrops(r) \/ Wait(r) \/ Take(r)
  \/ Write(r) \/ PurgeListener(r)

Next ==
  \/ Log \/ WalkStep
  \/ InitLogServer \/ RegDone \/ RegFails \/ StopBegin \/ StopLock \/ Deleted
  \/ \E r \in Readers : DumpLog(r) \/ ReaderStep(r) \/ SpuriousWakeup(r)

Spec == Init /\ [][Next]_vars

\* The scheduler starves no thread, listener_lock is passed on, and clients read
\* what they are sent or go away
Fairness ==
  /\ WF_vars(WalkStep) /\ WF_vars(StopLock) /\ WF_vars(Deleted)
  /\ \A r \in Readers : WF_vars(ReaderStep(r))

FairSpec == Spec /\ Fairness

-----------------------------------------------------------------------------

\* Writen() in attach_listener() reads the message with no lock held, from a slot
\* that head has already left behind: no logging thread overwrites it meanwhile,
\* however many messages come in.
MessageInHandStays ==
  \A r \in Readers : pc[r] = "write" => queue[r][lm[r]] = hand[r]

\* The messages in the ring of r, the oldest first
Queued(r) == IF tail[r] >= head[r] THEN tail[r] - head[r]
             ELSE tail[r] - head[r] + QueueSize
Waiting(r, i) == queue[r][(head[r] + i) % QueueSize]

\* What a log_dump prints is in the order of logging, without repetition: the message
\* in hand stays what was taken, and the ring holds later and later messages, all
\* later than that one.
InOrder ==
  /\ MessageInHandStays
  /\ \A r \in Readers : pc[r] \in Linked =>
       \A i \in 0..(Queued(r) - 1) :
         Waiting(r, i) > 0 =>
           /\ Waiting(r, i) > last[r]
           /\ \A j \in 0..(i - 1) : Waiting(r, j) < Waiting(r, i)

\* enqueue_msg() and block_on_lmsg() account for every message that got the
\* locks: those the client has not seen yet are in the ring, in the drone's hand
\* or among those it will be told were dropped.
EveryMessageCounts ==
  \A r \in Readers : pc[r] \in Linked \ {"purge"} =>
    owed[r] = dropped[r] + Queued(r)
              + IF pc[r] = "write" THEN Weight(hand[r]) ELSE 0

\* A walk of enqueue_all() only meets listeners that are on the list and were not
\* released, although the signal goes out after the listener's lock is given up.
WalksMeetListeners ==
  locked => \A r \in Readers : (r \in todo \/ r = tosignal) => pc[r] \in Linked

\* The messages that wait in a ring, the oldest first, and what l->lm leads to while
\* it is written to the client
Backlogged(r) == [k \in 1..Queued(r) |-> Waiting(r, k - 1)]
Line(r) == IF pc[r] = "write" THEN queue[r][lm[r]] ELSE 0

\* The rings, seen as queues
Rings == INSTANCE Backlog WITH
           Clients <- Readers, Capacity <- QueueSize - 1, Messages <- 0..MaxMsgs,
           backlog <- [r \in Readers |-> Backlogged(r)],
           lost <- dropped,
           line <- [r \in Readers |-> Line(r)]

\* The ring of a listener is a queue of QueueSize - 1 messages: what enqueue_msg()
\* puts in comes out first in, first out, a message is refused and counted when the
\* queue is full and only then, and neither a notice of drops, which is written into
\* the ring's own slot, nor a logging thread touches what waits or is being written.
RingsImplementBacklog == Rings!Spec

\* stop_log_server() ends unless the sentinel was lost on some listener (which
\* enqueue_all() has a FIXME about) or messages are logged for ever: no dumper
\* sleeps through the sentinel, and none comes too late to be told. Logging that
\* goes on can keep a dumper from a sentinel in its ring: block_on_lmsg() reports
\* drops before it takes from the ring (logging.c:50-58), and a message dropped
\* during each report makes for the next one.
StopTerminates == (srv = "stop" ~> (srv = "down" \/ missed # {})) \/ []<><<Log>>_vars
=============================================================================
