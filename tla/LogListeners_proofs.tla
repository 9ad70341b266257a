------------------------ MODULE LogListeners_proofs ------------------------
(***************************************************************************)
(* Proofs about the listeners of the log, for every number of readers,     *)
(* messages and commands and for every size of the ring.                   *)
(*                                                                         *)
(* The ring keeps one slot free to tell full from empty. The slot the      *)
(* reader holds without a lock is the one just behind head (RingInv), and  *)
(* that is the one enqueue_msg() leaves free: nothing else protects the    *)
(* message in hand.                                                        *)
(***************************************************************************)
EXTENDS LogListeners, SequenceTheorems, TLAPS

\* The slot in hand is the one behind head, and holds what the reader saw
RingInv(r) ==
  /\ lm[r] # NoSlot => inc_qindex(lm[r]) = head[r]
  /\ pc[r] = "write" => lm[r] # NoSlot /\ queue[r][lm[r]] = hand[r]

\* Slot i holds a message that was not taken yet, and its place in the queue
InRing(r, i) ==
  IF head[r] <= tail[r] THEN head[r] <= i /\ i < tail[r]
  ELSE head[r] <= i \/ i < tail[r]
Place(r, i) ==
  IF head[r] <= i THEN i - head[r] ELSE i - head[r] + QueueSize

\* The ring holds messages and sentinels, no notices of drops
ValueInv(r) ==
  /\ last[r] <= logged
  /\ \A i \in Slots : InRing(r, i) => queue[r][i] >= 0 /\ queue[r][i] <= logged

\* Later places hold later messages
OrderInv(r) ==
  \A i \in Slots : InRing(r, i) /\ queue[r][i] > 0 =>
    /\ queue[r][i] > last[r]
    /\ \A j \in Slots :
         InRing(r, j) /\ Place(r, j) < Place(r, i) => queue[r][j] < queue[r][i]

\* A listener the walk has yet to come to has only older messages
FreshInv(r) ==
  locked /\ r \in todo /\ wmsg > 0 =>
    /\ last[r] < wmsg
    /\ \A i \in Slots : InRing(r, i) => queue[r][i] < wmsg

\* What a reader is owed
CountInv(r) ==
  pc[r] \notin {"off", "purge"} =>
    owed[r] = dropped[r] + Queued(r) + IF pc[r] = "write" THEN Weight(hand[r]) ELSE 0

\* The walk
WalkInv ==
  /\ listeners = {r \in Readers : pc[r] \in Linked}
  /\ todo \subseteq listeners
  /\ tosignal \in listeners \cup {NoReader}
  /\ ~locked => todo = {} /\ tosignal = NoReader
  /\ locked => wmsg <= logged + 1

IInv ==
  /\ TypeOK /\ WalkInv
  /\ \A r \in Readers :
       RingInv(r) /\ ValueInv(r) /\ OrderInv(r) /\ FreshInv(r) /\ CountInv(r)

-----------------------------------------------------------------------------
\* The indices.

\* inc_qindex() goes round the ring
LEMMA IncFacts ==
  ASSUME NEW i \in Slots
  PROVE  /\ inc_qindex(i) \in Slots
         /\ inc_qindex(i) = IF i = QueueSize - 1 THEN 0 ELSE i + 1
<1>1. QueueSize \in Nat \ {0}
  BY LogAssumption DEF LogAssumption
<1>2. CASE i = QueueSize - 1
  <2>1. QueueSize % QueueSize = 0
    BY <1>1
  <2> QED BY <1>1, <1>2, <2>1 DEF inc_qindex, Slots
<1>3. CASE i # QueueSize - 1
  <2>1. i + 1 \in 0..(QueueSize - 1)
    BY <1>1, <1>3 DEF Slots
  <2>2. (i + 1) % QueueSize = i + 1
    BY <1>1, <2>1
  <2> QED BY <1>1, <1>3, <2>1, <2>2 DEF inc_qindex, Slots
<1> QED BY <1>2, <1>3

\* The slot at a given place, which InOrder counts from head
LEMMA SlotAtPlace ==
  ASSUME NEW h \in Slots, NEW i \in Slots
  PROVE  (h + i) % QueueSize = IF h + i < QueueSize THEN h + i ELSE h + i - QueueSize
<1>1. QueueSize \in Nat \ {0}
  BY LogAssumption DEF LogAssumption
<1>2. CASE h + i < QueueSize
  <2>1. h + i \in 0..(QueueSize - 1)
    BY <1>1, <1>2 DEF Slots
  <2>2. (h + i) % QueueSize = h + i
    BY <1>1, <2>1
  <2> QED BY <2>2, <1>2
<1>3. CASE ~(h + i < QueueSize)
  <2> DEFINE k == h + i - QueueSize
  <2>1. k \in 0..(QueueSize - 1) /\ h + i = k + QueueSize
    BY <1>1, <1>3 DEF Slots
  <2>2. (k + QueueSize) % QueueSize = k
    <3> HIDE DEF k
    <3> QED BY <1>1, <2>1
  <2> QED BY <2>1, <2>2, <1>3
<1> QED BY <1>2, <1>3

\* The constants
LEMMA ConstFacts ==
  /\ QueueSize \in Nat /\ QueueSize > 1
  /\ MaxMsgs \in Nat /\ MaxDumps \in Nat
  /\ NoReader \notin Readers
  /\ NoSlot \in Int /\ NoSlot \notin Slots
  /\ Slots \subseteq Nat /\ 0 \in Slots
  BY LogAssumption DEF LogAssumption, NoSlot, Slots

-----------------------------------------------------------------------------
\* The initial state and the steps.

\* Without listeners there is nothing to show
LEMMA InitIInv == Init => IInv
<1> SUFFICES ASSUME Init PROVE IInv
  OBVIOUS
<1>1. TypeOK
  <2>1. prohibit \in BOOLEAN /\ locked \in BOOLEAN
    BY DEF Init
  <2>2. ServerType
    BY ConstFacts DEF Init, ServerType
  <2>3. RingType
    BY ConstFacts DEF Init, RingType, Linked
  <2> QED BY <2>1, <2>2, <2>3 DEF TypeOK
<1>2. WalkInv
  BY ConstFacts DEF Init, WalkInv, Linked
<1>3. ASSUME NEW r \in Readers
      PROVE  RingInv(r) /\ ValueInv(r) /\ OrderInv(r) /\ FreshInv(r) /\ CountInv(r)
  BY ConstFacts DEF Init, RingInv, ValueInv, OrderInv, FreshInv, CountInv, InRing,
     Linked
<1> QED BY <1>1, <1>2, <1>3 DEF IInv

-----------------------------------------------------------------------------
\* What a step leaves alone.

RingsOf(r) ==
  RingInv(r) /\ ValueInv(r) /\ OrderInv(r) /\ FreshInv(r) /\ CountInv(r)

SameRing(r) ==
  /\ pc'[r] = pc[r]
  /\ head'[r] = head[r] /\ tail'[r] = tail[r] /\ queue'[r] = queue[r]
  /\ dropped'[r] = dropped[r] /\ lm'[r] = lm[r] /\ hand'[r] = hand[r]
  /\ last'[r] = last[r] /\ owed'[r] = owed[r]

\* The types of one ring
LEMMA RingFacts ==
  ASSUME NEW r \in Readers, TypeOK
  PROVE  /\ head[r] \in Slots /\ tail[r] \in Slots /\ dropped[r] \in Nat
         /\ lm[r] \in Slots \cup {NoSlot} /\ hand[r] \in Int /\ last[r] \in Nat
         /\ owed[r] \in Nat /\ wmsg \in Nat /\ logged \in Nat
         /\ queue[r] \in [Slots -> Int]
  BY ConstFacts DEF TypeOK, ServerType, RingType

\* A step that leaves the ring of r alone, and does not put it before a walk,
\* keeps all that is said of it
LEMMA OthersKeep ==
  ASSUME NEW r \in Readers, IInv, SameRing(r), logged' \in Nat, logged' >= logged,
         locked' /\ r \in todo' => locked /\ r \in todo /\ wmsg' = wmsg
  PROVE  RingsOf(r)'
<1>1. RingsOf(r) /\ TypeOK
  BY DEF IInv, RingsOf
<1>a. logged \in Nat /\ last[r] \in Nat /\ \A i \in Slots : queue[r][i] \in Int
  BY <1>1, RingFacts
<1>2. RingInv(r)'
  BY <1>1 DEF RingsOf, RingInv, SameRing
<1>3. \A i \in Slots : InRing(r, i)' = InRing(r, i) /\ Place(r, i)' = Place(r, i)
  BY DEF InRing, Place, SameRing
<1>4. ValueInv(r)'
  BY <1>1, <1>3, <1>a DEF RingsOf, ValueInv, SameRing
<1>5. OrderInv(r)'
  BY <1>1, <1>3 DEF RingsOf, OrderInv, SameRing
<1>6. FreshInv(r)'
  BY <1>1, <1>3 DEF RingsOf, FreshInv, SameRing
<1>7. CountInv(r)'
  BY <1>1 DEF RingsOf, CountInv, SameRing, Queued
<1> QED BY <1>2, <1>4, <1>5, <1>6, <1>7 DEF RingsOf

\* The same when the step queues no message anywhere
LEMMA FrameKeeps ==
  ASSUME NEW r \in Readers, IInv, SameRing(r), logged' = logged,
         locked' /\ r \in todo' => locked /\ r \in todo /\ wmsg' = wmsg
  PROVE  RingsOf(r)'
<1>1. logged' \in Nat /\ logged' >= logged
  BY RingFacts DEF IInv
<1> QED BY <1>1, OthersKeep

\* At the start of a walk every ring holds older messages, or the walk carries
\* the sentinel
LEMMA StartOfWalk ==
  ASSUME NEW r \in Readers, IInv, SameRing(r), logged' = logged,
         wmsg' \in {0, logged + 1}
  PROVE  RingsOf(r)'
<1>1. RingsOf(r) /\ ServerType /\ RingType
  BY DEF IInv, RingsOf, TypeOK
<1>2. RingInv(r)'
  BY <1>1 DEF RingsOf, RingInv, SameRing
<1>3. \A i \in Slots : InRing(r, i)' = InRing(r, i) /\ Place(r, i)' = Place(r, i)
  BY DEF InRing, Place, SameRing
<1>4. logged \in Nat /\ last[r] \in Nat /\ \A i \in Slots : queue[r][i] \in Int
  BY <1>1, ConstFacts DEF ServerType, RingType
<1>5. ValueInv(r)'
  BY <1>1, <1>3, <1>4 DEF RingsOf, ValueInv, SameRing
<1>6. OrderInv(r)'
  BY <1>1, <1>3 DEF RingsOf, OrderInv, SameRing
<1>7. FreshInv(r)'
  BY <1>1, <1>3, <1>4 DEF RingsOf, FreshInv, ValueInv, SameRing
<1>8. CountInv(r)'
  BY <1>1 DEF RingsOf, CountInv, SameRing, Queued
<1> QED BY <1>2, <1>5, <1>6, <1>7, <1>8 DEF RingsOf

-----------------------------------------------------------------------------
\* The steps that change a ring.

\* enqueue_msg() with room in the ring: the new message is the last, and the slot
\* in hand is not touched
LEMMA QueuedKeeps ==
  ASSUME IInv, NEW r \in Readers, r \in todo, EnqueueQueued(r), todo' = todo \ {r},
         UNCHANGED pc
  PROVE  RingsOf(r)' /\ owed'[r] \in Nat
<1>1. RingsOf(r) /\ TypeOK /\ WalkInv
  BY DEF IInv, RingsOf
<1>a. PICK h \in Slots, t \in Slots, u \in Slots :
        h = head[r] /\ t = tail[r] /\ u = inc_qindex(t)
  BY <1>1, RingFacts, IncFacts
<1>2. /\ wmsg \in Nat /\ logged \in Nat /\ last[r] \in Nat
      /\ queue[r] \in [Slots -> Int] /\ owed[r] \in Nat
      /\ lm[r] \in Slots \cup {NoSlot}
  BY <1>1, RingFacts
<1>3. u = (IF t = QueueSize - 1 THEN 0 ELSE t + 1) /\ u # h
  BY <1>a, IncFacts DEF EnqueueQueued
<1>4. /\ head'[r] = h /\ tail'[r] = u /\ lm'[r] = lm[r] /\ hand'[r] = hand[r]
      /\ last'[r] = last[r] /\ dropped'[r] = dropped[r] /\ owed'[r] = owed[r] + 1
      /\ pc'[r] = pc[r]
      /\ queue'[r] = [queue[r] EXCEPT ![t] = wmsg]
  BY <1>1, <1>a DEF EnqueueQueued, TypeOK, RingType
<1>5. /\ queue'[r][t] = wmsg
      /\ \A i \in Slots : i # t => queue'[r][i] = queue[r][i]
  BY <1>2, <1>4
<1>6. /\ InRing(r, t)' /\ ~InRing(r, t)
      /\ \A i \in Slots : i # t => (InRing(r, i)' <=> InRing(r, i))
      /\ \A i \in Slots : InRing(r, i)' /\ i # t => Place(r, i)' < Place(r, t)'
      /\ \A i \in Slots : Place(r, i)' = Place(r, i)
  BY <1>a, <1>3, <1>4, ConstFacts DEF InRing, Place, Slots
<1>7. locked /\ logged' \in Nat /\ wmsg <= logged' /\ logged <= logged'
  BY <1>1, <1>2 DEF WalkInv, EnqueueQueued
<1>8. RingInv(r)'
  <2>1. lm[r] # NoSlot => lm[r] \in Slots /\ lm[r] # t
    BY <1>1, <1>2, <1>a, <1>3 DEF RingsOf, RingInv
  <2> QED BY <1>1, <1>a, <1>4, <1>5, <2>1 DEF RingsOf, RingInv
<1>9. ValueInv(r)'
  BY <1>1, <1>2, <1>4, <1>5, <1>6, <1>7 DEF RingsOf, ValueInv
<1>10. OrderInv(r)'
  <2> SUFFICES ASSUME NEW i \in Slots, InRing(r, i)', queue'[r][i] > 0
               PROVE  /\ queue'[r][i] > last[r]
                      /\ \A j \in Slots : InRing(r, j)' /\ Place(r, j)' < Place(r, i)'
                           => queue'[r][j] < queue'[r][i]
    BY <1>4 DEF OrderInv
  <2>1. CASE i = t
    <3>1. /\ last[r] < wmsg
          /\ \A j \in Slots : InRing(r, j) => queue[r][j] < wmsg
      BY <1>1, <1>5, <1>7, <2>1 DEF RingsOf, FreshInv
    <3>2. Place(r, t)' \in Int
      BY <1>2, <1>4, ConstFacts, SMTT(30) DEF Place, Slots
    <3>3. \A j \in Slots : InRing(r, j)' /\ Place(r, j)' < Place(r, i)' => j # t
      BY <2>1, <3>2
    <3> QED BY <1>5, <1>6, <2>1, <3>1, <3>3
  <2>2. CASE i # t
    <3>1. /\ queue[r][i] > last[r]
          /\ \A j \in Slots : InRing(r, j) /\ Place(r, j) < Place(r, i)
               => queue[r][j] < queue[r][i]
      BY <1>1, <1>5, <1>6, <2>2 DEF RingsOf, OrderInv
    <3>2. ~(Place(r, t)' < Place(r, i)')
      <4>1. Place(r, t)' \in Int /\ Place(r, i)' \in Int
        BY <1>2, <1>4, ConstFacts DEF Place, Slots
      <4> QED BY <4>1, <1>6, <2>2
    <3>3. \A j \in Slots : InRing(r, j)' /\ Place(r, j)' < Place(r, i)' =>
             j # t /\ InRing(r, j) /\ Place(r, j) < Place(r, i)
      BY <1>6, <3>2
    <3> QED BY <1>5, <2>2, <3>1, <3>3
  <2> QED BY <2>1, <2>2
<1>11. FreshInv(r)'
  <2>1. r \notin todo'
    OBVIOUS
  <2> QED BY <2>1 DEF FreshInv
<1>12. CountInv(r)'
  <2>1. Queued(r)' = Queued(r) + 1 /\ Queued(r) \in Int
    BY <1>a, <1>3, <1>4, ConstFacts DEF Queued, Slots
  <2>2. dropped[r] \in Int /\ hand[r] \in Int
    BY <1>1, RingFacts
  <2>3. Weight(hand[r]) \in Int
    BY <2>2 DEF Weight
  <2>4. pc[r] \notin {"off", "purge"} =>
          owed[r] = dropped[r] + Queued(r)
                    + IF pc[r] = "write" THEN Weight(hand[r]) ELSE 0
    BY <1>1 DEF RingsOf, CountInv
  <2>5. CASE pc[r] = "write"
    BY <1>2, <1>4, <2>1, <2>2, <2>3, <2>4, <2>5 DEF CountInv
  <2>6. CASE pc[r] # "write"
    BY <1>2, <1>4, <2>1, <2>2, <2>4, <2>6 DEF CountInv
  <2> QED BY <2>5, <2>6
<1> QED BY <1>2, <1>4, <1>8, <1>9, <1>10, <1>11, <1>12 DEF RingsOf

\* enqueue_msg() with a full ring: one more is dropped, and owed
LEMMA DroppedKeeps ==
  ASSUME IInv, NEW r \in Readers, EnqueueDropped(r), todo' = todo \ {r},
         UNCHANGED pc
  PROVE  RingsOf(r)' /\ owed'[r] \in Nat
<1>1. RingsOf(r) /\ TypeOK
  BY DEF IInv, RingsOf
<1>2. /\ head'[r] = head[r] /\ tail'[r] = tail[r] /\ lm'[r] = lm[r]
      /\ hand'[r] = hand[r] /\ last'[r] = last[r] /\ queue'[r] = queue[r]
      /\ logged' = logged /\ dropped'[r] = dropped[r] + 1 /\ owed'[r] = owed[r] + 1 /\ pc'[r] = pc[r]
  BY <1>1 DEF EnqueueDropped, TypeOK, RingType
<1>3. \A i \in Slots : InRing(r, i)' = InRing(r, i) /\ Place(r, i)' = Place(r, i)
  BY <1>2 DEF InRing, Place
<1>4. RingInv(r)' /\ ValueInv(r)' /\ OrderInv(r)'
  BY <1>1, <1>2, <1>3 DEF RingsOf, RingInv, ValueInv, OrderInv
<1>5. FreshInv(r)'
  BY DEF FreshInv
<1>6. CountInv(r)'
  <2>1. /\ head[r] \in Slots /\ tail[r] \in Slots /\ dropped[r] \in Nat
        /\ hand[r] \in Int /\ owed[r] \in Nat
    BY <1>1, RingFacts
  <2>2. Queued(r)' = Queued(r) /\ Queued(r) \in Int /\ Weight(hand[r]) \in Int
    BY <1>2, <2>1, ConstFacts DEF Queued, Slots, Weight
  <2>3. pc[r] \notin {"off", "purge"} =>
          owed[r] = dropped[r] + Queued(r)
                    + IF pc[r] = "write" THEN Weight(hand[r]) ELSE 0
    BY <1>1 DEF RingsOf, CountInv
  <2>4. CASE pc[r] = "write"
    BY <1>2, <2>1, <2>2, <2>3, <2>4 DEF CountInv
  <2>5. CASE pc[r] # "write"
    BY <1>2, <2>1, <2>2, <2>3, <2>5 DEF CountInv
  <2> QED BY <2>4, <2>5
<1>7. owed'[r] \in Nat
  BY <1>1, <1>2, RingFacts
<1> QED BY <1>4, <1>5, <1>6, <1>7 DEF RingsOf

\* block_on_lmsg() takes the message at head: its slot becomes the one in hand
LEMMA TakeKeeps ==
  ASSUME IInv, NEW r \in Readers, Take(r)
  PROVE  RingsOf(r)'
<1>1. RingsOf(r) /\ TypeOK
  BY DEF IInv, RingsOf
<1>a. PICK h \in Slots, t \in Slots, u \in Slots, m \in Int :
        /\ h = head[r] /\ t = tail[r] /\ u = inc_qindex(h)
        /\ m = queue[r][h]
  BY <1>1, RingFacts, IncFacts
<1>2. /\ last[r] \in Nat /\ queue[r] \in [Slots -> Int] /\ owed[r] \in Nat
      /\ dropped[r] \in Nat /\ logged \in Nat /\ wmsg \in Nat
  BY <1>1, RingFacts
<1>3. u = (IF h = QueueSize - 1 THEN 0 ELSE h + 1) /\ h # t /\ pc[r] = "held"
  BY <1>a, IncFacts DEF Take
<1>4. /\ head'[r] = u /\ tail'[r] = t /\ lm'[r] = h /\ hand'[r] = m
      /\ last'[r] = (IF m > 0 THEN m ELSE last[r])
      /\ dropped'[r] = dropped[r] /\ owed'[r] = owed[r]
      /\ pc'[r] = (IF m = 0 THEN "purge" ELSE "write")
      /\ queue'[r] = queue[r] /\ logged' = logged /\ locked' = locked
      /\ todo' = todo /\ wmsg' = wmsg
  BY <1>1, <1>a DEF Take, TypeOK, RingType, walkvars, counts
<1>5. /\ InRing(r, h)
      /\ \A i \in Slots : InRing(r, i)' => i # h /\ InRing(r, i)
      /\ \A i \in Slots : InRing(r, i)' => Place(r, i) = Place(r, i)' + 1
      /\ \A i \in Slots : InRing(r, i)' => Place(r, h) < Place(r, i)
      /\ \A i \in Slots : Place(r, i)' \in Int
  BY <1>a, <1>3, <1>4, ConstFacts DEF InRing, Place, Slots
<1>6. m >= 0 /\ m <= logged
  BY <1>1, <1>a, <1>5 DEF RingsOf, ValueInv
<1>7. RingInv(r)'
  BY <1>a, <1>4, ConstFacts DEF RingInv
<1>8. ValueInv(r)'
  BY <1>1, <1>2, <1>4, <1>5, <1>6 DEF RingsOf, ValueInv
<1>9. OrderInv(r)'
  <2> SUFFICES ASSUME NEW i \in Slots, InRing(r, i)', queue[r][i] > 0
               PROVE  /\ queue[r][i] > last'[r]
                      /\ \A j \in Slots : InRing(r, j)' /\ Place(r, j)' < Place(r, i)'
                           => queue[r][j] < queue[r][i]
    BY <1>4 DEF OrderInv
  <2>1. /\ queue[r][i] > last[r]
        /\ \A j \in Slots : InRing(r, j) /\ Place(r, j) < Place(r, i)
             => queue[r][j] < queue[r][i]
    BY <1>1, <1>5 DEF RingsOf, OrderInv
  <2>2. m < queue[r][i]
    BY <1>a, <1>5, <2>1
  <2>3. \A j \in Slots : InRing(r, j)' /\ Place(r, j)' < Place(r, i)' =>
           InRing(r, j) /\ Place(r, j) < Place(r, i)
    BY <1>5
  <2> QED BY <1>4, <2>1, <2>2, <2>3
<1>10. FreshInv(r)'
  BY <1>1, <1>a, <1>2, <1>4, <1>5 DEF RingsOf, FreshInv
<1>11. CountInv(r)'
  <2>1. Queued(r)' = Queued(r) - 1 /\ Queued(r) \in Int
    BY <1>a, <1>3, <1>4, ConstFacts DEF Queued, Slots
  <2>2. owed[r] = dropped[r] + Queued(r)
    BY <1>1, <1>2, <1>3, <2>1 DEF RingsOf, CountInv
  <2>3. Weight(m) = 1
    BY <1>6 DEF Weight
  <2>4. CASE m = 0
    BY <1>4, <2>4 DEF CountInv
  <2>5. CASE m # 0
    BY <1>2, <1>4, <2>1, <2>2, <2>3, <2>5 DEF CountInv
  <2> QED BY <2>4, <2>5
<1> QED BY <1>7, <1>8, <1>9, <1>10, <1>11 DEF RingsOf

\* The notice of dropped messages is put in the slot in hand, outside the queue
LEMMA ReportKeeps ==
  ASSUME IInv, NEW r \in Readers, ReportDrops(r)
  PROVE  RingsOf(r)'
<1>1. RingsOf(r) /\ TypeOK
  BY DEF IInv, RingsOf
<1>a. PICK h \in Slots, t \in Slots, k \in Slots, d \in Nat :
        h = head[r] /\ t = tail[r] /\ k = lm[r] /\ d = dropped[r] /\ d > 0
  BY <1>1, RingFacts DEF ReportDrops
<1>2. /\ last[r] \in Nat /\ queue[r] \in [Slots -> Int] /\ owed[r] \in Nat
  BY <1>1, RingFacts
<1>3. pc[r] = "held" /\ k # NoSlot /\ h = (IF k = QueueSize - 1 THEN 0 ELSE k + 1)
  BY <1>1, <1>a, IncFacts, ConstFacts DEF ReportDrops, RingsOf, RingInv
<1>4. /\ head'[r] = h /\ tail'[r] = t /\ lm'[r] = k /\ hand'[r] = -d
      /\ last'[r] = last[r] /\ dropped'[r] = 0 /\ owed'[r] = owed[r]
      /\ pc'[r] = "write" /\ queue'[r] = [queue[r] EXCEPT ![k] = -d]
      /\ logged' = logged /\ locked' = locked /\ todo' = todo /\ wmsg' = wmsg
  BY <1>1, <1>a DEF ReportDrops, TypeOK, RingType, walkvars, counts
<1>5. /\ ~InRing(r, k)
      /\ \A i \in Slots : InRing(r, i)' = InRing(r, i) /\ Place(r, i)' = Place(r, i)
  <2>1. ~InRing(r, k)
    BY <1>a, <1>3, ConstFacts DEF InRing, Slots
  <2>2. \A i \in Slots : InRing(r, i)' = InRing(r, i) /\ Place(r, i)' = Place(r, i)
    BY <1>a, <1>4 DEF InRing, Place
  <2> QED BY <2>1, <2>2
<1>6. /\ queue'[r][k] = -d
      /\ \A i \in Slots : InRing(r, i) => queue'[r][i] = queue[r][i]
  BY <1>2, <1>4, <1>5
<1>7. RingInv(r)'
  BY <1>1, <1>a, <1>3, <1>4, <1>6 DEF RingsOf, RingInv
<1>8. ValueInv(r)'
  BY <1>1, <1>4, <1>5, <1>6 DEF RingsOf, ValueInv
<1>9. OrderInv(r)'
  BY <1>1, <1>4, <1>5, <1>6 DEF RingsOf, OrderInv
<1>10. FreshInv(r)'
  BY <1>1, <1>4, <1>5, <1>6 DEF RingsOf, FreshInv
<1>11. CountInv(r)'
  <2>1. Queued(r)' = Queued(r) /\ Queued(r) \in Int
    BY <1>a, <1>4, ConstFacts DEF Queued, Slots
  <2>2. owed[r] = d + Queued(r)
    BY <1>1, <1>a, <1>3, <2>1 DEF RingsOf, CountInv
  <2>3. Weight(-d) = d
    BY <1>a DEF Weight
  <2> QED BY <1>a, <1>4, <2>1, <2>2, <2>3 DEF CountInv
<1> QED BY <1>7, <1>8, <1>9, <1>10, <1>11 DEF RingsOf

\* A reader that moves on with its ring as it was, perhaps giving up the slot it
\* had in hand
LEMMA QuietKeeps ==
  ASSUME IInv, NEW r \in Readers,
         head'[r] = head[r], tail'[r] = tail[r], queue'[r] = queue[r],
         dropped'[r] = dropped[r], last'[r] = last[r], owed'[r] = owed[r],
         lm'[r] \in {lm[r], NoSlot}, pc'[r] # "write",
         pc'[r] \in {"off", "purge"} \/ pc[r] \notin {"off", "purge", "write"},
         UNCHANGED <<logged, locked, todo, wmsg>>
  PROVE  RingsOf(r)'
<1>1. RingsOf(r)
  BY DEF IInv, RingsOf
<1>2. RingInv(r)'
  BY <1>1 DEF RingsOf, RingInv
<1>3. \A i \in Slots : InRing(r, i)' = InRing(r, i) /\ Place(r, i)' = Place(r, i)
  BY DEF InRing, Place
<1>4. ValueInv(r)'
  BY <1>1, <1>3 DEF RingsOf, ValueInv
<1>5. OrderInv(r)'
  BY <1>1, <1>3 DEF RingsOf, OrderInv
<1>6. FreshInv(r)'
  BY <1>1, <1>3 DEF RingsOf, FreshInv
<1>7. CountInv(r)'
  BY <1>1 DEF RingsOf, CountInv, Queued
<1> QED BY <1>2, <1>4, <1>5, <1>6, <1>7 DEF RingsOf

\* Writen() has sent the line in hand: the client is owed that much less, and the
\* rest is still a number of messages
LEMMA WrittenKeeps ==
  ASSUME IInv, NEW r \in Readers, Write(r), pc'[r] = "block",
         owed' = [owed EXCEPT ![r] = @ - Weight(queue[r][lm[r]])]
  PROVE  RingsOf(r)' /\ owed'[r] \in Nat
<1>1. RingsOf(r) /\ TypeOK
  BY DEF IInv, RingsOf
<1>2. /\ head'[r] = head[r] /\ tail'[r] = tail[r] /\ lm'[r] = lm[r]
      /\ last'[r] = last[r] /\ queue'[r] = queue[r] /\ dropped'[r] = dropped[r]
      /\ logged' = logged /\ locked' = locked /\ todo' = todo /\ wmsg' = wmsg
      /\ pc[r] = "write"
  BY DEF Write, walkvars, counts
<1>3. \A i \in Slots : InRing(r, i)' = InRing(r, i) /\ Place(r, i)' = Place(r, i)
  BY <1>2 DEF InRing, Place
<1>4. RingInv(r)' /\ ValueInv(r)' /\ OrderInv(r)' /\ FreshInv(r)'
  BY <1>1, <1>2, <1>3 DEF RingsOf, RingInv, ValueInv, OrderInv, FreshInv
<1>5. /\ head[r] \in Slots /\ tail[r] \in Slots /\ dropped[r] \in Nat
      /\ hand[r] \in Int /\ owed[r] \in Nat
  BY <1>1, RingFacts
<1>6. Queued(r) \in Nat /\ Queued(r)' = Queued(r) /\ Weight(hand[r]) \in Int
  BY <1>2, <1>5, ConstFacts DEF Queued, Slots, Weight
<1>7. owed'[r] = owed[r] - Weight(hand[r])
  BY <1>1, <1>2 DEF RingsOf, RingInv, TypeOK, RingType
<1>8. owed[r] = dropped[r] + Queued(r) + Weight(hand[r])
  BY <1>1, <1>2 DEF RingsOf, CountInv
<1>9. owed'[r] = dropped[r] + Queued(r)
  BY <1>5, <1>6, <1>7, <1>8
<1>10. CountInv(r)'
  BY <1>2, <1>5, <1>6, <1>9 DEF CountInv
<1> QED BY <1>4, <1>5, <1>6, <1>9, <1>10 DEF RingsOf

\* A new listener is all zero
LEMMA DumpKeeps ==
  ASSUME IInv, NEW r \in Readers, DumpLog(r)
  PROVE  RingsOf(r)'
<1>1. TypeOK /\ WalkInv
  BY DEF IInv
<1>2. /\ head'[r] = 0 /\ tail'[r] = 0 /\ queue'[r] = [i \in Slots |-> 0]
      /\ dropped'[r] = 0 /\ lm'[r] = NoSlot /\ hand'[r] = 0 /\ last'[r] = 0
      /\ owed'[r] = 0 /\ pc'[r] = "create" /\ logged' = logged /\ todo' = todo
  BY <1>1 DEF DumpLog, TypeOK, RingType, walkvars
<1>3. r \notin todo /\ logged \in Nat
  BY <1>1, RingFacts DEF DumpLog, WalkInv, Linked
<1>4. \A i \in Slots : ~InRing(r, i)'
  BY <1>2, ConstFacts DEF InRing, Slots
<1>5. RingInv(r)' /\ ValueInv(r)' /\ OrderInv(r)' /\ FreshInv(r)'
  BY <1>2, <1>3, <1>4 DEF RingInv, ValueInv, OrderInv, FreshInv
<1>6. CountInv(r)'
  BY <1>2 DEF CountInv, Queued
<1> QED BY <1>5, <1>6 DEF RingsOf
-----------------------------------------------------------------------------
\* The step lemma.

\* inner_vflog(), enqueue_all() and the ends of a walk keep the invariant
LEMMA WalkKeepsIInv ==
  ASSUME IInv, Log \/ WalkStep
  PROVE  IInv'
<1>0. TypeOK /\ WalkInv
  BY DEF IInv
<1>1. ASSUME Log PROVE IInv'
  <2>1. prohibit' \in BOOLEAN /\ locked' \in BOOLEAN
    BY <1>0, <1>1 DEF Log, TypeOK, walkvars
  <2>2. ServerType'
    BY <1>0, <1>1, ConstFacts DEF Log, TypeOK, ServerType, walkvars, counts, WalkInv
  <2>3. RingType'
    BY <1>0, <1>1, ConstFacts DEF Log, TypeOK, RingType, ringvars, Linked
  <2>4. WalkInv'
    BY <1>0, <1>1, ConstFacts DEF Log, TypeOK, ServerType, RingType, walkvars,
       counts, WalkInv, Linked
  <2>5. ASSUME NEW x \in Readers PROVE RingsOf(x)'
    <3>1. SameRing(x)
      BY <1>1 DEF Log, SameRing, ringvars, counts
    <3> QED BY <1>1, <3>1, StartOfWalk DEF Log, counts
  <2> QED BY <2>1, <2>2, <2>3, <2>4, <2>5 DEF IInv, TypeOK, RingsOf
<1>2. ASSUME Signal PROVE IInv'
  <2>1. prohibit' \in BOOLEAN /\ locked' \in BOOLEAN
    BY <1>0, <1>2 DEF Signal, TypeOK, walkvars
  <2>2. ServerType'
    BY <1>0, <1>2, ConstFacts DEF Signal, TypeOK, ServerType, walkvars, counts,
       WalkInv
  <2>3. RingType'
    BY <1>0, <1>2, ConstFacts DEF Signal, TypeOK, RingType, ringvars, Linked
  <2>4. WalkInv'
    BY <1>0, <1>2, ConstFacts DEF Signal, TypeOK, ServerType, RingType, walkvars,
       counts, WalkInv, Linked
  <2>5. ASSUME NEW x \in Readers PROVE RingsOf(x)'
    <3>1. SameRing(x)
      BY <1>2 DEF Signal, SameRing, ringvars
    <3> QED BY <1>2, <3>1, FrameKeeps DEF Signal, walkvars, counts
  <2> QED BY <2>1, <2>2, <2>3, <2>4, <2>5 DEF IInv, TypeOK, RingsOf
<1>3. ASSUME WalkDone PROVE IInv'
  <2>1. prohibit' \in BOOLEAN /\ locked' \in BOOLEAN
    BY <1>0, <1>3 DEF WalkDone, TypeOK, walkvars
  <2>2. ServerType'
    BY <1>0, <1>3, ConstFacts DEF WalkDone, TypeOK, ServerType, walkvars, counts,
       WalkInv
  <2>3. RingType'
    BY <1>0, <1>3, ConstFacts DEF WalkDone, TypeOK, RingType, ringvars, Linked
  <2>4. WalkInv'
    BY <1>0, <1>3, ConstFacts DEF WalkDone, TypeOK, ServerType, RingType,
       walkvars, counts, WalkInv, Linked
  <2>5. ASSUME NEW x \in Readers PROVE RingsOf(x)'
    <3>1. SameRing(x)
      BY <1>3 DEF WalkDone, SameRing, ringvars
    <3> QED BY <1>3, <3>1, FrameKeeps DEF WalkDone, walkvars, counts
  <2> QED BY <2>1, <2>2, <2>3, <2>4, <2>5 DEF IInv, TypeOK, RingsOf
<1>4. ASSUME NEW r \in Readers, Enqueue(r) PROVE IInv'
  <2>1. prohibit' \in BOOLEAN /\ locked' \in BOOLEAN
    BY <1>0, <1>4 DEF Enqueue, TypeOK
  <2>a. logged' \in Nat /\ logged' >= logged
    BY <1>0, <1>4, RingFacts DEF Enqueue, EnqueueContended, EnqueueQueued,
       EnqueueDropped
  <2>2. ServerType'
    BY <1>0, <1>4, ConstFacts DEF Enqueue, EnqueueContended, EnqueueQueued,
       EnqueueDropped,
       Miss, TypeOK, ServerType, counts
  <2>3. RingsOf(r)' /\ owed'[r] \in Nat
    <3>1. CASE EnqueueContended(r)
      <4>1. SameRing(r)
        BY <1>4, <3>1 DEF Enqueue, EnqueueContended, SameRing, ringvars
      <4>2. owed'[r] \in Nat
        BY <1>0, <3>1, RingFacts DEF EnqueueContended, ringvars
      <4> QED BY <1>4, <2>a, <4>1, <4>2, OthersKeep DEF Enqueue, counts
    <3>2. CASE EnqueueQueued(r)
      BY <1>4, <3>2, QueuedKeeps DEF Enqueue, counts
    <3>3. CASE EnqueueDropped(r)
      BY <1>4, <3>3, DroppedKeeps DEF Enqueue, counts
    <3> QED BY <1>4, <3>1, <3>2, <3>3 DEF Enqueue
  <2>4. RingType'
    <3>1. CASE EnqueueContended(r)
      BY <1>0, <1>4, <3>1 DEF Enqueue, EnqueueContended, TypeOK, RingType, ringvars
    <3>2. CASE EnqueueQueued(r)
      <4>1. inc_qindex(tail[r]) \in Slots /\ wmsg \in Int
        BY <1>0, RingFacts, IncFacts
      <4> QED BY <1>0, <1>4, <3>2, <4>1 DEF Enqueue, EnqueueQueued, TypeOK, RingType
    <3>3. CASE EnqueueDropped(r)
      BY <1>0, <1>4, <3>3 DEF Enqueue, EnqueueDropped, TypeOK, RingType
    <3> QED BY <1>4, <3>1, <3>2, <3>3 DEF Enqueue
  <2>5. WalkInv'
    <3>1. tosignal' \in {NoReader, r}
      BY <1>4 DEF Enqueue, EnqueueContended, EnqueueQueued, EnqueueDropped
    <3>2. wmsg <= logged' + 1
      BY <1>0, <1>4, <2>a, RingFacts DEF Enqueue, WalkInv
    <3> QED BY <1>0, <1>4, <3>1, <3>2, ConstFacts DEF Enqueue, WalkInv, counts
  <2>6. ASSUME NEW x \in Readers, x # r PROVE RingsOf(x)'
    <3>1. SameRing(x)
      BY <1>0, <1>4, <2>6 DEF Enqueue, EnqueueContended, EnqueueQueued,
         EnqueueDropped,
         SameRing, ringvars, TypeOK, RingType
    <3> QED BY <1>4, <2>a, <3>1, OthersKeep DEF Enqueue, counts
  <2> QED BY <2>1, <2>2, <2>3, <2>4, <2>5, <2>6 DEF IInv, TypeOK, RingsOf
<1> QED BY <1>1, <1>2, <1>3, <1>4 DEF WalkStep

\* init_log_server() and stop_log_server() keep the invariant
LEMMA ServerKeepsIInv ==
  ASSUME IInv,
         InitLogServer \/ RegDone \/ RegFails \/ StopBegin \/ StopLock \/ Deleted
  PROVE  IInv'
<1>0. TypeOK /\ WalkInv
  BY DEF IInv
<1>1. ASSUME InitLogServer PROVE IInv'
  <2>1. prohibit' \in BOOLEAN /\ locked' \in BOOLEAN
    BY <1>0, <1>1 DEF InitLogServer, TypeOK, walkvars
  <2>2. ServerType'
    BY <1>0, <1>1, ConstFacts DEF InitLogServer, TypeOK, ServerType, walkvars,
       counts, WalkInv
  <2>3. RingType'
    BY <1>0, <1>1, ConstFacts DEF InitLogServer, TypeOK, RingType, ringvars, Linked
  <2>4. WalkInv'
    BY <1>0, <1>1, ConstFacts DEF InitLogServer, TypeOK, ServerType, RingType,
       walkvars, counts, WalkInv, Linked
  <2>5. ASSUME NEW x \in Readers PROVE RingsOf(x)'
    <3>1. SameRing(x)
      BY <1>1 DEF InitLogServer, SameRing, ringvars
    <3> QED BY <1>1, <3>1, FrameKeeps DEF InitLogServer, walkvars, counts
  <2> QED BY <2>1, <2>2, <2>3, <2>4, <2>5 DEF IInv, TypeOK, RingsOf
<1>2. ASSUME RegDone PROVE IInv'
  <2>1. prohibit' \in BOOLEAN /\ locked' \in BOOLEAN
    BY <1>0, <1>2 DEF RegDone, TypeOK, walkvars
  <2>2. ServerType'
    BY <1>0, <1>2, ConstFacts DEF RegDone, TypeOK, ServerType, walkvars, counts,
       WalkInv
  <2>3. RingType'
    BY <1>0, <1>2, ConstFacts DEF RegDone, TypeOK, RingType, ringvars, Linked
  <2>4. WalkInv'
    BY <1>0, <1>2, ConstFacts DEF RegDone, TypeOK, ServerType, RingType,
       walkvars, counts, WalkInv, Linked
  <2>5. ASSUME NEW x \in Readers PROVE RingsOf(x)'
    <3>1. SameRing(x)
      BY <1>2 DEF RegDone, SameRing, ringvars
    <3> QED BY <1>2, <3>1, FrameKeeps DEF RegDone, walkvars, counts
  <2> QED BY <2>1, <2>2, <2>3, <2>4, <2>5 DEF IInv, TypeOK, RingsOf
<1>3. ASSUME RegFails PROVE IInv'
  <2>1. prohibit' \in BOOLEAN /\ locked' \in BOOLEAN
    BY <1>0, <1>3 DEF RegFails, TypeOK, walkvars
  <2>2. ServerType'
    BY <1>0, <1>3, ConstFacts DEF RegFails, TypeOK, ServerType, walkvars, counts,
       WalkInv
  <2>3. RingType'
    BY <1>0, <1>3, ConstFacts DEF RegFails, TypeOK, RingType, ringvars, Linked
  <2>4. WalkInv'
    BY <1>0, <1>3, ConstFacts DEF RegFails, TypeOK, ServerType, RingType,
       walkvars, counts, WalkInv, Linked
  <2>5. ASSUME NEW x \in Readers PROVE RingsOf(x)'
    <3>1. SameRing(x)
      BY <1>3 DEF RegFails, SameRing, ringvars
    <3> QED BY <1>3, <3>1, FrameKeeps DEF RegFails, walkvars, counts
  <2> QED BY <2>1, <2>2, <2>3, <2>4, <2>5 DEF IInv, TypeOK, RingsOf
<1>4. ASSUME StopBegin PROVE IInv'
  <2>1. prohibit' \in BOOLEAN /\ locked' \in BOOLEAN
    BY <1>0, <1>4 DEF StopBegin, TypeOK, walkvars
  <2>2. ServerType'
    BY <1>0, <1>4, ConstFacts DEF StopBegin, TypeOK, ServerType, walkvars,
       counts, WalkInv
  <2>3. RingType'
    BY <1>0, <1>4, ConstFacts DEF StopBegin, TypeOK, RingType, ringvars, Linked
  <2>4. WalkInv'
    BY <1>0, <1>4, ConstFacts DEF StopBegin, TypeOK, ServerType, RingType,
       walkvars, counts, WalkInv, Linked
  <2>5. ASSUME NEW x \in Readers PROVE RingsOf(x)'
    <3>1. SameRing(x)
      BY <1>4 DEF StopBegin, SameRing, ringvars
    <3> QED BY <1>4, <3>1, FrameKeeps DEF StopBegin, walkvars, counts
  <2> QED BY <2>1, <2>2, <2>3, <2>4, <2>5 DEF IInv, TypeOK, RingsOf
<1>5. ASSUME StopLock PROVE IInv'
  <2>1. prohibit' \in BOOLEAN /\ locked' \in BOOLEAN
    BY <1>0, <1>5 DEF StopLock, TypeOK, walkvars
  <2>2. ServerType'
    BY <1>0, <1>5, ConstFacts DEF StopLock, TypeOK, ServerType, walkvars, counts,
       WalkInv
  <2>3. RingType'
    BY <1>0, <1>5, ConstFacts DEF StopLock, TypeOK, RingType, ringvars, Linked
  <2>4. WalkInv'
    BY <1>0, <1>5, ConstFacts DEF StopLock, TypeOK, ServerType, RingType,
       walkvars, counts, WalkInv, Linked
  <2>5. ASSUME NEW x \in Readers PROVE RingsOf(x)'
    <3>1. SameRing(x) /\ logged' \in Nat
      BY <1>0, <1>5, RingFacts DEF StopLock, SameRing, ringvars, counts
    <3> QED BY <1>5, <3>1, StartOfWalk DEF StopLock, counts
  <2> QED BY <2>1, <2>2, <2>3, <2>4, <2>5 DEF IInv, TypeOK, RingsOf
<1>6. ASSUME Deleted PROVE IInv'
  <2>1. prohibit' \in BOOLEAN /\ locked' \in BOOLEAN
    BY <1>0, <1>6 DEF Deleted, TypeOK, walkvars
  <2>2. ServerType'
    BY <1>0, <1>6, ConstFacts DEF Deleted, TypeOK, ServerType, walkvars, counts,
       WalkInv
  <2>3. RingType'
    BY <1>0, <1>6, ConstFacts DEF Deleted, TypeOK, RingType, ringvars, Linked
  <2>4. WalkInv'
    BY <1>0, <1>6, ConstFacts DEF Deleted, TypeOK, ServerType, RingType,
       walkvars, counts, WalkInv, Linked
  <2>5. ASSUME NEW x \in Readers PROVE RingsOf(x)'
    <3>1. SameRing(x)
      BY <1>6 DEF Deleted, SameRing, ringvars
    <3> QED BY <1>6, <3>1, FrameKeeps DEF Deleted, walkvars, counts
  <2> QED BY <2>1, <2>2, <2>3, <2>4, <2>5 DEF IInv, TypeOK, RingsOf
<1> QED BY <1>1, <1>2, <1>3, <1>4, <1>5, <1>6

\* A drone in srv_dump_log() keeps the invariant
LEMMA ReaderKeepsIInv ==
  ASSUME IInv, NEW r \in Readers, DumpLog(r) \/ ReaderStep(r) \/ SpuriousWakeup(r)
  PROVE  IInv'
<1>0. TypeOK /\ WalkInv
  BY DEF IInv
<1>1. ASSUME DumpLog(r) PROVE IInv'
  <2>1. prohibit' \in BOOLEAN /\ locked' \in BOOLEAN
    BY <1>0, <1>1 DEF DumpLog, TypeOK, walkvars
  <2>2. ServerType'
    BY <1>0, <1>1, ConstFacts DEF DumpLog, TypeOK, ServerType, walkvars, counts,
       WalkInv
  <2>3. RingType'
    BY <1>0, <1>1, ConstFacts DEF DumpLog, TypeOK, RingType, ringvars, Linked
  <2>4. WalkInv'
    BY <1>0, <1>1, ConstFacts DEF DumpLog, TypeOK, ServerType, RingType,
       walkvars, counts, WalkInv, Linked
  <2>5. RingsOf(r)'
    BY <1>0, <1>1, DumpKeeps DEF DumpLog, walkvars, counts, ringvars, TypeOK,
       RingType
  <2>6. ASSUME NEW x \in Readers, x # r PROVE RingsOf(x)'
    <3>1. SameRing(x)
      BY <1>0, <1>1, <2>6 DEF DumpLog, SameRing, ringvars, TypeOK, RingType
    <3> QED BY <1>1, <3>1, FrameKeeps DEF DumpLog, walkvars, counts
  <2> QED BY <2>1, <2>2, <2>3, <2>4, <2>5, <2>6 DEF IInv, TypeOK, RingsOf
<1>2. ASSUME CreateListener(r) PROVE IInv'
  <2>1. prohibit' \in BOOLEAN /\ locked' \in BOOLEAN
    BY <1>0, <1>2 DEF CreateListener, TypeOK, walkvars
  <2>2. ServerType'
    BY <1>0, <1>2, ConstFacts DEF CreateListener, TypeOK, ServerType, walkvars,
       counts, WalkInv
  <2>3. RingType'
    BY <1>0, <1>2, ConstFacts DEF CreateListener, TypeOK, RingType, ringvars, Linked
  <2>4. WalkInv'
    BY <1>0, <1>2, ConstFacts DEF CreateListener, TypeOK, ServerType, RingType,
       walkvars, counts, WalkInv, Linked
  <2>5. RingsOf(r)'
    BY <1>0, <1>2, QuietKeeps DEF CreateListener, walkvars, counts, ringvars,
       TypeOK, RingType
  <2>6. ASSUME NEW x \in Readers, x # r PROVE RingsOf(x)'
    <3>1. SameRing(x)
      BY <1>0, <1>2, <2>6 DEF CreateListener, SameRing, ringvars, TypeOK, RingType
    <3> QED BY <1>2, <3>1, FrameKeeps DEF CreateListener, walkvars, counts
  <2> QED BY <2>1, <2>2, <2>3, <2>4, <2>5, <2>6 DEF IInv, TypeOK, RingsOf
<1>3. ASSUME Lock(r) PROVE IInv'
  <2>1. prohibit' \in BOOLEAN /\ locked' \in BOOLEAN
    BY <1>0, <1>3 DEF Lock, TypeOK, walkvars
  <2>2. ServerType'
    BY <1>0, <1>3, ConstFacts DEF Lock, TypeOK, ServerType, walkvars, counts,
       WalkInv
  <2>3. RingType'
    BY <1>0, <1>3, ConstFacts DEF Lock, TypeOK, RingType, ringvars, Linked
  <2>4. WalkInv'
    BY <1>0, <1>3, ConstFacts DEF Lock, TypeOK, ServerType, RingType, walkvars,
       counts, WalkInv, Linked
  <2>5. RingsOf(r)'
    BY <1>0, <1>3, QuietKeeps DEF Lock, walkvars, counts, ringvars, TypeOK, RingType
  <2>6. ASSUME NEW x \in Readers, x # r PROVE RingsOf(x)'
    <3>1. SameRing(x)
      BY <1>0, <1>3, <2>6 DEF Lock, SameRing, ringvars, TypeOK, RingType
    <3> QED BY <1>3, <3>1, FrameKeeps DEF Lock, walkvars, counts
  <2> QED BY <2>1, <2>2, <2>3, <2>4, <2>5, <2>6 DEF IInv, TypeOK, RingsOf
<1>4. ASSUME ReportDrops(r) PROVE IInv'
  <2>1. prohibit' \in BOOLEAN /\ locked' \in BOOLEAN
    BY <1>0, <1>4 DEF ReportDrops, TypeOK, walkvars
  <2>2. ServerType'
    BY <1>0, <1>4, ConstFacts DEF ReportDrops, TypeOK, ServerType, walkvars,
       counts, WalkInv
  <2>3. RingType'
    BY <1>0, <1>4, ConstFacts DEF ReportDrops, TypeOK, RingType, ringvars, Linked
  <2>4. WalkInv'
    BY <1>0, <1>4, ConstFacts DEF ReportDrops, TypeOK, ServerType, RingType,
       walkvars, counts, WalkInv, Linked
  <2>5. RingsOf(r)'
    BY <1>0, <1>4, ReportKeeps DEF ReportDrops, walkvars, counts, ringvars,
       TypeOK, RingType
  <2>6. ASSUME NEW x \in Readers, x # r PROVE RingsOf(x)'
    <3>1. SameRing(x)
      BY <1>0, <1>4, <2>6 DEF ReportDrops, SameRing, ringvars, TypeOK, RingType
    <3> QED BY <1>4, <3>1, FrameKeeps DEF ReportDrops, walkvars, counts
  <2> QED BY <2>1, <2>2, <2>3, <2>4, <2>5, <2>6 DEF IInv, TypeOK, RingsOf
<1>5. ASSUME Wait(r) PROVE IInv'
  <2>1. prohibit' \in BOOLEAN /\ locked' \in BOOLEAN
    BY <1>0, <1>5 DEF Wait, TypeOK, walkvars
  <2>2. ServerType'
    BY <1>0, <1>5, ConstFacts DEF Wait, TypeOK, ServerType, walkvars, counts,
       WalkInv
  <2>3. RingType'
    BY <1>0, <1>5, ConstFacts DEF Wait, TypeOK, RingType, ringvars, Linked
  <2>4. WalkInv'
    BY <1>0, <1>5, ConstFacts DEF Wait, TypeOK, ServerType, RingType, walkvars,
       counts, WalkInv, Linked
  <2>5. RingsOf(r)'
    BY <1>0, <1>5, QuietKeeps DEF Wait, walkvars, counts, ringvars, TypeOK, RingType
  <2>6. ASSUME NEW x \in Readers, x # r PROVE RingsOf(x)'
    <3>1. SameRing(x)
      BY <1>0, <1>5, <2>6 DEF Wait, SameRing, ringvars, TypeOK, RingType
    <3> QED BY <1>5, <3>1, FrameKeeps DEF Wait, walkvars, counts
  <2> QED BY <2>1, <2>2, <2>3, <2>4, <2>5, <2>6 DEF IInv, TypeOK, RingsOf
<1>6. ASSUME Take(r) PROVE IInv'
  <2>1. prohibit' \in BOOLEAN /\ locked' \in BOOLEAN
    BY <1>0, <1>6 DEF Take, TypeOK, walkvars
  <2>2. ServerType'
    BY <1>0, <1>6, ConstFacts DEF Take, TypeOK, ServerType, walkvars, counts,
       WalkInv
  <2>3. RingType'
    <3>1. /\ head[r] \in Slots /\ inc_qindex(head[r]) \in Slots
          /\ queue[r][head[r]] \in Int
      BY <1>0, RingFacts, IncFacts
    <3>2. (IF queue[r][head[r]] > 0 THEN queue[r][head[r]] ELSE last[r]) \in Nat
      BY <1>0, <3>1, RingFacts
    <3> QED BY <1>0, <1>6, <3>1, <3>2 DEF Take, TypeOK, RingType, Linked
  <2>4. WalkInv'
    BY <1>0, <1>6, ConstFacts DEF Take, TypeOK, ServerType, RingType, walkvars,
       counts, WalkInv, Linked
  <2>5. RingsOf(r)'
    BY <1>0, <1>6, TakeKeeps DEF Take, walkvars, counts, ringvars, TypeOK, RingType
  <2>6. ASSUME NEW x \in Readers, x # r PROVE RingsOf(x)'
    <3>1. SameRing(x)
      BY <1>0, <1>6, <2>6 DEF Take, SameRing, ringvars, TypeOK, RingType
    <3> QED BY <1>6, <3>1, FrameKeeps DEF Take, walkvars, counts
  <2> QED BY <2>1, <2>2, <2>3, <2>4, <2>5, <2>6 DEF IInv, TypeOK, RingsOf
<1>7. ASSUME Write(r) PROVE IInv'
  <2>5. RingsOf(r)' /\ owed'[r] \in Nat
    <3>1. CASE pc' = [pc EXCEPT ![r] = "block"] /\
               owed' = [owed EXCEPT ![r] = @ - Weight(queue[r][lm[r]])]
      BY <1>0, <1>7, <3>1, WrittenKeeps DEF TypeOK, RingType
    <3>2. CASE pc' = [pc EXCEPT ![r] = "purge"] /\ UNCHANGED owed
      BY <1>0, <1>7, <3>2, QuietKeeps, RingFacts DEF Write, walkvars, counts,
         TypeOK, RingType
    <3> QED BY <1>7, <3>1, <3>2 DEF Write
  <2>1. prohibit' \in BOOLEAN /\ locked' \in BOOLEAN
    BY <1>0, <1>7 DEF Write, TypeOK, walkvars
  <2>2. ServerType'
    BY <1>0, <1>7, ConstFacts DEF Write, TypeOK, ServerType, walkvars, counts,
       WalkInv
  <2>3. RingType'
    BY <1>0, <1>7, <2>5 DEF Write, TypeOK, RingType, Linked
  <2>4. WalkInv'
    BY <1>0, <1>7, ConstFacts DEF Write, TypeOK, ServerType, RingType, walkvars,
       counts, WalkInv, Linked
  <2>6. ASSUME NEW x \in Readers, x # r PROVE RingsOf(x)'
    <3>1. SameRing(x)
      BY <1>0, <1>7, <2>6 DEF Write, SameRing, ringvars, TypeOK, RingType
    <3> QED BY <1>7, <3>1, FrameKeeps DEF Write, walkvars, counts
  <2> QED BY <2>1, <2>2, <2>3, <2>4, <2>5, <2>6 DEF IInv, TypeOK, RingsOf
<1>8. ASSUME PurgeListener(r) PROVE IInv'
  <2>1. prohibit' \in BOOLEAN /\ locked' \in BOOLEAN
    BY <1>0, <1>8 DEF PurgeListener, TypeOK, walkvars
  <2>2. ServerType'
    BY <1>0, <1>8, ConstFacts DEF PurgeListener, TypeOK, ServerType, walkvars,
       counts, WalkInv
  <2>3. RingType'
    BY <1>0, <1>8, ConstFacts DEF PurgeListener, TypeOK, RingType, ringvars, Linked
  <2>4. WalkInv'
    BY <1>0, <1>8, ConstFacts DEF PurgeListener, TypeOK, ServerType, RingType,
       walkvars, counts, WalkInv, Linked
  <2>5. RingsOf(r)'
    BY <1>0, <1>8, QuietKeeps DEF PurgeListener, walkvars, counts, ringvars,
       TypeOK, RingType
  <2>6. ASSUME NEW x \in Readers, x # r PROVE RingsOf(x)'
    <3>1. SameRing(x)
      BY <1>0, <1>8, <2>6 DEF PurgeListener, SameRing, ringvars, TypeOK, RingType
    <3> QED BY <1>8, <3>1, FrameKeeps DEF PurgeListener, walkvars, counts
  <2> QED BY <2>1, <2>2, <2>3, <2>4, <2>5, <2>6 DEF IInv, TypeOK, RingsOf
<1>9. ASSUME SpuriousWakeup(r) PROVE IInv'
  <2>1. prohibit' \in BOOLEAN /\ locked' \in BOOLEAN
    BY <1>0, <1>9 DEF SpuriousWakeup, TypeOK, walkvars
  <2>2. ServerType'
    BY <1>0, <1>9, ConstFacts DEF SpuriousWakeup, TypeOK, ServerType, walkvars,
       counts, WalkInv
  <2>3. RingType'
    BY <1>0, <1>9, ConstFacts DEF SpuriousWakeup, TypeOK, RingType, ringvars, Linked
  <2>4. WalkInv'
    BY <1>0, <1>9, ConstFacts DEF SpuriousWakeup, TypeOK, ServerType, RingType,
       walkvars, counts, WalkInv, Linked
  <2>5. ASSUME NEW x \in Readers PROVE RingsOf(x)'
    <3>1. SameRing(x)
      BY <1>9 DEF SpuriousWakeup, SameRing, ringvars
    <3> QED BY <1>9, <3>1, FrameKeeps DEF SpuriousWakeup, walkvars, counts
  <2> QED BY <2>1, <2>2, <2>3, <2>4, <2>5 DEF IInv, TypeOK, RingsOf
<1> QED BY <1>1, <1>2, <1>3, <1>4, <1>5, <1>6, <1>7, <1>8, <1>9 DEF ReaderStep

\* Every step keeps the invariant
LEMMA NextIInv == IInv /\ [Next]_vars => IInv'
<1> SUFFICES ASSUME IInv, [Next]_vars PROVE IInv'
  OBVIOUS
<1>1. CASE Next
  BY <1>1, WalkKeepsIInv, ServerKeepsIInv, ReaderKeepsIInv DEF Next
<1>2. CASE UNCHANGED vars
  <2>1. TypeOK' /\ WalkInv'
    BY <1>2 DEF IInv, TypeOK, ServerType, RingType, WalkInv, vars, walkvars,
       counts, ringvars
  <2>2. ASSUME NEW x \in Readers PROVE RingsOf(x)'
    <3>1. SameRing(x)
      BY <1>2 DEF SameRing, vars, ringvars
    <3> QED BY <1>2, <3>1, FrameKeeps DEF vars, walkvars, counts
  <2> QED BY <2>1, <2>2 DEF IInv, RingsOf
<1> QED BY <1>1, <1>2

\* The invariant holds throughout
LEMMA SpecIInv == Spec => []IInv
  BY InitIInv, NextIInv, PTL DEF Spec

-----------------------------------------------------------------------------
\* The rings are queues.

\* The sequence that a ring q stands for, from slot h up to slot t
InUse(h, t) == IF t >= h THEN t - h ELSE t - h + QueueSize
Ring(h, t, q) == [k \in 1..InUse(h, t) |-> q[(h + (k - 1)) % QueueSize]]

\* The slot of its message i + 1
At(h, i) == IF h + i < QueueSize THEN h + i ELSE h + i - QueueSize

\* Different messages have different slots
LEMMA AtFacts ==
  ASSUME NEW h \in Slots, NEW i \in Slots, NEW j \in Slots
  PROVE  /\ At(h, i) \in Slots
         /\ At(h, i) = At(h, j) => i = j
<1>1. /\ h \in Nat /\ i \in Nat /\ j \in Nat /\ QueueSize \in Nat
      /\ h < QueueSize /\ i < QueueSize /\ j < QueueSize
  BY ConstFacts DEF Slots
<1> QED BY <1>1 DEF At, Slots

\* The slot where the messages end
LEMMA EndFacts ==
  ASSUME NEW h \in Slots, NEW t \in Slots
  PROVE  InUse(h, t) \in Slots /\ At(h, InUse(h, t)) = t
<1>1. h \in Nat /\ t \in Nat /\ QueueSize \in Nat /\ h < QueueSize /\ t < QueueSize
  BY ConstFacts DEF Slots
<1> QED BY <1>1 DEF At, InUse, Slots

LEMMA RingIs ==
  ASSUME NEW h \in Slots, NEW t \in Slots, NEW q \in [Slots -> Int]
  PROVE  /\ InUse(h, t) \in 0..(QueueSize - 1)
         /\ Ring(h, t, q) \in Seq(Int) /\ Len(Ring(h, t, q)) = InUse(h, t)
         /\ \A k \in 1..InUse(h, t) : /\ At(h, k - 1) \in Slots
                                      /\ Ring(h, t, q)[k] = q[At(h, k - 1)]
<1>1. InUse(h, t) \in 0..(QueueSize - 1)
  BY ConstFacts DEF InUse, Slots
<1>2. ASSUME NEW k \in 1..InUse(h, t)
      PROVE  At(h, k - 1) \in Slots /\ (h + (k - 1)) % QueueSize = At(h, k - 1)
  <2>1. k - 1 \in Slots
    BY <1>1, ConstFacts DEF Slots
  <2>2. At(h, k - 1) \in Slots
    BY <2>1, ConstFacts DEF At, Slots
  <2> QED BY <2>1, <2>2, SlotAtPlace DEF At
<1>3. \A k \in 1..InUse(h, t) :
        Ring(h, t, q)[k] = q[At(h, k - 1)] /\ q[At(h, k - 1)] \in Int
  BY <1>2 DEF Ring
<1>4. Ring(h, t, q) \in [1..InUse(h, t) -> Int]
  BY <1>3 DEF Ring
<1>5. Ring(h, t, q) \in Seq(Int) /\ Len(Ring(h, t, q)) = InUse(h, t)
  <2>1. PICK n \in Nat : n = InUse(h, t)
    BY <1>1, ConstFacts
  <2> QED BY <2>1, <1>4
<1> QED BY <1>1, <1>2, <1>3, <1>5

\* With nothing between them
LEMMA RingEmpty ==
  ASSUME NEW h \in Slots, NEW q \in [Slots -> Int]
  PROVE  Ring(h, h, q) = <<>>
<1>1. InUse(h, h) = 0
  BY ConstFacts DEF InUse, Slots
<1>2. Ring(h, h, q) \in Seq(Int) /\ Len(Ring(h, h, q)) = 0
  BY <1>1, RingIs
<1> QED BY <1>2, EmptySeq

\* A message put in slot t is the last one, if there was room
LEMMA RingPut ==
  ASSUME NEW h \in Slots, NEW t \in Slots, NEW q \in [Slots -> Int], NEW m \in Int,
         inc_qindex(t) # h
  PROVE  /\ Len(Ring(h, t, q)) < QueueSize - 1
         /\ Ring(h, inc_qindex(t), [q EXCEPT ![t] = m]) = Append(Ring(h, t, q), m)
<1>1. PICK u \in Slots : u = inc_qindex(t)
  BY IncFacts
<1>2. u = (IF t = QueueSize - 1 THEN 0 ELSE t + 1) /\ u # h
  BY <1>1, IncFacts
<1>3. PICK n \in Nat : n = InUse(h, t)
  BY RingIs, ConstFacts
<1>4. n < QueueSize - 1 /\ InUse(h, u) = n + 1 /\ At(h, n) = t
  <2>1. /\ h \in Nat /\ t \in Nat /\ u \in Nat /\ QueueSize \in Nat
        /\ h < QueueSize /\ t < QueueSize
    BY ConstFacts DEF Slots
  <2>2. n < QueueSize - 1 /\ InUse(h, u) = n + 1
    BY <1>2, <1>3, <2>1 DEF InUse
  <2> QED BY <1>3, <2>2, EndFacts
<1>5. \A k \in 1..n : At(h, k - 1) # t
  <2>1. TAKE k \in 1..n
  <2>2. k - 1 \in Slots /\ n \in Slots /\ k - 1 # n
    BY <1>4, ConstFacts DEF Slots
  <2> QED BY <1>4, <2>2, AtFacts
<1> DEFINE r == [q EXCEPT ![t] = m]
<1>6. r \in [Slots -> Int] /\ r[t] = m /\ \A i \in Slots : i # t => r[i] = q[i]
  OBVIOUS
<1> HIDE DEF r
<1>7. PICK old \in Seq(Int) : old = Ring(h, t, q)
  BY RingIs
<1>8. Len(old) = n /\ \A k \in 1..n : At(h, k - 1) \in Slots /\ old[k] = q[At(h, k - 1)]
  BY <1>3, <1>7, RingIs
<1>9. PICK new \in Seq(Int) : new = Ring(h, u, r)
  BY <1>6, RingIs
<1>10. Len(new) = n + 1 /\ \A k \in 1..(n + 1) : new[k] = r[At(h, k - 1)]
  <2>1. /\ Len(Ring(h, u, r)) = InUse(h, u)
        /\ \A k \in 1..InUse(h, u) : Ring(h, u, r)[k] = r[At(h, k - 1)]
    BY <1>6, RingIs
  <2> QED BY <1>4, <1>9, <2>1
<1>11. Append(old, m) \in Seq(Int) /\ Len(Append(old, m)) = n + 1
       /\ Append(old, m)[n + 1] = m /\ \A k \in 1..n : Append(old, m)[k] = old[k]
  BY <1>8, AppendProperties
<1>12. ASSUME NEW k \in 1..(n + 1) PROVE new[k] = Append(old, m)[k]
  <2>1. CASE k \in 1..n
    BY <1>5, <1>6, <1>8, <1>10, <1>11, <2>1
  <2>2. CASE k = n + 1
    <3>1. new[n + 1] = r[At(h, (n + 1) - 1)] /\ (n + 1) - 1 = n
      BY <1>10
    <3> QED BY <1>4, <1>6, <1>11, <2>2, <3>1
  <2>3. k \in 1..n \/ k = n + 1
    OBVIOUS
  <2> QED BY <2>1, <2>2, <2>3
<1>13. new = Append(old, m)
  BY <1>10, <1>11, <1>12, SeqEqual
<1> QED BY <1>1, <1>4, <1>7, <1>8, <1>9, <1>13 DEF r

\* Without room it is full
LEMMA RingFull ==
  ASSUME NEW h \in Slots, NEW t \in Slots, NEW q \in [Slots -> Int], inc_qindex(t) = h
  PROVE  Len(Ring(h, t, q)) = QueueSize - 1
<1>1. InUse(h, t) = QueueSize - 1
  BY IncFacts, ConstFacts DEF InUse, Slots
<1> QED BY <1>1, RingIs

\* The message in slot h is the first one
LEMMA RingTake ==
  ASSUME NEW h \in Slots, NEW t \in Slots, NEW q \in [Slots -> Int], h # t
  PROVE  /\ Ring(h, t, q) # <<>> /\ Head(Ring(h, t, q)) = q[h]
         /\ Ring(inc_qindex(h), t, q) = Tail(Ring(h, t, q))
<1>1. PICK u \in Slots : u = inc_qindex(h)
  BY IncFacts
<1>2. u = (IF h = QueueSize - 1 THEN 0 ELSE h + 1)
  BY <1>1, IncFacts
<1>3. PICK n \in Nat : n = InUse(u, t)
  BY RingIs, ConstFacts
<1>4. InUse(h, t) = n + 1 /\ At(h, 0) = h
  BY <1>2, <1>3, ConstFacts DEF InUse, Slots, At
<1>5. \A k \in 1..n : At(h, k) = At(u, k - 1)
  <2>1. TAKE k \in 1..n
  <2>2. n + 1 \in 0..(QueueSize - 1)
    BY <1>4, RingIs
  <2>3. /\ h \in Nat /\ h < QueueSize /\ QueueSize \in Nat
        /\ k < QueueSize /\ k - 1 \in Nat
    BY <2>2, ConstFacts DEF Slots
  <2> QED BY <1>2, <2>3 DEF At
<1>6. PICK old \in Seq(Int) : old = Ring(h, t, q)
  BY RingIs
<1>7. Len(old) = n + 1 /\ \A k \in 1..(n + 1) : old[k] = q[At(h, k - 1)]
  <2>1. /\ Len(Ring(h, t, q)) = InUse(h, t)
        /\ \A k \in 1..InUse(h, t) : Ring(h, t, q)[k] = q[At(h, k - 1)]
    BY RingIs
  <2> QED BY <1>4, <1>6, <2>1
<1>8. PICK new \in Seq(Int) : new = Ring(u, t, q)
  BY RingIs
<1>9. Len(new) = n /\ \A k \in 1..n : new[k] = q[At(u, k - 1)]
  BY <1>3, <1>8, RingIs
<1>10. old # <<>> /\ Head(old) = q[h]
  BY <1>4, <1>7
<1>11. Tail(old) \in Seq(Int) /\ Len(Tail(old)) = n /\ \A k \in 1..n : Tail(old)[k] = old[k + 1]
  BY <1>7, <1>10, HeadTailProperties
<1>12. ASSUME NEW k \in 1..n PROVE new[k] = Tail(old)[k]
  <2>1. k + 1 \in 1..(n + 1) /\ (k + 1) - 1 = k
    OBVIOUS
  <2>2. old[k + 1] = q[At(h, k)]
    BY <1>7, <2>1
  <2> QED BY <1>5, <1>9, <1>11, <2>2
<1>13. new = Tail(old)
  BY <1>9, <1>11, <1>12, SeqEqual
<1> QED BY <1>1, <1>6, <1>8, <1>10, <1>13

\* What is written into the slot behind head is in no queue
LEMMA RingNotice ==
  ASSUME NEW h \in Slots, NEW t \in Slots, NEW q \in [Slots -> Int], NEW m \in Int,
         NEW i \in Slots, inc_qindex(i) = h
  PROVE  Ring(h, t, [q EXCEPT ![i] = m]) = Ring(h, t, q)
<1>1. PICK n \in Nat : n = InUse(h, t)
  BY RingIs, ConstFacts
<1>2. \A k \in 1..n : At(h, k - 1) # i
  <2>1. TAKE k \in 1..n
  <2>2. n \in 0..(QueueSize - 1)
    BY <1>1, RingIs
  <2>3. PICK j \in Slots : j = k - 1
    BY <2>2, ConstFacts DEF Slots
  <2>4. j < QueueSize - 1
    BY <2>2, <2>3, ConstFacts
  <2>5. QueueSize - 1 \in Slots /\ At(h, QueueSize - 1) = i
    <3>1. h = IF i = QueueSize - 1 THEN 0 ELSE i + 1
      BY IncFacts
    <3>2. i \in Nat /\ i < QueueSize /\ QueueSize \in Nat /\ QueueSize > 1
      BY ConstFacts DEF Slots
    <3> QED BY <3>1, <3>2 DEF At, Slots
  <2>6. At(h, j) = At(h, QueueSize - 1) => j = QueueSize - 1
    BY <2>5, AtFacts
  <2>7. At(h, j) # i
    BY <2>3, <2>4, <2>5, <2>6, ConstFacts
  <2> QED BY <2>3, <2>7
<1> DEFINE r == [q EXCEPT ![i] = m]
<1>3. r \in [Slots -> Int] /\ \A j \in Slots : j # i => r[j] = q[j]
  OBVIOUS
<1> HIDE DEF r
<1>4. \A k \in 1..n : Ring(h, t, r)[k] = Ring(h, t, q)[k]
  <2>1. TAKE k \in 1..n
  <2>2. At(h, k - 1) \in Slots /\ Ring(h, t, r)[k] = r[At(h, k - 1)]
    BY <1>1, <1>3, RingIs
  <2>3. Ring(h, t, q)[k] = q[At(h, k - 1)]
    BY <1>1, RingIs
  <2> QED BY <1>2, <1>3, <2>2, <2>3
<1>5. /\ Ring(h, t, r) \in Seq(Int) /\ Len(Ring(h, t, r)) = n
      /\ Ring(h, t, q) \in Seq(Int) /\ Len(Ring(h, t, q)) = n
  BY <1>1, <1>3, RingIs
<1>6. Ring(h, t, r) = Ring(h, t, q)
  BY <1>4, <1>5, SeqEqual
<1> QED BY <1>6 DEF r

-----------------------------------------------------------------------------
\* Each step is one of a queue, or none.

Backlogs == [r \in Readers |-> Backlogged(r)]
Lines == [r \in Readers |-> Line(r)]

LEMMA BacklogIsRing ==
  ASSUME NEW r \in Readers
  PROVE  /\ Backlogged(r) = Ring(head[r], tail[r], queue[r])
         /\ Backlogged(r)' = Ring(head'[r], tail'[r], queue'[r])
  BY DEF Backlogged, Ring, Queued, InUse, Waiting

\* A step that changes neither a ring nor a line
LEMMA QuietIsStutter ==
  ASSUME UNCHANGED <<head, tail, queue, dropped>>,
         \A x \in Readers : pc'[x] = "write" <=> pc[x] = "write",
         \A x \in Readers : pc[x] = "write" => lm'[x] = lm[x]
  PROVE  UNCHANGED <<Backlogs, dropped, Lines>>
<1>1. \A x \in Readers : Backlogged(x)' = Backlogged(x)
  BY BacklogIsRing
<1>2. \A x \in Readers : Line(x)' = Line(x)
  BY DEF Line
<1> QED BY <1>1, <1>2 DEF Backlogs, Lines

\* A step of one listener
LEMMA OneChanges ==
  ASSUME NEW r \in Readers, \A x \in Readers : x # r => SameRing(x)
  PROVE  /\ Backlogs' = [Backlogs EXCEPT ![r] = Backlogged(r)']
         /\ Lines' = [Lines EXCEPT ![r] = Line(r)']
<1>1. \A x \in Readers : x # r => Backlogged(x)' = Backlogged(x)
  BY BacklogIsRing DEF SameRing
<1>2. \A x \in Readers : x # r => Line(x)' = Line(x)
  BY DEF Line, SameRing
<1> QED BY <1>1, <1>2 DEF Backlogs, Lines

\* enqueue_msg() with room in the ring
LEMMA QueuedIsOffer ==
  ASSUME IInv, NEW r \in Readers, EnqueueQueued(r), pc' = pc, wmsg \in 0..MaxMsgs
  PROVE  Rings!Offer(r)
<1>1. TypeOK /\ RingsOf(r)
  BY DEF IInv, RingsOf
<1>2. PICK h \in Slots, t \in Slots : h = head[r] /\ t = tail[r]
  BY <1>1, RingFacts
<1>3. wmsg \in Int /\ queue[r] \in [Slots -> Int] /\ inc_qindex(t) # h
  BY <1>1, <1>2, RingFacts DEF EnqueueQueued
<1>4. /\ head'[r] = h /\ tail'[r] = inc_qindex(t) /\ queue'[r] = [queue[r] EXCEPT ![t] = wmsg]
      /\ dropped' = dropped /\ lm' = lm
  BY <1>1, <1>2 DEF EnqueueQueued, TypeOK, RingType
<1>5. Len(Backlogged(r)) < QueueSize - 1 /\ Backlogged(r)' = Append(Backlogged(r), wmsg)
  <2>1. /\ Len(Ring(h, t, queue[r])) < QueueSize - 1
        /\ Ring(h, inc_qindex(t), [queue[r] EXCEPT ![t] = wmsg]) = Append(Ring(h, t, queue[r]), wmsg)
    BY <1>3, RingPut
  <2>2. Backlogged(r) = Ring(h, t, queue[r])
    BY <1>2, BacklogIsRing
  <2>3. Backlogged(r)' = Ring(h, inc_qindex(t), [queue[r] EXCEPT ![t] = wmsg])
    BY <1>4, BacklogIsRing
  <2> QED BY <2>1, <2>2, <2>3
<1>6. Line(r)' = Line(r)
  <2>1. pc[r] = "write" => lm[r] \in Slots /\ inc_qindex(lm[r]) = h
    BY <1>1, <1>2, RingFacts DEF RingsOf, RingInv
  <2>2. pc[r] = "write" => lm[r] # t
    BY <1>3, <2>1
  <2> QED BY <1>3, <1>4, <2>1, <2>2 DEF Line
<1>7. ASSUME NEW x \in Readers, x # r PROVE SameRing(x)
  BY <1>1, <1>7 DEF EnqueueQueued, SameRing, TypeOK, RingType
<1>8. /\ Backlogs' = [Backlogs EXCEPT ![r] = Append(Backlogged(r), wmsg)]
      /\ Lines' = Lines
  BY <1>5, <1>6, <1>7, OneChanges DEF Lines
<1> QED BY <1>4, <1>5, <1>8 DEF Rings!Offer, Backlogs, Lines

\* enqueue_msg() with a full ring
LEMMA DroppedIsLose ==
  ASSUME IInv, NEW r \in Readers, EnqueueDropped(r), pc' = pc
  PROVE  Rings!Lose(r)
<1>1. TypeOK
  BY DEF IInv
<1>2. Len(Backlogged(r)) = QueueSize - 1
  BY <1>1, RingFacts, RingFull, BacklogIsRing DEF EnqueueDropped
<1>3. UNCHANGED <<head, tail, queue, lm>> /\ dropped' = [dropped EXCEPT ![r] = @ + 1]
  BY DEF EnqueueDropped
<1>4. \A x \in Readers : Backlogged(x)' = Backlogged(x) /\ Line(x)' = Line(x)
  BY <1>3, BacklogIsRing DEF Line
<1> QED BY <1>2, <1>3, <1>4 DEF Rings!Lose

\* block_on_lmsg() tells of drops in the slot in hand
LEMMA ReportIsTell ==
  ASSUME IInv, NEW r \in Readers, ReportDrops(r)
  PROVE  Rings!Tell(r)
<1>1. TypeOK /\ RingsOf(r)
  BY DEF IInv, RingsOf
<1>2. PICK h \in Slots, t \in Slots, i \in Slots : h = head[r] /\ t = tail[r] /\ i = lm[r]
  BY <1>1, RingFacts DEF ReportDrops
<1>3. /\ dropped[r] \in Nat /\ dropped[r] > 0 /\ -dropped[r] \in Int /\ pc[r] = "held"
      /\ queue[r] \in [Slots -> Int] /\ inc_qindex(i) = h
  BY <1>1, <1>2, RingFacts, ConstFacts DEF ReportDrops, RingsOf, RingInv
<1>4. /\ head'[r] = h /\ tail'[r] = t /\ queue'[r] = [queue[r] EXCEPT ![i] = -dropped[r]]
      /\ lm'[r] = i /\ pc'[r] = "write" /\ dropped' = [dropped EXCEPT ![r] = 0]
  BY <1>1, <1>2 DEF ReportDrops, TypeOK, RingType
<1>5. Backlogged(r)' = Backlogged(r)
  BY <1>2, <1>3, <1>4, RingNotice, BacklogIsRing
<1>6. Line(r) = 0 /\ Line(r)' = -dropped[r]
  BY <1>3, <1>4 DEF Line
<1>7. ASSUME NEW x \in Readers, x # r PROVE SameRing(x)
  BY <1>1, <1>7 DEF ReportDrops, SameRing, TypeOK, RingType
<1>8. Backlogs' = Backlogs /\ Lines' = [Lines EXCEPT ![r] = -dropped[r]]
  BY <1>5, <1>6, <1>7, OneChanges DEF Backlogs
<1> QED BY <1>3, <1>4, <1>6, <1>8 DEF Rings!Tell, Backlogs, Lines

\* block_on_lmsg() takes a message
LEMMA TakeIsTake ==
  ASSUME IInv, NEW r \in Readers, Take(r)
  PROVE  Rings!Take(r)
<1>1. TypeOK
  BY DEF IInv
<1>2. PICK h \in Slots, t \in Slots : h = head[r] /\ t = tail[r]
  BY <1>1, RingFacts
<1>3. h # t /\ queue[r] \in [Slots -> Int] /\ pc[r] = "held"
  BY <1>1, <1>2, RingFacts DEF Take
<1>4. /\ head'[r] = inc_qindex(h) /\ tail'[r] = t /\ queue'[r] = queue[r]
      /\ lm'[r] = h /\ dropped' = dropped
      /\ pc'[r] = IF queue[r][h] = 0 THEN "purge" ELSE "write"
  BY <1>1, <1>2 DEF Take, TypeOK, RingType
<1>5. /\ Backlogged(r) # <<>> /\ Head(Backlogged(r)) = queue[r][h]
      /\ Backlogged(r)' = Tail(Backlogged(r))
  BY <1>2, <1>3, <1>4, RingTake, BacklogIsRing
<1>6. Line(r) = 0 /\ Line(r)' = Head(Backlogged(r))
  BY <1>3, <1>4, <1>5 DEF Line
<1>7. ASSUME NEW x \in Readers, x # r PROVE SameRing(x)
  BY <1>1, <1>7 DEF Take, SameRing, TypeOK, RingType
<1>8. /\ Backlogs' = [Backlogs EXCEPT ![r] = Tail(Backlogged(r))]
      /\ Lines' = [Lines EXCEPT ![r] = Head(Backlogged(r))]
  BY <1>5, <1>6, <1>7, OneChanges
<1> QED BY <1>4, <1>5, <1>6, <1>8 DEF Rings!Take, Backlogs, Lines

\* attach_listener() has written the line, or could not
LEMMA WriteIsWritten ==
  ASSUME IInv, NEW r \in Readers, Write(r)
  PROVE  Rings!Written(r)
<1>1. TypeOK
  BY DEF IInv
<1>2. UNCHANGED <<head, tail, queue, dropped, lm>> /\ pc'[r] # "write"
  BY <1>1 DEF Write, TypeOK, RingType
<1>3. ASSUME NEW x \in Readers, x # r PROVE SameRing(x)
  BY <1>1, <1>3 DEF Write, SameRing, TypeOK, RingType
<1>4. Backlogged(r)' = Backlogged(r) /\ Line(r)' = 0
  BY <1>2, BacklogIsRing DEF Line
<1>5. Backlogs' = Backlogs /\ Lines' = [Lines EXCEPT ![r] = 0]
  BY <1>3, <1>4, OneChanges DEF Backlogs
<1> QED BY <1>2, <1>5 DEF Rings!Written, Backlogs, Lines

\* create_listener() starts with an empty queue
LEMMA DumpIsAttach ==
  ASSUME IInv, NEW r \in Readers, DumpLog(r)
  PROVE  Rings!Attach(r)
<1>1. TypeOK
  BY DEF IInv
<1>2. /\ pc[r] = "off" /\ pc'[r] = "create" /\ dropped' = [dropped EXCEPT ![r] = 0]
      /\ head'[r] = 0 /\ tail'[r] = 0 /\ queue'[r] = [i \in Slots |-> 0]
  BY <1>1 DEF DumpLog, TypeOK, RingType
<1>3. Backlogged(r)' = <<>>
  BY <1>2, RingEmpty, BacklogIsRing, ConstFacts
<1>4. Line(r) = 0 /\ Line(r)' = 0
  BY <1>2 DEF Line
<1>5. ASSUME NEW x \in Readers, x # r PROVE SameRing(x)
  BY <1>1, <1>5 DEF DumpLog, SameRing, TypeOK, RingType
<1>6. Backlogs' = [Backlogs EXCEPT ![r] = <<>>] /\ Lines' = Lines
  BY <1>3, <1>4, <1>5, OneChanges DEF Lines
<1> QED BY <1>2, <1>4, <1>6 DEF Rings!Attach, Backlogs, Lines

\* What every step is to the clients
LEMMA StepIsBacklogStep ==
  ASSUME IInv, [Next]_vars
  PROVE  [Rings!Next]_<<Backlogs, dropped, Lines>>
<1>0. TypeOK /\ WalkInv
  BY DEF IInv
<1>1. CASE UNCHANGED <<pc, ringvars>>
  BY <1>1, QuietIsStutter DEF ringvars
<1>2. CASE Log \/ Signal \/ WalkDone
  BY <1>1, <1>2 DEF Log, Signal, WalkDone
<1>3. CASE InitLogServer \/ RegDone \/ RegFails \/ StopBegin \/ StopLock \/ Deleted
  BY <1>1, <1>3 DEF InitLogServer, RegDone, RegFails, StopBegin, StopLock, Deleted
<1>4. ASSUME NEW r \in Readers, Enqueue(r)
      PROVE  [Rings!Next]_<<Backlogs, dropped, Lines>>
  <2>1. wmsg \in 0..MaxMsgs
    BY <1>0, <1>4, ConstFacts DEF Enqueue, WalkInv, TypeOK, ServerType
  <2>2. pc' = pc
    BY <1>4 DEF Enqueue
  <2>3. CASE EnqueueContended(r)
    BY <1>1, <2>2, <2>3 DEF EnqueueContended
  <2>4. CASE EnqueueQueued(r)
    BY <2>1, <2>2, <2>4, QueuedIsOffer DEF Rings!Next
  <2>5. CASE EnqueueDropped(r)
    BY <2>2, <2>5, DroppedIsLose DEF Rings!Next
  <2> QED BY <1>4, <2>3, <2>4, <2>5 DEF Enqueue
<1>5. ASSUME NEW r \in Readers,
             CreateListener(r) \/ Lock(r) \/ Wait(r) \/ PurgeListener(r) \/ SpuriousWakeup(r)
      PROVE  [Rings!Next]_<<Backlogs, dropped, Lines>>
  <2>1. UNCHANGED <<head, tail, queue, dropped>>
    BY <1>5 DEF CreateListener, Lock, Wait, PurgeListener, SpuriousWakeup, ringvars
  <2>2. \A x \in Readers : pc'[x] = "write" <=> pc[x] = "write"
    BY <1>0, <1>5 DEF CreateListener, Lock, Wait, PurgeListener, SpuriousWakeup, TypeOK, RingType
  <2>3. \A x \in Readers : pc[x] = "write" => lm'[x] = lm[x]
    BY <1>0, <1>5 DEF CreateListener, Lock, Wait, PurgeListener, SpuriousWakeup, TypeOK, RingType,
       ringvars
  <2> QED BY <2>1, <2>2, <2>3, QuietIsStutter
<1>6. ASSUME NEW r \in Readers, DumpLog(r) \/ ReportDrops(r) \/ Take(r) \/ Write(r)
      PROVE  Rings!Next
  BY <1>6, DumpIsAttach, ReportIsTell, TakeIsTake, WriteIsWritten DEF Rings!Next
<1>7. CASE UNCHANGED vars
  BY <1>1, <1>7 DEF vars
<1> QED BY <1>2, <1>3, <1>4, <1>5, <1>6, <1>7 DEF Next, WalkStep, ReaderStep

-----------------------------------------------------------------------------
\* The theorems.

\* The listeners keep their types; in particular the number of messages a client
\* is owed, which block_on_lmsg() and attach_listener() only ever settle, never
\* falls below zero.
THEOREM TypeCorrect == Spec => []TypeOK
<1>1. IInv => TypeOK
  BY DEF IInv
<1> QED BY <1>1, SpecIInv, PTL

LEMMA HandStays == IInv => MessageInHandStays
BY DEF IInv, RingInv, MessageInHandStays

\* The message attach_listener() writes without a lock is never overwritten:
\* enqueue_msg() leaves the slot behind head alone.
THEOREM MessageInHandCorrect == Spec => []MessageInHandStays
BY HandStays, SpecIInv, PTL

\* A log_dump prints messages in the order inner_vflog() logged them.
THEOREM InOrderCorrect == Spec => []InOrder
<1>1. IInv => InOrder
  <2> SUFFICES ASSUME IInv, NEW r \in Readers, NEW i \in 0..(Queued(r) - 1),
                      Waiting(r, i) > 0
               PROVE  /\ Waiting(r, i) > last[r]
                      /\ \A j \in 0..(i - 1) : Waiting(r, j) < Waiting(r, i)
    BY HandStays DEF InOrder
  <2>1. RingsOf(r) /\ TypeOK
    BY DEF IInv, RingsOf
  <2>2. head[r] \in Slots /\ tail[r] \in Slots
    BY <2>1, RingFacts
  <2>3. \A k \in 0..(Queued(r) - 1) :
          /\ k \in Slots /\ (head[r] + k) % QueueSize \in Slots
          /\ InRing(r, (head[r] + k) % QueueSize)
          /\ Place(r, (head[r] + k) % QueueSize) = k
    <3> SUFFICES ASSUME NEW k \in 0..(Queued(r) - 1)
                 PROVE  /\ k \in Slots /\ (head[r] + k) % QueueSize \in Slots
                        /\ InRing(r, (head[r] + k) % QueueSize)
                        /\ Place(r, (head[r] + k) % QueueSize) = k
      OBVIOUS
    <3>1. k \in Slots
      BY <2>2, ConstFacts DEF Queued, Slots
    <3>2. PICK n : n = (head[r] + k) % QueueSize
      OBVIOUS
    <3>3. n = IF head[r] + k < QueueSize THEN head[r] + k ELSE head[r] + k - QueueSize
      BY <2>2, <3>1, <3>2, SlotAtPlace
    <3>4. n \in Slots /\ InRing(r, n) /\ Place(r, n) = k
      BY <2>2, <3>1, <3>3, ConstFacts DEF Queued, Slots, InRing, Place
    <3> QED BY <3>1, <3>2, <3>4
  <2>4. i \in Int /\ Queued(r) \in Int
    BY <2>2, ConstFacts DEF Queued, Slots
  <2>5. PICK n \in Slots : n = (head[r] + i) % QueueSize
    BY <2>3
  <2>6. /\ InRing(r, n) /\ Place(r, n) = i /\ Waiting(r, i) = queue[r][n]
    BY <2>3, <2>5 DEF Waiting
  <2>7. /\ queue[r][n] > last[r]
        /\ \A j \in Slots : InRing(r, j) /\ Place(r, j) < i => queue[r][j] < queue[r][n]
    BY <2>1, <2>6 DEF RingsOf, OrderInv
  <2>8. ASSUME NEW j \in 0..(i - 1) PROVE Waiting(r, j) < Waiting(r, i)
    <3>1. j \in 0..(Queued(r) - 1) /\ j < i
      BY <2>4
    <3>2. PICK m \in Slots : m = (head[r] + j) % QueueSize
      BY <2>3, <3>1
    <3>3. InRing(r, m) /\ Place(r, m) = j /\ Waiting(r, j) = queue[r][m]
      BY <2>3, <3>1, <3>2 DEF Waiting
    <3> QED BY <2>6, <2>7, <3>1, <3>3
  <2> QED BY <2>6, <2>7, <2>8
<1> QED BY <1>1, SpecIInv, PTL

\* No message that got the locks of enqueue_msg() is unaccounted for: it is in
\* the ring, in the drone's hand or counted as dropped.
THEOREM CountsCorrect == Spec => []EveryMessageCounts
<1>1. IInv => EveryMessageCounts
  BY DEF IInv, CountInv, EveryMessageCounts, Linked
<1> QED BY <1>1, SpecIInv, PTL

\* enqueue_all() only meets listeners that purge_listener() has not released.
THEOREM WalksCorrect == Spec => []WalksMeetListeners
<1>1. IInv => WalksMeetListeners
  BY ConstFacts DEF IInv, WalkInv, WalksMeetListeners
<1> QED BY <1>1, SpecIInv, PTL

\* The rings implement queues: what enqueue_msg() puts in, block_on_lmsg() gets out in
\* the same order, what finds a ring full is counted, and the line that is written
\* without a lock changes only when the drone takes another.
THEOREM BacklogCorrect == Spec => RingsImplementBacklog
<1>1. Init => Rings!Init
  <2> SUFFICES ASSUME Init PROVE Rings!Init
    OBVIOUS
  <2>1. ASSUME NEW r \in Readers PROVE Backlogged(r) = <<>> /\ Line(r) = 0
    BY RingEmpty, BacklogIsRing, ConstFacts DEF Init, Line
  <2> QED BY <2>1 DEF Init, Rings!Init
<1>2. IInv /\ [Next]_vars => [Rings!Next]_(Rings!vars)
  BY StepIsBacklogStep DEF Rings!vars, Backlogs, Lines
<1> QED BY <1>1, <1>2, SpecIInv, PTL DEF Spec, RingsImplementBacklog, Rings!Spec
=============================================================================
