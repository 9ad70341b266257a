-------------------------- MODULE Slalloc_proofs --------------------------
(***************************************************************************)
(* Proofs about Slalloc, for every size of objects, pages and usemap words *)
(* and any number of blocks, as long as pages are to be had: the argument  *)
(* of the comment in take_first_unused(), made complete.                   *)
(***************************************************************************)
EXTENDS Slalloc, FiniteSetTheorems, SequenceTheorems, WellFoundedInduction, TLAPS

Valid == 0..(ObjsPerBlock - 1)

\* The bits in use are bits of objects, in blocks there are
UsedInv ==
  /\ \A b \in Blocks : usemap[b] \subseteq Valid
  /\ \A b \in Blocks : b > blockcount => usemap[b] = {}
  /\ freedmaps = {}

\* The counters are exact
CountInv ==
  \A b \in 1..blockcount : unallocated[b] = ObjsPerBlock - Cardinality(usemap[b])

\* The list holds the blocks that are not full, once each
ListInv ==
  /\ \A k \in 1..Len(nonfull) :
       nonfull[k] \in 1..blockcount /\ unallocated[nonfull[k]] > 0
  /\ \A j, k \in 1..Len(nonfull) : nonfull[j] = nonfull[k] => j = k
  /\ \A b \in 1..blockcount :
       unallocated[b] > 0 => \E k \in 1..Len(nonfull) : nonfull[k] = b
  /\ stale = FALSE

\* The objects in use are those of the bits in use
LiveInv ==
  \A a \in SlObjects :
    a \in live <=> a.block <= blockcount /\ Bit(a) \in usemap[a.block]

GrantInv ==
  /\ IsFiniteSet(live)
  /\ grants = Cardinality(live)
  /\ dirty \subseteq live

IInv == SlTypeOK /\ UsedInv /\ CountInv /\ ListInv /\ LiveInv /\ GrantInv

-----------------------------------------------------------------------------
(* The geometry of a block.                                                *)

\* Multiplication by a positive number keeps the order
LEMMA TimesMonotone ==
  ASSUME NEW p \in Nat \ {0}, NEW q \in Int, NEW r \in Int, q < r
  PROVE  q * p + p <= r * p
<1>1. r * p = (r - q) * p + q * p
  OBVIOUS
<1>2. (r - q) * p >= p
  <2>1. PICK d \in Nat : r - q = d + 1
    <3>1. r - q - 1 \in Nat /\ r - q = (r - q - 1) + 1
      OBVIOUS
    <3> QED BY <3>1
  <2>2. (d + 1) * p = d * p + p
    OBVIOUS
  <2>3. d * p >= 0
    OBVIOUS
  <2>4. d * p \in Int
    OBVIOUS
  <2> QED BY <2>1, <2>2, <2>3, <2>4
<1>3. q * p \in Int /\ r * p \in Int /\ (r - q) * p \in Int
  OBVIOUS
<1> QED BY <1>1, <1>2, <1>3

\* Quotient and remainder
LEMMA DivMod ==
  ASSUME NEW p \in Nat \ {0}, NEW i \in Nat
  PROVE  /\ i \div p \in Nat
         /\ i % p \in 0..(p - 1)
         /\ i = (i \div p) * p + (i % p)
  OBVIOUS

\* They are unique
LEMMA DivModUnique ==
  ASSUME NEW p \in Nat \ {0}, NEW q \in Nat, NEW r \in 0..(p - 1)
  PROVE  /\ (q * p + r) \div p = q
         /\ (q * p + r) % p = r
<1> DEFINE i == q * p + r
<1>1. i \in Nat
  OBVIOUS
<1>2. /\ i \div p \in Nat /\ i % p \in 0..(p - 1)
      /\ i = (i \div p) * p + (i % p)
  BY <1>1, DivMod
<1> DEFINE d == i \div p
<1>3. q * p \in Int /\ d * p \in Int
  BY <1>2
<1>4. ~(q < d)
  <2>1. SUFFICES ASSUME q < d PROVE FALSE
    OBVIOUS
  <2>2. q * p + p <= d * p
    BY <2>1, <1>2, TimesMonotone
  <2> QED BY <2>2, <1>2, <1>3
<1>5. ~(d < q)
  <2>1. SUFFICES ASSUME d < q PROVE FALSE
    OBVIOUS
  <2>2. d * p + p <= q * p
    BY <2>1, <1>2, TimesMonotone
  <2> QED BY <2>2, <1>2, <1>3
<1>6. d = q
  BY <1>2, <1>4, <1>5
<1> QED BY <1>2, <1>3, <1>6

\* A nonempty set of natural numbers below a bound has a greatest element
LEMMA Greatest ==
  ASSUME NEW S, S # {}, NEW n \in Nat, S \subseteq 0..n
  PROVE  \E d \in S : \A e \in S : e <= d
<1> DEFINE T == {n - s : s \in S}
<1>1. T # {} /\ T \subseteq Nat
  OBVIOUS
<1>2. PICK t \in T : \A u \in T : ~(<<u, t>> \in OpToRel(<, Nat))
  <2> HIDE DEF T
  <2> QED BY <1>1, NatLessThanWellFounded, WFMin
<1>3. PICK s \in S : t = n - s
  OBVIOUS
<1>4. \A e \in S : e <= s
  <2>1. TAKE e \in S
  <2>2. n - e \in T /\ n - e \in Nat /\ t \in Nat
    BY <1>1
  <2>3. ~(n - e < t)
    BY <2>2, <1>2 DEF OpToRel
  <2> QED BY <2>2, <2>3, <1>3
<1> QED BY <1>3, <1>4

\* A block has a page at least, and its usemap a bit for each of its objects
LEMMA Geometry ==
  /\ PagesPerBlock \in Nat \ {0}
  /\ ObjsPerBlock \in Nat \ {0}
  /\ ObjWordsPerBlock \in Nat
  /\ Valid \subseteq MapBits
<1> USE GeometryAssumption DEF GeometryAssumption
<1>1. PagesPerBlock \in Nat \ {0}
  <2> DEFINE ppb == ObjsPerWord \div ObjsPerPage
  <2>1. ppb \in Nat
    BY DivMod
  <2>2. CASE ppb = 0
    BY <2>2 DEF PagesPerBlock, PagesFor
  <2>3. CASE ppb # 0
    <3>1. 1 \in Powers(ppb)
      <4>1. 1 \in 1..ppb /\ ppb % 1 = 0 /\ 0 \in 0..ppb
        BY <2>1, <2>3
      <4>2. 1 = 2^0
        OBVIOUS
      <4> HIDE DEF ppb
      <4> QED BY <4>1, <4>2 DEF Powers
    <3>2. Powers(ppb) \subseteq 1..ppb
      BY DEF Powers
    <3>3. Powers(ppb) \subseteq 0..ppb
      BY <3>2, <2>1
    <3>4. \E d \in Powers(ppb) : \A e \in Powers(ppb) : e <= d
      <4> HIDE DEF ppb
      <4> QED BY <3>1, <3>3, <2>1, Greatest
    <3>5. RightmostOne(ppb) \in Powers(ppb)
      BY <3>4 DEF RightmostOne
    <3>6. PagesPerBlock = RightmostOne(ppb)
      BY <2>3 DEF PagesPerBlock, PagesFor
    <3> HIDE DEF ppb
    <3> QED BY <3>2, <3>5, <3>6, <2>1
  <2> QED BY <2>2, <2>3
<1>2. ObjsPerBlock \in Nat \ {0}
  <2>1. PICK g \in Nat : PagesPerBlock = g + 1
    <3>1. PagesPerBlock - 1 \in Nat /\ PagesPerBlock = (PagesPerBlock - 1) + 1
      BY <1>1
    <3> QED BY <3>1
  <2>2. ObjsPerBlock = ObjsPerPage * g + ObjsPerPage
    BY <2>1 DEF ObjsPerBlock
  <2>3. ObjsPerPage * g \in Nat
    OBVIOUS
  <2> QED BY <2>2, <2>3
<1> DEFINE w == ObjsPerWord
           n == ObjsPerBlock
<1>3. n \div w \in Nat /\ n % w \in 0..(w - 1) /\ n = (n \div w) * w + (n % w)
  BY <1>2, DivMod
<1>4. ObjWordsPerBlock = n \div w + IF n % w # 0 THEN 1 ELSE 0
  BY DEF ObjWordsPerBlock
<1> HIDE DEF w, n
<1>5. ObjWordsPerBlock \in Nat
  BY <1>3, <1>4
<1>6. n <= ObjWordsPerBlock * w
  <2>1. CASE n % w = 0
    <3>1. ObjWordsPerBlock = n \div w
      BY <2>1, <1>3, <1>4
    <3>2. (n \div w) * w \in Nat
      BY <1>3 DEF w
    <3>3. n = (n \div w) * w
      BY <2>1, <3>2, <1>3
    <3> QED BY <3>1, <3>2, <3>3
  <2>2. CASE n % w # 0
    <3>1. ObjWordsPerBlock = n \div w + 1
      BY <2>2, <1>4
    <3>2. (n \div w + 1) * w = (n \div w) * w + w
      BY <1>3 DEF w
    <3>3. (n \div w) * w \in Nat
      BY <1>3 DEF w
    <3> QED BY <3>1, <3>2, <3>3, <1>3 DEF w
  <2> QED BY <2>1, <2>2
<1>7. ObjWordsPerBlock * w \in Nat
  BY <1>5 DEF w
<1>8. Valid \subseteq MapBits
  BY <1>2, <1>6, <1>7 DEF Valid, MapBits, n, w
<1> QED BY <1>1, <1>2, <1>5, <1>8

\* The object of a bit of the block lies in its pages
LEMMA ObjectOfBit ==
  ASSUME NEW b \in Blocks, NEW i \in Valid
  PROVE  /\ Object(b, i) \in SlObjects
         /\ Object(b, i).block = b
         /\ Object(b, i).page < PagesPerBlock
         /\ Bit(Object(b, i)) = i
<1> USE GeometryAssumption DEF GeometryAssumption
<1> DEFINE p == ObjsPerPage
           d == i \div p
<1>1. i \in Nat /\ i < ObjsPerBlock /\ PagesPerBlock \in Nat
  BY Geometry DEF Valid
<1>2. d \in Nat /\ i % p \in 0..(p - 1) /\ i = d * p + (i % p)
  BY <1>1, DivMod
<1>3. ~(PagesPerBlock <= d)
  <2>1. SUFFICES ASSUME PagesPerBlock <= d PROVE FALSE
    OBVIOUS
  <2>2. PagesPerBlock * p <= d * p
    <3>1. CASE PagesPerBlock = d
      BY <3>1, <1>2
    <3>2. CASE PagesPerBlock < d
      <4>1. PagesPerBlock * p + p <= d * p
        BY <3>2, <1>1, <1>2, TimesMonotone
      <4>2. PagesPerBlock * p \in Int /\ d * p \in Int
        BY <1>1, <1>2
      <4> QED BY <4>1, <4>2
    <3> QED BY <2>1, <3>1, <3>2, <1>1, <1>2
  <2>3. ObjsPerBlock = PagesPerBlock * p
    BY <1>1 DEF ObjsPerBlock
  <2>4. PagesPerBlock * p \in Int /\ d * p \in Int
    BY <1>1, <1>2
  <2> QED BY <2>2, <2>3, <2>4, <1>1, <1>2
<1>4. Object(b, i) = [block |-> b, page |-> d, slot |-> i % p]
  BY DEF Object
<1> HIDE DEF d
<1>5. Object(b, i) \in SlObjects
  BY <1>2, <1>4 DEF SlObjects
<1>6. Bit(Object(b, i)) = i
  BY <1>2, <1>4 DEF Bit
<1> QED BY <1>1, <1>2, <1>3, <1>4, <1>5, <1>6

\* slalloc_free() finds the bit again
LEMMA BitOfObject ==
  ASSUME NEW a \in SlObjects
  PROVE  /\ Object(a.block, Bit(a)) = a
         /\ Bit(a) \in Nat
<1> USE GeometryAssumption DEF GeometryAssumption
<1>1. a = [block |-> a.block, page |-> a.page, slot |-> a.slot]
  BY DEF SlObjects
<1>2. a.page \in Nat /\ a.slot \in 0..(ObjsPerPage - 1)
  BY DEF SlObjects
<1>3. Bit(a) \div ObjsPerPage = a.page /\ Bit(a) % ObjsPerPage = a.slot
  BY <1>2, DivModUnique DEF Bit
<1>4. Bit(a) \in Nat
  BY <1>2 DEF Bit
<1> QED BY <1>1, <1>3, <1>4 DEF Object

\* The comment of take_first_unused(): as long as an object of the block is
\* unused, the rightmost 0 bit is that of an unused object, never a bit to spare
LEMMA FirstUnusedIsObject ==
  ASSUME NEW used, used \subseteq Valid, Cardinality(used) < ObjsPerBlock
  PROVE  /\ MapBits \ used # {}
         /\ FirstUnused(used) \in Valid \ used
<1>1. ObjsPerBlock \in Nat \ {0} /\ Valid \subseteq MapBits
  BY Geometry
<1>2. IsFiniteSet(Valid) /\ Cardinality(Valid) = ObjsPerBlock
  BY <1>1, FS_Interval DEF Valid
<1>3. used # Valid
  BY <1>2, <1>1
<1>4. PICK v \in Valid : v \notin used
  BY <1>3
<1>5. v \in MapBits \ used
  BY <1>4, <1>1
<1> DEFINE F == MapBits \ used
<1>6. F # {} /\ F \subseteq Nat
  BY <1>5 DEF MapBits
<1>7. PICK m \in F : \A j \in F : ~(<<j, m>> \in OpToRel(<, Nat))
  <2> HIDE DEF F
  <2> QED BY <1>6, NatLessThanWellFounded, WFMin
<1>8. \A j \in F : m <= j
  <2>1. TAKE j \in F
  <2>2. j \in Nat /\ m \in Nat
    BY <1>6
  <2>3. ~(j < m)
    BY <2>2, <1>7 DEF OpToRel
  <2> QED BY <2>2, <2>3
<1>9. FirstUnused(used) \in F /\ FirstUnused(used) <= v
  BY <1>5, <1>7, <1>8 DEF FirstUnused
<1>10. FirstUnused(used) \in Nat /\ v \in Nat /\ v <= ObjsPerBlock - 1
  BY <1>1, <1>4, <1>6, <1>9 DEF Valid
<1>11. FirstUnused(used) \in Valid
  BY <1>1, <1>9, <1>10 DEF Valid
<1> QED BY <1>5, <1>9, <1>11

-----------------------------------------------------------------------------
(* Every call keeps the invariant.                                         *)

\* A usemap is finite, and setting a new bit counts for one
LEMMA UsemapFinite ==
  ASSUME NEW used, used \subseteq Valid
  PROVE  /\ IsFiniteSet(used)
         /\ Cardinality(used) \in 0..ObjsPerBlock
<1>1. ObjsPerBlock \in Nat \ {0}
  BY Geometry
<1>2. IsFiniteSet(Valid) /\ Cardinality(Valid) = ObjsPerBlock
  BY <1>1, FS_Interval DEF Valid
<1>3. IsFiniteSet(used) /\ Cardinality(used) <= ObjsPerBlock
  BY <1>2, FS_Subset
<1> QED BY <1>1, <1>3, FS_CardinalityType

\* A block is put before a list
LEMMA Pushed ==
  ASSUME NEW S, NEW b \in S, NEW rest \in Seq(S), NEW s, s = <<b>> \o rest
  PROVE  /\ s \in Seq(S) /\ Len(rest) \in Nat /\ Len(s) = Len(rest) + 1
         /\ s[1] = b
         /\ \A k \in 1..Len(rest) : k + 1 \in 1..Len(s) /\ s[k + 1] = rest[k]
         /\ \A k \in 1..Len(s) : k # 1 => k - 1 \in 1..Len(rest) /\ s[k] = rest[k - 1]
<1>1. /\ Len(rest) \in Nat /\ Len(s) = Len(rest) + 1 /\ s[1] = b
      /\ \A k \in 1..Len(rest) : s[k + 1] = rest[k]
  OBVIOUS
<1>2. <<b>> \in Seq(S)
  OBVIOUS
<1>3. s \in Seq(S)
  BY <1>2, ConcatProperties
<1>4. \A k \in 1..Len(rest) : k + 1 \in 1..Len(s)
  BY <1>1
<1>5. ASSUME NEW k \in 1..Len(s), k # 1
      PROVE  k - 1 \in 1..Len(rest) /\ s[k] = rest[k - 1]
  <2>1. k - 1 \in 1..Len(rest) /\ k = (k - 1) + 1
    BY <1>1, <1>5
  <2>2. s[(k - 1) + 1] = rest[k - 1]
    BY <2>1, <1>1
  <2> QED BY <2>1, <2>2
<1> QED BY <1>1, <1>3, <1>4, <1>5

\* A bit is taken from a block, old or new, that has an unused object; rest is
\* the list of the others
LEMMA TakeKeeps ==
  ASSUME IInv, NEW b \in Blocks, NEW i \in Valid, i \notin usemap[b],
         NEW left \in Int, left = ObjsPerBlock - Cardinality(usemap[b]), left > 0,
         NEW rest \in Seq(Blocks),
         TakeBit(b, i, usemap[b], left, rest),
         blockcount' \in 0..MaxBlocks, b <= blockcount', blockcount <= blockcount',
         \A c \in Blocks : c # b /\ c <= blockcount' => c <= blockcount,
         freedmaps' = freedmaps, stale' = FALSE, dirty' = dirty,
         \A k \in 1..Len(rest) : /\ rest[k] \in 1..blockcount /\ rest[k] # b
                                 /\ unallocated[rest[k]] > 0,
         \A j, k \in 1..Len(rest) : rest[j] = rest[k] => j = k,
         \A c \in 1..blockcount : c # b /\ unallocated[c] > 0
                                   => \E k \in 1..Len(rest) : rest[k] = c
  PROVE  IInv'
<1> USE GeometryAssumption DEF GeometryAssumption, Blocks
<1>1. /\ ObjsPerBlock \in Nat \ {0} /\ Valid \subseteq MapBits
  BY Geometry
<1>2. /\ usemap \in [Blocks -> SUBSET MapBits] /\ usemap[b] \subseteq Valid
      /\ unallocated \in [Blocks -> 0..ObjsPerBlock] /\ blockcount \in 0..MaxBlocks
  BY DEF IInv, SlTypeOK, UsedInv
<1>3. /\ IsFiniteSet(usemap[b]) /\ Cardinality(usemap[b]) \in 0..ObjsPerBlock
  BY <1>2, UsemapFinite
<1>4. Cardinality(usemap[b] \cup {i}) = Cardinality(usemap[b]) + 1
  BY <1>3, FS_AddElement
<1>5. /\ usemap' = [usemap EXCEPT ![b] = usemap[b] \cup {i}]
      /\ unallocated' = [unallocated EXCEPT ![b] = left - 1]
      /\ nonfull' = IF left - 1 = 0 THEN rest ELSE <<b>> \o rest
      /\ live' = live \cup {Object(b, i)}
      /\ grants' = grants + 1
  BY DEF TakeBit
<1>6. /\ Object(b, i) \in SlObjects /\ Object(b, i).block = b
      /\ Bit(Object(b, i)) = i
  BY ObjectOfBit
<1>7. Object(b, i) \notin live
  BY <1>6 DEF IInv, LiveInv
<1>8. left - 1 \in 0..ObjsPerBlock
  BY <1>1, <1>3
<1> HIDE DEF Blocks
<1>9. nonfull' \in Seq(Blocks)
  BY <1>5, Pushed
<1>10. SlTypeOK'
  <2>1. usemap' \in [Blocks -> SUBSET MapBits]
    BY <1>1, <1>2, <1>5
  <2>2. unallocated' \in [Blocks -> 0..ObjsPerBlock]
    BY <1>2, <1>5, <1>8
  <2>3. live' \subseteq SlObjects
    BY <1>5, <1>6 DEF IInv, SlTypeOK
  <2>4. grants' \in Nat
    BY <1>5 DEF IInv, SlTypeOK
  <2>5. dirty' \subseteq SlObjects /\ freedmaps' \subseteq Blocks /\ stale' \in BOOLEAN
    BY DEF IInv, SlTypeOK
  <2> QED BY <2>1, <2>2, <2>3, <2>4, <2>5, <1>9 DEF SlTypeOK
<1>11. UsedInv'
  <2>1. \A c \in Blocks : usemap'[c] \subseteq Valid
    BY <1>2, <1>5 DEF IInv, UsedInv
  <2>2. ASSUME NEW c \in Blocks, c > blockcount' PROVE usemap'[c] = {}
    <3>1. c # b /\ c > blockcount
      BY <2>2, <1>2 DEF Blocks
    <3> QED BY <3>1, <1>2, <1>5 DEF IInv, UsedInv
  <2>3. freedmaps' = {}
    BY DEF IInv, UsedInv
  <2> QED BY <2>1, <2>2, <2>3 DEF UsedInv
<1>12. CountInv'
  <2>1. SUFFICES ASSUME NEW c \in 1..blockcount'
                 PROVE unallocated'[c] = ObjsPerBlock - Cardinality(usemap'[c])
    BY DEF CountInv
  <2>2. c \in Blocks
    BY DEF Blocks
  <2>3. CASE c = b
    BY <2>3, <1>2, <1>3, <1>4, <1>5, <1>1
  <2>4. CASE c # b
    <3>1. c \in 1..blockcount
      BY <2>2, <2>4, <1>2
    <3> QED BY <2>2, <2>4, <3>1, <1>2, <1>5 DEF IInv, CountInv
  <2> QED BY <2>3, <2>4
<1>13. ListInv'
  <2>1. CASE left - 1 = 0
    <3>1. nonfull' = rest
      BY <2>1, <1>5
    <3>2. ASSUME NEW k \in 1..Len(rest)
          PROVE  rest[k] \in 1..blockcount' /\ unallocated'[rest[k]] > 0
      <4>1. rest[k] \in 1..blockcount /\ rest[k] # b /\ unallocated[rest[k]] > 0
        OBVIOUS
      <4>2. rest[k] \in Blocks
        BY <4>1, <1>2 DEF Blocks
      <4> QED BY <4>1, <4>2, <1>2, <1>5
    <3>3. ASSUME NEW c \in 1..blockcount', unallocated'[c] > 0
          PROVE  \E k \in 1..Len(rest) : rest[k] = c
      <4>1. c \in Blocks
        BY DEF Blocks
      <4>2. c # b
        BY <3>3, <2>1, <1>2, <1>5
      <4>3. c \in 1..blockcount
        BY <4>1, <4>2, <1>2
      <4> QED BY <3>3, <4>1, <4>2, <4>3, <1>2, <1>5
    <3> QED BY <3>1, <3>2, <3>3 DEF ListInv
  <2>2. CASE left - 1 # 0
    <3> DEFINE s == <<b>> \o rest
    <3>1. nonfull' = s
      BY <2>2, <1>5
    <3>2. /\ s[1] = b /\ Len(rest) \in Nat /\ Len(s) = Len(rest) + 1
          /\ \A k \in 1..Len(rest) : k + 1 \in 1..Len(s) /\ s[k + 1] = rest[k]
          /\ \A k \in 1..Len(s) : k # 1 => k - 1 \in 1..Len(rest) /\ s[k] = rest[k - 1]
      BY Pushed
    <3> HIDE DEF s
    <3>4. ASSUME NEW k \in 1..Len(s)
          PROVE  s[k] \in 1..blockcount' /\ unallocated'[s[k]] > 0
      <4>1. CASE k = 1
        <5>1. s[k] = b /\ b \in 1..blockcount'
          BY <4>1, <3>2, <1>2 DEF Blocks
        <5>2. unallocated'[b] = left - 1
          BY <1>2, <1>5
        <5> QED BY <5>1, <5>2, <2>2
      <4>2. CASE k # 1
        <5>1. k - 1 \in 1..Len(rest) /\ s[k] = rest[k - 1]
          BY <4>2, <3>2
        <5>2. s[k] \in 1..blockcount /\ s[k] # b /\ unallocated[s[k]] > 0
          BY <5>1
        <5>3. s[k] \in Blocks
          BY <5>2, <1>2 DEF Blocks
        <5> QED BY <5>2, <5>3, <1>2, <1>5
      <4> QED BY <4>1, <4>2
    <3>5. ASSUME NEW j \in 1..Len(s), NEW k \in 1..Len(s), s[j] = s[k]
          PROVE  j = k
      <4>1. CASE j = 1 /\ k # 1
        BY <4>1, <3>2, <3>5
      <4>2. CASE j # 1 /\ k = 1
        BY <4>2, <3>2, <3>5
      <4>3. CASE j # 1 /\ k # 1
        <5>1. j - 1 = k - 1
          BY SMTT(30), <4>3, <3>2, <3>5
        <5> QED BY <5>1
      <4> QED BY <4>1, <4>2, <4>3
    <3>6. ASSUME NEW c \in 1..blockcount', unallocated'[c] > 0
          PROVE  \E k \in 1..Len(s) : s[k] = c
      <4>1. c \in Blocks
        BY DEF Blocks
      <4>2. CASE c = b
        BY <4>2, <3>2
      <4>3. CASE c # b
        <5>1. c \in 1..blockcount
          BY <4>1, <4>3, <1>2
        <5>2. PICK k \in 1..Len(rest) : rest[k] = c
          BY <3>6, <4>1, <4>3, <5>1, <1>2, <1>5
        <5>3. k + 1 \in 1..Len(s) /\ s[k + 1] = c
          BY <5>2, <3>2
        <5> QED BY <5>3
      <4> QED BY <4>2, <4>3
    <3> QED BY <3>1, <3>4, <3>5, <3>6 DEF ListInv
  <2> QED BY <2>1, <2>2
<1>14. LiveInv'
  <2>1. SUFFICES ASSUME NEW a \in SlObjects
                 PROVE  a \in live' <=> a.block <= blockcount' /\ Bit(a) \in usemap'[a.block]
    BY DEF LiveInv, Bit
  <2>2. a.block \in Blocks
    BY DEF SlObjects
  <2>3. a = Object(b, i) <=> a.block = b /\ Bit(a) = i
    BY <1>6, BitOfObject
  <2>4. a \in live <=> a.block <= blockcount /\ Bit(a) \in usemap[a.block]
    BY DEF IInv, LiveInv
  <2>5. a.block > blockcount => usemap[a.block] = {}
    BY <2>2 DEF IInv, UsedInv
  <2>6. CASE a.block = b
    <3>1. a.block <= blockcount'
      BY <2>6
    <3>2. Bit(a) \in usemap'[a.block] <=> Bit(a) \in usemap[b] \/ Bit(a) = i
      BY <2>6, <1>2, <1>5
    <3>3. Bit(a) \in usemap[b] => a.block <= blockcount
      BY <2>2, <2>5, <2>6, <1>2 DEF Blocks
    <3> QED BY <1>5, <2>3, <2>4, <2>6, <3>1, <3>2, <3>3
  <2>7. CASE a.block # b
    <3>1. usemap'[a.block] = usemap[a.block]
      BY <2>2, <2>7, <1>2, <1>5
    <3>2. a.block <= blockcount' => a.block <= blockcount
      BY <2>2, <2>7
    <3>3. a.block <= blockcount => a.block <= blockcount'
      BY <2>2, <1>2 DEF Blocks
    <3> QED BY <1>5, <2>3, <2>4, <2>7, <3>1, <3>2, <3>3
  <2> QED BY <2>6, <2>7
<1>15. GrantInv'
  <2>1. IsFiniteSet(live) /\ grants = Cardinality(live) /\ dirty \subseteq live
    BY DEF IInv, GrantInv
  <2>2. IsFiniteSet(live') /\ Cardinality(live') = Cardinality(live) + 1
    BY <2>1, <1>5, <1>7, FS_AddElement
  <2> QED BY <2>1, <2>2, <1>5 DEF GrantInv
<1> QED BY <1>10, <1>11, <1>12, <1>13, <1>14, <1>15 DEF IInv

\* What the head of the list is good for
LEMMA HeadFacts ==
  ASSUME IInv, nonfull # <<>>
  PROVE  /\ Head(nonfull) = nonfull[1] /\ nonfull[1] \in 1..blockcount
         /\ Head(nonfull) \in Blocks
         /\ Contents(Head(nonfull)) = {usemap[Head(nonfull)]}
         /\ usemap[Head(nonfull)] \subseteq Valid
         /\ unallocated[Head(nonfull)]
              = ObjsPerBlock - Cardinality(usemap[Head(nonfull)])
         /\ unallocated[Head(nonfull)] \in 1..ObjsPerBlock
         /\ Cardinality(usemap[Head(nonfull)]) < ObjsPerBlock
         /\ Tail(nonfull) \in Seq(Blocks) /\ Len(nonfull) \in Nat
         /\ Len(Tail(nonfull)) = Len(nonfull) - 1
         /\ \A k \in 1..Len(Tail(nonfull)) :
              k + 1 \in 1..Len(nonfull) /\ Tail(nonfull)[k] = nonfull[k + 1]
<1> USE GeometryAssumption DEF GeometryAssumption
<1>1. nonfull \in Seq(Blocks) /\ blockcount \in 0..MaxBlocks
      /\ unallocated \in [Blocks -> 0..ObjsPerBlock]
  BY DEF IInv, SlTypeOK
<1>2. /\ Head(nonfull) = nonfull[1] /\ Tail(nonfull) \in Seq(Blocks)
      /\ Len(nonfull) \in Nat /\ Len(nonfull) >= 1
      /\ Len(Tail(nonfull)) = Len(nonfull) - 1
      /\ \A k \in 1..Len(Tail(nonfull)) : Tail(nonfull)[k] = nonfull[k + 1]
  BY <1>1, HeadTailProperties, EmptySeq
<1>3. \A k \in 1..Len(Tail(nonfull)) : k + 1 \in 1..Len(nonfull)
  BY <1>2
<1>4. nonfull[1] \in 1..blockcount /\ unallocated[nonfull[1]] > 0
  BY <1>2 DEF IInv, ListInv
<1>5. nonfull[1] \in Blocks
  BY <1>1, <1>4 DEF Blocks
<1>6. unallocated[nonfull[1]] = ObjsPerBlock - Cardinality(usemap[nonfull[1]])
  BY <1>4 DEF IInv, CountInv
<1>7. usemap[nonfull[1]] \subseteq Valid
  BY <1>5 DEF IInv, UsedInv
<1>8. Cardinality(usemap[nonfull[1]]) \in 0..ObjsPerBlock /\ ObjsPerBlock \in Nat
  BY <1>7, UsemapFinite, Geometry
<1>9. Cardinality(usemap[nonfull[1]]) < ObjsPerBlock
  BY <1>4, <1>6, <1>8
<1>10. Contents(nonfull[1]) = {usemap[nonfull[1]]}
  BY DEF Contents, IInv, UsedInv
<1>11. unallocated[nonfull[1]] \in 1..ObjsPerBlock
  BY <1>1, <1>4, <1>5, <1>8
<1> QED BY <1>2, <1>3, <1>4, <1>5, <1>6, <1>7, <1>9, <1>10, <1>11

\* take_first_unused() fails only when the list is empty, so that Realloc()
\* never moves a usemap that is on it
LEMMA NoneUnusedMeansEmpty ==
  ASSUME IInv, NoneUnused
  PROVE  nonfull = <<>>
<1>1. SUFFICES ASSUME nonfull # <<>> PROVE FALSE
  OBVIOUS
<1>2. MapBits \ usemap[Head(nonfull)] = {}
  BY <1>1, HeadFacts DEF NoneUnused
<1> QED BY <1>1, <1>2, HeadFacts, FirstUnusedIsObject

\* slalloc_new() with an object of the first block on the list
LEMMA NewFromHeadKeeps ==
  ASSUME IInv, NewFromHead
  PROVE  IInv'
<1>1. nonfull # <<>>
  BY DEF NewFromHead
<1>2. PICK b \in Blocks : b = Head(nonfull)
  BY <1>1, HeadFacts
<1>3. PICK i : i = FirstUnused(usemap[b])
  OBVIOUS
<1>4. i \in Valid /\ i \notin usemap[b]
  BY <1>1, <1>2, <1>3, HeadFacts, FirstUnusedIsObject
<1>5. PICK rest \in Seq(Blocks) : rest = Tail(nonfull)
  BY <1>1, HeadFacts
<1>6. TakeBit(b, i, usemap[b], unallocated[b], rest)
  BY <1>1, <1>2, <1>3, <1>5, HeadFacts DEF NewFromHead
<1>7. /\ blockcount' = blockcount /\ freedmaps' = freedmaps /\ dirty' = dirty
      /\ stale' = stale
  BY DEF NewFromHead
<1>8. stale' = FALSE
  BY <1>7 DEF IInv, ListInv
<1>9. blockcount \in 0..MaxBlocks /\ b \in 1..blockcount
  BY <1>1, <1>2, HeadFacts DEF IInv, SlTypeOK
<1>10. /\ \A k \in 1..Len(nonfull) :
             nonfull[k] \in 1..blockcount /\ unallocated[nonfull[k]] > 0
       /\ \A j, k \in 1..Len(nonfull) : nonfull[j] = nonfull[k] => j = k
       /\ \A c \in 1..blockcount :
             unallocated[c] > 0 => \E k \in 1..Len(nonfull) : nonfull[k] = c
  BY DEF IInv, ListInv
<1>11. /\ nonfull[1] = b /\ 1 \in 1..Len(nonfull) /\ Len(nonfull) \in Nat
       /\ Len(rest) = Len(nonfull) - 1
       /\ \A k \in 1..Len(rest) : k + 1 \in 1..Len(nonfull) /\ rest[k] = nonfull[k + 1]
  <2>1. /\ nonfull[1] = b /\ Len(nonfull) \in Nat /\ Len(rest) = Len(nonfull) - 1
        /\ \A k \in 1..Len(rest) : k + 1 \in 1..Len(nonfull) /\ rest[k] = nonfull[k + 1]
    BY <1>1, <1>2, <1>5, HeadFacts
  <2>2. Len(rest) \in Nat
    OBVIOUS
  <2> QED BY <2>1, <2>2
<1>12. \A k \in 1..Len(rest) : /\ rest[k] \in 1..blockcount /\ rest[k] # b
                               /\ unallocated[rest[k]] > 0
  <2>1. TAKE k \in 1..Len(rest)
  <2>2. k + 1 \in 1..Len(nonfull) /\ rest[k] = nonfull[k + 1] /\ k + 1 # 1
    BY <1>11
  <2> QED BY <2>2, <1>10, <1>11
<1>13. \A j, k \in 1..Len(rest) : rest[j] = rest[k] => j = k
  <2>1. TAKE j, k \in 1..Len(rest)
  <2>2. HAVE rest[j] = rest[k]
  <2>3. j + 1 = k + 1
    BY <2>2, <1>10, <1>11
  <2> QED BY <2>3
<1>14. \A c \in 1..blockcount : c # b /\ unallocated[c] > 0
                                 => \E k \in 1..Len(rest) : rest[k] = c
  <2>1. TAKE c \in 1..blockcount
  <2>2. HAVE c # b /\ unallocated[c] > 0
  <2>3. PICK k \in 1..Len(nonfull) : nonfull[k] = c
    BY <2>2, <1>10
  <2>4. k # 1
    BY <2>2, <2>3, <1>11
  <2>5. k - 1 \in 1..Len(rest) /\ k = (k - 1) + 1
    BY <2>4, <1>11
  <2>6. rest[k - 1] = nonfull[(k - 1) + 1]
    BY <2>5, <1>11
  <2> QED BY <2>3, <2>5, <2>6
<1>15. /\ unallocated[b] = ObjsPerBlock - Cardinality(usemap[b])
       /\ unallocated[b] \in Int /\ unallocated[b] > 0
  BY <1>1, <1>2, HeadFacts, Geometry
<1>16. \A c \in Blocks : c # b /\ c <= blockcount' => c <= blockcount
  BY <1>7
<1>17. blockcount' \in 0..MaxBlocks /\ b <= blockcount' /\ blockcount <= blockcount'
  BY <1>7, <1>9 DEF Blocks
<1> QED BY <1>4, <1>6, <1>7, <1>8, <1>12, <1>13, <1>14, <1>15, <1>16, <1>17,
           TakeKeeps

\* slalloc_new() with an object of a new block
LEMMA NewFromPageKeeps ==
  ASSUME IInv, NewFromPage
  PROVE  IInv'
<1> USE GeometryAssumption DEF GeometryAssumption
<1>1. nonfull = <<>>
  BY NoneUnusedMeansEmpty DEF NewFromPage
<1>2. blockcount \in 0..MaxBlocks /\ blockcount < MaxBlocks
  BY DEF IInv, SlTypeOK, NewFromPage
<1>3. PICK b \in Blocks : b = blockcount + 1
  BY <1>2 DEF Blocks
<1>4. usemap[b] = {}
  BY <1>2, <1>3 DEF IInv, UsedInv
<1>5. Cardinality(usemap[b]) = 0 /\ ObjsPerBlock \in Nat \ {0}
  BY <1>4, FS_EmptySet, Geometry
<1>6. PICK i : i = FirstUnused(usemap[b])
  OBVIOUS
<1>7. i \in Valid /\ i \notin usemap[b]
  <2>1. usemap[b] \subseteq Valid /\ Cardinality(usemap[b]) < ObjsPerBlock
    BY <1>4, <1>5
  <2> QED BY <2>1, <1>6, FirstUnusedIsObject
<1>8. TakeBit(b, i, usemap[b], ObjsPerBlock, nonfull)
  BY <1>3, <1>4, <1>6 DEF NewFromPage
<1>9. blockcount' = b /\ dirty' = dirty /\ freedmaps' = freedmaps
  BY <1>3 DEF NewFromPage, IInv, UsedInv
<1>10. stale' = FALSE
  BY <1>1 DEF NewFromPage, MayMove, IInv, ListInv
<1>11. nonfull \in Seq(Blocks) /\ Len(nonfull) = 0
  BY <1>1 DEF IInv, SlTypeOK
<1>12. \A c \in 1..blockcount : ~(unallocated[c] > 0)
  BY <1>11 DEF IInv, ListInv
<1>13. \A k \in 1..Len(nonfull) : FALSE
  BY <1>11
<1>14. ObjsPerBlock \in Int /\ ObjsPerBlock > 0
       /\ ObjsPerBlock = ObjsPerBlock - Cardinality(usemap[b])
  BY <1>5
<1>15. /\ blockcount' \in 0..MaxBlocks /\ b <= blockcount' /\ blockcount <= blockcount'
       /\ \A c \in Blocks : c # b /\ c <= blockcount' => c <= blockcount
  BY <1>2, <1>3, <1>9 DEF Blocks
<1> QED BY <1>7, <1>8, <1>9, <1>10, <1>11, <1>12, <1>13, <1>14, <1>15, TakeKeeps

\* slalloc_free()
LEMMA FreeKeeps ==
  ASSUME IInv, NEW a \in live, Free(a)
  PROVE  IInv'
<1> USE GeometryAssumption DEF GeometryAssumption
<1>1. /\ usemap \in [Blocks -> SUBSET MapBits] /\ blockcount \in 0..MaxBlocks
      /\ unallocated \in [Blocks -> 0..ObjsPerBlock] /\ nonfull \in Seq(Blocks)
      /\ a \in SlObjects /\ ObjsPerBlock \in Nat
  BY Geometry DEF IInv, SlTypeOK
<1>2. PICK b \in Blocks : b = a.block
  BY <1>1 DEF SlObjects
<1>3. PICK i \in Nat : i = Bit(a)
  BY <1>1, BitOfObject
<1>4. b <= blockcount /\ i \in usemap[b] /\ b \in 1..blockcount
  BY <1>1, <1>2, <1>3 DEF IInv, LiveInv, Blocks
<1>5. usemap[b] \subseteq Valid
  BY DEF IInv, UsedInv
<1>6. /\ IsFiniteSet(usemap[b]) /\ Cardinality(usemap[b]) \in 0..ObjsPerBlock
      /\ Cardinality(usemap[b] \ {i}) = Cardinality(usemap[b]) - 1
  BY <1>4, <1>5, UsemapFinite, FS_RemoveElement
<1>7. Cardinality(usemap[b] \ {i}) \in Nat
  BY <1>6, FS_RemoveElement, FS_CardinalityType
<1>8. unallocated[b] = ObjsPerBlock - Cardinality(usemap[b])
  BY <1>4 DEF IInv, CountInv
<1>9. unallocated[b] + 1 \in 1..ObjsPerBlock
  BY <1>1, <1>6, <1>7, <1>8
<1>10. /\ usemap' = [usemap EXCEPT ![b] = usemap[b] \ {i}]
       /\ unallocated' = [unallocated EXCEPT ![b] = unallocated[b] + 1]
       /\ nonfull' = IF unallocated[b] = 0 THEN <<b>> \o nonfull ELSE nonfull
       /\ live' = live \ {a} /\ grants' = grants - 1 /\ dirty' = dirty \ {a}
       /\ blockcount' = blockcount /\ freedmaps' = freedmaps /\ stale' = stale
  BY <1>1, <1>2, <1>3 DEF Free
<1>11. /\ IsFiniteSet(live) /\ grants = Cardinality(live) /\ dirty \subseteq live
  BY DEF IInv, GrantInv
<1>12. /\ IsFiniteSet(live') /\ Cardinality(live') = Cardinality(live) - 1
       /\ Cardinality(live') \in Nat
  BY <1>10, <1>11, FS_RemoveElement, FS_CardinalityType
<1>13. SlTypeOK'
  <2>1. usemap' \in [Blocks -> SUBSET MapBits]
    BY <1>1, <1>10
  <2>2. unallocated' \in [Blocks -> 0..ObjsPerBlock]
    <3>1. unallocated[b] + 1 \in 0..ObjsPerBlock
      BY <1>1, <1>9
    <3> QED BY <3>1, <1>1, <1>10
  <2>3. nonfull' \in Seq(Blocks)
    BY <1>1, <1>10, Pushed
  <2>4. live' \subseteq SlObjects /\ dirty' \subseteq SlObjects
    BY <1>10 DEF IInv, SlTypeOK
  <2>5. grants' \in Nat
    BY <1>10, <1>11, <1>12
  <2>6. freedmaps' \subseteq Blocks /\ stale' \in BOOLEAN
    BY <1>10 DEF IInv, SlTypeOK
  <2> QED BY <1>1, <1>10, <2>1, <2>2, <2>3, <2>4, <2>5, <2>6 DEF SlTypeOK
<1>14. UsedInv'
  <2>1. \A c \in Blocks : usemap'[c] \subseteq usemap[c]
    BY <1>1, <1>10
  <2> QED BY <2>1, <1>10 DEF IInv, UsedInv, Valid
<1>15. CountInv'
  <2>1. SUFFICES ASSUME NEW c \in 1..blockcount
                 PROVE unallocated'[c] = ObjsPerBlock - Cardinality(usemap'[c])
    BY <1>10 DEF CountInv
  <2>2. c \in Blocks
    BY <1>1 DEF Blocks
  <2>3. CASE c = b
    BY <2>3, <1>1, <1>6, <1>8, <1>10
  <2>4. CASE c # b
    BY <2>2, <2>4, <1>1, <1>10 DEF IInv, CountInv
  <2> QED BY <2>3, <2>4
<1>16. ListInv'
  <2>1. /\ \A k \in 1..Len(nonfull) :
             nonfull[k] \in 1..blockcount /\ unallocated[nonfull[k]] > 0
        /\ \A j, k \in 1..Len(nonfull) : nonfull[j] = nonfull[k] => j = k
        /\ \A c \in 1..blockcount :
             unallocated[c] > 0 => \E k \in 1..Len(nonfull) : nonfull[k] = c
        /\ stale = FALSE
    BY DEF IInv, ListInv
  <2>2. /\ unallocated'[b] > 0
        /\ \A c \in Blocks : c # b => unallocated'[c] = unallocated[c]
    BY <1>1, <1>9, <1>10
  <2>3. \A c \in 1..blockcount : c \in Blocks
    BY <1>1 DEF Blocks
  <2>4. \A k \in 1..Len(nonfull) : unallocated'[nonfull[k]] > 0
    BY <2>1, <2>2, <2>3
  <2>5. CASE unallocated[b] # 0
    <3>1. unallocated[b] > 0
      BY <2>5, <1>1
    <3>2. \A c \in 1..blockcount :
            unallocated'[c] > 0 => \E k \in 1..Len(nonfull) : nonfull[k] = c
      BY <2>1, <2>2, <2>3, <3>1
    <3>3. nonfull' = nonfull
      BY <2>5, <1>10
    <3> QED BY <2>1, <2>4, <3>2, <3>3, <1>10 DEF ListInv
  <2>6. CASE unallocated[b] = 0
    <3>1. PICK s : s = <<b>> \o nonfull
      OBVIOUS
    <3>2. nonfull' = s
      BY <2>6, <3>1, <1>10
    <3>3. /\ s[1] = b /\ Len(nonfull) \in Nat /\ Len(s) = Len(nonfull) + 1
          /\ \A k \in 1..Len(nonfull) : k + 1 \in 1..Len(s) /\ s[k + 1] = nonfull[k]
          /\ \A k \in 1..Len(s) :
                k # 1 => k - 1 \in 1..Len(nonfull) /\ s[k] = nonfull[k - 1]
      BY <3>1, <1>1, Pushed
    <3>4. \A k \in 1..Len(nonfull) : nonfull[k] # b
      BY <2>1, <2>6
    <3>5. \A k \in 1..Len(s) : s[k] \in 1..blockcount /\ unallocated'[s[k]] > 0
      <4>1. TAKE k \in 1..Len(s)
      <4>2. CASE k = 1
        BY <4>2, <3>3, <2>2, <1>4
      <4>3. CASE k # 1
        BY <4>3, <3>3, <2>1, <2>4
      <4> QED BY <4>2, <4>3
    <3>6. ASSUME NEW j \in 1..Len(s), NEW k \in 1..Len(s), s[j] = s[k]
          PROVE  j = k
      <4>1. CASE j = 1 /\ k # 1
        BY <4>1, <3>3, <3>4, <3>6
      <4>2. CASE j # 1 /\ k = 1
        BY <4>2, <3>3, <3>4, <3>6
      <4>3. CASE j # 1 /\ k # 1
        <5>1. /\ j - 1 \in 1..Len(nonfull) /\ s[j] = nonfull[j - 1]
              /\ k - 1 \in 1..Len(nonfull) /\ s[k] = nonfull[k - 1]
          BY <4>3, <3>3
        <5>2. j - 1 = k - 1
          BY <5>1, <3>6, <2>1
        <5> QED BY <5>2
      <4> QED BY <4>1, <4>2, <4>3
    <3>7. ASSUME NEW c \in 1..blockcount, unallocated'[c] > 0
          PROVE  \E k \in 1..Len(s) : s[k] = c
      <4>1. CASE c = b
        BY <4>1, <3>3
      <4>2. CASE c # b
        <5>1. PICK k \in 1..Len(nonfull) : nonfull[k] = c
          BY <3>7, <4>2, <2>1, <2>2, <2>3
        <5>2. k + 1 \in 1..Len(s) /\ s[k + 1] = c
          BY <5>1, <3>3
        <5> QED BY <5>2
      <4> QED BY <4>1, <4>2
    <3> QED BY <2>1, <3>2, <3>5, <3>6, <3>7, <1>10 DEF ListInv
  <2> QED BY <2>5, <2>6
<1>17. LiveInv'
  <2>1. SUFFICES ASSUME NEW c \in SlObjects
                 PROVE  c \in live' <=> c.block <= blockcount /\ Bit(c) \in usemap'[c.block]
    BY <1>10 DEF LiveInv, Bit
  <2>2. c.block \in Blocks
    BY DEF SlObjects
  <2>3. c = a <=> c.block = b /\ Bit(c) = i
    BY <1>1, <1>2, <1>3, BitOfObject
  <2>4. c \in live <=> c.block <= blockcount /\ Bit(c) \in usemap[c.block]
    BY DEF IInv, LiveInv
  <2>5. Bit(c) \in usemap'[c.block] <=> Bit(c) \in usemap[c.block] /\ c # a
    <3>1. CASE c.block = b
      BY <3>1, <2>3, <1>1, <1>10
    <3>2. CASE c.block # b
      BY <3>2, <2>2, <2>3, <1>1, <1>10
    <3> QED BY <3>1, <3>2
  <2> QED BY <2>4, <2>5, <1>10
<1>18. GrantInv'
  BY <1>10, <1>11, <1>12 DEF GrantInv
<1> QED BY <1>13, <1>14, <1>15, <1>16, <1>17, <1>18 DEF IInv

\* An empty cache, as create_slalloc() makes it, satisfies the invariant
LEMMA InitIInv == SlInit => IInv
<1> SUFFICES ASSUME SlInit PROVE IInv
  OBVIOUS
<1> USE GeometryAssumption DEF GeometryAssumption
<1>1. ObjsPerBlock \in Nat
  BY Geometry
<1>2. Len(nonfull) = 0 /\ nonfull \in Seq(Blocks)
  BY DEF SlInit
<1>3. usemap \in [Blocks -> SUBSET MapBits] /\ unallocated \in [Blocks -> 0..ObjsPerBlock]
  BY <1>1 DEF SlInit
<1>4. SlTypeOK
  <2>1. blockcount \in 0..MaxBlocks /\ grants \in Nat
    BY DEF SlInit
  <2>2. live \subseteq SlObjects /\ dirty \subseteq SlObjects /\ freedmaps \subseteq Blocks
    BY DEF SlInit
  <2>3. stale \in BOOLEAN
    BY DEF SlInit
  <2> QED BY <2>1, <2>2, <2>3, <1>2, <1>3 DEF SlTypeOK
<1>5. UsedInv
  BY DEF UsedInv, SlInit
<1>6. CountInv
  BY DEF CountInv, SlInit
<1>7. ListInv
  BY <1>2 DEF ListInv, SlInit
<1>8. LiveInv
  BY DEF LiveInv, SlObjects, Blocks, SlInit
<1>9. GrantInv
  BY FS_EmptySet DEF GrantInv, SlInit
<1> QED BY <1>4, <1>5, <1>6, <1>7, <1>8, <1>9 DEF IInv

\* The invariant holds of a new cache and every call keeps it, unless the pages
\* of a block cannot be had
LEMMA SpecIInv ==
  ASSUME "pages" \notin SlFaults
  PROVE  SlSpec => []IInv
<1>1. SlInit => IInv
  BY InitIInv
<1>2. IInv /\ [SlNext]_slvars => IInv'
  <2>1. SUFFICES ASSUME IInv, [SlNext]_slvars PROVE IInv'
    OBVIOUS
  <2>2. CASE NewFromHead
    BY <2>1, <2>2, NewFromHeadKeeps
  <2>3. CASE NewFromPage
    BY <2>1, <2>3, NewFromPageKeeps
  <2>4. CASE NewFails
    <3>1. nonfull = <<>>
      BY <2>1, <2>4, NoneUnusedMeansEmpty DEF NewFails
    <3>2. stale' = stale
      BY <2>1, <2>4, <3>1 DEF NewFails, MayMove, IInv, ListInv
    <3>3. UNCHANGED <<nonfull, unallocated, usemap, freedmaps, blockcount, live, grants, dirty>>
      BY <2>4 DEF NewFails
    <3> QED
      BY <2>1, <3>2, <3>3 DEF IInv, SlTypeOK, UsedInv, CountInv, ListInv, LiveInv,
         GrantInv, Bit, Valid
  <2>5. CASE Destroy
    <3>1. SlInit'
      BY <2>5 DEF Destroy, SlInit
    <3> QED BY <3>1, InitIInv, PTL
  <2>6. CASE \E a \in live : WriteObject(a) \/ Free(a)
    <3>1. PICK a \in live : WriteObject(a) \/ Free(a)
      BY <2>6
    <3>2. CASE Free(a)
      BY <2>1, <3>2, FreeKeeps
    <3>3. CASE WriteObject(a)
      <4>1. UNCHANGED <<blockcount, usemap, unallocated, nonfull, freedmaps, stale, live, grants>>
        BY <3>3 DEF WriteObject
      <4>2. dirty' \subseteq live' /\ dirty' \subseteq SlObjects
        BY <2>1, <3>3, <4>1 DEF WriteObject, IInv, GrantInv, SlTypeOK
      <4> QED
        BY <2>1, <4>1, <4>2 DEF IInv, SlTypeOK, UsedInv, CountInv, ListInv, LiveInv,
           GrantInv, Bit, Valid
    <3> QED BY <3>1, <3>2, <3>3
  <2>7. CASE UNCHANGED slvars
    BY <2>1, <2>7 DEF slvars, IInv, SlTypeOK, UsedInv, CountInv, ListInv, LiveInv,
       GrantInv, Bit, Valid
  <2> QED BY <2>1, <2>2, <2>3, <2>4, <2>5, <2>6, <2>7 DEF SlNext
<1> QED BY <1>1, <1>2, PTL DEF SlSpec

-----------------------------------------------------------------------------
(* The usemaps are a pool.                                                 *)

\* The bits that are set are those of the objects handed out
LEMMA VisitedAreLive == IInv => Visited = live
<1> SUFFICES ASSUME IInv PROVE Visited = live
  OBVIOUS
<1>1. ASSUME NEW a \in live PROVE a \in Visited
  <2>1. a \in SlObjects
    BY DEF IInv, SlTypeOK
  <2>2. a.block \in Blocks /\ a.block <= blockcount /\ Bit(a) \in usemap[a.block]
    BY <1>1, <2>1 DEF IInv, LiveInv, SlObjects
  <2>3. a.block \in 1..blockcount /\ Bit(a) \in MapBits
    BY <2>2 DEF IInv, SlTypeOK, Blocks
  <2>4. a = Object(a.block, Bit(a))
    BY <2>1, BitOfObject
  <2> QED BY <2>1, <2>2, <2>3, <2>4 DEF Visited
<1>2. ASSUME NEW a \in Visited PROVE a \in live
  <2>1. PICK b \in 1..blockcount, i \in MapBits : a = Object(b, i)
    BY DEF Visited
  <2>2. a \in SlObjects /\ Bit(a) \in usemap[a.block]
    BY DEF Visited
  <2>3. a.block = b /\ a.block <= blockcount
    BY <2>1 DEF Object, IInv, SlTypeOK
  <2> QED BY <2>2, <2>3 DEF IInv, LiveInv
<1> QED BY <1>1, <1>2

Places == {Object(b, i) : b \in Blocks, i \in 0..(ObjsPerBlock - 1)}

\* The object of an unused bit was nobody's, and is all zero
LEMMA TakeIsTake ==
  ASSUME IInv, IInv', NEW b \in Blocks, NEW i \in Valid, i \notin usemap[b],
         live' = live \cup {Object(b, i)}, dirty' = dirty
  PROVE  Store!Take
<1> DEFINE a == Object(b, i)
<1>1. a \in SlObjects /\ a.block = b /\ Bit(a) = i /\ a \in Places
  BY ObjectOfBit DEF Places, Valid
<1> HIDE DEF a
<1>2. a \notin live
  BY <1>1 DEF IInv, LiveInv
<1>3. a \notin dirty
  BY <1>2 DEF IInv, GrantInv
<1>4. Visited = live /\ (Visited = live)'
  BY VisitedAreLive, PTL
<1>5. Visited' = Visited \cup {a}
  BY <1>4 DEF a
<1> QED BY <1>1, <1>2, <1>3, <1>4, <1>5 DEF Store!Take, Places

\* What each call of the allocator is to its user
LEMMA StepIsPoolStep ==
  ASSUME "pages" \notin SlFaults, IInv, IInv', [SlNext]_slvars
  PROVE  [Store!Next]_<<Visited, dirty>>
<1>1. Visited = live /\ (Visited = live)'
  BY VisitedAreLive, PTL
<1>2. CASE NewFromHead
  <2>1. nonfull # <<>>
    BY <1>2 DEF NewFromHead
  <2>2. PICK b \in Blocks : b = Head(nonfull)
    BY <2>1, HeadFacts
  <2>3. PICK i : i = FirstUnused(usemap[b])
    OBVIOUS
  <2>4. i \in Valid /\ i \notin usemap[b]
    BY <2>1, <2>2, <2>3, HeadFacts, FirstUnusedIsObject
  <2>5. live' = live \cup {Object(b, i)} /\ dirty' = dirty
    BY <1>2, <2>1, <2>2, <2>3, HeadFacts DEF NewFromHead, TakeBit
  <2> QED BY <2>4, <2>5, TakeIsTake DEF Store!Next
<1>3. CASE NewFromPage
  <2>1. blockcount \in 0..MaxBlocks /\ blockcount < MaxBlocks
    BY <1>3 DEF IInv, SlTypeOK, NewFromPage
  <2>2. PICK b \in Blocks : b = blockcount + 1
    BY <2>1, GeometryAssumption DEF Blocks, GeometryAssumption
  <2>3. usemap[b] = {}
    BY <2>1, <2>2 DEF IInv, UsedInv
  <2>4. PICK i : i = FirstUnused({})
    OBVIOUS
  <2>5. i \in Valid
    BY <2>4, FS_EmptySet, Geometry, FirstUnusedIsObject
  <2>6. live' = live \cup {Object(b, i)} /\ dirty' = dirty
    BY <1>3, <2>2, <2>4 DEF NewFromPage, TakeBit
  <2> QED BY <2>3, <2>5, <2>6, TakeIsTake DEF Store!Next
<1>4. CASE NewFails
  BY <1>1, <1>4 DEF NewFails
<1>5. CASE Destroy
  BY <1>1, <1>5 DEF Destroy, Store!Next, Store!Clear
<1>6. ASSUME NEW a \in live, WriteObject(a) PROVE Store!Write
  BY <1>1, <1>6 DEF WriteObject, Store!Write
<1>7. ASSUME NEW a \in live, Free(a) PROVE Store!Return
  BY <1>1, <1>7 DEF Free, Store!Return
<1>8. CASE UNCHANGED slvars
  BY <1>1, <1>8 DEF slvars
<1> QED BY <1>2, <1>3, <1>4, <1>5, <1>6, <1>7, <1>8 DEF SlNext, Store!Next

-----------------------------------------------------------------------------
(* The theorems. Their hypothesis is the one the code needs: Slalloc_pages *)
(* shows what happens when fistful_of_pages() fails.                       *)

\* Every object slalloc_new() has given out lies in the pages of a block: the
\* bits to spare at the end of a usemap are never taken (take_first_unused()).
THEOREM InsideBlockCorrect ==
  ASSUME "pages" \notin SlFaults
  PROVE  SlSpec => []InsideBlock
<1>1. IInv => InsideBlock
  <2>1. SUFFICES ASSUME IInv, NEW a \in live
                 PROVE  a.block <= blockcount /\ a.page < PagesPerBlock
    BY DEF InsideBlock
  <2>2. a \in SlObjects
    BY <2>1 DEF IInv, SlTypeOK
  <2>3. a.block \in Blocks
    BY <2>2 DEF SlObjects
  <2>4. a.block <= blockcount /\ Bit(a) \in usemap[a.block]
    BY <2>1, <2>2 DEF IInv, LiveInv
  <2>5. Bit(a) \in Valid
    BY <2>1, <2>3, <2>4 DEF IInv, UsedInv
  <2>6. Object(a.block, Bit(a)).page < PagesPerBlock
    BY <2>3, <2>5, ObjectOfBit
  <2> QED BY <2>2, <2>4, <2>6, BitOfObject
<1> QED BY <1>1, SpecIInv, PTL

\* No object is given to two users: as many are out as were granted.
THEOREM NoSharingCorrect ==
  ASSUME "pages" \notin SlFaults
  PROVE  SlSpec => []NoSharing
<1>1. IInv => NoSharing
  BY DEF IInv, GrantInv, NoSharing
<1> QED BY <1>1, SpecIInv, PTL

\* The nonfull list and the counters agree with the usemaps, and Realloc() never
\* moves a usemap that is on the list.
THEOREM NonfullListCorrect ==
  ASSUME "pages" \notin SlFaults
  PROVE  SlSpec => []NonfullListSound
<1>1. ASSUME IInv PROVE NonfullListSound
  <2>1. /\ \A b \in 1..blockcount : unallocated[b] = ObjsPerBlock - Cardinality(usemap[b])
        /\ ~stale
    BY <1>1 DEF IInv, CountInv, ListInv
  <2>2. \A j, k \in 1..Len(nonfull) : nonfull[j] = nonfull[k] => j = k
    BY <1>1 DEF IInv, ListInv
  <2>3. {nonfull[k] : k \in 1..Len(nonfull)} = {b \in 1..blockcount : unallocated[b] > 0}
    BY <1>1 DEF IInv, ListInv
  <2>4. {nonfull[k] : k \in 1..Len(nonfull)}
          = {b \in 1..blockcount : ObjsPerBlock - Cardinality(usemap[b]) > 0}
    BY <2>1, <2>3
  <2> QED BY <2>1, <2>2, <2>4 DEF NonfullListSound
<1> QED BY <1>1, SpecIInv, PTL

\* slalloc_foreach() visits the objects in use and no other.
THEOREM ForeachCorrect ==
  ASSUME "pages" \notin SlFaults
  PROVE  SlSpec => []ForeachVisitsLive
<1>1. IInv => ForeachVisitsLive
  BY VisitedAreLive DEF ForeachVisitsLive
<1> QED BY <1>1, SpecIInv, PTL

\* An object is zeroed whenever it is not in use.
THEOREM CleanCorrect ==
  ASSUME "pages" \notin SlFaults
  PROVE  SlSpec => []FreeObjectsAreClean
<1>1. IInv => FreeObjectsAreClean
  BY DEF IInv, GrantInv, FreeObjectsAreClean
<1> QED BY <1>1, SpecIInv, PTL

\* The words and bits of the usemaps, the list and the counters implement a pool of
\* objects: slalloc_new() gives an object that is nobody's and all zero, and changes
\* nothing when it fails; slalloc_free() takes back its object and no other.
THEOREM PoolCorrect ==
  ASSUME "pages" \notin SlFaults
  PROVE  SlSpec => SlallocImplementsPool
<1>1. SlInit => Store!Init
  BY DEF SlInit, Store!Init, Visited
<1>2. IInv /\ IInv' /\ [SlNext]_slvars => [Store!Next]_<<Visited, dirty>>
  BY StepIsPoolStep
<1> QED BY <1>1, <1>2, SpecIInv, PTL DEF SlSpec, SlallocImplementsPool, Store!Spec
=============================================================================
