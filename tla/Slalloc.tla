------------------------------ MODULE Slalloc ------------------------------
(***************************************************************************)
(* libdank/objects/slalloc.c: the slab allocator. Objects of one size come *)
(* out of blocks of pages; a block's usemap has one bit per object, word   *)
(* by word, and the blocks with unused objects are on the nonfull list.    *)
(* An object is its block, the page in the block and the slot in the page. *)
(* A call is a step: the allocator has no lock, its user has to.           *)
(***************************************************************************)
EXTENDS Integers, Sequences, FiniteSets

CONSTANTS ObjsPerPage,  \* objsperpage: objects that fit in a page
          ObjsPerWord,  \* OBJSPERWORD: bits in a word of a usemap
          MaxBlocks,    \* bound: blocks of a cache
          SlFaults        \* allocations that may fail: "arrays", "pages"

ASSUME GeometryAssumption ==
  /\ ObjsPerPage \in Nat \ {0}
  /\ ObjsPerWord \in Nat \ {0}
  /\ MaxBlocks \in Nat

\* x & -x: the rightmost 1 bit of x, its largest divisor that is a power of two
Powers(x) == {d \in 1..x : (\E k \in 0..x : d = 2^k) /\ x % d = 0}
RightmostOne(x) == CHOOSE d \in Powers(x) : \A e \in Powers(x) : e <= d

\* create_slalloc(): pages per block
PagesFor(objsperpage) ==
  LET ppb == ObjsPerWord \div objsperpage
  IN IF ppb = 0 THEN 1 ELSE RightmostOne(ppb)

PagesPerBlock == PagesFor(ObjsPerPage)
ObjsPerBlock == ObjsPerPage * PagesPerBlock
ObjWordsPerBlock ==
  ObjsPerBlock \div ObjsPerWord + IF ObjsPerBlock % ObjsPerWord # 0 THEN 1 ELSE 0

Blocks == 1..MaxBlocks
\* Bit y of word z of a usemap is number z * ObjsPerWord + y
MapBits == 0..(ObjWordsPerBlock * ObjsPerWord - 1)
SlObjects == [block : Blocks, page : Nat, slot : 0..(ObjsPerPage - 1)]

VARIABLES
  blockcount,   \* sl->blockcount
  usemap,       \* block -> the bits of its usemap that are 1
  unallocated,  \* block -> its counter of unused objects
  nonfull,      \* sl->nonfull_usemaps: the list, head first
  freedmaps,    \* blocks whose usemap was released
  stale,        \* the list leads into the array Realloc() has moved
  live,         \* objects given out and not returned
  grants,       \* calls that gave an object out, less those that returned one
  dirty         \* objects that are not zeroed

slvars == <<blockcount, usemap, unallocated, nonfull, freedmaps, stale, live,
          grants, dirty>>

\* The values of the variables
SlTypeOK ==
  /\ blockcount \in 0..MaxBlocks
  /\ usemap \in [Blocks -> SUBSET MapBits]
  /\ unallocated \in [Blocks -> 0..ObjsPerBlock]
  /\ nonfull \in Seq(Blocks)
  /\ freedmaps \subseteq Blocks
  /\ stale \in BOOLEAN
  /\ live \subseteq SlObjects
  /\ grants \in Nat
  /\ dirty \subseteq SlObjects

\* create_slalloc()
SlInit ==
  /\ blockcount = 0
  /\ usemap = [b \in Blocks |-> {}]
  /\ unallocated = [b \in Blocks |-> 0]
  /\ nonfull = <<>>
  /\ freedmaps = {}
  /\ stale = FALSE
  /\ live = {}
  /\ grants = 0
  /\ dirty = {}

\* Where the object of bit i lies, and slalloc_free()'s way back
Object(b, i) ==
  [block |-> b, page |-> i \div ObjsPerPage, slot |-> i % ObjsPerPage]
Bit(a) == a.page * ObjsPerPage + a.slot

\* The rightmost 0 bit of the first word that has one
FirstUnused(used) == CHOOSE i \in MapBits \ used : \A j \in MapBits \ used : i <= j

\* What take_first_unused() finds in a usemap: anything, once it was released
Contents(b) == IF b \in freedmaps THEN SUBSET MapBits ELSE {usemap[b]}

\* Mutant of TakeBit: the counter runs late
TakeBitLateCounter(b, i, used, left, rest) ==
  /\ usemap' = [usemap EXCEPT ![b] = used \cup {i}]
  /\ unallocated' = [unallocated EXCEPT ![b] = IF left = 0 THEN 0 ELSE left - 1]
  /\ nonfull' = IF left = 0 THEN rest ELSE <<b>> \o rest
  /\ live' = live \cup {Object(b, i)}
  /\ grants' = grants + 1

\* Mutant of TakeBit: the bit is not set
TakeBitUnmarked(b, i, used, left, rest) ==
  /\ usemap' = [usemap EXCEPT ![b] = used]
  /\ unallocated' = [unallocated EXCEPT ![b] = left - 1]
  /\ nonfull' = IF left - 1 = 0 THEN rest ELSE <<b>> \o rest
  /\ live' = live \cup {Object(b, i)}
  /\ grants' = grants + 1

\* take_first_unused() takes bit i of block b, the head of the list: used are
\* the bits found set, left its counter, rest the list behind it
TakeBit(b, i, used, left, rest) ==
  /\ usemap' = [usemap EXCEPT ![b] = used \cup {i}]
  /\ unallocated' = [unallocated EXCEPT ![b] = left - 1]
  /\ nonfull' = IF left - 1 = 0 THEN rest ELSE <<b>> \o rest
  /\ live' = live \cup {Object(b, i)}
  /\ grants' = grants + 1

\* take_first_unused() returns NULL
NoneUnused ==
  nonfull # <<>> => \E used \in Contents(Head(nonfull)) : MapBits \ used = {}

\* slalloc_new(): an object of the block at the head
NewFromHead ==
  /\ nonfull # <<>>
  /\ \E used \in Contents(Head(nonfull)) :
       /\ MapBits \ used # {}
       /\ TakeBit(Head(nonfull), FirstUnused(used), used,
                  unallocated[Head(nonfull)], Tail(nonfull))
  /\ UNCHANGED <<blockcount, freedmaps, stale, dirty>>

\* Realloc() of the array of usemaps may move it
MayMove == \E moved \in BOOLEAN : stale' = (stale \/ (moved /\ nonfull # <<>>))

\* slalloc_new(): add_slalloc_page(), and an object of the new block
NewFromPage ==
  LET b == blockcount + 1 IN
  /\ NoneUnused
  /\ blockcount < MaxBlocks
  /\ MayMove
  /\ blockcount' = b
  /\ freedmaps' = freedmaps \ {b}
  /\ TakeBit(b, FirstUnused({}), {}, ObjsPerBlock, nonfull)
  /\ UNCHANGED dirty

\* add_slalloc_page() fails: in one of the arrays or the usemap, or when the
\* usemap is on the list and no pages are to be had
NewFails ==
  LET b == blockcount + 1 IN
  /\ NoneUnused
  /\ blockcount < MaxBlocks
  /\ MayMove
  /\ \E f \in SlFaults :
       IF f = "pages"
       THEN /\ nonfull' = <<b>> \o nonfull
            /\ unallocated' = [unallocated EXCEPT ![b] = ObjsPerBlock]
            /\ usemap' = [usemap EXCEPT ![b] = {}]
            /\ freedmaps' = freedmaps \cup {b}
       ELSE UNCHANGED <<nonfull, unallocated, usemap, freedmaps>>
  /\ UNCHANGED <<blockcount, live, grants, dirty>>

\* The user writes to an object
WriteObject(a) ==
  /\ a \in live
  /\ dirty' = dirty \cup {a}
  /\ UNCHANGED <<blockcount, usemap, unallocated, nonfull, freedmaps, stale,
                 live, grants>>

\* Mutants of Free: the object is not zeroed; the block is linked again whenever
\* an object comes back
FreeDirty(a) ==
  LET b == a.block IN
  /\ a \in live
  /\ usemap' = [usemap EXCEPT ![b] = @ \ {Bit(a)}]
  /\ unallocated' = [unallocated EXCEPT ![b] = @ + 1]
  /\ nonfull' = IF unallocated[b] = 0 THEN <<b>> \o nonfull ELSE nonfull
  /\ live' = live \ {a}
  /\ grants' = grants - 1
  /\ UNCHANGED <<blockcount, freedmaps, stale, dirty>>

FreeRelinks(a) ==
  LET b == a.block IN
  /\ a \in live
  /\ usemap' = [usemap EXCEPT ![b] = @ \ {Bit(a)}]
  /\ unallocated' = [unallocated EXCEPT ![b] = @ + 1]
  /\ nonfull' = <<b>> \o nonfull
  /\ live' = live \ {a}
  /\ grants' = grants - 1
  /\ dirty' = dirty \ {a}
  /\ UNCHANGED <<blockcount, freedmaps, stale>>

\* slalloc_free(): find_block_idx() finds the block by the address
Free(a) ==
  LET b == a.block IN
  /\ a \in live
  /\ usemap' = [usemap EXCEPT ![b] = @ \ {Bit(a)}]
  /\ unallocated' = [unallocated EXCEPT ![b] = @ + 1]
  /\ nonfull' = IF unallocated[b] = 0 THEN <<b>> \o nonfull ELSE nonfull
  /\ live' = live \ {a}
  /\ grants' = grants - 1
  /\ dirty' = dirty \ {a}
  /\ UNCHANGED <<blockcount, freedmaps, stale>>

\* destroy_slalloc(), and a new cache
Destroy ==
  /\ blockcount' = 0
  /\ usemap' = [b \in Blocks |-> {}]
  /\ unallocated' = [b \in Blocks |-> 0]
  /\ nonfull' = <<>>
  /\ freedmaps' = {}
  /\ stale' = FALSE
  /\ live' = {}
  /\ grants' = 0
  /\ dirty' = {}

SlNext ==
  \/ NewFromHead \/ NewFromPage \/ NewFails \/ Destroy
  \/ \E a \in live : WriteObject(a) \/ Free(a)

SlSpec == SlInit /\ [][SlNext]_slvars

-----------------------------------------------------------------------------

\* FOREACH_CORE: the objects slalloc_foreach() calls back for
Visited == {Object(b, i) : b \in 1..blockcount, i \in MapBits}
             \cap {a \in SlObjects : Bit(a) \in usemap[a.block]}

\* Every object given out lies in the pages of a block of the cache. This is what
\* the comment in take_first_unused() argues for: the last word of a usemap may
\* have more bits than the block has objects, and none of those is ever taken.
InsideBlock ==
  \A a \in live : a.block <= blockcount /\ a.page < PagesPerBlock

\* No two users get the same object, whatever was taken and returned before.
NoSharing == grants = Cardinality(live)

\* slalloc_foreach() visits the objects that are in use and no other: the bits
\* that are set are those of the objects given out.
ForeachVisitsLive == Visited = live

\* The nonfull list holds each block with an unused object once and no full
\* block, the counters agree with the usemaps, and nothing on the list was left
\* pointing into an array that Realloc() has moved.
NonfullListSound ==
  LET left(b) == ObjsPerBlock - Cardinality(usemap[b])
  IN /\ \A b \in 1..blockcount : unallocated[b] = left(b)
     /\ {nonfull[k] : k \in 1..Len(nonfull)} = {b \in 1..blockcount : left(b) > 0}
     /\ \A j, k \in 1..Len(nonfull) : nonfull[j] = nonfull[k] => j = k
     /\ ~stale

\* An object is all zero when it is given out: only objects in use are dirty. It is
\* what SlallocImplementsPool says of an object that is taken.
FreeObjectsAreClean == dirty \subseteq live

\* The usemaps, seen as a pool of the objects whose bits are set
Store == INSTANCE Pool WITH
           Places <- {Object(b, i) : b \in Blocks, i \in 0..(ObjsPerBlock - 1)},
           used <- Visited

\* A call of slalloc_new() marks one object that is unused and all zero, or none;
\* slalloc_free() unmarks its object and no other; a block that is added or an
\* allocation that failed changes nothing of that.
SlallocImplementsPool == Store!Spec
=============================================================================
