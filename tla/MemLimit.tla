------------------------------- MODULE MemLimit -------------------------------
(***************************************************************************)
(* The accounts of memory, libdank/utils/memlimit.c: threads allocate and    *)
(* release objects on the heap and maps, under one lock, and tests make the   *)
(* allocator fail on purpose.                                                 *)
(***************************************************************************)
EXTENDS Integers, FiniteSets

CONSTANTS Threads,
          Objects,      \* what may be allocated at a time (a bound)
          MaxRequests,  \* a bound
          SizeBits, Limits, Percents, Sizes

VARIABLES allocs_used, allocs_reqd, allocs_fail, poisoned_idx, memory_usage_limit,
          heap, maps,   \* objects of malloc() and of mmap()
          remapping,    \* what a thread in mremap_and_truncate() has yet to do
          poison,       \* n of the last failloc_on_n(n)
          served,       \* requests that have had their memory since
          pallocs       \* those of them that Palloc() made

memvars == <<allocs_used, allocs_reqd, allocs_fail, poisoned_idx, memory_usage_limit,
             heap, maps, remapping, poison, served, pallocs>>
counts == <<allocs_used, allocs_reqd, allocs_fail, poisoned_idx, poison, served, pallocs>>

MemInit == /\ allocs_used = 0 /\ allocs_reqd = 0 /\ allocs_fail = 0 /\ poisoned_idx = -1
           /\ memory_usage_limit = 0 /\ heap = {} /\ maps = {}
           /\ remapping = [t \in Threads |-> "no"] /\ poison = -1 /\ served = 0
           /\ pallocs = 0

MemIdle(t) == remapping[t] = "no"
Calls(t) == MemIdle(t) /\ allocs_reqd < MaxRequests /\ UNCHANGED <<memory_usage_limit, remapping, poison>>
Fresh == CHOOSE o \in Objects : o \notin heap \cup maps
Room == Objects # heap \cup maps

\* Requests are counted, and while n >= 0 only n of them get on.
Lenient == /\ allocs_reqd' = allocs_reqd + 1
           /\ poisoned_idx' = IF poisoned_idx > 1 THEN poisoned_idx - 1 ELSE poisoned_idx
check_alloc_req == /\ allocs_reqd' = allocs_reqd + 1
                   /\ poisoned_idx' = IF poisoned_idx > 0 THEN poisoned_idx - 1 ELSE poisoned_idx

Poisoned == poisoned_idx = 0 /\ allocs_reqd' = allocs_reqd + 1 /\ UNCHANGED poisoned_idx
Granted == poisoned_idx # 0 /\ check_alloc_req
Outstanding(n) == allocs_used' = allocs_used + n /\ UNCHANGED allocs_fail
Served(n) == Outstanding(n) /\ served' = served + 1 /\ UNCHANGED pallocs
Failed(n) == allocs_fail' = allocs_fail + n /\ UNCHANGED <<allocs_used, served, pallocs>>

\* An allocation of no bytes changes nothing but the account of Mmalloc().
Malloc(t) ==
  /\ Calls(t) /\ UNCHANGED maps
  /\ \/ Granted /\ Room /\ heap' = heap \cup {Fresh} /\ Served(1)
     \/ Granted /\ UNCHANGED heap /\ Failed(1)
     \/ Poisoned /\ UNCHANGED heap /\ Failed(0)

CountsGrowth(t, o) ==
  /\ Calls(t) /\ UNCHANGED <<heap, maps>>
  /\ Granted /\ Served(1)

\* Of an object there is; without one it is Malloc().
Realloc(t, o) ==
  /\ Calls(t) /\ UNCHANGED <<heap, maps>>
  /\ \/ Granted /\ Served(0)
     \/ Granted /\ Failed(1)
     \/ Poisoned /\ Failed(0)

\* The bytes that p percent of what is left are, nine tenths of it at most.
size_palloc_req(limit, used, p) ==
  LET left == (limit - used) % (2 ^ SizeBits)
      most == (left \div 10) * 9
      size == ((left \div 100) * p) % (2 ^ SizeBits)
  IN IF limit = 0 THEN 0 ELSE IF size > most THEN most ELSE size

\* Poison does not reach it.
Palloc(t) ==
  /\ Calls(t) /\ allocs_reqd' = allocs_reqd + 1 /\ UNCHANGED <<poisoned_idx, maps>>
  /\ \E used \in Limits, p \in Percents, osiz \in Sizes :
       LET rsiz == size_palloc_req(memory_usage_limit, used, p)
       IN \/ /\ rsiz >= osiz /\ Room /\ heap' = heap \cup {Fresh}
             /\ Outstanding(1) /\ served' = served + 1 /\ pallocs' = pallocs + 1
          \/ UNCHANGED heap /\ Failed(1)

Deepfree(o) == /\ heap' = heap \ {o} /\ allocs_used' = allocs_used - 1
               /\ UNCHANGED <<allocs_reqd, allocs_fail, poisoned_idx, memory_usage_limit,
                              maps, remapping, poison, served, pallocs>>

Mmalloc(t) ==
  /\ Calls(t) /\ UNCHANGED heap
  /\ \/ Granted /\ Room /\ maps' = maps \cup {Fresh} /\ Served(1)
     \/ Granted /\ UNCHANGED maps /\ Failed(1)
     \/ Poisoned /\ UNCHANGED maps /\ Failed(1)
     \/ \* of no bytes
        allocs_fail < MaxRequests /\ UNCHANGED <<allocs_reqd, poisoned_idx, maps>> /\ Failed(1)

\* Mfree() and mremap_munmap(), when munmap() agrees.
Mfree(o) == /\ maps' = maps \ {o} /\ allocs_used' = allocs_used - 1
            /\ UNCHANGED <<allocs_reqd, allocs_fail, poisoned_idx, memory_usage_limit,
                           heap, remapping, poison, served, pallocs>>

\* mremap_and_truncate() of a new map: counted first, then mapped; when that fails,
\* the failure is counted, then the allocation is taken back, each under the lock.
track_allocation(t) ==
  /\ MemIdle(t) /\ allocs_reqd < MaxRequests
  /\ \/ Granted /\ Served(1) /\ remapping' = [remapping EXCEPT ![t] = "map"]
     \/ Poisoned /\ Failed(1) /\ UNCHANGED remapping
  /\ UNCHANGED <<memory_usage_limit, heap, maps, poison>>

mremap_and_truncate(t) ==
  /\ remapping[t] = "map"
  /\ \/ Room /\ maps' = maps \cup {Fresh} /\ remapping' = [remapping EXCEPT ![t] = "no"]
     \/ UNCHANGED maps /\ remapping' = [remapping EXCEPT ![t] = "failed"]
  /\ UNCHANGED <<counts, memory_usage_limit, heap>>

track_failloc(t) ==
  /\ remapping[t] = "failed" /\ remapping' = [remapping EXCEPT ![t] = "undo"]
  /\ allocs_fail' = allocs_fail + 1
  /\ UNCHANGED <<allocs_used, allocs_reqd, poisoned_idx, memory_usage_limit, heap, maps, poison, served, pallocs>>

track_deallocation(t) ==
  /\ remapping[t] = "undo" /\ remapping' = [remapping EXCEPT ![t] = "no"]
  /\ allocs_used' = allocs_used - 1
  /\ UNCHANGED <<allocs_reqd, allocs_fail, poisoned_idx, memory_usage_limit, heap, maps, poison, served, pallocs>>

\* Tests set it to n >= 0, and back to -1.
failloc_on_n(n) ==
  /\ poisoned_idx' = n /\ poison' = n /\ served' = 0 /\ pallocs' = 0
  /\ UNCHANGED <<allocs_used, allocs_reqd, allocs_fail, memory_usage_limit, heap, maps, remapping>>

\* Once; what the system has is the limit when less than what was asked for.
limit_memory == /\ memory_usage_limit = 0 /\ memory_usage_limit' \in Limits
                /\ UNCHANGED <<counts, heap, maps, remapping>>

MemNext == \/ \E t \in Threads :
                \/ Malloc(t) \/ Palloc(t) \/ Mmalloc(t) \/ track_allocation(t)
                \/ mremap_and_truncate(t) \/ track_failloc(t) \/ track_deallocation(t)
                \/ \E o \in heap : Realloc(t, o)
           \/ \E o \in heap : Deepfree(o)
           \/ \E o \in maps : Mfree(o)
           \/ \E n \in -1 .. 2 : failloc_on_n(n)
           \/ limit_memory

MemSpec == MemInit /\ [][MemNext]_memvars

-------------------------------------------------------------------------------
(* Properties. *)

Uncounted == {t \in Threads : remapping[t] # "no"}

\* What outstanding_allocs() says, by which the tests find leaks, is what was served
\* and not released, but for maps that are being made or given up; failures never
\* leave a trace in it.
AccountsBalance == allocs_used = Cardinality(heap \cup maps) + Cardinality(Uncounted)

\* After failloc_on_n(n) no more than n requests have their memory, and with n used up
\* none, but for those of Palloc(): the comment at memlimit.c:426 says that all fail, and
\* Palloc() (307-318) never asks check_alloc_req().
PoisonWorks == poison >= 0 => served + poisoned_idx <= poison + pallocs

\* Both: the tests find leaks by allocs_used, and what happens when memory is short by
\* the poison, as long as nobody calls Palloc().
AccountsAreRight == AccountsBalance /\ PoisonWorks
===============================================================================
