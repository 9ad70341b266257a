------------------------------ MODULE NumberSets ------------------------------
(***************************************************************************)
(* What libdank/objects/ipset.c and libdank/objects/portset.c promise: a    *)
(* set object is a set of numbers, a call that fails for want of memory     *)
(* changes nothing, and a text denotes a set, a malformed one what was read *)
(* before the mistake or nothing.                                           *)
(***************************************************************************)
CONSTANTS Ids,       \* the set objects of the program
          Numbers,   \* the addresses or ports there are
          Readings   \* the sets the texts of the program denote

VARIABLE nums        \* the numbers each object holds

TypeOK == nums \in [Ids -> SUBSET Numbers]

Init == nums = [i \in Ids |-> {}]

Become(i, S) == nums' = [nums EXCEPT ![i] = S]

Unite(i, j)    == Become(i, nums[i] \cup nums[j])
Subtract(i, j) == Become(i, nums[i] \ nums[j])
Copy(i, j)     == Become(i, nums[j])
Clear(i)       == Become(i, {})
Swap(i, j)     == nums' = [nums EXCEPT ![i] = nums[j], ![j] = nums[i]]
Read(i)        == \E S \in Readings : Become(i, S)

Next == \E i, j \in Ids :
          \/ Unite(i, j) \/ Subtract(i, j) \/ Copy(i, j) \/ Swap(i, j)
          \/ Clear(i) \/ Read(i)

Spec == Init /\ [][Next]_nums
===============================================================================
