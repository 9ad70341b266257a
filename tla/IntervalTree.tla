----------------------------- MODULE IntervalTree -----------------------------
(***************************************************************************)
(* The search tree of disjoint intervals, libdank/objects/intervaltree.c.   *)
(* A tree is a function from the paths of its nodes, sequences of "l" and   *)
(* "r" from the root, to [ival, data]: a pointer is a path.                 *)
(***************************************************************************)
EXTENDS Integers, Sequences, FiniteSets, SequencesExt

CONSTANTS MaxKey,    \* the keys are 0 .. MaxKey
          Intervals, \* the intervals the program puts in, [lbound, ubound]
          Data       \* the objects it puts in

VARIABLES tree,      \* path -> [ival, data]
          freed      \* how often the last call's freefxn got each object
treevars == <<tree, freed>>

NoTree == [p \in {} |-> p]
Once(S) == [d \in Data |-> IF d \in S THEN 1 ELSE 0]
InTree == {tree[p].data : p \in DOMAIN tree}

intervals_equal(i, j) == i.lbound = j.lbound /\ i.ubound = j.ubound

Overlap(i, j) == ~(i.ubound < j.lbound \/ j.ubound < i.lbound)

\* The way an interval leads from a node: "l", "r", or the end of the search.
Way(ival, node) ==
  IF ival.ubound < node.ival.lbound THEN "l"
  ELSE IF node.ival.ubound < ival.lbound THEN "r" ELSE "here"

\* Where the search for an interval ends: a node it overlaps, or a free place.
Places(t) == DOMAIN t \cup {<<>>} \cup {Append(p, w) : p \in DOMAIN t, w \in {"l", "r"}}

Seek(t, ival) ==
  CHOOSE p \in Places(t) :
    /\ \A k \in 0 .. Len(p) - 1 : Way(ival, t[SubSeq(p, 1, k)]) = p[k + 1]
    /\ p \in DOMAIN t => Way(ival, t[p]) = "here"

lookup_interval_tree(t, key) == LET p == Seek(t, [lbound |-> key, ubound |-> key])
                                IN IF p \in DOMAIN t THEN {t[p].data} ELSE {}

Under(t, p) == {q \in DOMAIN t : IsPrefix(p, q)}

\* The subtree at p, as a tree of its own, and a tree hung up at p.
Subtree(t, p) == [s \in {SubSeq(q, Len(p) + 1, Len(q)) : q \in Under(t, p)} |-> t[p \o s]]

Hang(t, p, sub) ==
  [q \in DOMAIN t \cup {p \o s : s \in DOMAIN sub} |->
     IF q \in DOMAIN t THEN t[q] ELSE sub[SubSeq(q, Len(p) + 1, Len(q))]]

ForgetsLeft(t, p) ==
  LET others == [q \in DOMAIN t \ Under(t, p) |-> t[q]]
      r == Subtree(t, p \o <<"r">>)
  IN Hang(others, p, IF DOMAIN r = {} THEN Subtree(t, p \o <<"l">>) ELSE r)

\* The right subtree takes the node's place, the left one goes under the
\* leftmost node of the right one.
splice_out_node(t, p) ==
  LET others == [q \in DOMAIN t \ Under(t, p) |-> t[q]]
      l == Subtree(t, p \o <<"l">>)
      r == Subtree(t, p \o <<"r">>)
      spine == {q \in DOMAIN r : \A k \in DOMAIN q : q[k] = "l"}
      low == CHOOSE q \in spine : \A s \in spine : Len(s) <= Len(q)
  IN IF DOMAIN r = {} THEN Hang(others, p, l)
     ELSE Hang(Hang(others, p, r), p \o low \o <<"l">>, l)

depth_interval_tree(t) ==
  IF DOMAIN t = {} THEN 0
  ELSE 1 + CHOOSE d \in {Len(p) : p \in DOMAIN t} : \A p \in DOMAIN t : Len(p) <= d

population_interval_tree(t) == Cardinality(DOMAIN t)

\* The nodes from the left to the right.
linearize_interval_tree(t) ==
  LET left(p, q) == LET k == Len(LongestCommonPrefix({p, q})) + 1
                    IN (k <= Len(p) /\ p[k] = "l") \/ (k <= Len(q) /\ q[k] = "r")
      order == SetToSortSeq(DOMAIN t, left)
  IN [k \in DOMAIN order |-> t[order[k]]]

\* The list as the right chain linearize leaves, which stays when there is no
\* memory for the vector.
Chain(nodes) == [p \in {[j \in 1 .. k - 1 |-> "r"] : k \in DOMAIN nodes} |-> nodes[Len(p) + 1]]

RECURSIVE bbstize_vector(_)
bbstize_vector(nodes) ==
  IF nodes = <<>> THEN NoTree
  ELSE LET half == Len(nodes) \div 2
           root == [p \in {<<>>} |-> nodes[half + 1]]
       IN Hang(Hang(root, <<"l">>, bbstize_vector(SubSeq(nodes, 1, half))),
               <<"r">>, bbstize_vector(SubSeq(nodes, half + 2, Len(nodes))))

-------------------------------------------------------------------------------
TreeInit == tree = NoTree /\ freed = Once({})

Put(p, ival, d) == tree' = [q \in DOMAIN tree \cup {p} |->
                              IF q = p THEN [ival |-> ival, data |-> d] ELSE tree[q]]

\* An overlapping interval, or no memory for a node: nothing happens.
Refused == UNCHANGED tree /\ freed' = Once({})

insert_interval_tree(ival, d) ==
  LET p == Seek(tree, ival)
  IN p \notin DOMAIN tree /\ Put(p, ival, d) /\ freed' = Once({})

\* An equal interval's object is freed and replaced.
replace_interval_tree(ival, d) ==
  LET p == Seek(tree, ival)
  IN IF p \in DOMAIN tree
     THEN /\ intervals_equal(tree[p].ival, ival)
          /\ Put(p, ival, d)
          /\ freed' = Once({tree[p].data})
     ELSE Put(p, ival, d) /\ freed' = Once({})

\* remove_interval_tree() frees the object, extract_interval_tree() returns it:
\* either way the caller has it back.
remove_interval_tree(ival) ==
  LET p == Seek(tree, ival)
  IN /\ p \in DOMAIN tree
     /\ intervals_equal(tree[p].ival, ival)
     /\ tree' = splice_out_node(tree, p)
     /\ freed' = Once({tree[p].data})

balance_interval_tree ==
  /\ \/ tree' = bbstize_vector(linearize_interval_tree(tree))
     \/ tree' = Chain(linearize_interval_tree(tree))
  /\ freed' = Once({})

free_interval_tree ==
  /\ freed' = [d \in Data |-> Cardinality({p \in DOMAIN tree : tree[p].data = d})]
  /\ tree' = NoTree

TreeNext == \/ \E i \in Intervals : remove_interval_tree(i)
            \/ Refused
            \/ \E i \in Intervals, d \in Data \ InTree :
                 insert_interval_tree(i, d) \/ replace_interval_tree(i, d)
            \/ balance_interval_tree
            \/ free_interval_tree

-------------------------------------------------------------------------------
(* Properties. *)

\* Every key finds the object of the interval it lies in and no other, and
\* balancing leaves a tree of least depth, whatever insertions, splices and
\* half-done balancing came before.
TreeSearches ==
  /\ \A key \in 0 .. MaxKey :
       lookup_interval_tree(tree, key) =
         {tree[p].data : p \in {q \in DOMAIN tree : key \in tree[q].ival.lbound .. tree[q].ival.ubound}}
  /\ LET n == population_interval_tree(tree)
         b == bbstize_vector(linearize_interval_tree(tree))
     IN /\ {b[p] : p \in DOMAIN b} = {tree[p] : p \in DOMAIN tree}
        /\ n > 0 => 2 ^ (depth_interval_tree(b) - 1) <= n

\* The tree implements a map from intervals to objects that takes no two
\* intervals that overlap and loses, repeats and frees twice no object.
TreeKeys == {tree[p].ival : p \in DOMAIN tree}
TreeAbs == INSTANCE Dictionary WITH
             Keys <- Intervals, Objs <- Data, Clash <- Overlap, back <- freed,
             dict <- [i \in TreeKeys |-> tree[CHOOSE p \in DOMAIN tree : tree[p].ival = i].data]

\* Both: the map is there after every step, and every call changes it as the map's does.
TreeIsMap == []TreeSearches /\ TreeAbs!Spec
===============================================================================
