-------------------------------- MODULE LruPat --------------------------------
(***************************************************************************)
(* The patricia trie of strings, libdank/objects/lrupat.c.  A trie is a     *)
(* function from the paths of its nodes, the characters from the root, to   *)
(* [pat, obj]: pat is the set of the node's key suffixes, {} for an inner    *)
(* node without a key and one sequence for a tail.  A trie is used either   *)
(* with or without respect to case throughout.                              *)
(***************************************************************************)
EXTENDS Integers, Sequences, FiniteSets, SequencesExt

CONSTANTS Strings,     \* the keys the program adds and looks up
          tolower,     \* a function on characters
          NoCase,      \* the program uses the _nocase calls
          NUL, Stop,   \* the end of a string, and the terminator given to the _term calls
          LpObjs       \* the objects it adds

ASSUME LpAssumption ==
  /\ NoCase \in BOOLEAN
  /\ \A c \in DOMAIN tolower : tolower[c] \in DOMAIN tolower /\ tolower[tolower[c]] = tolower[c]
  /\ Strings \subseteq Seq(DOMAIN tolower)
  /\ NUL \notin DOMAIN tolower
  /\ "NULL" \notin LpObjs

VARIABLES nodes,       \* path -> [pat, obj]
          watched      \* how often the last call's nwatchcb got each object
lpvars == <<nodes, watched>>

NoNodes == [p \in {} |-> p]
Hollow == [pat |-> {}, obj |-> "NULL"]
Lower(s) == [k \in DOMAIN s |-> tolower[s[k]]]
Case(s) == IF NoCase THEN Lower(s) ELSE s
Handed(S) == [o \in LpObjs |-> IF o \in S THEN 1 ELSE 0]
Key(n, p) == p \o (CHOOSE s \in n[p].pat : TRUE)
Tails(n) == {p \in DOMAIN n : n[p].pat # {}}
Held == {nodes[p].obj : p \in Tails(nodes)}

With(n, p, node) == [q \in DOMAIN n \cup {p} |-> IF q = p THEN node ELSE n[q]]

\* The longest prefix of a key that is a node.
Deepest(n, key) ==
  CHOOSE p \in DOMAIN n : IsPrefix(p, key) /\ \A q \in DOMAIN n : IsPrefix(q, key) => Len(q) <= Len(p)

\* A tail becomes a chain of nodes, one for each character, the last with the
\* empty suffix and the object.
decay_lrupat_tail(n, p) ==
  LET suffix == CHOOSE s \in n[p].pat : TRUE
      chain == {p \o SubSeq(suffix, 1, k) : k \in 0 .. Len(suffix)}
  IN [q \in DOMAIN n \cup chain |->
        IF q = p \o suffix THEN [pat |-> {<<>>}, obj |-> n[p].obj]
        ELSE IF q \in chain THEN Hollow ELSE n[q]]

\* The trie after the way down to a key: a tail met on it has decayed.
Opened(n, key) ==
  IF n = NoNodes THEN n
  ELSE LET p == Deepest(n, key)
       IN IF n[p].pat \subseteq {<<>>} THEN n ELSE decay_lrupat_tail(n, p)

lpatchain_new(key, from, obj) == [pat |-> {SubSeq(key, from, Len(key))}, obj |-> obj]

\* A key that ends at a node replaces that node's, any other gets a tail of its
\* own where the way down ends.
Added(n, key, obj) ==
  LET d == Len(Deepest(n, key))
  IN IF n = NoNodes THEN With(n, <<>>, lpatchain_new(key, 1, obj))
     ELSE IF d = Len(key) THEN With(n, key, [pat |-> {<<>>}, obj |-> obj])
     ELSE With(n, SubSeq(key, 1, d + 1), lpatchain_new(key, d + 2, obj))

\* The walk of the lookups: at each node the suffix may match up to the
\* terminator, otherwise the next character leads on.  The terminator is compared
\* with the text as it is.
Ends(text, k, term) == IF k < Len(text) THEN text[k + 1] = term ELSE term = NUL

Answer(n, text, term) ==
  LET way == {p \in Tails(n) : /\ IsPrefix(Key(n, p), Case(text))
                               /\ Ends(text, Len(Key(n, p)), term)
                               /\ \A k \in DOMAIN p : text[k] # term}
  IN IF way = {} THEN {}
     ELSE {n[CHOOSE p \in way : \A q \in way : Len(p) <= Len(q)].obj}

lookup_lrupat(n, key) == Answer(n, key, NUL)
lookup_lrupat_term(n, key) == Answer(n, key, Stop)

\* The first node with a suffix on the way decides.
lookup_lrupat_blob(n, key) ==
  LET way == {p \in Tails(n) : IsPrefix(p, key)}
      first == CHOOSE p \in way : \A q \in way : Len(p) <= Len(q)
  IN IF way # {} /\ Key(n, first) = key THEN {n[first].obj} ELSE {}

-------------------------------------------------------------------------------
LpInit == nodes = NoNodes /\ watched = Handed({})

AddForgetsOld(s, o) ==
  /\ nodes' = Added(Opened(nodes, Case(s)), Case(s), o)
  /\ watched' = Handed({})

\* The object of a key that was there already goes to the callback.
add_lrupat_helper(s, o) ==
  LET key == Case(s)
      open == Opened(nodes, key)
  IN /\ nodes' = Added(open, key, o)
     /\ watched' = Handed({open[p].obj : p \in {q \in Tails(open) : q = key /\ open[q].pat = {<<>>}}})

\* Without memory the new key is not there; a tail may have decayed for it.
AddFails(s) ==
  /\ nodes' \in {nodes, Opened(nodes, Case(s))}
  /\ watched' = Handed({})

destroy_lrupat ==
  /\ watched' = [o \in LpObjs |-> Cardinality({p \in DOMAIN nodes : nodes[p].obj = o})]
  /\ nodes' = NoNodes

LpNext == \/ \E s \in Strings : AddFails(s) \/ \E o \in LpObjs \ Held : add_lrupat_helper(s, o)
          \/ destroy_lrupat

LpSpec == LpInit /\ [][LpNext]_lpvars

-------------------------------------------------------------------------------
(* Properties. *)

\* Every string finds the object of the key it equals, and a blob never finds another
\* key's object.  Up to a terminator a string finds the key it has before the first
\* one, or else a key that has terminators itself and is followed by one.
Find(key) == {nodes[p].obj : p \in {q \in Tails(nodes) : Key(nodes, q) = Case(key)}}

StopsIn(s) == {k \in 0 .. Len(s) - 1 : s[k + 1] = Stop}
UpTo(s, k) == SubSeq(s, 1, k)

TrieSearches ==
  \A s \in Strings :
    /\ lookup_lrupat(nodes, s) = Find(s)
    /\ lookup_lrupat_blob(nodes, s) \subseteq Find(s)
    /\ \A cut \in StopsIn(s) :
         (\A k \in StopsIn(s) : cut <= k) =>
           \/ lookup_lrupat_term(nodes, s) = Find(UpTo(s, cut))
           \/ /\ Find(UpTo(s, cut)) = {}
              /\ \E k \in StopsIn(s) : lookup_lrupat_term(nodes, s) = Find(UpTo(s, k))

\* The trie implements a map from strings to objects, whose callback gets every
\* object once: when its key is added again or the trie destroyed.
NoClash(s, t) == FALSE
TrieKeys == {Key(nodes, p) : p \in Tails(nodes)}
TrieDict == [s \in TrieKeys |-> nodes[CHOOSE p \in Tails(nodes) : Key(nodes, p) = s].obj]
TrieAbs == INSTANCE Dictionary WITH
             Keys <- {Case(s) : s \in Strings}, Objs <- LpObjs, Clash <- NoClash,
             dict <- TrieDict, back <- watched

\* Both: lookups answer from the map, and every call changes it as the map's does.
TrieIsMap == []TrieSearches /\ TrieAbs!Spec
===============================================================================
