-------------------------------- MODULE Pool --------------------------------
(***************************************************************************)
(* What libdank/objects/slalloc.c promises its user, lrupat.c: objects for *)
(* one user at a time, all zero when they are handed out, that keep what   *)
(* is written to them until they are returned or the cache is destroyed.   *)
(***************************************************************************)

CONSTANT Places   \* where objects can be

VARIABLES used,   \* the objects handed out
          dirty   \* the objects that are not all zero

Init == used = {} /\ dirty = {}

Take == \E a \in Places \ (used \cup dirty) : used' = used \cup {a} /\ dirty' = dirty

Return == \E a \in used : used' = used \ {a} /\ dirty' = dirty \ {a}

Write == \E a \in used : used' = used /\ dirty' = dirty \cup {a}

Clear == used' = {} /\ dirty' = {}

Next == Take \/ Return \/ Write \/ Clear

Spec == Init /\ [][Next]_<<used, dirty>>
=============================================================================
