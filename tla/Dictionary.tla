------------------------------ MODULE Dictionary ------------------------------
(***************************************************************************)
(* What libdank/objects/intervaltree.c and libdank/objects/lrupat.c         *)
(* promise: a map from keys to the caller's objects, which hands every      *)
(* object it drops back to the caller's callback, once, and whose failing   *)
(* calls change nothing.                                                    *)
(***************************************************************************)
EXTENDS Integers

CONSTANTS Keys, Objs,
          Clash(_, _)   \* two keys that cannot be in a map together

VARIABLES dict,         \* a function from the keys present to objects
          back          \* how often the last call handed each object back

Back(S) == [o \in Objs |-> IF o \in S THEN 1 ELSE 0]
Present == DOMAIN dict

Init == dict = [k \in {} |-> k] /\ back = Back({})

Put(k, o) == /\ \A q \in Present \ {k} : ~Clash(k, q)
             /\ dict' = [q \in Present \cup {k} |-> IF q = k THEN o ELSE dict[q]]
             /\ back' = Back(IF k \in Present THEN {dict[k]} ELSE {})

Drop(k)   == /\ k \in Present
             /\ dict' = [q \in Present \ {k} |-> dict[q]]
             /\ back' = Back({dict[k]})

Refuse    == UNCHANGED dict /\ back' = Back({})

Clear     == /\ dict' = [k \in {} |-> k]
             /\ back' = Back({dict[k] : k \in Present})

Next == \/ \E k \in Keys : Drop(k) \/ \E o \in Objs : Put(k, o)
        \/ Refuse
        \/ Clear

Spec == Init /\ [][Next]_<<dict, back>>
===============================================================================
