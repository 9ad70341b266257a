-------------------------------- MODULE Ranges --------------------------------
(***************************************************************************)
(* Sorted arrays of ranges, as libdank/objects/ipset.c and                  *)
(* libdank/objects/portset.c both keep them: the walks the two files share  *)
(* line for line.  A range is [lower, upper], an array a sequence of them.  *)
(***************************************************************************)
EXTENDS Integers, Sequences, FiniteSets, SequencesExt

Least(S) == CHOOSE x \in S : \A y \in S : x <= y
Most(S) == CHOOSE x \in S : \A y \in S : y <= x

\* The numbers of a range and of an array, by definition.
Span(r) == r.lower .. r.upper
Elements(r) == UNION {Span(r[k]) : k \in DOMAIN r}

Ordered(l, u) == IF l > u THEN [lower |-> u, upper |-> l] ELSE [lower |-> l, upper |-> u]

Without(r, at, count) == SubSeq(r, 1, at - 1) \o SubSeq(r, at + count, Len(r))

\* Range z grown up to top swallows the ranges it then reaches, each of which
\* may push the top further: how many, and the top in the end.
Engulfed(r, z, top) ==
  LET hi(k) == Most({top} \cup {r[j].upper : j \in z + 1 .. k})
      apart(k) == hi(k - 1) < r[k].lower - 1 /\ r[k].lower # 0
      stop == Least({k \in z + 1 .. Len(r) : apart(k)} \cup {Len(r) + 1})
  IN [count |-> stop - z - 1, upper |-> hi(stop - 1)]

\* Grows range z down to the merged one's lower end, then up over the ranges
\* its upper end reaches.
Grow(r, z, m) ==
  LET low == IF m.lower <= r[z].lower - 1 /\ r[z].lower # 0 THEN m.lower ELSE r[z].lower
      e == Engulfed(r, z, m.upper)
  IN IF m.upper <= r[z].upper
     THEN [r EXCEPT ![z].lower = low]
     ELSE Without([r EXCEPT ![z] = [lower |-> low, upper |-> e.upper]], z + 1, e.count)

RestKeepsEnd(cur, cut) ==
  IF cut.lower <= cur.lower /\ cur.upper >= cut.upper
  THEN [left |-> <<[cur EXCEPT !.lower = cut.upper]>>, last |-> TRUE]
  ELSE [left |-> <<cur>>, last |-> FALSE]

\* What a cut leaves of one range, and whether the walk ends there.
Rest(cur, cut) ==
  IF cut.lower > cur.upper \/ cut.upper < cur.lower THEN [left |-> <<cur>>, last |-> FALSE]
  ELSE IF cut.lower <= cur.lower /\ cur.upper > cut.upper
       THEN [left |-> <<[cur EXCEPT !.lower = cut.upper + 1]>>, last |-> TRUE]
  ELSE IF cut.lower <= cur.lower THEN [left |-> <<>>, last |-> FALSE]
  ELSE IF cut.upper >= cur.upper
       THEN [left |-> <<[cur EXCEPT !.upper = cut.lower - 1]>>, last |-> FALSE]
  ELSE [left |-> <<Ordered(cur.lower, cut.lower - 1), [cur EXCEPT !.lower = cut.upper + 1]>>,
        last |-> TRUE]

Cut(r, cut) ==
  LET last == Least({k \in DOMAIN r : Rest(r[k], cut).last} \cup {Len(r)})
  IN FlattenSeq([k \in 1 .. last |-> Rest(r[k], cut).left]) \o SubSeq(r, last + 1, Len(r))

\* The walk stops at the first range that begins above the number.
Has(r, x) == \E k \in DOMAIN r : (\A j \in 1 .. k : x >= r[j].lower) /\ x <= r[k].upper

\* -1, 0 or 1, as the first ranges that differ and then the lengths decide.
Compare(a, b) ==
  LET sign(x, y) == IF x < y THEN -1 ELSE IF x > y THEN 1 ELSE 0
      differ == {k \in DOMAIN a \cap DOMAIN b : a[k] # b[k]}
      z == Least(differ)
  IN IF differ = {} THEN sign(Len(a), Len(b))
     ELSE IF a[z].lower # b[z].lower THEN sign(a[z].lower, b[z].lower)
     ELSE sign(a[z].upper, b[z].upper)

\* The ranges are in order and at least a number apart from each other: the
\* form in which two arrays are equal exactly when their sets are.
Canonical(r) == /\ \A k \in DOMAIN r : r[k].lower <= r[k].upper
                /\ \A k \in 1 .. Len(r) - 1 : r[k].upper + 1 < r[k + 1].lower
===============================================================================
