------------------------------- MODULE PortSets -------------------------------
(***************************************************************************)
(* Sets of ports, libdank/objects/portset.c: an array of ranges allocated   *)
(* for exactly what it holds.  A port is a uint16_t, but the arithmetic on   *)
(* ports is done in int and does not wrap.                                  *)
(***************************************************************************)
EXTENDS Ranges

CONSTANTS PortIds,    \* the portset objects of the program
          MaxPort,    \* 65535
          PortTexts   \* the texts given to parse_portset()

ASSUME PortAssumption == MaxPort \in Nat \ {0}

VARIABLE ports        \* PortIds -> sequence of ranges
portvars == <<ports>>

PORTRANGE_ALL == [lower |-> 0, upper |-> MaxPort]

portset_complete(p) == p = <<PORTRANGE_ALL>>

\* The count is a uint16_t: a complete set has none.
portset_portcount(p) ==
  FoldLeft(LAMBDA n, r : (n + r.upper - r.lower + 1) % (MaxPort + 1), 0, p)

contains_port(p, port) == Has(p, port)

portsets_equal(p, q) == p = q

portset_cmp(p, q) == Compare(p, q)

\* The first range the merged one does not lie above.
Reaching(p, m) ==
  Least({k \in DOMAIN p : m.lower <= p[k].upper + 1 \/ p[k].upper = MaxPort}
        \cup {Len(p) + 1})

merge_portsetNeverBefore(p, m) ==
  LET z == Reaching(p, m) IN IF z = Len(p) + 1 THEN Append(p, m) ELSE Grow(p, z, m)

\* A range that ends at port 0 is never put before another: it is merged with
\* the one it meets, whatever lies between.
merge_portset(p, m) ==
  LET z == Reaching(p, m)
  IN IF z = Len(p) + 1 THEN Append(p, m)
     ELSE IF m.upper + 1 < p[z].lower /\ m.upper # 0 THEN InsertAt(p, z, m)
     ELSE Grow(p, z, m)

merge_portsets(sum, add) == FoldLeft(merge_portset, sum, add)

cut_portset(p, cut) == Cut(p, cut)

\* The loop over the ranges of a negated list.
cut_portsets(p, list) == FoldLeft(cut_portset, p, list)

-------------------------------------------------------------------------------
(* Texts: [invert, word, items], the word being "any", "none" or "ranges",  *)
(* an item [form, a, b, sep], the separator what follows the range: a list  *)
(* goes on after a comma and after white space.                             *)
ASSUME PortTextsAssumption ==
  \A t \in PortTexts :
    t \in [invert : BOOLEAN, word : {"any", "none", "ranges"},
           items : Seq([form : {"upto", "from", "span", "one", "bad"},
                        a : 0 .. MaxPort, b : 0 .. MaxPort, sep : {",", " ", "end"}])]

parse_portrange(t) ==
  CASE t.form = "upto" -> [lower |-> 0, upper |-> t.a]
    [] t.form = "from" -> [lower |-> t.a, upper |-> MaxPort]
    [] t.form = "span" -> Ordered(t.a, t.b)
    [] t.form = "one"  -> [lower |-> t.a, upper |-> t.a]

\* The items before the first that does not parse.
Numeric(items) ==
  SubSeq(items, 1, Least({k \in DOMAIN items : items[k].form = "bad"} \cup {Len(items) + 1}) - 1)

Listed(items) == [k \in DOMAIN Numeric(items) |-> parse_portrange(Numeric(items)[k])]

\* Their ranges, and whether a range is still owed at the end: it is until one
\* was followed by something but a comma.
parse_numeric_ports(items) ==
  [owed |-> \A k \in DOMAIN Numeric(items) : Numeric(items)[k].sep = ",",
   set |-> merge_portsets(<<>>, Listed(items))]

\* The set a text leaves and whether the call succeeds.  Inverting adds to what
\* the object held, a list of ranges replaces it, "none" leaves it alone.
parse_portset(p, t) ==
  LET all == merge_portset(p, PORTRANGE_ALL)
      read == parse_numeric_ports(t.items)
      set == IF t.invert THEN cut_portsets(all, read.set) ELSE read.set
  IN IF t.word # "ranges" /\ t.invert THEN [set |-> <<>>, ok |-> FALSE]
     ELSE IF t.word = "any" THEN [set |-> all, ok |-> TRUE]
     ELSE IF t.word = "none" THEN [set |-> p, ok |-> TRUE]
     ELSE IF read.owed THEN [set |-> <<>>, ok |-> FALSE]
     ELSE [set |-> set, ok |-> set # <<>>]

stringize_portrange(r, sep) ==
  [form |-> IF r.lower = r.upper THEN "one" ELSE "span", a |-> r.lower, b |-> r.upper,
   sep |-> sep]

\* The text stringize_portset() writes for a set.
stringize_portset(p) ==
  [invert |-> FALSE,
   word |-> IF p = <<>> THEN "none" ELSE IF portset_complete(p) THEN "any" ELSE "ranges",
   items |-> [k \in DOMAIN p |-> stringize_portrange(p[k], IF k = Len(p) THEN "end" ELSE ",")]]

-------------------------------------------------------------------------------
(* The program's calls. *)
PortInit == ports = [i \in PortIds |-> <<>>]

PortsBecome(i, p) == ports' = [ports EXCEPT ![i] = p]

MergePorts(i, j) == PortsBecome(i, merge_portsets(ports[i], ports[j]))

\* Range by range, as parse_portset() does.
CutPorts(i, j) == PortsBecome(i, cut_portsets(ports[i], ports[j]))

ClonePorts(i, j) == PortsBecome(i, ports[j])

SwapPorts(i, j) == ports' = [ports EXCEPT ![i] = ports[j], ![j] = ports[i]]

FreePorts(i) == PortsBecome(i, <<>>)

ParsePorts(i) == \E t \in PortTexts : PortsBecome(i, parse_portset(ports[i], t).set)

PortNext == \E i, j \in PortIds :
              \/ MergePorts(i, j) \/ CutPorts(i, j) \/ ClonePorts(i, j)
              \/ SwapPorts(i, j) \/ FreePorts(i) \/ ParsePorts(i)

PortSpec == PortInit /\ [][PortNext]_portvars

-------------------------------------------------------------------------------
(* Properties. *)

\* Membership, equality, order and size of port sets are those of their
\* elements, the size up to the wrap of its type, and every set is read back
\* from the text it is written as.
PortQueries ==
  \A i, j \in PortIds :
    LET p == ports[i]
        q == ports[j]
        S == Elements(p)
        back == parse_portset(<<>>, stringize_portset(p))
    IN /\ Canonical(p)
       /\ \A x \in 0 .. MaxPort : contains_port(p, x) <=> x \in S
       /\ portsets_equal(p, q) <=> S = Elements(q)
       /\ portset_cmp(p, q) = 0 <=> S = Elements(q)
       /\ portset_complete(p) <=> S = 0 .. MaxPort
       /\ portset_portcount(p) = Cardinality(S) % (MaxPort + 1)
       /\ back.ok /\ back.set = p

\* What a text denotes, by definition.
PortDenotes(t) ==
  LET listed == UNION {Span(parse_portrange(item)) : item \in ToSet(Numeric(t.items))}
  IN IF t.word = "any" THEN 0 .. MaxPort
     ELSE IF t.invert THEN (0 .. MaxPort) \ listed ELSE listed

\* No text tells port 0 from port 1.  merge_portset() treats a range that ends
\* at port 0 as if it touched the next one (portset.c:195), against the comment
\* above the test; with such a range about, PortsAreSets below is false.
ZeroIsNeverAlone ==
  \A t \in PortTexts :
    /\ \A item \in ToSet(Numeric(t.items)) : parse_portrange(item).upper # 0
    /\ 0 \in PortDenotes(t) <=> 1 \in PortDenotes(t)

\* What the comment of merge_portset() says, "we can't merge with this; our high
\* element is too small" (portset.c:194), amounts to: a call leaves no port in an
\* object that no object held before and no text denotes.
NoPortIsMadeUp ==
  [][\A i \in PortIds :
       Elements(ports'[i]) \subseteq UNION {Elements(ports[j]) : j \in PortIds}
                                    \cup UNION {PortDenotes(t) : t \in PortTexts}]_portvars

\* The array of port ranges implements the set of ports: ports between the
\* ranges of the operands are neither gained nor lost, and every question asked
\* in between is answered for the ports.  It holds for texts of which
\* ZeroIsNeverAlone is true; for others merge_portset() makes ports up.
PortAbs == INSTANCE NumberSets WITH
             Ids <- PortIds, Numbers <- 0 .. MaxPort,
             nums <- [i \in PortIds |-> Elements(ports[i])],
             Readings <- {PortDenotes(t) : t \in PortTexts}

PortsAreSets == []PortQueries /\ PortAbs!Spec
===============================================================================
