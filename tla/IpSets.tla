-------------------------------- MODULE IpSets --------------------------------
(***************************************************************************)
(* Sets of IPv4 addresses, libdank/objects/ipset.c: an array of ranges and  *)
(* the capacity it was allocated for.  Addresses are the numbers below      *)
(* Half * Half: one modulo stands for uint32_t, the two digits of an        *)
(* address for its bytes.  A text is a record of what the parser branches   *)
(* on, never characters.                                                    *)
(***************************************************************************)
EXTENDS Ranges

CONSTANTS Ids,      \* the ipset objects of the program
          Half,     \* an address has two digits of this base
          Bits,     \* the bits of an address
          IpTexts   \* the texts given to parse_ipset()

\* The powers of two are there for the provers, which do not know them.
ASSUME IpAssumption ==
  /\ Half \in Nat \ {0} /\ Bits \in Nat /\ 2 ^ Bits = Half * Half
  /\ \A b \in 0 .. Bits : 2 ^ b \in Nat \ {0} /\ (Half * Half) % (2 ^ b) = 0

VARIABLES ips,       \* Ids -> [ranges, maxranges]
          rooms,     \* Ids -> the ranges the array of the object has memory for
          overrun    \* a call wrote behind its array: nothing is promised any more
ipvars == <<ips, rooms, overrun>>

Max32 == Half * Half - 1
Addrs == 0 .. Max32
Wrap(x) == x % (Max32 + 1)
NoIps == [ranges |-> <<>>, maxranges |-> 0]
IPRANGE_ALL == [lower |-> 0, upper |-> Max32]

\* ntohl() on the little endian hosts the library is built for.
ntohl(x) == (x % Half) * Half + x \div Half

-------------------------------------------------------------------------------
(* The array: one more range needs memory when the capacity is used up.     *)
extend_ipset(s) == IF Len(s.ranges) = s.maxranges THEN s.maxranges + 1 ELSE s.maxranges

append_ipset(s, r) == [ranges |-> Append(s.ranges, r), maxranges |-> extend_ipset(s)]

insert_ipset(s, pre, r) ==
  [ranges |-> InsertAt(s.ranges, pre, r), maxranges |-> extend_ipset(s)]

\* The capacity is given up with the last range.
remove_ipset(s, left) ==
  [ranges |-> left, maxranges |-> IF left = <<>> THEN 0 ELSE s.maxranges]

Meeting(r, m) ==
  Least({k \in DOMAIN r : m.lower <= Wrap(r[k].upper + 1) \/ r[k].upper = Max32}
        \cup {Len(r) + 1})

add_iprange(s, m) ==
  LET z == Meeting(s.ranges, m)
  IN IF z = Len(s.ranges) + 1 THEN append_ipset(s, m)
     ELSE IF Wrap(m.upper + 1) < s.ranges[z].lower /\ m.upper # Max32 THEN insert_ipset(s, z, m)
     ELSE remove_ipset(s, Grow(s.ranges, z, m))

del_iprange(s, cut) ==
  LET left == Cut(s.ranges, cut)
  IN IF Len(left) > Len(s.ranges)
     THEN [ranges |-> left, maxranges |-> extend_ipset(s)]
     ELSE remove_ipset(s, left)

\* clone_ipset() refuses a set whose count exceeds its capacity.
Clonable(s) == Len(s.ranges) <= s.maxranges

clone_ipset(s) == IF s.ranges = <<>> THEN NoIps ELSE s

\* The loops over the ranges of a list, a call for each.
add_ipranges(s, r) == FoldLeft(add_iprange, s, r)
del_ipranges(s, r) == FoldLeft(del_iprange, s, r)

\* The memory of an array is what was asked for last.  A clone gets memory for
\* its ranges but its original's capacity, and an exchange moves the memory and
\* not the capacity, so that extend_ipset() may find room that is not there.
AfterCall(h, t) ==
  LET old == Len(h.set.ranges)
      new == Len(t.ranges)
  IN [set  |-> t,
      room |-> IF new = 0 THEN 0
               ELSE IF new > old /\ old = h.set.maxranges THEN new ELSE h.room,
      over |-> h.over \/ (new > old /\ old # h.set.maxranges /\ h.room < new)]

ArrayAdded(h, r) == FoldLeft(LAMBDA g, m : AfterCall(g, add_iprange(g.set, m)), h, r)
ArrayRemoved(h, r) == FoldLeft(LAMBDA g, m : AfterCall(g, del_iprange(g.set, m)), h, r)
ArrayCloned(s) == [set |-> clone_ipset(s), room |-> Len(s.ranges), over |-> FALSE]

merge_ipsets(cur, add) == add_ipranges(clone_ipset(cur), add.ranges)

purge_ipsets(cur, del) == del_ipranges(clone_ipset(cur), del.ranges)

-------------------------------------------------------------------------------
(* Questions about sets. *)
ip_in_range(r, ip) == ip >= r.lower /\ ip <= r.upper

iprange_clashes(s, r) ==
  \E k \in DOMAIN s.ranges :
    LET cur == s.ranges[k]
    IN \/ r.upper <= cur.upper /\ r.upper >= cur.lower
       \/ r.lower <= cur.upper /\ r.lower >= cur.lower
       \/ r.lower <= cur.lower /\ r.upper >= cur.upper

ipsets_clash(s, t) == \E k \in DOMAIN t.ranges : iprange_clashes(s, t.ranges[k])

ipsets_equal(s, t) == s.ranges = t.ranges

\* The first range that holds the lower end decides.
ipset_encloses(s, sub) ==
  \A k \in DOMAIN sub.ranges :
    LET q == sub.ranges[k]
        first == Least({z \in DOMAIN s.ranges : ip_in_range(s.ranges[z], q.lower)}
                       \cup {Len(s.ranges) + 1})
    IN first <= Len(s.ranges) /\ ip_in_range(s.ranges[first], q.upper)

ipset_is_singleton(s) == Len(s.ranges) = 1 /\ s.ranges[1].lower = s.ranges[1].upper

ipset_area(s) == FoldLeft(LAMBDA sum, r : sum + r.upper - r.lower + 1, 0, s.ranges)

iprange_from_route(dst, bits) ==
  LET block == 2 ^ (Bits - bits)
      low == dst - (dst % block)
  IN [lower |-> low, upper |-> low + block - 1]

-------------------------------------------------------------------------------
(* Texts: [invert, bracket, closed, any, items], an item being              *)
(* [form, a, b].  "upto" has no lower end, and its upper end stays in       *)
(* network order; "from" has no upper end; "bad" does not parse.            *)
ASSUME IpTextsAssumption ==
  \A t \in IpTexts :
    /\ t \in [invert : BOOLEAN, bracket : BOOLEAN, closed : BOOLEAN, any : BOOLEAN,
              items : Seq([form : {"upto", "from", "block", "span", "one", "bad"},
                           a : Addrs, b : Addrs])]
    /\ \A k \in DOMAIN t.items : t.items[k].form = "block" => t.items[k].b <= Bits
    /\ t.any => t.items = <<>>

parse_ipv4range(t) ==
  CASE t.form = "upto"  -> [lower |-> 0, upper |-> ntohl(t.a)]
    [] t.form = "from"  -> [lower |-> t.a, upper |-> Max32]
    [] t.form = "block" -> iprange_from_route(t.a, t.b)
    [] t.form = "span"  -> Ordered(t.a, t.b)
    [] t.form = "one"   -> [lower |-> t.a, upper |-> t.a]

Malformed(t) == \E k \in DOMAIN t.items : t.items[k].form = "bad"

\* The items before the first malformed one.
WellFormed(t) ==
  SubSeq(t.items, 1, Least({k \in DOMAIN t.items : t.items[k].form = "bad"}
                           \cup {Len(t.items) + 1}) - 1)

parse_ipranges(s, t) ==
  add_ipranges(s, [k \in DOMAIN WellFormed(t) |-> parse_ipv4range(WellFormed(t)[k])])

postparse_ipset(s, invert) ==
  IF invert THEN purge_ipsets(add_iprange(NoIps, IPRANGE_ALL), s) ELSE s

\* The set a text leaves and whether the call succeeds.  A list that turns out
\* malformed leaves the ranges read before; a missing bracket frees them.
parse_initialized_ipset(s, t) ==
  LET start == [s EXCEPT !.ranges = <<>>]
      read == IF t.any THEN add_iprange(start, IPRANGE_ALL) ELSE parse_ipranges(start, t)
      last == postparse_ipset(read, t.invert)
  IN IF ~t.any /\ Malformed(t) THEN [set |-> read, ok |-> FALSE]
     ELSE IF t.bracket /\ ~t.closed THEN [set |-> NoIps, ok |-> FALSE]
     ELSE [set |-> last, ok |-> last.ranges # <<>>]

\* The array that leaves, and whether reading wrote behind one on the way.
ArrayRead(s, room, t) ==
  LET start == [set |-> [s EXCEPT !.ranges = <<>>], room |-> room, over |-> FALSE]
      listed == [k \in DOMAIN WellFormed(t) |-> parse_ipv4range(WellFormed(t)[k])]
      read == ArrayAdded(start, IF t.any THEN <<IPRANGE_ALL>> ELSE listed)
      last == IF t.invert THEN ArrayRemoved(ArrayCloned(add_iprange(NoIps, IPRANGE_ALL)), read.set.ranges)
              ELSE read
  IN IF ~t.any /\ Malformed(t) THEN read
     ELSE IF t.bracket /\ ~t.closed THEN [read EXCEPT !.room = 0]
     ELSE [last EXCEPT !.over = @ \/ read.over]

\* The text stringize_ipset() writes for a set.
stringize_iprange(r) ==
  [form |-> IF r.lower = r.upper THEN "one" ELSE "span", a |-> r.lower, b |-> r.upper]

stringize_ipset(s) ==
  [invert |-> FALSE, bracket |-> TRUE, closed |-> TRUE, any |-> FALSE,
   items |-> [k \in DOMAIN s.ranges |-> stringize_iprange(s.ranges[k])]]

-------------------------------------------------------------------------------
(* The program's calls. *)
IpInit == ips = [i \in Ids |-> NoIps] /\ rooms = [i \in Ids |-> 0] /\ overrun = FALSE

IpBecomes(i, s) == ips' = [ips EXCEPT ![i] = s]

\* What lies behind the array may or may not matter to the build.
ArrayBecomes(i, h) ==
  rooms' = [rooms EXCEPT ![i] = h.room] /\ overrun' \in {FALSE, h.over}

MergeIps(i, j) ==
  /\ Clonable(ips[i])
  /\ IpBecomes(i, merge_ipsets(ips[i], ips[j]))
  /\ ArrayBecomes(i, ArrayAdded(ArrayCloned(ips[i]), ips[j].ranges))

PurgeIps(i, j) ==
  /\ Clonable(ips[i])
  /\ IpBecomes(i, purge_ipsets(ips[i], ips[j]))
  /\ ArrayBecomes(i, ArrayRemoved(ArrayCloned(ips[i]), ips[j].ranges))

\* swap_ipsets() exchanges the arrays and their counts, not their capacities.
SwapIps(i, j) ==
  /\ ips' = [ips EXCEPT ![i].ranges = ips[j].ranges, ![j].ranges = ips[i].ranges]
  /\ rooms' = [rooms EXCEPT ![i] = rooms[j], ![j] = rooms[i]]
  /\ UNCHANGED overrun

\* Also what reading leaves when memory runs out; merging and purging then
\* leave the set as it was.
FreeIps(i) ==
  IpBecomes(i, NoIps) /\ rooms' = [rooms EXCEPT ![i] = 0] /\ UNCHANGED overrun

ParseInitialized(i) ==
  \E t \in IpTexts :
    /\ IpBecomes(i, parse_initialized_ipset(ips[i], t).set)
    /\ ArrayBecomes(i, ArrayRead(ips[i], rooms[i], t))

\* parse_ipset() clears the object first.
ParseIps(i) ==
  \E t \in IpTexts : /\ IpBecomes(i, parse_initialized_ipset(NoIps, t).set)
                    /\ ArrayBecomes(i, ArrayRead(NoIps, 0, t))

\* The program is followed up to the write that mattered.
IpNext == /\ ~overrun
          /\ \E i \in Ids :
               \/ \E j \in Ids : MergeIps(i, j) \/ PurgeIps(i, j) \/ SwapIps(i, j)
               \/ FreeIps(i) \/ ParseInitialized(i) \/ ParseIps(i)

IpSpec == IpInit /\ [][IpNext]_ipvars

-------------------------------------------------------------------------------
(* Properties. *)

\* Every question about sets is answered as their elements would answer it,
\* which needs the ranges in order and apart, however they were merged, eaten,
\* split or dropped before: membership, equality, order, overlap, inclusion,
\* size, and whether the set is a single address.  A set that is not empty is
\* read back from the text it is written as.  All of it ends where a call
\* writes behind its array, as it may after swap_ipsets() (ipset.c:549-559) and
\* in a clone of a set that has shrunk (575-576).
IpQueries ==
  ~overrun =>
  \A i, j \in Ids :
    LET s == ips[i]
        t == ips[j]
        S == Elements(s.ranges)
        T == Elements(t.ranges)
    IN /\ Canonical(s.ranges)
       /\ \A a \in Addrs : Has(s.ranges, a) <=> a \in S
       /\ ipsets_equal(s, t) <=> S = T
       /\ Compare(s.ranges, t.ranges) = 0 <=> S = T
       /\ ipsets_clash(s, t) <=> S \cap T # {}
       /\ ipset_encloses(s, t) <=> T \subseteq S
       /\ ipset_area(s) = Cardinality(S)
       /\ ipset_is_singleton(s) <=> Cardinality(S) = 1
       /\ LET back == parse_initialized_ipset(NoIps, stringize_ipset(s))
          IN IF S = {} THEN ~back.ok ELSE back.ok /\ back.set.ranges = s.ranges

\* What an item of a text says, by definition: up to an address, from one, the
\* addresses that share the first b bits of one, those between two, or one.
Says(item) ==
  LET block(x) == x \div 2 ^ (Bits - item.b)
  IN CASE item.form = "upto"  -> {x \in Addrs : x <= item.a}
       [] item.form = "from"  -> {x \in Addrs : x >= item.a}
       [] item.form = "block" -> {x \in Addrs : block(x) = block(item.a)}
       [] item.form = "span"  -> {x \in Addrs : \/ item.a <= x /\ x <= item.b
                                                \/ item.b <= x /\ x <= item.a}
       [] item.form = "one"   -> {item.a}

\* The exception the code makes: "-a.b.c.d" is taken for 0.0.0.0-d.c.b.a, the
\* address after it never being brought to host order (ipset.c:83-90).
Taken(item) == IF item.form = "upto" THEN [item EXCEPT !.a = ntohl(item.a)] ELSE item

\* What a text denotes: the union of what its items say, or all the others.
Denotes(t) ==
  LET plain == IF t.any THEN Addrs
               ELSE UNION {Says(Taken(item)) : item \in ToSet(WellFormed(t))}
  IN IF t.invert /\ ~Malformed(t) THEN Addrs \ plain ELSE plain

\* The array of ranges implements the set of numbers: uniting, subtracting,
\* exchanging and reading do to the numbers what they say, and every question
\* asked in between is answered for them.
IpAbs == INSTANCE NumberSets WITH
           Numbers <- Addrs, nums <- [i \in Ids |-> Elements(ips[i].ranges)],
           Readings <- {Denotes(t) : t \in IpTexts}

IpsAreSets == []IpQueries /\ IpAbs!Spec
===============================================================================
