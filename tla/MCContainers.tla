---- MODULE MCContainers ----
(* One container at a time: each behaviour works on the objects of one file. *)
EXTENDS Netlink, PortSets, IntervalTree, LruPat

VARIABLE which

ip(f, a, b) == [form |-> f, a |-> a, b |-> b]
pt(f, a, b, s) == [form |-> f, a |-> a, b |-> b, sep |-> s]

MCIpTexts ==
  { [invert |-> FALSE, bracket |-> TRUE, closed |-> TRUE, any |-> FALSE,
     items |-> <<ip("one", 0, 0), ip("upto", 8, 0)>>],
    [invert |-> TRUE, bracket |-> FALSE, closed |-> FALSE, any |-> FALSE,
     items |-> <<ip("span", 9, 4), ip("upto", 1, 0)>>],
    [invert |-> FALSE, bracket |-> TRUE, closed |-> TRUE, any |-> FALSE,
     items |-> <<ip("one", 6, 0), ip("block", 9, 2), ip("from", 14, 0), ip("bad", 0, 0), ip("one", 1, 0)>>],
    [invert |-> TRUE, bracket |-> TRUE, closed |-> TRUE, any |-> TRUE, items |-> <<>>] }

MCPortTexts ==
  { [invert |-> FALSE, word |-> "ranges", items |-> <<pt("span", 5, 3, " "), pt("one", 7, 0, ","), pt("bad", 0, 0, "end")>>],
    [invert |-> TRUE, word |-> "ranges", items |-> <<pt("one", 4, 0, ","), pt("from", 8, 0, "end")>>],
    [invert |-> FALSE, word |-> "ranges", items |-> <<pt("one", 1, 0, ","), pt("upto", 1, 0, "end")>>],
    [invert |-> FALSE, word |-> "ranges", items |-> <<pt("one", 7, 0, ","), pt("bad", 0, 0, "end")>>],
    [invert |-> FALSE, word |-> "any", items |-> <<>>],
    [invert |-> FALSE, word |-> "none", items |-> <<>>],
    [invert |-> TRUE, word |-> "any", items |-> <<>>] }

\* The texts merge_portset() does right by, as the proof supposes; MCPortSets
\* has the others.
ASSUME PortTextsTame == ZeroIsNeverAlone

iv(l, u) == [lbound |-> l, ubound |-> u]
MCIntervals == {iv(0, 0), iv(1, 2), iv(2, 2), iv(3, 3), iv(4, 5), iv(6, 7)}

MCStrings == { <<>>, <<"a">>, <<"A", "b">>, <<"a", "b", "a">>, <<"a", ":", "b">>, <<"a", ":", "b", ":">> }
MCtolower == [c \in {"a", "A", "b", ":"} |-> IF c = "A" THEN "a" ELSE c]

link(idx, mtu) == [what |-> "link", idx |-> idx, mtu |-> mtu, was |-> 0]
neigh(idx, lllen) == [what |-> "neigh", idx |-> idx, lllen |-> lllen]
rt(oif, dst, bits, src, sbits, table, type) ==
  [what |-> "route", oif |-> oif, dst |-> dst, bits |-> bits,
   src |-> src, sbits |-> sbits, table |-> table, type |-> type]
MCLinks == {link(1, 2), link(2, 3)}
MCNeighs == {neigh(1, 6), neigh(2, 0)}
MCRoutes == { rt(1, 9, 4, 0, 0, "local", "local"), rt(1, 10, 3, 0, 0, "main", "unicast"),
              rt(2, 0, 0, 6, 3, "main", "unicast"), rt(2, 12, 2, 0, 0, "local", "broadcast"),
              rt(0, 5, 4, 0, 0, "main", "unicast") }
span(l, u) == [lower |-> l, upper |-> u]
MCAsked == {<<>>, <<span(10, 11)>>, <<span(9, 9)>>, <<span(9, 9), span(13, 14)>>}

ContainersInit == /\ IpInit /\ NlInit /\ PortInit /\ TreeInit /\ LpInit
                  /\ which \in {"ip", "net", "port", "tree", "trie", "lock", "slab", "none"}

containervars == <<ipvars, nlvars, portvars, treevars, lpvars, which>>

ContainersNext ==
  \/ which = "ip" /\ IpNext /\ UNCHANGED <<nlvars, portvars, treevars, lpvars, which>>
  \/ which = "net" /\ NlNext /\ UNCHANGED <<ipvars, portvars, treevars, lpvars, which>>
  \/ which = "port" /\ PortNext /\ UNCHANGED <<ipvars, nlvars, treevars, lpvars, which>>
  \/ which = "tree" /\ TreeNext /\ UNCHANGED <<ipvars, nlvars, portvars, lpvars, which>>
  \/ which = "trie" /\ LpNext /\ UNCHANGED <<ipvars, nlvars, portvars, treevars, which>>
=============================================================================
