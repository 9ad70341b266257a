------------------------------- MODULE Netlink -------------------------------
(***************************************************************************)
(* The cache of interfaces, neighbours and routes, libdank/modules/netlink/  *)
(* netlink.c: filled once by three dumps of the kernel, one part after the  *)
(* other, each under the lock, and asked by other threads meanwhile.        *)
(* Addresses and sets of them are those of IpSets.                          *)
(***************************************************************************)
EXTENDS IpSets

CONSTANTS Links,     \* [what, idx, mtu, was]
          Neighs,    \* [what, idx, lllen]
          Routes,    \* [what, oif, dst, bits, src, sbits, table, type]; no oif: 0
          Junk,      \* what create_nic() may find in memory it does not set
          Asked,     \* the sets srcroute_to_ipset() is asked about
          MaxTold,   \* bounds the parts of a behaviour's dumps
          MaxOpen    \* bounds the descriptors

\* The kernel numbers interfaces from 1, and its routes have no bits below their
\* prefixes; those who ask bring sets as IpSets makes them.  An address is two bytes.
ASSUME NetlinkAssumption ==
  /\ Links \subseteq [what : {"link"}, idx : Nat \ {0}, mtu : Nat, was : Addrs]
  /\ Neighs \subseteq [what : {"neigh"}, idx : Nat \ {0}, lllen : Nat]
  /\ Routes \subseteq [what : {"route"}, oif : Nat, dst : Addrs, bits : 0 .. Bits,
                       src : Addrs, sbits : 0 .. Bits, table : STRING, type : STRING]
  /\ \A r \in Routes : r.dst % 2 ^ (Bits - r.bits) = 0 /\ r.src % 2 ^ (Bits - r.sbits) = 0
  /\ Junk \subseteq Addrs /\ MaxTold \in Nat /\ MaxOpen \in Nat
  /\ \A set \in Asked : /\ set \in Seq([lower : Addrs, upper : Addrs])
                        /\ Canonical(set)
  /\ Bits \div 2 > 0 /\ Bits = 2 * (Bits \div 2)
  /\ Half ^ 0 = 1 /\ Half ^ 1 = Half /\ Half ^ 2 = Half * Half
  /\ \A b \in Bits \div 2 .. Bits : 2 ^ b % Half = 0

VARIABLE nl   \* [phase, sd, open, nics, told]; told is what was reported, for the properties
nlvars == <<nl>>

NlInit == nl = [phase |-> "idle", sd |-> -1, open |-> {}, nics |-> <<>>, told |-> <<>>]

stop_netlink_state(s) ==
  [phase |-> "idle", sd |-> -1, open |-> s.open \ {s.sd}, nics |-> <<>>, told |-> <<>>]

-------------------------------------------------------------------------------
(* Lists, whose newest member is the first. *)
Known(nics, idx) == \E k \in DOMAIN nics : nics[k].idx = idx

NicAt(nics, idx) == Least({k \in DOMAIN nics : nics[k].idx = idx})

create_nic(l, junk) ==
  [idx |-> l.idx, mtu |-> l.mtu, srcaddr |-> junk, routes |-> <<>>, neighbors |-> <<>>]

add_nic_locked(nics, l, junk) == <<create_nic(l, junk)>> \o nics

add_neigh_locked(nics, n) == [nics EXCEPT ![NicAt(nics, n.idx)].neighbors = <<n>> \o @]

RoundsDown(a, bits) == LET bytes == bits \div (Bits \div 2) IN a - (a % (Half ^ (2 - bytes)))

\* Only the bytes a prefix reaches into are copied.
Copied(a, bits) ==
  LET inbyte == Bits \div 2
      bytes == (bits + inbyte - 1) \div inbyte
  IN a - (a % (Half ^ (2 - bytes)))

create_route(r) ==
  [dst |-> Copied(r.dst, r.bits), src |-> Copied(r.src, r.sbits),
   bits |-> r.bits, table |-> r.table, type |-> r.type]

\* The source a route gives its interface: its hint, or a local address itself.
SourceOf(rt) == IF rt.src = 0 /\ rt.type = "local" THEN rt.dst ELSE rt.src

add_route_locked(nics, r) ==
  [nics EXCEPT ![NicAt(nics, r.oif)].routes = <<create_route(r)>> \o @,
               ![NicAt(nics, r.oif)].srcaddr = IF @ = 0 THEN SourceOf(create_route(r)) ELSE @]

-------------------------------------------------------------------------------
(* init_netlink_layer(), one step for each part of a dump; only one thread     *)
(* starts and stops the layer.  Attributes are looked for up to the end of    *)
(* the datagram, where each message that follows passes for one of type 0.   *)
Tells(part, nics) ==
  /\ Len(nl.told) < MaxTold
  /\ nl' = [nl EXCEPT !.nics = nics, !.told = Append(@, part)]

Refuse == nl' = stop_netlink_state(nl)

Begin == /\ nl.phase = "idle" /\ Cardinality(nl.open) < MaxOpen
         /\ LET sd == Least(0 .. MaxOpen \ nl.open)
            IN nl' = [nl EXCEPT !.phase = "ask links", !.sd = sd, !.open = @ \cup {sd}]

NoBuffer == nl.phase = "idle" /\ Refuse

\* Socket() fails, and a descriptor of an earlier call is forgotten.
NoSocket == nl.phase = "idle" /\ nl' = stop_netlink_state([nl EXCEPT !.sd = -1])

Asking == [p \in {"ask links", "ask neighs", "ask routes"} |->
             CASE p = "ask links" -> "links" [] p = "ask neighs" -> "neighs" [] p = "ask routes" -> "routes"]

\* The request is sent, or cannot be.
Ask == /\ nl.phase \in DOMAIN Asking
       /\ \/ nl' = [nl EXCEPT !.phase = Asking[nl.phase]]
          \/ Refuse

NewLink == /\ nl.phase = "links"
           /\ \E l \in Links, junk \in Junk :
                IF Known(nl.nics, l.idx) THEN Refuse
                ELSE Tells([l EXCEPT !.was = junk], add_nic_locked(nl.nics, l, junk))

NewNeigh == /\ nl.phase = "neighs"
            /\ \E n \in Neighs : IF Known(nl.nics, n.idx)
                                 THEN Tells(n, add_neigh_locked(nl.nics, n))
                                 ELSE Refuse

\* No memory for the hardware address: create_neigh() frees the other pointer,
\* which it has not set yet.
FreesJunk == /\ nl.phase = "neighs"
             /\ \E n \in Neighs : Known(nl.nics, n.idx) /\ n.lllen > 0
             /\ nl' = [nl EXCEPT !.phase = "died"]

NewRoute == /\ nl.phase = "routes"
            /\ \E r \in Routes :
                 \/ r.oif = 0 /\ UNCHANGED nl
                 \/ /\ r.oif # 0
                    /\ IF Known(nl.nics, r.oif) THEN Tells(r, add_route_locked(nl.nics, r))
                       ELSE Refuse

Done == \/ nl.phase = "links" /\ nl' = [nl EXCEPT !.phase = "ask neighs"]
        \/ nl.phase = "neighs" /\ nl' = [nl EXCEPT !.phase = "ask routes"]
        \/ nl.phase = "routes" /\ nl' = [nl EXCEPT !.phase = "idle"]

\* Nothing is received, or a message is malformed, of another type, for another
\* process, or finds no memory.
Broken == nl.phase \in {"links", "neighs", "routes"} /\ Refuse

stop_netlink_layer == nl.phase = "idle" /\ Refuse

NlNext == \/ Begin \/ NoBuffer \/ NoSocket \/ Ask \/ NewLink \/ NewNeigh \/ FreesJunk
          \/ NewRoute \/ Done \/ Broken \/ stop_netlink_layer

NlSpec == NlInit /\ [][NlNext]_nlvars

-------------------------------------------------------------------------------
(* What other threads ask, under the lock. *)
get_maximum_mtu(nics) == Most({0} \cup {nics[k].mtu : k \in DOMAIN nics})

iprange(rt) == iprange_from_route(rt.dst, rt.bits)

ip_is_local(nics, ip) ==
  \E k \in DOMAIN nics : \E rt \in ToSet(nics[k].routes) :
    rt.table = "local" /\ ip_in_range(iprange(rt), ip)

\* Every route in the order of the walk, with the source it answers with.
Walk(nics) ==
  FlattenSeq([k \in DOMAIN nics |->
    [j \in DOMAIN nics[k].routes |->
      LET rt == nics[k].routes[j]
      IN [range |-> iprange(rt), src |-> IF rt.src = 0 THEN nics[k].srcaddr ELSE rt.src]]])

\* The first route that encloses the set decides.
srcroute_to_ipset(nics, set) ==
  LET walk == Walk(nics)
      first == Least({k \in DOMAIN walk :
                        ipset_encloses([ranges |-> <<walk[k].range>>], [ranges |-> set])}
                     \cup {Len(walk) + 1})
  IN IF first > Len(walk) THEN [ok |-> FALSE] ELSE [ok |-> TRUE, src |-> walk[first].src]

stringize_nic(nic) ==
  <<[idx |-> nic.idx, mtu |-> nic.mtu]>>
    \o [k \in DOMAIN nic.routes |-> [idx |-> nic.idx, route |-> nic.routes[k]]]
    \o [k \in DOMAIN nic.neighbors |-> [idx |-> nic.idx, neigh |-> nic.neighbors[k]]]

\* Only a layer that has its socket is printed.
stringize_netinfo(s) ==
  IF s.sd = -1 THEN <<>> ELSE FlattenSeq([k \in DOMAIN s.nics |-> stringize_nic(s.nics[k])])

-------------------------------------------------------------------------------
(* Properties. *)
Told(what) == {part \in ToSet(nl.told) : part.what = what}

\* What a route covers and a set of ranges holds, by definition.
Covers(r, ip) == LET block == 2 ^ (Bits - r.bits) IN ip \div block = r.dst \div block

Hint(r) == (r.src \div 2 ^ (Bits - r.sbits)) * 2 ^ (Bits - r.sbits)

\* create_nic() does not set srcaddr.  Where the memory was not zero the interface
\* keeps an address that nobody gave.
Unset(idx) == \E l \in Told("link") : l.idx = idx /\ l.was # 0

\* Otherwise its source is the first that one of its routes gave, if any did.
Default(idx) ==
  LET given(r) == IF Hint(r) = 0 /\ r.type = "local" THEN r.dst ELSE Hint(r)
      theirs == {k \in DOMAIN nl.told : LET r == nl.told[k]
                                       IN r.what = "route" /\ r.oif = idx /\ given(r) # 0}
  IN IF theirs = {} THEN 0 ELSE given(nl.told[Least(theirs)])

\* The line of the print-out a part accounts for.
LineOf(part) ==
  CASE part.what = "link" -> [idx |-> part.idx, mtu |-> part.mtu]
    [] part.what = "neigh" -> [idx |-> part.idx, neigh |-> part]
    [] part.what = "route" -> [idx |-> part.oif, route |-> create_route(part)]

Times(s, x) == Cardinality({k \in DOMAIN s : s[k] = x})

\* However far the dumps have come, and however an earlier start failed or was
\* repeated, the cache holds each part it was told, once and under its
\* interface, and nothing else; and other threads are answered from these
\* parts: the largest MTU, whether an address is local, and whether one route
\* encloses a set, with the hint of such a route for a source, or, without a hint,
\* the first source its interface was given.  The default source (netlink.c:41-44)
\* is promised only for an interface whose memory was zero: create_nic()
\* (187-207) leaves srcaddr unset, and what other interfaces answer is left open.
CacheIsWhatWasTold ==
  LET lines == stringize_netinfo(nl)
      routes == Told("route")
      told == [k \in DOMAIN nl.told |-> LineOf(nl.told[k])]
  IN /\ \A x \in ToSet(lines) \cup ToSet(told) : Times(lines, x) = Times(told, x)
     /\ get_maximum_mtu(nl.nics) = Most({0} \cup {l.mtu : l \in Told("link")})
     /\ \A ip \in Addrs :
          ip_is_local(nl.nics, ip) <=> \E r \in routes : r.table = "local" /\ Covers(r, ip)
     /\ \A set \in Asked :
          LET around == {r \in routes : \A ip \in Elements(set) : Covers(r, ip)}
              answer == srcroute_to_ipset(nl.nics, set)
          IN IF around = {} THEN ~answer.ok
             ELSE /\ answer.ok
                  /\ \E r \in around :
                       \/ Hint(r) # 0 /\ answer.src = Hint(r)
                       \/ Hint(r) = 0 /\ (Unset(r.oif) \/ answer.src = Default(r.oif))
     /\ nl.sd # -1 => nl.sd \in nl.open
     /\ nl.sd = -1 => nl.told = <<>>
===============================================================================
