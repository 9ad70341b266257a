---------------------------- MODULE MCPortSets ----------------------------
(* Port sets with a text that denotes port 0 and nothing next to it. *)
EXTENDS PortSets

only(port) == [invert |-> FALSE, word |-> "ranges",
               items |-> <<[form |-> "one", a |-> port, b |-> 0, sep |-> "end"]>>]

MCZeroTexts == {only(0), only(5)}

===============================================================================
