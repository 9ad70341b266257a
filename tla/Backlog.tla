------------------------------- MODULE Backlog -------------------------------
(***************************************************************************)
(* What the rings of libdank/modules/logging/logging.c promise: each client *)
(* of log_dump has a queue of bounded length, first in, first out, counts   *)
(* what finds it full, and the line that is being written to the client     *)
(* changes under nobody's hands.                                            *)
(***************************************************************************)
EXTENDS Integers, Sequences

CONSTANTS Clients,
          Capacity,   \* messages a queue holds
          Messages    \* what is logged, and 0, which ends a dump

VARIABLES backlog,    \* client -> the messages that wait
          lost,       \* client -> how many it was not told of
          line        \* client -> the line being written, -k for k lost ones, 0 for none

vars == <<backlog, lost, line>>

Init == /\ backlog = [c \in Clients |-> <<>>]
        /\ lost = [c \in Clients |-> 0]
        /\ line = [c \in Clients |-> 0]

Attach(c) == /\ line[c] = 0
             /\ backlog' = [backlog EXCEPT ![c] = <<>>]
             /\ lost' = [lost EXCEPT ![c] = 0]
             /\ line' = line

Offer(c) == /\ Len(backlog[c]) < Capacity
            /\ \E m \in Messages : backlog' = [backlog EXCEPT ![c] = Append(@, m)]
            /\ UNCHANGED <<lost, line>>

Lose(c) == /\ Len(backlog[c]) = Capacity
           /\ lost' = [lost EXCEPT ![c] = @ + 1]
           /\ UNCHANGED <<backlog, line>>

Tell(c) == /\ line[c] = 0 /\ lost[c] > 0
           /\ line' = [line EXCEPT ![c] = -lost[c]]
           /\ lost' = [lost EXCEPT ![c] = 0]
           /\ UNCHANGED backlog

\* The end of a dump is no line.
Take(c) == /\ line[c] = 0 /\ backlog[c] # <<>>
           /\ line' = [line EXCEPT ![c] = Head(backlog[c])]
           /\ backlog' = [backlog EXCEPT ![c] = Tail(@)]
           /\ UNCHANGED lost

Written(c) == /\ line' = [line EXCEPT ![c] = 0]
              /\ UNCHANGED <<backlog, lost>>

Next == \E c \in Clients : \/ Attach(c) \/ Offer(c) \/ Lose(c)
                           \/ Tell(c) \/ Take(c) \/ Written(c)

Spec == Init /\ [][Next]_vars
===============================================================================
