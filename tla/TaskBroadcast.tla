---------------------------- MODULE TaskBroadcast ----------------------------
(***************************************************************************)
(* What the engine relies on when it calls put_tasks and what a rank       *)
(* relies on when it calls get_tasks: a reliable broadcast with one        *)
(* outstanding batch.  Batches are published in order; each rank receives  *)
(* every batch exactly once and in that order; and no batch is published   *)
(* before every rank has received the one before it.                       *)
(***************************************************************************)
EXTENDS Naturals, Sequences

CONSTANT Clients
VARIABLES log,      \* batches published, in order
          seen      \* rank -> batches received, in order

Init == /\ log = << >>
        /\ seen = [c \in Clients |-> << >>]

Publish == /\ \A c \in Clients : seen[c] = log
           /\ log' = Append(log, Len(log) + 1)
           /\ UNCHANGED seen

Receive(c) == /\ Len(seen[c]) < Len(log)
              /\ seen' = [seen EXCEPT ![c] = Append(@, log[Len(@) + 1])]
              /\ UNCHANGED log

Next == Publish \/ \E c \in Clients : Receive(c)

Spec == Init /\ [][Next]_<<log, seen>>
=============================================================================
