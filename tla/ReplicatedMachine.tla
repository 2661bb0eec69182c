--------------------------- MODULE ReplicatedMachine ---------------------------
(* What the databases of a cluster promise together: the servers run the same *)
(* statements in one order, each statement once, some servers ahead of others,*)
(* and a client that is told OK has had its statement run.                    *)
EXTENDS Naturals, Sequences

CONSTANTS Server, Command

VARIABLES order, \* the statements that some server has run, in their order
          done,  \* how many of them each server has run
          acked  \* those whose clients have been told

vars == <<order, done, acked>>

Init == order = <<>> /\ done = [i \in Server |-> 0] /\ acked = {}

IsOnce(s) == \A m, n \in DOMAIN s : s[m] = s[n] => m = n

(* A server runs what others have run before it ...                           *)
CatchUp(i, upTo) ==
    /\ done[i] < upTo
    /\ done' = [done EXCEPT ![i] = upTo]
    /\ UNCHANGED order

(* ... all of it, and goes on with statements that nobody has run.            *)
Lead(i) ==
    /\ order' \in Seq(Command)
    /\ Len(order) < Len(order')
    /\ \A n \in DOMAIN order : order'[n] = order[n]
    /\ IsOnce(order')
    /\ done' = [done EXCEPT ![i] = Len(order')]

(* A client may be told of a statement that the server runs in this step.     *)
Tell(i) ==
    \/ UNCHANGED acked
    \/ \E n \in (done[i] + 1)..done'[i] : acked' = acked \cup {order'[n]}

Run(i) ==
    /\ \/ \E upTo \in 1..Len(order) : CatchUp(i, upTo)
       \/ Lead(i)
    /\ Tell(i)

Next == \E i \in Server : Run(i)

Spec == Init /\ [][Next]_vars
===============================================================================
