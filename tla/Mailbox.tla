------------------------------- MODULE Mailbox -------------------------------
(***************************************************************************)
(* What a worker promises a polling peer about its messages, whatever      *)
(* becomes of its polls: the messages 1, 2, 3, ... are refused at once or  *)
(* wait in one queue in the order they were sent; a reply takes the whole  *)
(* queue; and what leaves the queue otherwise is never written.            *)
(***************************************************************************)
EXTENDS Naturals, Sequences

VARIABLES
    sent,      \* how many messages were sent
    queue,     \* those that wait, in order
    written    \* those that were written to a response

vars == <<sent, queue, written>>

Elements(q) == {q[i] : i \in DOMAIN q}

Init ==
    /\ sent = 0
    /\ queue = <<>>
    /\ written = {}

Accept ==
    /\ sent' = sent + 1
    /\ queue' = Append(queue, sent + 1)
    /\ UNCHANGED written

Refuse ==
    /\ sent' = sent + 1
    /\ UNCHANGED <<queue, written>>

Reply ==
    /\ written' = written \cup Elements(queue)
    /\ queue' = <<>>
    /\ UNCHANGED sent

GiveUp ==
    /\ queue' = <<>>
    /\ UNCHANGED <<sent, written>>

Next == Accept \/ Refuse \/ Reply \/ GiveUp

Spec == Init /\ [][Next]_vars

-----------------------------------------------------------------------------
(* The queue is in the order of sending, and newer than what was written.  *)
Ordered ==
    /\ sent \in Nat /\ queue \in Seq(Nat) /\ written \subseteq Nat
    /\ \A i, j \in DOMAIN queue : i < j => queue[i] < queue[j]
    /\ \A i \in DOMAIN queue : queue[i] <= sent
    /\ \A m \in written : m <= sent /\ \A i \in DOMAIN queue : m < queue[i]

=============================================================================
