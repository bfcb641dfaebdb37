----------------------------- MODULE LossyChannel -----------------------------
(***************************************************************************)
(* What the queue between workers promises, whatever happens on the way:   *)
(* each sender's messages 1, 2, 3 ... are delivered at most once each, a   *)
(* message that was given up is never delivered, and nothing is delivered  *)
(* that was not sent.  It promises neither order nor delivery.             *)
(***************************************************************************)
EXTENDS Naturals, Sequences

CONSTANT Senders

VARIABLES
    sent,        \* how many messages each sender has sent
    delivered,   \* the messages delivered, in the order of delivery
    lost         \* the messages given up

vars == <<sent, delivered, lost>>

Elements(q) == {q[i] : i \in DOMAIN q}

InTransit(s) == (1 .. sent[s]) \ (Elements(delivered[s]) \cup lost[s])

Init ==
    /\ sent = [s \in Senders |-> 0]
    /\ delivered = [s \in Senders |-> <<>>]
    /\ lost = [s \in Senders |-> {}]

Send(s) ==
    /\ sent' = [sent EXCEPT ![s] = @ + 1]
    /\ UNCHANGED <<delivered, lost>>

(* A batch of different messages arrives.                                  *)
Deliver(s) ==
    \E n \in 1 .. sent[s] :
        \E q \in [1 .. n -> InTransit(s)] :
            /\ \A i, j \in 1 .. n : q[i] = q[j] => i = j
            /\ delivered' = [delivered EXCEPT ![s] = @ \o q]
            /\ UNCHANGED <<sent, lost>>

(* Messages of any senders are given up.                                   *)
Lose ==
    /\ lost' \in [Senders -> SUBSET UNION {1 .. sent[s] : s \in Senders}]
    /\ \A s \in Senders :
          lost[s] \subseteq lost'[s] /\ lost'[s] \subseteq lost[s] \cup InTransit(s)
    /\ UNCHANGED <<sent, delivered>>

Next == Lose \/ \E s \in Senders : Send(s) \/ Deliver(s)

Spec == Init /\ [][Next]_vars

=============================================================================
