----------------------------- MODULE RemoteQueue -----------------------------
(***************************************************************************)
(* The queue through which other workers send signals to the peers of one  *)
(* worker: a Redis list filled by the Node objects of the senders          *)
(* (lib/broker/node.js, with the batches of lib/utils/aggregator.js) and   *)
(* emptied by hub.consume of the receiver.                                 *)
(*                                                                         *)
(* Each sender writes its commands to one Redis connection: Redis runs     *)
(* them in order and the sender's callbacks see the replies in order, but  *)
(* timers and other messages run in between.  A sender's messages are      *)
(* numbered 1, 2, 3 ...                                                    *)
(***************************************************************************)
EXTENDS Naturals, Sequences, FiniteSets

CONSTANTS
    Senders,       \* workers that hold a Node for the receiver
    BatchSize,     \* maxPipeLen
    MaxLen,        \* MQ_MAX_LEN
    TrimLen,       \* MQ_LEN_AFTER_TRIM
    LowLen,        \* at or below this length the check is switched off (50)
    Quota,         \* bound on the messages of each sender
    MaxDeaths,     \* bound on the deaths the heartbeats declare
    MaxFailures    \* bound on the Redis commands that fail or run twice

ASSUME QueueAssumption ==
    /\ IsFiniteSet(Senders)
    /\ BatchSize \in Nat \ {0}
    /\ MaxLen \in Nat \ {0}
    /\ TrimLen \in 1 .. MaxLen - 1
    /\ LowLen \in 0 .. MaxLen - 1
    /\ Quota \in [Senders -> Nat]
    /\ MaxDeaths \in Nat
    /\ MaxFailures \in Nat

VARIABLES
    sent,          \* messages accepted by sendMsgSignal so far
    isAlive,       \* Node.isAlive
    shouldCheck,   \* Node.shouldCheck
    eventQueue,    \* Aggregator.eventQueue
    pipe,          \* commands written to the connection, not yet run
    replies,       \* replies that change something when they are handled
    mq,            \* the Redis list: batches, oldest first
    delivered,     \* messages handed to the receiver's hub
    lost,          \* messages given up
    checked,       \* messages whose batch waited for a length check
    deaths,        \* how often a heartbeat has declared the receiver dead
    failures       \* how many commands have failed or run twice

nodeVars == <<isAlive, shouldCheck, eventQueue>>
counters == <<deaths, failures>>
vars == <<sent, nodeVars, pipe, replies, mq, delivered, lost, checked, counters>>

Batches == [from : Senders, msgs : Seq(Nat)]
Commands == [op : {"len", "push", "trim", "dead", "clear"}, msgs : Seq(Nat)]
Replies == [op : {"len", "push", "dead"}, msgs : Seq(Nat), len : Nat]

Elements(q) == {q[i] : i \in DOMAIN q}

TypeOK ==
    /\ sent \in [Senders -> Nat]
    /\ isAlive \in [Senders -> BOOLEAN]
    /\ shouldCheck \in [Senders -> BOOLEAN]
    /\ eventQueue \in [Senders -> Seq(Nat)]
    /\ \A s \in Senders : Len(eventQueue[s]) < BatchSize
    /\ pipe \in [Senders -> Seq(Commands)]
    /\ replies \in [Senders -> Seq(Replies)]
    /\ mq \in Seq(Batches)
    /\ delivered \in [Senders -> Seq(Nat)]
    /\ lost \in [Senders -> SUBSET Nat]
    /\ checked \in [Senders -> SUBSET Nat]
    /\ deaths \in 0 .. MaxDeaths
    /\ failures \in 0 .. MaxFailures

Init ==
    /\ sent = [s \in Senders |-> 0]
    /\ isAlive = [s \in Senders |-> TRUE]
    /\ shouldCheck = [s \in Senders |-> FALSE]
    /\ eventQueue = [s \in Senders |-> <<>>]
    /\ pipe = [s \in Senders |-> <<>>]
    /\ replies = [s \in Senders |-> <<>>]
    /\ mq = <<>>
    /\ delivered = [s \in Senders |-> <<>>]
    /\ lost = [s \in Senders |-> {}]
    /\ checked = [s \in Senders |-> {}]
    /\ deaths = 0
    /\ failures = 0

-----------------------------------------------------------------------------
(* The sender.                                                             *)

Command(op, msgs) == [op |-> op, msgs |-> msgs]

(* Node.sendBatchReq up to its first await: while the check is on, the     *)
(* batch waits for the length of the list, else it is pushed at once.      *)
SendBatchReq(s, msgs) ==
    IF shouldCheck[s]
    THEN /\ pipe' = [pipe EXCEPT ![s] = Append(@, Command("len", msgs))]
         /\ checked' = [checked EXCEPT ![s] = @ \cup Elements(msgs)]
    ELSE /\ pipe' = [pipe EXCEPT ![s] = Append(@, Command("push", msgs))]
         /\ UNCHANGED checked

(* Aggregator.enqueue, the waiting messages and the new one being `queue`: *)
(* if they are enough for a batch they are sent at once.                   *)
Put(s, queue, full) ==
    IF full
    THEN /\ SendBatchReq(s, queue)
         /\ eventQueue' = [eventQueue EXCEPT ![s] = <<>>]
    ELSE /\ eventQueue' = [eventQueue EXCEPT ![s] = queue]
         /\ UNCHANGED <<pipe, checked>>

(* Variant: a new message goes before the waiting ones.                    *)
PutFirst(s, m) ==
    LET queue == <<m>> \o eventQueue[s] IN Put(s, queue, Len(queue) >= BatchSize)

(* Variant: a full queue is flushed one message too late.                  *)
PutOffByOne(s, m) ==
    LET queue == Append(eventQueue[s], m) IN Put(s, queue, Len(queue) > BatchSize)

(* Variant: what is sent as a batch is the queue after its reset.          *)
PutAfterReset(s, m) ==
    LET queue == Append(eventQueue[s], m) IN
    Put(s, IF Len(queue) >= BatchSize THEN <<>> ELSE queue, Len(queue) >= BatchSize)

PutLast(s, m) ==
    LET queue == Append(eventQueue[s], m) IN Put(s, queue, Len(queue) >= BatchSize)

(* Node.sendMsgSignal to a node thought alive.                             *)
Enqueue(s) ==
    /\ isAlive[s]
    /\ sent[s] < Quota[s]
    /\ sent' = [sent EXCEPT ![s] = @ + 1]
    /\ PutLast(s, sent[s] + 1)
    /\ UNCHANGED <<isAlive, shouldCheck, replies, mq, delivered, lost, counters>>

(* Variant: the flush leaves the queue as it is.                           *)
FlushKeepsQueue(s) ==
    /\ eventQueue[s] # <<>>
    /\ SendBatchReq(s, eventQueue[s])
    /\ UNCHANGED <<sent, nodeVars, replies, mq, delivered, lost, counters>>

(* Variant: only a full queue is flushed.                                  *)
FlushFullOnly(s) ==
    /\ Len(eventQueue[s]) >= BatchSize
    /\ SendBatchReq(s, eventQueue[s])
    /\ eventQueue' = [eventQueue EXCEPT ![s] = <<>>]
    /\ UNCHANGED <<sent, isAlive, shouldCheck, replies, mq, delivered, lost,
                   counters>>

(* The Aggregator's interval timer.                                        *)
Flush(s) ==
    /\ eventQueue[s] # <<>>
    /\ SendBatchReq(s, eventQueue[s])
    /\ eventQueue' = [eventQueue EXCEPT ![s] = <<>>]
    /\ UNCHANGED <<sent, isAlive, shouldCheck, replies, mq, delivered, lost,
                   counters>>

(* Variant: the bound of the list is off by one.                           *)
FullOffByOne(len) == len > MaxLen

Full(len) == len >= MaxLen

(* getLenMQ answers: a full list refuses the batch, a short one (or an     *)
(* empty one, or an error: all -1 there, 0 here) switches the check off.   *)
HandleLen(s, reply) ==
    /\ reply.op = "len"
    /\ IF Full(reply.len)
       THEN /\ lost' = [lost EXCEPT ![s] = @ \cup Elements(reply.msgs)]
            /\ UNCHANGED <<shouldCheck, pipe>>
       ELSE /\ shouldCheck' = [shouldCheck EXCEPT ![s] = @ /\ reply.len > LowLen]
            /\ pipe' = [pipe EXCEPT ![s] = Append(@, Command("push", reply.msgs))]
            /\ UNCHANGED lost

(* pushMsgToMQ answers: a list that reached its bound is trimmed.  (The    *)
(* length read after the trim is only logged.)                             *)
HandlePush(s, reply) ==
    /\ reply.op = "push"
    /\ IF Full(reply.len)
       THEN /\ shouldCheck' = [shouldCheck EXCEPT ![s] = TRUE]
            /\ pipe' = [pipe EXCEPT ![s] = Append(@, Command("trim", <<>>))]
       ELSE UNCHANGED <<shouldCheck, pipe>>
    /\ UNCHANGED lost

(* The heartbeat's getLenMQ answers: the list of a dead node is cleared.   *)
HandleDead(s, reply) ==
    /\ reply.op = "dead"
    /\ pipe' = IF reply.len > 0
               THEN [pipe EXCEPT ![s] = Append(@, Command("clear", <<>>))]
               ELSE pipe
    /\ UNCHANGED <<shouldCheck, lost>>

(* The continuation after an awaited reply.                                *)
HandleReply(s) ==
    /\ replies[s] # <<>>
    /\ LET reply == Head(replies[s]) IN
       HandleLen(s, reply) \/ HandlePush(s, reply) \/ HandleDead(s, reply)
    /\ replies' = [replies EXCEPT ![s] = Tail(@)]
    /\ UNCHANGED <<sent, isAlive, eventQueue, mq, delivered, checked, counters>>

(* The heartbeat misses the receiver's client count.                       *)
NodeDies(s) ==
    /\ isAlive[s]
    /\ deaths < MaxDeaths
    /\ deaths' = deaths + 1
    /\ isAlive' = [isAlive EXCEPT ![s] = FALSE]
    /\ pipe' = [pipe EXCEPT ![s] = Append(@, Command("dead", <<>>))]
    /\ UNCHANGED <<sent, shouldCheck, eventQueue, replies, mq, delivered, lost,
                   checked, failures>>

(* The heartbeat finds the count again.                                    *)
NodeRevives(s) ==
    /\ ~isAlive[s]
    /\ isAlive' = [isAlive EXCEPT ![s] = TRUE]
    /\ UNCHANGED <<sent, shouldCheck, eventQueue, pipe, replies, mq, delivered,
                   lost, checked, counters>>

-----------------------------------------------------------------------------
(* Redis.                                                                  *)

(* What the batches of b hold of sender s.                                 *)
MessagesOf(b, s) ==
    UNION {Elements(b[i].msgs) : i \in {j \in DOMAIN b : b[j].from = s}}

Losing(b) == [s \in Senders |-> lost[s] \cup MessagesOf(b, s)]

Reply(s, c, len) ==
    replies' = [replies EXCEPT
                   ![s] = Append(@, [op |-> c.op, msgs |-> c.msgs, len |-> len])]

(* LLEN, for a batch or for the heartbeat.                                 *)
RunLen(s, c) ==
    /\ c.op \in {"len", "dead"}
    /\ Reply(s, c, Len(mq))
    /\ UNCHANGED <<mq, lost>>

(* RPUSH.                                                                  *)
RunPush(s, c) ==
    /\ c.op = "push"
    /\ mq' = Append(mq, [from |-> s, msgs |-> c.msgs])
    /\ Reply(s, Command("push", <<>>), Len(mq) + 1)
    /\ UNCHANGED lost

(* LTRIM -TrimLen -1: the newest batches stay.                             *)
RunTrim(c) ==
    /\ c.op = "trim"
    /\ LET excess == IF Len(mq) > TrimLen THEN Len(mq) - TrimLen ELSE 0 IN
       /\ mq' = SubSeq(mq, excess + 1, Len(mq))
       /\ lost' = Losing(SubSeq(mq, 1, excess))
    /\ UNCHANGED replies

(* LTRIM 1 0.                                                              *)
RunClear(c) ==
    /\ c.op = "clear"
    /\ mq' = <<>>
    /\ lost' = Losing(mq)
    /\ UNCHANGED replies

(* Redis runs the next command of a connection.                            *)
Run(s) ==
    /\ pipe[s] # <<>>
    /\ LET c == Head(pipe[s]) IN
       RunLen(s, c) \/ RunPush(s, c) \/ RunTrim(c) \/ RunClear(c)
    /\ pipe' = [pipe EXCEPT ![s] = Tail(@)]
    /\ UNCHANGED <<sent, nodeVars, delivered, checked, counters>>

(* The next command fails: getLenMQ then answers -1, a rejected push is    *)
(* caught and its batch is gone, a trim or clear is gone too.              *)
Fail(s) ==
    /\ failures < MaxFailures
    /\ failures' = failures + 1
    /\ pipe[s] # <<>>
    /\ LET c == Head(pipe[s]) IN
       /\ IF c.op \in {"len", "dead"} THEN Reply(s, c, 0) ELSE UNCHANGED replies
       /\ lost' = [lost EXCEPT
                      ![s] = IF c.op = "push" THEN @ \cup Elements(c.msgs) ELSE @]
    /\ pipe' = [pipe EXCEPT ![s] = Tail(@)]
    /\ UNCHANGED <<sent, nodeVars, mq, delivered, checked, deaths>>

(* A push runs but the connection breaks before its reply: the client      *)
(* library writes it again.                                                *)
Rerun(s) ==
    /\ failures < MaxFailures
    /\ failures' = failures + 1
    /\ pipe[s] # <<>> /\ Head(pipe[s]).op = "push"
    /\ mq' = Append(mq, [from |-> s, msgs |-> Head(pipe[s]).msgs])
    /\ UNCHANGED <<sent, nodeVars, pipe, replies, delivered, lost, checked, deaths>>

-----------------------------------------------------------------------------
(* The receiver's hub.consume: BLPOP, then sendMessageToLocalPeerBatch.    *)
Consume ==
    /\ mq # <<>>
    /\ LET batch == Head(mq) IN
       delivered' = [delivered EXCEPT ![batch.from] = @ \o batch.msgs]
    /\ mq' = Tail(mq)
    /\ UNCHANGED <<sent, nodeVars, pipe, replies, lost, checked, counters>>

-----------------------------------------------------------------------------
Next ==
    \/ \E s \in Senders : \/ Enqueue(s) \/ Flush(s) \/ HandleReply(s)
                          \/ NodeDies(s) \/ NodeRevives(s)
                          \/ Run(s) \/ Fail(s) \/ Rerun(s)
    \/ Consume

Spec == Init /\ [][Next]_vars

-----------------------------------------------------------------------------
(* Properties.                                                             *)

(* A list at its bound is always about to be trimmed: a trim is on its     *)
(* way, or the reply that will order one is, whatever other senders push   *)
(* and whatever the receiver takes in between.                             *)
OverflowIsTrimmed ==
    failures = 0 /\ Len(mq) >= MaxLen =>
        \E s \in Senders :
            \/ \E i \in DOMAIN pipe[s] : pipe[s][i].op = "trim"
            \/ \E i \in DOMAIN replies[s] :
                  replies[s][i].op = "push" /\ replies[s][i].len >= MaxLen

(* No batch is empty: protobuf decodes one to an object without items, on  *)
(* which hub.consume would throw, and nobody would read the list again.    *)
NoEmptyBatch == \A i \in DOMAIN mq : mq[i].msgs # <<>>

(* A message overtakes an earlier one of the same sender only if the       *)
(* earlier one waited for a length check and the later one did not.        *)
OvertakenOnlyIfChecked ==
    failures = 0 => \A s \in Senders : \A i, j \in DOMAIN delivered[s] :
        i < j /\ delivered[s][i] > delivered[s][j] =>
            delivered[s][j] \in checked[s] /\ delivered[s][i] \notin checked[s]

(* Without failing commands the queue is a lossy channel: no message is    *)
(* delivered twice, or after it was given up, through the batches, checks, *)
(* trims and clears of all senders.                                        *)
Channel == INSTANCE LossyChannel
              WITH sent <- sent, delivered <- delivered, lost <- lost
ImplementsChannel == Channel!Spec

-----------------------------------------------------------------------------
(* Timers fire, Redis answers, and the receiver's consume loop runs.       *)
Fairness ==
    /\ \A s \in Senders : WF_vars(Flush(s)) /\ WF_vars(Run(s))
                          /\ WF_vars(HandleReply(s))
    /\ WF_vars(Consume)

FairSpec == Spec /\ Fairness

(* Every message that sendMsgSignal accepts is delivered or given up, with *)
(* failing commands too: none stays in a queue for ever.                   *)
EveryMessageSettles ==
    \A s \in Senders : \A m \in 1 .. Quota[s] :
        m <= sent[s] ~> m \in Elements(delivered[s]) \cup lost[s]

=============================================================================
