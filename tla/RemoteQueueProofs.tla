-------------------------- MODULE RemoteQueueProofs --------------------------
(***************************************************************************)
(* Theorems about RemoteQueue, for every set of senders, every bound of    *)
(* the list and every batch size: types and the bound of the list, the     *)
(* order of a sender's messages, and that it implements LossyChannel.      *)
(***************************************************************************)
EXTENDS RemoteQueue, SequenceTheorems, FiniteSetTheorems, TLAPS

(* Sequences of the senders: one of them grows, or loses its head.         *)
LEMMA AppendAt ==
    ASSUME NEW S, NEW f \in [Senders -> Seq(S)], NEW s \in Senders, NEW x \in S
    PROVE  [f EXCEPT ![s] = Append(@, x)] \in [Senders -> Seq(S)]
  <1>1. Append(f[s], x) \in Seq(S)
    OBVIOUS
  <1> QED
    BY <1>1

LEMMA TailAt ==
    ASSUME NEW S, NEW f \in [Senders -> Seq(S)], NEW s \in Senders, f[s] # <<>>
    PROVE  /\ [f EXCEPT ![s] = Tail(@)] \in [Senders -> Seq(S)]
           /\ Head(f[s]) \in S
  <1>1. Tail(f[s]) \in Seq(S) /\ Head(f[s]) \in S
    OBVIOUS
  <1> QED
    BY <1>1

(* One of the sets of the senders grows.                                   *)
LEMMA UnionAt ==
    ASSUME NEW S, NEW f \in [Senders -> SUBSET S], NEW s \in Senders, NEW x \in SUBSET S
    PROVE  [f EXCEPT ![s] = @ \cup x] \in [Senders -> SUBSET S]
  <1>1. f[s] \cup x \in SUBSET S
    OBVIOUS
  <1> QED
    BY <1>1

(* The messages in a sequence of messages are messages.                    *)
LEMMA ElementsType ==
    ASSUME NEW q \in Seq(Nat) PROVE Elements(q) \subseteq Nat
  BY DEF Elements

(* What the end of a list, or its front, holds.                            *)
LEMMA BatchesType ==
    ASSUME NEW q \in Seq(Batches), NEW n \in 0 .. Len(q)
    PROVE  /\ SubSeq(q, n + 1, Len(q)) \in Seq(Batches)
           /\ Len(SubSeq(q, n + 1, Len(q))) = Len(q) - n
           /\ SubSeq(q, 1, n) \in Seq(Batches)
  <1>1. SubSeq(q, n + 1, Len(q)) \in Seq(Batches)
        /\ Len(SubSeq(q, n + 1, Len(q))) = Len(q) - n
    BY SubSeqProperties
  <1>2. SubSeq(q, 1, n) \in Seq(Batches)
    BY SubSeqProperties
  <1> QED
    BY <1>1, <1>2

(* The batches that leave the list by a trim or a clear add messages to    *)
(* lost.                                                                   *)
LEMMA LosingType ==
    ASSUME TypeOK, NEW b \in Seq(Batches)
    PROVE  Losing(b) \in [Senders -> SUBSET Nat]
  <1>1. ASSUME NEW s \in Senders PROVE MessagesOf(b, s) \subseteq Nat
    <2>1. ASSUME NEW i \in DOMAIN b PROVE Elements(b[i].msgs) \subseteq Nat
      <3>1. b[i] \in Batches
        BY ElementOfSeq
      <3>2. b[i].msgs \in Seq(Nat)
        BY <3>1 DEF Batches
      <3> QED
        BY <3>2, ElementsType
    <2> QED
      BY <2>1 DEF MessagesOf
  <1> QED
    BY <1>1 DEF Losing, TypeOK

LEMMA TypeInit == Init => TypeOK
  <1> SUFFICES ASSUME Init PROVE TypeOK
    OBVIOUS
  <1> USE QueueAssumption
  <1>1. <<>> \in Seq(Nat) /\ <<>> \in Seq(Commands) /\ <<>> \in Seq(Replies)
        /\ <<>> \in Seq(Batches) /\ Len(<<>>) = 0
    OBVIOUS
  <1>2. /\ eventQueue \in [Senders -> Seq(Nat)]
        /\ \A s \in Senders : Len(eventQueue[s]) < BatchSize
    BY <1>1 DEF Init
  <1>3. pipe \in [Senders -> Seq(Commands)] /\ replies \in [Senders -> Seq(Replies)]
    BY <1>1 DEF Init
  <1>4. delivered \in [Senders -> Seq(Nat)]
    BY <1>1 DEF Init
  <1>5. mq \in Seq(Batches)
    BY <1>1 DEF Init
  <1>6. /\ sent \in [Senders -> Nat]
        /\ isAlive \in [Senders -> BOOLEAN]
        /\ shouldCheck \in [Senders -> BOOLEAN]
        /\ lost \in [Senders -> SUBSET Nat]
        /\ checked \in [Senders -> SUBSET Nat]
        /\ deaths \in 0 .. MaxDeaths
        /\ failures \in 0 .. MaxFailures
    BY DEF Init
  <1> QED
    BY <1>2, <1>3, <1>4, <1>5, <1>6 DEF TypeOK

(* A command and its messages.                                             *)
LEMMA CommandType ==
    ASSUME NEW op \in {"len", "push", "trim", "dead", "clear"}, NEW q \in Seq(Nat)
    PROVE  Command(op, q) \in Commands
  BY DEF Command, Commands

(* sendBatchReq writes one command.                                        *)
LEMMA SendBatchType ==
    ASSUME TypeOK, NEW s \in Senders, NEW q \in Seq(Nat), SendBatchReq(s, q)
    PROVE  /\ pipe' \in [Senders -> Seq(Commands)]
           /\ checked' \in [Senders -> SUBSET Nat]
  <1>1. Elements(q) \subseteq Nat
    BY ElementsType
  <1>2. Command("len", q) \in Commands /\ Command("push", q) \in Commands
    BY CommandType
  <1>3. pipe' \in [Senders -> Seq(Commands)]
    <2>1. pipe \in [Senders -> Seq(Commands)]
      BY DEF TypeOK
    <2>2. PICK c \in Commands : pipe' = [pipe EXCEPT ![s] = Append(@, c)]
      BY <1>2 DEF SendBatchReq
    <2> QED
      BY <2>1, <2>2, AppendAt
  <1>4. checked' \in [Senders -> SUBSET Nat]
    <2>1. checked \in [Senders -> SUBSET Nat]
      BY DEF TypeOK
    <2>2. \/ checked' = checked
          \/ checked' = [checked EXCEPT ![s] = @ \cup Elements(q)]
      <3>1. CASE shouldCheck[s]
        BY <3>1 DEF SendBatchReq
      <3>2. CASE ~shouldCheck[s]
        BY <3>2 DEF SendBatchReq
      <3> QED
        BY <3>1, <3>2
    <2>3. [checked EXCEPT ![s] = @ \cup Elements(q)] \in [Senders -> SUBSET Nat]
      <3>1. Elements(q) \in SUBSET Nat
        BY <1>1
      <3> QED
        BY <2>1, <3>1, UnionAt
    <2> QED
      BY <2>1, <2>2, <2>3, Zenon
  <1> QED
    BY <1>3, <1>4

(* A reply and the messages of the batch that waits for it.                *)
LEMMA ReplyType ==
    ASSUME TypeOK, NEW s \in Senders, NEW c \in Commands,
           c.op \in {"len", "push", "dead"}, NEW n \in Nat, Reply(s, c, n)
    PROVE  replies' \in [Senders -> Seq(Replies)]
  <1>1. [op |-> c.op, msgs |-> c.msgs, len |-> n] \in Replies
    BY DEF Commands, Replies
  <1> QED
    BY <1>1, AppendAt DEF Reply, TypeOK

(* Every step keeps the types.                                             *)
LEMMA TypeNext == TypeOK /\ [Next]_vars => TypeOK'
  <1> SUFFICES ASSUME TypeOK, [Next]_vars PROVE TypeOK'
    OBVIOUS
  <1> USE QueueAssumption
  <1>e. <<>> \in Seq(Nat) /\ Len(<<>>) = 0
    OBVIOUS
  <1>1. ASSUME NEW s \in Senders, Enqueue(s) PROVE TypeOK'
    <2> DEFINE queue == Append(eventQueue[s], sent[s] + 1)
    <2>1. queue \in Seq(Nat)
      BY DEF TypeOK
    <2>2. sent' \in [Senders -> Nat]
      BY <1>1 DEF Enqueue, TypeOK
    <2>3. /\ pipe' \in [Senders -> Seq(Commands)]
          /\ checked' \in [Senders -> SUBSET Nat]
      <3>1. CASE SendBatchReq(s, queue)
        BY <2>1, <3>1, SendBatchType
      <3>2. CASE UNCHANGED <<pipe, checked>>
        BY <3>2 DEF TypeOK
      <3> QED
        BY <1>1, <3>1, <3>2 DEF Enqueue, PutLast, Put
    <2>4. /\ eventQueue' \in [Senders -> Seq(Nat)]
          /\ \A t \in Senders : Len(eventQueue'[t]) < BatchSize
      <3>1. CASE Len(queue) >= BatchSize
        <4>1. eventQueue' = [eventQueue EXCEPT ![s] = <<>>]
          BY <1>1, <3>1 DEF Enqueue, PutLast, Put
        <4> QED
          BY <1>e, <4>1 DEF TypeOK
      <3>2. CASE ~(Len(queue) >= BatchSize)
        <4>1. Len(queue) < BatchSize
          BY <2>1, <3>2, LenProperties
        <4> HIDE DEF queue
        <4>2. eventQueue' = [eventQueue EXCEPT ![s] = queue]
          BY <1>1, <3>2 DEF Enqueue, PutLast, Put, queue
        <4> QED
          BY <2>1, <4>1, <4>2 DEF TypeOK
      <3> QED
        BY <3>1, <3>2
    <2> QED
      BY <1>1, <2>2, <2>3, <2>4 DEF Enqueue, TypeOK, counters
  <1>2. ASSUME NEW s \in Senders, Flush(s) PROVE TypeOK'
    <2>1. /\ pipe' \in [Senders -> Seq(Commands)]
          /\ checked' \in [Senders -> SUBSET Nat]
      BY <1>2, SendBatchType DEF Flush, TypeOK
    <2>2. /\ eventQueue' \in [Senders -> Seq(Nat)]
          /\ \A t \in Senders : Len(eventQueue'[t]) < BatchSize
      BY <1>2, <1>e DEF Flush, TypeOK
    <2> QED
      BY <1>2, <2>1, <2>2 DEF Flush, TypeOK, counters
  <1>3. ASSUME NEW s \in Senders, HandleReply(s) PROVE TypeOK'
    <2> DEFINE reply == Head(replies[s])
    <2>1. /\ reply \in Replies
          /\ replies' \in [Senders -> Seq(Replies)]
      BY <1>3, TailAt DEF HandleReply, TypeOK
    <2> HIDE DEF reply
    <2>2. reply.msgs \in Seq(Nat) /\ Elements(reply.msgs) \subseteq Nat
      BY <2>1, ElementsType DEF Replies
    <2>3. HandleLen(s, reply) \/ HandlePush(s, reply) \/ HandleDead(s, reply)
      BY <1>3 DEF HandleReply, reply
    <2>4. /\ Command("push", reply.msgs) \in Commands
          /\ Command("trim", <<>>) \in Commands
          /\ Command("clear", <<>>) \in Commands
      BY <1>e, <2>2, CommandType
    <2>5. pipe' \in [Senders -> Seq(Commands)]
      <3>1. pipe \in [Senders -> Seq(Commands)]
        BY DEF TypeOK
      <3>2. \/ pipe' = pipe
            \/ \E c \in Commands : pipe' = [pipe EXCEPT ![s] = Append(@, c)]
        BY <2>3, <2>4 DEF HandleLen, HandlePush, HandleDead
      <3>3. ASSUME NEW c \in Commands, pipe' = [pipe EXCEPT ![s] = Append(@, c)]
            PROVE  pipe' \in [Senders -> Seq(Commands)]
        BY <3>1, <3>3, AppendAt
      <3> QED
        BY <3>1, <3>2, <3>3
    <2>6. lost' \in [Senders -> SUBSET Nat]
      <3>1. lost \in [Senders -> SUBSET Nat]
        BY DEF TypeOK
      <3>2. \/ lost' = lost
            \/ lost' = [lost EXCEPT ![s] = @ \cup Elements(reply.msgs)]
        BY <2>3 DEF HandleLen, HandlePush, HandleDead
      <3>3. [lost EXCEPT ![s] = @ \cup Elements(reply.msgs)] \in [Senders -> SUBSET Nat]
        <4>1. Elements(reply.msgs) \in SUBSET Nat
          BY <2>2
        <4> QED
          BY <3>1, <4>1, UnionAt
      <3> QED
        BY <3>1, <3>2, <3>3, Zenon
    <2>7. shouldCheck' \in [Senders -> BOOLEAN]
      <3>1. shouldCheck \in [Senders -> BOOLEAN]
        BY DEF TypeOK
      <3>2. CASE HandleLen(s, reply)
        BY <3>1, <3>2 DEF HandleLen
      <3>3. CASE HandlePush(s, reply)
        BY <3>1, <3>3 DEF HandlePush
      <3>4. CASE HandleDead(s, reply)
        BY <3>1, <3>4 DEF HandleDead
      <3> QED
        BY <2>3, <3>2, <3>3, <3>4
    <2> QED
      BY <1>3, <2>1, <2>5, <2>6, <2>7 DEF HandleReply, TypeOK, counters
  <1>4. ASSUME NEW s \in Senders, NodeDies(s) PROVE TypeOK'
    <2>1. pipe' \in [Senders -> Seq(Commands)]
      BY <1>4, <1>e, CommandType, AppendAt DEF NodeDies, TypeOK
    <2>2. deaths' \in 0 .. MaxDeaths
      BY <1>4 DEF NodeDies, TypeOK
    <2> QED
      BY <1>4, <2>1, <2>2 DEF NodeDies, TypeOK
  <1>5. ASSUME NEW s \in Senders, NodeRevives(s) PROVE TypeOK'
    BY <1>5 DEF NodeRevives, TypeOK, counters
  <1>6. ASSUME NEW s \in Senders, Run(s) PROVE TypeOK'
    <2> DEFINE c == Head(pipe[s])
    <2>1. c \in Commands /\ pipe' \in [Senders -> Seq(Commands)]
      BY <1>6, TailAt DEF Run, TypeOK
    <2> HIDE DEF c
    <2>2. RunLen(s, c) \/ RunPush(s, c) \/ RunTrim(c) \/ RunClear(c)
      BY <1>6 DEF Run, c
    <2>3. /\ mq' \in Seq(Batches)
          /\ replies' \in [Senders -> Seq(Replies)]
          /\ lost' \in [Senders -> SUBSET Nat]
      <3>1. CASE RunLen(s, c)
        <4>1. Len(mq) \in Nat
          BY DEF TypeOK
        <4> QED
          BY <2>1, <3>1, <4>1, ReplyType DEF RunLen, TypeOK
      <3>2. CASE RunPush(s, c)
        <4>1. [from |-> s, msgs |-> c.msgs] \in Batches
          BY <2>1 DEF Commands, Batches
        <4>2. Command("push", <<>>) \in Commands /\ Command("push", <<>>).op = "push"
          BY <1>e, CommandType DEF Command
        <4>3. Len(mq) + 1 \in Nat /\ Reply(s, Command("push", <<>>), Len(mq) + 1)
          BY <3>2 DEF RunPush, TypeOK
        <4>4. replies' \in [Senders -> Seq(Replies)]
          BY <4>2, <4>3, ReplyType
        <4> QED
          BY <3>2, <4>1, <4>4 DEF RunPush, TypeOK
      <3>3. CASE RunTrim(c)
        <4> DEFINE excess == IF Len(mq) > TrimLen THEN Len(mq) - TrimLen ELSE 0
        <4>1. mq \in Seq(Batches) /\ excess \in 0 .. Len(mq)
          BY DEF TypeOK
        <4>2. /\ mq' = SubSeq(mq, excess + 1, Len(mq))
              /\ lost' = Losing(SubSeq(mq, 1, excess))
              /\ replies' = replies
          BY <3>3 DEF RunTrim
        <4> HIDE DEF excess
        <4>3. mq' \in Seq(Batches) /\ SubSeq(mq, 1, excess) \in Seq(Batches)
          BY <4>1, <4>2, BatchesType
        <4>4. lost' \in [Senders -> SUBSET Nat]
          BY <4>2, <4>3, LosingType
        <4> QED
          BY <4>2, <4>3, <4>4 DEF TypeOK
      <3>4. CASE RunClear(c)
        <4>1. lost' \in [Senders -> SUBSET Nat]
          BY <3>4, LosingType DEF RunClear, TypeOK
        <4> QED
          BY <3>4, <4>1 DEF RunClear, TypeOK
      <3> QED
        BY <2>2, <3>1, <3>2, <3>3, <3>4
    <2> QED
      BY <1>6, <2>1, <2>3 DEF Run, TypeOK, nodeVars, counters
  <1>7. ASSUME NEW s \in Senders, Fail(s) PROVE TypeOK'
    <2> DEFINE c == Head(pipe[s])
    <2>1. c \in Commands /\ pipe' \in [Senders -> Seq(Commands)]
      BY <1>7, TailAt DEF Fail, TypeOK
    <2> HIDE DEF c
    <2>2. replies' \in [Senders -> Seq(Replies)]
      <3>1. CASE c.op \in {"len", "dead"}
        <4>1. Reply(s, c, 0)
          BY <1>7, <3>1 DEF Fail, c
        <4> QED
          BY <2>1, <3>1, <4>1, ReplyType
      <3>2. CASE c.op \notin {"len", "dead"}
        BY <1>7, <3>2 DEF Fail, c, TypeOK
      <3> QED
        BY <3>1, <3>2
    <2>3. lost' \in [Senders -> SUBSET Nat]
      <3>1. Elements(c.msgs) \subseteq Nat
        BY <2>1, ElementsType DEF Commands
      <3>2. lost' = [lost EXCEPT
                        ![s] = IF c.op = "push" THEN @ \cup Elements(c.msgs) ELSE @]
        BY <1>7 DEF Fail, c
      <3> QED
        BY <3>1, <3>2 DEF TypeOK
    <2>4. failures' \in 0 .. MaxFailures
      BY <1>7 DEF Fail, TypeOK
    <2> QED
      BY <1>7, <2>1, <2>2, <2>3, <2>4 DEF Fail, TypeOK, nodeVars
  <1>8. ASSUME NEW s \in Senders, Rerun(s) PROVE TypeOK'
    <2>1. Head(pipe[s]) \in Commands
      BY <1>8, TailAt DEF Rerun, TypeOK
    <2>2. [from |-> s, msgs |-> Head(pipe[s]).msgs] \in Batches
      BY <2>1 DEF Commands, Batches
    <2>3. mq' \in Seq(Batches) /\ failures' \in 0 .. MaxFailures
      BY <1>8, <2>2 DEF Rerun, TypeOK
    <2> QED
      BY <1>8, <2>3 DEF Rerun, TypeOK, nodeVars
  <1>9. ASSUME Consume PROVE TypeOK'
    <2>1. Head(mq) \in Batches /\ Tail(mq) \in Seq(Batches)
      BY <1>9 DEF Consume, TypeOK
    <2>2. delivered' \in [Senders -> Seq(Nat)]
      <3>1. Head(mq).from \in Senders /\ Head(mq).msgs \in Seq(Nat)
        BY <2>1 DEF Batches
      <3>2. delivered[Head(mq).from] \o Head(mq).msgs \in Seq(Nat)
        BY <3>1 DEF TypeOK
      <3> QED
        BY <1>9, <3>1, <3>2 DEF Consume, TypeOK
    <2> QED
      BY <1>9, <2>1, <2>2 DEF Consume, TypeOK, nodeVars, counters
  <1>10. ASSUME UNCHANGED vars PROVE TypeOK'
    BY <1>10 DEF vars, nodeVars, counters, TypeOK
  <1> QED
    BY <1>1, <1>2, <1>3, <1>4, <1>5, <1>6, <1>7, <1>8, <1>9, <1>10 DEF Next

(* Every variable keeps its type, and a batch under construction stays     *)
(* smaller than a full one.                                                *)
THEOREM QueueTypes == Spec => []TypeOK
  BY TypeInit, TypeNext, PTL DEF Spec

-----------------------------------------------------------------------------
(* The bound of the list.                                                  *)

TrimWritten(s) == \E i \in DOMAIN pipe[s] : pipe[s][i].op = "trim"

TrimDue(s) ==
    \E i \in DOMAIN replies[s] :
        replies[s][i].op = "push" /\ replies[s][i].len >= MaxLen

(* A sender that has a trim on its way or due keeps it when its pipe and   *)
(* its replies only grow.                                                  *)
LEMMA TrimStays ==
    ASSUME TypeOK, NEW s \in Senders, TrimWritten(s) \/ TrimDue(s),
           \A i \in DOMAIN pipe[s] : i \in DOMAIN pipe'[s] /\ pipe'[s][i] = pipe[s][i],
           \A i \in DOMAIN replies[s] :
              i \in DOMAIN replies'[s] /\ replies'[s][i] = replies[s][i]
    PROVE  TrimWritten(s)' \/ TrimDue(s)'
  BY DEF TrimWritten, TrimDue

(* The sequences of the senders that only grow.                            *)
LEMMA Grows ==
    ASSUME NEW S, NEW f \in [Senders -> Seq(S)], NEW s \in Senders, NEW x \in S,
           NEW t \in Senders, NEW i \in DOMAIN f[t]
    PROVE  /\ i \in DOMAIN [f EXCEPT ![s] = Append(@, x)][t]
           /\ [f EXCEPT ![s] = Append(@, x)][t][i] = f[t][i]
  <1>1. CASE s = t
    <2>1. f[t] \in Seq(S) /\ [f EXCEPT ![s] = Append(@, x)][t] = Append(f[t], x)
      BY <1>1
    <2>2. i \in DOMAIN Append(f[t], x) /\ Append(f[t], x)[i] = f[t][i]
      BY <2>1
    <2> QED
      BY <2>1, <2>2
  <1>2. CASE s # t
    BY <1>2
  <1> QED
    BY <1>1, <1>2

(* The head leaves, the others move up.                                    *)
LEMMA MovesUp ==
    ASSUME NEW S, NEW q \in Seq(S), NEW i \in DOMAIN q, i # 1
    PROVE  i - 1 \in DOMAIN Tail(q) /\ Tail(q)[i - 1] = q[i]
  OBVIOUS

(* Every step preserves the bound: the push that reaches it has its reply, *)
(* the reply its trim, and the trim (or a clear) ends it.                  *)
LEMMA OverflowNext == TypeOK /\ OverflowIsTrimmed /\ [Next]_vars => OverflowIsTrimmed'
  <1> SUFFICES ASSUME TypeOK, OverflowIsTrimmed, [Next]_vars,
                      failures' = 0, Len(mq') >= MaxLen
               PROVE  \E s \in Senders : TrimWritten(s)' \/ TrimDue(s)'
    BY DEF OverflowIsTrimmed, TrimWritten, TrimDue
  <1> USE QueueAssumption
  <1>t. TypeOK'
    BY TypeNext
  <1>0. /\ pipe \in [Senders -> Seq(Commands)]
        /\ replies \in [Senders -> Seq(Replies)]
        /\ mq \in Seq(Batches) /\ Len(mq) \in Nat /\ MaxLen \in Nat
    BY DEF TypeOK
  <1>p. ASSUME failures = 0, Len(mq) >= MaxLen
        PROVE  \E s \in Senders : TrimWritten(s) \/ TrimDue(s)
    BY <1>p DEF OverflowIsTrimmed, TrimWritten, TrimDue
  (* A step in which the sequences of the senders only grow.               *)
  <1>g. ASSUME failures = 0, Len(mq) >= MaxLen,
               \/ pipe' = pipe
               \/ \E s \in Senders, c \in Commands :
                     pipe' = [pipe EXCEPT ![s] = Append(@, c)],
               replies' = replies
        PROVE  \E s \in Senders : TrimWritten(s)' \/ TrimDue(s)'
    <2>1. PICK s \in Senders : TrimWritten(s) \/ TrimDue(s)
      BY <1>g, <1>p
    <2>2. ASSUME NEW i \in DOMAIN pipe[s]
          PROVE  i \in DOMAIN pipe'[s] /\ pipe'[s][i] = pipe[s][i]
      <3>1. CASE pipe' = pipe
        BY <3>1
      <3>2. ASSUME NEW t \in Senders, NEW c \in Commands,
                   pipe' = [pipe EXCEPT ![t] = Append(@, c)]
            PROVE  i \in DOMAIN pipe'[s] /\ pipe'[s][i] = pipe[s][i]
        BY <1>0, <3>2, Grows
      <3> QED
        BY <1>g, <3>1, <3>2
    <2> QED
      BY <1>g, <2>1, <2>2, TrimStays
  <1>c. ASSUME NEW op \in {"len", "push", "trim", "dead", "clear"}, NEW q \in Seq(Nat)
        PROVE  Command(op, q) \in Commands
    BY <1>c, CommandType
  <1>e. <<>> \in Seq(Nat)
    OBVIOUS
  <1>b. ASSUME NEW s \in Senders, NEW q \in Seq(Nat), SendBatchReq(s, q)
        PROVE  \E c \in Commands : pipe' = [pipe EXCEPT ![s] = Append(@, c)]
    BY <1>b, <1>c DEF SendBatchReq
  <1>1. ASSUME NEW s \in Senders, Enqueue(s)
        PROVE  \E t \in Senders : TrimWritten(t)' \/ TrimDue(t)'
    <2> DEFINE queue == Append(eventQueue[s], sent[s] + 1)
    <2>1. queue \in Seq(Nat)
      BY DEF TypeOK
    <2>2. SendBatchReq(s, queue) \/ pipe' = pipe
      BY <1>1 DEF Enqueue, PutLast, Put
    <2>3. UNCHANGED <<failures, mq, replies>>
      BY <1>1 DEF Enqueue, counters
    <2> HIDE DEF queue
    <2> QED
      BY <1>b, <1>g, <2>1, <2>2, <2>3
  <1>2. ASSUME NEW s \in Senders, Flush(s)
        PROVE  \E t \in Senders : TrimWritten(t)' \/ TrimDue(t)'
    <2>1. eventQueue[s] \in Seq(Nat) /\ SendBatchReq(s, eventQueue[s])
          /\ UNCHANGED <<failures, mq, replies>>
      BY <1>2 DEF Flush, TypeOK, counters
    <2> QED
      BY <1>b, <1>g, <2>1
  <1>3. ASSUME NEW s \in Senders, HandleReply(s)
        PROVE  \E t \in Senders : TrimWritten(t)' \/ TrimDue(t)'
    <2> DEFINE reply == Head(replies[s])
    <2>1. /\ replies[s] \in Seq(Replies) /\ replies[s] # <<>>
          /\ reply \in Replies
          /\ replies' = [replies EXCEPT ![s] = Tail(@)]
          /\ UNCHANGED <<failures, mq>>
      BY <1>0, <1>3, TailAt DEF HandleReply, counters
    <2>2. HandleLen(s, reply) \/ HandlePush(s, reply) \/ HandleDead(s, reply)
      BY <1>3 DEF HandleReply
    <2>3. PICK t \in Senders : TrimWritten(t) \/ TrimDue(t)
      BY <1>p, <2>1
    <2> HIDE DEF reply
    <2>4. reply.msgs \in Seq(Nat)
      BY <2>1 DEF Replies
    <2>5. \/ pipe' = pipe
          \/ \E c \in Commands : pipe' = [pipe EXCEPT ![s] = Append(@, c)]
      BY <1>c, <1>e, <2>2, <2>4 DEF HandleLen, HandlePush, HandleDead
    <2>6. CASE TrimWritten(t)
      <3>1. PICK i \in DOMAIN pipe[t] : pipe[t][i].op = "trim"
        BY <2>6 DEF TrimWritten
      <3>2. CASE pipe' = pipe
        BY <3>1, <3>2 DEF TrimWritten
      <3>3. ASSUME NEW c \in Commands, pipe' = [pipe EXCEPT ![s] = Append(@, c)]
            PROVE  TrimWritten(t)'
        <4>1. i \in DOMAIN pipe'[t] /\ pipe'[t][i] = pipe[t][i]
          BY <1>0, <3>3, Grows
        <4> QED
          BY <3>1, <4>1 DEF TrimWritten
      <3> QED
        BY <2>5, <3>2, <3>3
    <2>7. CASE TrimDue(t)
      <3>1. PICK i \in DOMAIN replies[t] :
               replies[t][i].op = "push" /\ replies[t][i].len >= MaxLen
        BY <2>7 DEF TrimDue
      <3>2. CASE t # s
        BY <1>0, <2>1, <3>1, <3>2 DEF TrimDue
      <3>3. CASE t = s /\ i # 1
        <4>1. i - 1 \in DOMAIN Tail(replies[s]) /\ Tail(replies[s])[i - 1] = replies[s][i]
          BY <2>1, <3>1, <3>3, MovesUp
        <4>2. replies'[s] = Tail(replies[s])
          BY <1>0, <2>1
        <4> QED
          BY <3>1, <3>3, <4>1, <4>2 DEF TrimDue
      <3>4. CASE t = s /\ i = 1
        <4>1. reply.op = "push" /\ reply.len >= MaxLen
          BY <2>1, <3>1, <3>4 DEF reply
        <4>2. pipe' = [pipe EXCEPT ![s] = Append(@, Command("trim", <<>>))]
          BY <2>2, <4>1 DEF HandleLen, HandlePush, HandleDead, Full
        <4>3. pipe[s] \in Seq(Commands) /\ pipe'[s] = Append(pipe[s], Command("trim", <<>>))
              /\ Command("trim", <<>>).op = "trim"
          BY <1>0, <4>2 DEF Command
        <4>4. Len(pipe[s]) + 1 \in DOMAIN pipe'[s]
              /\ pipe'[s][Len(pipe[s]) + 1] = Command("trim", <<>>)
          BY <4>3
        <4> QED
          BY <4>3, <4>4 DEF TrimWritten
      <3> QED
        BY <3>2, <3>3, <3>4
    <2> QED
      BY <2>3, <2>6, <2>7
  <1>4. ASSUME NEW s \in Senders, NodeDies(s)
        PROVE  \E t \in Senders : TrimWritten(t)' \/ TrimDue(t)'
    <2>1. UNCHANGED <<failures, mq, replies>>
          /\ pipe' = [pipe EXCEPT ![s] = Append(@, Command("dead", <<>>))]
      BY <1>4 DEF NodeDies
    <2>2. Command("dead", <<>>) \in Commands
      BY <1>c, <1>e
    <2> QED
      BY <1>g, <2>1, <2>2
  <1>5. ASSUME NEW s \in Senders, NodeRevives(s)
        PROVE  \E t \in Senders : TrimWritten(t)' \/ TrimDue(t)'
    BY <1>5, <1>g DEF NodeRevives, counters
  <1>6. ASSUME NEW s \in Senders, Run(s)
        PROVE  \E t \in Senders : TrimWritten(t)' \/ TrimDue(t)'
    <2> DEFINE c == Head(pipe[s])
    <2>1. /\ pipe[s] \in Seq(Commands) /\ pipe[s] # <<>> /\ c \in Commands
          /\ pipe' = [pipe EXCEPT ![s] = Tail(@)]
          /\ failures' = failures
      BY <1>0, <1>6, TailAt DEF Run, counters
    <2>2. RunLen(s, c) \/ RunPush(s, c) \/ RunTrim(c) \/ RunClear(c)
      BY <1>6 DEF Run
    <2>h. c = pipe[s][1]
      BY <2>1
    <2> HIDE DEF c
    <2>3. CASE RunPush(s, c)
      <3> DEFINE r == [op |-> "push", msgs |-> <<>>, len |-> Len(mq) + 1]
      <3>1. replies' = [replies EXCEPT ![s] = Append(@, r)]
        BY <2>3 DEF RunPush, Reply, Command
      <3>2. replies[s] \in Seq(Replies) /\ replies'[s] = Append(replies[s], r)
        BY <1>0, <3>1
      <3>3. Len(replies[s]) + 1 \in DOMAIN replies'[s]
            /\ replies'[s][Len(replies[s]) + 1] = r
        BY <3>2
      <3>4. r.op = "push" /\ r.len = Len(mq) + 1
        OBVIOUS
      <3>5. Len(mq') = Len(mq) + 1
        BY <1>0, <2>3 DEF RunPush
      <3> HIDE DEF r
      <3>6. r.len >= MaxLen
        BY <3>4, <3>5
      <3> QED
        BY <3>3, <3>4, <3>6 DEF TrimDue
    <2>4. CASE RunLen(s, c)
      <3>1. mq' = mq
        BY <2>4 DEF RunLen
      <3>2. PICK t \in Senders : TrimWritten(t) \/ TrimDue(t)
        BY <1>p, <2>1, <3>1
      <3>3. CASE TrimWritten(t)
        <4>1. PICK i \in DOMAIN pipe[t] : pipe[t][i].op = "trim"
          BY <3>3 DEF TrimWritten
        <4>2. CASE t # s
          BY <1>0, <2>1, <4>1, <4>2 DEF TrimWritten
        <4>3. CASE t = s
          <5>1. i # 1
            BY <2>4, <2>h, <4>1, <4>3 DEF RunLen
          <5>2. i - 1 \in DOMAIN Tail(pipe[s]) /\ Tail(pipe[s])[i - 1] = pipe[s][i]
            BY <2>1, <4>1, <4>3, <5>1, MovesUp
          <5>3. pipe'[s] = Tail(pipe[s])
            BY <1>0, <2>1
          <5> QED
            BY <4>1, <4>3, <5>2, <5>3 DEF TrimWritten
        <4> QED
          BY <4>2, <4>3
      <3>4. CASE TrimDue(t)
        <4>1. PICK i \in DOMAIN replies[t] :
                 replies[t][i].op = "push" /\ replies[t][i].len >= MaxLen
          BY <3>4 DEF TrimDue
        <4> DEFINE r == [op |-> c.op, msgs |-> c.msgs, len |-> Len(mq)]
        <4>2. r \in Replies
          BY <1>0, <2>1, <2>4 DEF RunLen, Replies, Commands
        <4>3. replies' = [replies EXCEPT ![s] = Append(@, r)]
          BY <2>4 DEF RunLen, Reply
        <4> HIDE DEF r
        <4>4. i \in DOMAIN replies'[t] /\ replies'[t][i] = replies[t][i]
          BY <1>0, <4>2, <4>3, Grows
        <4> QED
          BY <4>1, <4>4 DEF TrimDue
      <3> QED
        BY <3>2, <3>3, <3>4
    <2>5. CASE RunTrim(c)
      <3> DEFINE excess == IF Len(mq) > TrimLen THEN Len(mq) - TrimLen ELSE 0
      <3>1. mq' = SubSeq(mq, excess + 1, Len(mq)) /\ excess \in 0 .. Len(mq)
        BY <1>0, <2>5 DEF RunTrim
      <3>2. Len(mq) - excess <= TrimLen
        BY <1>0
      <3> HIDE DEF excess
      <3>3. Len(mq') = Len(mq) - excess
        BY <1>0, <3>1, BatchesType
      <3> QED
        BY <1>0, <3>1, <3>2, <3>3
    <2>6. CASE RunClear(c)
      <3>1. Len(mq') = 0
        BY <2>6 DEF RunClear
      <3> QED
        BY <3>1
    <2> QED
      BY <2>2, <2>3, <2>4, <2>5, <2>6
  <1>7. ASSUME NEW s \in Senders, Fail(s) \/ Rerun(s) PROVE FALSE
    BY <1>7 DEF Fail, Rerun, TypeOK
  <1>8. ASSUME Consume
        PROVE  \E t \in Senders : TrimWritten(t)' \/ TrimDue(t)'
    <2>1. UNCHANGED <<failures, pipe, replies>> /\ Len(mq) >= MaxLen
      BY <1>0, <1>8 DEF Consume, counters
    <2> QED
      BY <1>g, <2>1
  <1>9. ASSUME UNCHANGED vars
        PROVE  \E t \in Senders : TrimWritten(t)' \/ TrimDue(t)'
    BY <1>9, <1>g DEF vars, counters
  <1> QED
    BY <1>1, <1>2, <1>3, <1>4, <1>5, <1>6, <1>7, <1>8, <1>9 DEF Next

(* While no command fails, a list that has reached its bound is about to   *)
(* be trimmed, with any number of senders pushing to it.                   *)
THEOREM TheListIsTrimmed == Spec => []OverflowIsTrimmed
  <1>1. Init => OverflowIsTrimmed
    BY QueueAssumption DEF Init, OverflowIsTrimmed
  <1> QED
    BY <1>1, OverflowNext, QueueTypes, PTL DEF Spec

-----------------------------------------------------------------------------
(* The order of a sender's messages.  c is the set of those that waited    *)
(* for a length check.                                                     *)

(* x may be ahead of y.                                                    *)
MayLead(x, y, c) == x > y => y \in c /\ x \notin c

InOrder(q, c) == \A i, j \in DOMAIN q : i < j => MayLead(q[i], q[j], c)

AllLead(a, b, c) == \A x \in a, y \in b : MayLead(x, y, c)

(* The commands, replies or batches at the positions p of q.               *)
Held(q, p) == UNION {Elements(q[i].msgs) : i \in p}

InLine(q, p, c) ==
    /\ \A i \in p : InOrder(q[i].msgs, c)
    /\ \A i, j \in p :
          i < j => AllLead(Elements(q[i].msgs), Elements(q[j].msgs), c)

With(q, op) == {i \in DOMAIN q : q[i].op = op}
From(b, s) == {i \in DOMAIN b : b[i].from = s}

(* Five sets of messages, each ahead of the next ones; the last two wait   *)
(* for a length check; none is beyond n.                                   *)
Stages(v, w, x, y, z, c, n) ==
    /\ AllLead(v, w \cup x \cup y \cup z, c)
    /\ AllLead(w, x \cup y \cup z, c)
    /\ AllLead(x, y \cup z, c)
    /\ AllLead(y, z, c)
    /\ y \cup z \subseteq c
    /\ c \cup v \cup w \cup x \cup y \cup z \subseteq 1 .. n

(* What sender s has delivered (d), in the list (b), in its pipe (p) and   *)
(* in its replies (r) is in order: the messages up to n left its queue.    *)
Orderly(s, d, b, p, r, c, n) ==
    /\ InOrder(d, c)
    /\ InLine(b, From(b, s), c)
    /\ InLine(p, With(p, "push"), c)
    /\ InLine(r, With(r, "len"), c)
    /\ InLine(p, With(p, "len"), c)
    /\ Stages(Elements(d), Held(b, From(b, s)), Held(p, With(p, "push")),
              Held(r, With(r, "len")), Held(p, With(p, "len")), c, n)

(* q holds the messages after n.                                           *)
Follows(q, n) == \A i \in DOMAIN q : q[i] = n + i

SenderInOrder(s) ==
    \E n \in Nat :
        /\ sent[s] = n + Len(eventQueue[s])
        /\ Follows(eventQueue[s], n)
        /\ Orderly(s, delivered[s], mq, pipe[s], replies[s], checked[s], n)

OrderKept == failures = 0 => \A s \in Senders : SenderInOrder(s)

(* What two sequences hold together.                                      *)
LEMMA ElementsConcat ==
    ASSUME NEW p \in Seq(Nat), NEW q \in Seq(Nat)
    PROVE  Elements(p \o q) = Elements(p) \cup Elements(q)
  <1> DEFINE r == p \o q
  <1>1. /\ Len(p) \in Nat /\ DOMAIN p = 1 .. Len(p)
        /\ Len(q) \in Nat /\ DOMAIN q = 1 .. Len(q)
        /\ r \in Seq(Nat) /\ Len(r) = Len(p) + Len(q) /\ DOMAIN r = 1 .. Len(p) + Len(q)
        /\ \A i \in 1 .. Len(p) + Len(q) :
              r[i] = IF i <= Len(p) THEN p[i] ELSE q[i - Len(p)]
    BY LenProperties, ConcatProperties
  <1> HIDE DEF r
  <1>2. ASSUME NEW i \in DOMAIN r PROVE r[i] \in Elements(p) \cup Elements(q)
    <2>1. CASE i <= Len(p)
      <3>1. i \in DOMAIN p /\ r[i] = p[i]
        BY <1>1, <2>1
      <3> QED
        BY <3>1 DEF Elements
    <2>2. CASE ~(i <= Len(p))
      <3>1. i - Len(p) \in DOMAIN q /\ r[i] = q[i - Len(p)]
        BY <1>1, <2>2
      <3> QED
        BY <3>1 DEF Elements
    <2> QED
      BY <2>1, <2>2
  <1>3. ASSUME NEW i \in DOMAIN p PROVE p[i] \in Elements(r)
    <2>1. i \in DOMAIN r /\ r[i] = p[i]
      BY <1>1, SMTT(40)
    <2> QED
      BY <2>1 DEF Elements
  <1>4. ASSUME NEW i \in DOMAIN q PROVE q[i] \in Elements(r)
    <2>1. i + Len(p) \in DOMAIN r /\ ~(i + Len(p) <= Len(p)) /\ (i + Len(p)) - Len(p) = i
      <3>1. PICK k \in Nat, n \in Nat : k = Len(p) /\ n = Len(q)
        BY <1>1
      <3>2. i \in 1 .. n /\ DOMAIN r = 1 .. k + n
        BY <1>1, <3>1
      <3>3. i + k \in 1 .. k + n /\ ~(i + k <= k) /\ (i + k) - k = i
        BY <3>2
      <3> QED
        BY <3>1, <3>2, <3>3
    <2>2. r[i + Len(p)] = q[i]
      BY <1>1, <2>1
    <2> QED
      BY <2>1, <2>2 DEF Elements
  <1>5. Elements(r) \subseteq Elements(p) \cup Elements(q)
    BY <1>2 DEF Elements
  <1>6. Elements(p) \subseteq Elements(r) /\ Elements(q) \subseteq Elements(r)
    BY <1>3, <1>4 DEF Elements
  <1> QED
    BY <1>5, <1>6 DEF r

(* Fewer messages are in order too.                                        *)
LEMMA StagesShrink ==
    ASSUME NEW v, NEW w, NEW x, NEW y, NEW z, NEW c, NEW n, Stages(v, w, x, y, z, c, n),
           NEW v1 \in SUBSET v, NEW w1 \in SUBSET w, NEW x1 \in SUBSET x,
           NEW y1 \in SUBSET y, NEW z1 \in SUBSET z
    PROVE  Stages(v1, w1, x1, y1, z1, c, n)
  <1> USE DEF Stages
  <1>1. /\ AllLead(v1, w1 \cup x1 \cup y1 \cup z1, c)
        /\ AllLead(w1, x1 \cup y1 \cup z1, c)
        /\ AllLead(x1, y1 \cup z1, c)
        /\ AllLead(y1, z1, c)
    BY DEF AllLead
  <1> QED
    BY <1>1

(* Messages go from one stage to an earlier one: those of a batch that was *)
(* ahead of the rest of its stage.                                         *)
LEMMA StagesMove ==
    ASSUME NEW v, NEW w, NEW x, NEW y, NEW z, NEW h, NEW c, NEW n, AllLead(h, z, c)
    PROVE  /\ Stages(v, w, x, y, z \cup h, c, n) => Stages(v, w, x, y \cup h, z, c, n)
           /\ Stages(v, w, x, z \cup h, y, c, n) => Stages(v, w, x \cup h, z, y, c, n)
           /\ Stages(v, w, z \cup h, x, y, c, n) => Stages(v, w \cup h, z, x, y, c, n)
           /\ Stages(v, z \cup h, w, x, y, c, n) => Stages(v \cup h, z, w, x, y, c, n)
  <1>1. Stages(v, w, x, y, z \cup h, c, n) => Stages(v, w, x, y \cup h, z, c, n)
    BY DEF Stages, AllLead
  <1>2. Stages(v, w, x, z \cup h, y, c, n) => Stages(v, w, x \cup h, z, y, c, n)
    BY DEF Stages, AllLead
  <1>3. Stages(v, w, z \cup h, x, y, c, n) => Stages(v, w \cup h, z, x, y, c, n)
    BY DEF Stages, AllLead
  <1>4. Stages(v, z \cup h, w, x, y, c, n) => Stages(v \cup h, z, w, x, y, c, n)
    BY DEF Stages, AllLead
  <1> QED
    BY <1>1, <1>2, <1>3, <1>4

(* The messages of a new batch come after all that left the queue before.  *)
LEMMA StagesNew ==
    ASSUME NEW v, NEW w, NEW x, NEW y, NEW z, NEW c, NEW n \in Nat, NEW k \in Nat,
           NEW h, \A m \in h : m \in n + 1 .. n + k, Stages(v, w, x, y, z, c, n)
    PROVE  /\ Stages(v, w, x \cup h, y, z, c, n + k)
           /\ Stages(v, w, x, y, z \cup h, c \cup h, n + k)
  <1>1. \A m \in h : \A o \in 1 .. n : m \in Nat /\ o \in Nat /\ m > o /\ ~(o > m) /\ m # o
    OBVIOUS
  <1>2. \A m \in 1 .. n : m \in 1 .. n + k
    OBVIOUS
  <1>3. \A m \in h : m \in 1 .. n + k
    OBVIOUS
  <1>4. c \cup v \cup w \cup x \cup y \cup z \subseteq 1 .. n
    BY DEF Stages
  <1>5. \A m \in h : m \notin c
    BY <1>1, <1>4
  <1>6. c \cup v \cup w \cup x \cup y \cup z \cup h \subseteq 1 .. n + k
    BY <1>2, <1>3, <1>4
  <1>7. AllLead(v \cup w \cup x \cup y \cup z, h, c)
    BY <1>1, <1>4 DEF AllLead, MayLead
  <1>8. AllLead(h, y \cup z, c)
    BY <1>5 DEF AllLead, MayLead, Stages
  <1>9. Stages(v, w, x \cup h, y, z, c, n + k)
    BY <1>6, <1>7, <1>8 DEF Stages, AllLead
  <1>10. ASSUME NEW a, NEW b, a \cup b \subseteq 1 .. n, AllLead(a, b, c)
         PROVE  AllLead(a, b, c \cup h)
    BY <1>1, <1>10 DEF AllLead, MayLead
  <1>11. Stages(v, w, x, y, z, c \cup h, n + k)
    BY <1>4, <1>6, <1>10 DEF Stages
  <1>12. AllLead(v \cup w \cup x \cup y \cup z, h, c \cup h)
    BY <1>1, <1>4 DEF AllLead, MayLead
  <1>13. Stages(v, w, x, y, z \cup h, c \cup h, n + k)
    BY <1>6, <1>11, <1>12 DEF Stages, AllLead
  <1> QED
    BY <1>9, <1>13

(* Messages that were in order stay so when later ones are checked.        *)
LEMMA OrderUnderChecks ==
    ASSUME NEW c, NEW h, NEW n
    PROVE  /\ \A q : Elements(q) \cap h = {} /\ InOrder(q, c) => InOrder(q, c \cup h)
           /\ \A q, p : Held(q, p) \cap h = {} /\ InLine(q, p, c) => InLine(q, p, c \cup h)
  <1>1. ASSUME NEW q, Elements(q) \cap h = {}, InOrder(q, c)
        PROVE  InOrder(q, c \cup h)
    BY <1>1 DEF InOrder, Elements, MayLead
  <1>2. ASSUME NEW q, NEW p, Held(q, p) \cap h = {}, InLine(q, p, c)
        PROVE  InLine(q, p, c \cup h)
    <2>1. ASSUME NEW i \in p PROVE Elements(q[i].msgs) \cap h = {}
      BY <1>2 DEF Held
    <2>2. ASSUME NEW i \in p PROVE InOrder(q[i].msgs, c \cup h)
      BY <1>1, <1>2, <2>1 DEF InLine
    <2>3. ASSUME NEW i \in p, NEW j \in p, i < j
          PROVE  AllLead(Elements(q[i].msgs), Elements(q[j].msgs), c \cup h)
      <3>1. AllLead(Elements(q[i].msgs), Elements(q[j].msgs), c)
        BY <1>2, <2>3 DEF InLine
      <3> QED
        BY <2>1, <3>1 DEF AllLead, MayLead
    <2> QED
      BY <2>2, <2>3 DEF InLine
  <1> QED
    BY <1>1, <1>2

(* A command, reply or batch is appended: at positions p before, p1 after. *)
LEMMA LineAppend ==
    ASSUME NEW S, NEW q \in Seq(S), NEW x \in S, NEW c, NEW p, NEW p1,
           p \subseteq DOMAIN q, p1 \subseteq DOMAIN Append(q, x),
           \A i \in DOMAIN q : i \in p1 <=> i \in p,
           InLine(q, p, c),
           Len(q) + 1 \in p1 =>
              InOrder(x.msgs, c) /\ AllLead(Held(q, p), Elements(x.msgs), c)
    PROVE  /\ InLine(Append(q, x), p1, c)
           /\ Held(Append(q, x), p1)
                 = Held(q, p) \cup (IF Len(q) + 1 \in p1 THEN Elements(x.msgs) ELSE {})
  <1> DEFINE r == Append(q, x)
             e == Len(q) + 1
  <1>1. /\ DOMAIN r = 1 .. Len(q) + 1 /\ DOMAIN q = 1 .. Len(q) /\ Len(q) \in Nat
        /\ \A i \in 1 .. Len(q) : r[i] = q[i]
        /\ r[e] = x
    OBVIOUS
  <1>2. /\ \A i \in DOMAIN r : i \in DOMAIN q \/ i = e
        /\ \A i \in DOMAIN q : r[i] = q[i] /\ i \in DOMAIN r /\ i < e /\ ~(e < i) /\ i # e
        /\ ~(e < e)
    <2>1. PICK k \in Nat : k = Len(q)
      BY <1>1
    <2>2. DOMAIN r = 1 .. k + 1 /\ DOMAIN q = 1 .. k /\ e = k + 1
      BY <1>1, <2>1
    <2> QED
      BY <1>1, <2>2
  <1> HIDE DEF r, e
  <1>3. \A i \in p : i \in DOMAIN q /\ i \in p1 /\ r[i] = q[i] /\ i < e /\ ~(e < i)
    BY <1>2
  <1>4. \A i \in p1 : i \in p \/ i = e
    BY <1>2 DEF r
  <1>5. e \in p1 => InOrder(x.msgs, c) /\ AllLead(Held(q, p), Elements(x.msgs), c)
    BY DEF e
  <1>6. InLine(r, p1, c)
    <2>1. ASSUME NEW i \in p1 PROVE InOrder(r[i].msgs, c)
      <3>1. CASE i \in p
        BY <1>3, <3>1 DEF InLine
      <3>2. CASE i = e
        BY <1>1, <1>5, <3>2
      <3> QED
        BY <1>4, <3>1, <3>2
    <2>2. ASSUME NEW i \in p1, NEW j \in p1, i < j
          PROVE  AllLead(Elements(r[i].msgs), Elements(r[j].msgs), c)
      <3>1. CASE i \in p /\ j \in p
        BY <1>3, <2>2, <3>1 DEF InLine
      <3>2. CASE i \in p /\ j = e
        <4>1. Elements(r[i].msgs) \subseteq Held(q, p)
          BY <1>3, <3>2 DEF Held
        <4> QED
          BY <1>1, <1>5, <3>2, <4>1 DEF AllLead
      <3>3. CASE i = e
        BY <1>2, <1>3, <1>4, <2>2, <3>3
      <3> QED
        BY <1>4, <3>1, <3>2, <3>3
    <2> QED
      BY <2>1, <2>2 DEF InLine
  <1>7. Held(r, p1) = Held(q, p) \cup (IF e \in p1 THEN Elements(x.msgs) ELSE {})
    <2>1. ASSUME NEW m \in Held(r, p1)
          PROVE  m \in Held(q, p) \cup (IF e \in p1 THEN Elements(x.msgs) ELSE {})
      <3>1. PICK i \in p1 : m \in Elements(r[i].msgs)
        BY <2>1 DEF Held
      <3>2. CASE i \in p
        BY <1>3, <3>1, <3>2 DEF Held
      <3>3. CASE i = e
        BY <1>1, <3>1, <3>3
      <3> QED
        BY <1>4, <3>2, <3>3
    <2>2. ASSUME NEW m \in Held(q, p) PROVE m \in Held(r, p1)
      <3>1. PICK i \in p : m \in Elements(q[i].msgs)
        BY <2>2 DEF Held
      <3> QED
        BY <1>3, <3>1 DEF Held
    <2>3. e \in p1 => Elements(x.msgs) \subseteq Held(r, p1)
      BY <1>1 DEF Held
    <2> QED
      BY <2>1, <2>2, <2>3
  <1> QED
    BY <1>6, <1>7 DEF r, e

(* The first one leaves; its messages were ahead of the rest.              *)
LEMMA LineTail ==
    ASSUME NEW S, NEW q \in Seq(S), q # <<>>, NEW c, NEW p, NEW p1,
           p \subseteq DOMAIN q, p1 \subseteq DOMAIN Tail(q),
           \A i \in DOMAIN Tail(q) : i \in p1 <=> i + 1 \in p,
           InLine(q, p, c)
    PROVE  /\ InLine(Tail(q), p1, c)
           /\ 1 \notin p => Held(q, p) = Held(Tail(q), p1)
           /\ 1 \in p => /\ Held(q, p) = Held(Tail(q), p1) \cup Elements(Head(q).msgs)
                         /\ InOrder(Head(q).msgs, c)
                         /\ AllLead(Elements(Head(q).msgs), Held(Tail(q), p1), c)
  <1> DEFINE r == Tail(q)
             x == Head(q)
  <1>1. /\ 1 \in DOMAIN q /\ x = q[1]
        /\ \A i \in DOMAIN r : i + 1 \in DOMAIN q /\ 1 < i + 1 /\ r[i] = q[i + 1]
        /\ \A i \in DOMAIN r, j \in DOMAIN r : i < j => i + 1 < j + 1
    OBVIOUS
  <1>2. \A i \in DOMAIN q : i # 1 => /\ i - 1 \in DOMAIN r /\ r[i - 1] = q[i]
                                     /\ (i - 1) + 1 = i
    BY MovesUp
  <1> HIDE DEF r, x
  <1>3. \A i \in p1 : i \in DOMAIN r /\ i + 1 \in p /\ r[i] = q[i + 1] /\ 1 < i + 1
    BY <1>1 DEF r
  <1>4. \A i \in p : i # 1 => i - 1 \in p1 /\ r[i - 1] = q[i]
    BY <1>2 DEF r
  <1>5. InLine(r, p1, c)
    <2>1. ASSUME NEW i \in p1 PROVE InOrder(r[i].msgs, c)
      BY <1>3 DEF InLine
    <2>2. ASSUME NEW i \in p1, NEW j \in p1, i < j
          PROVE  AllLead(Elements(r[i].msgs), Elements(r[j].msgs), c)
      BY <1>1, <1>3, <2>2 DEF InLine
    <2> QED
      BY <2>1, <2>2 DEF InLine
  <1>6. Held(r, p1) \subseteq Held(q, p)
    <2> SUFFICES ASSUME NEW m \in Held(r, p1) PROVE m \in Held(q, p)
      OBVIOUS
    <2>1. PICK i \in p1 : m \in Elements(r[i].msgs)
      BY DEF Held
    <2> QED
      BY <1>3, <2>1 DEF Held
  <1>7. ASSUME NEW m \in Held(q, p)
        PROVE  m \in Held(r, p1) \/ (1 \in p /\ m \in Elements(x.msgs))
    <2>1. PICK i \in p : m \in Elements(q[i].msgs)
      BY <1>7 DEF Held
    <2>2. CASE i = 1
      BY <1>1, <2>1, <2>2
    <2>3. CASE i # 1
      <3>1. i - 1 \in p1 /\ m \in Elements(r[i - 1].msgs)
        BY <1>4, <2>1, <2>3
      <3> QED
        BY <3>1 DEF Held
    <2> QED
      BY <2>2, <2>3
  <1>8. ASSUME 1 \in p
        PROVE  /\ Elements(x.msgs) \subseteq Held(q, p)
               /\ InOrder(x.msgs, c)
               /\ AllLead(Elements(x.msgs), Held(r, p1), c)
    <2>1. Elements(x.msgs) \subseteq Held(q, p) /\ InOrder(x.msgs, c)
      BY <1>1, <1>8 DEF Held, InLine
    <2>2. ASSUME NEW a \in Elements(x.msgs), NEW m \in Held(r, p1)
          PROVE  MayLead(a, m, c)
      <3>1. PICK i \in p1 : m \in Elements(r[i].msgs)
        BY <2>2 DEF Held
      <3>2. i + 1 \in p /\ 1 < i + 1 /\ m \in Elements(q[i + 1].msgs)
        BY <1>3, <3>1
      <3>3. AllLead(Elements(q[1].msgs), Elements(q[i + 1].msgs), c)
        BY <1>8, <3>2 DEF InLine
      <3> QED
        BY <1>1, <2>2, <3>2, <3>3 DEF AllLead
    <2> QED
      BY <2>1, <2>2 DEF AllLead
  <1>9. 1 \notin p => Held(q, p) = Held(r, p1)
    BY <1>6, <1>7
  <1>10. 1 \in p => Held(q, p) = Held(r, p1) \cup Elements(x.msgs)
    BY <1>6, <1>7, <1>8
  <1> QED
    BY <1>5, <1>8, <1>9, <1>10 DEF r, x

LEMMA OrderConcat ==
    ASSUME NEW p \in Seq(Nat), NEW q \in Seq(Nat), NEW c,
           InOrder(p, c), InOrder(q, c), AllLead(Elements(p), Elements(q), c)
    PROVE  InOrder(p \o q, c)
  <1> DEFINE r == p \o q
  <1>1. PICK k \in Nat, n \in Nat :
           /\ k = Len(p) /\ DOMAIN p = 1 .. k /\ n = Len(q) /\ DOMAIN q = 1 .. n
           /\ DOMAIN r = 1 .. k + n
           /\ \A i \in 1 .. k + n : r[i] = IF i <= k THEN p[i] ELSE q[i - k]
    BY LenProperties, ConcatProperties
  <1> HIDE DEF r
  <1>2. \A i \in DOMAIN r :
           \/ i \in DOMAIN p /\ r[i] = p[i] /\ i <= k
           \/ i - k \in DOMAIN q /\ r[i] = q[i - k] /\ i > k
    <2> SUFFICES ASSUME NEW i \in 1 .. k + n
                 PROVE  \/ i \in DOMAIN p /\ r[i] = p[i] /\ i <= k
                        \/ i - k \in DOMAIN q /\ r[i] = q[i - k] /\ i > k
      BY <1>1
    <2>1. CASE i <= k
      BY <1>1, <2>1
    <2>2. CASE ~(i <= k)
      <3>1. i - k \in 1 .. n /\ i > k
        BY <2>2
      <3> QED
        BY <1>1, <2>2, <3>1
    <2> QED
      BY <2>1, <2>2
  <1>3. \A i \in DOMAIN r, j \in DOMAIN r :
           i < j => i - k < j - k /\ ~(i > k /\ j <= k)
    BY <1>1
  <1> SUFFICES ASSUME NEW i \in DOMAIN r, NEW j \in DOMAIN r, i < j
               PROVE  MayLead(r[i], r[j], c)
    BY DEF InOrder, r
  <1>4. CASE i \in DOMAIN p /\ r[i] = p[i] /\ j \in DOMAIN p /\ r[j] = p[j]
    BY <1>4 DEF InOrder
  <1>5. CASE i \in DOMAIN p /\ r[i] = p[i] /\ j - k \in DOMAIN q /\ r[j] = q[j - k]
    BY <1>5 DEF AllLead, Elements
  <1>6. CASE i - k \in DOMAIN q /\ r[i] = q[i - k] /\ j - k \in DOMAIN q /\ r[j] = q[j - k]
    <2>1. i - k < j - k
      BY <1>3
    <2> QED
      BY <1>6, <2>1 DEF InOrder
  <1> QED
    BY <1>2, <1>3, <1>4, <1>5, <1>6

(* The commands of one kind in a pipe, the replies of one kind: one is     *)
(* written, or the first one is taken.                                     *)
LEMMA WithAppend ==
    ASSUME NEW S, NEW q \in Seq(S), NEW x \in S, NEW op, NEW c,
           InLine(q, With(q, op), c),
           x.op = op => /\ InOrder(x.msgs, c)
                        /\ AllLead(Held(q, With(q, op)), Elements(x.msgs), c)
    PROVE  /\ InLine(Append(q, x), With(Append(q, x), op), c)
           /\ x.op = op => Held(Append(q, x), With(Append(q, x), op))
                              = Held(q, With(q, op)) \cup Elements(x.msgs)
           /\ x.op # op => Held(Append(q, x), With(Append(q, x), op)) = Held(q, With(q, op))
  <1> DEFINE p == With(q, op)
             p1 == With(Append(q, x), op)
  <1>1. /\ Len(q) + 1 \in DOMAIN Append(q, x) /\ Append(q, x)[Len(q) + 1] = x
        /\ \A i \in DOMAIN q : i \in DOMAIN Append(q, x) /\ Append(q, x)[i] = q[i]
    OBVIOUS
  <1>2. /\ p \subseteq DOMAIN q /\ p1 \subseteq DOMAIN Append(q, x)
        /\ \A i \in DOMAIN q : i \in p1 <=> i \in p
        /\ Len(q) + 1 \in p1 <=> x.op = op
    BY <1>1 DEF With
  <1>3. InLine(q, p, c)
    OBVIOUS
  <1>4. Len(q) + 1 \in p1 => InOrder(x.msgs, c) /\ AllLead(Held(q, p), Elements(x.msgs), c)
    BY <1>2
  <1> HIDE DEF p, p1
  <1>5. /\ InLine(Append(q, x), p1, c)
        /\ Held(Append(q, x), p1)
              = Held(q, p) \cup (IF Len(q) + 1 \in p1 THEN Elements(x.msgs) ELSE {})
    BY <1>2, <1>3, <1>4, LineAppend
  <1> QED
    BY <1>2, <1>5 DEF p, p1

LEMMA WithTail ==
    ASSUME NEW S, NEW q \in Seq(S), q # <<>>, NEW op, NEW c, InLine(q, With(q, op), c)
    PROVE  /\ InLine(Tail(q), With(Tail(q), op), c)
           /\ Head(q).op # op => Held(q, With(q, op)) = Held(Tail(q), With(Tail(q), op))
           /\ Head(q).op = op =>
                 /\ Held(q, With(q, op))
                       = Held(Tail(q), With(Tail(q), op)) \cup Elements(Head(q).msgs)
                 /\ InOrder(Head(q).msgs, c)
                 /\ AllLead(Elements(Head(q).msgs), Held(Tail(q), With(Tail(q), op)), c)
  <1> DEFINE p == With(q, op)
             p1 == With(Tail(q), op)
  <1>1. /\ 1 \in DOMAIN q /\ Head(q) = q[1]
        /\ \A i \in DOMAIN Tail(q) : i + 1 \in DOMAIN q /\ Tail(q)[i] = q[i + 1]
    OBVIOUS
  <1>2. /\ p \subseteq DOMAIN q /\ p1 \subseteq DOMAIN Tail(q)
        /\ \A i \in DOMAIN Tail(q) : i \in p1 <=> i + 1 \in p
        /\ 1 \in p <=> Head(q).op = op
    BY <1>1 DEF With
  <1>3. InLine(q, p, c)
    OBVIOUS
  <1> HIDE DEF p, p1
  <1>4. /\ InLine(Tail(q), p1, c)
        /\ 1 \notin p => Held(q, p) = Held(Tail(q), p1)
        /\ 1 \in p => /\ Held(q, p) = Held(Tail(q), p1) \cup Elements(Head(q).msgs)
                      /\ InOrder(Head(q).msgs, c)
                      /\ AllLead(Elements(Head(q).msgs), Held(Tail(q), p1), c)
    BY <1>2, <1>3, LineTail
  <1> QED
    BY <1>2, <1>4 DEF p, p1

(* The batches of one sender in the list: one joins, the oldest is taken,  *)
(* the oldest k are cut off.                                               *)
LEMMA FromAppend ==
    ASSUME NEW S, NEW b \in Seq(S), NEW x \in S, NEW s, NEW c,
           InLine(b, From(b, s), c),
           x.from = s => /\ InOrder(x.msgs, c)
                         /\ AllLead(Held(b, From(b, s)), Elements(x.msgs), c)
    PROVE  /\ InLine(Append(b, x), From(Append(b, x), s), c)
           /\ x.from = s => Held(Append(b, x), From(Append(b, x), s))
                                = Held(b, From(b, s)) \cup Elements(x.msgs)
           /\ x.from # s => Held(Append(b, x), From(Append(b, x), s)) = Held(b, From(b, s))
  <1> DEFINE p == From(b, s)
             p1 == From(Append(b, x), s)
  <1>1. /\ Len(b) + 1 \in DOMAIN Append(b, x) /\ Append(b, x)[Len(b) + 1] = x
        /\ \A i \in DOMAIN b : i \in DOMAIN Append(b, x) /\ Append(b, x)[i] = b[i]
    OBVIOUS
  <1>2. /\ p \subseteq DOMAIN b /\ p1 \subseteq DOMAIN Append(b, x)
        /\ \A i \in DOMAIN b : i \in p1 <=> i \in p
        /\ Len(b) + 1 \in p1 <=> x.from = s
    BY <1>1 DEF From
  <1>3. InLine(b, p, c)
    OBVIOUS
  <1>4. Len(b) + 1 \in p1 => InOrder(x.msgs, c) /\ AllLead(Held(b, p), Elements(x.msgs), c)
    BY <1>2
  <1> HIDE DEF p, p1
  <1>5. /\ InLine(Append(b, x), p1, c)
        /\ Held(Append(b, x), p1)
              = Held(b, p) \cup (IF Len(b) + 1 \in p1 THEN Elements(x.msgs) ELSE {})
    BY <1>2, <1>3, <1>4, LineAppend
  <1> QED
    BY <1>2, <1>5 DEF p, p1

LEMMA FromTail ==
    ASSUME NEW S, NEW b \in Seq(S), b # <<>>, NEW s, NEW c, InLine(b, From(b, s), c)
    PROVE  /\ InLine(Tail(b), From(Tail(b), s), c)
           /\ Head(b).from # s => Held(b, From(b, s)) = Held(Tail(b), From(Tail(b), s))
           /\ Head(b).from = s =>
                 /\ Held(b, From(b, s))
                       = Held(Tail(b), From(Tail(b), s)) \cup Elements(Head(b).msgs)
                 /\ InOrder(Head(b).msgs, c)
                 /\ AllLead(Elements(Head(b).msgs), Held(Tail(b), From(Tail(b), s)), c)
  <1> DEFINE p == From(b, s)
             p1 == From(Tail(b), s)
  <1>1. /\ 1 \in DOMAIN b /\ Head(b) = b[1]
        /\ \A i \in DOMAIN Tail(b) : i + 1 \in DOMAIN b /\ Tail(b)[i] = b[i + 1]
    OBVIOUS
  <1>2. /\ p \subseteq DOMAIN b /\ p1 \subseteq DOMAIN Tail(b)
        /\ \A i \in DOMAIN Tail(b) : i \in p1 <=> i + 1 \in p
        /\ 1 \in p <=> Head(b).from = s
    BY <1>1 DEF From
  <1>3. InLine(b, p, c)
    OBVIOUS
  <1> HIDE DEF p, p1
  <1>4. /\ InLine(Tail(b), p1, c)
        /\ 1 \notin p => Held(b, p) = Held(Tail(b), p1)
        /\ 1 \in p => /\ Held(b, p) = Held(Tail(b), p1) \cup Elements(Head(b).msgs)
                      /\ InOrder(Head(b).msgs, c)
                      /\ AllLead(Elements(Head(b).msgs), Held(Tail(b), p1), c)
    BY <1>2, <1>3, LineTail
  <1> QED
    BY <1>2, <1>4 DEF p, p1

LEMMA FromCut ==
    ASSUME NEW S, NEW b \in Seq(S), NEW k \in 0 .. Len(b), NEW s, NEW c,
           InLine(b, From(b, s), c)
    PROVE  LET back == SubSeq(b, k + 1, Len(b))
           IN  InLine(back, From(back, s), c)
               /\ Held(back, From(back, s)) \subseteq Held(b, From(b, s))
  <1> DEFINE back == SubSeq(b, k + 1, Len(b))
  <1>1. \A i \in DOMAIN back : i + k \in DOMAIN b /\ back[i] = b[i + k]
    <2>1. \A i \in k + 1 .. Len(b) : b[i] \in S
      BY ElementOfSeq
    <2>2. PICK n \in Nat : n = Len(b)
      BY LenProperties
    <2>3. /\ back \in Seq(S) /\ Len(back) = IF k + 1 <= n THEN n - (k + 1) + 1 ELSE 0
          /\ \A i \in 1 .. n - (k + 1) + 1 : back[i] = b[k + 1 + i - 1]
      BY <2>1, <2>2, SubSeqProperties
    <2>4. DOMAIN back = 1 .. Len(back) /\ DOMAIN b = 1 .. n
      BY <2>2, <2>3, LenProperties
    <2> HIDE DEF back
    <2>5. ASSUME NEW i \in DOMAIN back PROVE i + k \in DOMAIN b /\ back[i] = b[i + k]
      <3>1. k \in Nat /\ k <= n
        BY <2>2
      <3>2. i \in 1 .. n - (k + 1) + 1
        BY <2>3, <2>4, <3>1
      <3>3. i + k \in 1 .. n /\ k + 1 + i - 1 = i + k
        BY <3>1, <3>2
      <3> QED
        BY <2>3, <2>4, <3>2, <3>3
    <2> QED
      BY <2>5
  <1>2. \A i \in DOMAIN back, j \in DOMAIN back : i < j => i + k < j + k
    <2>1. back \in Seq(S)
      BY ElementOfSeq, SubSeqProperties
    <2>2. DOMAIN back = 1 .. Len(back) /\ Len(back) \in Nat /\ k \in Nat
      BY <2>1, LenProperties
    <2> HIDE DEF back
    <2> QED
      BY <2>2
  <1> HIDE DEF back
  <1>3. \A i \in From(back, s) :
           i \in DOMAIN back /\ i + k \in From(b, s) /\ back[i] = b[i + k]
    BY <1>1 DEF From
  <1>4. InLine(back, From(back, s), c)
    <2>1. ASSUME NEW i \in From(back, s) PROVE InOrder(back[i].msgs, c)
      BY <1>3 DEF InLine
    <2>2. ASSUME NEW i \in From(back, s), NEW j \in From(back, s), i < j
          PROVE  AllLead(Elements(back[i].msgs), Elements(back[j].msgs), c)
      BY <1>2, <1>3, <2>2 DEF InLine
    <2> QED
      BY <2>1, <2>2 DEF InLine
  <1>5. Held(back, From(back, s)) \subseteq Held(b, From(b, s))
    <2> SUFFICES ASSUME NEW m \in Held(back, From(back, s)) PROVE m \in Held(b, From(b, s))
      OBVIOUS
    <2>1. PICK i \in From(back, s) : m \in Elements(back[i].msgs)
      BY DEF Held
    <2> QED
      BY <1>3, <2>1 DEF Held
  <1> QED
    BY <1>4, <1>5 DEF back

(* A batch leaves the queue of its sender: it is pushed, or it waits for a *)
(* length check.                                                           *)
LEMMA OrderlyBatch ==
    ASSUME NEW s, NEW d, NEW b, NEW p \in Seq(Commands), NEW r, NEW c, NEW n \in Nat,
           Orderly(s, d, b, p, r, c, n), NEW q \in Seq(Nat), Follows(q, n)
    PROVE  /\ Orderly(s, d, b, Append(p, Command("push", q)), r, c, n + Len(q))
           /\ Orderly(s, d, b, Append(p, Command("len", q)), r, c \cup Elements(q),
                      n + Len(q))
  <1> DEFINE v == Elements(d)
             w == Held(b, From(b, s))
             x == Held(p, With(p, "push"))
             y == Held(r, With(r, "len"))
             z == Held(p, With(p, "len"))
             h == Elements(q)
             push == Command("push", q)
             len == Command("len", q)
  <1>1. /\ push \in Commands /\ push.op = "push" /\ push.msgs = q
        /\ len \in Commands /\ len.op = "len" /\ len.msgs = q
    BY CommandType DEF Command
  <1>2. PICK k \in Nat : k = Len(q) /\ DOMAIN q = 1 .. k
    BY LenProperties
  <1>3. \A m \in h : m \in n + 1 .. n + k
    BY <1>2 DEF Elements, Follows
  <1>4. \A e : InOrder(q, e)
    <2>1. ASSUME NEW i \in DOMAIN q, NEW j \in DOMAIN q, i < j
          PROVE  ~(q[i] > q[j])
      <3>1. i \in Nat /\ j \in Nat /\ q[i] = n + i /\ q[j] = n + j
        BY <1>2 DEF Follows
      <3> QED
        BY <2>1, <3>1
    <2> QED
      BY <2>1 DEF InOrder, MayLead
  <1>5. Stages(v, w, x, y, z, c, n)
    BY DEF Orderly
  <1> HIDE DEF push, len
  <1>6. v \cup w \cup x \cup y \cup z \cup c \subseteq 1 .. n /\ y \cup z \subseteq c
    BY <1>5 DEF Stages
  <1>7. \A m \in 1 .. n : m \notin h
    BY <1>3
  <1>8. AllLead(x, h, c) /\ AllLead(z, h, c \cup h)
    <2>1. \A m \in 1 .. n : \A o \in h : ~(m > o)
      BY <1>3
    <2> QED
      BY <1>6, <2>1 DEF AllLead, MayLead
  <1>9. Stages(v, w, x \cup h, y, z, c, n + k) /\ Stages(v, w, x, y, z \cup h, c \cup h, n + k)
    <2> HIDE DEF v, w, x, y, z, h
    <2> QED
      BY <1>3, <1>5, StagesNew
  <1>10. Orderly(s, d, b, Append(p, push), r, c, n + k)
    <2> DEFINE p1 == Append(p, push)
    <2>1. InLine(p1, With(p1, "push"), c) /\ Held(p1, With(p1, "push")) = x \cup h
      BY <1>1, <1>4, <1>8, WithAppend DEF Orderly
    <2>2. InLine(p1, With(p1, "len"), c) /\ Held(p1, With(p1, "len")) = z
      BY <1>1, WithAppend DEF Orderly
    <2> QED
      BY <1>9, <2>1, <2>2 DEF Orderly
  <1>11. Orderly(s, d, b, Append(p, len), r, c \cup h, n + k)
    <2> DEFINE p1 == Append(p, len)
               e == c \cup h
    <2>1. v \cap h = {} /\ w \cap h = {} /\ x \cap h = {} /\ y \cap h = {} /\ z \cap h = {}
      BY <1>6, <1>7
    <2>2. /\ InOrder(d, e)
          /\ InLine(b, From(b, s), e)
          /\ InLine(p, With(p, "push"), e)
          /\ InLine(r, With(r, "len"), e)
          /\ InLine(p, With(p, "len"), e)
      BY <2>1, OrderUnderChecks DEF Orderly
    <2> HIDE DEF e
    <2>3. InLine(p1, With(p1, "push"), e) /\ Held(p1, With(p1, "push")) = x
      BY <1>1, <2>2, WithAppend
    <2>4. AllLead(z, h, e)
      BY <1>8 DEF e
    <2>5. InLine(p1, With(p1, "len"), e) /\ Held(p1, With(p1, "len")) = z \cup h
      BY <1>1, <1>4, <2>2, <2>4, WithAppend
    <2>6. Stages(v, w, x, y, z \cup h, e, n + k)
      BY <1>9 DEF e
    <2>7. Orderly(s, d, b, p1, r, e, n + k)
      BY <2>2, <2>3, <2>5, <2>6 DEF Orderly
    <2> QED
      BY <2>7 DEF e
  <1> QED
    BY <1>2, <1>10, <1>11 DEF push, len

(* A command without messages is written; a reply without messages comes.  *)
LEMMA OrderlyCommand ==
    ASSUME NEW s, NEW d, NEW b, NEW p \in Seq(Commands), NEW r, NEW c, NEW n,
           Orderly(s, d, b, p, r, c, n), NEW x \in Commands, x.op \notin {"len", "push"}
    PROVE  Orderly(s, d, b, Append(p, x), r, c, n)
  <1> DEFINE p1 == Append(p, x)
  <1>1. /\ InLine(p1, With(p1, "push"), c)
        /\ Held(p1, With(p1, "push")) = Held(p, With(p, "push"))
    BY WithAppend DEF Orderly
  <1>2. /\ InLine(p1, With(p1, "len"), c)
        /\ Held(p1, With(p1, "len")) = Held(p, With(p, "len"))
    BY WithAppend DEF Orderly
  <1> QED
    BY <1>1, <1>2 DEF Orderly

LEMMA OrderlyReply ==
    ASSUME NEW s, NEW d, NEW b, NEW p, NEW r \in Seq(Replies), NEW c, NEW n,
           Orderly(s, d, b, p, r, c, n), NEW x \in Replies, x.op # "len"
    PROVE  Orderly(s, d, b, p, Append(r, x), c, n)
  <1> DEFINE r1 == Append(r, x)
  <1>1. /\ InLine(r1, With(r1, "len"), c)
        /\ Held(r1, With(r1, "len")) = Held(r, With(r, "len"))
    BY WithAppend DEF Orderly
  <1> QED
    BY <1>1 DEF Orderly

(* A reply is handled: the batch that waited for it is given up, or it is  *)
(* pushed now.                                                             *)
LEMMA OrderlyAnswer ==
    ASSUME NEW s, NEW d, NEW b, NEW p \in Seq(Commands), NEW r \in Seq(Replies), NEW c,
           NEW n, Orderly(s, d, b, p, r, c, n), r # <<>>
    PROVE  /\ Orderly(s, d, b, p, Tail(r), c, n)
           /\ Head(r).op = "len" =>
                 Orderly(s, d, b, Append(p, Command("push", Head(r).msgs)), Tail(r), c, n)
  <1> DEFINE v == Elements(d)
             w == Held(b, From(b, s))
             x == Held(p, With(p, "push"))
             y == Held(r, With(r, "len"))
             z == Held(p, With(p, "len"))
             y1 == Held(Tail(r), With(Tail(r), "len"))
             h == Elements(Head(r).msgs)
  <1>1. Stages(v, w, x, y, z, c, n)
    BY DEF Orderly
  <1>2. /\ InLine(Tail(r), With(Tail(r), "len"), c)
        /\ Head(r).op # "len" => y = y1
        /\ Head(r).op = "len" => y = y1 \cup h /\ InOrder(Head(r).msgs, c) /\ AllLead(h, y1, c)
    BY WithTail DEF Orderly
  <1>3. Orderly(s, d, b, p, Tail(r), c, n)
    <2>1. Stages(v, w, x, y1, z, c, n)
      <3>1. y1 \subseteq y
        BY <1>2
      <3> HIDE DEF v, w, x, y, z, y1
      <3> QED
        BY <1>1, <3>1, StagesShrink
    <2> QED
      BY <1>2, <2>1 DEF Orderly
  <1>4. ASSUME Head(r).op = "len"
        PROVE  Orderly(s, d, b, Append(p, Command("push", Head(r).msgs)), Tail(r), c, n)
    <2> DEFINE push == Command("push", Head(r).msgs)
               p1 == Append(p, push)
    <2>1. push \in Commands /\ push.op = "push" /\ push.msgs = Head(r).msgs
      <3>1. Head(r) \in Replies
        OBVIOUS
      <3>2. Head(r).msgs \in Seq(Nat)
        BY <3>1 DEF Replies
      <3> QED
        BY <3>2, CommandType DEF Command
    <2> HIDE DEF push
    <2>2. Stages(v, w, x \cup h, y1, z, c, n) /\ AllLead(x, h, c)
      <3>1. Stages(v, w, x, y1 \cup h, z, c, n) /\ AllLead(h, y1, c)
        BY <1>1, <1>2, <1>4
      <3> HIDE DEF v, w, x, y, z, y1, h
      <3>2. Stages(v, w, x \cup h, y1, z, c, n)
        BY <3>1, StagesMove
      <3>3. AllLead(x, h, c)
        BY <3>1 DEF Stages, AllLead
      <3> QED
        BY <3>2, <3>3
    <2>3. InLine(p1, With(p1, "push"), c) /\ Held(p1, With(p1, "push")) = x \cup h
      BY <1>2, <1>4, <2>1, <2>2, WithAppend DEF Orderly
    <2>4. InLine(p1, With(p1, "len"), c) /\ Held(p1, With(p1, "len")) = z
      BY <2>1, WithAppend DEF Orderly
    <2>5. Orderly(s, d, b, p1, Tail(r), c, n)
      BY <1>2, <2>2, <2>3, <2>4 DEF Orderly
    <2> QED
      BY <2>5 DEF push
  <1> QED
    BY <1>3, <1>4

(* Redis takes a command of the sender: the batch waits for the reply to   *)
(* it (x), or joins the list (y).                                          *)
LEMMA OrderlyTaken ==
    ASSUME NEW s, NEW d, NEW b \in Seq(Batches), NEW p \in Seq(Commands),
           NEW r \in Seq(Replies), NEW c, NEW n, Orderly(s, d, b, p, r, c, n), p # <<>>
    PROVE  /\ Orderly(s, d, b, Tail(p), r, c, n)
           /\ \A x \in Replies :
                 x.op = "len" /\ Head(p).op = "len" /\ x.msgs = Head(p).msgs =>
                    Orderly(s, d, b, Tail(p), Append(r, x), c, n)
           /\ \A y \in Batches :
                 y.from = s /\ Head(p).op = "push" /\ y.msgs = Head(p).msgs =>
                    Orderly(s, d, Append(b, y), Tail(p), r, c, n)
  <1> DEFINE v == Elements(d)
             w == Held(b, From(b, s))
             x == Held(p, With(p, "push"))
             y == Held(r, With(r, "len"))
             z == Held(p, With(p, "len"))
             x1 == Held(Tail(p), With(Tail(p), "push"))
             z1 == Held(Tail(p), With(Tail(p), "len"))
             h == Elements(Head(p).msgs)
  <1>1. Stages(v, w, x, y, z, c, n)
    BY DEF Orderly
  <1>2. /\ InLine(Tail(p), With(Tail(p), "push"), c)
        /\ Head(p).op # "push" => x = x1
        /\ Head(p).op = "push" => x = x1 \cup h /\ InOrder(Head(p).msgs, c) /\ AllLead(h, x1, c)
    BY WithTail DEF Orderly
  <1>3. /\ InLine(Tail(p), With(Tail(p), "len"), c)
        /\ Head(p).op # "len" => z = z1
        /\ Head(p).op = "len" => z = z1 \cup h /\ InOrder(Head(p).msgs, c) /\ AllLead(h, z1, c)
    BY WithTail DEF Orderly
  <1>4. Orderly(s, d, b, Tail(p), r, c, n)
    <2>1. Stages(v, w, x1, y, z1, c, n)
      <3>1. x1 \subseteq x /\ z1 \subseteq z
        BY <1>2, <1>3
      <3> HIDE DEF v, w, x, y, z, x1, z1
      <3> QED
        BY <1>1, <3>1, StagesShrink
    <2> QED
      BY <1>2, <1>3, <2>1 DEF Orderly
  <1>5. ASSUME NEW reply \in Replies, reply.op = "len", Head(p).op = "len",
               reply.msgs = Head(p).msgs
        PROVE  Orderly(s, d, b, Tail(p), Append(r, reply), c, n)
    <2> DEFINE r1 == Append(r, reply)
    <2>1. Stages(v, w, x1, y \cup h, z1, c, n) /\ AllLead(y, h, c)
      <3>1. Stages(v, w, x1, y, z1 \cup h, c, n) /\ AllLead(h, z1, c)
        BY <1>1, <1>2, <1>3, <1>5
      <3> HIDE DEF v, w, x, y, z, x1, z1, h
      <3>2. Stages(v, w, x1, y \cup h, z1, c, n)
        BY <3>1, StagesMove
      <3>3. AllLead(y, h, c)
        BY <3>1 DEF Stages, AllLead
      <3> QED
        BY <3>2, <3>3
    <2>2. InLine(r1, With(r1, "len"), c) /\ Held(r1, With(r1, "len")) = y \cup h
      BY <1>3, <1>5, <2>1, WithAppend DEF Orderly
    <2> QED
      BY <1>2, <1>3, <2>1, <2>2 DEF Orderly
  <1>6. ASSUME NEW batch \in Batches, batch.from = s, Head(p).op = "push",
               batch.msgs = Head(p).msgs
        PROVE  Orderly(s, d, Append(b, batch), Tail(p), r, c, n)
    <2> DEFINE b1 == Append(b, batch)
    <2>1. Stages(v, w \cup h, x1, y, z1, c, n) /\ AllLead(w, h, c)
      <3>1. Stages(v, w, x1 \cup h, y, z1, c, n) /\ AllLead(h, x1, c)
        BY <1>1, <1>2, <1>3, <1>6
      <3> HIDE DEF v, w, x, y, z, x1, z1, h
      <3>2. Stages(v, w \cup h, x1, y, z1, c, n)
        BY <3>1, StagesMove
      <3>3. AllLead(w, h, c)
        BY <3>1 DEF Stages, AllLead
      <3> QED
        BY <3>2, <3>3
    <2>2. InLine(b1, From(b1, s), c) /\ Held(b1, From(b1, s)) = w \cup h
      BY <1>2, <1>6, <2>1, FromAppend DEF Orderly
    <2> QED
      BY <1>2, <1>3, <2>1, <2>2 DEF Orderly
  <1> QED
    BY <1>4, <1>5, <1>6

(* The list changes: another sender's batch joins, old batches are cut     *)
(* off, all are, or the receiver takes the oldest.                         *)
LEMMA OrderlyList ==
    ASSUME NEW s, NEW d \in Seq(Nat), NEW b \in Seq(Batches), NEW p, NEW r, NEW c, NEW n,
           Orderly(s, d, b, p, r, c, n)
    PROVE  /\ \A y \in Batches : y.from # s => Orderly(s, d, Append(b, y), p, r, c, n)
           /\ \A k \in 0 .. Len(b) : Orderly(s, d, SubSeq(b, k + 1, Len(b)), p, r, c, n)
           /\ Orderly(s, d, <<>>, p, r, c, n)
           /\ b # <<>> /\ Head(b).from = s =>
                 Orderly(s, d \o Head(b).msgs, Tail(b), p, r, c, n)
           /\ b # <<>> /\ Head(b).from # s => Orderly(s, d, Tail(b), p, r, c, n)
  <1> DEFINE v == Elements(d)
             w == Held(b, From(b, s))
             x == Held(p, With(p, "push"))
             y == Held(r, With(r, "len"))
             z == Held(p, With(p, "len"))
  <1>1. Stages(v, w, x, y, z, c, n)
    BY DEF Orderly
  <1>2. ASSUME NEW b1, InLine(b1, From(b1, s), c), Held(b1, From(b1, s)) \subseteq w
        PROVE  Orderly(s, d, b1, p, r, c, n)
    <2> DEFINE w1 == Held(b1, From(b1, s))
    <2>1. Stages(v, w1, x, y, z, c, n)
      <3>1. w1 \subseteq w
        BY <1>2
      <3> HIDE DEF v, w, x, y, z, w1
      <3> QED
        BY <1>1, <3>1, StagesShrink
    <2> QED
      BY <1>2, <2>1 DEF Orderly
  <1>3. ASSUME NEW batch \in Batches, batch.from # s
        PROVE  Orderly(s, d, Append(b, batch), p, r, c, n)
    <2> DEFINE b1 == Append(b, batch)
    <2>1. InLine(b1, From(b1, s), c) /\ Held(b1, From(b1, s)) = w
      BY <1>3, FromAppend DEF Orderly
    <2> QED
      BY <1>2, <2>1
  <1>4. ASSUME NEW k \in 0 .. Len(b)
        PROVE  Orderly(s, d, SubSeq(b, k + 1, Len(b)), p, r, c, n)
    <2> DEFINE b1 == SubSeq(b, k + 1, Len(b))
    <2>1. InLine(b1, From(b1, s), c) /\ Held(b1, From(b1, s)) \subseteq w
      BY FromCut DEF Orderly
    <2> HIDE DEF b1
    <2>2. Orderly(s, d, b1, p, r, c, n)
      BY <1>2, <2>1
    <2> QED
      BY <2>2 DEF b1
  <1>5. Orderly(s, d, <<>>, p, r, c, n)
    <2>1. From(<<>>, s) = {}
      BY DEF From
    <2>2. InLine(<<>>, From(<<>>, s), c) /\ Held(<<>>, From(<<>>, s)) = {}
      BY <2>1 DEF InLine, Held
    <2> QED
      BY <1>2, <2>2
  <1>6. ASSUME b # <<>>, Head(b).from # s PROVE Orderly(s, d, Tail(b), p, r, c, n)
    <2>1. InLine(Tail(b), From(Tail(b), s), c) /\ Held(Tail(b), From(Tail(b), s)) = w
      BY <1>6, FromTail DEF Orderly
    <2> QED
      BY <1>2, <2>1
  <1>7. ASSUME b # <<>>, Head(b).from = s
        PROVE  Orderly(s, d \o Head(b).msgs, Tail(b), p, r, c, n)
    <2> DEFINE w1 == Held(Tail(b), From(Tail(b), s))
               q == Head(b).msgs
               h == Elements(q)
    <2>1. /\ InLine(Tail(b), From(Tail(b), s), c)
          /\ w = w1 \cup h /\ InOrder(q, c) /\ AllLead(h, w1, c)
      BY <1>7, FromTail DEF Orderly
    <2>2. Stages(v \cup h, w1, x, y, z, c, n) /\ AllLead(v, h, c)
      <3>1. Stages(v, w1 \cup h, x, y, z, c, n) /\ AllLead(h, w1, c)
        BY <1>1, <2>1
      <3> HIDE DEF v, w, x, y, z, w1, h
      <3>2. Stages(v \cup h, w1, x, y, z, c, n)
        BY <3>1, StagesMove
      <3>3. AllLead(v, h, c)
        BY <3>1 DEF Stages, AllLead
      <3> QED
        BY <3>2, <3>3
    <2>3. q \in Seq(Nat)
      <3>1. Head(b) \in Batches
        BY <1>7
      <3> QED
        BY <3>1 DEF Batches
    <2>4. InOrder(d \o q, c) /\ Elements(d \o q) = v \cup h
      BY <2>1, <2>2, <2>3, OrderConcat, ElementsConcat DEF Orderly
    <2> QED
      BY <2>1, <2>2, <2>4 DEF Orderly
  <1> QED
    BY <1>3, <1>4, <1>5, <1>6, <1>7

LEMMA OrderInit == Init => OrderKept
  <1> SUFFICES ASSUME Init, NEW s \in Senders PROVE SenderInOrder(s)
    BY DEF OrderKept
  <1>1. /\ sent[s] = 0 /\ eventQueue[s] = <<>> /\ delivered[s] = <<>> /\ mq = <<>>
        /\ pipe[s] = <<>> /\ replies[s] = <<>> /\ checked[s] = {}
    BY DEF Init
  <1>2. Orderly(s, <<>>, <<>>, <<>>, <<>>, {}, 0)
    <2>1. /\ Elements(<<>>) = {} /\ From(<<>>, s) = {}
          /\ With(<<>>, "push") = {} /\ With(<<>>, "len") = {} /\ Held(<<>>, {}) = {}
      BY DEF Elements, From, With, Held
    <2>2. InOrder(<<>>, {}) /\ InLine(<<>>, {}, {}) /\ Stages({}, {}, {}, {}, {}, {}, 0)
      BY DEF InOrder, InLine, Stages, AllLead
    <2> QED
      BY <2>1, <2>2 DEF Orderly
  <1>3. 0 = 0 + Len(<<>>) /\ Follows(<<>>, 0)
    BY DEF Follows
  <1> QED
    BY <1>1, <1>2, <1>3 DEF SenderInOrder

(* sendBatchReq keeps the order of its sender, whose waiting messages are  *)
(* those after n, the batch.                                               *)
LEMMA OrderSend ==
    ASSUME TypeOK, NEW s \in Senders, NEW n \in Nat, NEW q \in Seq(Nat), Follows(q, n),
           Orderly(s, delivered[s], mq, pipe[s], replies[s], checked[s], n),
           SendBatchReq(s, q)
    PROVE  Orderly(s, delivered[s], mq, pipe'[s], replies[s], checked'[s], n + Len(q))
  <1>1. pipe[s] \in Seq(Commands)
    BY DEF TypeOK
  <1>2. /\ Orderly(s, delivered[s], mq, Append(pipe[s], Command("push", q)), replies[s],
                   checked[s], n + Len(q))
        /\ Orderly(s, delivered[s], mq, Append(pipe[s], Command("len", q)), replies[s],
                   checked[s] \cup Elements(q), n + Len(q))
    BY <1>1, OrderlyBatch
  <1>3. \/ /\ pipe'[s] = Append(pipe[s], Command("len", q))
           /\ checked'[s] = checked[s] \cup Elements(q)
        \/ /\ pipe'[s] = Append(pipe[s], Command("push", q))
           /\ checked'[s] = checked[s]
    BY DEF SendBatchReq, TypeOK
  <1> QED
    BY <1>2, <1>3

(* A sender that does not take part in a step but for the list.            *)
LEMMA OrderElsewhere ==
    ASSUME NEW t \in Senders, SenderInOrder(t),
           sent'[t] = sent[t], eventQueue'[t] = eventQueue[t],
           delivered'[t] = delivered[t], pipe'[t] = pipe[t], replies'[t] = replies[t],
           checked'[t] = checked[t],
           \A n \in Nat :
              Orderly(t, delivered[t], mq, pipe[t], replies[t], checked[t], n) =>
                 Orderly(t, delivered[t], mq', pipe[t], replies[t], checked[t], n)
    PROVE  SenderInOrder(t)'
  BY DEF SenderInOrder

LEMMA OrderEnqueue ==
    ASSUME TypeOK, NEW s \in Senders, SenderInOrder(s), Enqueue(s) \/ Flush(s)
    PROVE  SenderInOrder(s)'
  <1>1. PICK n \in Nat :
           /\ sent[s] = n + Len(eventQueue[s])
           /\ Follows(eventQueue[s], n)
           /\ Orderly(s, delivered[s], mq, pipe[s], replies[s], checked[s], n)
    BY DEF SenderInOrder
  <1>2. eventQueue[s] \in Seq(Nat) /\ eventQueue \in [Senders -> Seq(Nat)]
        /\ sent \in [Senders -> Nat]
    BY DEF TypeOK
  <1>3. UNCHANGED <<mq, delivered, replies>>
    BY DEF Enqueue, Flush
  <1>4. ASSUME NEW q \in Seq(Nat), Follows(q, n), SendBatchReq(s, q),
               eventQueue'[s] = <<>>, sent'[s] = n + Len(q)
        PROVE  SenderInOrder(s)'
    <2>1. PICK k \in Nat : k = Len(q)
      BY LenProperties
    <2>2. Orderly(s, delivered[s], mq, pipe'[s], replies[s], checked'[s], n + k)
      BY <1>1, <1>4, <2>1, OrderSend
    <2>3. n + k \in Nat /\ sent'[s] = n + k /\ n + k = n + k + Len(<<>>)
          /\ Follows(<<>>, n + k)
      BY <1>4, <2>1 DEF Follows
    <2> QED
      BY <1>3, <1>4, <2>2, <2>3 DEF SenderInOrder
  <1>5. CASE Flush(s)
    BY <1>1, <1>2, <1>4, <1>5 DEF Flush
  <1>6. CASE Enqueue(s)
    <2> DEFINE q == Append(eventQueue[s], sent[s] + 1)
    <2>1. PICK k \in Nat : k = Len(eventQueue[s])
      BY <1>2, LenProperties
    <2>2. /\ q \in Seq(Nat) /\ Len(q) = k + 1 /\ DOMAIN q = 1 .. k + 1
          /\ DOMAIN eventQueue[s] = 1 .. k
          /\ \A i \in 1 .. k : q[i] = eventQueue[s][i]
          /\ q[k + 1] = sent[s] + 1
      BY <1>2, <2>1
    <2>3. sent'[s] = sent[s] + 1 /\ Put(s, q, Len(q) >= BatchSize)
      BY <1>2, <1>6 DEF Enqueue, PutLast
    <2> HIDE DEF q
    <2>4. sent'[s] = n + Len(q)
      BY <1>1, <2>1, <2>2, <2>3
    <2>5. Follows(q, n)
      <3> SUFFICES ASSUME NEW i \in 1 .. k + 1 PROVE q[i] = n + i
        BY <2>2 DEF Follows
      <3>1. CASE i = k + 1
        BY <1>1, <2>1, <2>2, <3>1
      <3>2. CASE i \in 1 .. k
        BY <1>1, <2>2, <3>2 DEF Follows
      <3> QED
        BY <3>1, <3>2
    <2>6. CASE SendBatchReq(s, q) /\ eventQueue' = [eventQueue EXCEPT ![s] = <<>>]
      BY <1>2, <1>4, <2>2, <2>4, <2>5, <2>6
    <2>7. ASSUME eventQueue' = [eventQueue EXCEPT ![s] = q], pipe' = pipe, checked' = checked
          PROVE  SenderInOrder(s)'
      <3>1. eventQueue'[s] = q
        BY <1>2, <2>7
      <3> QED
        BY <1>1, <1>3, <2>4, <2>5, <2>7, <3>1 DEF SenderInOrder
    <2> QED
      BY <2>3, <2>6, <2>7 DEF Put
  <1> QED
    BY <1>5, <1>6

LEMMA OrderHandleReply ==
    ASSUME TypeOK, NEW s \in Senders, SenderInOrder(s), HandleReply(s)
    PROVE  SenderInOrder(s)'
  <1> DEFINE r == replies[s]
             reply == Head(r)
  <1>1. /\ pipe[s] \in Seq(Commands) /\ r \in Seq(Replies)
        /\ pipe \in [Senders -> Seq(Commands)] /\ replies \in [Senders -> Seq(Replies)]
    BY DEF TypeOK
  <1>2. /\ r # <<>> /\ replies'[s] = Tail(r)
        /\ UNCHANGED <<sent, eventQueue, mq, delivered, checked>>
        /\ HandleLen(s, reply) \/ HandlePush(s, reply) \/ HandleDead(s, reply)
    BY <1>1 DEF HandleReply
  <1> HIDE DEF r
  <1>3. ASSUME NEW n \in Nat,
               Orderly(s, delivered[s], mq, pipe[s], r, checked[s], n)
        PROVE  Orderly(s, delivered[s], mq, pipe'[s], Tail(r), checked[s], n)
    <2>1. /\ Orderly(s, delivered[s], mq, pipe[s], Tail(r), checked[s], n)
          /\ reply.op = "len" =>
                Orderly(s, delivered[s], mq, Append(pipe[s], Command("push", reply.msgs)),
                        Tail(r), checked[s], n)
      BY <1>1, <1>2, <1>3, OrderlyAnswer
    <2> HIDE DEF reply
    <2>2. ASSUME NEW x \in Commands, x.op \notin {"len", "push"}
          PROVE  Orderly(s, delivered[s], mq, Append(pipe[s], x), Tail(r), checked[s], n)
      BY <1>1, <2>1, <2>2, OrderlyCommand
    <2>3. /\ Command("trim", <<>>) \in Commands /\ Command("clear", <<>>) \in Commands
          /\ Command("trim", <<>>).op = "trim" /\ Command("clear", <<>>).op = "clear"
      <3>1. <<>> \in Seq(Nat)
        OBVIOUS
      <3> QED
        BY <3>1, CommandType DEF Command
    <2>4. CASE HandleLen(s, reply)
      BY <1>1, <2>1, <2>4 DEF HandleLen
    <2>5. CASE HandlePush(s, reply)
      <3>1. pipe'[s] = pipe[s] \/ pipe'[s] = Append(pipe[s], Command("trim", <<>>))
        BY <1>1, <2>5 DEF HandlePush
      <3> QED
        BY <2>1, <2>2, <2>3, <3>1
    <2>6. CASE HandleDead(s, reply)
      <3>1. pipe'[s] = pipe[s] \/ pipe'[s] = Append(pipe[s], Command("clear", <<>>))
        BY <1>1, <2>6 DEF HandleDead
      <3> QED
        BY <2>1, <2>2, <2>3, <3>1
    <2> QED
      BY <1>2, <2>4, <2>5, <2>6
  <1> QED
    BY <1>2, <1>3 DEF SenderInOrder, r

(* Redis runs a command of s: what s and another sender t see of it.       *)
LEMMA OrderRun ==
    ASSUME TypeOK, NEW s \in Senders, Run(s), NEW t \in Senders, SenderInOrder(t)
    PROVE  SenderInOrder(t)'
  <1> DEFINE c == Head(pipe[s])
  <1>1. /\ pipe \in [Senders -> Seq(Commands)] /\ replies \in [Senders -> Seq(Replies)]
        /\ pipe[t] \in Seq(Commands) /\ replies[t] \in Seq(Replies)
        /\ mq \in Seq(Batches) /\ delivered[t] \in Seq(Nat) /\ Len(mq) \in Nat
    BY DEF TypeOK
  <1>2. /\ pipe[s] # <<>> /\ pipe' = [pipe EXCEPT ![s] = Tail(@)]
        /\ UNCHANGED <<sent, eventQueue, delivered, checked>>
        /\ RunLen(s, c) \/ RunPush(s, c) \/ RunTrim(c) \/ RunClear(c)
    BY DEF Run, nodeVars
  <1>3. c \in Commands
    BY <1>1, <1>2
  <1>4. PICK n \in Nat :
           /\ sent[t] = n + Len(eventQueue[t])
           /\ Follows(eventQueue[t], n)
           /\ Orderly(t, delivered[t], mq, pipe[t], replies[t], checked[t], n)
    BY DEF SenderInOrder
  <1>5. /\ t = s => pipe'[t] = Tail(pipe[t])
        /\ t # s => pipe'[t] = pipe[t]
    BY <1>1, <1>2
  <1>6. ASSUME NEW b, Orderly(t, delivered[t], b, pipe[t], replies[t], checked[t], n),
               b \in Seq(Batches)
        PROVE  Orderly(t, delivered[t], b, pipe'[t], replies[t], checked[t], n)
    BY <1>1, <1>2, <1>5, <1>6, OrderlyTaken
  <1>7. Orderly(t, delivered[t], mq, pipe'[t], replies[t], checked[t], n)
    BY <1>1, <1>4, <1>6
  <1>8. c = Head(pipe[s])
    OBVIOUS
  <1> HIDE DEF c
  <1>9. Orderly(t, delivered[t], mq', pipe'[t], replies'[t], checked[t], n)
    <2>1. CASE RunLen(s, c)
      <3> DEFINE x == [op |-> c.op, msgs |-> c.msgs, len |-> Len(mq)]
      <3>1. x \in Replies /\ x.op = c.op /\ x.msgs = c.msgs
        BY <1>1, <1>3, <2>1 DEF RunLen, Commands, Replies
      <3>2. mq' = mq /\ replies' = [replies EXCEPT ![s] = Append(@, x)]
        BY <2>1 DEF RunLen, Reply
      <3> HIDE DEF x
      <3>3. CASE t # s
        <4>1. replies'[t] = replies[t]
          BY <1>1, <3>2, <3>3
        <4> QED
          BY <1>7, <3>2, <4>1
      <3>4. CASE t = s
        <4>1. replies'[t] = Append(replies[t], x) /\ pipe'[t] = Tail(pipe[t])
          BY <1>1, <1>5, <3>2, <3>4
        <4>2. CASE c.op = "len"
          <5>1. Orderly(t, delivered[t], mq, Tail(pipe[t]), Append(replies[t], x),
                        checked[t], n)
            BY <1>1, <1>2, <1>4, <1>8, <3>1, <3>4, <4>2, OrderlyTaken
          <5> QED
            BY <3>2, <4>1, <5>1
        <4>3. CASE c.op # "len"
          <5>1. Orderly(t, delivered[t], mq, pipe'[t], Append(replies[t], x), checked[t], n)
            BY <1>1, <1>7, <3>1, <4>3, OrderlyReply
          <5> QED
            BY <3>2, <4>1, <5>1
        <4> QED
          BY <4>2, <4>3
      <3> QED
        BY <3>3, <3>4
    <2>2. CASE RunPush(s, c)
      <3> DEFINE x == [op |-> "push", msgs |-> <<>>, len |-> Len(mq) + 1]
                 y == [from |-> s, msgs |-> c.msgs]
      <3>1. x \in Replies /\ x.op = "push"
        <4>1. <<>> \in Seq(Nat) /\ Len(mq) + 1 \in Nat
          BY <1>1
        <4> QED
          BY <4>1 DEF Replies
      <3>2. y \in Batches /\ y.from = s /\ y.msgs = c.msgs
        BY <1>3 DEF Batches, Commands
      <3>3. mq' = Append(mq, y) /\ replies' = [replies EXCEPT ![s] = Append(@, x)]
        BY <2>2 DEF RunPush, Reply, Command
      <3> HIDE DEF x, y
      <3>4. mq' \in Seq(Batches)
        BY <1>1, <3>2, <3>3
      <3>5. CASE t # s
        <4>1. replies'[t] = replies[t] /\ pipe'[t] = pipe[t]
          BY <1>1, <1>5, <3>3, <3>5
        <4>2. Orderly(t, delivered[t], Append(mq, y), pipe[t], replies[t], checked[t], n)
          BY <1>1, <1>4, <3>2, <3>5, OrderlyList
        <4> QED
          BY <3>3, <4>1, <4>2
      <3>6. CASE t = s
        <4>1. replies'[t] = Append(replies[t], x) /\ pipe'[t] = Tail(pipe[t])
              /\ pipe'[t] \in Seq(Commands) /\ pipe[t] # <<>> /\ Head(pipe[t]).op = "push"
          BY <1>1, <1>2, <1>5, <1>8, <2>2, <3>3, <3>6 DEF RunPush
        <4>2. Orderly(t, delivered[t], Append(mq, y), Tail(pipe[t]), replies[t], checked[t], n)
          BY <1>1, <1>4, <1>8, <3>2, <3>6, <4>1, OrderlyTaken
        <4>3. Orderly(t, delivered[t], Append(mq, y), Tail(pipe[t]), Append(replies[t], x),
                      checked[t], n)
          BY <1>1, <3>1, <4>2, OrderlyReply
        <4> QED
          BY <3>3, <4>1, <4>3
      <3> QED
        BY <3>5, <3>6
    <2>3. CASE RunTrim(c)
      <3> DEFINE excess == IF Len(mq) > TrimLen THEN Len(mq) - TrimLen ELSE 0
      <3>1. mq' = SubSeq(mq, excess + 1, Len(mq)) /\ replies' = replies
        BY <2>3 DEF RunTrim
      <3>2. excess \in 0 .. Len(mq)
        BY <1>1, QueueAssumption
      <3> HIDE DEF excess
      <3>3. Orderly(t, delivered[t], mq', pipe'[t], replies[t], checked[t], n)
        BY <1>1, <1>7, <3>1, <3>2, OrderlyList
      <3> QED
        BY <3>1, <3>3
    <2>4. CASE RunClear(c)
      <3>1. mq' = <<>> /\ replies' = replies
        BY <2>4 DEF RunClear
      <3>2. Orderly(t, delivered[t], <<>>, pipe'[t], replies[t], checked[t], n)
        BY <1>1, <1>7, OrderlyList
      <3> QED
        BY <3>1, <3>2
    <2> QED
      BY <1>2, <2>1, <2>2, <2>3, <2>4
  <1> QED
    BY <1>2, <1>4, <1>9 DEF SenderInOrder

LEMMA OrderConsume ==
    ASSUME TypeOK, Consume, NEW t \in Senders, SenderInOrder(t)
    PROVE  SenderInOrder(t)'
  <1> DEFINE batch == Head(mq)
  <1>1. /\ mq \in Seq(Batches) /\ delivered \in [Senders -> Seq(Nat)]
        /\ delivered[t] \in Seq(Nat)
    BY DEF TypeOK
  <1>2. /\ mq # <<>> /\ mq' = Tail(mq)
        /\ delivered' = [delivered EXCEPT ![batch.from] = @ \o batch.msgs]
        /\ UNCHANGED <<sent, eventQueue, pipe, replies, checked>>
    BY DEF Consume, nodeVars
  <1>3. /\ batch.from = t => delivered'[t] = delivered[t] \o batch.msgs
        /\ batch.from # t => delivered'[t] = delivered[t]
    BY <1>1, <1>2
  <1>4. ASSUME NEW n \in Nat,
               Orderly(t, delivered[t], mq, pipe[t], replies[t], checked[t], n)
        PROVE  Orderly(t, delivered'[t], mq', pipe[t], replies[t], checked[t], n)
    <2>1. /\ batch.from = t => Orderly(t, delivered[t] \o batch.msgs, Tail(mq), pipe[t],
                                       replies[t], checked[t], n)
          /\ batch.from # t => Orderly(t, delivered[t], Tail(mq), pipe[t], replies[t],
                                       checked[t], n)
      BY <1>1, <1>2, <1>4, OrderlyList
    <2> QED
      BY <1>2, <1>3, <2>1
  <1> QED
    BY <1>2, <1>4 DEF SenderInOrder

LEMMA OrderNext == TypeOK /\ OrderKept /\ [Next]_vars => OrderKept'
  <1> SUFFICES ASSUME TypeOK, OrderKept, [Next]_vars, failures' = 0, NEW t \in Senders
               PROVE  SenderInOrder(t)'
    BY DEF OrderKept
  <1>0. /\ failures \in Nat
        /\ sent \in [Senders -> Nat] /\ eventQueue \in [Senders -> Seq(Nat)]
        /\ pipe \in [Senders -> Seq(Commands)] /\ replies \in [Senders -> Seq(Replies)]
        /\ checked \in [Senders -> SUBSET Nat]
    BY QueueAssumption DEF TypeOK
  <1>k. ASSUME failures = 0 PROVE SenderInOrder(t)
    BY <1>k DEF OrderKept
  <1>1. ASSUME NEW s \in Senders, Enqueue(s) \/ Flush(s) PROVE SenderInOrder(t)'
    <2>1. failures = 0 /\ UNCHANGED <<mq, delivered, replies>>
      BY <1>1 DEF Enqueue, Flush, counters
    <2>2. CASE t = s
      BY <1>1, <1>k, <2>1, <2>2, OrderEnqueue
    <2>3. CASE t # s
      <3>1. ASSUME NEW q, SendBatchReq(s, q)
            PROVE  pipe'[t] = pipe[t] /\ checked'[t] = checked[t]
        BY <1>0, <2>3, <3>1 DEF SendBatchReq
      <3>2. /\ sent'[t] = sent[t] /\ eventQueue'[t] = eventQueue[t]
            /\ pipe'[t] = pipe[t] /\ checked'[t] = checked[t]
        BY <1>0, <1>1, <2>3, <3>1 DEF Enqueue, Flush, PutLast, Put
      <3> QED
        BY <1>k, <2>1, <3>2, OrderElsewhere
    <2> QED
      BY <2>2, <2>3
  <1>2. ASSUME NEW s \in Senders, HandleReply(s) PROVE SenderInOrder(t)'
    <2>1. failures = 0 /\ UNCHANGED <<sent, eventQueue, mq, delivered, checked>>
      BY <1>2 DEF HandleReply, counters
    <2>2. CASE t = s
      BY <1>2, <1>k, <2>1, <2>2, OrderHandleReply
    <2>3. CASE t # s
      <3>1. pipe'[t] = pipe[t] /\ replies'[t] = replies[t]
        BY <1>0, <1>2, <2>3 DEF HandleReply, HandleLen, HandlePush, HandleDead
      <3> QED
        BY <1>k, <2>1, <3>1, OrderElsewhere
    <2> QED
      BY <2>2, <2>3
  <1>3. ASSUME NEW s \in Senders, NodeDies(s) PROVE SenderInOrder(t)'
    <2> DEFINE x == Command("dead", <<>>)
    <2>1. /\ failures = 0 /\ pipe' = [pipe EXCEPT ![s] = Append(@, x)]
          /\ UNCHANGED <<sent, eventQueue, mq, delivered, replies, checked>>
      BY <1>3 DEF NodeDies
    <2>2. x \in Commands /\ x.op = "dead"
      <3>1. <<>> \in Seq(Nat)
        OBVIOUS
      <3> QED
        BY <3>1, CommandType DEF Command
    <2> HIDE DEF x
    <2>3. ASSUME NEW n \in Nat,
                 Orderly(t, delivered[t], mq, pipe[t], replies[t], checked[t], n)
          PROVE  Orderly(t, delivered[t], mq, pipe'[t], replies[t], checked[t], n)
      <3>1. pipe'[t] = pipe[t] \/ pipe'[t] = Append(pipe[t], x)
        BY <1>0, <2>1
      <3>2. pipe[t] \in Seq(Commands)
        BY <1>0
      <3>3. Orderly(t, delivered[t], mq, Append(pipe[t], x), replies[t], checked[t], n)
        BY <2>2, <2>3, <3>2, OrderlyCommand
      <3> QED
        BY <2>3, <3>1, <3>3
    <2> QED
      BY <1>k, <2>1, <2>3 DEF SenderInOrder
  <1>4. ASSUME NEW s \in Senders, Run(s) PROVE SenderInOrder(t)'
    <2>1. failures = 0
      BY <1>4 DEF Run, counters
    <2> QED
      BY <1>4, <1>k, <2>1, OrderRun
  <1>5. ASSUME NEW s \in Senders, Fail(s) \/ Rerun(s) PROVE FALSE
    BY <1>0, <1>5 DEF Fail, Rerun
  <1>6. ASSUME Consume PROVE SenderInOrder(t)'
    <2>1. failures = 0
      BY <1>6 DEF Consume, counters
    <2> QED
      BY <1>6, <1>k, <2>1, OrderConsume
  <1>7. ASSUME NEW s \in Senders, NodeRevives(s) PROVE SenderInOrder(t)'
    <2>1. UNCHANGED <<sent, eventQueue, pipe, replies, mq, delivered, checked, failures>>
      BY <1>7 DEF NodeRevives, counters
    <2> QED
      BY <1>k, <2>1, OrderElsewhere
  <1>8. CASE UNCHANGED vars
    <2>1. UNCHANGED <<sent, eventQueue, pipe, replies, mq, delivered, checked, failures>>
      BY <1>8 DEF vars, nodeVars, counters
    <2> QED
      BY <1>k, <2>1, OrderElsewhere
  <1> QED
    BY <1>1, <1>2, <1>3, <1>4, <1>5, <1>6, <1>7, <1>8 DEF Next

(* Without failing commands a message overtakes an earlier one of the same *)
(* sender only when the earlier one waited for a length check and the      *)
(* later one did not.                                                      *)
THEOREM OnlyCheckedAreOvertaken == Spec => []OvertakenOnlyIfChecked
  <1>1. OrderKept => OvertakenOnlyIfChecked
    <2> SUFFICES ASSUME OrderKept, failures = 0, NEW s \in Senders
                 PROVE  InOrder(delivered[s], checked[s])
      BY DEF OvertakenOnlyIfChecked, InOrder, MayLead
    <2> QED
      BY DEF OrderKept, SenderInOrder, Orderly
  <1>2. Spec => []OrderKept
    BY OrderInit, OrderNext, QueueTypes, PTL DEF Spec
  <1> QED
    BY <1>1, <1>2, PTL

-----------------------------------------------------------------------------
(* RemoteQueue implements LossyChannel.  The argument follows a message:    *)
(* it is in one place at a time (a queue, a command, a reply, a batch of    *)
(* the list, delivered, or given up), and every step only moves it on.      *)

(* Batches hold one or more messages, all different.                       *)
Different(q) == \A i, j \in DOMAIN q : q[i] = q[j] => i = j

Good(q) == q # <<>> /\ Different(q)

GoodBatches == {b \in Batches : Good(b.msgs)}
GoodCommands == {c \in Commands : c.op \in {"len", "push"} => Good(c.msgs)}
GoodReplies == {r \in Replies : r.op = "len" => Good(r.msgs)}

WellFormed ==
    /\ pipe \in [Senders -> Seq(GoodCommands)]
    /\ replies \in [Senders -> Seq(GoodReplies)]
    /\ mq \in Seq(GoodBatches)
    /\ \A s \in Senders :
          Different(eventQueue[s]) /\ Elements(eventQueue[s]) \subseteq 1 .. sent[s]

(* A command to push or to check a good batch, and one without messages.   *)
LEMMA GoodCommandType ==
    /\ \A q \in Seq(Nat) :
          Good(q) => Command("len", q) \in GoodCommands
                     /\ Command("push", q) \in GoodCommands
    /\ \A op \in {"trim", "dead", "clear"} : Command(op, <<>>) \in GoodCommands
  <1>1. ASSUME NEW q \in Seq(Nat), Good(q)
        PROVE  Command("len", q) \in GoodCommands /\ Command("push", q) \in GoodCommands
    <2>1. Command("len", q) \in Commands /\ Command("push", q) \in Commands
      BY CommandType
    <2>2. Command("len", q).msgs = q /\ Command("push", q).msgs = q
      BY DEF Command
    <2> QED
      BY <1>1, <2>1, <2>2 DEF GoodCommands
  <1>2. ASSUME NEW op \in {"trim", "dead", "clear"}
        PROVE  Command(op, <<>>) \in GoodCommands
    <2>1. <<>> \in Seq(Nat)
      OBVIOUS
    <2>2. Command(op, <<>>) \in Commands
      BY <2>1, CommandType
    <2>3. Command(op, <<>>).op = op
      BY DEF Command
    <2> QED
      BY <2>2, <2>3 DEF GoodCommands
  <1> QED
    BY <1>1, <1>2

(* sendBatchReq of a good batch writes a good command.                     *)
LEMMA SendGoodBatch ==
    ASSUME WellFormed, NEW s \in Senders, NEW q \in Seq(Nat), Good(q), SendBatchReq(s, q)
    PROVE  /\ pipe' \in [Senders -> Seq(GoodCommands)]
           /\ \E c \in GoodCommands :
                 c.msgs = q /\ pipe' = [pipe EXCEPT ![s] = Append(@, c)]
  <1>1. PICK c \in GoodCommands :
           c.msgs = q /\ pipe' = [pipe EXCEPT ![s] = Append(@, c)]
    <2>1. /\ Command("len", q) \in GoodCommands /\ Command("push", q) \in GoodCommands
          /\ Command("len", q).msgs = q /\ Command("push", q).msgs = q
      BY GoodCommandType DEF Command
    <2> QED
      BY <2>1 DEF SendBatchReq
  <1>2. pipe' \in [Senders -> Seq(GoodCommands)]
    BY <1>1, AppendAt DEF WellFormed
  <1> QED
    BY <1>1, <1>2

(* The waiting messages and a new one are different.                       *)
LEMMA AppendNew ==
    ASSUME NEW q \in Seq(Nat), NEW n \in Nat, Different(q), Elements(q) \subseteq 1 .. n
    PROVE  /\ Append(q, n + 1) \in Seq(Nat)
           /\ Good(Append(q, n + 1))
           /\ Elements(Append(q, n + 1)) = Elements(q) \cup {n + 1}
           /\ Elements(Append(q, n + 1)) \subseteq 1 .. n + 1
  <1> DEFINE r == Append(q, n + 1)
  <1>1. /\ r \in Seq(Nat) /\ r # <<>> /\ DOMAIN r = 1 .. Len(q) + 1
        /\ DOMAIN q = 1 .. Len(q) /\ Len(q) \in Nat
        /\ \A i \in 1 .. Len(q) : r[i] = q[i]
        /\ r[Len(q) + 1] = n + 1
    OBVIOUS
  <1> HIDE DEF r
  <1>2. \A i \in 1 .. Len(q) : q[i] \in 1 .. n
    BY <1>1 DEF Elements
  <1>3. Good(r)
    <2>1. ASSUME NEW i \in DOMAIN r, NEW j \in DOMAIN r, r[i] = r[j] PROVE i = j
      <3>1. CASE i \in 1 .. Len(q) /\ j \in 1 .. Len(q)
        <4>1. r[i] = q[i] /\ r[j] = q[j] /\ i \in DOMAIN q /\ j \in DOMAIN q
          BY <1>1, <3>1
        <4>2. q[i] = q[j]
          BY <2>1, <4>1
        <4> QED
          BY <4>1, <4>2 DEF Different
      <3>2. CASE i = Len(q) + 1 \/ j = Len(q) + 1
        <4>1. ASSUME NEW k \in 1 .. Len(q) PROVE r[k] # n + 1
          <5>1. r[k] \in 1 .. n
            BY <1>1, <1>2
          <5> QED
            BY <5>1
        <4>2. i \in 1 .. Len(q) + 1 /\ j \in 1 .. Len(q) + 1
          BY <1>1
        <4>3. i \in 1 .. Len(q) => j \in 1 .. Len(q)
          BY <1>1, <2>1, <4>1, <4>2
        <4>4. j \in 1 .. Len(q) => i \in 1 .. Len(q)
          BY <1>1, <2>1, <4>1, <4>2
        <4> QED
          BY <1>1, <3>2, <4>2, <4>3, <4>4
      <3> QED
        BY <1>1, <3>1, <3>2
    <2> QED
      BY <1>1, <2>1 DEF Good, Different
  <1>4. Elements(r) = Elements(q) \cup {n + 1}
    <2>1. ASSUME NEW i \in DOMAIN r PROVE r[i] \in Elements(q) \cup {n + 1}
      <3>1. CASE i \in 1 .. Len(q)
        <4>1. r[i] = q[i] /\ i \in DOMAIN q
          BY <1>1, <3>1
        <4> QED
          BY <4>1 DEF Elements
      <3>2. CASE i = Len(q) + 1
        BY <1>1, <3>2
      <3> QED
        BY <1>1, <3>1, <3>2
    <2>2. ASSUME NEW i \in DOMAIN q PROVE q[i] \in Elements(r)
      BY <1>1 DEF Elements
    <2>3. n + 1 \in Elements(r)
      <3>1. Len(q) + 1 \in DOMAIN r /\ r[Len(q) + 1] = n + 1
        BY <1>1
      <3> QED
        BY <3>1 DEF Elements
    <2>4. Elements(r) \subseteq Elements(q) \cup {n + 1}
      BY <2>1 DEF Elements
    <2>5. Elements(q) \subseteq Elements(r)
      BY <2>2 DEF Elements
    <2> QED
      BY <2>3, <2>4, <2>5
  <1>5. Elements(r) \subseteq 1 .. n + 1
    <2>1. ASSUME NEW x \in Elements(r) PROVE x \in 1 .. n + 1
      <3>1. x \in 1 .. n \/ x = n + 1
        BY <1>4, <2>1
      <3> QED
        BY <3>1
    <2> QED
      BY <2>1
  <1> QED
    BY <1>1, <1>3, <1>4, <1>5 DEF r

LEMMA WellFormedInit == Init => WellFormed
  <1> SUFFICES ASSUME Init PROVE WellFormed
    OBVIOUS
  <1>1. <<>> \in Seq(GoodCommands) /\ <<>> \in Seq(GoodReplies) /\ <<>> \in Seq(GoodBatches)
    OBVIOUS
  <1>2. Different(<<>>) /\ Elements(<<>>) = {}
    BY DEF Different, Elements
  <1>3. /\ pipe \in [Senders -> Seq(GoodCommands)]
        /\ replies \in [Senders -> Seq(GoodReplies)]
    BY <1>1 DEF Init
  <1>4. mq \in Seq(GoodBatches)
    BY <1>1 DEF Init
  <1>5. ASSUME NEW s \in Senders
        PROVE  Different(eventQueue[s]) /\ Elements(eventQueue[s]) \subseteq 1 .. sent[s]
    BY <1>2 DEF Init
  <1> QED
    BY <1>3, <1>4, <1>5 DEF WellFormed

LEMMA WellFormedNext == TypeOK /\ WellFormed /\ [Next]_vars => WellFormed'
  <1> SUFFICES ASSUME TypeOK, WellFormed, [Next]_vars PROVE WellFormed'
    OBVIOUS
  <1>0. /\ pipe \in [Senders -> Seq(GoodCommands)]
        /\ replies \in [Senders -> Seq(GoodReplies)]
        /\ mq \in Seq(GoodBatches)
        /\ sent \in [Senders -> Nat]
        /\ eventQueue \in [Senders -> Seq(Nat)]
    BY DEF WellFormed, TypeOK
  <1>q. \A s \in Senders :
           Different(eventQueue[s]) /\ Elements(eventQueue[s]) \subseteq 1 .. sent[s]
    BY DEF WellFormed
  <1>e. Different(<<>>) /\ Elements(<<>>) = {}
    BY DEF Different, Elements
  <1>1. ASSUME NEW s \in Senders, Enqueue(s) PROVE WellFormed'
    <2> DEFINE queue == Append(eventQueue[s], sent[s] + 1)
    <2>1. /\ queue \in Seq(Nat) /\ Good(queue)
          /\ Elements(queue) \subseteq 1 .. sent[s] + 1
      BY <1>0, <1>q, AppendNew
    <2> HIDE DEF queue
    <2>2. Put(s, queue, Len(queue) >= BatchSize)
      BY <1>1 DEF Enqueue, PutLast, queue
    <2>3. UNCHANGED <<replies, mq>> /\ sent' = [sent EXCEPT ![s] = @ + 1]
      BY <1>1 DEF Enqueue
    <2>4. pipe' \in [Senders -> Seq(GoodCommands)]
      <3>1. SendBatchReq(s, queue) \/ pipe' = pipe
        BY <2>2 DEF Put
      <3> QED
        BY <1>0, <2>1, <3>1, SendGoodBatch
    <2>5. ASSUME NEW t \in Senders
          PROVE  Different(eventQueue'[t]) /\ Elements(eventQueue'[t]) \subseteq 1 .. sent'[t]
      <3>1. \/ eventQueue' = [eventQueue EXCEPT ![s] = <<>>]
            \/ eventQueue' = [eventQueue EXCEPT ![s] = queue]
        BY <2>2 DEF Put
      <3>2. CASE t # s
        <4>1. eventQueue'[t] = eventQueue[t] /\ sent'[t] = sent[t]
          BY <1>0, <2>3, <3>1, <3>2
        <4> QED
          BY <1>q, <4>1
      <3>3. CASE t = s
        <4>1. sent'[t] = sent[s] + 1
              /\ (eventQueue'[t] = <<>> \/ eventQueue'[t] = queue)
          BY <1>0, <2>3, <3>1, <3>3
        <4>2. CASE eventQueue'[t] = <<>>
          BY <1>e, <4>2
        <4>3. CASE eventQueue'[t] = queue
          BY <2>1, <4>1, <4>3 DEF Good
        <4> QED
          BY <4>1, <4>2, <4>3
      <3> QED
        BY <3>2, <3>3
    <2> QED
      BY <1>0, <2>3, <2>4, <2>5 DEF WellFormed
  <1>2. ASSUME NEW s \in Senders, Flush(s) PROVE WellFormed'
    <2>1. Good(eventQueue[s]) /\ eventQueue[s] \in Seq(Nat)
      BY <1>0, <1>2, <1>q DEF Flush, Good
    <2>2. pipe' \in [Senders -> Seq(GoodCommands)]
      BY <1>2, <2>1, SendGoodBatch DEF Flush
    <2>3. ASSUME NEW t \in Senders
          PROVE  Different(eventQueue'[t]) /\ Elements(eventQueue'[t]) \subseteq 1 .. sent'[t]
      <3>1. sent' = sent /\ (eventQueue'[t] = <<>> \/ eventQueue'[t] = eventQueue[t])
        BY <1>0, <1>2 DEF Flush
      <3>2. CASE eventQueue'[t] = <<>>
        BY <1>e, <3>2
      <3>3. CASE eventQueue'[t] = eventQueue[t]
        BY <1>q, <3>1, <3>3
      <3> QED
        BY <3>1, <3>2, <3>3
    <2>4. UNCHANGED <<replies, mq>>
      BY <1>2 DEF Flush
    <2> QED
      BY <1>0, <2>2, <2>3, <2>4 DEF WellFormed
  <1>3. ASSUME NEW s \in Senders, HandleReply(s) PROVE WellFormed'
    <2> DEFINE reply == Head(replies[s])
    <2>1. reply \in GoodReplies /\ replies' \in [Senders -> Seq(GoodReplies)]
      BY <1>0, <1>3, TailAt DEF HandleReply
    <2> HIDE DEF reply
    <2>2. HandleLen(s, reply) \/ HandlePush(s, reply) \/ HandleDead(s, reply)
      BY <1>3 DEF HandleReply, reply
    <2>3. reply.msgs \in Seq(Nat)
      BY <2>1 DEF GoodReplies, Replies
    <2>4. pipe' = pipe \/ \E c \in GoodCommands : pipe' = [pipe EXCEPT ![s] = Append(@, c)]
      <3>1. CASE HandleLen(s, reply)
        <4>1. Good(reply.msgs)
          BY <2>1, <3>1 DEF HandleLen, GoodReplies
        <4>2. Command("push", reply.msgs) \in GoodCommands
          BY <2>3, <4>1, GoodCommandType
        <4> QED
          BY <3>1, <4>2 DEF HandleLen
      <3>2. CASE HandlePush(s, reply)
        BY <3>2, GoodCommandType DEF HandlePush
      <3>3. CASE HandleDead(s, reply)
        BY <3>3, GoodCommandType DEF HandleDead
      <3> QED
        BY <2>2, <3>1, <3>2, <3>3
    <2>5. pipe' \in [Senders -> Seq(GoodCommands)]
      <3>1. ASSUME NEW c \in GoodCommands, pipe' = [pipe EXCEPT ![s] = Append(@, c)]
            PROVE  pipe' \in [Senders -> Seq(GoodCommands)]
        BY <1>0, <3>1, AppendAt
      <3> QED
        BY <1>0, <2>4, <3>1
    <2>6. UNCHANGED <<sent, eventQueue, mq>>
      BY <1>3 DEF HandleReply
    <2> QED
      BY <1>0, <1>q, <2>1, <2>5, <2>6 DEF WellFormed
  <1>4. ASSUME NEW s \in Senders, NodeDies(s) PROVE WellFormed'
    <2>1. Command("dead", <<>>) \in GoodCommands
      BY GoodCommandType
    <2>2. pipe' \in [Senders -> Seq(GoodCommands)]
      BY <1>0, <1>4, <2>1, AppendAt DEF NodeDies
    <2>3. UNCHANGED <<sent, eventQueue, replies, mq>>
      BY <1>4 DEF NodeDies
    <2> QED
      BY <1>0, <1>q, <2>2, <2>3 DEF WellFormed
  <1>5. ASSUME NEW s \in Senders, NodeRevives(s) PROVE WellFormed'
    BY <1>5 DEF NodeRevives, WellFormed
  <1>6. ASSUME NEW s \in Senders, Run(s) PROVE WellFormed'
    <2> DEFINE c == Head(pipe[s])
    <2>1. c \in GoodCommands /\ pipe' \in [Senders -> Seq(GoodCommands)]
      BY <1>0, <1>6, TailAt DEF Run
    <2> HIDE DEF c
    <2>2. RunLen(s, c) \/ RunPush(s, c) \/ RunTrim(c) \/ RunClear(c)
      BY <1>6 DEF Run, c
    <2>3. mq' \in Seq(GoodBatches) /\ replies' \in [Senders -> Seq(GoodReplies)]
      <3>1. CASE RunLen(s, c)
        <4> DEFINE r == [op |-> c.op, msgs |-> c.msgs, len |-> Len(mq)]
        <4>1. r \in GoodReplies
          BY <1>0, <2>1, <3>1 DEF RunLen, GoodCommands, GoodReplies, Commands, Replies
        <4>2. replies' = [replies EXCEPT ![s] = Append(@, r)] /\ mq' = mq
          BY <3>1 DEF RunLen, Reply
        <4> QED
          BY <1>0, <4>1, <4>2, AppendAt
      <3>2. CASE RunPush(s, c)
        <4> DEFINE r == [op |-> "push", msgs |-> <<>>, len |-> Len(mq) + 1]
                   b == [from |-> s, msgs |-> c.msgs]
        <4>1. r \in GoodReplies
          <5>1. <<>> \in Seq(Nat) /\ Len(mq) + 1 \in Nat
            BY <1>0
          <5> QED
            BY <5>1 DEF GoodReplies, Replies
        <4>4. b \in GoodBatches
          <5>1. c \in Commands /\ Good(c.msgs)
            BY <2>1, <3>2 DEF RunPush, GoodCommands
          <5> QED
            BY <5>1 DEF GoodBatches, Commands, Batches
        <4>2. replies' = [replies EXCEPT ![s] = Append(@, r)] /\ mq' = Append(mq, b)
          BY <3>2 DEF RunPush, Reply, Command
        <4> HIDE DEF r, b
        <4>3. mq' \in Seq(GoodBatches)
          BY <1>0, <4>2, <4>4
        <4> QED
          BY <1>0, <4>1, <4>2, <4>3, AppendAt
      <3>3. CASE RunTrim(c)
        <4> DEFINE excess == IF Len(mq) > TrimLen THEN Len(mq) - TrimLen ELSE 0
        <4>1. excess \in 0 .. Len(mq) /\ Len(mq) \in Nat
          BY <1>0, QueueAssumption
        <4>2. mq' = SubSeq(mq, excess + 1, Len(mq)) /\ replies' = replies
          BY <3>3 DEF RunTrim
        <4> HIDE DEF excess
        <4>3. \A i \in excess + 1 .. Len(mq) : mq[i] \in GoodBatches
          BY <1>0, <4>1, ElementOfSeq
        <4>4. SubSeq(mq, excess + 1, Len(mq)) \in Seq(GoodBatches)
          BY <4>1, <4>3, SubSeqProperties
        <4> QED
          BY <1>0, <4>2, <4>4
      <3>4. CASE RunClear(c)
        BY <1>0, <3>4 DEF RunClear
      <3> QED
        BY <2>2, <3>1, <3>2, <3>3, <3>4
    <2>4. UNCHANGED <<sent, eventQueue>>
      BY <1>6 DEF Run, nodeVars
    <2> QED
      BY <1>q, <2>1, <2>3, <2>4 DEF WellFormed
  <1>7. ASSUME NEW s \in Senders, Fail(s) PROVE WellFormed'
    <2> DEFINE c == Head(pipe[s])
    <2>1. c \in GoodCommands /\ pipe' \in [Senders -> Seq(GoodCommands)]
      BY <1>0, <1>7, TailAt DEF Fail
    <2> HIDE DEF c
    <2>2. replies' \in [Senders -> Seq(GoodReplies)]
      <3>1. CASE c.op \in {"len", "dead"}
        <4> DEFINE r == [op |-> c.op, msgs |-> c.msgs, len |-> 0]
        <4>1. r \in GoodReplies
          BY <2>1, <3>1 DEF GoodCommands, GoodReplies, Commands, Replies
        <4>2. replies' = [replies EXCEPT ![s] = Append(@, r)]
          BY <1>7, <3>1 DEF Fail, c, Reply
        <4> QED
          BY <1>0, <4>1, <4>2, AppendAt
      <3>2. CASE c.op \notin {"len", "dead"}
        BY <1>0, <1>7, <3>2 DEF Fail, c
      <3> QED
        BY <3>1, <3>2
    <2>3. UNCHANGED <<sent, eventQueue, mq>>
      BY <1>7 DEF Fail, nodeVars
    <2> QED
      BY <1>0, <1>q, <2>1, <2>2, <2>3 DEF WellFormed
  <1>8. ASSUME NEW s \in Senders, Rerun(s) PROVE WellFormed'
    <2> DEFINE c == Head(pipe[s])
    <2>1. c \in GoodCommands /\ c.op = "push"
      BY <1>0, <1>8, TailAt DEF Rerun
    <2> HIDE DEF c
    <2>2. [from |-> s, msgs |-> c.msgs] \in GoodBatches
      BY <2>1 DEF GoodCommands, GoodBatches, Commands, Batches
    <2>3. mq' = Append(mq, [from |-> s, msgs |-> c.msgs])
      BY <1>8 DEF Rerun, c
    <2>4. mq' \in Seq(GoodBatches)
      BY <1>0, <2>2, <2>3
    <2>5. UNCHANGED <<sent, eventQueue, pipe, replies>>
      BY <1>8 DEF Rerun, nodeVars
    <2> QED
      BY <1>0, <1>q, <2>4, <2>5 DEF WellFormed
  <1>9. ASSUME Consume PROVE WellFormed'
    <2>1. mq' \in Seq(GoodBatches)
      BY <1>0, <1>9 DEF Consume
    <2>2. UNCHANGED <<sent, eventQueue, pipe, replies>>
      BY <1>9 DEF Consume, nodeVars
    <2> QED
      BY <1>0, <1>q, <2>1, <2>2 DEF WellFormed
  <1>10. ASSUME UNCHANGED vars PROVE WellFormed'
    BY <1>10 DEF vars, nodeVars, WellFormed
  <1> QED
    BY <1>1, <1>2, <1>3, <1>4, <1>5, <1>6, <1>7, <1>8, <1>9, <1>10 DEF Next

LEMMA BatchesAreGood == Spec => []WellFormed
  BY WellFormedInit, WellFormedNext, QueueTypes, PTL DEF Spec

(* No batch of the list is empty, with failing and repeated commands too.  *)
THEOREM NoBatchIsEmpty == Spec => []NoEmptyBatch
  <1>1. WellFormed => NoEmptyBatch
    <2> SUFFICES ASSUME WellFormed, NEW i \in DOMAIN mq PROVE mq[i].msgs # <<>>
      BY DEF NoEmptyBatch
    <2>1. mq[i] \in GoodBatches
      BY ElementOfSeq DEF WellFormed
    <2> QED
      BY <2>1 DEF GoodBatches, Good
  <1> QED
    BY <1>1, BatchesAreGood, PTL

-----------------------------------------------------------------------------
(* Where a message is.                                                     *)

(* The messages that a sequence of commands or replies holds.              *)
Carried(q) == UNION {Elements(q[i].msgs) : i \in DOMAIN q}

Disjoint(q) ==
    \A i, j \in DOMAIN q :
        i # j => Elements(q[i].msgs) \cap Elements(q[j].msgs) = {}

(* The same for the batches of one sender in the list.                     *)
DisjointFrom(b, s) ==
    \A i, j \in DOMAIN b :
        i # j /\ b[i].from = s /\ b[j].from = s =>
            Elements(b[i].msgs) \cap Elements(b[j].msgs) = {}

(* Six sets of the messages 1 .. n, no two of which share one.             *)
Apart(a, b, c, d, e, f, n) ==
    /\ \A m \in a : m \notin b \cup c \cup d \cup e \cup f
    /\ \A m \in b : m \notin c \cup d \cup e \cup f
    /\ \A m \in c : m \notin d \cup e \cup f
    /\ \A m \in d : m \notin e \cup f
    /\ \A m \in e : m \notin f
    /\ a \cup b \cup c \cup d \cup e \cup f \subseteq 1 .. n

InOnePlace(s) ==
    Apart(Elements(eventQueue[s]), Carried(pipe[s]), Carried(replies[s]),
          MessagesOf(mq, s), Elements(delivered[s]), lost[s], sent[s])

InOneBatch(s) ==
    Disjoint(pipe[s]) /\ Disjoint(replies[s]) /\ DisjointFrom(mq, s)

EachOnce == \A s \in Senders : InOnePlace(s) /\ InOneBatch(s)

(* A command or reply is appended.                                         *)
LEMMA CarriedAppend ==
    ASSUME NEW S, NEW q \in Seq(S), NEW x \in S
    PROVE  /\ Carried(Append(q, x)) = Carried(q) \cup Elements(x.msgs)
           /\ Disjoint(q) /\ Carried(q) \cap Elements(x.msgs) = {} =>
                 Disjoint(Append(q, x))
  <1> DEFINE r == Append(q, x)
  <1>1. /\ DOMAIN r = 1 .. Len(q) + 1 /\ DOMAIN q = 1 .. Len(q) /\ Len(q) \in Nat
        /\ \A i \in 1 .. Len(q) : r[i] = q[i]
        /\ r[Len(q) + 1] = x
    OBVIOUS
  <1> HIDE DEF r
  <1>2. ASSUME NEW i \in DOMAIN r
        PROVE  (i \in DOMAIN q /\ r[i] = q[i]) \/ (i = Len(q) + 1 /\ r[i] = x)
    <2>1. i \in 1 .. Len(q) \/ i = Len(q) + 1
      BY <1>1
    <2> QED
      BY <1>1, <2>1
  <1>3. \A i \in DOMAIN q : i \in DOMAIN r /\ r[i] = q[i]
    BY <1>1
  <1>4. Len(q) + 1 \in DOMAIN r
    BY <1>1
  <1>5. Carried(r) = Carried(q) \cup Elements(x.msgs)
    <2>1. ASSUME NEW m \in Carried(r) PROVE m \in Carried(q) \cup Elements(x.msgs)
      <3>1. PICK i \in DOMAIN r : m \in Elements(r[i].msgs)
        BY <2>1 DEF Carried
      <3> QED
        BY <1>2, <3>1 DEF Carried
    <2>2. ASSUME NEW m \in Carried(q) PROVE m \in Carried(r)
      <3>1. PICK i \in DOMAIN q : m \in Elements(q[i].msgs)
        BY <2>2 DEF Carried
      <3> QED
        BY <1>3, <3>1 DEF Carried
    <2>3. Elements(x.msgs) \subseteq Carried(r)
      BY <1>1, <1>4 DEF Carried
    <2> QED
      BY <2>1, <2>2, <2>3
  <1>6. ASSUME Disjoint(q), Carried(q) \cap Elements(x.msgs) = {} PROVE Disjoint(r)
    <2> SUFFICES ASSUME NEW i \in DOMAIN r, NEW j \in DOMAIN r, i # j,
                        NEW m \in Elements(r[i].msgs), m \in Elements(r[j].msgs)
                 PROVE  FALSE
      BY DEF Disjoint
    <2>1. ASSUME NEW k \in DOMAIN q PROVE Elements(q[k].msgs) \subseteq Carried(q)
      BY <2>1 DEF Carried
    <2>2. CASE i \in DOMAIN q /\ j \in DOMAIN q
      <3>1. m \in Elements(q[i].msgs) /\ m \in Elements(q[j].msgs)
        BY <1>3, <2>2
      <3> QED
        BY <1>6, <2>2, <3>1 DEF Disjoint
    <2>3. CASE i \in DOMAIN q /\ j = Len(q) + 1
      <3>1. m \in Carried(q) /\ m \in Elements(x.msgs)
        BY <1>1, <1>3, <2>1, <2>3
      <3> QED
        BY <1>6, <3>1
    <2>4. CASE j \in DOMAIN q /\ i = Len(q) + 1
      <3>1. m \in Carried(q) /\ m \in Elements(x.msgs)
        BY <1>1, <1>3, <2>1, <2>4
      <3> QED
        BY <1>6, <3>1
    <2> QED
      BY <1>2, <2>2, <2>3, <2>4
  <1> QED
    BY <1>5, <1>6 DEF r

(* The first command or reply leaves with its messages.                    *)
LEMMA CarriedTail ==
    ASSUME NEW S, NEW q \in Seq(S), q # <<>>, Disjoint(q)
    PROVE  /\ Carried(q) = Carried(Tail(q)) \cup Elements(Head(q).msgs)
           /\ Carried(Tail(q)) \cap Elements(Head(q).msgs) = {}
           /\ Disjoint(Tail(q))
  <1> DEFINE r == Tail(q)
             x == Head(q)
  <1>1. /\ 1 \in DOMAIN q /\ x = q[1]
        /\ \A i \in DOMAIN r : i + 1 \in DOMAIN q /\ i + 1 # 1 /\ r[i] = q[i + 1]
        /\ \A i \in DOMAIN r, j \in DOMAIN r : i # j => i + 1 # j + 1
    OBVIOUS
  <1>2. \A i \in DOMAIN q : i # 1 => i - 1 \in DOMAIN r /\ r[i - 1] = q[i]
    BY MovesUp
  <1> HIDE DEF r, x
  <1>3. Carried(q) = Carried(r) \cup Elements(x.msgs)
    <2>1. ASSUME NEW m \in Carried(q) PROVE m \in Carried(r) \cup Elements(x.msgs)
      <3>1. PICK i \in DOMAIN q : m \in Elements(q[i].msgs)
        BY <2>1 DEF Carried
      <3>2. CASE i = 1
        BY <1>1, <3>1, <3>2
      <3>3. CASE i # 1
        <4>1. i - 1 \in DOMAIN r /\ m \in Elements(r[i - 1].msgs)
          BY <1>2, <3>1, <3>3
        <4> QED
          BY <4>1 DEF Carried
      <3> QED
        BY <3>2, <3>3
    <2>2. ASSUME NEW m \in Carried(r) PROVE m \in Carried(q)
      <3>1. PICK i \in DOMAIN r : m \in Elements(r[i].msgs)
        BY <2>2 DEF Carried
      <3>2. i + 1 \in DOMAIN q /\ m \in Elements(q[i + 1].msgs)
        BY <1>1, <3>1
      <3> QED
        BY <3>2 DEF Carried
    <2>3. Elements(x.msgs) \subseteq Carried(q)
      BY <1>1 DEF Carried
    <2> QED
      BY <2>1, <2>2, <2>3
  <1>4. Carried(r) \cap Elements(x.msgs) = {}
    <2> SUFFICES ASSUME NEW m \in Carried(r), m \in Elements(x.msgs) PROVE FALSE
      OBVIOUS
    <2>1. PICK i \in DOMAIN r : m \in Elements(r[i].msgs)
      BY DEF Carried
    <2>2. i + 1 \in DOMAIN q /\ i + 1 # 1 /\ m \in Elements(q[i + 1].msgs)
          /\ 1 \in DOMAIN q /\ m \in Elements(q[1].msgs)
      BY <1>1, <2>1
    <2>3. Elements(q[i + 1].msgs) \cap Elements(q[1].msgs) = {}
      BY <2>2 DEF Disjoint
    <2> QED
      BY <2>2, <2>3
  <1>5. Disjoint(r)
    <2> SUFFICES ASSUME NEW i \in DOMAIN r, NEW j \in DOMAIN r, i # j
                 PROVE  Elements(r[i].msgs) \cap Elements(r[j].msgs) = {}
      BY DEF Disjoint
    <2>1. /\ i + 1 \in DOMAIN q /\ j + 1 \in DOMAIN q /\ i + 1 # j + 1
          /\ r[i] = q[i + 1] /\ r[j] = q[j + 1]
      BY <1>1
    <2>2. Elements(q[i + 1].msgs) \cap Elements(q[j + 1].msgs) = {}
      BY <2>1 DEF Disjoint
    <2> QED
      BY <2>1, <2>2
  <1> QED
    BY <1>3, <1>4, <1>5 DEF r, x

(* What a batch holds of a sender.                                         *)
HeldFor(x, s) == IF x.from = s THEN Elements(x.msgs) ELSE {}

LEMMA MessagesAre ==
    ASSUME NEW b, NEW s, NEW m
    PROVE  m \in MessagesOf(b, s)
              <=> \E i \in DOMAIN b : b[i].from = s /\ m \in Elements(b[i].msgs)
  BY DEF MessagesOf

(* A batch is appended to the list.                                        *)
LEMMA ListAppend ==
    ASSUME NEW S, NEW q \in Seq(S), NEW x \in S, NEW s
    PROVE  /\ MessagesOf(Append(q, x), s) = MessagesOf(q, s) \cup HeldFor(x, s)
           /\ DisjointFrom(q, s) /\ MessagesOf(q, s) \cap HeldFor(x, s) = {} =>
                 DisjointFrom(Append(q, x), s)
  <1> DEFINE r == Append(q, x)
  <1>1. /\ DOMAIN r = 1 .. Len(q) + 1 /\ DOMAIN q = 1 .. Len(q) /\ Len(q) \in Nat
        /\ \A i \in 1 .. Len(q) : r[i] = q[i]
        /\ r[Len(q) + 1] = x
    OBVIOUS
  <1> HIDE DEF r
  <1>2. ASSUME NEW i \in DOMAIN r
        PROVE  (i \in DOMAIN q /\ r[i] = q[i]) \/ (i = Len(q) + 1 /\ r[i] = x)
    <2>1. i \in 1 .. Len(q) \/ i = Len(q) + 1
      BY <1>1
    <2> QED
      BY <1>1, <2>1
  <1>3. \A i \in DOMAIN q : i \in DOMAIN r /\ r[i] = q[i]
    BY <1>1
  <1>4. Len(q) + 1 \in DOMAIN r
    BY <1>1
  <1>5. MessagesOf(r, s) = MessagesOf(q, s) \cup HeldFor(x, s)
    <2>1. ASSUME NEW m \in MessagesOf(r, s) PROVE m \in MessagesOf(q, s) \cup HeldFor(x, s)
      <3>1. PICK i \in DOMAIN r : r[i].from = s /\ m \in Elements(r[i].msgs)
        BY <2>1, MessagesAre
      <3>2. CASE i \in DOMAIN q /\ r[i] = q[i]
        BY <3>1, <3>2, MessagesAre
      <3>3. CASE r[i] = x
        BY <3>1, <3>3 DEF HeldFor
      <3> QED
        BY <1>2, <3>2, <3>3
    <2>2. ASSUME NEW m \in MessagesOf(q, s) PROVE m \in MessagesOf(r, s)
      <3>1. PICK i \in DOMAIN q : q[i].from = s /\ m \in Elements(q[i].msgs)
        BY <2>2, MessagesAre
      <3> QED
        BY <1>3, <3>1, MessagesAre
    <2>3. ASSUME NEW m \in HeldFor(x, s) PROVE m \in MessagesOf(r, s)
      <3>1. x.from = s /\ m \in Elements(x.msgs)
        BY <2>3 DEF HeldFor
      <3> QED
        BY <1>1, <1>4, <3>1, MessagesAre
    <2> QED
      BY <2>1, <2>2, <2>3
  <1>6. ASSUME DisjointFrom(q, s), MessagesOf(q, s) \cap HeldFor(x, s) = {}
        PROVE  DisjointFrom(r, s)
    <2> SUFFICES ASSUME NEW i \in DOMAIN r, NEW j \in DOMAIN r, i # j,
                        r[i].from = s, r[j].from = s,
                        NEW m \in Elements(r[i].msgs), m \in Elements(r[j].msgs)
                 PROVE  FALSE
      BY DEF DisjointFrom
    <2>1. ASSUME NEW k \in DOMAIN q, r[k].from = s, m \in Elements(r[k].msgs)
          PROVE  m \in MessagesOf(q, s)
      BY <1>3, <2>1, MessagesAre
    <2>2. ASSUME NEW k \in DOMAIN r, r[k].from = s, m \in Elements(r[k].msgs),
                 k = Len(q) + 1
          PROVE  m \in HeldFor(x, s)
      BY <1>1, <2>2 DEF HeldFor
    <2>3. CASE i \in DOMAIN q /\ j \in DOMAIN q
      <3>1. /\ q[i].from = s /\ q[j].from = s
            /\ m \in Elements(q[i].msgs) /\ m \in Elements(q[j].msgs)
        BY <1>3, <2>3
      <3> QED
        BY <1>6, <2>3, <3>1 DEF DisjointFrom
    <2>4. CASE i \in DOMAIN q /\ j = Len(q) + 1
      BY <1>6, <2>1, <2>2, <2>4
    <2>5. CASE j \in DOMAIN q /\ i = Len(q) + 1
      BY <1>6, <2>1, <2>2, <2>5
    <2> QED
      BY <1>2, <2>3, <2>4, <2>5
  <1> QED
    BY <1>5, <1>6 DEF r

(* The list is cut in two.                                                 *)
LEMMA ListCut ==
    ASSUME NEW S, NEW q \in Seq(S), NEW n \in 0 .. Len(q), NEW s, DisjointFrom(q, s)
    PROVE  LET front == SubSeq(q, 1, n)
               back == SubSeq(q, n + 1, Len(q))
           IN  /\ MessagesOf(q, s) = MessagesOf(front, s) \cup MessagesOf(back, s)
               /\ MessagesOf(front, s) \cap MessagesOf(back, s) = {}
               /\ DisjointFrom(back, s)
  <1> DEFINE front == SubSeq(q, 1, n)
             back == SubSeq(q, n + 1, Len(q))
  <1>0. Len(q) \in Nat /\ n \in Nat /\ n <= Len(q) /\ DOMAIN q = 1 .. Len(q)
    OBVIOUS
  <1>1. DOMAIN front = 1 .. n /\ \A i \in 1 .. n : front[i] = q[i]
    <2>1. \A i \in 1 .. n : q[i] \in S
      BY ElementOfSeq
    <2>2. /\ front \in Seq(S) /\ Len(front) = IF 1 <= n THEN n - 1 + 1 ELSE 0
          /\ \A i \in 1 .. n - 1 + 1 : front[i] = q[1 + i - 1]
      BY <2>1, SubSeqProperties
    <2> HIDE DEF front
    <2>3. Len(front) = n
      BY <1>0, <2>2
    <2>4. DOMAIN front = 1 .. n
      BY <2>2, <2>3, LenProperties
    <2>5. ASSUME NEW i \in 1 .. n PROVE front[i] = q[i]
      <3>1. i \in 1 .. n - 1 + 1 /\ 1 + i - 1 = i
        BY <1>0
      <3> QED
        BY <2>2, <3>1
    <2> QED
      BY <2>4, <2>5
  <1>2. DOMAIN back = 1 .. Len(q) - n /\ \A i \in 1 .. Len(q) - n : back[i] = q[i + n]
    <2>1. \A i \in n + 1 .. Len(q) : q[i] \in S
      BY ElementOfSeq
    <2>2. /\ back \in Seq(S)
          /\ Len(back) = IF n + 1 <= Len(q) THEN Len(q) - (n + 1) + 1 ELSE 0
          /\ \A i \in 1 .. Len(q) - (n + 1) + 1 : back[i] = q[n + 1 + i - 1]
      BY <1>0, <2>1, SubSeqProperties
    <2> HIDE DEF back
    <2>3. Len(back) = Len(q) - n
      <3>1. PICK k \in Nat : k = Len(q)
        BY <1>0
      <3>2. n \in Nat /\ n <= k /\ Len(back) = IF n + 1 <= k THEN k - (n + 1) + 1 ELSE 0
        BY <1>0, <2>2, <3>1
      <3>3. Len(back) = k - n
        BY <3>2
      <3> QED
        BY <3>1, <3>3
    <2>4. DOMAIN back = 1 .. Len(q) - n
      BY <2>2, <2>3, LenProperties
    <2>5. ASSUME NEW i \in 1 .. Len(q) - n PROVE back[i] = q[i + n]
      <3>1. i \in 1 .. Len(q) - (n + 1) + 1 /\ n + 1 + i - 1 = i + n
        BY <1>0
      <3> QED
        BY <2>2, <3>1
    <2> QED
      BY <2>4, <2>5
  <1> HIDE DEF front, back
  <1>3. \A i \in DOMAIN front : i \in DOMAIN q /\ i <= n /\ front[i] = q[i]
    BY <1>0, <1>1
  <1>4. \A i \in DOMAIN back :
           i \in Nat /\ i + n \in DOMAIN q /\ i + n > n /\ back[i] = q[i + n]
    BY <1>0, <1>2
  <1>5. ASSUME NEW i \in DOMAIN q
        PROVE  \/ i \in DOMAIN front /\ front[i] = q[i]
               \/ i - n \in DOMAIN back /\ back[i - n] = q[i]
    <2>1. CASE i <= n
      BY <1>0, <1>1, <2>1
    <2>2. CASE i > n
      <3>1. i - n \in 1 .. Len(q) - n /\ (i - n) + n = i
        BY <1>0, <2>2
      <3>2. back[i - n] = q[(i - n) + n]
        BY <1>2, <3>1
      <3> QED
        BY <1>2, <3>1, <3>2
    <2> QED
      BY <1>0, <2>1, <2>2
  <1>6. MessagesOf(q, s) = MessagesOf(front, s) \cup MessagesOf(back, s)
    <2>1. ASSUME NEW m \in MessagesOf(q, s)
          PROVE  m \in MessagesOf(front, s) \cup MessagesOf(back, s)
      <3>1. PICK i \in DOMAIN q : q[i].from = s /\ m \in Elements(q[i].msgs)
        BY <2>1, MessagesAre
      <3>2. CASE i \in DOMAIN front /\ front[i] = q[i]
        <4>1. m \in MessagesOf(front, s)
          BY <3>1, <3>2, MessagesAre
        <4> QED
          BY <4>1
      <3>3. CASE i - n \in DOMAIN back /\ back[i - n] = q[i]
        <4>1. m \in MessagesOf(back, s)
          BY <3>1, <3>3, MessagesAre
        <4> QED
          BY <4>1
      <3> QED
        BY <1>5, <3>2, <3>3
    <2>2. ASSUME NEW m \in MessagesOf(front, s) PROVE m \in MessagesOf(q, s)
      <3>1. PICK i \in DOMAIN front : front[i].from = s /\ m \in Elements(front[i].msgs)
        BY <2>2, MessagesAre
      <3>2. i \in DOMAIN q /\ front[i] = q[i]
        BY <1>3
      <3> QED
        BY <3>1, <3>2, MessagesAre
    <2>3. ASSUME NEW m \in MessagesOf(back, s) PROVE m \in MessagesOf(q, s)
      <3>1. PICK i \in DOMAIN back : back[i].from = s /\ m \in Elements(back[i].msgs)
        BY <2>3, MessagesAre
      <3>2. i + n \in DOMAIN q /\ back[i] = q[i + n]
        BY <1>4
      <3> QED
        BY <3>1, <3>2, MessagesAre
    <2> QED
      BY <2>1, <2>2, <2>3
  <1>7. MessagesOf(front, s) \cap MessagesOf(back, s) = {}
    <2> SUFFICES ASSUME NEW m \in MessagesOf(front, s), m \in MessagesOf(back, s)
                 PROVE  FALSE
      OBVIOUS
    <2>1. PICK i \in DOMAIN front : front[i].from = s /\ m \in Elements(front[i].msgs)
      BY MessagesAre
    <2>2. PICK j \in DOMAIN back : back[j].from = s /\ m \in Elements(back[j].msgs)
      BY MessagesAre
    <2>3. i \in DOMAIN q /\ j + n \in DOMAIN q /\ i # j + n
      BY <1>0, <1>1, <1>3, <1>4
    <2>4. /\ q[i].from = s /\ m \in Elements(q[i].msgs)
          /\ q[j + n].from = s /\ m \in Elements(q[j + n].msgs)
      BY <1>3, <1>4, <2>1, <2>2
    <2> QED
      BY <2>3, <2>4 DEF DisjointFrom
  <1>8. DisjointFrom(back, s)
    <2> SUFFICES ASSUME NEW i \in DOMAIN back, NEW j \in DOMAIN back, i # j,
                        back[i].from = s, back[j].from = s
                 PROVE  Elements(back[i].msgs) \cap Elements(back[j].msgs) = {}
      BY DEF DisjointFrom
    <2>1. /\ i + n \in DOMAIN q /\ j + n \in DOMAIN q /\ i + n # j + n
          /\ back[i] = q[i + n] /\ back[j] = q[j + n]
      BY <1>0, <1>4
    <2> QED
      BY <2>1 DEF DisjointFrom
  <1> QED
    BY <1>6, <1>7, <1>8 DEF front, back

(* The oldest batch leaves the list.                                       *)
LEMMA ListTail ==
    ASSUME NEW S, NEW q \in Seq(S), q # <<>>, NEW s, DisjointFrom(q, s)
    PROVE  /\ MessagesOf(q, s) = MessagesOf(Tail(q), s) \cup HeldFor(Head(q), s)
           /\ MessagesOf(Tail(q), s) \cap HeldFor(Head(q), s) = {}
           /\ DisjointFrom(Tail(q), s)
  <1> DEFINE r == Tail(q)
             x == Head(q)
  <1>1. /\ 1 \in DOMAIN q /\ x = q[1]
        /\ \A i \in DOMAIN r : i + 1 \in DOMAIN q /\ i + 1 # 1 /\ r[i] = q[i + 1]
        /\ \A i \in DOMAIN r, j \in DOMAIN r : i # j => i + 1 # j + 1
    OBVIOUS
  <1>2. \A i \in DOMAIN q : i # 1 => i - 1 \in DOMAIN r /\ r[i - 1] = q[i]
    BY MovesUp
  <1> HIDE DEF r, x
  <1>3. MessagesOf(q, s) = MessagesOf(r, s) \cup HeldFor(x, s)
    <2>1. ASSUME NEW m \in MessagesOf(q, s) PROVE m \in MessagesOf(r, s) \cup HeldFor(x, s)
      <3>1. PICK i \in DOMAIN q : q[i].from = s /\ m \in Elements(q[i].msgs)
        BY <2>1, MessagesAre
      <3>2. CASE i = 1
        BY <1>1, <3>1, <3>2 DEF HeldFor
      <3>3. CASE i # 1
        <4>1. i - 1 \in DOMAIN r /\ r[i - 1] = q[i]
          BY <1>2, <3>3
        <4>2. m \in MessagesOf(r, s)
          BY <3>1, <4>1, MessagesAre
        <4> QED
          BY <4>2
      <3> QED
        BY <3>2, <3>3
    <2>2. ASSUME NEW m \in MessagesOf(r, s) PROVE m \in MessagesOf(q, s)
      <3>1. PICK i \in DOMAIN r : r[i].from = s /\ m \in Elements(r[i].msgs)
        BY <2>2, MessagesAre
      <3>2. i + 1 \in DOMAIN q /\ r[i] = q[i + 1]
        BY <1>1
      <3> QED
        BY <3>1, <3>2, MessagesAre
    <2>3. ASSUME NEW m \in HeldFor(x, s) PROVE m \in MessagesOf(q, s)
      <3>1. x.from = s /\ m \in Elements(x.msgs)
        BY <2>3 DEF HeldFor
      <3> QED
        BY <1>1, <3>1, MessagesAre
    <2> QED
      BY <2>1, <2>2, <2>3
  <1>4. MessagesOf(r, s) \cap HeldFor(x, s) = {}
    <2> SUFFICES ASSUME NEW m \in MessagesOf(r, s), m \in HeldFor(x, s) PROVE FALSE
      OBVIOUS
    <2>1. PICK i \in DOMAIN r : r[i].from = s /\ m \in Elements(r[i].msgs)
      BY MessagesAre
    <2>2. x.from = s /\ m \in Elements(x.msgs)
      BY DEF HeldFor
    <2>3. /\ i + 1 \in DOMAIN q /\ i + 1 # 1 /\ 1 \in DOMAIN q
          /\ q[i + 1].from = s /\ m \in Elements(q[i + 1].msgs)
          /\ q[1].from = s /\ m \in Elements(q[1].msgs)
      BY <1>1, <2>1, <2>2
    <2>4. Elements(q[i + 1].msgs) \cap Elements(q[1].msgs) = {}
      BY <2>3 DEF DisjointFrom
    <2> QED
      BY <2>3, <2>4
  <1>5. DisjointFrom(r, s)
    <2> SUFFICES ASSUME NEW i \in DOMAIN r, NEW j \in DOMAIN r, i # j,
                        r[i].from = s, r[j].from = s
                 PROVE  Elements(r[i].msgs) \cap Elements(r[j].msgs) = {}
      BY DEF DisjointFrom
    <2>1. /\ i + 1 \in DOMAIN q /\ j + 1 \in DOMAIN q /\ i + 1 # j + 1
          /\ r[i] = q[i + 1] /\ r[j] = q[j + 1]
      BY <1>1
    <2>2. Elements(q[i + 1].msgs) \cap Elements(q[j + 1].msgs) = {}
      BY <2>1 DEF DisjointFrom
    <2> QED
      BY <2>1, <2>2
  <1> QED
    BY <1>3, <1>4, <1>5 DEF r, x

(* How the six sets may change.                                            *)
LEMMA ApartSend ==
    ASSUME NEW a, NEW b, NEW c, NEW d, NEW e, NEW f, NEW n \in Nat,
           Apart(a, b, c, d, e, f, n)
    PROVE  /\ Apart(a \cup {n + 1}, b, c, d, e, f, n + 1)
           /\ Apart({}, b \cup (a \cup {n + 1}), c, d, e, f, n + 1)
           /\ Apart({}, b \cup a, c, d, e, f, n)
           /\ b \cap (a \cup {n + 1}) = {}
           /\ b \cap a = {}
  <1>1. n + 1 \notin a \cup b \cup c \cup d \cup e \cup f
    <2>1. n + 1 \notin 1 .. n
      OBVIOUS
    <2> QED
      BY <2>1 DEF Apart
  <1>2. 1 .. n \subseteq 1 .. n + 1 /\ n + 1 \in 1 .. n + 1
    OBVIOUS
  <1>3. Apart(a \cup {n + 1}, b, c, d, e, f, n + 1)
    BY <1>1, <1>2 DEF Apart
  <1>4. Apart({}, b \cup (a \cup {n + 1}), c, d, e, f, n + 1)
    BY <1>1, <1>2 DEF Apart
  <1>5. Apart({}, b \cup a, c, d, e, f, n)
    BY DEF Apart
  <1>6. b \cap (a \cup {n + 1}) = {} /\ b \cap a = {}
    BY <1>1 DEF Apart
  <1> QED
    BY <1>3, <1>4, <1>5, <1>6

LEMMA ApartCommand ==
    ASSUME NEW a, NEW b, NEW c, NEW d, NEW e, NEW f, NEW n, NEW x,
           b \cap x = {}, Apart(a, b \cup x, c, d, e, f, n)
    PROVE  /\ Apart(a, b, c \cup x, d, e, f, n)
           /\ Apart(a, b, c, d \cup x, e, f, n)
           /\ Apart(a, b, c, d, e, f \cup x, n)
           /\ Apart(a, b, c, d, e, f, n)
           /\ c \cap x = {}
           /\ d \cap x = {}
  <1>1. Apart(a, b, c \cup x, d, e, f, n)
    BY DEF Apart
  <1>2. Apart(a, b, c, d \cup x, e, f, n)
    BY DEF Apart
  <1>3. Apart(a, b, c, d, e, f \cup x, n)
    BY DEF Apart
  <1>4. Apart(a, b, c, d, e, f, n)
    BY DEF Apart
  <1>5. c \cap x = {} /\ d \cap x = {}
    BY DEF Apart
  <1> QED
    BY <1>1, <1>2, <1>3, <1>4, <1>5

LEMMA ApartReply ==
    ASSUME NEW a, NEW b, NEW c, NEW d, NEW e, NEW f, NEW n, NEW x,
           c \cap x = {}, Apart(a, b, c \cup x, d, e, f, n)
    PROVE  /\ Apart(a, b \cup x, c, d, e, f, n)
           /\ Apart(a, b, c, d, e, f \cup x, n)
           /\ Apart(a, b, c, d, e, f, n)
           /\ b \cap x = {}
  <1>1. Apart(a, b \cup x, c, d, e, f, n)
    BY DEF Apart
  <1>2. Apart(a, b, c, d, e, f \cup x, n)
    BY DEF Apart
  <1>3. Apart(a, b, c, d, e, f, n)
    BY DEF Apart
  <1>4. b \cap x = {}
    BY DEF Apart
  <1> QED
    BY <1>1, <1>2, <1>3, <1>4

LEMMA ApartList ==
    ASSUME NEW a, NEW b, NEW c, NEW d, NEW e, NEW f, NEW n, NEW x,
           d \cap x = {}, Apart(a, b, c, d \cup x, e, f, n)
    PROVE  /\ Apart(a, b, c, d, e \cup x, f, n)
           /\ Apart(a, b, c, d, e, f \cup x, n)
  <1>1. Apart(a, b, c, d, e \cup x, f, n)
    BY DEF Apart
  <1>2. Apart(a, b, c, d, e, f \cup x, n)
    BY DEF Apart
  <1> QED
    BY <1>1, <1>2

(* Sequences of the senders after one of them has changed.                 *)
LEMMA AppendedAt ==
    ASSUME NEW S, NEW f \in [Senders -> Seq(S)], NEW s \in Senders, NEW x \in S,
           NEW t \in Senders
    PROVE  [f EXCEPT ![s] = Append(@, x)][t] = IF t = s THEN Append(f[s], x) ELSE f[t]
  OBVIOUS

LEMMA ElementsOfEmpty ==
    Elements(<<>>) = {} /\ Carried(<<>>) = {} /\ (\A s : MessagesOf(<<>>, s) = {})
    /\ Disjoint(<<>>) /\ (\A s : DisjointFrom(<<>>, s))
  BY DEF Elements, Carried, MessagesOf, Disjoint, DisjointFrom

LEMMA OnceInit == Init => EachOnce
  <1> SUFFICES ASSUME Init, NEW s \in Senders PROVE InOnePlace(s) /\ InOneBatch(s)
    BY DEF EachOnce
  <1>1. /\ eventQueue[s] = <<>> /\ pipe[s] = <<>> /\ replies[s] = <<>> /\ mq = <<>>
        /\ delivered[s] = <<>> /\ lost[s] = {} /\ sent[s] = 0
    BY DEF Init
  <1>2. Apart({}, {}, {}, {}, {}, {}, 0)
    BY DEF Apart
  <1>3. InOnePlace(s)
    BY <1>1, <1>2, ElementsOfEmpty DEF InOnePlace
  <1>4. InOneBatch(s)
    BY <1>1, ElementsOfEmpty DEF InOneBatch
  <1> QED
    BY <1>3, <1>4

(* The places of a sender whom a step does not touch.                      *)
LEMMA OnceKept ==
    ASSUME NEW t \in Senders, InOnePlace(t), InOneBatch(t),
           eventQueue'[t] = eventQueue[t], pipe'[t] = pipe[t], replies'[t] = replies[t],
           mq' = mq, delivered'[t] = delivered[t], lost'[t] = lost[t], sent'[t] = sent[t]
    PROVE  InOnePlace(t)' /\ InOneBatch(t)'
  BY DEF InOnePlace, InOneBatch

(* One command more, with the messages of q.                               *)
LEMMA PipeGrows ==
    ASSUME WellFormed, NEW s \in Senders, NEW c \in GoodCommands, InOneBatch(s),
           pipe' = [pipe EXCEPT ![s] = Append(@, c)]
    PROVE  /\ Carried(pipe'[s]) = Carried(pipe[s]) \cup Elements(c.msgs)
           /\ Carried(pipe[s]) \cap Elements(c.msgs) = {} => Disjoint(pipe'[s])
           /\ \A t \in Senders : t # s => pipe'[t] = pipe[t]
  <1>1. pipe[s] \in Seq(GoodCommands) /\ pipe'[s] = Append(pipe[s], c)
    BY DEF WellFormed
  <1>2. \A t \in Senders : t # s => pipe'[t] = pipe[t]
    BY DEF WellFormed
  <1>3. Disjoint(pipe[s])
    BY DEF InOneBatch
  <1> QED
    BY <1>1, <1>2, <1>3, CarriedAppend

LEMMA RepliesGrow ==
    ASSUME WellFormed, NEW s \in Senders, NEW r \in GoodReplies, InOneBatch(s),
           replies' = [replies EXCEPT ![s] = Append(@, r)]
    PROVE  /\ Carried(replies'[s]) = Carried(replies[s]) \cup Elements(r.msgs)
           /\ Carried(replies[s]) \cap Elements(r.msgs) = {} => Disjoint(replies'[s])
           /\ \A t \in Senders : t # s => replies'[t] = replies[t]
  <1>1. replies[s] \in Seq(GoodReplies) /\ replies'[s] = Append(replies[s], r)
    BY DEF WellFormed
  <1>2. \A t \in Senders : t # s => replies'[t] = replies[t]
    BY DEF WellFormed
  <1>3. Disjoint(replies[s])
    BY DEF InOneBatch
  <1> QED
    BY <1>1, <1>2, <1>3, CarriedAppend

(* One command less.                                                       *)
LEMMA PipeShrinks ==
    ASSUME WellFormed, NEW s \in Senders, pipe[s] # <<>>, InOneBatch(s),
           pipe' = [pipe EXCEPT ![s] = Tail(@)]
    PROVE  /\ Head(pipe[s]) \in GoodCommands
           /\ Carried(pipe[s]) = Carried(pipe'[s]) \cup Elements(Head(pipe[s]).msgs)
           /\ Carried(pipe'[s]) \cap Elements(Head(pipe[s]).msgs) = {}
           /\ Disjoint(pipe'[s])
           /\ \A t \in Senders : t # s => pipe'[t] = pipe[t]
  <1>1. pipe[s] \in Seq(GoodCommands) /\ pipe'[s] = Tail(pipe[s])
    BY DEF WellFormed
  <1>2. \A t \in Senders : t # s => pipe'[t] = pipe[t]
    BY DEF WellFormed
  <1>3. Disjoint(pipe[s])
    BY DEF InOneBatch
  <1>4. Head(pipe[s]) \in GoodCommands
    BY <1>1
  <1> QED
    BY <1>1, <1>2, <1>3, <1>4, CarriedTail

LEMMA RepliesShrink ==
    ASSUME WellFormed, NEW s \in Senders, replies[s] # <<>>, InOneBatch(s),
           replies' = [replies EXCEPT ![s] = Tail(@)]
    PROVE  /\ Head(replies[s]) \in GoodReplies
           /\ Carried(replies[s]) = Carried(replies'[s]) \cup Elements(Head(replies[s]).msgs)
           /\ Carried(replies'[s]) \cap Elements(Head(replies[s]).msgs) = {}
           /\ Disjoint(replies'[s])
           /\ \A t \in Senders : t # s => replies'[t] = replies[t]
  <1>1. replies[s] \in Seq(GoodReplies) /\ replies'[s] = Tail(replies[s])
    BY DEF WellFormed
  <1>2. \A t \in Senders : t # s => replies'[t] = replies[t]
    BY DEF WellFormed
  <1>3. Disjoint(replies[s])
    BY DEF InOneBatch
  <1>4. Head(replies[s]) \in GoodReplies
    BY <1>1
  <1> QED
    BY <1>1, <1>2, <1>3, <1>4, CarriedTail

(* Every action of a sender and of Redis moves messages on.                *)
LEMMA OnceSend ==
    ASSUME TypeOK, WellFormed, EachOnce, NEW s \in Senders, Enqueue(s) \/ Flush(s)
    PROVE  EachOnce'
  <1> SUFFICES ASSUME NEW t \in Senders PROVE InOnePlace(t)' /\ InOneBatch(t)'
    BY DEF EachOnce
  <1>0. UNCHANGED <<replies, mq, delivered, lost>>
    BY DEF Enqueue, Flush
  <1>1. InOnePlace(t) /\ InOneBatch(t) /\ InOnePlace(s) /\ InOneBatch(s)
    BY DEF EachOnce
  <1>2. /\ sent[s] \in Nat /\ eventQueue[s] \in Seq(Nat)
        /\ sent \in [Senders -> Nat] /\ eventQueue \in [Senders -> Seq(Nat)]
        /\ Different(eventQueue[s]) /\ Elements(eventQueue[s]) \subseteq 1 .. sent[s]
    BY DEF TypeOK, WellFormed
  <1>3. ASSUME NEW q \in Seq(Nat), Good(q), SendBatchReq(s, q)
        PROVE  /\ Carried(pipe'[s]) = Carried(pipe[s]) \cup Elements(q)
               /\ Carried(pipe[s]) \cap Elements(q) = {} => Disjoint(pipe'[s])
               /\ \A u \in Senders : u # s => pipe'[u] = pipe[u]
    <2>1. PICK c \in GoodCommands :
             c.msgs = q /\ pipe' = [pipe EXCEPT ![s] = Append(@, c)]
      BY <1>3, SendGoodBatch
    <2> QED
      BY <1>1, <2>1, PipeGrows
  <1>4. ASSUME Enqueue(s) PROVE InOnePlace(t)' /\ InOneBatch(t)'
    <2> DEFINE queue == Append(eventQueue[s], sent[s] + 1)
    <2>1. /\ queue \in Seq(Nat) /\ Good(queue)
          /\ Elements(queue) = Elements(eventQueue[s]) \cup {sent[s] + 1}
      BY <1>2, AppendNew
    <2> HIDE DEF queue
    <2>2. Put(s, queue, Len(queue) >= BatchSize) /\ sent' = [sent EXCEPT ![s] = @ + 1]
      BY <1>4 DEF Enqueue, PutLast, queue
    <2>3. sent'[s] = sent[s] + 1 /\ (t # s => sent'[t] = sent[t])
      BY <1>2, <2>2
    <2>4. ASSUME eventQueue' = [eventQueue EXCEPT ![s] = queue], pipe' = pipe
          PROVE  InOnePlace(t)' /\ InOneBatch(t)'
      <3>1. eventQueue'[s] = queue /\ (t # s => eventQueue'[t] = eventQueue[t])
        BY <1>2, <2>4
      <3>2. CASE t # s
        BY <1>0, <1>1, <2>3, <2>4, <3>1, <3>2, OnceKept
      <3>3. CASE t = s
        <4>1. Apart(Elements(queue), Carried(pipe[s]), Carried(replies[s]),
                    MessagesOf(mq, s), Elements(delivered[s]), lost[s], sent[s] + 1)
          <5>1. Apart(Elements(eventQueue[s]) \cup {sent[s] + 1}, Carried(pipe[s]),
                      Carried(replies[s]), MessagesOf(mq, s), Elements(delivered[s]),
                      lost[s], sent[s] + 1)
            BY <1>1, <1>2, ApartSend DEF InOnePlace
          <5> QED
            BY <2>1, <5>1
        <4>2. InOnePlace(t)'
          BY <1>0, <2>3, <2>4, <3>1, <3>3, <4>1 DEF InOnePlace
        <4>3. InOneBatch(t)'
          BY <1>0, <1>1, <2>4 DEF InOneBatch
        <4> QED
          BY <4>2, <4>3
      <3> QED
        BY <3>2, <3>3
    <2>5. ASSUME eventQueue' = [eventQueue EXCEPT ![s] = <<>>], SendBatchReq(s, queue)
          PROVE  InOnePlace(t)' /\ InOneBatch(t)'
      <3>1. eventQueue'[s] = <<>> /\ (t # s => eventQueue'[t] = eventQueue[t])
        BY <1>2, <2>5
      <3>2. /\ Carried(pipe'[s]) = Carried(pipe[s]) \cup Elements(queue)
            /\ Carried(pipe[s]) \cap Elements(queue) = {} => Disjoint(pipe'[s])
            /\ t # s => pipe'[t] = pipe[t]
        BY <1>3, <2>1, <2>5
      <3>3. CASE t # s
        BY <1>0, <1>1, <2>3, <3>1, <3>2, <3>3, OnceKept
      <3>4. CASE t = s
        <4>1. /\ Apart({}, Carried(pipe[s]) \cup Elements(queue), Carried(replies[s]),
                       MessagesOf(mq, s), Elements(delivered[s]), lost[s], sent[s] + 1)
              /\ Carried(pipe[s]) \cap Elements(queue) = {}
          <5> DEFINE all == Elements(eventQueue[s]) \cup {sent[s] + 1}
          <5>1. /\ Apart({}, Carried(pipe[s]) \cup all, Carried(replies[s]),
                         MessagesOf(mq, s), Elements(delivered[s]), lost[s], sent[s] + 1)
                /\ Carried(pipe[s]) \cap all = {}
            BY <1>1, <1>2, ApartSend DEF InOnePlace
          <5> QED
            BY <2>1, <5>1
        <4>2. InOnePlace(t)'
          BY <1>0, <2>3, <3>1, <3>2, <3>4, <4>1, ElementsOfEmpty DEF InOnePlace
        <4>3. InOneBatch(t)'
          BY <1>0, <1>1, <3>2, <3>4, <4>1 DEF InOneBatch
        <4> QED
          BY <4>2, <4>3
      <3> QED
        BY <3>3, <3>4
    <2> QED
      BY <2>2, <2>4, <2>5 DEF Put
  <1>5. ASSUME Flush(s) PROVE InOnePlace(t)' /\ InOneBatch(t)'
    <2>1. /\ eventQueue' = [eventQueue EXCEPT ![s] = <<>>] /\ sent' = sent
          /\ eventQueue[s] # <<>> /\ SendBatchReq(s, eventQueue[s])
      BY <1>5 DEF Flush
    <2>2. Good(eventQueue[s])
      BY <1>2, <2>1 DEF Good
    <2>3. eventQueue'[s] = <<>> /\ (t # s => eventQueue'[t] = eventQueue[t])
      BY <1>2, <2>1
    <2>4. /\ Carried(pipe'[s]) = Carried(pipe[s]) \cup Elements(eventQueue[s])
          /\ Carried(pipe[s]) \cap Elements(eventQueue[s]) = {} => Disjoint(pipe'[s])
          /\ t # s => pipe'[t] = pipe[t]
      BY <1>2, <1>3, <2>1, <2>2
    <2>5. CASE t # s
      BY <1>0, <1>1, <2>1, <2>3, <2>4, <2>5, OnceKept
    <2>6. CASE t = s
      <3>1. /\ Apart({}, Carried(pipe[s]) \cup Elements(eventQueue[s]),
                     Carried(replies[s]), MessagesOf(mq, s), Elements(delivered[s]),
                     lost[s], sent[s])
            /\ Carried(pipe[s]) \cap Elements(eventQueue[s]) = {}
        BY <1>1, <1>2, ApartSend DEF InOnePlace
      <3>2. InOnePlace(t)'
        BY <1>0, <2>1, <2>3, <2>4, <2>6, <3>1, ElementsOfEmpty DEF InOnePlace
      <3>3. InOneBatch(t)'
        BY <1>0, <1>1, <2>4, <2>6, <3>1 DEF InOneBatch
      <3> QED
        BY <3>2, <3>3
    <2> QED
      BY <2>5, <2>6
  <1> QED
    BY <1>4, <1>5

LEMMA OnceHandleReply ==
    ASSUME TypeOK, WellFormed, EachOnce, NEW s \in Senders, HandleReply(s)
    PROVE  EachOnce'
  <1> SUFFICES ASSUME NEW t \in Senders PROVE InOnePlace(t)' /\ InOneBatch(t)'
    BY DEF EachOnce
  <1>1. InOnePlace(t) /\ InOneBatch(t) /\ InOnePlace(s) /\ InOneBatch(s)
    BY DEF EachOnce
  <1> DEFINE reply == Head(replies[s])
             moved == Elements(reply.msgs)
  <1>2. /\ UNCHANGED <<sent, eventQueue, mq, delivered>>
        /\ replies[s] # <<>> /\ replies' = [replies EXCEPT ![s] = Tail(@)]
        /\ HandleLen(s, reply) \/ HandlePush(s, reply) \/ HandleDead(s, reply)
    BY DEF HandleReply
  <1>3. /\ reply \in GoodReplies
        /\ Carried(replies[s]) = Carried(replies'[s]) \cup moved
        /\ Carried(replies'[s]) \cap moved = {}
        /\ Disjoint(replies'[s])
        /\ t # s => replies'[t] = replies[t]
    BY <1>1, <1>2, RepliesShrink
  <1>4. reply.msgs \in Seq(Nat)
    BY <1>3 DEF GoodReplies, Replies
  <1> HIDE DEF reply
  <1>5. /\ Apart(Elements(eventQueue[s]), Carried(pipe[s]), Carried(replies'[s]) \cup moved,
                 MessagesOf(mq, s), Elements(delivered[s]), lost[s], sent[s])
        /\ Carried(replies'[s]) \cap moved = {}
    BY <1>1, <1>3 DEF InOnePlace
  <1> HIDE DEF moved
  <1>6. /\ Apart(Elements(eventQueue[s]), Carried(pipe[s]) \cup moved,
                 Carried(replies'[s]), MessagesOf(mq, s), Elements(delivered[s]),
                 lost[s], sent[s])
        /\ Apart(Elements(eventQueue[s]), Carried(pipe[s]), Carried(replies'[s]),
                 MessagesOf(mq, s), Elements(delivered[s]), lost[s] \cup moved, sent[s])
        /\ Apart(Elements(eventQueue[s]), Carried(pipe[s]), Carried(replies'[s]),
                 MessagesOf(mq, s), Elements(delivered[s]), lost[s], sent[s])
        /\ Carried(pipe[s]) \cap moved = {}
    <2> DEFINE a == Elements(eventQueue[s])
               b == Carried(pipe[s])
               c == Carried(replies'[s])
               d == MessagesOf(mq, s)
               e == Elements(delivered[s])
               f == lost[s]
               n == sent[s]
    <2>1. Apart(a, b, c \cup moved, d, e, f, n) /\ c \cap moved = {}
      BY <1>5
    <2> HIDE DEF a, b, c, d, e, f, n
    <2>2. /\ Apart(a, b \cup moved, c, d, e, f, n)
          /\ Apart(a, b, c, d, e, f \cup moved, n)
          /\ Apart(a, b, c, d, e, f, n)
          /\ b \cap moved = {}
      BY <2>1, ApartReply
    <2> QED
      BY <2>2 DEF a, b, c, d, e, f, n
  (* The messages of the reply are given up.                               *)
  <1>7. ASSUME lost' = [lost EXCEPT ![s] = @ \cup moved], pipe' = pipe
        PROVE  InOnePlace(t)' /\ InOneBatch(t)'
    <2>1. lost'[s] = lost[s] \cup moved /\ (t # s => lost'[t] = lost[t])
      BY <1>7 DEF TypeOK
    <2>2. CASE t # s
      BY <1>1, <1>2, <1>3, <1>7, <2>1, <2>2, OnceKept
    <2>3. CASE t = s
      <3>1. InOnePlace(t)'
        BY <1>2, <1>6, <1>7, <2>1, <2>3 DEF InOnePlace
      <3>2. InOneBatch(t)'
        BY <1>1, <1>2, <1>3, <1>7, <2>3 DEF InOneBatch
      <3> QED
        BY <3>1, <3>2
    <2> QED
      BY <2>2, <2>3
  (* A command follows, with the messages of the reply or without.         *)
  <1>8. ASSUME NEW c \in GoodCommands, Elements(c.msgs) = moved \/ Elements(c.msgs) = {},
               pipe' = [pipe EXCEPT ![s] = Append(@, c)], lost' = lost
        PROVE  InOnePlace(t)' /\ InOneBatch(t)'
    <2>1. /\ Carried(pipe'[s]) = Carried(pipe[s]) \cup Elements(c.msgs)
          /\ Carried(pipe[s]) \cap Elements(c.msgs) = {} => Disjoint(pipe'[s])
          /\ t # s => pipe'[t] = pipe[t]
      BY <1>1, <1>8, PipeGrows
    <2>2. CASE t # s
      BY <1>1, <1>2, <1>3, <1>8, <2>1, <2>2, OnceKept
    <2>3. CASE t = s
      <3>1. Disjoint(pipe'[s])
        BY <1>6, <1>8, <2>1
      <3>2. Carried(pipe'[s]) = Carried(pipe[s]) \cup moved \/ Carried(pipe'[s]) = Carried(pipe[s])
        BY <1>8, <2>1
      <3>3. InOnePlace(t)'
        <4>1. CASE Carried(pipe'[s]) = Carried(pipe[s]) \cup moved
          BY <1>2, <1>6, <1>8, <2>3, <4>1 DEF InOnePlace
        <4>2. CASE Carried(pipe'[s]) = Carried(pipe[s])
          BY <1>2, <1>6, <1>8, <2>3, <4>2 DEF InOnePlace
        <4> QED
          BY <3>2, <4>1, <4>2
      <3>4. InOneBatch(t)'
        BY <1>1, <1>2, <1>3, <2>3, <3>1 DEF InOneBatch
      <3> QED
        BY <3>3, <3>4
    <2> QED
      BY <2>2, <2>3
  (* Nothing follows.                                                      *)
  <1>9. ASSUME pipe' = pipe, lost' = lost
        PROVE  InOnePlace(t)' /\ InOneBatch(t)'
    <2>1. CASE t # s
      BY <1>1, <1>2, <1>3, <1>9, <2>1, OnceKept
    <2>2. CASE t = s
      <3>1. InOnePlace(t)'
        BY <1>2, <1>6, <1>9, <2>2 DEF InOnePlace
      <3>2. InOneBatch(t)'
        BY <1>1, <1>2, <1>3, <1>9, <2>2 DEF InOneBatch
      <3> QED
        BY <3>1, <3>2
    <2> QED
      BY <2>1, <2>2
  <1>10. /\ Command("trim", <<>>) \in GoodCommands /\ Command("clear", <<>>) \in GoodCommands
         /\ Elements(Command("trim", <<>>).msgs) = {}
         /\ Elements(Command("clear", <<>>).msgs) = {}
    BY GoodCommandType, ElementsOfEmpty DEF Command
  <1>11. CASE HandleLen(s, reply)
    <2>1. Command("push", reply.msgs) \in GoodCommands
      BY <1>3, <1>4, <1>11, GoodCommandType DEF HandleLen, GoodReplies
    <2>2. Elements(Command("push", reply.msgs).msgs) = moved
      BY DEF Command, moved
    <2>3. \/ lost' = [lost EXCEPT ![s] = @ \cup moved] /\ pipe' = pipe
          \/ /\ pipe' = [pipe EXCEPT ![s] = Append(@, Command("push", reply.msgs))]
             /\ lost' = lost
      BY <1>11 DEF HandleLen, moved
    <2> QED
      BY <1>7, <1>8, <2>1, <2>2, <2>3
  <1>12. CASE HandlePush(s, reply)
    BY <1>8, <1>9, <1>10, <1>12 DEF HandlePush
  <1>13. CASE HandleDead(s, reply)
    BY <1>8, <1>9, <1>10, <1>13 DEF HandleDead
  <1> QED
    BY <1>2, <1>11, <1>12, <1>13

LEMMA OnceDies ==
    ASSUME TypeOK, WellFormed, EachOnce, NEW s \in Senders, NodeDies(s)
    PROVE  EachOnce'
  <1> SUFFICES ASSUME NEW t \in Senders PROVE InOnePlace(t)' /\ InOneBatch(t)'
    BY DEF EachOnce
  <1>1. InOnePlace(t) /\ InOneBatch(t) /\ InOnePlace(s) /\ InOneBatch(s)
    BY DEF EachOnce
  <1>2. /\ UNCHANGED <<sent, eventQueue, replies, mq, delivered, lost>>
        /\ pipe' = [pipe EXCEPT ![s] = Append(@, Command("dead", <<>>))]
    BY DEF NodeDies
  <1>3. Command("dead", <<>>) \in GoodCommands /\ Elements(Command("dead", <<>>).msgs) = {}
    BY GoodCommandType, ElementsOfEmpty DEF Command
  <1>4. /\ Carried(pipe'[s]) = Carried(pipe[s])
        /\ Disjoint(pipe'[s])
        /\ t # s => pipe'[t] = pipe[t]
    BY <1>1, <1>2, <1>3, PipeGrows
  <1>5. CASE t # s
    BY <1>1, <1>2, <1>4, <1>5, OnceKept
  <1>6. CASE t = s
    <2>1. InOnePlace(t)'
      BY <1>1, <1>2, <1>4, <1>6 DEF InOnePlace
    <2>2. InOneBatch(t)'
      BY <1>1, <1>2, <1>4, <1>6 DEF InOneBatch
    <2> QED
      BY <2>1, <2>2
  <1> QED
    BY <1>5, <1>6

LEMMA OnceConsume ==
    ASSUME TypeOK, WellFormed, EachOnce, Consume
    PROVE  EachOnce'
  <1> SUFFICES ASSUME NEW t \in Senders PROVE InOnePlace(t)' /\ InOneBatch(t)'
    BY DEF EachOnce
  <1> DEFINE b == Head(mq)
  <1>1. /\ InOnePlace(t) /\ InOneBatch(t) /\ DisjointFrom(mq, t)
        /\ mq \in Seq(GoodBatches) /\ mq # <<>>
    BY DEF EachOnce, InOneBatch, WellFormed, Consume
  <1>2. /\ UNCHANGED <<sent, eventQueue, pipe, replies, lost>>
        /\ delivered' = [delivered EXCEPT ![b.from] = @ \o b.msgs] /\ mq' = Tail(mq)
    BY DEF Consume, nodeVars
  <1>3. b \in Batches
    BY <1>1 DEF GoodBatches
  <1>4. /\ MessagesOf(mq, t) = MessagesOf(mq', t) \cup HeldFor(b, t)
        /\ MessagesOf(mq', t) \cap HeldFor(b, t) = {}
        /\ DisjointFrom(mq', t)
    BY <1>1, <1>2, ListTail
  <1> HIDE DEF b
  <1>5. Elements(delivered'[t]) = Elements(delivered[t]) \cup HeldFor(b, t)
    <2>1. b.from \in Senders /\ b.msgs \in Seq(Nat) /\ delivered \in [Senders -> Seq(Nat)]
      BY <1>3 DEF Batches, TypeOK
    <2>2. CASE t = b.from
      <3>1. delivered'[t] = delivered[t] \o b.msgs /\ HeldFor(b, t) = Elements(b.msgs)
        BY <1>2, <2>1, <2>2 DEF HeldFor
      <3>2. Elements(delivered[t] \o b.msgs) = Elements(delivered[t]) \cup Elements(b.msgs)
        BY <2>1, ElementsConcat
      <3> QED
        BY <3>1, <3>2
    <2>3. CASE t # b.from
      <3>1. delivered'[t] = delivered[t] /\ HeldFor(b, t) = {}
        BY <1>2, <2>1, <2>3 DEF HeldFor
      <3> QED
        BY <3>1
    <2> QED
      BY <2>2, <2>3
  <1>6. Apart(Elements(eventQueue[t]), Carried(pipe[t]), Carried(replies[t]),
              MessagesOf(mq', t) \cup HeldFor(b, t), Elements(delivered[t]), lost[t], sent[t])
    BY <1>1, <1>4 DEF InOnePlace
  <1>7. Apart(Elements(eventQueue[t]), Carried(pipe[t]), Carried(replies[t]),
              MessagesOf(mq', t), Elements(delivered[t]) \cup HeldFor(b, t), lost[t], sent[t])
    BY <1>4, <1>6, ApartList
  <1>8. InOnePlace(t)'
    BY <1>2, <1>5, <1>7 DEF InOnePlace
  <1>9. InOneBatch(t)'
    BY <1>1, <1>2, <1>4 DEF InOneBatch
  <1> QED
    BY <1>8, <1>9

(* The next command of a sender leaves its pipe: its messages may wait for *)
(* the reply, join the list, be given up, or be dropped.                   *)
LEMMA CommandTaken ==
    ASSUME WellFormed, EachOnce, NEW s \in Senders, pipe[s] # <<>>,
           pipe' = [pipe EXCEPT ![s] = Tail(@)]
    PROVE  LET x == Elements(Head(pipe[s]).msgs)
               a == Elements(eventQueue[s])
               b == Carried(pipe'[s])
               c == Carried(replies[s])
               d == MessagesOf(mq, s)
               e == Elements(delivered[s])
               f == lost[s]
               n == sent[s]
           IN  /\ Head(pipe[s]) \in GoodCommands
               /\ Disjoint(pipe'[s])
               /\ \A t \in Senders : t # s => pipe'[t] = pipe[t]
               /\ Apart(a, b, c \cup x, d, e, f, n) /\ c \cap x = {}
               /\ Apart(a, b, c, d \cup x, e, f, n) /\ d \cap x = {}
               /\ Apart(a, b, c, d, e, f \cup x, n)
               /\ Apart(a, b, c, d, e, f, n)
  <1> DEFINE x == Elements(Head(pipe[s]).msgs)
             a == Elements(eventQueue[s])
             b == Carried(pipe'[s])
             c == Carried(replies[s])
             d == MessagesOf(mq, s)
             e == Elements(delivered[s])
             f == lost[s]
             n == sent[s]
  <1>1. InOnePlace(s) /\ InOneBatch(s)
    BY DEF EachOnce
  <1>2. /\ Head(pipe[s]) \in GoodCommands
        /\ Carried(pipe[s]) = b \cup x /\ b \cap x = {}
        /\ Disjoint(pipe'[s])
        /\ \A t \in Senders : t # s => pipe'[t] = pipe[t]
    BY <1>1, PipeShrinks
  <1>3. Apart(a, b \cup x, c, d, e, f, n) /\ b \cap x = {}
    BY <1>1, <1>2 DEF InOnePlace
  <1> HIDE DEF x, a, b, c, d, e, f, n
  <1>4. /\ Apart(a, b, c \cup x, d, e, f, n) /\ c \cap x = {}
        /\ Apart(a, b, c, d \cup x, e, f, n) /\ d \cap x = {}
        /\ Apart(a, b, c, d, e, f \cup x, n)
        /\ Apart(a, b, c, d, e, f, n)
    <2>1. Apart(a, b, c \cup x, d, e, f, n) /\ Apart(a, b, c, d \cup x, e, f, n)
      BY <1>3, ApartCommand, Zenon
    <2>2. Apart(a, b, c, d, e, f \cup x, n) /\ Apart(a, b, c, d, e, f, n)
      BY <1>3, ApartCommand, Zenon
    <2>3. c \cap x = {} /\ d \cap x = {}
      BY <1>3 DEF Apart
    <2> QED
      BY <2>1, <2>2, <2>3
  <1> QED
    <2>1. /\ Head(pipe[s]) \in GoodCommands
          /\ Disjoint(pipe'[s])
          /\ \A t \in Senders : t # s => pipe'[t] = pipe[t]
      BY <1>2
    <2> USE DEF x, a, b, c, d, e, f, n
    <2> QED
      BY <1>4, <2>1, Zenon

(* The command runs and its messages go to a reply.                        *)
LEMMA TakenToReply ==
    ASSUME WellFormed, EachOnce, NEW s \in Senders, pipe[s] # <<>>,
           pipe' = [pipe EXCEPT ![s] = Tail(@)],
           NEW r \in GoodReplies, r.msgs = Head(pipe[s]).msgs,
           replies' = [replies EXCEPT ![s] = Append(@, r)],
           UNCHANGED <<sent, eventQueue, mq, delivered, lost>>
    PROVE  EachOnce'
  <1> SUFFICES ASSUME NEW t \in Senders PROVE InOnePlace(t)' /\ InOneBatch(t)'
    BY DEF EachOnce
  <1> DEFINE x == Elements(Head(pipe[s]).msgs)
  <1>1. InOnePlace(t) /\ InOneBatch(t) /\ InOneBatch(s)
    BY DEF EachOnce
  <1>2. /\ Disjoint(pipe'[s])
        /\ t # s => pipe'[t] = pipe[t]
        /\ Carried(replies[s]) \cap x = {}
        /\ Apart(Elements(eventQueue[s]), Carried(pipe'[s]), Carried(replies[s]) \cup x,
                 MessagesOf(mq, s), Elements(delivered[s]), lost[s], sent[s])
    BY CommandTaken
  <1>3. /\ Carried(replies'[s]) = Carried(replies[s]) \cup x
        /\ Carried(replies[s]) \cap x = {} => Disjoint(replies'[s])
        /\ t # s => replies'[t] = replies[t]
    BY <1>1, RepliesGrow
  <1> HIDE DEF x
  <1>4. CASE t # s
    BY <1>1, <1>2, <1>3, <1>4, OnceKept
  <1>5. CASE t = s
    <2>1. InOnePlace(t)'
      BY <1>2, <1>3, <1>5 DEF InOnePlace
    <2>2. InOneBatch(t)'
      BY <1>1, <1>2, <1>3, <1>5 DEF InOneBatch
    <2> QED
      BY <2>1, <2>2
  <1> QED
    BY <1>4, <1>5

(* The command runs and its messages go to the list.                       *)
LEMMA TakenToList ==
    ASSUME WellFormed, EachOnce, NEW s \in Senders, pipe[s] # <<>>,
           pipe' = [pipe EXCEPT ![s] = Tail(@)],
           NEW b \in GoodBatches, b.from = s, b.msgs = Head(pipe[s]).msgs,
           NEW r \in GoodReplies, r.msgs = <<>>,
           mq' = Append(mq, b),
           replies' = [replies EXCEPT ![s] = Append(@, r)],
           UNCHANGED <<sent, eventQueue, delivered, lost>>
    PROVE  EachOnce'
  <1> SUFFICES ASSUME NEW t \in Senders PROVE InOnePlace(t)' /\ InOneBatch(t)'
    BY DEF EachOnce
  <1> DEFINE x == Elements(Head(pipe[s]).msgs)
  <1>1. InOnePlace(t) /\ InOneBatch(t) /\ InOneBatch(s) /\ DisjointFrom(mq, t)
    BY DEF EachOnce, InOneBatch
  <1>2. /\ Disjoint(pipe'[s])
        /\ t # s => pipe'[t] = pipe[t]
        /\ MessagesOf(mq, s) \cap x = {}
        /\ Apart(Elements(eventQueue[s]), Carried(pipe'[s]), Carried(replies[s]),
                 MessagesOf(mq, s) \cup x, Elements(delivered[s]), lost[s], sent[s])
    BY CommandTaken
  <1>3. /\ Carried(replies'[s]) = Carried(replies[s])
        /\ Disjoint(replies'[s])
        /\ t # s => replies'[t] = replies[t]
    <2>1. /\ Carried(replies'[s]) = Carried(replies[s]) \cup Elements(r.msgs)
          /\ Carried(replies[s]) \cap Elements(r.msgs) = {} => Disjoint(replies'[s])
          /\ t # s => replies'[t] = replies[t]
      BY <1>1, RepliesGrow
    <2>2. Elements(r.msgs) = {}
      BY ElementsOfEmpty
    <2> QED
      BY <2>1, <2>2
  <1>4. /\ MessagesOf(mq', t) = MessagesOf(mq, t) \cup HeldFor(b, t)
        /\ MessagesOf(mq, t) \cap HeldFor(b, t) = {} => DisjointFrom(mq', t)
    BY <1>1, ListAppend DEF WellFormed
  <1>5. HeldFor(b, t) = IF t = s THEN x ELSE {}
    BY DEF HeldFor
  <1> HIDE DEF x
  <1>6. CASE t # s
    <2>1. MessagesOf(mq', t) = MessagesOf(mq, t) /\ DisjointFrom(mq', t)
      BY <1>4, <1>5, <1>6
    <2>2. InOnePlace(t)'
      BY <1>1, <1>2, <1>3, <1>6, <2>1 DEF InOnePlace
    <2>3. InOneBatch(t)'
      BY <1>1, <1>2, <1>3, <1>6, <2>1 DEF InOneBatch
    <2> QED
      BY <2>2, <2>3
  <1>7. CASE t = s
    <2>1. MessagesOf(mq', s) = MessagesOf(mq, s) \cup x /\ DisjointFrom(mq', s)
      BY <1>2, <1>4, <1>5, <1>7
    <2>2. InOnePlace(t)'
      BY <1>2, <1>3, <1>7, <2>1 DEF InOnePlace
    <2>3. InOneBatch(t)'
      BY <1>2, <1>3, <1>7, <2>1 DEF InOneBatch
    <2> QED
      BY <2>2, <2>3
  <1> QED
    BY <1>6, <1>7

(* The command runs and the front of the list is given up.                 *)
LEMMA TakenAndCut ==
    ASSUME TypeOK, WellFormed, EachOnce, NEW s \in Senders, pipe[s] # <<>>,
           pipe' = [pipe EXCEPT ![s] = Tail(@)],
           NEW front, lost' = Losing(front),
           \A t \in Senders :
              /\ MessagesOf(mq, t) = MessagesOf(front, t) \cup MessagesOf(mq', t)
              /\ MessagesOf(front, t) \cap MessagesOf(mq', t) = {}
              /\ DisjointFrom(mq', t),
           UNCHANGED <<sent, eventQueue, replies, delivered>>
    PROVE  EachOnce'
  <1> SUFFICES ASSUME NEW t \in Senders PROVE InOnePlace(t)' /\ InOneBatch(t)'
    BY DEF EachOnce
  <1> DEFINE x == MessagesOf(front, t)
             a == Elements(eventQueue[t])
             b == Carried(pipe'[t])
             c == Carried(replies[t])
             d == MessagesOf(mq', t)
             e == Elements(delivered[t])
             f == lost[t]
             n == sent[t]
  <1>1. InOnePlace(t) /\ InOneBatch(t)
    BY DEF EachOnce
  <1>2. Disjoint(pipe'[t]) /\ Apart(a, b, c, MessagesOf(mq, t), e, f, n)
    <2>1. CASE t = s
      BY <2>1, CommandTaken
    <2>2. CASE t # s
      <3>1. pipe'[t] = pipe[t]
        BY <2>2, CommandTaken
      <3> QED
        BY <1>1, <3>1 DEF InOnePlace, InOneBatch
    <2> QED
      BY <2>1, <2>2
  <1>3. MessagesOf(mq, t) = d \cup x /\ d \cap x = {} /\ DisjointFrom(mq', t)
    OBVIOUS
  <1>4. lost'[t] = f \cup x
    BY DEF Losing
  <1>5. Apart(a, b, c, d \cup x, e, f, n) /\ d \cap x = {}
    BY <1>2, <1>3
  <1> HIDE DEF x, a, b, c, d, e, f, n
  <1>6. Apart(a, b, c, d, e, f \cup x, n)
    BY <1>5, ApartList
  <1>7. InOnePlace(t)'
    BY <1>4, <1>6 DEF InOnePlace, a, b, c, d, e, n
  <1>8. InOneBatch(t)'
    BY <1>1, <1>2, <1>3 DEF InOneBatch
  <1> QED
    BY <1>7, <1>8

LEMMA OnceRun ==
    ASSUME TypeOK, WellFormed, EachOnce, NEW s \in Senders, Run(s)
    PROVE  EachOnce'
  <1> DEFINE c == Head(pipe[s])
  <1>1. /\ pipe[s] # <<>> /\ pipe' = [pipe EXCEPT ![s] = Tail(@)]
        /\ UNCHANGED <<sent, eventQueue, delivered>>
        /\ RunLen(s, c) \/ RunPush(s, c) \/ RunTrim(c) \/ RunClear(c)
    BY DEF Run, nodeVars
  <1>2. c \in GoodCommands /\ mq \in Seq(GoodBatches) /\ Len(mq) \in Nat
    BY <1>1, CommandTaken DEF WellFormed
  <1>3. CASE RunLen(s, c)
    <2> DEFINE r == [op |-> c.op, msgs |-> c.msgs, len |-> Len(mq)]
    <2>1. r \in GoodReplies /\ r.msgs = Head(pipe[s]).msgs
      <3> HIDE DEF c
      <3>1. r \in GoodReplies /\ r.msgs = c.msgs
        BY <1>2, <1>3 DEF RunLen, GoodCommands, GoodReplies, Commands, Replies
      <3> QED
        BY <3>1 DEF c
    <2>2. /\ replies' = [replies EXCEPT ![s] = Append(@, r)]
          /\ UNCHANGED <<mq, lost>>
      BY <1>3 DEF RunLen, Reply
    <2> HIDE DEF r
    <2> QED
      BY <1>1, <2>1, <2>2, TakenToReply
  <1>4. CASE RunPush(s, c)
    <2> DEFINE r == [op |-> "push", msgs |-> <<>>, len |-> Len(mq) + 1]
               b == [from |-> s, msgs |-> c.msgs]
    <2>1. r \in GoodReplies /\ r.msgs = <<>>
      <3>1. <<>> \in Seq(Nat) /\ Len(mq) + 1 \in Nat
        BY <1>2
      <3> QED
        BY <3>1 DEF GoodReplies, Replies
    <2>2. b \in GoodBatches /\ b.from = s /\ b.msgs = Head(pipe[s]).msgs
      <3> HIDE DEF c
      <3>1. c \in Commands /\ Good(c.msgs)
        BY <1>2, <1>4 DEF RunPush, GoodCommands
      <3>2. b \in GoodBatches /\ b.from = s /\ b.msgs = c.msgs
        BY <3>1 DEF GoodBatches, Commands, Batches
      <3> QED
        BY <3>2 DEF c
    <2>3. /\ replies' = [replies EXCEPT ![s] = Append(@, r)]
          /\ mq' = Append(mq, b) /\ lost' = lost
      BY <1>4 DEF RunPush, Reply, Command
    <2> HIDE DEF r, b
    <2> QED
      BY <1>1, <2>1, <2>2, <2>3, TakenToList
  <1>5. CASE RunTrim(c)
    <2> DEFINE excess == IF Len(mq) > TrimLen THEN Len(mq) - TrimLen ELSE 0
               front == SubSeq(mq, 1, excess)
    <2>1. excess \in 0 .. Len(mq)
      BY <1>2, QueueAssumption
    <2>2. /\ mq' = SubSeq(mq, excess + 1, Len(mq)) /\ lost' = Losing(front)
          /\ replies' = replies
      BY <1>5 DEF RunTrim
    <2> HIDE DEF excess
    <2>3. ASSUME NEW t \in Senders
          PROVE  /\ MessagesOf(mq, t) = MessagesOf(front, t) \cup MessagesOf(mq', t)
                 /\ MessagesOf(front, t) \cap MessagesOf(mq', t) = {}
                 /\ DisjointFrom(mq', t)
      <3>1. DisjointFrom(mq, t)
        BY DEF EachOnce, InOneBatch
      <3> QED
        BY <1>2, <2>1, <2>2, <3>1, ListCut
    <2> HIDE DEF front
    <2> QED
      BY <1>1, <2>2, <2>3, TakenAndCut
  <1>6. CASE RunClear(c)
    <2>1. mq' = <<>> /\ lost' = Losing(mq) /\ replies' = replies
      BY <1>6 DEF RunClear
    <2>2. ASSUME NEW t \in Senders
          PROVE  /\ MessagesOf(mq, t) = MessagesOf(mq, t) \cup MessagesOf(mq', t)
                 /\ MessagesOf(mq, t) \cap MessagesOf(mq', t) = {}
                 /\ DisjointFrom(mq', t)
      BY <2>1, ElementsOfEmpty
    <2> QED
      BY <1>1, <2>1, <2>2, TakenAndCut
  <1> QED
    BY <1>1, <1>3, <1>4, <1>5, <1>6

LEMMA OnceFail ==
    ASSUME TypeOK, WellFormed, EachOnce, NEW s \in Senders, Fail(s)
    PROVE  EachOnce'
  <1> DEFINE c == Head(pipe[s])
             x == Elements(c.msgs)
  <1>1. /\ pipe[s] # <<>> /\ pipe' = [pipe EXCEPT ![s] = Tail(@)]
        /\ UNCHANGED <<sent, eventQueue, mq, delivered>>
        /\ IF c.op \in {"len", "dead"} THEN Reply(s, c, 0) ELSE UNCHANGED replies
        /\ lost' = [lost EXCEPT ![s] = IF c.op = "push" THEN @ \cup x ELSE @]
    BY DEF Fail, nodeVars
  <1>2. c \in GoodCommands
    BY <1>1, CommandTaken
  <1>3. lost \in [Senders -> SUBSET Nat]
    BY DEF TypeOK
  <1>4. CASE c.op \in {"len", "dead"}
    <2> DEFINE r == [op |-> c.op, msgs |-> c.msgs, len |-> 0]
    <2>1. r \in GoodReplies /\ r.msgs = Head(pipe[s]).msgs
      <3> HIDE DEF c
      <3>1. r \in GoodReplies /\ r.msgs = c.msgs
        BY <1>2, <1>4 DEF GoodCommands, GoodReplies, Commands, Replies
      <3> QED
        BY <3>1 DEF c
    <2>2. /\ replies' = [replies EXCEPT ![s] = Append(@, r)]
          /\ lost' = lost
      BY <1>1, <1>3, <1>4 DEF Reply
    <2> HIDE DEF r
    <2> QED
      BY <1>1, <2>1, <2>2, TakenToReply
  <1>5. CASE c.op \notin {"len", "dead"}
    <2> SUFFICES ASSUME NEW t \in Senders PROVE InOnePlace(t)' /\ InOneBatch(t)'
      BY DEF EachOnce
    <2>1. InOnePlace(t) /\ InOneBatch(t)
      BY DEF EachOnce
    <2>2. /\ Disjoint(pipe'[s])
          /\ t # s => pipe'[t] = pipe[t]
          /\ Apart(Elements(eventQueue[s]), Carried(pipe'[s]), Carried(replies[s]),
                   MessagesOf(mq, s), Elements(delivered[s]), lost[s] \cup x, sent[s])
          /\ Apart(Elements(eventQueue[s]), Carried(pipe'[s]), Carried(replies[s]),
                   MessagesOf(mq, s), Elements(delivered[s]), lost[s], sent[s])
      BY <1>1, CommandTaken
    <2>3. /\ replies' = replies
          /\ lost'[s] = lost[s] \cup x \/ lost'[s] = lost[s]
          /\ t # s => lost'[t] = lost[t]
      BY <1>1, <1>3, <1>5
    <2> HIDE DEF x
    <2>4. CASE t # s
      BY <1>1, <2>1, <2>2, <2>3, <2>4, OnceKept
    <2>5. CASE t = s
      <3>1. InOnePlace(t)'
        BY <1>1, <2>2, <2>3, <2>5 DEF InOnePlace
      <3>2. InOneBatch(t)'
        BY <1>1, <2>1, <2>2, <2>3, <2>5 DEF InOneBatch
      <3> QED
        BY <3>1, <3>2
    <2> QED
      BY <2>4, <2>5
  <1> QED
    BY <1>4, <1>5

(* Every step but the repetition of a push keeps each message in one       *)
(* place.                                                                  *)
LEMMA OnceNext ==
    ASSUME TypeOK, WellFormed, EachOnce, [Next]_vars, \A s \in Senders : ~Rerun(s)
    PROVE  EachOnce'
  <1>1. ASSUME NEW s \in Senders, NodeRevives(s) PROVE EachOnce'
    BY <1>1 DEF NodeRevives, EachOnce, InOnePlace, InOneBatch
  <1>2. ASSUME UNCHANGED vars PROVE EachOnce'
    BY <1>2 DEF vars, nodeVars, EachOnce, InOnePlace, InOneBatch
  <1> QED
    BY <1>1, <1>2, OnceSend, OnceHandleReply, OnceDies, OnceConsume, OnceRun, OnceFail
       DEF Next

-----------------------------------------------------------------------------
(* The steps of the queue are steps of the channel.                        *)

LEMMA SameElements == \A q : Channel!Elements(q) = Elements(q)
  BY DEF Channel!Elements, Elements

(* Giving up messages that were not delivered.                             *)
LEMMA LosingIsLose ==
    ASSUME TypeOK, TypeOK', EachOnce', UNCHANGED <<sent, delivered>>,
           \A s \in Senders : lost[s] \subseteq lost'[s]
    PROVE  Channel!Lose
  <1>1. ASSUME NEW s \in Senders
        PROVE  /\ lost'[s] \subseteq 1 .. sent[s]
               /\ lost'[s] \subseteq lost[s] \cup Channel!InTransit(s)
    <2>1. InOnePlace(s)'
      BY DEF EachOnce
    <2>2. Apart(Elements(eventQueue'[s]), Carried(pipe'[s]), Carried(replies'[s]),
                MessagesOf(mq', s), Elements(delivered[s]), lost'[s], sent[s])
      BY <2>1 DEF InOnePlace
    <2>3. lost'[s] \subseteq 1 .. sent[s] /\ \A m \in lost'[s] : m \notin Elements(delivered[s])
      BY <2>2 DEF Apart
    <2> QED
      BY <2>3, SameElements DEF Channel!InTransit
  <1>2. lost' \in [Senders -> SUBSET UNION {1 .. sent[s] : s \in Senders}]
    <2>1. lost' \in [Senders -> SUBSET Nat]
      BY DEF TypeOK
    <2>2. ASSUME NEW s \in Senders
          PROVE  lost'[s] \subseteq UNION {1 .. sent[t] : t \in Senders}
      BY <1>1
    <2> QED
      BY <2>1, <2>2
  <1> QED
    BY <1>1, <1>2 DEF Channel!Lose

(* What is given up stays given up.                                        *)
LEMMA LostGrows ==
    ASSUME TypeOK, [Next]_vars, NEW s \in Senders
    PROVE  lost[s] \subseteq lost'[s]
  <1>1. lost \in [Senders -> SUBSET Nat]
    BY DEF TypeOK
  <1>2. ASSUME NEW t \in Senders, HandleReply(t) PROVE lost[s] \subseteq lost'[s]
    <2> DEFINE reply == Head(replies[t])
    <2>1. lost' = lost \/ lost' = [lost EXCEPT ![t] = @ \cup Elements(reply.msgs)]
      <3>1. HandleLen(t, reply) \/ HandlePush(t, reply) \/ HandleDead(t, reply)
        BY <1>2 DEF HandleReply
      <3> HIDE DEF reply
      <3> QED
        BY <3>1 DEF HandleLen, HandlePush, HandleDead
    <2> HIDE DEF reply
    <2> QED
      BY <1>1, <2>1
  <1>3. ASSUME NEW t \in Senders, Run(t) PROVE lost[s] \subseteq lost'[s]
    <2>1. lost' = lost \/ \E b : lost' = Losing(b)
      BY <1>3 DEF Run, RunLen, RunPush, RunTrim, RunClear
    <2> QED
      BY <2>1 DEF Losing
  <1>4. ASSUME NEW t \in Senders, Fail(t) PROVE lost[s] \subseteq lost'[s]
    <2>1. \/ lost' = [lost EXCEPT ![t] = @]
          \/ lost' = [lost EXCEPT ![t] = @ \cup Elements(Head(pipe[t]).msgs)]
      BY <1>4 DEF Fail
    <2> QED
      BY <1>1, <2>1
  <1>5. CASE UNCHANGED lost
    BY <1>5
  <1> QED
    BY <1>2, <1>3, <1>4, <1>5
       DEF Next, Enqueue, Flush, NodeDies, NodeRevives, Rerun, Consume, vars

(* A batch that is taken from the list is delivered.                       *)
LEMMA ConsumeIsDeliver ==
    ASSUME TypeOK, WellFormed, EachOnce, Consume
    PROVE  \E s \in Senders : Channel!Deliver(s)
  <1> DEFINE b == Head(mq)
             s == b.from
             q == b.msgs
             n == Len(q)
  <1>1. /\ mq \in Seq(GoodBatches) /\ mq # <<>> /\ 1 \in DOMAIN mq /\ b = mq[1]
        /\ b \in GoodBatches
        /\ UNCHANGED <<sent, lost>>
        /\ delivered' = [delivered EXCEPT ![s] = @ \o q]
    <2>1. mq \in Seq(GoodBatches) /\ mq # <<>>
      BY DEF WellFormed, Consume
    <2>2. 1 \in DOMAIN mq /\ b = mq[1] /\ b \in GoodBatches
      BY <2>1
    <2>3. UNCHANGED <<sent, lost>> /\ delivered' = [delivered EXCEPT ![s] = @ \o q]
      BY DEF Consume
    <2> QED
      BY <2>1, <2>2, <2>3
  <1>2. s \in Senders /\ q \in Seq(Nat) /\ q # <<>> /\ Different(q)
    <2> HIDE DEF b
    <2> QED
      BY <1>1 DEF GoodBatches, Good, Batches
  <1>3. Elements(q) \subseteq Channel!InTransit(s)
    <2>1. InOnePlace(s)
      BY <1>2 DEF EachOnce
    <2>2. Elements(q) \subseteq MessagesOf(mq, s)
      BY <1>1, MessagesAre
    <2>3. ASSUME NEW m \in MessagesOf(mq, s)
          PROVE  m \in 1 .. sent[s] /\ m \notin Elements(delivered[s]) /\ m \notin lost[s]
      BY <2>1 DEF InOnePlace, Apart
    <2> QED
      BY <2>2, <2>3, SameElements DEF Channel!InTransit
  <1> HIDE DEF b, s, q
  <1>4. n \in Nat /\ n # 0 /\ DOMAIN q = 1 .. n /\ q \in [1 .. n -> Nat]
    BY <1>2
  <1> HIDE DEF n
  <1>5. q \in [1 .. n -> Channel!InTransit(s)]
    <2>1. ASSUME NEW i \in 1 .. n PROVE q[i] \in Channel!InTransit(s)
      <3>1. q[i] \in Elements(q)
        BY <1>4 DEF Elements
      <3> QED
        BY <1>3, <3>1
    <2> QED
      BY <1>4, <2>1
  <1>6. \A i, j \in 1 .. n : q[i] = q[j] => i = j
    BY <1>2, <1>4 DEF Different
  <1>7. n \in 1 .. sent[s]
    <2>1. sent[s] \in Nat
      BY <1>2 DEF TypeOK
    <2>2. q \in Injection(1 .. n, 1 .. sent[s])
      <3>1. q \in [1 .. n -> 1 .. sent[s]]
        BY <1>5 DEF Channel!InTransit
      <3> QED
        BY <1>6, <3>1 DEF Injection, IsInjective
    <2>3. /\ IsFiniteSet(1 .. sent[s]) /\ Cardinality(1 .. sent[s]) = sent[s]
          /\ Cardinality(1 .. n) = n
      <3>1. /\ Cardinality(1 .. sent[s]) = IF 1 > sent[s] THEN 0 ELSE sent[s] - 1 + 1
            /\ Cardinality(1 .. n) = IF 1 > n THEN 0 ELSE n - 1 + 1
            /\ IsFiniteSet(1 .. sent[s])
        <4>1. 1 \in Int /\ n \in Int /\ sent[s] \in Int
          BY <1>4, <2>1
        <4> QED
          BY <4>1, FS_Interval
      <3> QED
        BY <1>4, <2>1, <3>1
    <2>4. Cardinality(1 .. n) <= Cardinality(1 .. sent[s])
      BY <2>2, <2>3, FS_Injection
    <2> QED
      BY <1>4, <2>1, <2>3, <2>4
  <1>8. Channel!Deliver(s)
    BY <1>1, <1>5, <1>6, <1>7 DEF Channel!Deliver
  <1> QED
    BY <1>2, <1>8

LEMMA StepIsChannelStep ==
    ASSUME TypeOK, TypeOK', WellFormed, EachOnce, EachOnce', [Next]_vars,
           \A s \in Senders : ~Rerun(s)
    PROVE  [Channel!Next]_(Channel!vars)
  <1>1. ASSUME UNCHANGED <<sent, delivered>> PROVE Channel!Next
    BY <1>1, LosingIsLose, LostGrows DEF Channel!Next
  <1>2. ASSUME NEW s \in Senders, Enqueue(s) PROVE Channel!Next
    BY <1>2 DEF Enqueue, Channel!Send, Channel!Next
  <1>3. ASSUME Consume PROVE Channel!Next
    BY <1>3, ConsumeIsDeliver DEF Channel!Next
  <1> QED
    BY <1>1, <1>2, <1>3
       DEF Next, Flush, HandleReply, NodeDies, NodeRevives, Run, Fail, vars

(* As long as no push runs twice, the queue implements LossyChannel: no    *)
(* message is delivered twice, after it was given up, or without having    *)
(* been sent, whatever commands fail and however senders, Redis and        *)
(* receiver interleave.                                                    *)
THEOREM QueueIsLossyChannel ==
    Spec /\ [][\A s \in Senders : ~Rerun(s)]_vars => ImplementsChannel
  <1>1. Init => Channel!Init
    BY DEF Init, Channel!Init
  <1>2. TypeOK /\ WellFormed /\ EachOnce /\ [Next]_vars
            /\ [\A s \in Senders : ~Rerun(s)]_vars => EachOnce'
    <2>1. ASSUME UNCHANGED vars, EachOnce PROVE EachOnce'
      BY <2>1 DEF vars, nodeVars, EachOnce, InOnePlace, InOneBatch
    <2> QED
      BY <2>1, OnceNext
  <1>3. TypeOK /\ TypeOK' /\ WellFormed /\ EachOnce /\ EachOnce' /\ [Next]_vars
            /\ [\A s \in Senders : ~Rerun(s)]_vars => [Channel!Next]_(Channel!vars)
    <2>1. ASSUME UNCHANGED vars PROVE UNCHANGED Channel!vars
      BY <2>1 DEF vars, Channel!vars
    <2> QED
      BY <2>1, StepIsChannelStep
  <1> QED
    BY <1>1, <1>2, <1>3, OnceInit, QueueTypes, BatchesAreGood, PTL
       DEF Spec, ImplementsChannel, Channel!Spec

=============================================================================
