------------------------- MODULE NodeRegistryProofs -------------------------
(* Type correctness of NodeRegistry and its safety invariants.  That a     *)
(* Node which has given up is quiet rests on the order in which its        *)
(* commands are answered: see Orderly.                                     *)
EXTENDS NodeRegistry, TLAPS

(* Without overlap at most one lookup is under way, and only while the map *)
(* does not hold the address.                                              *)
OneGet ==
    ~overlapped =>
        /\ \A i, j \in DOMAIN pending :
              pending[i].op = "get" /\ pending[j].op = "get" => i = j
        /\ Getting => mapped = None

MapInv ==
    /\ TypeOK /\ MappedIsLive /\ OneGet /\ OrphansNeedOverlap
    /\ RaisedIsWatched

-----------------------------------------------------------------------------
(* While heartbeats are answered in time, each Node has at most one under  *)
(* way.  Its misses are counted while it takes no messages, so its queue   *)
(* is sent before the last heartbeat is, and answered before that one is.  *)
Beats(n) == {Call("beat", n), Call("len", n)}

OneBeat(n) ==
    \A i, j \in DOMAIN pending :
        pending[i] \in Beats(n) /\ pending[j] \in Beats(n) => i = j

LenIsFirstMiss(n) ==
    \A i \in DOMAIN pending :
        pending[i] = Call("len", n) => ~isAlive[n] /\ pingRetrys[n] = 0

MissedIsDead(n) == pingRetrys[n] >= 1 => ~isAlive[n]

MissedIsUnfilled(n) ==
    pingRetrys[n] >= 2 \/ (pingRetrys[n] = 1 /\ Beating(n)) => queue[n] # "filled"

LastBeatIsLast(n) ==
    \A i \in DOMAIN pending :
        pending[i] = Call("beat", n) /\ pingRetrys[n] = MaxRetrys =>
            /\ queue[n] = "empty"
            /\ \A j \in DOMAIN pending : j > i => pending[j] # Call("push", n)

GivenUpIsEmpty(n) ==
    pingRetrys[n] > MaxRetrys =>
        queue[n] = "empty" /\ \A i \in DOMAIN pending : pending[i] # Call("push", n)

EndedIsQuiet(n) ==
    ~live[n] => ~flushing[n] /\ ~monitor[n] /\ queue[n] = "empty" /\ ~Waiting(n)

Orderly(n) ==
    /\ OneBeat(n) /\ LenIsFirstMiss(n) /\ MissedIsDead(n) /\ MissedIsUnfilled(n)
    /\ LastBeatIsLast(n) /\ GivenUpIsEmpty(n) /\ EndedIsQuiet(n)

QuietInv == ~late => \A n \in Nodes : Orderly(n)

RegistryInv == MapInv /\ QuietInv

-----------------------------------------------------------------------------
(* The commands under way: one more at the end, one less at the head.      *)
LEMMA GetIsCall == Call("get", None) \in Calls
BY DEF Call, Calls

LEMMA NodeCallIsCall ==
    ASSUME NEW n \in Nodes, NEW op \in {"beat", "len", "push"}
    PROVE  Call(op, n) \in Calls
BY DEF Call, Calls

LEMMA CallParts ==
    ASSUME NEW c \in Calls
    PROVE  /\ c = Call(c.op, c.node)
           /\ \/ c.op = "get" /\ c.node = None
              \/ c.op \in {"beat", "len", "push"} /\ c.node \in Nodes
<1>1. CASE c \in [op : {"get"}, node : {None}]
  BY <1>1 DEF Call
<1>2. CASE c \in [op : {"beat", "len", "push"}, node : Nodes]
  BY <1>2 DEF Call
<1>. QED BY <1>1, <1>2 DEF Calls

LEMMA Appended ==
    ASSUME pending \in Seq(Calls), NEW c \in Calls, pending' = Append(pending, c)
    PROVE  /\ pending' \in Seq(Calls)
           /\ Len(pending') = Len(pending) + 1
           /\ \A i \in 1 .. Len(pending) : pending'[i] = pending[i]
           /\ pending'[Len(pending) + 1] = c
OBVIOUS

LEMMA Answered ==
    ASSUME pending \in Seq(Calls), pending # <<>>
    PROVE  /\ Tail(pending) \in Seq(Calls)
           /\ Head(pending) \in Calls /\ Head(pending) = pending[1]
           /\ Len(pending) >= 1 /\ Len(Tail(pending)) = Len(pending) - 1
           /\ \A i \in 1 .. Len(Tail(pending)) : Tail(pending)[i] = pending[i + 1]
OBVIOUS

LEMMA AnsweredAppended ==
    ASSUME pending \in Seq(Calls), pending # <<>>, NEW c \in Calls,
           pending' = Append(Tail(pending), c)
    PROVE  /\ pending' \in Seq(Calls)
           /\ Len(pending') = Len(pending)
           /\ \A i \in 1 .. Len(pending) - 1 : pending'[i] = pending[i + 1]
           /\ pending'[Len(pending)] = c
<1>1. /\ Tail(pending) \in Seq(Calls) /\ Len(pending) \in Nat
      /\ Len(pending) >= 1 /\ Len(Tail(pending)) = Len(pending) - 1
      /\ \A i \in 1 .. Len(Tail(pending)) : Tail(pending)[i] = pending[i + 1]
  BY Answered
<1>2. /\ Append(Tail(pending), c) \in Seq(Calls)
      /\ Len(Append(Tail(pending), c)) = Len(Tail(pending)) + 1
      /\ \A i \in 1 .. Len(Tail(pending)) :
             Append(Tail(pending), c)[i] = Tail(pending)[i]
      /\ Append(Tail(pending), c)[Len(Tail(pending)) + 1] = c
  BY <1>1
<1>. QED BY <1>1, <1>2

LEMMA Indexes ==
    ASSUME pending' \in Seq(Calls)
    PROVE  /\ Len(pending') \in Nat
           /\ \A i \in DOMAIN pending' :
                  i \in Nat /\ i >= 1 /\ i + 1 > 1 /\ i <= Len(pending')
OBVIOUS

(* What is under way after a step was so before, k places further back,    *)
(* or is one of the calls in new, and the last one.                        *)
Follows(k, new) ==
    \A i \in DOMAIN pending' :
        \/ i + k \in DOMAIN pending /\ pending'[i] = pending[i + k]
        \/ i = Len(pending') /\ pending'[i] \in new

LEMMA SameFollows ==
    ASSUME pending \in Seq(Calls), pending' = pending
    PROVE  Follows(0, {})
BY DEF Follows

LEMMA AppendFollows ==
    ASSUME pending \in Seq(Calls), NEW c \in Calls, pending' = Append(pending, c)
    PROVE  Follows(0, {c})
<1>1. Len(pending) \in Nat /\ DOMAIN pending = 1 .. Len(pending)
  OBVIOUS
<1>2. DOMAIN pending' = 1 .. Len(pending) + 1
  BY Appended
<1>. QED BY <1>1, <1>2, Appended DEF Follows

LEMMA TailFollows ==
    ASSUME pending \in Seq(Calls), pending # <<>>, pending' = Tail(pending)
    PROVE  Follows(1, {})
<1>1. Len(pending) \in Nat /\ DOMAIN pending = 1 .. Len(pending)
  OBVIOUS
<1>2. DOMAIN pending' = 1 .. Len(pending) - 1
  BY Answered
<1>. QED BY <1>1, <1>2, Answered DEF Follows

LEMMA TailAppendFollows ==
    ASSUME pending \in Seq(Calls), pending # <<>>, NEW c \in Calls,
           pending' = Append(Tail(pending), c)
    PROVE  Follows(1, {c})
<1>1. Len(pending) \in Nat /\ DOMAIN pending = 1 .. Len(pending)
  OBVIOUS
<1>2. DOMAIN pending' = 1 .. Len(pending)
  BY AnsweredAppended
<1>. QED BY <1>1, <1>2, AnsweredAppended DEF Follows

-----------------------------------------------------------------------------
(* Types.                                                                  *)
LEMMA SendTypes ==
    ASSUME TypeOK, Send
    PROVE  TypeOK'
<1>1. queue' \in [Nodes -> {"empty", "filled", "overdue"}]
  BY DEF Send, TypeOK
<1>2. mapped \in Nodes
  BY DEF Send, TypeOK
<1>3. pending' \in Seq(Calls)
  BY <1>2, Appended, NodeCallIsCall DEF Send, TypeOK
<1>. QED BY <1>1, <1>3 DEF Send, TypeOK, timers, world, history

LEMMA TimerTypes ==
    ASSUME TypeOK, NEW n \in Nodes, Flush(n) \/ ResetInterval(n) \/ Tick(n)
    PROVE  TypeOK'
<1>1. CASE Flush(n)
  <2>1. pending' \in Seq(Calls)
    BY <1>1, Appended, NodeCallIsCall DEF Flush, TypeOK
  <2>. QED BY <1>1, <2>1 DEF Flush, TypeOK, timers, world, history
<1>2. CASE ResetInterval(n)
  BY <1>2, RegistryAssumption DEF ResetInterval, TypeOK, world, history
<1>3. CASE Tick(n)
  <2>1. pending' \in Seq(Calls)
    BY <1>3, Appended, NodeCallIsCall DEF Tick, Beat, Delete, Destroy, TypeOK
  <2>2. late' \in BOOLEAN
    BY <1>3 DEF Tick, Beating, TypeOK
  <2>3. CASE Beat(n)
    BY <1>3, <2>1, <2>2, <2>3 DEF Tick, Beat, TypeOK, timers, world
  <2>4. CASE Delete(n)
    BY <1>3, <2>1, <2>2, <2>4 DEF Tick, Delete, Destroy, TypeOK, world
  <2>. QED BY <1>3, <2>3, <2>4 DEF Tick
<1>. QED BY <1>1, <1>2, <1>3

LEMMA MissedType ==
    ASSUME TypeOK, NEW n \in Nodes
    PROVE  Missed(n) \in 0 .. MaxRetrys + 1
BY RegistryAssumption DEF Missed, TypeOK

LEMMA AnswerTypes ==
    ASSUME TypeOK, Answer
    PROVE  TypeOK'
<1>. DEFINE call == Head(pending)
<1>1. /\ Tail(pending) \in Seq(Calls) /\ call \in Calls /\ pending # <<>>
  BY Answered DEF Answer, TypeOK
<1>2. call.op # "get" => call.node \in Nodes
  BY <1>1, CallParts
<1>3. UNCHANGED <<world, history>>
  BY DEF Answer
<1>4. CASE HandleGet(call)
  <2>1. CASE published
    <3>1. PICK n \in Nodes :
              /\ mapped' = n
              /\ live' = [live EXCEPT ![n] = TRUE]
              /\ flushing' = [flushing EXCEPT ![n] = TRUE]
              /\ isAlive' = [isAlive EXCEPT ![n] = TRUE]
              /\ pingRetrys' = [pingRetrys EXCEPT ![n] = 0]
              /\ queue' = [queue EXCEPT ![n] = "empty"]
              /\ raised' = [raised EXCEPT ![n] = 0]
              /\ UNCHANGED monitor
      BY <1>4, <2>1 DEF HandleGet
    <3>2. pingRetrys' \in [Nodes -> 0 .. MaxRetrys + 1]
      BY <3>1, RegistryAssumption DEF TypeOK
    <3>3. raised' \in [Nodes -> 0 .. MaxSteps]
      BY <3>1, RegistryAssumption DEF TypeOK
    <3>. QED BY <1>1, <1>3, <1>4, <3>1, <3>2, <3>3 DEF HandleGet, TypeOK, world, history
  <2>2. CASE ~published
    BY <1>1, <1>3, <1>4, <2>2 DEF HandleGet, TypeOK, timers, world, history
  <2>. QED BY <2>1, <2>2
<1>5. CASE HandleBeat(call)
  <2>1. call.node \in Nodes /\ Missed(call.node) \in 0 .. MaxRetrys + 1
    BY <1>2, <1>5, MissedType DEF HandleBeat, BeatFound
  <2>2. pending' \in Seq(Calls)
    BY <1>1, <1>5, <2>1, NodeCallIsCall DEF HandleBeat, BeatFound
  <2>3. isAlive' \in [Nodes -> BOOLEAN]
    BY <1>5, <2>1 DEF HandleBeat, BeatFound, TypeOK
  <2>4. pingRetrys' \in [Nodes -> 0 .. MaxRetrys + 1]
    BY <1>5, <2>1, RegistryAssumption DEF HandleBeat, BeatFound, TypeOK
  <2>. QED BY <1>3, <1>5, <2>2, <2>3, <2>4
           DEF HandleBeat, BeatFound, TypeOK, timers, world, history
<1>6. CASE HandleLen(call)
  <2>1. call.node \in Nodes /\ Missed(call.node) \in 0 .. MaxRetrys + 1
    BY <1>2, <1>6, MissedType DEF HandleLen
  <2>. QED BY <1>1, <1>3, <1>6, <2>1 DEF HandleLen, TypeOK, timers, world, history
<1>7. CASE HandlePush(call)
  <2>1. call.node \in Nodes
    BY <1>2, <1>7 DEF HandlePush
  <2>2. raised' \in [Nodes -> 0 .. MaxSteps]
    <3>1. CASE Increase(call.node)
      <4>1. raised[call.node] + 1 \in 0 .. MaxSteps
        BY <2>1, <3>1, RegistryAssumption DEF Increase, TypeOK
      <4>. QED BY <3>1, <4>1 DEF Increase, TypeOK
    <3>. QED BY <1>7, <3>1 DEF HandlePush, TypeOK
  <2>3. flushing' \in [Nodes -> BOOLEAN] /\ monitor' \in [Nodes -> BOOLEAN]
    BY <1>7, <2>1 DEF HandlePush, Increase, TypeOK
  <2>. QED BY <1>1, <1>3, <1>7, <2>2, <2>3 DEF HandlePush, TypeOK, world, history
<1>. QED BY <1>4, <1>5, <1>6, <1>7 DEF Answer

LEMMA TypesNext ==
    ASSUME TypeOK, Next
    PROVE  TypeOK'
<1>1. CASE Get
  <2>1. pending' \in Seq(Calls)
    BY <1>1, Appended, GetIsCall DEF Get, TypeOK
  <2>2. overlapped' \in BOOLEAN
    BY <1>1 DEF Get, Getting, TypeOK
  <2>. QED BY <1>1, <2>1, <2>2 DEF Get, TypeOK, timers, world
<1>2. CASE Publish \/ Expire \/ Die
  BY <1>2 DEF Publish, Expire, Die, TypeOK, timers, history
<1>. QED BY <1>1, <1>2, SendTypes, TimerTypes, AnswerTypes DEF Next

-----------------------------------------------------------------------------
(* The map.                                                                *)
LEMMA GetsKept ==
    ASSUME TypeOK, TypeOK', OneGet, overlapped' = overlapped,
           mapped' \in {mapped, None},
           NEW k \in {0, 1}, NEW new, Follows(k, new), \A c \in new : c.op # "get"
    PROVE  OneGet'
<1>1. SUFFICES ASSUME ~overlapped
               PROVE  /\ \A i, j \in DOMAIN pending' :
                            pending'[i].op = "get" /\ pending'[j].op = "get" => i = j
                      /\ Getting' => mapped' = None
  BY DEF OneGet
<1>2. \A i \in DOMAIN pending' : i \in Nat
  BY Indexes DEF TypeOK
<1>3. \A i \in DOMAIN pending' :
          pending'[i].op = "get" =>
              i + k \in DOMAIN pending /\ pending[i + k].op = "get"
  BY DEF Follows
<1>4. \A i, j \in DOMAIN pending' :
          pending'[i].op = "get" /\ pending'[j].op = "get" => i = j
  BY <1>1, <1>2, <1>3 DEF OneGet
<1>5. Getting' => Getting
  BY <1>3 DEF Getting
<1>. QED BY <1>1, <1>4, <1>5 DEF OneGet

LEMMA GetMap ==
    ASSUME MapInv, TypeOK', Get
    PROVE  MappedIsLive' /\ OneGet' /\ OrphansNeedOverlap' /\ RaisedIsWatched'
<1>1. Follows(0, {Call("get", None)})
  BY AppendFollows, GetIsCall DEF Get, MapInv, TypeOK
<1>2. OneGet'
  <2>1. SUFFICES ASSUME ~overlapped'
                 PROVE  \A i, j \in DOMAIN pending' :
                            pending'[i].op = "get" /\ pending'[j].op = "get" => i = j
    BY DEF OneGet, Get
  <2>2. \A i \in DOMAIN pending : pending[i].op # "get"
    BY <2>1 DEF Get, Getting
  <2>3. \A i \in DOMAIN pending' : i \in Nat
    BY Indexes DEF TypeOK
  <2>. QED BY <1>1, <2>2, <2>3 DEF Follows
<1>. QED BY <1>2 DEF Get, timers, MapInv, MappedIsLive, OrphansNeedOverlap,
                     RaisedIsWatched

LEMMA SendMap ==
    ASSUME MapInv, TypeOK', Send
    PROVE  MappedIsLive' /\ OneGet' /\ OrphansNeedOverlap' /\ RaisedIsWatched'
<1>1. mapped \in Nodes
  BY DEF Send, MapInv, TypeOK
<1>2. Follows(0, {Call("push", mapped)})
  BY <1>1, SameFollows, AppendFollows, NodeCallIsCall DEF Follows, Send, MapInv, TypeOK
<1>3. OneGet'
  BY <1>2, GetsKept DEF Send, MapInv, history, Call
<1>. QED BY <1>3 DEF Send, timers, history, MapInv, MappedIsLive, OrphansNeedOverlap,
                     RaisedIsWatched

LEMMA FlushMap ==
    ASSUME MapInv, TypeOK', NEW n \in Nodes, Flush(n)
    PROVE  MappedIsLive' /\ OneGet' /\ OrphansNeedOverlap' /\ RaisedIsWatched'
<1>1. Follows(0, {Call("push", n)})
  BY AppendFollows, NodeCallIsCall DEF Flush, MapInv, TypeOK
<1>2. OneGet'
  BY <1>1, GetsKept DEF Flush, MapInv, history, Call
<1>. QED BY <1>2 DEF Flush, timers, history, MapInv, MappedIsLive, OrphansNeedOverlap,
                     RaisedIsWatched

LEMMA ResetMap ==
    ASSUME MapInv, TypeOK', NEW n \in Nodes, ResetInterval(n)
    PROVE  MappedIsLive' /\ OneGet' /\ OrphansNeedOverlap' /\ RaisedIsWatched'
<1>1. OneGet'
  BY SameFollows, GetsKept DEF ResetInterval, MapInv, TypeOK, history
<1>2. RaisedIsWatched'
  BY DEF ResetInterval, MapInv, TypeOK, RaisedIsWatched
<1>. QED BY <1>1, <1>2 DEF ResetInterval, history, MapInv, MappedIsLive,
                           OrphansNeedOverlap

LEMMA TickMap ==
    ASSUME MapInv, TypeOK', NEW n \in Nodes, Tick(n)
    PROVE  MappedIsLive' /\ OneGet' /\ OrphansNeedOverlap' /\ RaisedIsWatched'
<1>1. CASE Beat(n)
  <2>1. Follows(0, {Call("beat", n)})
    BY <1>1, AppendFollows, NodeCallIsCall DEF Beat, MapInv, TypeOK
  <2>2. OneGet'
    BY <1>1, <2>1, GetsKept DEF Tick, Beat, MapInv, Call
  <2>. QED BY <1>1, <2>2 DEF Tick, Beat, timers, MapInv, MappedIsLive,
                             OrphansNeedOverlap, RaisedIsWatched
<1>2. CASE Delete(n)
  <2>1. Follows(0, {Call("push", n)})
    BY <1>2, SameFollows, AppendFollows, NodeCallIsCall
       DEF Follows, Delete, Destroy, MapInv, TypeOK
  <2>2. OneGet'
    BY <1>2, <2>1, GetsKept DEF Tick, Delete, MapInv, Call
  <2>3. MappedIsLive'
    BY <1>2 DEF Delete, MappedIsLive
  <2>4. \A m \in Nodes : live'[m] => m # n /\ live[m]
    BY <1>2 DEF Delete, MapInv, TypeOK
  <2>5. OrphansNeedOverlap'
    BY <1>2, <2>4 DEF Tick, MapInv, OrphansNeedOverlap
  <2>6. RaisedIsWatched'
    BY <1>2, <2>4 DEF Tick, Delete, Destroy, MapInv, TypeOK, RaisedIsWatched
  <2>. QED BY <2>2, <2>3, <2>5, <2>6
<1>. QED BY <1>1, <1>2 DEF Tick

(* The only reply that changes the map.                                    *)
LEMMA HandleGetMap ==
    ASSUME MapInv, TypeOK', Answer, HandleGet(Head(pending))
    PROVE  MappedIsLive' /\ OneGet' /\ OrphansNeedOverlap' /\ RaisedIsWatched'
<1>1. /\ pending # <<>> /\ pending \in Seq(Calls) /\ pending' = Tail(pending)
      /\ overlapped' = overlapped
      /\ Head(pending) = pending[1] /\ 1 \in DOMAIN pending /\ pending[1].op = "get"
  BY Answered DEF Answer, HandleGet, MapInv, TypeOK, history
<1>2. Follows(1, {})
  BY <1>1, TailFollows
<1>3. CASE published
  <2>1. PICK n \in Nodes :
            /\ mapped' = n
            /\ live' = [live EXCEPT ![n] = TRUE]
            /\ raised' = [raised EXCEPT ![n] = 0]
            /\ monitor' = monitor
    BY <1>3 DEF HandleGet
  <2>2. MappedIsLive'
    BY <2>1 DEF MapInv, TypeOK, MappedIsLive
  <2>3. ASSUME ~overlapped
        PROVE  /\ \A i \in DOMAIN pending' : pending'[i].op # "get"
               /\ mapped = None
    <3>1. \A i \in DOMAIN pending : pending[i].op = "get" => i = 1
      BY <1>1, <2>3 DEF MapInv, OneGet
    <3>2. \A i \in DOMAIN pending' : i \in Nat /\ i >= 1
      BY Indexes DEF TypeOK
    <3>3. \A i \in DOMAIN pending' : pending'[i].op # "get"
      BY <1>2, <3>1, <3>2 DEF Follows
    <3>. QED BY <1>1, <2>3, <3>3 DEF MapInv, OneGet, Getting
  <2>4. OneGet'
    BY <1>1, <2>3 DEF OneGet, Getting
  <2>5. OrphansNeedOverlap'
    <3>1. SUFFICES ASSUME ~overlapped, NEW m \in Nodes, live'[m] PROVE m = n
      BY <1>1, <2>1 DEF OrphansNeedOverlap
    <3>2. mapped = None
      BY <2>3, <3>1
    <3>3. ~live[m]
      BY <3>1, <3>2, RegistryAssumption DEF MapInv, OrphansNeedOverlap
    <3>. QED BY <2>1, <3>1, <3>3 DEF MapInv, TypeOK
  <2>6. RaisedIsWatched'
    BY <2>1 DEF MapInv, TypeOK, RaisedIsWatched
  <2>. QED BY <2>2, <2>4, <2>5, <2>6
<1>4. CASE ~published
  <2>1. OneGet'
    BY <1>1, <1>2, <1>4, GetsKept DEF HandleGet, MapInv
  <2>. QED BY <1>1, <1>4, <2>1 DEF HandleGet, timers, MapInv, MappedIsLive,
                                   OrphansNeedOverlap, RaisedIsWatched
<1>. QED BY <1>3, <1>4

(* What the replies to the commands of a Node do to the commands.          *)
LEMMA RepliesFollow ==
    ASSUME TypeOK, Answer
    PROVE  LET call == Head(pending) IN
           /\ call \in Calls /\ call = pending[1] /\ 1 \in DOMAIN pending
           /\ call.op # "get" => call.node \in Nodes
           /\ HandleGet(call) \/ HandleLen(call) \/ HandlePush(call) => Follows(1, {})
           /\ HandleBeat(call) =>
                 IF ~published /\ isAlive[call.node]
                 THEN Follows(1, {Call("len", call.node)})
                 ELSE Follows(1, {})
<1>. DEFINE call == Head(pending)
<1>1. /\ pending # <<>> /\ pending \in Seq(Calls) /\ call \in Calls
      /\ call = pending[1] /\ 1 \in DOMAIN pending
  BY Answered DEF Answer, TypeOK
<1>2. call.op # "get" => call.node \in Nodes
  BY <1>1, CallParts
<1>3. HandleGet(call) \/ HandleLen(call) \/ HandlePush(call) => Follows(1, {})
  BY <1>1, TailFollows DEF HandleGet, HandleLen, HandlePush
<1>4. ASSUME HandleBeat(call)
      PROVE  IF ~published /\ isAlive[call.node]
             THEN Follows(1, {Call("len", call.node)})
             ELSE Follows(1, {})
  <2>1. call.node \in Nodes
    BY <1>2, <1>4 DEF HandleBeat, BeatFound
  <2>. QED BY <1>1, <1>4, <2>1, TailFollows, TailAppendFollows, NodeCallIsCall
           DEF HandleBeat, BeatFound
<1>. QED BY <1>1, <1>2, <1>3, <1>4

LEMMA AnswerMap ==
    ASSUME MapInv, TypeOK', Answer
    PROVE  MappedIsLive' /\ OneGet' /\ OrphansNeedOverlap' /\ RaisedIsWatched'
<1>. DEFINE call == Head(pending)
<1>1. overlapped' = overlapped
  BY DEF Answer, history
<1>2. CASE HandleBeat(call) \/ HandleLen(call)
  <2>1. PICK new \in SUBSET [op : {"len"}, node : Nodes] : Follows(1, new)
    BY <1>2, RepliesFollow DEF MapInv, HandleBeat, BeatFound, HandleLen, Call
  <2>2. OneGet'
    BY <1>1, <1>2, <2>1, GetsKept DEF MapInv, HandleBeat, BeatFound, HandleLen
  <2>. QED BY <1>1, <1>2, <2>2
           DEF HandleBeat, BeatFound, HandleLen, timers, MapInv, MappedIsLive,
               OrphansNeedOverlap, RaisedIsWatched
<1>3. CASE HandlePush(call)
  <2>1. Follows(1, {}) /\ call.node \in Nodes
    BY <1>3, RepliesFollow DEF MapInv, HandlePush
  <2>2. OneGet'
    BY <1>1, <1>3, <2>1, GetsKept DEF MapInv, HandlePush
  <2>3. RaisedIsWatched'
    <3>1. live' = live
      BY <1>3 DEF HandlePush
    <3>2. CASE Increase(call.node)
      BY <2>1, <3>1, <3>2 DEF Increase, MapInv, TypeOK, RaisedIsWatched
    <3>. QED BY <1>3, <3>1, <3>2 DEF HandlePush, MapInv, RaisedIsWatched
  <2>. QED BY <1>1, <1>3, <2>2, <2>3
           DEF HandlePush, MapInv, MappedIsLive, OrphansNeedOverlap
<1>. QED BY <1>2, <1>3, HandleGetMap DEF Answer

LEMMA MapNext ==
    ASSUME MapInv, Next
    PROVE  MapInv'
<1>1. TypeOK'
  BY TypesNext DEF MapInv
<1>2. CASE Publish \/ Expire \/ Die
  BY <1>1, <1>2 DEF Publish, Expire, Die, timers, history, MapInv, MappedIsLive,
                    OneGet, Getting, OrphansNeedOverlap, RaisedIsWatched
<1>. QED BY <1>1, <1>2, GetMap, SendMap, FlushMap, ResetMap, TickMap, AnswerMap
         DEF Next, MapInv

-----------------------------------------------------------------------------
(* The order of a Node's commands.                                         *)

(* A step that concerns another Node.                                      *)
Untouched(n) ==
    /\ live'[n] = live[n] /\ flushing'[n] = flushing[n] /\ monitor'[n] = monitor[n]
    /\ isAlive'[n] = isAlive[n] /\ pingRetrys'[n] = pingRetrys[n]
    /\ queue'[n] = queue[n]

LEMMA CallsDiffer ==
    ASSUME NEW n
    PROVE  /\ Call("beat", n).node = n /\ Call("len", n).node = n
           /\ Call("push", n).node = n
           /\ \A m : Call("push", n) \notin Beats(m)
           /\ \A m : Call("len", m) # Call("beat", n)
           /\ \A m : Call("len", m) # Call("push", n)
           /\ \A m : Call("push", m) # Call("beat", n)
BY DEF Call, Beats

LEMMA UntouchedOrderly ==
    ASSUME TypeOK, TypeOK', NEW n \in Nodes, Orderly(n), Untouched(n),
           NEW k \in {0, 1}, NEW new, Follows(k, new), \A c \in new : c.node # n
    PROVE  Orderly(n)'
<1>1. \A i \in DOMAIN pending' : i \in Nat
  BY Indexes DEF TypeOK
<1>2. \A i \in DOMAIN pending' :
          pending'[i].node = n => i + k \in DOMAIN pending /\ pending'[i] = pending[i + k]
  BY DEF Follows
<1>3. OneBeat(n)'
  BY <1>1, <1>2, CallsDiffer DEF Orderly, OneBeat, Beats
<1>4. LenIsFirstMiss(n)' /\ MissedIsDead(n)'
  BY <1>2, CallsDiffer DEF Orderly, LenIsFirstMiss, MissedIsDead, Untouched
<1>5. Beating(n)' => Beating(n)
  BY <1>2, CallsDiffer DEF Beating
<1>6. MissedIsUnfilled(n)'
  BY <1>5 DEF Orderly, MissedIsUnfilled, Untouched
<1>7. LastBeatIsLast(n)'
  <2>1. SUFFICES ASSUME NEW i \in DOMAIN pending', pending'[i] = Call("beat", n),
                        pingRetrys[n] = MaxRetrys
                 PROVE  /\ queue[n] = "empty"
                        /\ \A j \in DOMAIN pending' :
                               j > i => pending'[j] # Call("push", n)
    BY DEF LastBeatIsLast, Untouched
  <2>2. i + k \in DOMAIN pending /\ pending[i + k] = Call("beat", n)
    BY <1>2, <2>1, CallsDiffer
  <2>3. /\ queue[n] = "empty"
        /\ \A j \in DOMAIN pending : j > i + k => pending[j] # Call("push", n)
    BY <2>1, <2>2 DEF Orderly, LastBeatIsLast
  <2>4. ASSUME NEW j \in DOMAIN pending', j > i, pending'[j] = Call("push", n)
        PROVE  FALSE
    <3>1. j + k \in DOMAIN pending /\ pending[j + k] = Call("push", n)
      BY <1>2, <2>4, CallsDiffer
    <3>2. j + k > i + k
      BY <1>1, <2>4
    <3>. QED BY <2>3, <3>1, <3>2
  <2>. QED BY <2>3, <2>4
<1>8. GivenUpIsEmpty(n)'
  BY <1>2, CallsDiffer DEF Orderly, GivenUpIsEmpty, Untouched
<1>9. EndedIsQuiet(n)'
  BY <1>2 DEF Orderly, EndedIsQuiet, Waiting, Untouched
<1>. QED BY <1>3, <1>4, <1>6, <1>7, <1>8, <1>9 DEF Orderly

(* A Node that takes or sends messages has no miss that matters, ...       *)
LEMMA QueueingOrderly ==
    ASSUME TypeOK, TypeOK', NEW n \in Nodes, Orderly(n), live[n],
           live'[n] = live[n], isAlive'[n] = isAlive[n], pingRetrys'[n] = pingRetrys[n],
           \/ isAlive[n] /\ queue'[n] \in {"empty", "filled", "overdue"}
           \/ queue[n] # "empty" /\ queue'[n] = "empty",
           Follows(0, {Call("push", n)})
    PROVE  Orderly(n)'
<1>. USE RegistryAssumption
<1>1. \A i \in DOMAIN pending' : i \in Nat
  BY Indexes DEF TypeOK
<1>2. \A i \in DOMAIN pending' :
          \/ i \in DOMAIN pending /\ pending'[i] = pending[i]
          \/ pending'[i] = Call("push", n)
  BY <1>1 DEF Follows
<1>3. OneBeat(n)'
  BY <1>2, CallsDiffer DEF Orderly, OneBeat
<1>4. LenIsFirstMiss(n)' /\ MissedIsDead(n)'
  BY <1>2, CallsDiffer DEF Orderly, LenIsFirstMiss, MissedIsDead
<1>5. pingRetrys[n] \in Nat /\ (isAlive[n] => pingRetrys[n] = 0)
  BY DEF Orderly, MissedIsDead, TypeOK
<1>6. MissedIsUnfilled(n)'
  BY <1>5 DEF MissedIsUnfilled
<1>7. pingRetrys[n] <= MaxRetrys
  BY <1>5 DEF Orderly, GivenUpIsEmpty
<1>8. ASSUME NEW i \in DOMAIN pending', pending'[i] = Call("beat", n)
      PROVE  pingRetrys[n] # MaxRetrys
  <2>1. i \in DOMAIN pending /\ pending[i] = Call("beat", n)
    BY <1>2, <1>8, CallsDiffer
  <2>. QED BY <1>5, <2>1 DEF Orderly, LastBeatIsLast
<1>9. LastBeatIsLast(n)'
  BY <1>8 DEF LastBeatIsLast
<1>10. GivenUpIsEmpty(n)'
  BY <1>5, <1>7 DEF GivenUpIsEmpty
<1>11. EndedIsQuiet(n)'
  BY DEF EndedIsQuiet
<1>. QED BY <1>3, <1>4, <1>6, <1>9, <1>10, <1>11 DEF Orderly

(* ... one that beats after its first miss has emptied its queue, ...      *)
LEMMA BeatOrderly ==
    ASSUME TypeOK, TypeOK', NEW n \in Nodes, Orderly(n), Tick(n), Beat(n), ~Beating(n)
    PROVE  Orderly(n)'
<1>. USE RegistryAssumption
<1>1. Follows(0, {Call("beat", n)})
  BY AppendFollows, NodeCallIsCall DEF Beat, TypeOK
<1>2. /\ \A i \in DOMAIN pending' : i \in Nat /\ i <= Len(pending')
      /\ Len(pending') \in Nat
  BY Indexes DEF TypeOK
<1>3. \A i \in DOMAIN pending' :
          \/ i \in DOMAIN pending /\ pending'[i] = pending[i] /\ pending[i] \notin Beats(n)
          \/ i = Len(pending') /\ pending'[i] = Call("beat", n)
  BY <1>1, <1>2 DEF Follows, Beating, Beats
<1>4. /\ live[n] /\ live'[n] = live[n] /\ isAlive' = isAlive
      /\ pingRetrys' = pingRetrys /\ pingRetrys[n] \in 0 .. MaxRetrys
      /\ queue[n] # "overdue" /\ queue'[n] \in {"empty", "overdue"}
      /\ queue[n] = "empty" => queue'[n] = "empty"
  BY DEF Tick, Beat, TypeOK, timers
<1>5. OneBeat(n)'
  BY <1>3 DEF OneBeat
<1>6. LenIsFirstMiss(n)' /\ MissedIsDead(n)'
  BY <1>3, <1>4, CallsDiffer DEF Orderly, LenIsFirstMiss, MissedIsDead
<1>7. MissedIsUnfilled(n)'
  BY <1>4 DEF MissedIsUnfilled
<1>8. pingRetrys[n] = MaxRetrys => queue'[n] = "empty"
  BY <1>4 DEF Orderly, MissedIsUnfilled, TypeOK
<1>9. LastBeatIsLast(n)'
  BY <1>2, <1>3, <1>4, <1>8 DEF LastBeatIsLast, Beats
<1>10. GivenUpIsEmpty(n)' /\ EndedIsQuiet(n)'
  BY <1>4 DEF GivenUpIsEmpty, EndedIsQuiet
<1>. QED BY <1>5, <1>6, <1>7, <1>9, <1>10 DEF Orderly

(* ... and has nothing under way when it gives up.                         *)
LEMMA DeleteOrderly ==
    ASSUME TypeOK, TypeOK', NEW n \in Nodes, Orderly(n), Tick(n), Delete(n), ~Beating(n)
    PROVE  Orderly(n)'
<1>. USE RegistryAssumption
<1>1. /\ pingRetrys[n] > MaxRetrys /\ queue[n] = "empty"
      /\ \A i \in DOMAIN pending : pending[i] # Call("push", n)
  BY DEF Delete, Destroy, Orderly, GivenUpIsEmpty
<1>2. /\ pending' = pending /\ isAlive' = isAlive /\ pingRetrys' = pingRetrys
      /\ queue' = queue
  BY <1>1 DEF Tick, Delete, Destroy
<1>3. ~Waiting(n)
  <2>1. SUFFICES ASSUME NEW i \in DOMAIN pending, pending[i].node = n PROVE FALSE
    BY DEF Waiting
  <2>2. pending[i] \in Calls
    BY DEF TypeOK
  <2>3. \/ pending[i] = Call("beat", n) \/ pending[i] = Call("len", n)
        \/ pending[i] = Call("push", n)
    BY <2>1, <2>2, CallParts
  <2>. QED BY <1>1, <2>3 DEF Beating
<1>4. EndedIsQuiet(n)'
  BY <1>1, <1>2, <1>3 DEF Delete, Destroy, TypeOK, EndedIsQuiet, Waiting
<1>. QED BY <1>2, <1>4 DEF Orderly, OneBeat, LenIsFirstMiss, MissedIsDead,
                           MissedIsUnfilled, Beating, LastBeatIsLast, GivenUpIsEmpty

-----------------------------------------------------------------------------
LEMMA TickOrderly ==
    ASSUME MapInv, MapInv', NEW n \in Nodes, Tick(n), ~late',
           \A m \in Nodes : Orderly(m)
    PROVE  \A m \in Nodes : Orderly(m)'
<1>1. ~Beating(n) /\ (Beat(n) \/ Delete(n))
  BY DEF Tick
<1>2. Orderly(n)'
  BY <1>1, BeatOrderly, DeleteOrderly DEF MapInv
<1>3. ASSUME NEW m \in Nodes, m # n PROVE Orderly(m)'
  <2>1. Untouched(m)
    BY <1>1, <1>3 DEF Tick, Beat, Delete, Destroy, timers, MapInv, TypeOK, Untouched
  <2>2. Follows(0, {Call("beat", n), Call("push", n)})
    BY <1>1, SameFollows, AppendFollows, NodeCallIsCall
       DEF Follows, Beat, Delete, Destroy, MapInv, TypeOK
  <2>. QED BY <1>3, <2>1, <2>2, CallsDiffer, UntouchedOrderly DEF MapInv
<1>. QED BY <1>2, <1>3

LEMMA SendOrderly ==
    ASSUME MapInv, MapInv', Send, \A m \in Nodes : Orderly(m)
    PROVE  \A m \in Nodes : Orderly(m)'
<1>1. PICK n \in Nodes : n = mapped /\ live[n] /\ isAlive[n]
  BY RegistryAssumption DEF Send, MapInv, TypeOK, MappedIsLive
<1>2. Follows(0, {Call("push", n)})
  BY <1>1, SameFollows, AppendFollows, NodeCallIsCall DEF Follows, Send, MapInv, TypeOK
<1>3. Orderly(n)'
  <2>1. queue'[n] \in {"empty", "filled", "overdue"}
    BY DEF MapInv, TypeOK
  <2>. QED BY <1>1, <1>2, <2>1, QueueingOrderly DEF Send, timers, MapInv
<1>4. ASSUME NEW m \in Nodes, m # n PROVE Orderly(m)'
  <2>1. Untouched(m)
    BY <1>1, <1>4 DEF Send, timers, MapInv, TypeOK, Untouched
  <2>. QED BY <1>2, <1>4, <2>1, CallsDiffer, UntouchedOrderly DEF MapInv
<1>. QED BY <1>3, <1>4

LEMMA FlushOrderly ==
    ASSUME MapInv, MapInv', NEW n \in Nodes, Flush(n), \A m \in Nodes : Orderly(m)
    PROVE  \A m \in Nodes : Orderly(m)'
<1>1. live[n]
  BY DEF Flush, Orderly, EndedIsQuiet
<1>2. Follows(0, {Call("push", n)})
  BY AppendFollows, NodeCallIsCall DEF Flush, MapInv, TypeOK
<1>3. Orderly(n)'
  <2>1. queue[n] # "empty" /\ queue'[n] = "empty"
    BY DEF Flush, MapInv, TypeOK
  <2>. QED BY <1>1, <1>2, <2>1, QueueingOrderly DEF Flush, timers, MapInv
<1>4. ASSUME NEW m \in Nodes, m # n PROVE Orderly(m)'
  <2>1. Untouched(m)
    BY <1>4 DEF Flush, timers, MapInv, TypeOK, Untouched
  <2>. QED BY <1>2, <1>4, <2>1, CallsDiffer, UntouchedOrderly DEF MapInv
<1>. QED BY <1>3, <1>4

(* Steps that leave the commands and what is counted alone.                *)
LEMMA TimersOrderly ==
    ASSUME TypeOK, NEW n \in Nodes, Orderly(n),
           live' = live, isAlive' = isAlive, pingRetrys' = pingRetrys, queue' = queue,
           pending' = pending,
           live[n] \/ (flushing'[n] = flushing[n] /\ monitor'[n] = monitor[n])
    PROVE  Orderly(n)'
<1>1. /\ OneBeat(n)' /\ LenIsFirstMiss(n)' /\ MissedIsDead(n)'
      /\ MissedIsUnfilled(n)' /\ LastBeatIsLast(n)' /\ GivenUpIsEmpty(n)'
  BY DEF Orderly, OneBeat, LenIsFirstMiss, MissedIsDead, MissedIsUnfilled, Beating,
         LastBeatIsLast, GivenUpIsEmpty
<1>2. EndedIsQuiet(n)'
  BY DEF Orderly, EndedIsQuiet, Waiting
<1>. QED BY <1>1, <1>2 DEF Orderly

-----------------------------------------------------------------------------
(* The replies.                                                            *)
LEMMA GetOrderly ==
    ASSUME MapInv, MapInv', Answer, HandleGet(Head(pending)),
           \A m \in Nodes : Orderly(m)
    PROVE  \A m \in Nodes : Orderly(m)'
<1>. USE RegistryAssumption
<1>1. Follows(1, {})
  BY RepliesFollow DEF MapInv
<1>2. CASE ~published
  <2>1. ASSUME NEW m \in Nodes PROVE Untouched(m)
    BY <1>2 DEF HandleGet, timers, Untouched
  <2>. QED BY <1>1, <2>1, UntouchedOrderly DEF MapInv
<1>3. CASE published
  <2>1. PICK n \in Nodes :
            /\ ~Waiting(n)
            /\ live' = [live EXCEPT ![n] = TRUE]
            /\ flushing' = [flushing EXCEPT ![n] = TRUE]
            /\ isAlive' = [isAlive EXCEPT ![n] = TRUE]
            /\ pingRetrys' = [pingRetrys EXCEPT ![n] = 0]
            /\ queue' = [queue EXCEPT ![n] = "empty"]
            /\ monitor' = monitor
    BY <1>3 DEF HandleGet
  <2>2. Orderly(n)'
    <3>1. live'[n] /\ pingRetrys'[n] = 0 /\ isAlive'[n]
      BY <2>1 DEF MapInv, TypeOK
    <3>2. \A i \in DOMAIN pending' : pending'[i].node # n
      BY <1>1, <2>1 DEF Follows, Waiting
    <3>3. OneBeat(n)' /\ LenIsFirstMiss(n)' /\ LastBeatIsLast(n)'
      BY <3>2, CallsDiffer DEF OneBeat, Beats, LenIsFirstMiss, LastBeatIsLast
    <3>4. /\ MissedIsDead(n)' /\ MissedIsUnfilled(n)' /\ GivenUpIsEmpty(n)'
          /\ EndedIsQuiet(n)'
      BY <3>1 DEF MissedIsDead, MissedIsUnfilled, GivenUpIsEmpty, EndedIsQuiet
    <3>. QED BY <3>3, <3>4 DEF Orderly
  <2>3. ASSUME NEW m \in Nodes, m # n PROVE Orderly(m)'
    <3>1. Untouched(m)
      BY <2>1, <2>3 DEF MapInv, TypeOK, Untouched
    <3>. QED BY <1>1, <3>1, UntouchedOrderly DEF MapInv
  <2>. QED BY <2>2, <2>3
<1>. QED BY <1>2, <1>3

LEMMA PushOrderly ==
    ASSUME MapInv, MapInv', Answer, HandlePush(Head(pending)),
           \A m \in Nodes : Orderly(m)
    PROVE  \A m \in Nodes : Orderly(m)'
<1>1. PICK n \in Nodes : n = Head(pending).node
  BY RepliesFollow DEF MapInv, HandlePush
<1>2. Follows(1, {}) /\ Head(pending) = pending[1] /\ 1 \in DOMAIN pending
  BY RepliesFollow DEF MapInv
<1>3. live[n]
  BY <1>1, <1>2 DEF Orderly, EndedIsQuiet, Waiting
<1>4. /\ live' = live /\ isAlive' = isAlive /\ pingRetrys' = pingRetrys
      /\ queue' = queue
  BY DEF HandlePush
<1>5. ASSUME NEW m \in Nodes, m # n PROVE Untouched(m)
  BY <1>1, <1>4, <1>5 DEF HandlePush, Increase, MapInv, TypeOK, Untouched
<1>6. ASSUME NEW m \in Nodes, m # n PROVE Orderly(m)'
  BY <1>2, <1>5, <1>6, UntouchedOrderly DEF MapInv
<1>7. Orderly(n)'
  <2>1. \A i \in DOMAIN pending' : i \in Nat
    BY Indexes DEF MapInv, TypeOK
  <2>2. \A i \in DOMAIN pending' : i + 1 \in DOMAIN pending /\ pending'[i] = pending[i + 1]
    BY <1>2 DEF Follows
  <2>3. OneBeat(n)'
    BY <2>1, <2>2 DEF Orderly, OneBeat
  <2>4. LenIsFirstMiss(n)' /\ MissedIsDead(n)' /\ GivenUpIsEmpty(n)'
    BY <1>4, <2>2 DEF Orderly, LenIsFirstMiss, MissedIsDead, GivenUpIsEmpty
  <2>5. MissedIsUnfilled(n)'
    BY <1>4, <2>2 DEF Orderly, MissedIsUnfilled, Beating
  <2>6. LastBeatIsLast(n)'
    BY <1>4, <2>1, <2>2 DEF Orderly, LastBeatIsLast
  <2>7. EndedIsQuiet(n)'
    BY <1>3, <1>4 DEF EndedIsQuiet
  <2>. QED BY <2>3, <2>4, <2>5, <2>6, <2>7 DEF Orderly
<1>. QED BY <1>6, <1>7

(* After the answer to its heartbeat a Node has none under way.            *)
LEMMA NoOtherBeat ==
    ASSUME TypeOK, TypeOK', NEW n \in Nodes, Orderly(n), 1 \in DOMAIN pending,
           pending[1] \in Beats(n), NEW new, Follows(1, new)
    PROVE  \A i \in DOMAIN pending' :
               \/ i + 1 \in DOMAIN pending /\ pending'[i] = pending[i + 1]
                  /\ pending'[i] \notin Beats(n)
               \/ i = Len(pending') /\ pending'[i] \in new
<1>1. \A i \in DOMAIN pending' : i \in Nat /\ i >= 1
  BY Indexes DEF TypeOK
<1>2. \A i \in DOMAIN pending : pending[i] \in Beats(n) => i = 1
  BY DEF Orderly, OneBeat
<1>. QED BY <1>1, <1>2 DEF Follows

LEMMA LenOrderly ==
    ASSUME MapInv, MapInv', Answer, HandleLen(Head(pending)),
           \A m \in Nodes : Orderly(m)
    PROVE  \A m \in Nodes : Orderly(m)'
<1>. USE RegistryAssumption
<1>1. PICK n \in Nodes : n = Head(pending).node
  BY RepliesFollow DEF MapInv, HandleLen
<1>2. Follows(1, {}) /\ Head(pending) = pending[1] /\ 1 \in DOMAIN pending
  BY RepliesFollow DEF MapInv
<1>3. pending[1] = Call("len", n)
  BY <1>1, <1>2, RepliesFollow, CallParts DEF MapInv, HandleLen
<1>4. /\ live' = live /\ isAlive' = isAlive /\ queue' = queue
      /\ flushing' = flushing /\ monitor' = monitor
      /\ pingRetrys' = [pingRetrys EXCEPT ![n] = Missed(n)]
  BY <1>1 DEF HandleLen, timers
<1>5. ASSUME NEW m \in Nodes, m # n PROVE Orderly(m)'
  <2>1. Untouched(m)
    BY <1>4, <1>5 DEF MapInv, TypeOK, Untouched
  <2>. QED BY <1>2, <2>1, UntouchedOrderly DEF MapInv
<1>6. Orderly(n)'
  <2>1. ~isAlive[n] /\ pingRetrys[n] = 0
    BY <1>2, <1>3 DEF Orderly, LenIsFirstMiss
  <2>2. pingRetrys'[n] = 1
    BY <1>4, <2>1 DEF MapInv, TypeOK, Missed
  <2>3. \A i \in DOMAIN pending' : pending'[i] \notin Beats(n)
    BY <1>2, <1>3, NoOtherBeat DEF MapInv, Beats
  <2>4. live[n]
    BY <1>2, <1>3, CallsDiffer DEF Orderly, EndedIsQuiet, Waiting
  <2>5. OneBeat(n)' /\ LenIsFirstMiss(n)' /\ LastBeatIsLast(n)' /\ ~Beating(n)'
    BY <2>3 DEF OneBeat, LenIsFirstMiss, LastBeatIsLast, Beating, Beats
  <2>6. MissedIsDead(n)' /\ MissedIsUnfilled(n)'
    BY <1>4, <2>1, <2>2, <2>5 DEF MissedIsDead, MissedIsUnfilled
  <2>7. GivenUpIsEmpty(n)' /\ EndedIsQuiet(n)'
    BY <1>4, <2>2, <2>4 DEF GivenUpIsEmpty, EndedIsQuiet
  <2>. QED BY <2>5, <2>6, <2>7 DEF Orderly
<1>. QED BY <1>5, <1>6

LEMMA BeatFoundOrderly ==
    ASSUME MapInv, MapInv', Answer, HandleBeat(Head(pending)),
           \A m \in Nodes : Orderly(m)
    PROVE  \A m \in Nodes : Orderly(m)'
<1>. USE RegistryAssumption
<1>1. PICK n \in Nodes : n = Head(pending).node
  BY RepliesFollow DEF MapInv, HandleBeat, BeatFound
<1>2. Head(pending) = pending[1] /\ 1 \in DOMAIN pending
  BY RepliesFollow DEF MapInv
<1>3. pending[1] = Call("beat", n)
  BY <1>1, <1>2, RepliesFollow, CallParts DEF MapInv, HandleBeat, BeatFound
<1>4. IF ~published /\ isAlive[n] THEN Follows(1, {Call("len", n)}) ELSE Follows(1, {})
  BY <1>1, RepliesFollow DEF MapInv
<1>5. /\ live' = live /\ queue' = queue /\ flushing' = flushing /\ monitor' = monitor
      /\ isAlive' = [isAlive EXCEPT ![n] = published]
      /\ pingRetrys' = [pingRetrys EXCEPT ![n] =
                            IF published THEN 0
                            ELSE IF isAlive[n] THEN pingRetrys[n] ELSE Missed(n)]
  BY <1>1 DEF HandleBeat, BeatFound, timers
<1>6. ASSUME NEW m \in Nodes, m # n PROVE Orderly(m)'
  <2>1. Untouched(m)
    BY <1>5, <1>6 DEF MapInv, TypeOK, Untouched
  <2>. QED BY <1>4, <1>6, <2>1, CallsDiffer, UntouchedOrderly DEF MapInv
<1>7. live[n] /\ Beating(n)
  BY <1>2, <1>3, CallsDiffer DEF Orderly, EndedIsQuiet, Waiting, Beating
<1>8. EndedIsQuiet(n)'
  BY <1>5, <1>7 DEF EndedIsQuiet
<1>9. ASSUME published \/ ~isAlive[n] PROVE Orderly(n)'
  <2>1. \A i \in DOMAIN pending' :
            /\ i + 1 \in DOMAIN pending /\ pending'[i] = pending[i + 1]
            /\ pending'[i] \notin Beats(n)
    BY <1>2, <1>3, <1>4, <1>9, NoOtherBeat DEF MapInv, Beats
  <2>2. OneBeat(n)' /\ LenIsFirstMiss(n)' /\ LastBeatIsLast(n)'
    BY <2>1 DEF OneBeat, LenIsFirstMiss, LastBeatIsLast, Beats
  <2>3. CASE published
    <3>1. pingRetrys'[n] = 0
      BY <1>5, <2>3 DEF MapInv, TypeOK
    <3>. QED BY <1>8, <2>2, <3>1 DEF MissedIsDead, MissedIsUnfilled, GivenUpIsEmpty, Orderly
  <2>4. CASE ~published
    <3>1. pingRetrys[n] \in Nat /\ pingRetrys'[n] = Missed(n) /\ ~isAlive'[n]
      BY <1>5, <1>9, <2>4 DEF MapInv, TypeOK
    <3>2. MissedIsDead(n)'
      BY <3>1 DEF MissedIsDead
    <3>3. MissedIsUnfilled(n)'
      <4>1. pingRetrys'[n] >= 1
        BY <3>1 DEF Missed
      <4>2. SUFFICES ASSUME pingRetrys'[n] >= 2 \/ Beating(n)' PROVE queue'[n] # "filled"
        BY DEF MissedIsUnfilled
      <4>3. ~Beating(n)'
        BY <2>1 DEF Beating, Beats
      <4>4. pingRetrys[n] >= 1
        BY <3>1, <4>2, <4>3 DEF Missed
      <4>. QED BY <1>5, <1>7, <3>1, <4>4 DEF Orderly, MissedIsUnfilled
    <3>4. GivenUpIsEmpty(n)'
      <4>1. SUFFICES ASSUME pingRetrys'[n] > MaxRetrys
                     PROVE  /\ queue[n] = "empty"
                            /\ \A i \in DOMAIN pending' : pending'[i] # Call("push", n)
        BY <1>5 DEF GivenUpIsEmpty
      <4>2. pingRetrys[n] = MaxRetrys \/ pingRetrys[n] > MaxRetrys
        BY <3>1, <4>1 DEF Missed
      <4>3. /\ queue[n] = "empty"
            /\ \A j \in DOMAIN pending : j > 1 => pending[j] # Call("push", n)
        BY <1>2, <1>3, <4>2 DEF Orderly, LastBeatIsLast, GivenUpIsEmpty
      <4>4. \A i \in DOMAIN pending' : i + 1 > 1
        BY Indexes DEF MapInv, TypeOK
      <4>. QED BY <2>1, <4>3, <4>4
    <3>. QED BY <1>8, <2>2, <3>2, <3>3, <3>4 DEF Orderly
  <2>. QED BY <2>3, <2>4
<1>10. ASSUME ~published, isAlive[n] PROVE Orderly(n)'
  <2>1. \A i \in DOMAIN pending' :
            \/ pending'[i] \notin Beats(n)
            \/ i = Len(pending') /\ pending'[i] = Call("len", n)
    BY <1>2, <1>3, <1>4, <1>10, NoOtherBeat DEF MapInv, Beats
  <2>2. pingRetrys[n] = 0 /\ pingRetrys'[n] = 0 /\ ~isAlive'[n]
    BY <1>5, <1>10 DEF MapInv, TypeOK, Orderly, MissedIsDead
  <2>3. OneBeat(n)'
    BY <2>1 DEF OneBeat
  <2>4. LenIsFirstMiss(n)' /\ LastBeatIsLast(n)'
    BY <2>1, <2>2, CallsDiffer DEF LenIsFirstMiss, LastBeatIsLast, Beats
  <2>5. MissedIsDead(n)' /\ MissedIsUnfilled(n)' /\ GivenUpIsEmpty(n)'
    BY <2>2 DEF MissedIsDead, MissedIsUnfilled, GivenUpIsEmpty
  <2>. QED BY <1>8, <2>3, <2>4, <2>5 DEF Orderly
<1>11. Orderly(n)'
  BY <1>9, <1>10
<1>. QED BY <1>6, <1>11

-----------------------------------------------------------------------------
LEMMA QuietNext ==
    ASSUME RegistryInv, MapInv', Next
    PROVE  QuietInv'
<1>1. SUFFICES ASSUME ~late' PROVE \A m \in Nodes : Orderly(m)'
  BY DEF QuietInv
<1>2. ~late
  BY <1>1 DEF Next, Get, Send, Answer, Flush, ResetInterval, Tick, Publish, Expire, Die,
              history
<1>3. MapInv /\ \A m \in Nodes : Orderly(m)
  BY <1>2 DEF RegistryInv, QuietInv
<1>4. CASE Answer
  BY <1>3, <1>4, GetOrderly, BeatFoundOrderly, LenOrderly, PushOrderly DEF Answer
<1>5. ASSUME NEW n \in Nodes, Flush(n) \/ Tick(n)
      PROVE  \A m \in Nodes : Orderly(m)'
  BY <1>1, <1>3, <1>5, FlushOrderly, TickOrderly
<1>6. CASE Send
  BY <1>3, <1>6, SendOrderly
<1>7. CASE Get
  <2>1. Follows(0, {Call("get", None)}) /\ Call("get", None).node = None
    BY <1>3, <1>7, AppendFollows, GetIsCall DEF Get, MapInv, TypeOK, Call
  <2>2. ASSUME NEW m \in Nodes PROVE Untouched(m) /\ m # None
    BY <1>7, RegistryAssumption DEF Get, timers, Untouched
  <2>. QED BY <1>3, <2>1, <2>2, UntouchedOrderly DEF MapInv
<1>8. CASE Publish \/ Expire \/ Die
  BY <1>3, <1>8, TimersOrderly DEF Publish, Expire, Die, timers, MapInv
<1>9. ASSUME NEW n \in Nodes, ResetInterval(n)
      PROVE  \A m \in Nodes : Orderly(m)'
  <2>1. live[n]
    BY <1>3, <1>9 DEF ResetInterval, Orderly, EndedIsQuiet
  <2>2. ASSUME NEW m \in Nodes
        PROVE  live[m] \/ (flushing'[m] = flushing[m] /\ monitor'[m] = monitor[m])
    BY <1>3, <1>9, <2>1 DEF ResetInterval, MapInv, TypeOK
  <2>. QED BY <1>3, <1>9, <2>2, TimersOrderly DEF ResetInterval, MapInv
<1>. QED BY <1>4, <1>5, <1>6, <1>7, <1>8, <1>9 DEF Next

LEMMA RegistryInit ==
    ASSUME Init
    PROVE  RegistryInv
<1>. USE RegistryAssumption DEF Init
<1>1. /\ pingRetrys \in [Nodes -> 0 .. MaxRetrys + 1]
      /\ raised \in [Nodes -> 0 .. MaxSteps]
  OBVIOUS
<1>2. pending \in Seq(Calls) /\ DOMAIN pending = {}
  OBVIOUS
<1>3. TypeOK
  BY <1>1, <1>2 DEF TypeOK
<1>4. MappedIsLive /\ OneGet /\ OrphansNeedOverlap /\ RaisedIsWatched
  BY <1>2 DEF MappedIsLive, OneGet, Getting, OrphansNeedOverlap, RaisedIsWatched
<1>5. ASSUME NEW n \in Nodes PROVE Orderly(n)
  <2>1. OneBeat(n) /\ LenIsFirstMiss(n) /\ LastBeatIsLast(n)
    BY <1>2 DEF OneBeat, LenIsFirstMiss, LastBeatIsLast
  <2>2. MissedIsDead(n) /\ MissedIsUnfilled(n) /\ GivenUpIsEmpty(n)
    BY DEF MissedIsDead, MissedIsUnfilled, GivenUpIsEmpty
  <2>3. EndedIsQuiet(n)
    BY <1>2 DEF EndedIsQuiet, Waiting
  <2>. QED BY <2>1, <2>2, <2>3 DEF Orderly
<1>. QED BY <1>3, <1>4, <1>5 DEF RegistryInv, MapInv, QuietInv

LEMMA RegistryStutters ==
    ASSUME RegistryInv, UNCHANGED vars
    PROVE  RegistryInv'
<1>1. MapInv'
  BY DEF vars, timers, world, history, RegistryInv, MapInv, TypeOK, MappedIsLive, OneGet,
         Getting, OrphansNeedOverlap, RaisedIsWatched
<1>2. QuietInv'
  BY TimersOrderly DEF vars, timers, history, RegistryInv, MapInv, QuietInv
<1>. QED BY <1>1, <1>2 DEF RegistryInv

-----------------------------------------------------------------------------
(* The inductive invariant of the registry.                                *)
THEOREM RegistryInvariant == Spec => []RegistryInv
<1>1. ASSUME RegistryInv, Next PROVE RegistryInv'
  BY <1>1, MapNext, QuietNext DEF RegistryInv
<1>. QED BY RegistryInit, <1>1, RegistryStutters, PTL DEF Spec

(* Every variable of the registry keeps its type.                          *)
THEOREM RegistryTypes == Spec => []TypeOK
<1>1. RegistryInv => TypeOK
  BY DEF RegistryInv, MapInv
<1>. QED BY <1>1, RegistryInvariant, PTL

(* The map never holds a Node that has given up.                           *)
THEOREM MappedNodesBeat == Spec => []MappedIsLive
<1>1. RegistryInv => MappedIsLive
  BY DEF RegistryInv, MapInv
<1>. QED BY <1>1, RegistryInvariant, PTL

(* Only overlapping lookups leave a Node beating outside the map.          *)
THEOREM OrphansComeFromOverlap == Spec => []OrphansNeedOverlap
<1>1. RegistryInv => OrphansNeedOverlap
  BY DEF RegistryInv, MapInv
<1>. QED BY <1>1, RegistryInvariant, PTL

(* An increased interval of a Node in use is always going to be reset.     *)
THEOREM RaisedIntervalsAreWatched == Spec => []RaisedIsWatched
<1>1. RegistryInv => RaisedIsWatched
  BY DEF RegistryInv, MapInv
<1>. QED BY <1>1, RegistryInvariant, PTL

(* A Node whose heartbeats were answered in time gives up with nothing     *)
(* queued and no timer left, for any number of tolerated misses from two   *)
(* on.                                                                     *)
THEOREM DestroyedNodesAreQuiet == Spec => []DestroyedIsQuiet
<1>1. RegistryInv => DestroyedIsQuiet
  BY DEF RegistryInv, QuietInv, Orderly, EndedIsQuiet, DestroyedIsQuiet
<1>. QED BY <1>1, RegistryInvariant, PTL

=============================================================================
