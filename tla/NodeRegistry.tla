---------------------------- MODULE NodeRegistry ----------------------------
(***************************************************************************)
(* The Node objects of one worker for one remote address: the entry of     *)
(* that address in nodes._map, the heartbeat of every Node that was ever   *)
(* created for it (lib/broker/nodes.js, lib/broker/node.js), and the two   *)
(* timers of its Aggregator (lib/utils/aggregator.js).  A Node that the    *)
(* map has forgotten lives on as long as its heartbeat runs.               *)
(*                                                                         *)
(* The replies of Redis are handled in the order of the commands.  A       *)
(* command is run and answered in one step here: what the remote worker    *)
(* does to its key in between may as well be done afterwards.  A GET that  *)
(* fails is a GET that finds no key.  Names of Nodes are reused when       *)
(* nothing in the program can reach the old Node any more.                 *)
(***************************************************************************)
EXTENDS Naturals, Sequences

CONSTANTS
    Nodes,       \* names of Node objects
    None,        \* undefined
    MaxRetrys,   \* PING_MAX_RETRYS
    MaxSteps,    \* how often the flush interval can be increased
    MaxPending   \* bound on the commands under way

ASSUME RegistryAssumption ==
    /\ None \notin Nodes
    /\ MaxRetrys \in Nat \ {0, 1}
    /\ MaxSteps \in Nat
    /\ MaxPending \in Nat

VARIABLES
    mapped,      \* nodes._map.get(addr)
    live,        \* does the heartbeat timer of the Node run?
    isAlive,     \* Node.isAlive
    pingRetrys,  \* Node.pingRetrys; beyond MaxRetrys it does not matter
    queue,       \* Aggregator.eventQueue: "empty", "filled" since the last
                 \* heartbeat, or "overdue": filled before it
    flushing,    \* does the interval timer of the Aggregator run?
    raised,      \* increases of its interval since the last reset
    monitor,     \* does the reset timer of the interval run?
    pending,     \* commands under way, oldest first
    published,   \* signal:stats:count:<addr> exists
    gone,        \* the remote worker has died for good
    overlapped,  \* history: a get began while another one was waiting
    late         \* history: a heartbeat was not answered before the next one

timers == <<live, flushing, monitor>>
world == <<published, gone>>
history == <<overlapped, late>>
vars == <<mapped, timers, isAlive, pingRetrys, queue, raised, pending, world,
          history>>

Calls == [op : {"get"}, node : {None}]
            \cup [op : {"beat", "len", "push"}, node : Nodes]

TypeOK ==
    /\ mapped \in Nodes \cup {None}
    /\ live \in [Nodes -> BOOLEAN]
    /\ isAlive \in [Nodes -> BOOLEAN]
    /\ pingRetrys \in [Nodes -> 0 .. MaxRetrys + 1]
    /\ queue \in [Nodes -> {"empty", "filled", "overdue"}]
    /\ flushing \in [Nodes -> BOOLEAN]
    /\ raised \in [Nodes -> 0 .. MaxSteps]
    /\ monitor \in [Nodes -> BOOLEAN]
    /\ pending \in Seq(Calls)
    /\ published \in BOOLEAN
    /\ gone \in BOOLEAN
    /\ overlapped \in BOOLEAN /\ late \in BOOLEAN

Init ==
    /\ mapped = None
    /\ live = [n \in Nodes |-> FALSE]
    /\ isAlive = [n \in Nodes |-> FALSE]
    /\ pingRetrys = [n \in Nodes |-> 0]
    /\ queue = [n \in Nodes |-> "empty"]
    /\ flushing = [n \in Nodes |-> FALSE]
    /\ raised = [n \in Nodes |-> 0]
    /\ monitor = [n \in Nodes |-> FALSE]
    /\ pending = <<>>
    /\ published = TRUE
    /\ gone = FALSE
    /\ overlapped = FALSE /\ late = FALSE

-----------------------------------------------------------------------------
Call(op, n) == [op |-> op, node |-> n]
Waiting(n) == \E i \in DOMAIN pending : pending[i].node = n
Beating(n) == \E i \in DOMAIN pending : pending[i] \in {Call("beat", n), Call("len", n)}
Getting == \E i \in DOMAIN pending : pending[i].op = "get"
Room == Len(pending) < MaxPending

(* Nodes.get of an address that is not mapped.                             *)
Get ==
    /\ mapped = None /\ Room
    /\ pending' = Append(pending, Call("get", None))
    /\ overlapped' = (overlapped \/ Getting)
    /\ UNCHANGED <<mapped, timers, isAlive, pingRetrys, queue, raised, world,
                   late>>

(* Node.sendMsgSignal of the mapped Node; a full batch goes out at once.   *)
Send ==
    /\ mapped # None /\ isAlive[mapped]
    /\ \/ /\ queue' = [queue EXCEPT ![mapped] = IF @ = "empty" THEN "filled" ELSE @]
          /\ UNCHANGED pending
       \/ /\ Room
          /\ queue' = [queue EXCEPT ![mapped] = "empty"]
          /\ pending' = Append(pending, Call("push", mapped))
    /\ UNCHANGED <<mapped, timers, isAlive, pingRetrys, raised, world, history>>

(* The interval timer of the Aggregator.                                   *)
Flush(n) ==
    /\ flushing[n] /\ queue[n] # "empty" /\ Room
    /\ queue' = [queue EXCEPT ![n] = "empty"]
    /\ pending' = Append(pending, Call("push", n))
    /\ UNCHANGED <<mapped, timers, isAlive, pingRetrys, raised, world, history>>

(* Variant: only the timer is cleared.                                     *)
ResetKeepsInterval(n) ==
    /\ monitor[n]
    /\ monitor' = [monitor EXCEPT ![n] = FALSE]
    /\ UNCHANGED <<mapped, live, flushing, isAlive, pingRetrys, queue, raised,
                   pending, world, history>>

(* resetInterval, 90 s after the last increase.                            *)
ResetInterval(n) ==
    /\ monitor[n]
    /\ monitor' = [monitor EXCEPT ![n] = FALSE]
    /\ raised' = [raised EXCEPT ![n] = 0]
    /\ flushing' = [flushing EXCEPT ![n] = TRUE]
    /\ UNCHANGED <<mapped, live, isAlive, pingRetrys, queue, pending, world,
                   history>>

-----------------------------------------------------------------------------
(* The heartbeat.                                                          *)

Beat(n) ==
    /\ pingRetrys[n] <= MaxRetrys
    /\ queue' = [queue EXCEPT ![n] = IF @ = "empty" THEN @ ELSE "overdue"]
    /\ pending' = Append(pending, Call("beat", n))
    /\ UNCHANGED <<mapped, timers>>

(* Node.destroy: the Aggregator stops; what is queued is sent and stays    *)
(* in the queue.                                                           *)
Destroy(n) ==
    /\ pingRetrys[n] > MaxRetrys
    /\ flushing' = [flushing EXCEPT ![n] = FALSE]
    /\ monitor' = [monitor EXCEPT ![n] = FALSE]
    /\ pending' = IF queue[n] = "empty" THEN pending
                  ELSE Append(pending, Call("push", n))
    /\ UNCHANGED queue

(* Variant: the heartbeat goes on.                                         *)
DeleteKeepsBeating(n) ==
    /\ Destroy(n)
    /\ mapped' = None
    /\ UNCHANGED live

(* Nodes.delete: the map loses the address, whichever Node it holds.       *)
Delete(n) ==
    /\ Destroy(n)
    /\ live' = [live EXCEPT ![n] = FALSE]
    /\ mapped' = None

(* The heartbeat timer.  Timers fire in the order they are due, so the     *)
(* Aggregator's (60 to 180 ms) has fired since the last heartbeat (7 s).   *)
Tick(n) ==
    /\ live[n] /\ Room
    /\ queue[n] # "overdue"
    /\ Beat(n) \/ Delete(n)
    /\ late' = (late \/ Beating(n))
    /\ UNCHANGED <<isAlive, pingRetrys, raised, world, overlapped>>

-----------------------------------------------------------------------------
(* Replies, handled by the continuation of the await.                      *)

Missed(n) == IF pingRetrys[n] > MaxRetrys THEN pingRetrys[n] ELSE pingRetrys[n] + 1

(* Nodes.get creates a Node if the key exists.  Another get may have done  *)
(* so in the meantime: its Node is replaced in the map and keeps beating.  *)
HandleGet(call) ==
    /\ call.op = "get"
    /\ pending' = Tail(pending)
    /\ IF published
       THEN \E n \in Nodes :
               /\ ~live[n] /\ ~flushing[n] /\ ~monitor[n] /\ ~Waiting(n)
               /\ mapped' = n
               /\ live' = [live EXCEPT ![n] = TRUE]
               /\ flushing' = [flushing EXCEPT ![n] = TRUE]
               /\ isAlive' = [isAlive EXCEPT ![n] = TRUE]
               /\ pingRetrys' = [pingRetrys EXCEPT ![n] = 0]
               /\ queue' = [queue EXCEPT ![n] = "empty"]
               /\ raised' = [raised EXCEPT ![n] = 0]
               /\ UNCHANGED monitor
       ELSE UNCHANGED <<mapped, timers, isAlive, pingRetrys, queue, raised>>

(* getNodeClientCount answers; the first time that it finds no key, the    *)
(* length of the list is asked for.                                        *)
BeatFound(call, alive, misses) ==
    /\ call.op = "beat"
    /\ pending' = IF ~published /\ isAlive[call.node]
                  THEN Append(Tail(pending), Call("len", call.node))
                  ELSE Tail(pending)
    /\ isAlive' = [isAlive EXCEPT ![call.node] = alive]
    /\ pingRetrys' = [pingRetrys EXCEPT ![call.node] = IF published THEN 0 ELSE misses]
    /\ UNCHANGED <<mapped, timers, queue, raised>>

(* Variant: only the first miss counts.                                    *)
HandleBeatOnce(call) == BeatFound(call, published, pingRetrys[call.node])

(* Variant: a Node that was found again is not marked alive.               *)
HandleBeatStaysDead(call) ==
    BeatFound(call, published /\ isAlive[call.node], Missed(call.node))

(* Variant: a Node whose key is missing still takes messages.              *)
HandleBeatStaysAlive(call) == BeatFound(call, TRUE, Missed(call.node))

(* The first miss is counted after the length of the list has come.        *)
HandleBeat(call) ==
    BeatFound(call, published,
              IF isAlive[call.node] THEN pingRetrys[call.node] ELSE Missed(call.node))

(* RemoteQueue has the clearing of the list.                               *)
HandleLen(call) ==
    /\ call.op = "len"
    /\ pending' = Tail(pending)
    /\ pingRetrys' = [pingRetrys EXCEPT ![call.node] = Missed(call.node)]
    /\ UNCHANGED <<mapped, timers, isAlive, queue, raised>>

(* Variant: the interval may grow for ever.                                *)
IncreaseUnlimited(n) ==
    /\ raised' = [raised EXCEPT ![n] = @ + 1]
    /\ monitor' = [monitor EXCEPT ![n] = TRUE]
    /\ flushing' = [flushing EXCEPT ![n] = TRUE]

(* increaseInterval: below the limit both timers are started again, also   *)
(* those of an Aggregator that was stopped.                                *)
Increase(n) ==
    /\ raised[n] < MaxSteps
    /\ raised' = [raised EXCEPT ![n] = @ + 1]
    /\ monitor' = [monitor EXCEPT ![n] = TRUE]
    /\ flushing' = [flushing EXCEPT ![n] = TRUE]

(* A push answers; the list may have been at its bound.                    *)
HandlePush(call) ==
    /\ call.op = "push"
    /\ pending' = Tail(pending)
    /\ Increase(call.node) \/ UNCHANGED <<raised, monitor, flushing>>
    /\ UNCHANGED <<mapped, live, isAlive, pingRetrys, queue>>

Answer ==
    /\ pending # <<>>
    /\ LET call == Head(pending) IN
       HandleGet(call) \/ HandleBeat(call) \/ HandleLen(call) \/ HandlePush(call)
    /\ UNCHANGED <<world, history>>

-----------------------------------------------------------------------------
(* The remote worker, and Redis.                                           *)

(* updateClientCount, every few seconds.                                   *)
Publish ==
    /\ ~gone
    /\ published' = TRUE
    /\ UNCHANGED <<mapped, timers, isAlive, pingRetrys, queue, raised, pending,
                   gone, history>>

(* 20 s without, or a time in which GETs fail.                             *)
Expire ==
    /\ published
    /\ published' = FALSE
    /\ UNCHANGED <<mapped, timers, isAlive, pingRetrys, queue, raised, pending,
                   gone, history>>

(* The worker dies.  Its successor has another pid, hence another address. *)
Die ==
    /\ ~gone
    /\ gone' = TRUE
    /\ UNCHANGED <<mapped, timers, isAlive, pingRetrys, queue, raised, pending,
                   published, history>>

-----------------------------------------------------------------------------
Next ==
    \/ Get \/ Send \/ Answer
    \/ \E n \in Nodes : Flush(n) \/ ResetInterval(n) \/ Tick(n)
    \/ Publish \/ Expire \/ Die

Spec == Init /\ [][Next]_vars

-----------------------------------------------------------------------------
(* Properties.                                                             *)

(* The map never holds a Node that has given up: it would refuse or        *)
(* swallow every signal to that worker for ever.                           *)
MappedIsLive == mapped # None => live[mapped]

(* A Node beats without being in the map only after two lookups of the     *)
(* address have overlapped; otherwise whoever gives up unmaps itself.      *)
OrphansNeedOverlap ==
    ~overlapped => \A n \in Nodes : live[n] => mapped = n

(* While every heartbeat was answered before the next one, a Node that has *)
(* given up is quiet: it had nothing left to send that stop would keep in  *)
(* the queue, and no answer starts its timers again.                       *)
DestroyedIsQuiet ==
    ~late => \A n \in Nodes :
        ~live[n] => ~flushing[n] /\ ~monitor[n] /\ queue[n] = "empty"

(* An increased interval never lasts: its reset timer runs, also when the  *)
(* interval has reached its limit and increaseInterval changes nothing.    *)
RaisedIsWatched ==
    \A n \in Nodes : live[n] /\ raised[n] > 0 => monitor[n]

-----------------------------------------------------------------------------
(* Timers fire again and again (strong fairness: that the commands under   *)
(* way leave them no room is a matter of the bound), Redis answers, and    *)
(* the key of a dead worker expires.                                       *)
Fairness ==
    /\ WF_vars(Answer)
    /\ \A n \in Nodes : SF_vars(Tick(n)) /\ SF_vars(Flush(n))
    /\ WF_vars(gone /\ Expire)

FairSpec == Spec /\ Fairness

(* A worker that died is forgotten, by the map and by every heartbeat,     *)
(* however many Nodes overlapping lookups made for it.                     *)
DeadIsForgotten ==
    <>gone => <>[](mapped = None /\ \A n \in Nodes : ~live[n])

(* A worker whose key is there to stay is not thought dead for ever: the   *)
(* Node that is mapped for it is alive again, or another one replaces it.  *)
ReturnsAlive ==
    <>[]published => <>[](mapped # None => isAlive[mapped])

=============================================================================
