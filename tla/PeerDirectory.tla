---------------------------- MODULE PeerDirectory ----------------------------
(***************************************************************************)
(* The Redis directory entry of one peer, as the workers write and read it *)
(* (lib/broker/redis.js, with the callers in lib/hub.js): each worker that *)
(* registers the peer sets signal:peerId:<id> to its own address, each     *)
(* that unregisters it deletes the key, and a worker that does not have    *)
(* the peer looks the key up and caches what it finds for 15 minutes.      *)
(*                                                                         *)
(* A worker writes its commands to one connection, in order, and does not  *)
(* wait for them.  Time is abstract: the key and the cached values may     *)
(* expire at any moment, and marks records the events that the directory   *)
(* has no answer to.  A worker that restarts has a new pid, hence a new    *)
(* address: it is another member of Workers.                               *)
(***************************************************************************)
EXTENDS Naturals, Sequences

CONSTANTS
    Workers,     \* worker addresses
    None,        \* null, undefined: no key, nothing cached
    MaxPipe,     \* bound on the commands and answers under way per worker
    Fragile,     \* the workers that may crash, break off or lose commands
    Readers      \* the workers that are sent messages for the peer

ASSUME DirectoryAssumption ==
    /\ None \notin Workers
    /\ MaxPipe \in Nat
    /\ Fragile \subseteq Workers
    /\ Readers \subseteq Workers

VARIABLES
    up,           \* is the worker process running?
    registered,   \* hub._map.has(id) in each worker
    isAlive,      \* isAlive of redis.js: FALSE during a break
    pipe,         \* commands written, not yet run by Redis
    answers,      \* answers to GET, not yet seen by getRemotePeerAddr
    cache,        \* the LRU cache entry of the peer
    key,          \* signal:peerId:<id>, as the worker address it holds
    gone,         \* the peer has left for good
    marks         \* "lost": a write was dropped, or the key expired under a
                  \* registered peer; "overlap": the peer was registered by
                  \* a worker before its previous one had let go of it

vars == <<up, registered, isAlive, pipe, answers, cache, key, gone, marks>>

Ops == {"set", "del", "expire", "get"}
Writes == {"set", "del"}

PendingWrite(w) == \E i \in DOMAIN pipe[w] : pipe[w][i] \in Writes

TypeOK ==
    /\ up \in [Workers -> BOOLEAN]
    /\ registered \in [Workers -> BOOLEAN]
    /\ isAlive \in [Workers -> BOOLEAN]
    /\ pipe \in [Workers -> Seq(Ops)]
    /\ answers \in [Workers -> Seq(Workers \cup {None})]
    /\ cache \in [Workers -> Workers \cup {None}]
    /\ key \in Workers \cup {None}
    /\ gone \in BOOLEAN
    /\ marks \subseteq {"lost", "overlap"}
    /\ \A w \in Workers : ~up[w] => ~registered[w] /\ answers[w] = <<>>

Init ==
    /\ up = [w \in Workers |-> TRUE]
    /\ registered = [w \in Workers |-> FALSE]
    /\ isAlive = [w \in Workers |-> TRUE]
    /\ pipe = [w \in Workers |-> <<>>]
    /\ answers = [w \in Workers |-> <<>>]
    /\ cache = [w \in Workers |-> None]
    /\ key = None
    /\ gone = FALSE
    /\ marks = {}

-----------------------------------------------------------------------------
(* The hub of a worker.                                                    *)

RoomFor(w) == Len(pipe[w]) + Len(answers[w]) < MaxPipe

(* setLocalPeer, delLocalPeer, updateLocalPeerExpiration: not during a     *)
(* break.                                                                  *)
SendCommand(w, op) ==
    pipe' = IF isAlive[w] THEN [pipe EXCEPT ![w] = Append(@, op)] ELSE pipe

LostIf(dropped) == IF dropped THEN {"lost"} ELSE {}

(* No other worker has the peer, or has still to write about it.           *)
HandedOver(w) ==
    \A v \in Workers \ {w} : ~registered[v] /\ ~PendingWrite(v)

(* doRegister: the first message, poll or socket of the peer at w.  If it  *)
(* was handed over, its SET settles whatever went wrong before.            *)
Register(w) ==
    /\ up[w] /\ ~gone /\ RoomFor(w)
    /\ ~registered[w]
    /\ registered' = [registered EXCEPT ![w] = TRUE]
    /\ SendCommand(w, "set")
    /\ marks' = IF HandedOver(w) THEN LostIf(~isAlive[w])
                ELSE marks \cup {"overlap"} \cup LostIf(~isAlive[w])
    /\ UNCHANGED <<up, isAlive, answers, cache, key, gone>>

(* Variant: the key is deleted whether or not the peer is registered.      *)
UnregisterAlways(w) ==
    /\ up[w] /\ RoomFor(w)
    /\ registered' = [registered EXCEPT ![w] = FALSE]
    /\ SendCommand(w, "del")
    /\ marks' = marks \cup LostIf(~isAlive[w])
    /\ UNCHANGED <<up, isAlive, answers, cache, key, gone>>

(* Variant: the key is deleted, the peer stays in the hub's map.           *)
UnregisterKeeps(w) ==
    /\ up[w] /\ RoomFor(w)
    /\ registered[w]
    /\ SendCommand(w, "del")
    /\ marks' = marks \cup LostIf(~isAlive[w])
    /\ UNCHANGED <<up, registered, isAlive, answers, cache, key, gone>>

(* doUnregister of a peer that is registered at w; of another it is no     *)
(* more than a lookup in a map.                                            *)
Unregister(w) ==
    /\ up[w] /\ RoomFor(w)
    /\ registered[w]
    /\ registered' = [registered EXCEPT ![w] = FALSE]
    /\ SendCommand(w, "del")
    /\ marks' = marks \cup LostIf(~isAlive[w])
    /\ UNCHANGED <<up, isAlive, answers, cache, key, gone>>

(* Variant: the time to live is renewed by setting the key again.          *)
TouchSets(w) ==
    /\ up[w] /\ ~gone /\ RoomFor(w)
    /\ SendCommand(w, "set")
    /\ UNCHANGED <<up, registered, isAlive, answers, cache, key, gone, marks>>

(* updateLocalPeerExpiration on the peer's ping, or on its POST to w, which *)
(* need not have it registered.                                            *)
Touch(w) ==
    /\ up[w] /\ ~gone /\ RoomFor(w)
    /\ SendCommand(w, "expire")
    /\ UNCHANGED <<up, registered, isAlive, answers, cache, key, gone, marks>>

(* getRemotePeerAddr with nothing cached: w has a message for the peer and *)
(* did not have it registered when it read the message (processSignals     *)
(* keeps that finding for the whole array).  With a cached value nothing   *)
(* changes here.                                                           *)
Lookup(w) ==
    /\ w \in Readers
    /\ up[w] /\ isAlive[w] /\ RoomFor(w)
    /\ cache[w] = None
    /\ SendCommand(w, "get")
    /\ UNCHANGED <<up, registered, isAlive, answers, cache, key, gone, marks>>

(* The rest of getRemotePeerAddr: what was found is cached.                *)
Answered(w) ==
    /\ answers[w] # <<>>
    /\ answers' = [answers EXCEPT ![w] = Tail(@)]
    /\ cache' = IF Head(answers[w]) # None
                THEN [cache EXCEPT ![w] = Head(answers[w])] ELSE cache
    /\ UNCHANGED <<up, registered, isAlive, pipe, key, gone, marks>>

(* Variant: cached values have no ttl.                                     *)
EvictNever(w) ==
    /\ FALSE
    /\ UNCHANGED vars

(* The ttl or the size of the LRU cache.                                   *)
Evict(w) ==
    /\ cache[w] # None
    /\ cache' = [cache EXCEPT ![w] = None]
    /\ UNCHANGED <<up, registered, isAlive, pipe, answers, key, gone, marks>>

-----------------------------------------------------------------------------
(* Redis and the connections.                                              *)

(* What a command does; nobody reads the answer to a dead process.         *)
Effect(w, op) ==
    /\ key' = CASE op = "set" -> w
                [] op = "del" -> None
                [] OTHER -> key
    /\ answers' = IF op = "get" /\ up[w] THEN [answers EXCEPT ![w] = Append(@, key)]
                  ELSE answers

(* Redis runs the next command of w.  EXPIRE changes only the key's time   *)
(* to live, and nothing at all if there is no key.                         *)
Run(w) ==
    /\ pipe[w] # <<>>
    /\ Effect(w, Head(pipe[w]))
    /\ pipe' = [pipe EXCEPT ![w] = Tail(@)]
    /\ UNCHANGED <<up, registered, isAlive, cache, gone, marks>>

(* Variant: the key is set without a time to live.                         *)
KeyNeverExpires ==
    /\ FALSE
    /\ UNCHANGED vars

(* Ten minutes without SET or EXPIRE.                                      *)
KeyExpires ==
    /\ key # None
    /\ key' = None
    /\ marks' = marks \cup LostIf(registered[key])
    /\ UNCHANGED <<up, registered, isAlive, pipe, answers, cache, gone>>

(* The connection gives up, or is lost with its process: everything that   *)
(* was written to it is rejected.  A rejected GET answers nothing.         *)
Reject(w) ==
    /\ w \in Fragile
    /\ pipe[w] # <<>>
    /\ pipe' = [pipe EXCEPT ![w] = <<>>]
    /\ marks' = marks \cup LostIf(PendingWrite(w))
    /\ UNCHANGED <<up, registered, isAlive, answers, cache, key, gone>>

(* takeABreak, after a failed GET or LLEN of the heartbeat and the queues. *)
TakeABreak(w) ==
    /\ w \in Fragile
    /\ up[w] /\ isAlive[w]
    /\ isAlive' = [isAlive EXCEPT ![w] = FALSE]
    /\ UNCHANGED <<up, registered, pipe, answers, cache, key, gone, marks>>

(* The timer of takeABreak: the first one to fire ends the break.          *)
EndBreak(w) ==
    /\ up[w] /\ ~isAlive[w]
    /\ isAlive' = [isAlive EXCEPT ![w] = TRUE]
    /\ UNCHANGED <<up, registered, pipe, answers, cache, key, gone, marks>>

-----------------------------------------------------------------------------
(* The world outside.                                                      *)

(* The process dies or is killed by the primary.  What it has written to   *)
(* its connection may still be run, or be dropped by Reject.               *)
Crash(w) ==
    /\ w \in Fragile
    /\ up[w]
    /\ up' = [up EXCEPT ![w] = FALSE]
    /\ registered' = [registered EXCEPT ![w] = FALSE]
    /\ answers' = [answers EXCEPT ![w] = <<>>]
    /\ cache' = [cache EXCEPT ![w] = None]
    /\ marks' = marks \cup LostIf(registered[w])
    /\ UNCHANGED <<isAlive, pipe, key, gone>>

(* The peer will neither connect nor send again.                           *)
PeerLeaves ==
    /\ ~gone
    /\ gone' = TRUE
    /\ UNCHANGED <<up, registered, isAlive, pipe, answers, cache, key, marks>>

-----------------------------------------------------------------------------
Next ==
    \/ \E w \in Workers : \/ Register(w) \/ Unregister(w) \/ Touch(w)
                          \/ Lookup(w) \/ Answered(w) \/ Evict(w)
                          \/ Run(w) \/ Reject(w)
                          \/ TakeABreak(w) \/ EndBreak(w) \/ Crash(w)
    \/ KeyExpires
    \/ PeerLeaves

Spec == Init /\ [][Next]_vars

-----------------------------------------------------------------------------
(* Properties.                                                             *)

(* s[i] is the last write in s.                                            *)
LastWrite(s, i) ==
    /\ i \in DOMAIN s
    /\ s[i] \in Writes
    /\ \A j \in DOMAIN s : j > i => s[j] \notin Writes

(* What Redis will run last for a worker is what the worker believes: if a *)
(* write is under way, the last one is the SET of a worker that has the    *)
(* peer or the DEL of one that has given it up, also while workers fight   *)
(* over the peer and after a worker died with its commands under way.      *)
LastWriteTells ==
    "lost" \notin marks =>
        \A w \in Workers : \A i \in DOMAIN pipe[w] :
            LastWrite(pipe[w], i) => (pipe[w][i] = "set" <=> registered[w])

(* When all writes have been run, the directory names exactly the worker   *)
(* that has the peer, across any number of moves from worker to worker,    *)
(* unless a write was lost or a worker registered the peer while another   *)
(* still had it.  A clean registration makes up for earlier mishaps.       *)
DirectoryAgrees ==
    (marks = {} /\ \A w \in Workers : ~PendingWrite(w)) =>
        \A w \in Workers : key = w <=> registered[w]

(* Also when workers fight over the peer, once all writes have been run an *)
(* entry never points to a worker that has unregistered it: the DEL of a   *)
(* worker comes after its SET, whatever the others did in between.         *)
NoFalseEntry ==
    ("lost" \notin marks /\ \A w \in Workers : ~PendingWrite(w)) =>
        (key \in Workers => registered[key])

-----------------------------------------------------------------------------
(* Redis answers, cached values and breaks end after a fixed time, and a   *)
(* peer that left is unregistered (its sockets close, its polls time out   *)
(* or checkConns finds it) and no longer renews its key.                   *)
Fairness ==
    /\ \A w \in Workers : /\ WF_vars(Run(w)) /\ WF_vars(Answered(w))
                          /\ WF_vars(Evict(w)) /\ WF_vars(EndBreak(w))
                          /\ WF_vars(gone /\ Unregister(w))
    /\ WF_vars(gone /\ KeyExpires)

FairSpec == Spec /\ Fairness

(* Once the peer stays with worker w and nothing goes wrong any more, every *)
(* cache ends up holding w or nothing, whatever stale addresses it held    *)
(* and whatever lookups were under way.                                    *)
CachesConverge ==
    \A w \in Workers :
        <>[](registered[w] /\ marks = {} /\ \A v \in Workers \ {w} : ~registered[v])
            => <>[](\A v \in Workers : cache[v] \in {None, w})

(* A peer that has left is forgotten by the directory and by every cache,  *)
(* also when DELs were dropped, rejected or never written by a worker that *)
(* crashed.                                                                *)
GoneIsForgotten ==
    <>gone => <>[](key = None /\ \A w \in Workers : cache[w] = None)

=============================================================================
