---------------------------- MODULE SignalRouting ----------------------------
(***************************************************************************)
(* How the hub of one worker passes the signals of one peer on to another  *)
(* one (processMessage, processSignals, processSignal, _getRemotePeerInfo  *)
(* and _handlePeerNotFound of lib/hub.js).  A message "signals" carries an *)
(* array, handled item by item; a message "signal" is an array of one.     *)
(* Several arrays may be under way: each is suspended while Redis is asked *)
(* for the target's address or for the worker behind that address, and     *)
(* between two such awaits only other arrays run.                          *)
(*                                                                         *)
(* The target is registered Here, at the worker There, or nowhere.  Its    *)
(* directory entry, the cached address and the Node mapped for There       *)
(* change as PeerDirectory and NodeRegistry say, any of them late.         *)
(***************************************************************************)
EXTENDS Naturals

CONSTANTS
    Arrays,      \* arrays of signals that may be under way at once
    MaxItems,    \* bound on the length of an array
    Here,        \* this worker's address
    There,       \* the remote worker's address
    None         \* undefined, null

ASSUME RoutingAssumption ==
    /\ MaxItems \in Nat \ {0}
    /\ Here # There /\ Here # None /\ There # None

VARIABLES
    home,        \* where the target is registered
    key,         \* signal:peerId:<target>
    cache,       \* its LRU cache entry
    published,   \* signal:stats:count:<There> exists
    node,        \* isAlive of the Node mapped for There: "alive", "dead", or
                 \* "none" without such a Node
    trouble,     \* Redis commands fail, or did so 2 s ago
    state,       \* what each array does: "idle", "running" (until its next
                 \* await), or what it waits for: "addr", "count"
    left,        \* the items it has still to handle
    local,       \* did processMessage find the target here?
    fate,        \* what happened to the last item: sent Here, sent There ...
    steady       \* history: nothing has changed since the array came

arrayVars == <<state, left, local, fate>>
vars == <<home, key, cache, published, node, trouble, arrayVars, steady>>

Places == {Here, There, None}
Failures == {"refused", "notFound", "deadNode"}

TypeOK ==
    /\ home \in Places /\ key \in Places /\ cache \in Places
    /\ published \in BOOLEAN /\ trouble \in BOOLEAN
    /\ node \in {"none", "alive", "dead"}
    /\ state \in [Arrays -> {"idle", "running", "addr", "count"}]
    /\ left \in [Arrays -> 0 .. MaxItems]
    /\ local \in [Arrays -> BOOLEAN]
    /\ fate \in [Arrays -> {None, Here, There} \cup Failures]
    /\ steady \in [Arrays -> BOOLEAN]

Init ==
    /\ home = None /\ key = None /\ cache = None
    /\ published = TRUE /\ trouble = FALSE
    /\ node = "none"
    /\ state = [a \in Arrays |-> "idle"]
    /\ left = [a \in Arrays |-> 0]
    /\ local = [a \in Arrays |-> FALSE]
    /\ fate = [a \in Arrays |-> None]
    /\ steady = [a \in Arrays |-> FALSE]

-----------------------------------------------------------------------------
(* The outcomes of one item.                                               *)

(* Variant: the loop runs once too often.                                  *)
SentOffByOne(a, place) ==
    /\ fate' = [fate EXCEPT ![a] = place]
    /\ left' = [left EXCEPT ![a] = @ - 1]
    /\ state' = [state EXCEPT ![a] = IF left[a] >= 0 THEN "running" ELSE "idle"]

(* The loop of processSignals goes on ...                                  *)
Sent(a, place) ==
    /\ fate' = [fate EXCEPT ![a] = place]
    /\ left' = [left EXCEPT ![a] = @ - 1]
    /\ state' = [state EXCEPT ![a] = IF left[a] > 1 THEN "running" ELSE "idle"]

(* ... or breaks off: processSignal returned false or undefined.           *)
Stop(a, why) ==
    /\ fate' = [fate EXCEPT ![a] = why]
    /\ left' = [left EXCEPT ![a] = 0]
    /\ state' = [state EXCEPT ![a] = "idle"]

Await(a, what) ==
    /\ state' = [state EXCEPT ![a] = what]
    /\ UNCHANGED <<left, fate>>

(* _handlePeerNotFound: the sender gets a notice, unless the last one was  *)
(* about the same peer (notFoundIdCache); no Client of it being here, the  *)
(* notice takes the way of a signal to it.                                 *)
NotFound(a) == Stop(a, "notFound")

(* Variant: a second lookup of an unknown worker is not waited for.        *)
FoundOnce(a, addr) ==
    \/ addr # There /\ NotFound(a)
    \/ /\ addr = There /\ node = "none"
       /\ IF \E b \in Arrays : state[b] = "count" THEN NotFound(a)
          ELSE Await(a, "count")
    \/ addr = There /\ node = "alive" /\ Sent(a, There)
    \/ addr = There /\ node = "dead" /\ Stop(a, "deadNode")

(* The address is known.  This worker's own one is taken for none, and a   *)
(* Node thought dead refuses: then the array ends without a notice.        *)
Found(a, addr) ==
    \/ addr # There /\ NotFound(a)
    \/ addr = There /\ node = "none" /\ Await(a, "count")
    \/ addr = There /\ node = "alive" /\ Sent(a, There)
    \/ addr = There /\ node = "dead" /\ Stop(a, "deadNode")

-----------------------------------------------------------------------------
(* The hub.                                                                *)

(* No callback is running.                                                 *)
Quiet == \A a \in Arrays : state[a] # "running"

(* processMessage: what it finds of the target holds for all items.        *)
Arrive(a) ==
    /\ Quiet /\ state[a] = "idle"
    /\ state' = [state EXCEPT ![a] = "running"]
    /\ \E n \in 1 .. MaxItems : left' = [left EXCEPT ![a] = n]
    /\ local' = [local EXCEPT ![a] = (home = Here)]
    /\ fate' = [fate EXCEPT ![a] = None]
    /\ UNCHANGED <<home, key, cache, published, node, trouble>>

(* processSignal of an item without data or with an empty candidate.       *)
Refuse(a) ==
    /\ state[a] = "running"
    /\ Stop(a, "refused")
    /\ UNCHANGED <<home, key, cache, published, node, trouble, local>>

(* processSignal to a target found here; a failed send unregisters it.     *)
SignalHere(a) ==
    /\ state[a] = "running" /\ local[a]
    /\ \/ Sent(a, Here) /\ UNCHANGED home
       \/ NotFound(a) /\ home' = IF home = Here THEN None ELSE home
    /\ UNCHANGED <<key, cache, published, node, trouble, local>>

(* processSignal to a target not found here, up to its first await.        *)
SignalThere(a) ==
    /\ state[a] = "running" /\ ~local[a]
    /\ \/ trouble /\ NotFound(a)
       \/ cache = None /\ Await(a, "addr")
       \/ cache # None /\ Found(a, cache)
    /\ UNCHANGED <<home, key, cache, published, node, trouble, local>>

(* The GET of the target's key answers, or fails.                          *)
AddrAnswered(a) ==
    /\ state[a] = "addr"
    /\ \/ /\ cache' = IF key = None THEN cache ELSE key
          /\ Found(a, key)
       \/ /\ trouble /\ NotFound(a)
          /\ UNCHANGED cache
    /\ UNCHANGED <<home, key, published, node, trouble, local>>

(* The GET of the worker's key answers: Nodes.get maps a new Node.         *)
CountAnswered(a) ==
    /\ state[a] = "count"
    /\ \/ published /\ node' = "alive" /\ Sent(a, There)
       \/ (trouble \/ ~published) /\ NotFound(a) /\ UNCHANGED node
    /\ UNCHANGED <<home, key, cache, published, trouble, local>>

-----------------------------------------------------------------------------
(* Everything else.                                                        *)

(* The target comes, goes or moves.                                        *)
Move ==
    /\ Quiet
    /\ home' \in Places \ {home}
    /\ UNCHANGED <<key, cache, published, node, trouble, arrayVars>>

(* The commands of the workers reach the key, or it expires.               *)
KeyChanges ==
    /\ key' \in {home, None} \ {key}
    /\ UNCHANGED <<home, cache, published, node, trouble, arrayVars>>

(* Another peer looks the target up.                                       *)
CacheFills ==
    /\ cache = None /\ key # None
    /\ cache' = key
    /\ UNCHANGED <<home, key, published, node, trouble, arrayVars>>

(* Variant: cached addresses have no ttl.                                  *)
EvictNever == FALSE /\ UNCHANGED vars

(* 15 minutes, or too many entries.                                        *)
Evict ==
    /\ cache # None
    /\ cache' = None
    /\ UNCHANGED <<home, key, published, node, trouble, arrayVars>>

(* The remote worker's key is written or expires.                          *)
PublishedChanges ==
    /\ published' = ~published
    /\ UNCHANGED <<home, key, cache, node, trouble, arrayVars>>

TroubleChanges ==
    /\ trouble' = ~trouble
    /\ UNCHANGED <<home, key, cache, published, node, arrayVars>>

(* The heartbeat misses the remote worker, ...                             *)
NodeDies ==
    /\ node = "alive" /\ (trouble \/ ~published)
    /\ node' = "dead"
    /\ UNCHANGED <<home, key, cache, published, trouble, arrayVars>>

(* ... finds it again, ...                                                 *)
NodeRevives ==
    /\ node = "dead" /\ published
    /\ node' = "alive"
    /\ UNCHANGED <<home, key, cache, published, trouble, arrayVars>>

(* ... or gives up; an unmapped Node's heartbeat may do so at any time.    *)
NodeDeleted ==
    /\ node # "none"
    /\ node' = "none"
    /\ UNCHANGED <<home, key, cache, published, trouble, arrayVars>>

-----------------------------------------------------------------------------
(* The target is where the directory says, and this worker knows no other  *)
(* place; the worker there is alive.                                       *)
Settled ==
    /\ home # None /\ key = home /\ cache \in {None, home}
    /\ published /\ node # "dead" /\ ~trouble

(* steady[a]: it has been so since array a came.                           *)
Watch ==
    steady' = [a \in Arrays |->
                  /\ Settled'
                  /\ steady[a] \/ (state[a] = "idle" /\ state'[a] = "running")]

Step ==
    \/ \E a \in Arrays : \/ Arrive(a) \/ Refuse(a) \/ SignalHere(a) \/ SignalThere(a)
                         \/ AddrAnswered(a) \/ CountAnswered(a)
    \/ Move \/ KeyChanges \/ CacheFills \/ Evict
    \/ PublishedChanges \/ TroubleChanges \/ NodeDies \/ NodeRevives \/ NodeDeleted

Next == Step /\ Watch

Spec == Init /\ [][Next]_vars

-----------------------------------------------------------------------------
(* Properties.                                                             *)

(* A signal is reported as undeliverable, dropped or sent to another       *)
(* worker only if, since its array came, the target moved, or its entry,   *)
(* the cached address or the worker's Node was wrong at some moment; never *)
(* because of what other arrays look up meanwhile.                         *)
SteadyIsDelivered ==
    \A a \in Arrays : steady[a] => fate[a] \in {None, "refused", home}

-----------------------------------------------------------------------------
(* Callbacks run, Redis answers, the sender goes on sending, cached values *)
(* have a time to live and heartbeats go on.                               *)
Fairness ==
    /\ \A a \in Arrays :
          /\ SF_vars(Arrive(a) /\ Watch)
          /\ WF_vars((SignalHere(a) \/ SignalThere(a)) /\ Watch)
          /\ WF_vars((AddrAnswered(a) \/ CountAnswered(a)) /\ Watch)
    /\ WF_vars(Evict /\ Watch)
    /\ WF_vars(NodeRevives /\ Watch)

FairSpec == Spec /\ Fairness

(* A target that stays at a worker which stays alive gets all signals      *)
(* sooner or later: stale addresses, Nodes thought dead and notices given  *)
(* by mistake do not last.                                                 *)
EventuallyDelivered ==
    \A h \in {Here, There} :
        <>[](home = h /\ key = h /\ published /\ ~trouble)
            => <>[](\A a \in Arrays : fate[a] \in {None, "refused", h})

=============================================================================
