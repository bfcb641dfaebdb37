----------------------------- MODULE PeerSession -----------------------------
(***************************************************************************)
(* One peer id as one worker process sees it: the slot of that id in       *)
(* hub._map, the Client objects created for it, its HTTP long polls, its   *)
(* WebSockets and the timers that tie them together (lib/client.js, the    *)
(* GET and POST "/" handlers and the ws handlers of lib/server.js,         *)
(* doRegister, doUnregister, sendJsonToClient and checkConns of            *)
(* lib/hub.js).  Peers do not share any of this state, so one slot is      *)
(* enough.  Every action is one run of a JavaScript callback: node runs    *)
(* it to the end before the next.                                          *)
(*                                                                         *)
(* Client, response and socket names are reused once nothing in the        *)
(* program can reach the object any more, as the garbage collector does.   *)
(***************************************************************************)
EXTENDS Naturals, Sequences

CONSTANTS
    Clients,      \* names of Client objects
    Responses,    \* names of uWS HttpResponse objects of GET "/"
    Sockets,      \* names of uWS WebSocket objects
    None,         \* null, undefined
    IsPrimary,    \* cluster.isPrimary: a single process, no forked workers
    QueueSize,    \* POLLING_QUEUE_SIZE
    Overlap,      \* may the peer open a transport while it has another one?
    Captures,     \* may unfinished work keep a reference to a Client?
    MaxMessages   \* bound on the messages queued for polling

ASSUME SessionAssumption ==
    /\ None \notin Clients \cup Responses \cup Sockets
    /\ IsPrimary \in BOOLEAN
    /\ Overlap \in BOOLEAN
    /\ Captures \in BOOLEAN
    /\ QueueSize \in Nat \ {0}
    /\ MaxMessages \in Nat

VARIABLES
    registered,   \* hub._map.get(id)
    isPolling,    \* Client.isPolling
    httpWriter,   \* Client._httpWriter
    ws,           \* Client._ws
    msgQueue,     \* Client.msgQueue
    onAborted,    \* Client.onAborted, named by the response its closure ends
    flushTimer,   \* Client.timer: null, a live handle or a cleared one
    respState,    \* what became of each response
    respOwner,    \* the Client in the response's endResp closure
    respTimer,    \* is the 97 s timer of the response running?
    socket,       \* is the WebSocket open?
    captured,     \* Clients held by unread POST bodies and directory lookups
    sent,         \* messages queued so far
    delivered     \* how each message went out, once per time it was written

clientVars == <<isPolling, httpWriter, ws, msgQueue, onAborted, flushTimer>>
respVars == <<respState, respOwner, respTimer>>
vars == <<registered, clientVars, respVars, socket, captured, sent, delivered>>

Messages == 1 .. MaxMessages
Timers == {"none", "armed", "cleared"}
ResponseStates == {"free", "pending", "ended", "aborted", "misused"}
Replies == {"get", "flush", "timeout", "close"}

SessionTypeOK ==
    /\ registered \in Clients \cup {None}
    /\ isPolling \in [Clients -> BOOLEAN]
    /\ httpWriter \in [Clients -> Responses \cup {None}]
    /\ ws \in [Clients -> Sockets \cup {None}]
    /\ msgQueue \in [Clients -> Seq(Messages)]
    /\ \A c \in Clients : Len(msgQueue[c]) <= QueueSize
    /\ onAborted \in [Clients -> Responses \cup {None}]
    /\ flushTimer \in [Clients -> Timers]
    /\ respState \in [Responses -> ResponseStates]
    /\ respOwner \in [Responses -> Clients \cup {None}]
    /\ respTimer \in [Responses -> BOOLEAN]
    /\ socket \in [Sockets -> {"closed", "open"}]
    /\ captured \subseteq Clients
    /\ sent \in 0 .. MaxMessages
    /\ delivered \in [Messages -> Seq(Replies)]

Init ==
    /\ registered = None
    /\ isPolling = [c \in Clients |-> FALSE]
    /\ httpWriter = [c \in Clients |-> None]
    /\ ws = [c \in Clients |-> None]
    /\ msgQueue = [c \in Clients |-> <<>>]
    /\ onAborted = [c \in Clients |-> None]
    /\ flushTimer = [c \in Clients |-> "none"]
    /\ respState = [r \in Responses |-> "free"]
    /\ respOwner = [r \in Responses |-> None]
    /\ respTimer = [r \in Responses |-> FALSE]
    /\ socket = [s \in Sockets |-> "closed"]
    /\ captured = {}
    /\ sent = 0
    /\ delivered = [m \in Messages |-> <<>>]

-----------------------------------------------------------------------------
(* What the program can still reach, hence what a new object may reuse.    *)

Reachable(c) ==
    \/ c = registered
    \/ c \in captured
    \/ flushTimer[c] = "armed"
    \/ \E r \in Responses : respState[r] = "pending" /\ respOwner[r] = c

FreshClient(c) == c \in Clients /\ ~Reachable(c)

FreshResponse(r) ==
    /\ respState[r] # "pending"
    /\ \A c \in Clients : Reachable(c) => httpWriter[c] # r /\ onAborted[c] # r

(* The peer's own discipline: without Overlap it opens a transport only    *)
(* after its previous one is gone.                                         *)
MayConnect ==
    \/ Overlap
    \/ /\ \A r \in Responses : respState[r] # "pending"
       /\ \A s \in Sockets : socket[s] = "closed"

-----------------------------------------------------------------------------
(* Pieces of the handlers.                                                 *)

(* clearTimeout(client.timer): the handle stays in the field.              *)
ClearedTimer(t) == IF t = "none" THEN "none" ELSE "cleared"

(* hub.getClient(id) && isPolling => hub.doUnregister(id)                  *)
UnregisterIfPolling(reg) ==
    IF reg # None /\ isPolling[reg] THEN None ELSE reg

(* Variant: a reply never unregisters the peer.                            *)
AfterReplyKeeps(reg) == reg

(* After a response that was not aborted, only a worker lets go of it.     *)
AfterReply(reg) == IF IsPrimary THEN reg ELSE UnregisterIfPolling(reg)

(* response.end on a response that is already complete throws.             *)
EndedResponse(state) == IF state = "pending" THEN "ended" ELSE "misused"

(* The queued messages q are written to a response of kind how.            *)
Written(q, how) ==
    [m \in Messages |-> IF \E i \in DOMAIN q : q[i] = m
                        THEN Append(delivered[m], how) ELSE delivered[m]]

(* Variant: the aborted flag of the response is not read.                  *)
EndRespIgnoresAbort(r, reg, how) ==
    /\ respTimer' = [respTimer EXCEPT ![r] = FALSE]
    /\ registered' = AfterReply(reg)
    /\ respState' = [respState EXCEPT ![r] = EndedResponse(@)]
    /\ delivered' = Written(msgQueue[respOwner[r]], how)

(* endResp of response r, called by r's 97 s timer, by the flush timer or  *)
(* by Client.close; reg is the content of the hub's slot at that moment.   *)
(* The caller says what becomes of the Client's fields.                    *)
EndResp(r, reg, how) ==
    /\ respTimer' = [respTimer EXCEPT ![r] = FALSE]
    /\ IF respState[r] = "aborted"
       THEN /\ registered' = UnregisterIfPolling(reg)
            /\ UNCHANGED <<respState, delivered>>
       ELSE /\ registered' = AfterReply(reg)
            /\ respState' = [respState EXCEPT ![r] = EndedResponse(@)]
            /\ delivered' = Written(msgQueue[respOwner[r]], how)

(* Variant: the bound of the queue is off by one.                          *)
SendDataPollingOffByOne(c) ==
    IF Len(msgQueue[c]) > QueueSize
    THEN /\ registered' = None
         /\ UNCHANGED <<msgQueue, flushTimer, sent>>
    ELSE /\ sent < MaxMessages
         /\ sent' = sent + 1
         /\ msgQueue' = [msgQueue EXCEPT ![c] = Append(@, sent + 1)]
         /\ flushTimer' = [flushTimer EXCEPT
                              ![c] = IF @ = "none" THEN "armed" ELSE @]
         /\ UNCHANGED registered

(* Client.sendDataPolling: queue the message for the next flush; a full    *)
(* queue refuses it and the hub then drops the peer.                       *)
SendDataPolling(c) ==
    IF Len(msgQueue[c]) >= QueueSize
    THEN /\ registered' = None
         /\ UNCHANGED <<msgQueue, flushTimer, sent>>
    ELSE /\ sent < MaxMessages
         /\ sent' = sent + 1
         /\ msgQueue' = [msgQueue EXCEPT ![c] = Append(@, sent + 1)]
         /\ flushTimer' = [flushTimer EXCEPT
                              ![c] = IF @ = "none" THEN "armed" ELSE @]
         /\ UNCHANGED registered

(* Client.sendDataWs: sending on a closed socket fails, and the hub then   *)
(* drops the peer, whichever Client is registered for it.                  *)
SendDataWs(c) ==
    /\ registered' = IF ws[c] # None /\ socket[ws[c]] = "open"
                     THEN registered ELSE None
    /\ UNCHANGED <<msgQueue, flushTimer, sent>>

(* hub.sendJsonToClient, and the sends of processPing and                  *)
(* sendMessageToLocalPeerBatch: a failed send unregisters the peer.        *)
SendMessage(c) ==
    /\ IF isPolling[c] THEN SendDataPolling(c) ELSE SendDataWs(c)
    /\ UNCHANGED <<isPolling, httpWriter, ws, onAborted, respVars, socket,
                   captured, delivered>>

(* new Client(writer, id, isPolling, ...) and hub.doRegister               *)
NewClient(c, polling, writer, sock) ==
    /\ registered' = c
    /\ isPolling' = [isPolling EXCEPT ![c] = polling]
    /\ httpWriter' = [httpWriter EXCEPT ![c] = writer]
    /\ ws' = [ws EXCEPT ![c] = sock]
    /\ msgQueue' = [msgQueue EXCEPT ![c] = <<>>]
    /\ onAborted' = [onAborted EXCEPT ![c] = writer]
    /\ flushTimer' = [flushTimer EXCEPT ![c] = "none"]

(* Variant: no 97 s timer.                                                 *)
WaitUntimed(r, c) ==
    /\ respState' = [respState EXCEPT ![r] = "pending"]
    /\ respOwner' = [respOwner EXCEPT ![r] = c]
    /\ UNCHANGED respTimer

(* The tail of GET "/": response r waits, its closures bound to Client c.  *)
Wait(r, c) ==
    /\ respState' = [respState EXCEPT ![r] = "pending"]
    /\ respOwner' = [respOwner EXCEPT ![r] = c]
    /\ respTimer' = [respTimer EXCEPT ![r] = TRUE]

-----------------------------------------------------------------------------
(* Long polling.                                                           *)

(* GET "/" of a peer that is not registered here.                          *)
GetPollNew(r, c) ==
    /\ MayConnect /\ FreshResponse(r) /\ FreshClient(c)
    /\ registered = None
    /\ NewClient(c, TRUE, r, None)
    /\ Wait(r, c)
    /\ UNCHANGED <<socket, captured, sent, delivered>>

(* GET "/" of a polling peer with nothing queued: switchToPolling.  An     *)
(* earlier response that still waits is not ended.                         *)
GetPollWait(r) ==
    /\ MayConnect /\ FreshResponse(r)
    /\ registered # None
    /\ isPolling[registered]
    /\ msgQueue[registered] = <<>>
    /\ httpWriter' = [httpWriter EXCEPT ![registered] = r]
    /\ ws' = [ws EXCEPT ![registered] = None]
    /\ onAborted' = [onAborted EXCEPT ![registered] = r]
    /\ Wait(r, registered)
    /\ UNCHANGED <<registered, isPolling, msgQueue, flushTimer, socket,
                   captured, sent, delivered>>

(* Variant: the reply leaves the messages in the queue.                    *)
GetPollReplyKeepsQueue ==
    /\ MayConnect
    /\ registered # None
    /\ isPolling[registered]
    /\ msgQueue[registered] # <<>>
    /\ delivered' = Written(msgQueue[registered], "get")
    /\ UNCHANGED <<registered, clientVars, respVars, socket, captured, sent>>

(* GET "/" of a polling peer with messages queued: answered at once.       *)
GetPollReply ==
    /\ MayConnect
    /\ registered # None
    /\ isPolling[registered]
    /\ msgQueue[registered] # <<>>
    /\ delivered' = Written(msgQueue[registered], "get")
    /\ msgQueue' = [msgQueue EXCEPT ![registered] = <<>>]
    /\ UNCHANGED <<registered, isPolling, httpWriter, ws, onAborted,
                   flushTimer, respVars, socket, captured, sent>>

(* Variant: the 97 s timer survives the abort.                             *)
AbortPollKeepsTimer(r) ==
    /\ respState[r] = "pending"
    /\ respState' = [respState EXCEPT ![r] = "aborted"]
    /\ flushTimer' = [flushTimer EXCEPT ![respOwner[r]] = ClearedTimer(@)]
    /\ registered' = UnregisterIfPolling(registered)
    /\ UNCHANGED <<isPolling, httpWriter, ws, msgQueue, onAborted, respOwner,
                   respTimer, socket, captured, sent, delivered>>

(* The connection of a waiting response breaks: response.onAborted.        *)
AbortPoll(r) ==
    /\ respState[r] = "pending"
    /\ respState' = [respState EXCEPT ![r] = "aborted"]
    /\ respTimer' = [respTimer EXCEPT ![r] = FALSE]
    /\ flushTimer' = [flushTimer EXCEPT ![respOwner[r]] = ClearedTimer(@)]
    /\ registered' = UnregisterIfPolling(registered)
    /\ UNCHANGED <<isPolling, httpWriter, ws, msgQueue, onAborted, respOwner,
                   socket, captured, sent, delivered>>

(* Variant: the timed-out response stays the Client's writer.              *)
PollTimeoutKeepsWriter(r) ==
    /\ respTimer[r]
    /\ EndResp(r, registered, "timeout")
    /\ flushTimer' = [flushTimer EXCEPT ![respOwner[r]] = ClearedTimer(@)]
    /\ UNCHANGED <<isPolling, httpWriter, ws, msgQueue, onAborted, respOwner,
                   socket, captured, sent>>

(* The 97 s timer of a response runs out.                                  *)
PollTimeout(r) ==
    /\ respTimer[r]
    /\ EndResp(r, registered, "timeout")
    /\ flushTimer' = [flushTimer EXCEPT ![respOwner[r]] = ClearedTimer(@)]
    /\ httpWriter' = [httpWriter EXCEPT ![respOwner[r]] = None]
    /\ UNCHANGED <<isPolling, ws, msgQueue, onAborted, respOwner, socket,
                   captured, sent>>

(* Variant: the queue is emptied before the response is written.           *)
FlushResetsFirst(c) ==
    /\ flushTimer[c] = "armed"
    /\ httpWriter[c] # None /\ msgQueue[c] # <<>> /\ onAborted[c] # None
    /\ registered' = AfterReply(registered)
    /\ respState' = [respState EXCEPT ![onAborted[c]] = EndedResponse(@)]
    /\ respTimer' = [respTimer EXCEPT ![onAborted[c]] = FALSE]
    /\ onAborted' = [onAborted EXCEPT ![c] = None]
    /\ httpWriter' = [httpWriter EXCEPT ![c] = None]
    /\ msgQueue' = [msgQueue EXCEPT ![c] = <<>>]
    /\ flushTimer' = [flushTimer EXCEPT ![c] = "none"]
    /\ UNCHANGED <<isPolling, ws, respOwner, socket, captured, sent, delivered>>

(* The 200 ms timer of sendDataPolling, with something to write to.        *)
Flush(c) ==
    /\ flushTimer[c] = "armed"
    /\ httpWriter[c] # None /\ msgQueue[c] # <<>>
    /\ IF onAborted[c] # None
       THEN EndResp(onAborted[c], registered, "flush")
       ELSE UNCHANGED <<registered, respState, respTimer, delivered>>
    /\ onAborted' = [onAborted EXCEPT ![c] = None]
    /\ httpWriter' = [httpWriter EXCEPT ![c] = None]
    /\ msgQueue' = [msgQueue EXCEPT ![c] = <<>>]
    /\ flushTimer' = [flushTimer EXCEPT ![c] = "none"]
    /\ UNCHANGED <<isPolling, ws, respOwner, socket, captured, sent>>

(* Variant: the queue is emptied whether or not it was written.            *)
FlushIdleDrops(c) ==
    /\ flushTimer[c] = "armed"
    /\ httpWriter[c] = None \/ msgQueue[c] = <<>>
    /\ flushTimer' = [flushTimer EXCEPT ![c] = "none"]
    /\ msgQueue' = [msgQueue EXCEPT ![c] = <<>>]
    /\ UNCHANGED <<registered, isPolling, httpWriter, ws, onAborted, respVars,
                   socket, captured, sent, delivered>>

(* The 200 ms timer with no response waiting or nothing queued.            *)
FlushIdle(c) ==
    /\ flushTimer[c] = "armed"
    /\ httpWriter[c] = None \/ msgQueue[c] = <<>>
    /\ flushTimer' = [flushTimer EXCEPT ![c] = "none"]
    /\ UNCHANGED <<registered, isPolling, httpWriter, ws, msgQueue, onAborted,
                   respVars, socket, captured, sent, delivered>>

-----------------------------------------------------------------------------
(* WebSockets.                                                             *)

(* _onOpen of a socket with a valid id, token and origin.                  *)
SocketOpen(s) ==
    /\ MayConnect
    /\ socket[s] = "closed" /\ \A c \in Clients : Reachable(c) => ws[c] # s
    /\ socket' = [socket EXCEPT ![s] = "open"]
    /\ IF registered # None
       THEN /\ flushTimer' = [flushTimer EXCEPT
                                 ![registered] = ClearedTimer(@)]
            /\ ws' = [ws EXCEPT ![registered] = s]
            /\ httpWriter' = [httpWriter EXCEPT ![registered] = None]
            /\ isPolling' = [isPolling EXCEPT ![registered] = FALSE]
            /\ UNCHANGED <<registered, msgQueue, onAborted>>
       ELSE \E c \in Clients : FreshClient(c) /\ NewClient(c, FALSE, None, s)
    /\ UNCHANGED <<respVars, captured, sent, delivered>>

(* _onOpen refuses the token or the origin: ws.end runs the close handler, *)
(* which unregisters the id the socket named.                              *)
SocketRefused ==
    /\ MayConnect
    /\ registered' = None
    /\ UNCHANGED <<clientVars, respVars, socket, captured, sent, delivered>>

(* _onMessage: a peer that is not registered is registered again; then     *)
(* processMessage either starts directory lookups, which keep the Client,  *)
(* or answers a ping, or touches nothing of this state.                    *)
SocketMessage(s) ==
    /\ socket[s] = "open"
    /\ \/ /\ registered = None
          /\ \E c \in Clients :
                /\ FreshClient(c)
                /\ NewClient(c, FALSE, None, s)
                /\ captured' \in {captured} \cup
                      (IF Captures THEN {captured \cup {c}} ELSE {})
          /\ UNCHANGED <<respVars, socket, sent, delivered>>
       \/ /\ registered # None
          /\ Captures
          /\ captured' = captured \cup {registered}
          /\ UNCHANGED <<registered, clientVars, respVars, socket, sent,
                         delivered>>
       \/ /\ registered # None
          /\ SendMessage(registered)

(* Variant: the peer stays registered.                                     *)
SocketCloseKeeps(s) ==
    /\ socket[s] = "open"
    /\ socket' = [socket EXCEPT ![s] = "closed"]
    /\ UNCHANGED <<registered, clientVars, respVars, captured, sent, delivered>>

(* _onClose, from either side.                                             *)
SocketClose(s) ==
    /\ socket[s] = "open"
    /\ socket' = [socket EXCEPT ![s] = "closed"]
    /\ registered' = None
    /\ UNCHANGED <<clientVars, respVars, captured, sent, delivered>>

-----------------------------------------------------------------------------
(* The hub.                                                                *)

(* Another peer's message reaches the registered Client.                   *)
Deliver ==
    /\ registered # None
    /\ SendMessage(registered)

(* POST "/" captures the Client before the body has been read.             *)
PostStart ==
    /\ Captures
    /\ registered # None
    /\ isPolling[registered]
    /\ captured' = captured \cup {registered}
    /\ UNCHANGED <<registered, clientVars, respVars, socket, sent, delivered>>

(* The POST body is processed, or a directory lookup finds no peer: a pong *)
(* or a not-found notice goes to the captured Client, registered or not.   *)
CapturedSend(c) ==
    /\ c \in captured
    /\ SendMessage(c)

(* The work that held the Client is done.                                  *)
Release(c) ==
    /\ c \in captured
    /\ captured' = captured \ {c}
    /\ UNCHANGED <<registered, clientVars, respVars, socket, sent, delivered>>

(* checkConns finds the registered Client expired: doUnregister, then      *)
(* Client.close.                                                           *)
ExpirePolling ==
    /\ registered # None
    /\ isPolling[registered]
    /\ flushTimer' = [flushTimer EXCEPT ![registered] = ClearedTimer(@)]
    /\ IF httpWriter[registered] # None /\ onAborted[registered] # None
       THEN EndResp(onAborted[registered], None, "close")
       ELSE /\ registered' = None
            /\ UNCHANGED <<respState, respTimer, delivered>>
    /\ httpWriter' = [httpWriter EXCEPT ![registered] = None]
    /\ UNCHANGED <<isPolling, ws, msgQueue, onAborted, respOwner, socket,
                   captured, sent>>

ExpireWs ==
    /\ registered # None
    /\ ~isPolling[registered]
    /\ registered' = None
    /\ socket' = [s \in Sockets |->
                     IF s = ws[registered] THEN "closed" ELSE socket[s]]
    /\ ws' = [ws EXCEPT ![registered] = None]
    /\ UNCHANGED <<isPolling, httpWriter, msgQueue, onAborted, flushTimer,
                   respVars, captured, sent, delivered>>

-----------------------------------------------------------------------------
Next ==
    \/ \E r \in Responses, c \in Clients : GetPollNew(r, c)
    \/ \E r \in Responses : GetPollWait(r) \/ AbortPoll(r) \/ PollTimeout(r)
    \/ GetPollReply
    \/ \E c \in Clients : Flush(c) \/ FlushIdle(c)
    \/ \E s \in Sockets : SocketOpen(s) \/ SocketMessage(s) \/ SocketClose(s)
    \/ SocketRefused
    \/ Deliver
    \/ PostStart
    \/ \E c \in Clients : CapturedSend(c) \/ Release(c)
    \/ ExpirePolling
    \/ ExpireWs

Spec == Init /\ [][Next]_vars

-----------------------------------------------------------------------------
(* Properties.                                                             *)

(* endResp has three callers and no guard of its own: the 97 s timer, the  *)
(* flush timer and Client.close.  However their runs interleave, also with *)
(* polls that supersede each other, it never writes to a response that has *)
(* already been completed (uWebSockets throws on such an access).          *)
NoUseAfterEnd == \A r \in Responses : respState[r] # "misused"

(* A response waits exactly as long as its own 97 s timer runs, so every   *)
(* poll is answered before the 100 s limit of the CDN: clearTimeout(timer) *)
(* and the end of the response always go together.                         *)
PendingIsTimed ==
    \A r \in Responses : (respState[r] = "pending") <=> respTimer[r]

(* The hub never holds a WebSocket Client whose socket has closed, even    *)
(* when the peer opens a second socket or upgrades from polling: _onClose  *)
(* of any of the peer's sockets empties the slot.                          *)
RegisteredSocketOpen ==
    registered # None /\ ~isPolling[registered] =>
        /\ ws[registered] # None
        /\ socket[ws[registered]] = "open"

(* In a worker, a registered polling Client always has a response waiting  *)
(* that its flush will end, and queued messages always have a live flush   *)
(* timer: that is why a worker unregisters the peer with every reply.      *)
WorkerPollFlushable ==
    ~IsPrimary /\ registered # None /\ isPolling[registered] =>
        LET w == httpWriter[registered] IN
        /\ w # None
        /\ respState[w] = "pending"
        /\ respOwner[w] = registered
        /\ onAborted[registered] = w
        /\ msgQueue[registered] # <<>> => flushTimer[registered] = "armed"

(* A message written by a flush or in answer to a GET is never written     *)
(* again.  (A reply by the 97 s timer or by close leaves msgQueue as it    *)
(* is, and such a message may go out a second time.)                       *)
RedeliveryOnlyAfterTimeout ==
    \A m \in Messages : \A i \in DOMAIN delivered[m] :
        i < Len(delivered[m]) => delivered[m][i] \in {"timeout", "close"}

(* Every queued message is written at most once.  True of a worker whose   *)
(* peer keeps to one transport at a time; a primary without workers keeps  *)
(* the Client after a timed-out poll and may repeat its messages.          *)
AtMostOnce == \A m \in Messages : Len(delivered[m]) <= 1

(* The peer's open transport is registered as the one the hub writes to;   *)
(* only a polling queue that overflowed makes an exception.                *)
TransportRegistered ==
    /\ \A s \in Sockets :
          socket[s] = "open" =>
              registered # None /\ ~isPolling[registered] /\ ws[registered] = s
    /\ \A r \in Responses :
          respState[r] = "pending" =>
              \/ registered = respOwner[r] /\ httpWriter[registered] = r
              \/ Len(msgQueue[respOwner[r]]) = QueueSize

(* The messages that can still be written: in a worker a Client can write  *)
(* its queue as long as its response waits.                                *)
Waiting ==
    IF \E r \in Responses : respState[r] = "pending"
    THEN msgQueue[respOwner[CHOOSE r \in Responses : respState[r] = "pending"]]
    ELSE <<>>

(* A worker whose peer keeps to one transport at a time is a mailbox: one  *)
(* queue, whatever Clients, responses and timers come and go, from which a *)
(* message is written in order and once, or never.                         *)
Mail == INSTANCE Mailbox WITH
            queue <- Waiting,
            written <- {m \in Messages : delivered[m] # <<>>}

ImplementsMailbox == Mail!Spec

(* Once a message was written neither it nor an older one is written.      *)
WrittenInOrder ==
    [][\A m, n \in Messages :
          m <= n /\ delivered[n] # <<>> => delivered'[m] = delivered[m]]_vars

(* A peer that keeps to one transport at a time stays registered as long   *)
(* as that transport lives, through every other handler and timer.  Only   *)
(* an old Client, which a handler has held since before an await, can      *)
(* unregister it: by a send that fails, or by the flush of such a send.    *)
ConnectedStaysRegistered ==
    [][ \/ TransportRegistered => TransportRegistered'
        \/ \E c \in Clients \ {registered} : CapturedSend(c) \/ Flush(c) ]_vars

HasResponse(c) == \E r \in Responses : respState[r] = "pending" /\ respOwner[r] = c

Holds(c, m) == \E i \in DOMAIN msgQueue[c] : msgQueue[c][i] = m

(* The peer has aborted, or aborts in this step, a response that Client c  *)
(* would have written its queue to.                                        *)
AbortsResponse(c) ==
    \/ onAborted[c] # None /\ respState[onAborted[c]] = "aborted"
    \/ \E r \in Responses :
          /\ respState[r] = "pending" /\ respOwner[r] = c
          /\ respState'[r] = "aborted"

(* A message that is queued while a response of its Client waits stays     *)
(* queued with a response waiting until it is written: no full queue,      *)
(* switch to a WebSocket, newer poll, or ending of one of several polls    *)
(* takes it out of the queue, or ends the last response without writing    *)
(* it.  Only an abort by the peer can.                                     *)
NothingDroppedSilently ==
    [][\A c \in Clients : HasResponse(c) =>
          \A m \in Messages : Holds(c, m) =>
              \/ Holds(c, m)' /\ HasResponse(c)'
              \/ Len(delivered'[m]) > Len(delivered[m])
              \/ AbortsResponse(c)]_vars

-----------------------------------------------------------------------------
(* Timers fire: node runs every callback whose time has come.              *)
Fairness ==
    /\ \A r \in Responses : WF_vars(PollTimeout(r))
    /\ \A c \in Clients : WF_vars(Flush(c)) /\ WF_vars(FlushIdle(c))

FairSpec == Spec /\ Fairness

(* Every long poll comes to an end.                                        *)
PollAnswered ==
    \A r \in Responses : respState[r] = "pending" ~> respState[r] # "pending"

Queued(m) ==
    registered # None /\ \E i \in DOMAIN msgQueue[registered] :
                              msgQueue[registered][i] = m

Aborted(m) ==
    \E r \in Responses :
        /\ respState[r] = "aborted"
        /\ \E i \in DOMAIN msgQueue[respOwner[r]] : msgQueue[respOwner[r]][i] = m

(* In a worker a message queued for a registered peer is written sooner or *)
(* later, unless the peer aborts a response of the Client it is queued at. *)
QueuedIsWritten ==
    \A m \in Messages : Queued(m) ~> (delivered[m] # <<>> \/ Aborted(m))

=============================================================================
