-------------------------- MODULE PeerSessionProofs --------------------------
(***************************************************************************)
(* Theorems about PeerSession, for every set of Clients, Responses and     *)
(* Sockets, every queue size and both deployments (primary and worker).    *)
(***************************************************************************)
EXTENDS PeerSession, TLAPS

(* The 97 s timer of a response runs exactly while it waits, and its       *)
(* closures belong to a Client.                                            *)
TimerInv ==
    \A r \in Responses :
        /\ (respState[r] = "pending") <=> respTimer[r]
        /\ respState[r] = "pending" => respOwner[r] \in Clients

(* The response a Client in use would write to is the one its onAborted    *)
(* ends, was created for that Client and has not been completed.           *)
WriterInv ==
    \A c \in Clients : Reachable(c) /\ httpWriter[c] # None =>
        /\ onAborted[c] = httpWriter[c]
        /\ respOwner[httpWriter[c]] = c
        /\ respState[httpWriter[c]] \in {"pending", "aborted"}

(* In a worker no polling Client stays registered with a cleared handle in *)
(* its timer field, which would keep sendDataPolling from arming it again. *)
WorkerTimerInv ==
    ~IsPrimary /\ registered # None /\ isPolling[registered] =>
        flushTimer[registered] # "cleared"

SessionInv ==
    /\ SessionTypeOK
    /\ TimerInv
    /\ WriterInv
    /\ NoUseAfterEnd
    /\ RegisteredSocketOpen
    /\ WorkerPollFlushable
    /\ WorkerTimerInv

-----------------------------------------------------------------------------
(* Types.                                                                  *)

(* Unregistering on a reply leaves the slot as it is or empties it.        *)
LEMMA UnregisterResult ==
    ASSUME NEW reg
    PROVE  /\ UnregisterIfPolling(reg) \in {reg, None}
           /\ AfterReply(reg) \in {reg, None}
BY DEF UnregisterIfPolling, AfterReply

(* What a response receives is appended to the record of each message.     *)
LEMMA WrittenType ==
    ASSUME SessionTypeOK, NEW q \in Seq(Messages), NEW how \in Replies
    PROVE  Written(q, how) \in [Messages -> Seq(Replies)]
<1>1. ASSUME NEW m \in Messages
      PROVE  (IF \E i \in DOMAIN q : q[i] = m THEN Append(delivered[m], how)
              ELSE delivered[m]) \in Seq(Replies)
  BY <1>1 DEF SessionTypeOK
<1>2. QED
  BY <1>1 DEF Written

(* endResp keeps the types of what it changes.                             *)
LEMMA EndRespType ==
    ASSUME SessionTypeOK, NEW r \in Responses, NEW reg \in Clients \cup {None},
           NEW how \in Replies, respOwner[r] \in Clients,
           EndResp(r, reg, how)
    PROVE  /\ registered' \in Clients \cup {None}
           /\ respState' \in [Responses -> ResponseStates]
           /\ respTimer' \in [Responses -> BOOLEAN]
           /\ delivered' \in [Messages -> Seq(Replies)]
<1>1. registered' \in Clients \cup {None}
  BY UnregisterResult DEF EndResp
<1>2. respState' \in [Responses -> ResponseStates]
  BY DEF EndResp, EndedResponse, SessionTypeOK, ResponseStates
<1>3. respTimer' \in [Responses -> BOOLEAN]
  BY DEF EndResp, SessionTypeOK
<1>4. delivered' \in [Messages -> Seq(Replies)]
  <2>1. msgQueue[respOwner[r]] \in Seq(Messages)
    BY DEF SessionTypeOK
  <2>2. QED
    BY <2>1, WrittenType DEF EndResp, SessionTypeOK
<1>5. QED
  BY <1>1, <1>2, <1>3, <1>4

(* A message sent to a Client keeps the types, and the bound of its queue. *)
LEMMA SendMessageType ==
    ASSUME SessionTypeOK, NEW c \in Clients, SendMessage(c)
    PROVE  SessionTypeOK'
<1>1. CASE isPolling[c] /\ Len(msgQueue[c]) < QueueSize
  <2>1. /\ sent \in Nat /\ sent < MaxMessages /\ sent' = sent + 1
        /\ msgQueue' = [msgQueue EXCEPT ![c] = Append(@, sent + 1)]
        /\ flushTimer' = [flushTimer EXCEPT
                              ![c] = IF @ = "none" THEN "armed" ELSE @]
        /\ UNCHANGED registered
    BY <1>1, SessionAssumption DEF SendMessage, SendDataPolling, SessionTypeOK
  <2>2. sent' \in 0 .. MaxMessages /\ sent + 1 \in Messages
    BY <2>1, SessionAssumption DEF Messages
  <2>3. /\ msgQueue' \in [Clients -> Seq(Messages)]
        /\ \A d \in Clients : Len(msgQueue'[d]) <= QueueSize
    <3>1. /\ Append(msgQueue[c], sent + 1) \in Seq(Messages)
          /\ Len(Append(msgQueue[c], sent + 1)) = Len(msgQueue[c]) + 1
          /\ Len(msgQueue[c]) \in Nat
      BY <2>2 DEF SessionTypeOK
    <3>2. QED
      BY <1>1, <2>1, <3>1, SessionAssumption DEF SessionTypeOK
  <2>4. flushTimer' \in [Clients -> Timers]
    BY <2>1 DEF SessionTypeOK, Timers
  <2>5. QED
    BY <2>1, <2>2, <2>3, <2>4 DEF SessionTypeOK, SendMessage, respVars
<1>2. CASE ~(isPolling[c] /\ Len(msgQueue[c]) < QueueSize)
  <2>1. /\ registered' \in {registered, None}
        /\ UNCHANGED <<msgQueue, flushTimer, sent>>
    BY <1>2, SessionAssumption
       DEF SendMessage, SendDataPolling, SendDataWs, SessionTypeOK
  <2>2. QED
    BY <2>1 DEF SessionTypeOK, SendMessage, respVars
<1>3. QED
  BY <1>1, <1>2

(* A new Client keeps the types.                                           *)
LEMMA NewClientType ==
    ASSUME SessionTypeOK, NEW c \in Clients, NEW polling \in BOOLEAN,
           NEW writer \in Responses \cup {None},
           NEW sock \in Sockets \cup {None},
           NewClient(c, polling, writer, sock)
    PROVE  /\ registered' \in Clients \cup {None}
           /\ isPolling' \in [Clients -> BOOLEAN]
           /\ httpWriter' \in [Clients -> Responses \cup {None}]
           /\ ws' \in [Clients -> Sockets \cup {None}]
           /\ msgQueue' \in [Clients -> Seq(Messages)]
           /\ \A d \in Clients : Len(msgQueue'[d]) <= QueueSize
           /\ onAborted' \in [Clients -> Responses \cup {None}]
           /\ flushTimer' \in [Clients -> Timers]
BY SessionAssumption DEF SessionTypeOK, NewClient, Timers

LEMMA TypeInit == Init => SessionTypeOK
BY SessionAssumption
   DEF Init, SessionTypeOK, Timers, ResponseStates, Replies, Messages

(* Every callback keeps the types.  TimerInv is needed for the owner of a  *)
(* timed-out response, WriterInv for that of a flushed one.                *)
LEMMA TypeNext ==
    ASSUME SessionTypeOK, TimerInv, WriterInv, [Next]_vars
    PROVE  SessionTypeOK'
<1> USE DEF clientVars, respVars
<1>1. ASSUME NEW r \in Responses, NEW c \in Clients, GetPollNew(r, c)
      PROVE  SessionTypeOK'
  BY <1>1, NewClientType DEF GetPollNew, Wait, SessionTypeOK, ResponseStates
<1>2. ASSUME NEW r \in Responses, GetPollWait(r)
      PROVE  SessionTypeOK'
  BY <1>2 DEF GetPollWait, Wait, SessionTypeOK, ResponseStates
<1>3. ASSUME NEW r \in Responses, AbortPoll(r)
      PROVE  SessionTypeOK'
  <2>1. registered' \in Clients \cup {None}
    BY <1>3, UnregisterResult DEF AbortPoll, SessionTypeOK
  <2>2. flushTimer' \in [Clients -> Timers]
    BY <1>3 DEF AbortPoll, SessionTypeOK, Timers, ClearedTimer
  <2>3. QED
    BY <1>3, <2>1, <2>2 DEF AbortPoll, SessionTypeOK, ResponseStates
<1>4. ASSUME NEW r \in Responses, PollTimeout(r)
      PROVE  SessionTypeOK'
  <2>1. respOwner[r] \in Clients
    BY <1>4 DEF PollTimeout, TimerInv
  <2>2. /\ registered' \in Clients \cup {None}
        /\ respState' \in [Responses -> ResponseStates]
        /\ respTimer' \in [Responses -> BOOLEAN]
        /\ delivered' \in [Messages -> Seq(Replies)]
    BY <1>4, <2>1, EndRespType DEF PollTimeout, SessionTypeOK, Replies
  <2>3. flushTimer' \in [Clients -> Timers]
    BY <1>4 DEF PollTimeout, SessionTypeOK, Timers, ClearedTimer
  <2>4. QED
    BY <1>4, <2>2, <2>3 DEF PollTimeout, SessionTypeOK
<1>5. CASE GetPollReply
  <2>1. delivered' \in [Messages -> Seq(Replies)]
    BY <1>5, WrittenType DEF GetPollReply, SessionTypeOK, Replies
  <2>2. /\ msgQueue' \in [Clients -> Seq(Messages)]
        /\ \A c \in Clients : Len(msgQueue'[c]) <= QueueSize
    BY <1>5, SessionAssumption DEF GetPollReply, SessionTypeOK
  <2>3. QED
    BY <1>5, <2>1, <2>2 DEF GetPollReply, SessionTypeOK
<1>6. ASSUME NEW c \in Clients, Flush(c)
      PROVE  SessionTypeOK'
  <2>1. /\ registered' \in Clients \cup {None}
        /\ respState' \in [Responses -> ResponseStates]
        /\ respTimer' \in [Responses -> BOOLEAN]
        /\ delivered' \in [Messages -> Seq(Replies)]
    <3>1. /\ onAborted[c] = httpWriter[c] /\ httpWriter[c] # None
          /\ respOwner[onAborted[c]] \in Clients
          /\ onAborted[c] \in Responses
      BY <1>6 DEF Flush, WriterInv, Reachable, SessionTypeOK
    <3>2. EndResp(onAborted[c], registered, "flush")
      BY <1>6, <3>1 DEF Flush
    <3>3. QED
      BY <3>1, <3>2, EndRespType DEF SessionTypeOK, Replies
  <2>2. /\ msgQueue' \in [Clients -> Seq(Messages)]
        /\ \A d \in Clients : Len(msgQueue'[d]) <= QueueSize
    BY <1>6, SessionAssumption DEF Flush, SessionTypeOK
  <2>3. QED
    BY <1>6, <2>1, <2>2 DEF Flush, SessionTypeOK, Timers
<1>7. ASSUME NEW c \in Clients, FlushIdle(c)
      PROVE  SessionTypeOK'
  BY <1>7 DEF FlushIdle, SessionTypeOK, Timers
<1>8. ASSUME NEW s \in Sockets, SocketOpen(s)
      PROVE  SessionTypeOK'
  <2>1. CASE registered # None
    BY <1>8, <2>1 DEF SocketOpen, SessionTypeOK, Timers, ClearedTimer
  <2>2. CASE registered = None
    <3>1. PICK c \in Clients : NewClient(c, FALSE, None, s)
      BY <1>8, <2>2 DEF SocketOpen
    <3>2. QED
      BY <1>8, <3>1, NewClientType DEF SocketOpen, SessionTypeOK
  <2>3. QED
    BY <2>1, <2>2
<1>9. CASE SocketRefused
  BY <1>9 DEF SocketRefused, SessionTypeOK
<1>10. ASSUME NEW s \in Sockets, SocketMessage(s)
       PROVE  SessionTypeOK'
  <2>1. CASE registered = None
    <3>1. PICK c \in Clients :
             /\ NewClient(c, FALSE, None, s)
             /\ captured' \in {captured} \cup
                   (IF Captures THEN {captured \cup {c}} ELSE {})
      BY <1>10, <2>1 DEF SocketMessage
    <3>2. captured' \subseteq Clients
      BY <3>1 DEF SessionTypeOK
    <3>3. UNCHANGED <<respVars, socket, sent, delivered>>
      BY <1>10, <2>1 DEF SocketMessage
    <3>4. QED
      BY <3>1, <3>2, <3>3, NewClientType DEF SessionTypeOK
  <2>2. CASE registered # None
    <3>1. CASE SendMessage(registered)
      BY <2>2, <3>1, SendMessageType DEF SessionTypeOK
    <3>2. CASE /\ captured' = captured \cup {registered}
               /\ UNCHANGED <<registered, clientVars, respVars, socket, sent,
                              delivered>>
      BY <2>2, <3>2 DEF SessionTypeOK
    <3>3. QED
      BY <1>10, <2>2, <3>1, <3>2 DEF SocketMessage
  <2>3. QED
    BY <2>1, <2>2
<1>11. ASSUME NEW s \in Sockets, SocketClose(s)
       PROVE  SessionTypeOK'
  BY <1>11 DEF SocketClose, SessionTypeOK
<1>12. CASE Deliver
  BY <1>12, SendMessageType DEF Deliver, SessionTypeOK
<1>13. CASE PostStart
  BY <1>13 DEF PostStart, SessionTypeOK
<1>14. ASSUME NEW c \in Clients, CapturedSend(c)
       PROVE  SessionTypeOK'
  BY <1>14, SendMessageType DEF CapturedSend
<1>15. ASSUME NEW c \in Clients, Release(c)
       PROVE  SessionTypeOK'
  BY <1>15 DEF Release, SessionTypeOK
<1>16. CASE ExpirePolling
  <2>1. registered \in Clients
    BY <1>16 DEF ExpirePolling, SessionTypeOK
  <2>2. /\ registered' \in Clients \cup {None}
        /\ respState' \in [Responses -> ResponseStates]
        /\ respTimer' \in [Responses -> BOOLEAN]
        /\ delivered' \in [Messages -> Seq(Replies)]
    <3>1. CASE httpWriter[registered] # None /\ onAborted[registered] # None
      <4>1. /\ onAborted[registered] \in Responses
            /\ respOwner[onAborted[registered]] \in Clients
        BY <2>1, <3>1 DEF WriterInv, Reachable, SessionTypeOK
      <4>2. EndResp(onAborted[registered], None, "close")
        BY <1>16, <3>1 DEF ExpirePolling
      <4>3. QED
        BY <4>1, <4>2, EndRespType DEF Replies
    <3>2. CASE ~(httpWriter[registered] # None /\ onAborted[registered] # None)
      BY <1>16, <3>2 DEF ExpirePolling, SessionTypeOK
    <3>3. QED
      BY <3>1, <3>2
  <2>3. flushTimer' \in [Clients -> Timers]
    BY <1>16 DEF ExpirePolling, SessionTypeOK, Timers, ClearedTimer
  <2>4. QED
    BY <1>16, <2>1, <2>2, <2>3 DEF ExpirePolling, SessionTypeOK
<1>17. CASE ExpireWs
  BY <1>17 DEF ExpireWs, SessionTypeOK
<1>18. CASE UNCHANGED vars
  BY <1>18 DEF vars, SessionTypeOK
<1>19. QED
  BY <1>1, <1>2, <1>3, <1>4, <1>5, <1>6, <1>7, <1>8, <1>9, <1>10, <1>11,
     <1>12, <1>13, <1>14, <1>15, <1>16, <1>17, <1>18 DEF Next

-----------------------------------------------------------------------------
(* The inductive step.                                                     *)

(* What endResp does to a response that has not been completed, and to the *)
(* hub's slot.                                                             *)
LEMMA EndRespResult ==
    ASSUME SessionTypeOK, NEW r \in Responses, NEW reg, NEW how,
           respState[r] \in {"pending", "aborted"}, EndResp(r, reg, how)
    PROVE  /\ respTimer' = [respTimer EXCEPT ![r] = FALSE]
           /\ respState'[r] \in {"ended", "aborted"}
           /\ \A q \in Responses \ {r} : respState'[q] = respState[q]
           /\ registered' \in {reg, None}
           /\ ~IsPrimary /\ reg # None /\ isPolling[reg] => registered' = None
BY DEF EndResp, EndedResponse, AfterReply, UnregisterIfPolling, SessionTypeOK

(* A message sent to a Client in use touches only its queue, its flush     *)
(* timer and the slot.                                                     *)
LEMMA SendMessageResult ==
    ASSUME SessionTypeOK, NEW c \in Clients, SendMessage(c)
    PROVE  /\ UNCHANGED <<isPolling, httpWriter, ws, onAborted, respVars,
                          socket, captured, delivered>>
           /\ registered' \in {registered, None}
           /\ \A d \in Clients : d # c =>
                 msgQueue'[d] = msgQueue[d] /\ flushTimer'[d] = flushTimer[d]
           /\ flushTimer'[c] \in {flushTimer[c], "armed"}
           /\ \/ msgQueue'[c] = msgQueue[c] /\ flushTimer'[c] = flushTimer[c]
              \/ flushTimer[c] # "cleared" => flushTimer'[c] = "armed"
BY SessionAssumption
   DEF SendMessage, SendDataPolling, SendDataWs, SessionTypeOK, Timers

(* A message sent to a Client in use preserves the invariant.              *)
LEMMA SendMessageInv ==
    ASSUME SessionInv, NEW c \in Clients, Reachable(c), SendMessage(c)
    PROVE  SessionInv'
<1> USE DEF respVars
<1>1. SessionTypeOK'
  BY SendMessageType DEF SessionInv
<1>2. \A d \in Clients : Reachable(d)' => Reachable(d)
  BY SendMessageResult, SessionAssumption
     DEF SessionInv, Reachable, SessionTypeOK
<1>3. TimerInv' /\ NoUseAfterEnd'
  BY SendMessageResult DEF SessionInv, TimerInv, NoUseAfterEnd
<1>4. WriterInv'
  BY <1>2, SendMessageResult DEF SessionInv, WriterInv
<1>5. RegisteredSocketOpen'
  BY SendMessageResult DEF SessionInv, RegisteredSocketOpen
<1>6. WorkerPollFlushable' /\ WorkerTimerInv'
  <2>1. CASE registered' = c
    BY <2>1, SendMessageResult
       DEF SessionInv, WorkerPollFlushable, WorkerTimerInv
  <2>2. CASE registered' # c
    <3>1. registered' # None => registered \in Clients /\ registered' = registered
      BY SendMessageResult DEF SessionInv, SessionTypeOK
    <3>2. QED
      BY <2>2, <3>1, SendMessageResult
         DEF SessionInv, WorkerPollFlushable, WorkerTimerInv
  <2>3. QED
    BY <2>1, <2>2
<1>7. QED
  BY <1>1, <1>3, <1>4, <1>5, <1>6 DEF SessionInv

(* A new WebSocket Client on an open socket preserves what it can disturb. *)
LEMMA NewSocketClientInv ==
    ASSUME SessionInv, NEW c \in Clients, NEW s \in Sockets,
           FreshClient(c), NewClient(c, FALSE, None, s),
           UNCHANGED respVars, SessionTypeOK', captured' \subseteq captured \cup {c},
           socket'[s] = "open"
    PROVE  SessionInv'
<1> USE DEF respVars
<1>1. \A d \in Clients : Reachable(d)' => Reachable(d) \/ d = c
  BY DEF SessionInv, Reachable, NewClient, SessionTypeOK
<1>2. TimerInv' /\ NoUseAfterEnd'
  BY DEF SessionInv, TimerInv, NoUseAfterEnd
<1>3. WriterInv'
  BY <1>1 DEF SessionInv, WriterInv, NewClient, SessionTypeOK
<1>4. RegisteredSocketOpen'
  BY SessionAssumption DEF SessionInv, RegisteredSocketOpen, NewClient, SessionTypeOK
<1>5. WorkerPollFlushable' /\ WorkerTimerInv'
  BY DEF SessionInv, NewClient, WorkerPollFlushable, WorkerTimerInv, SessionTypeOK
<1>6. QED
  BY <1>2, <1>3, <1>4, <1>5 DEF SessionInv

LEMMA SessionInit == Init => SessionInv
BY TypeInit
   DEF Init, SessionInv, TimerInv, WriterInv, NoUseAfterEnd, Reachable,
       RegisteredSocketOpen, WorkerPollFlushable, WorkerTimerInv

(* Every callback preserves the invariant.                                 *)
LEMMA SessionNext ==
    ASSUME SessionInv, [Next]_vars
    PROVE  SessionInv'
<1> USE DEF clientVars, respVars
<1>t. SessionTypeOK /\ SessionTypeOK'
  BY TypeNext DEF SessionInv
<1>a. TimerInv /\ WriterInv /\ NoUseAfterEnd
  BY DEF SessionInv
<1>b. RegisteredSocketOpen /\ WorkerPollFlushable /\ WorkerTimerInv
  BY DEF SessionInv
<1>1. ASSUME NEW r \in Responses, NEW c \in Clients, GetPollNew(r, c)
      PROVE  SessionInv'
  <2>1. \A d \in Clients : Reachable(d)' => Reachable(d) \/ d = c
    BY <1>1, <1>t DEF GetPollNew, NewClient, Wait, Reachable, SessionTypeOK
  <2>2. TimerInv' /\ NoUseAfterEnd'
    BY <1>1, <1>t, <1>a DEF GetPollNew, Wait, TimerInv, NoUseAfterEnd, SessionTypeOK
  <2>3. WriterInv'
    BY <1>1, <1>t, <1>a, <2>1
       DEF GetPollNew, Wait, NewClient, FreshResponse, WriterInv, SessionTypeOK
  <2>4. RegisteredSocketOpen'
    BY <1>1, <1>t DEF GetPollNew, NewClient, RegisteredSocketOpen, SessionTypeOK
  <2>5. WorkerPollFlushable' /\ WorkerTimerInv'
    BY <1>1, <1>t, SessionAssumption
       DEF GetPollNew, Wait, NewClient, WorkerPollFlushable, WorkerTimerInv,
           SessionTypeOK
  <2>6. QED
    BY <1>t, <2>2, <2>3, <2>4, <2>5 DEF SessionInv
<1>2. ASSUME NEW r \in Responses, GetPollWait(r)
      PROVE  SessionInv'
  <2>1. \A d \in Clients : Reachable(d)' => Reachable(d)
    BY <1>2, <1>t DEF GetPollWait, Wait, Reachable, SessionTypeOK
  <2>2. TimerInv' /\ NoUseAfterEnd'
    BY <1>2, <1>t, <1>a DEF GetPollWait, Wait, TimerInv, NoUseAfterEnd, SessionTypeOK
  <2>3. WriterInv'
    BY <1>2, <1>t, <1>a, <2>1
       DEF GetPollWait, Wait, FreshResponse, WriterInv, SessionTypeOK
  <2>4. RegisteredSocketOpen'
    BY <1>2, <1>t DEF GetPollWait, RegisteredSocketOpen
  <2>5. WorkerPollFlushable' /\ WorkerTimerInv'
    BY <1>2, <1>t, <1>b, SessionAssumption
       DEF GetPollWait, Wait, WorkerPollFlushable, WorkerTimerInv, SessionTypeOK
  <2>6. QED
    BY <1>t, <2>2, <2>3, <2>4, <2>5 DEF SessionInv
<1>3. ASSUME NEW r \in Responses, AbortPoll(r)
      PROVE  SessionInv'
  <2>0. /\ registered' \in {registered, None}
        /\ registered' # None => ~isPolling[registered]
    BY <1>3 DEF AbortPoll, UnregisterIfPolling
  <2>1. \A d \in Clients : Reachable(d)' => Reachable(d)
    BY <1>3, <1>t, <2>0, SessionAssumption
       DEF AbortPoll, ClearedTimer, Reachable, SessionTypeOK
  <2>2. TimerInv' /\ NoUseAfterEnd'
    BY <1>3, <1>t, <1>a DEF AbortPoll, TimerInv, NoUseAfterEnd, SessionTypeOK
  <2>3. WriterInv'
    BY <1>3, <1>t, <1>a, <2>1 DEF AbortPoll, WriterInv, SessionTypeOK
  <2>4. RegisteredSocketOpen'
    BY <1>3, <1>b, <2>0 DEF AbortPoll, RegisteredSocketOpen
  <2>5. WorkerPollFlushable' /\ WorkerTimerInv'
    BY <1>3, <2>0 DEF AbortPoll, WorkerPollFlushable, WorkerTimerInv
  <2>6. QED
    BY <1>t, <2>2, <2>3, <2>4, <2>5 DEF SessionInv
<1>4. ASSUME NEW r \in Responses, PollTimeout(r)
      PROVE  SessionInv'
  <2>0. /\ respState[r] = "pending" /\ respOwner[r] \in Clients
        /\ respTimer' = [respTimer EXCEPT ![r] = FALSE]
        /\ respState'[r] \in {"ended", "aborted"}
        /\ \A q \in Responses \ {r} : respState'[q] = respState[q]
        /\ registered' \in {registered, None}
        /\ ~IsPrimary /\ registered # None /\ isPolling[registered] =>
              registered' = None
    BY <1>4, <1>t, <1>a, EndRespResult DEF PollTimeout, TimerInv
  <2>1. \A d \in Clients : Reachable(d)' => Reachable(d)
    BY <1>4, <1>t, <2>0, SessionAssumption
       DEF PollTimeout, ClearedTimer, Reachable, SessionTypeOK
  <2>2. TimerInv' /\ NoUseAfterEnd'
    BY <1>4, <1>t, <1>a, <2>0 DEF PollTimeout, TimerInv, NoUseAfterEnd, SessionTypeOK
  <2>3. WriterInv'
    <3>1. ASSUME NEW d \in Clients, Reachable(d), httpWriter'[d] # None
          PROVE  /\ httpWriter[d] # r /\ httpWriter'[d] = httpWriter[d]
                 /\ httpWriter[d] \in Responses
      BY <1>4, <1>t, <1>a, <2>0, <3>1, SessionAssumption
         DEF PollTimeout, WriterInv, SessionTypeOK
    <3>2. QED
      BY <1>4, <1>a, <2>0, <2>1, <3>1 DEF PollTimeout, WriterInv
  <2>4. RegisteredSocketOpen'
    BY <1>4, <1>b, <2>0 DEF PollTimeout, RegisteredSocketOpen
  <2>5. WorkerPollFlushable' /\ WorkerTimerInv'
    BY <1>4, <2>0 DEF PollTimeout, WorkerPollFlushable, WorkerTimerInv
  <2>6. QED
    BY <1>t, <2>2, <2>3, <2>4, <2>5 DEF SessionInv
<1>5. CASE GetPollReply
  <2>1. \A d \in Clients : Reachable(d)' => Reachable(d)
    BY <1>5 DEF GetPollReply, Reachable
  <2>2. TimerInv' /\ NoUseAfterEnd'
    BY <1>5, <1>a DEF GetPollReply, TimerInv, NoUseAfterEnd
  <2>3. WriterInv'
    BY <1>5, <1>a, <2>1 DEF GetPollReply, WriterInv
  <2>4. RegisteredSocketOpen'
    BY <1>5, <1>b DEF GetPollReply, RegisteredSocketOpen
  <2>5. WorkerPollFlushable' /\ WorkerTimerInv'
    BY <1>5, <1>t, <1>b
       DEF GetPollReply, WorkerPollFlushable, WorkerTimerInv, SessionTypeOK
  <2>6. QED
    BY <1>t, <2>2, <2>3, <2>4, <2>5 DEF SessionInv
<1>6. ASSUME NEW c \in Clients, Flush(c)
      PROVE  SessionInv'
  <2> DEFINE r == onAborted[c]
  <2>0. /\ r \in Responses /\ r = httpWriter[c] /\ respOwner[r] = c
        /\ respTimer' = [respTimer EXCEPT ![r] = FALSE]
        /\ respState'[r] \in {"ended", "aborted"}
        /\ \A q \in Responses \ {r} : respState'[q] = respState[q]
        /\ registered' \in {registered, None}
        /\ ~IsPrimary /\ registered # None /\ isPolling[registered] =>
              registered' = None
    <3>1. /\ r \in Responses /\ r = httpWriter[c] /\ respOwner[r] = c
          /\ respState[r] \in {"pending", "aborted"}
      BY <1>6, <1>t, <1>a DEF Flush, WriterInv, Reachable, SessionTypeOK
    <3>2. EndResp(r, registered, "flush")
      BY <1>6, <3>1 DEF Flush
    <3>3. QED
      BY <1>t, <3>1, <3>2, EndRespResult
  <2>1. \A d \in Clients : Reachable(d)' => Reachable(d)
    BY <1>6, <1>t, <2>0, SessionAssumption
       DEF Flush, Reachable, SessionTypeOK
  <2>2. TimerInv' /\ NoUseAfterEnd'
    BY <1>6, <1>t, <1>a, <2>0 DEF Flush, TimerInv, NoUseAfterEnd, SessionTypeOK
  <2>3. WriterInv'
    <3>1. ASSUME NEW d \in Clients, Reachable(d), httpWriter'[d] # None
          PROVE  /\ d # c /\ httpWriter[d] # r
                 /\ httpWriter'[d] = httpWriter[d]
                 /\ onAborted'[d] = onAborted[d]
                 /\ httpWriter[d] \in Responses
      <4>1. d # c /\ httpWriter'[d] = httpWriter[d] /\ onAborted'[d] = onAborted[d]
        BY <1>6, <1>t, <3>1 DEF Flush, SessionTypeOK
      <4>2. QED
        BY <1>t, <1>a, <2>0, <3>1, <4>1 DEF WriterInv, SessionTypeOK
    <3>2. QED
      BY <1>6, <1>a, <2>0, <2>1, <3>1 DEF Flush, WriterInv
  <2>4. RegisteredSocketOpen'
    BY <1>6, <1>b, <2>0 DEF Flush, RegisteredSocketOpen
  <2>5. WorkerPollFlushable' /\ WorkerTimerInv'
    BY <1>6, <2>0 DEF Flush, WorkerPollFlushable, WorkerTimerInv
  <2>6. QED
    BY <1>t, <2>2, <2>3, <2>4, <2>5 DEF SessionInv
<1>7. ASSUME NEW c \in Clients, FlushIdle(c)
      PROVE  SessionInv'
  <2>1. \A d \in Clients : Reachable(d)' => Reachable(d)
    BY <1>7, <1>t DEF FlushIdle, Reachable, SessionTypeOK
  <2>2. TimerInv' /\ NoUseAfterEnd'
    BY <1>7, <1>a DEF FlushIdle, TimerInv, NoUseAfterEnd
  <2>3. WriterInv'
    BY <1>7, <1>a, <2>1 DEF FlushIdle, WriterInv
  <2>4. RegisteredSocketOpen'
    BY <1>7, <1>b DEF FlushIdle, RegisteredSocketOpen
  <2>5. WorkerPollFlushable' /\ WorkerTimerInv'
    BY <1>7, <1>t, <1>b
       DEF FlushIdle, WorkerPollFlushable, WorkerTimerInv, SessionTypeOK
  <2>6. QED
    BY <1>t, <2>2, <2>3, <2>4, <2>5 DEF SessionInv
<1>8. ASSUME NEW s \in Sockets, SocketOpen(s)
      PROVE  SessionInv'
  <2>1. CASE registered # None
    <3>1. \A d \in Clients : Reachable(d)' => Reachable(d)
      BY <1>8, <1>t, <2>1 DEF SocketOpen, ClearedTimer, Reachable, SessionTypeOK
    <3>2. TimerInv' /\ NoUseAfterEnd'
      BY <1>8, <1>a DEF SocketOpen, TimerInv, NoUseAfterEnd
    <3>3. WriterInv'
      <4>1. ASSUME NEW d \in Clients, httpWriter'[d] # None
            PROVE  httpWriter'[d] = httpWriter[d]
        BY <1>8, <1>t, <2>1, <4>1 DEF SocketOpen, SessionTypeOK
      <4>2. UNCHANGED <<onAborted, respOwner, respState>>
        BY <1>8, <2>1 DEF SocketOpen
      <4>3. QED
        BY <1>a, <3>1, <4>1, <4>2 DEF WriterInv
    <3>4. RegisteredSocketOpen'
      BY <1>8, <1>t, <2>1, SessionAssumption
         DEF SocketOpen, RegisteredSocketOpen, SessionTypeOK
    <3>5. WorkerPollFlushable' /\ WorkerTimerInv'
      BY <1>8, <1>t, <2>1
         DEF SocketOpen, WorkerPollFlushable, WorkerTimerInv, SessionTypeOK
    <3>6. QED
      BY <1>t, <3>2, <3>3, <3>4, <3>5 DEF SessionInv
  <2>2. CASE registered = None
    <3>1. PICK c \in Clients : FreshClient(c) /\ NewClient(c, FALSE, None, s)
      BY <1>8, <2>2 DEF SocketOpen
    <3>2. socket'[s] = "open" /\ captured' = captured
      BY <1>8, <1>t DEF SocketOpen, SessionTypeOK
    <3>3. QED
      BY <1>8, <1>t, <3>1, <3>2, NewSocketClientInv DEF SocketOpen
  <2>3. QED
    BY <2>1, <2>2
<1>9. CASE SocketRefused
  <2>1. \A d \in Clients : Reachable(d)' => Reachable(d)
    BY <1>9, SessionAssumption DEF SocketRefused, Reachable
  <2>2. TimerInv' /\ NoUseAfterEnd' /\ WriterInv'
    BY <1>9, <1>a, <2>1 DEF SocketRefused, TimerInv, NoUseAfterEnd, WriterInv
  <2>3. RegisteredSocketOpen' /\ WorkerPollFlushable' /\ WorkerTimerInv'
    BY <1>9 DEF SocketRefused, RegisteredSocketOpen, WorkerPollFlushable,
                WorkerTimerInv
  <2>4. QED
    BY <1>t, <2>2, <2>3 DEF SessionInv
<1>10. ASSUME NEW s \in Sockets, SocketMessage(s)
       PROVE  SessionInv'
  <2>1. CASE registered = None
    <3>1. PICK c \in Clients :
             /\ FreshClient(c)
             /\ NewClient(c, FALSE, None, s)
             /\ captured' \in {captured} \cup
                   (IF Captures THEN {captured \cup {c}} ELSE {})
      BY <1>10, <2>1 DEF SocketMessage
    <3>2. /\ socket'[s] = "open" /\ UNCHANGED respVars
      BY <1>10, <1>t, <2>1 DEF SocketMessage, SessionTypeOK
    <3>3. captured' \subseteq captured \cup {c}
      BY <3>1
    <3>4. QED
      BY <1>t, <3>1, <3>2, <3>3, NewSocketClientInv
  <2>2. CASE registered # None
    <3>1. registered \in Clients /\ Reachable(registered)
      BY <1>t, <2>2 DEF SessionTypeOK, Reachable
    <3>2. CASE SendMessage(registered)
      BY <3>1, <3>2, SendMessageInv
    <3>3. CASE /\ captured' = captured \cup {registered}
               /\ UNCHANGED <<registered, clientVars, respVars, socket, sent,
                              delivered>>
      <4>1. \A d \in Clients : Reachable(d)' => Reachable(d)
        BY <3>1, <3>3 DEF Reachable
      <4>2. TimerInv' /\ NoUseAfterEnd' /\ WriterInv'
        BY <1>a, <3>3, <4>1 DEF TimerInv, NoUseAfterEnd, WriterInv
      <4>3. RegisteredSocketOpen' /\ WorkerPollFlushable' /\ WorkerTimerInv'
        BY <1>b, <3>3
           DEF RegisteredSocketOpen, WorkerPollFlushable, WorkerTimerInv
      <4>4. QED
        BY <1>t, <4>2, <4>3 DEF SessionInv
    <3>4. QED
      BY <1>10, <2>2, <3>2, <3>3 DEF SocketMessage
  <2>3. QED
    BY <2>1, <2>2
<1>11. ASSUME NEW s \in Sockets, SocketClose(s)
       PROVE  SessionInv'
  <2>1. \A d \in Clients : Reachable(d)' => Reachable(d)
    BY <1>11, SessionAssumption DEF SocketClose, Reachable
  <2>2. TimerInv' /\ NoUseAfterEnd' /\ WriterInv'
    BY <1>11, <1>a, <2>1 DEF SocketClose, TimerInv, NoUseAfterEnd, WriterInv
  <2>3. RegisteredSocketOpen' /\ WorkerPollFlushable' /\ WorkerTimerInv'
    BY <1>11 DEF SocketClose, RegisteredSocketOpen, WorkerPollFlushable,
                 WorkerTimerInv
  <2>4. QED
    BY <1>t, <2>2, <2>3 DEF SessionInv
<1>12. CASE Deliver
  BY <1>12, <1>t, SendMessageInv DEF Deliver, Reachable, SessionTypeOK
<1>13. CASE PostStart
  <2>1. \A d \in Clients : Reachable(d)' => Reachable(d)
    BY <1>13 DEF PostStart, Reachable
  <2>2. TimerInv' /\ NoUseAfterEnd' /\ WriterInv'
    BY <1>13, <1>a, <2>1 DEF PostStart, TimerInv, NoUseAfterEnd, WriterInv
  <2>3. RegisteredSocketOpen' /\ WorkerPollFlushable' /\ WorkerTimerInv'
    BY <1>13, <1>b DEF PostStart, RegisteredSocketOpen, WorkerPollFlushable,
                       WorkerTimerInv
  <2>4. QED
    BY <1>t, <2>2, <2>3 DEF SessionInv
<1>14. ASSUME NEW c \in Clients, CapturedSend(c)
       PROVE  SessionInv'
  BY <1>14, SendMessageInv DEF CapturedSend, Reachable
<1>15. ASSUME NEW c \in Clients, Release(c)
       PROVE  SessionInv'
  <2>1. \A d \in Clients : Reachable(d)' => Reachable(d)
    BY <1>15 DEF Release, Reachable
  <2>2. TimerInv' /\ NoUseAfterEnd' /\ WriterInv'
    BY <1>15, <1>a, <2>1 DEF Release, TimerInv, NoUseAfterEnd, WriterInv
  <2>3. RegisteredSocketOpen' /\ WorkerPollFlushable' /\ WorkerTimerInv'
    BY <1>15, <1>b DEF Release, RegisteredSocketOpen, WorkerPollFlushable,
                       WorkerTimerInv
  <2>4. QED
    BY <1>t, <2>2, <2>3 DEF SessionInv
<1>16. CASE ExpirePolling
  <2> DEFINE c == registered
             r == onAborted[c]
  <2>0. /\ c \in Clients /\ Reachable(c) /\ registered' = None
    <3>1. c \in Clients /\ Reachable(c)
      BY <1>16, <1>t DEF ExpirePolling, Reachable, SessionTypeOK
    <3>2. registered' = None
      BY <1>16 DEF ExpirePolling, EndResp, AfterReply, UnregisterIfPolling
    <3>3. QED
      BY <3>1, <3>2
  <2>1. CASE httpWriter[c] # None /\ onAborted[c] # None
    <3>0. /\ r \in Responses /\ r = httpWriter[c] /\ respOwner[r] = c
          /\ respTimer' = [respTimer EXCEPT ![r] = FALSE]
          /\ respState'[r] \in {"ended", "aborted"}
          /\ \A q \in Responses \ {r} : respState'[q] = respState[q]
      <4>1. /\ r \in Responses /\ r = httpWriter[c] /\ respOwner[r] = c
            /\ respState[r] \in {"pending", "aborted"}
        BY <1>t, <1>a, <2>0, <2>1 DEF WriterInv, SessionTypeOK
      <4>2. EndResp(r, None, "close")
        BY <1>16, <2>1 DEF ExpirePolling
      <4>3. QED
        BY <1>t, <4>1, <4>2, EndRespResult
    <3>1. \A d \in Clients : Reachable(d)' => Reachable(d)
      BY <1>16, <1>t, <2>0, <3>0, SessionAssumption
         DEF ExpirePolling, ClearedTimer, Reachable, SessionTypeOK
    <3>2. TimerInv' /\ NoUseAfterEnd'
      BY <1>16, <1>t, <1>a, <3>0
         DEF ExpirePolling, TimerInv, NoUseAfterEnd, SessionTypeOK
    <3>3. WriterInv'
      BY <1>16, <1>t, <1>a, <2>0, <3>0, <3>1
         DEF ExpirePolling, WriterInv, SessionTypeOK
    <3>4. RegisteredSocketOpen' /\ WorkerPollFlushable' /\ WorkerTimerInv'
      BY <2>0 DEF RegisteredSocketOpen, WorkerPollFlushable, WorkerTimerInv
    <3>5. QED
      BY <1>t, <3>2, <3>3, <3>4 DEF SessionInv
  <2>2. CASE ~(httpWriter[c] # None /\ onAborted[c] # None)
    <3>0. UNCHANGED <<respState, respTimer, respOwner, onAborted>>
      BY <1>16, <2>2 DEF ExpirePolling
    <3>1. \A d \in Clients : Reachable(d)' => Reachable(d)
      BY <1>16, <1>t, <2>0, <3>0, SessionAssumption
         DEF ExpirePolling, ClearedTimer, Reachable, SessionTypeOK
    <3>2. TimerInv' /\ NoUseAfterEnd'
      BY <1>a, <3>0 DEF TimerInv, NoUseAfterEnd
    <3>3. WriterInv'
      BY <1>16, <1>t, <1>a, <2>0, <3>0, <3>1
         DEF ExpirePolling, WriterInv, SessionTypeOK
    <3>4. RegisteredSocketOpen' /\ WorkerPollFlushable' /\ WorkerTimerInv'
      BY <2>0 DEF RegisteredSocketOpen, WorkerPollFlushable, WorkerTimerInv
    <3>5. QED
      BY <1>t, <3>2, <3>3, <3>4 DEF SessionInv
  <2>3. QED
    BY <2>1, <2>2
<1>17. CASE ExpireWs
  <2>1. \A d \in Clients : Reachable(d)' => Reachable(d)
    BY <1>17, SessionAssumption DEF ExpireWs, Reachable
  <2>2. TimerInv' /\ NoUseAfterEnd' /\ WriterInv'
    BY <1>17, <1>a, <2>1 DEF ExpireWs, TimerInv, NoUseAfterEnd, WriterInv
  <2>3. RegisteredSocketOpen' /\ WorkerPollFlushable' /\ WorkerTimerInv'
    BY <1>17 DEF ExpireWs, RegisteredSocketOpen, WorkerPollFlushable,
                 WorkerTimerInv
  <2>4. QED
    BY <1>t, <2>2, <2>3 DEF SessionInv
<1>18. CASE UNCHANGED vars
  BY <1>18, <1>t, <1>a, <1>b
     DEF vars, SessionInv, TimerInv, WriterInv, Reachable, NoUseAfterEnd,
         RegisteredSocketOpen, WorkerPollFlushable, WorkerTimerInv
<1>19. QED
  BY <1>1, <1>2, <1>3, <1>4, <1>5, <1>6, <1>7, <1>8, <1>9, <1>10, <1>11,
     <1>12, <1>13, <1>14, <1>15, <1>16, <1>17, <1>18 DEF Next

(* Each conjunct of the invariant holds of every reachable state.          *)
THEOREM SessionInvariant == Spec => []SessionInv
<1>1. QED
  BY SessionInit, SessionNext, PTL DEF Spec

(* Every variable keeps its type, and no polling queue outgrows            *)
(* POLLING_QUEUE_SIZE.                                                     *)
THEOREM TypeCorrect == Spec => []SessionTypeOK
<1>1. SessionInv => SessionTypeOK
  BY DEF SessionInv
<1>2. QED
  BY <1>1, SessionInvariant, PTL

(* No interleaving of the 97 s timers, flush timers, aborts and expiry     *)
(* makes endResp write to a completed response.                            *)
THEOREM ResponsesEndOnce == Spec => []NoUseAfterEnd
<1>1. SessionInv => NoUseAfterEnd
  BY DEF SessionInv
<1>2. QED
  BY <1>1, SessionInvariant, PTL

(* Every waiting response has its 97 s timer, and no other response has.   *)
THEOREM PollsAreTimed == Spec => []PendingIsTimed
<1>1. SessionInv => PendingIsTimed
  BY DEF SessionInv, TimerInv, PendingIsTimed
<1>2. QED
  BY <1>1, SessionInvariant, PTL

(* A registered WebSocket Client writes to an open socket.                 *)
THEOREM RegisteredIsOpen == Spec => []RegisteredSocketOpen
<1>1. SessionInv => RegisteredSocketOpen
  BY DEF SessionInv
<1>2. QED
  BY <1>1, SessionInvariant, PTL

(* In a worker, a registered polling Client can flush what it queues.      *)
THEOREM WorkerCanFlush == Spec => []WorkerPollFlushable
<1>1. SessionInv => WorkerPollFlushable
  BY DEF SessionInv
<1>2. QED
  BY <1>1, SessionInvariant, PTL

-----------------------------------------------------------------------------
(* Delivery.                                                               *)

(* Message m waits in the queue of Client c.                               *)
InQueue(m, c) == \E i \in DOMAIN msgQueue[c] : msgQueue[c][i] = m

(* A message leaves the queue of a Client in use only by being written,    *)
(* unless the Client's response was aborted.                               *)
LEMMA StaysOrIsWritten ==
    ASSUME SessionInv, [Next]_vars, NEW c \in Clients, Reachable(c),
           NEW m \in Messages, Holds(c, m)
    PROVE  \/ Holds(c, m)'
           \/ Len(delivered'[m]) > Len(delivered[m])
           \/ onAborted[c] # None /\ respState[onAborted[c]] = "aborted"
<1> DEFINE Kept(d) ==
        \A i \in DOMAIN msgQueue[d] :
            LET n == msgQueue[d][i] IN
            \/ \E j \in DOMAIN msgQueue'[d] : msgQueue'[d][j] = n
            \/ Len(delivered'[n]) > Len(delivered[n])
            \/ onAborted[d] # None /\ respState[onAborted[d]] = "aborted"
<1>1. Kept(c)
  <2> USE DEF clientVars, respVars
  <2>t. SessionTypeOK /\ WriterInv
    BY DEF SessionInv
  <2>0. ASSUME msgQueue'[c] = msgQueue[c]
        PROVE  Kept(c)
    BY <2>0
  <2>1. ASSUME NEW how \in Replies, delivered' = Written(msgQueue[c], how)
        PROVE  Kept(c)
    <3>1. SUFFICES ASSUME NEW i \in DOMAIN msgQueue[c]
                   PROVE  Len(delivered'[msgQueue[c][i]])
                            > Len(delivered[msgQueue[c][i]])
      OBVIOUS
    <3>2. /\ msgQueue[c][i] \in Messages
          /\ delivered[msgQueue[c][i]] \in Seq(Replies)
      BY <2>t DEF SessionTypeOK
    <3>3. delivered'[msgQueue[c][i]] = Append(delivered[msgQueue[c][i]], how)
      BY <2>1, <3>2 DEF Written
    <3>4. QED
      BY <3>2, <3>3
  <2>2. ASSUME NEW d \in Clients, SendMessage(d)
        PROVE  Kept(c)
    <3>1. CASE msgQueue' = msgQueue
      BY <3>1, <2>0
    <3>2. CASE msgQueue' = [msgQueue EXCEPT ![d] = Append(@, sent + 1)]
      <4>1. CASE c # d
        BY <2>t, <2>0, <3>2, <4>1 DEF SessionTypeOK
      <4>2. CASE c = d
        <5>1. msgQueue[c] \in Seq(Messages) /\ sent + 1 \in Nat
          BY <2>t DEF SessionTypeOK
        <5>2. msgQueue'[c] = Append(msgQueue[c], sent + 1)
          BY <2>t, <3>2, <4>2 DEF SessionTypeOK
        <5>3. ASSUME NEW i \in DOMAIN msgQueue[c]
              PROVE  i \in DOMAIN msgQueue'[c] /\ msgQueue'[c][i] = msgQueue[c][i]
          BY <5>1, <5>2, <5>3
        <5>4. QED
          BY <5>3
      <4>3. QED
        BY <4>1, <4>2
    <3>3. QED
      BY <2>2, <3>1, <3>2 DEF SendMessage, SendDataPolling, SendDataWs
  <2>3. ASSUME NEW d \in Clients, FreshClient(d), NEW polling, NEW writer,
               NEW sock, NewClient(d, polling, writer, sock)
        PROVE  Kept(c)
    BY <2>t, <2>0, <2>3 DEF FreshClient, NewClient, SessionTypeOK
  <2>4. CASE GetPollReply
    <3>1. CASE c = registered
      BY <2>1, <2>4, <3>1 DEF GetPollReply, Replies
    <3>2. CASE c # registered
      BY <2>t, <2>0, <2>4, <3>2 DEF GetPollReply, SessionTypeOK
    <3>3. QED
      BY <3>1, <3>2
  <2>5. ASSUME NEW d \in Clients, Flush(d)
        PROVE  Kept(c)
    <3>1. CASE c # d
      BY <2>t, <2>0, <2>5, <3>1 DEF Flush, SessionTypeOK
    <3>2. CASE c = d
      <4>1. /\ onAborted[c] # None /\ onAborted[c] = httpWriter[c]
            /\ respOwner[onAborted[c]] = c
        BY <2>t, <2>5, <3>2 DEF Flush, WriterInv
      <4>2. EndResp(onAborted[c], registered, "flush")
        BY <2>5, <3>2, <4>1 DEF Flush
      <4>3. CASE respState[onAborted[c]] = "aborted"
        BY <4>1, <4>3
      <4>4. CASE respState[onAborted[c]] # "aborted"
        BY <2>1, <4>1, <4>2, <4>4 DEF EndResp, Replies
      <4>5. QED
        BY <4>3, <4>4
    <3>3. QED
      BY <3>1, <3>2
  <2>6. CASE \E s \in Sockets : SocketOpen(s)
    BY <2>0, <2>3, <2>6 DEF SocketOpen
  <2>7. CASE \E s \in Sockets : SocketMessage(s)
    BY <2>t, <2>0, <2>2, <2>3, <2>7 DEF SocketMessage, SessionTypeOK
  <2>8. CASE Deliver \/ \E d \in Clients : CapturedSend(d)
    BY <2>t, <2>2, <2>8 DEF Deliver, CapturedSend, SessionTypeOK
  <2>9. CASE \E r \in Responses, d \in Clients : GetPollNew(r, d)
    BY <2>3, <2>9 DEF GetPollNew
  <2>10. CASE \/ \E r \in Responses :
                   GetPollWait(r) \/ AbortPoll(r) \/ PollTimeout(r)
              \/ \E d \in Clients : FlushIdle(d) \/ Release(d)
              \/ SocketRefused \/ \E s \in Sockets : SocketClose(s)
              \/ PostStart \/ ExpirePolling \/ ExpireWs
              \/ UNCHANGED vars
    BY <2>0, <2>10
       DEF GetPollWait, AbortPoll, PollTimeout, FlushIdle, Release,
           SocketRefused, SocketClose, PostStart, ExpirePolling, ExpireWs, vars
  <2>11. QED
    BY <2>4, <2>5, <2>6, <2>7, <2>8, <2>9, <2>10 DEF Next
<1>2. QED
  BY <1>1 DEF Holds

(* What ends response r writes the queue of the Client that r belongs to.  *)
LEMMA EndWrites ==
    ASSUME SessionInv, NEW r \in Responses, respState[r] = "pending",
           NEW reg, NEW how \in Replies, EndResp(r, reg, how),
           NEW m \in Messages, Holds(respOwner[r], m)
    PROVE  Len(delivered'[m]) > Len(delivered[m])
<1>1. delivered' = Written(msgQueue[respOwner[r]], how)
  BY DEF EndResp
<1>2. delivered[m] \in Seq(Replies)
  BY DEF SessionInv, SessionTypeOK
<1>3. delivered'[m] = Append(delivered[m], how)
  BY <1>1 DEF Written, Holds
<1>4. QED
  BY <1>2, <1>3

(* A waiting response of a Client with a message queued goes on waiting,   *)
(* is aborted, or is written with that message.                            *)
LEMMA ResponseWaitsOn ==
    ASSUME SessionInv, [Next]_vars, NEW r \in Responses, respState[r] = "pending",
           NEW m \in Messages, Holds(respOwner[r], m)
    PROVE  \/ respState'[r] = "pending" /\ respOwner'[r] = respOwner[r]
           \/ respState'[r] = "aborted"
           \/ Len(delivered'[m]) > Len(delivered[m])
<1> DEFINE Goal == \/ respState'[r] = "pending" /\ respOwner'[r] = respOwner[r]
                   \/ respState'[r] = "aborted"
                   \/ Len(delivered'[m]) > Len(delivered[m])
<1> USE DEF clientVars, respVars
<1>t. SessionTypeOK /\ WriterInv
  BY DEF SessionInv
<1>1. ASSUME UNCHANGED <<respState, respOwner>> PROVE Goal
  BY <1>1
<1>2. ASSUME NEW q \in Responses, NEW d, FreshResponse(q), Wait(q, d) PROVE Goal
  BY <1>t, <1>2 DEF FreshResponse, Wait, SessionTypeOK
<1>3. ASSUME NEW q \in Responses, NEW reg, NEW how \in Replies, EndResp(q, reg, how),
             UNCHANGED respOwner
      PROVE  Goal
  <2>1. CASE q = r
    BY <1>3, <2>1, EndWrites
  <2>2. CASE q # r
    BY <1>t, <1>3, <2>2 DEF EndResp, SessionTypeOK
  <2>3. QED
    BY <2>1, <2>2
<1>4. ASSUME NEW q \in Responses, AbortPoll(q) PROVE Goal
  BY <1>t, <1>4 DEF AbortPoll, SessionTypeOK
<1>5. ASSUME NEW q \in Responses, PollTimeout(q) PROVE Goal
  BY <1>3, <1>5 DEF PollTimeout, Replies
<1>6. ASSUME NEW d \in Clients, Flush(d) PROVE Goal
  <2>1. CASE onAborted[d] = None
    BY <1>1, <1>6, <2>1 DEF Flush
  <2>2. CASE onAborted[d] # None
    <3>1. onAborted[d] \in Responses /\ EndResp(onAborted[d], registered, "flush")
          /\ UNCHANGED respOwner
      BY <1>t, <1>6, <2>2 DEF Flush, SessionTypeOK
    <3>2. QED
      BY <1>3, <3>1 DEF Replies
  <2>3. QED
    BY <2>1, <2>2
<1>7. ASSUME ExpirePolling PROVE Goal
  <2>1. CASE httpWriter[registered] # None /\ onAborted[registered] # None
    <3>1. /\ onAborted[registered] \in Responses
          /\ EndResp(onAborted[registered], None, "close") /\ UNCHANGED respOwner
      BY <1>t, <1>7, <2>1 DEF ExpirePolling, SessionTypeOK
    <3>2. QED
      BY <1>3, <3>1 DEF Replies
  <2>2. CASE ~(httpWriter[registered] # None /\ onAborted[registered] # None)
    BY <1>1, <1>7, <2>2 DEF ExpirePolling
  <2>3. QED
    BY <2>1, <2>2
<1>8. CASE \/ \E q \in Responses, d \in Clients : GetPollNew(q, d)
           \/ \E q \in Responses : GetPollWait(q)
  BY <1>2, <1>8 DEF GetPollNew, GetPollWait
<1>9. CASE \/ GetPollReply \/ SocketRefused \/ PostStart \/ ExpireWs
           \/ \E d \in Clients : FlushIdle(d) \/ Release(d)
           \/ \E s \in Sockets : SocketOpen(s) \/ SocketClose(s)
           \/ UNCHANGED vars
  BY <1>1, <1>9 DEF GetPollReply, SocketRefused, PostStart, ExpireWs, FlushIdle,
       Release, SocketOpen, SocketClose, vars
<1>10. CASE \/ Deliver \/ \E d \in Clients : CapturedSend(d)
            \/ \E s \in Sockets : SocketMessage(s)
  BY <1>1, <1>10 DEF Deliver, CapturedSend, SocketMessage, SendMessage
<1>11. QED
  BY <1>4, <1>5, <1>6, <1>7, <1>8, <1>9, <1>10 DEF Next

(* A message queued next to a waiting response stays so until it is        *)
(* written, unless the peer aborts: in every step of every behaviour, for  *)
(* any number of polls, sockets and Clients of one peer.                   *)
THEOREM MessagesAreKept == Spec => NothingDroppedSilently
<1> DEFINE Kept(c, m) == \/ Holds(c, m)' /\ HasResponse(c)'
                         \/ Len(delivered'[m]) > Len(delivered[m])
                         \/ AbortsResponse(c)
<1>1. ASSUME SessionInv, [Next]_vars, NEW c \in Clients, HasResponse(c),
             NEW m \in Messages, Holds(c, m)
      PROVE  Kept(c, m)
  <2>1. PICK r \in Responses : respState[r] = "pending" /\ respOwner[r] = c
    BY <1>1 DEF HasResponse
  <2>2. Reachable(c)
    BY <2>1 DEF Reachable
  <2>3. \/ Holds(c, m)'
        \/ Len(delivered'[m]) > Len(delivered[m])
        \/ AbortsResponse(c)
    BY <1>1, <2>2, StaysOrIsWritten DEF AbortsResponse
  <2>4. \/ respState'[r] = "pending" /\ respOwner'[r] = c
        \/ respState'[r] = "aborted"
        \/ Len(delivered'[m]) > Len(delivered[m])
    BY <1>1, <2>1, ResponseWaitsOn
  <2>5. QED
    BY <2>1, <2>3, <2>4 DEF HasResponse, AbortsResponse
<1>2. SessionInv /\ [Next]_vars =>
        [\A c \in Clients : HasResponse(c) =>
            \A m \in Messages : Holds(c, m) => Kept(c, m)]_vars
  BY <1>1
<1>3. QED
  BY <1>2, SessionInvariant, PTL DEF Spec, NothingDroppedSilently

(* A Client comes into use only by being created, with an empty queue; the *)
(* step that creates it moves no message.                                  *)
LEMMA ReachableNext ==
    ASSUME SessionInv, [Next]_vars, NEW d \in Clients,
           Reachable(d)', ~Reachable(d)
    PROVE  /\ msgQueue' = [msgQueue EXCEPT ![d] = <<>>]
           /\ UNCHANGED <<sent, delivered>>
<1> USE DEF clientVars, respVars
<1>t. SessionTypeOK /\ TimerInv /\ WriterInv /\ None \notin Clients
  BY SessionAssumption DEF SessionInv
<1>1. CASE \E r \in Responses, c \in Clients : GetPollNew(r, c)
  <2>1. PICK r \in Responses, c \in Clients : GetPollNew(r, c)
    BY <1>1
  <2>2. d = c
    BY <2>1, <1>t DEF GetPollNew, NewClient, Wait, Reachable, SessionTypeOK
  <2>3. QED
    BY <2>1, <2>2 DEF GetPollNew, NewClient
<1>2. CASE \E s \in Sockets : SocketOpen(s)
  BY <1>2, <1>t DEF SocketOpen, NewClient, ClearedTimer, Reachable, SessionTypeOK
<1>3. ASSUME NEW c \in Clients, SendMessage(c), Reachable(c)
      PROVE  FALSE
  BY <1>3, <1>t, SendMessageResult DEF Reachable, SessionTypeOK
<1>4. CASE \E s \in Sockets : SocketMessage(s)
  <2>1. CASE registered = None
    BY <1>4, <1>t, <2>1 DEF SocketMessage, NewClient, Reachable, SessionTypeOK
  <2>2. CASE registered # None
    BY <1>3, <1>4, <1>t, <2>2 DEF SocketMessage, Reachable, SessionTypeOK
  <2>3. QED
    BY <2>1, <2>2
<1>5. CASE Deliver \/ \E c \in Clients : CapturedSend(c)
  BY <1>3, <1>5, <1>t DEF Deliver, CapturedSend, Reachable, SessionTypeOK
<1>6. ASSUME NEW r \in Responses, NEW how, respState[r] \in {"pending", "aborted"},
             NEW reg \in {registered, None}, EndResp(r, reg, how),
             UNCHANGED <<respOwner, captured>>,
             flushTimer'[d] = "armed" => flushTimer[d] = "armed"
      PROVE  FALSE
  BY <1>6, <1>t, EndRespResult DEF Reachable
<1>7. CASE \E r \in Responses : PollTimeout(r)
  BY <1>6, <1>7, <1>t DEF PollTimeout, ClearedTimer, TimerInv, SessionTypeOK
<1>8. CASE \E c \in Clients : Flush(c)
  <2>1. PICK c \in Clients : Flush(c)
    BY <1>8
  <2>2. /\ onAborted[c] \in Responses
        /\ respState[onAborted[c]] \in {"pending", "aborted"}
        /\ EndResp(onAborted[c], registered, "flush")
    BY <2>1, <1>t DEF Flush, WriterInv, Reachable, SessionTypeOK
  <2>3. flushTimer'[d] = "armed" => flushTimer[d] = "armed"
    BY <2>1, <1>t DEF Flush, SessionTypeOK
  <2>4. QED
    BY <1>6, <2>1, <2>2, <2>3 DEF Flush
<1>9. CASE ExpirePolling
  <2>1. CASE httpWriter[registered] # None /\ onAborted[registered] # None
    <3>1. /\ onAborted[registered] \in Responses
          /\ respState[onAborted[registered]] \in {"pending", "aborted"}
      BY <1>9, <2>1, <1>t DEF ExpirePolling, WriterInv, Reachable, SessionTypeOK
    <3>2. EndResp(onAborted[registered], None, "close")
      BY <1>9, <2>1 DEF ExpirePolling
    <3>3. flushTimer'[d] = "armed" => flushTimer[d] = "armed"
      BY <1>9, <1>t DEF ExpirePolling, ClearedTimer, SessionTypeOK
    <3>4. QED
      BY <1>6, <1>9, <3>1, <3>2, <3>3 DEF ExpirePolling
  <2>2. CASE ~(httpWriter[registered] # None /\ onAborted[registered] # None)
    BY <1>9, <2>2, <1>t DEF ExpirePolling, ClearedTimer, Reachable, SessionTypeOK
  <2>3. QED
    BY <2>1, <2>2
<1>10. CASE GetPollReply \/ \E r \in Responses : GetPollWait(r) \/ AbortPoll(r)
  <2>1. CASE GetPollReply
    BY <2>1 DEF GetPollReply, Reachable
  <2>2. CASE \E r \in Responses : GetPollWait(r)
    BY <2>2, <1>t DEF GetPollWait, Wait, Reachable, SessionTypeOK
  <2>3. CASE \E r \in Responses : AbortPoll(r)
    <3>1. PICK r \in Responses : AbortPoll(r)
      BY <2>3
    <3>2. flushTimer'[d] = "armed" => flushTimer[d] = "armed"
      BY <3>1, <1>t DEF AbortPoll, ClearedTimer, SessionTypeOK
    <3>3. registered' \in {registered, None}
      BY <3>1 DEF AbortPoll, UnregisterIfPolling
    <3>4. QED
      BY <3>1, <3>2, <3>3, <1>t DEF AbortPoll, Reachable, SessionTypeOK
  <2>4. QED
    BY <1>10, <2>1, <2>2, <2>3
<1>11. CASE \/ \E c \in Clients : FlushIdle(c) \/ Release(c)
            \/ \E s \in Sockets : SocketClose(s)
            \/ SocketRefused \/ PostStart \/ ExpireWs \/ UNCHANGED vars
  BY <1>11, <1>t
     DEF FlushIdle, Release, SocketClose, SocketRefused, PostStart, ExpireWs,
         vars, Reachable, SessionTypeOK
<1>12. QED
  BY <1>1, <1>2, <1>4, <1>5, <1>7, <1>8, <1>9, <1>10, <1>11 DEF Next

(* A message queued for a Client in use has been written at most by timed- *)
(* out and closing polls, is queued for no other Client in use, and a      *)
(* message not sent yet has not been written.                              *)
DeliveryInv ==
    /\ \A c \in Clients, m \in Messages : Reachable(c) /\ InQueue(m, c) =>
          /\ m <= sent
          /\ \A i \in DOMAIN delivered[m] : delivered[m][i] \in {"timeout", "close"}
          /\ \A d \in Clients : Reachable(d) /\ InQueue(m, d) => d = c
    /\ \A m \in Messages : m > sent => delivered[m] = <<>>
    /\ RedeliveryOnlyAfterTimeout

(* The write of a queue whose messages then leave every queue in use, or   *)
(* of a timed-out or closing poll, preserves the invariant.                *)
LEMMA WriteInv ==
    ASSUME SessionTypeOK, DeliveryInv, NEW c \in Clients, Reachable(c),
           NEW how \in Replies, delivered' = Written(msgQueue[c], how),
           UNCHANGED sent,
           \A d \in Clients, m \in Messages : Reachable(d)' /\ InQueue(m, d)' =>
               /\ Reachable(d) /\ InQueue(m, d)
               /\ how \notin {"timeout", "close"} => d # c
    PROVE  DeliveryInv'
<1>1. ASSUME NEW m \in Messages, ~InQueue(m, c)
      PROVE  delivered'[m] = delivered[m]
  BY <1>1 DEF Written, InQueue
<1>2. ASSUME NEW m \in Messages, InQueue(m, c)
      PROVE  /\ delivered'[m] = Append(delivered[m], how)
             /\ delivered[m] \in Seq(Replies)
             /\ m <= sent
             /\ \A i \in DOMAIN delivered[m] : delivered[m][i] \in {"timeout", "close"}
  BY <1>2 DEF Written, InQueue, SessionTypeOK, DeliveryInv
<1>3. ASSUME NEW d \in Clients, NEW m \in Messages, Reachable(d)', InQueue(m, d)'
      PROVE  /\ m <= sent'
             /\ \A i \in DOMAIN delivered'[m] : delivered'[m][i] \in {"timeout", "close"}
             /\ \A e \in Clients : Reachable(e)' /\ InQueue(m, e)' => e = d
  <2>1. Reachable(d) /\ InQueue(m, d)
    BY <1>3
  <2>2. CASE InQueue(m, c)
    <3>1. d = c /\ how \in {"timeout", "close"}
      BY <1>3, <2>1, <2>2 DEF DeliveryInv
    <3>2. QED
      BY <1>2, <1>3, <2>1, <2>2, <3>1 DEF DeliveryInv
  <2>3. CASE ~InQueue(m, c)
    BY <1>1, <1>3, <2>1, <2>3 DEF DeliveryInv
  <2>4. QED
    BY <2>2, <2>3
<1>4. ASSUME NEW m \in Messages, m > sent'
      PROVE  delivered'[m] = <<>>
  <2>1. sent \in Nat /\ m \in Nat /\ sent' = sent
    BY DEF SessionTypeOK, Messages
  <2>2. ~InQueue(m, c)
    BY <1>2, <1>4, <2>1
  <2>3. QED
    BY <1>1, <1>4, <2>1, <2>2 DEF DeliveryInv
<1>5. RedeliveryOnlyAfterTimeout'
  <2>1. SUFFICES ASSUME NEW m \in Messages, NEW i \in DOMAIN delivered'[m],
                        i < Len(delivered'[m])
                 PROVE  delivered'[m][i] \in {"timeout", "close"}
    BY DEF RedeliveryOnlyAfterTimeout, Messages
  <2>2. CASE InQueue(m, c)
    BY <1>2, <2>1, <2>2
  <2>3. CASE ~InQueue(m, c)
    BY <1>1, <2>1, <2>3 DEF DeliveryInv, RedeliveryOnlyAfterTimeout
  <2>4. QED
    BY <2>2, <2>3
<1>6. QED
  BY <1>3, <1>4, <1>5 DEF DeliveryInv

(* A step that writes nothing and queues nothing preserves it.             *)
LEMMA NoWriteInv ==
    ASSUME DeliveryInv, UNCHANGED <<sent, delivered>>,
           \A d \in Clients, m \in Messages :
               Reachable(d)' /\ InQueue(m, d)' => Reachable(d) /\ InQueue(m, d)
    PROVE  DeliveryInv'
<1>1. Messages' = Messages
  BY DEF Messages
<1>2. QED
  BY <1>1 DEF DeliveryInv, RedeliveryOnlyAfterTimeout

(* A message queued for a Client in use is new, so it preserves it too.    *)
LEMMA QueueInv ==
    ASSUME SessionTypeOK, DeliveryInv, NEW c \in Clients, SendMessage(c),
           \A d \in Clients : Reachable(d)' => Reachable(d)
    PROVE  DeliveryInv'
<1>1. CASE UNCHANGED <<msgQueue, sent>>
  BY <1>1, NoWriteInv DEF SendMessage, InQueue
<1>2. CASE /\ sent < MaxMessages /\ sent' = sent + 1
           /\ msgQueue' = [msgQueue EXCEPT ![c] = Append(@, sent + 1)]
  <2>1. /\ sent \in Nat /\ sent' \in Messages /\ sent' > sent
        /\ msgQueue[c] \in Seq(Messages)
        /\ delivered' = delivered
    BY <1>2, SessionAssumption DEF SessionTypeOK, Messages, SendMessage
  <2>2. ASSUME NEW d \in Clients, NEW m \in Messages, InQueue(m, d)'
        PROVE  InQueue(m, d) \/ (d = c /\ m = sent')
    <3>1. CASE d = c
      <4>1. msgQueue'[c] = Append(msgQueue[c], sent')
        BY <1>2, <2>1 DEF SessionTypeOK
      <4>2. QED
        BY <2>1, <2>2, <3>1, <4>1 DEF InQueue
    <3>2. CASE d # c
      BY <1>2, <2>2, <3>2 DEF InQueue, SessionTypeOK
    <3>3. QED
      BY <3>1, <3>2
  <2>3. ASSUME NEW d \in Clients, NEW m \in Messages, m = sent',
               Reachable(d)', InQueue(m, d)'
        PROVE  d = c
    <3>1. ~InQueue(m, d)
      <4>1. Reachable(d) /\ ~(m <= sent)
        BY <2>1, <2>3, SessionAssumption DEF Messages
      <4>2. QED
        BY <4>1 DEF DeliveryInv
    <3>2. QED
      BY <2>2, <2>3, <3>1
  <2>4. ASSUME NEW d \in Clients, NEW m \in Messages, Reachable(d)', InQueue(m, d)'
        PROVE  /\ m <= sent'
               /\ \A i \in DOMAIN delivered'[m] : delivered'[m][i] \in {"timeout", "close"}
               /\ \A e \in Clients : Reachable(e)' /\ InQueue(m, e)' => e = d
    <3>1. CASE m = sent'
      <4>1. delivered[m] = <<>>
        BY <2>1, <3>1 DEF DeliveryInv
      <4>2. QED
        BY <2>1, <2>3, <2>4, <3>1, <4>1, SessionAssumption DEF Messages
    <3>2. CASE m # sent'
      <4>1. /\ InQueue(m, d) /\ Reachable(d)
            /\ \A e \in Clients : Reachable(e)' /\ InQueue(m, e)' =>
                  Reachable(e) /\ InQueue(m, e)
        BY <2>2, <2>4, <3>2
      <4>2. m <= sent => m <= sent'
        BY <1>2, <2>1 DEF Messages
      <4>3. QED
        BY <2>1, <4>1, <4>2 DEF DeliveryInv
    <3>3. QED
      BY <3>1, <3>2
  <2>5. \A m \in Messages : m > sent' => delivered'[m] = <<>>
    BY <1>2, <2>1 DEF DeliveryInv, Messages
  <2>6. RedeliveryOnlyAfterTimeout'
    BY <2>1 DEF DeliveryInv, RedeliveryOnlyAfterTimeout, Messages
  <2>7. QED
    BY <2>4, <2>5, <2>6 DEF DeliveryInv, Messages
<1>3. QED
  BY <1>1, <1>2 DEF SendMessage, SendDataPolling, SendDataWs

LEMMA DeliveryInit == Init => DeliveryInv
BY DEF Init, DeliveryInv, RedeliveryOnlyAfterTimeout, InQueue

(* Every callback preserves it.                                            *)
LEMMA DeliveryNext ==
    ASSUME SessionInv, DeliveryInv, [Next]_vars
    PROVE  DeliveryInv'
<1> USE DEF clientVars, respVars
<1>t. SessionTypeOK /\ TimerInv /\ WriterInv
  BY DEF SessionInv
<1>0. ASSUME NEW d \in Clients, Reachable(d)', ~Reachable(d)
      PROVE  /\ msgQueue' = [msgQueue EXCEPT ![d] = <<>>]
             /\ UNCHANGED <<sent, delivered>>
  BY <1>0, ReachableNext
<1>1. CASE \E d \in Clients : Reachable(d)' /\ ~Reachable(d)
  <2>1. PICK d \in Clients : Reachable(d)' /\ ~Reachable(d)
    BY <1>1
  <2>2. /\ msgQueue' = [msgQueue EXCEPT ![d] = <<>>]
        /\ UNCHANGED <<sent, delivered>>
    BY <1>0, <2>1
  <2>3. ASSUME NEW e \in Clients, NEW m \in Messages, Reachable(e)', InQueue(m, e)'
        PROVE  Reachable(e) /\ InQueue(m, e)
    <3>1. e # d
      BY <1>t, <2>2, <2>3 DEF InQueue, SessionTypeOK
    <3>2. msgQueue'[e] = msgQueue[e]
      BY <1>t, <2>2, <3>1 DEF SessionTypeOK
    <3>3. Reachable(e)
      <4>1. CASE ~Reachable(e)
        <5>1. msgQueue' = [msgQueue EXCEPT ![e] = <<>>]
          BY <1>0, <2>3, <4>1
        <5>2. QED
          BY <1>t, <2>3, <5>1 DEF InQueue, SessionTypeOK
      <4>2. QED
        BY <4>1
    <3>4. QED
      BY <2>3, <3>2, <3>3 DEF InQueue
  <2>4. QED
    BY <2>2, <2>3, NoWriteInv
<1>2. CASE \A d \in Clients : Reachable(d)' => Reachable(d)
  <2>1. ASSUME UNCHANGED <<msgQueue, sent, delivered>>
        PROVE  DeliveryInv'
    BY <1>2, <2>1, NoWriteInv DEF InQueue
  <2>2. ASSUME NEW c \in Clients, FreshClient(c), NEW polling, NEW writer,
               NEW sock, NewClient(c, polling, writer, sock),
               UNCHANGED <<sent, delivered>>
        PROVE  DeliveryInv'
    <3>1. ASSUME NEW d \in Clients, NEW m \in Messages, InQueue(m, d)'
          PROVE  InQueue(m, d)
      BY <1>t, <2>2, <3>1 DEF NewClient, InQueue, SessionTypeOK
    <3>2. QED
      BY <1>2, <2>2, <3>1, NoWriteInv
  <2>3. ASSUME NEW c \in Clients, SendMessage(c)
        PROVE  DeliveryInv'
    BY <1>t, <1>2, <2>3, QueueInv
  <2>4. ASSUME NEW r \in Responses, respOwner[r] \in Clients,
               Reachable(respOwner[r]), NEW reg,
               NEW how \in {"timeout", "close"}, EndResp(r, reg, how),
               UNCHANGED <<msgQueue, sent>>
        PROVE  DeliveryInv'
    <3>1. CASE delivered' = delivered
      BY <2>1, <2>4, <3>1
    <3>2. CASE delivered' = Written(msgQueue[respOwner[r]], how)
      BY <1>t, <1>2, <2>4, <3>2, WriteInv DEF InQueue, Replies
    <3>3. QED
      BY <2>4, <3>1, <3>2 DEF EndResp
  <2>5. CASE \E r \in Responses, c \in Clients : GetPollNew(r, c)
    BY <2>2, <2>5 DEF GetPollNew
  <2>6. CASE \E s \in Sockets : SocketOpen(s)
    BY <2>1, <2>2, <2>6 DEF SocketOpen
  <2>7. CASE \E s \in Sockets : SocketMessage(s)
    BY <1>t, <2>1, <2>2, <2>3, <2>7 DEF SocketMessage, SessionTypeOK
  <2>8. CASE Deliver \/ \E c \in Clients : CapturedSend(c)
    BY <1>t, <2>3, <2>8 DEF Deliver, CapturedSend, SessionTypeOK
  <2>9. CASE \E r \in Responses : PollTimeout(r)
    <3>1. PICK r \in Responses : PollTimeout(r)
      BY <2>9
    <3>2. respOwner[r] \in Clients /\ Reachable(respOwner[r])
      BY <1>t, <3>1 DEF PollTimeout, TimerInv, Reachable
    <3>3. QED
      BY <2>4, <3>1, <3>2 DEF PollTimeout
  <2>10. CASE ExpirePolling
    <3>1. CASE httpWriter[registered] # None /\ onAborted[registered] # None
      <4>1. /\ onAborted[registered] \in Responses
            /\ respOwner[onAborted[registered]] = registered
            /\ registered \in Clients /\ Reachable(registered)
        BY <1>t, <2>10, <3>1 DEF ExpirePolling, WriterInv, Reachable, SessionTypeOK
      <4>2. EndResp(onAborted[registered], None, "close")
        BY <2>10, <3>1 DEF ExpirePolling
      <4>3. UNCHANGED <<msgQueue, sent>>
        BY <2>10 DEF ExpirePolling
      <4>4. QED
        BY <2>4, <4>1, <4>2, <4>3
    <3>2. CASE ~(httpWriter[registered] # None /\ onAborted[registered] # None)
      BY <2>1, <2>10, <3>2 DEF ExpirePolling
    <3>3. QED
      BY <3>1, <3>2
  <2>11. CASE GetPollReply
    <3>1. registered \in Clients /\ Reachable(registered)
      BY <1>t, <2>11 DEF GetPollReply, Reachable, SessionTypeOK
    <3>2. ASSUME NEW d \in Clients, NEW m \in Messages, InQueue(m, d)'
          PROVE  InQueue(m, d) /\ d # registered
      BY <1>t, <2>11, <3>2 DEF GetPollReply, InQueue, SessionTypeOK
    <3>3. /\ delivered' = Written(msgQueue[registered], "get")
          /\ UNCHANGED sent
      BY <2>11 DEF GetPollReply
    <3>4. QED
      BY <1>t, <1>2, <3>1, <3>2, <3>3, WriteInv DEF Replies
  <2>12. CASE \E c \in Clients : Flush(c)
    <3>1. PICK c \in Clients : Flush(c)
      BY <2>12
    <3>2. /\ Reachable(c) /\ onAborted[c] # None /\ respOwner[onAborted[c]] = c
          /\ UNCHANGED sent
      BY <1>t, <3>1 DEF Flush, WriterInv, Reachable
    <3>3. ASSUME NEW d \in Clients, NEW m \in Messages, InQueue(m, d)'
          PROVE  InQueue(m, d) /\ d # c
      BY <1>t, <3>1, <3>3 DEF Flush, InQueue, SessionTypeOK
    <3>4. \/ delivered' = delivered
          \/ delivered' = Written(msgQueue[c], "flush")
      BY <3>1, <3>2 DEF Flush, EndResp
    <3>5. CASE delivered' = delivered
      BY <1>2, <3>2, <3>3, <3>5, NoWriteInv
    <3>6. CASE delivered' = Written(msgQueue[c], "flush")
      BY <1>t, <1>2, <3>2, <3>3, <3>6, WriteInv DEF Replies
    <3>7. QED
      BY <3>4, <3>5, <3>6
  <2>13. CASE \/ \E r \in Responses : GetPollWait(r) \/ AbortPoll(r)
              \/ \E c \in Clients : FlushIdle(c) \/ Release(c)
              \/ SocketRefused \/ \E s \in Sockets : SocketClose(s)
              \/ PostStart \/ ExpireWs \/ UNCHANGED vars
    BY <2>1, <2>13
       DEF GetPollWait, AbortPoll, FlushIdle, Release, SocketRefused,
           SocketClose, PostStart, ExpireWs, vars
  <2>14. QED
    BY <2>5, <2>6, <2>7, <2>8, <2>9, <2>10, <2>11, <2>12, <2>13 DEF Next
<1>3. QED
  BY <1>1, <1>2

(* In every behaviour, only the replies of timed-out and closing polls are *)
(* ever repeated: a message written by a flush or in answer to a GET was   *)
(* written for the last time.                                              *)
THEOREM RepeatsOnlyAfterTimeout == Spec => []RedeliveryOnlyAfterTimeout
<1>1. DeliveryInv => RedeliveryOnlyAfterTimeout
  BY DEF DeliveryInv
<1>2. QED
  BY <1>1, DeliveryInit, DeliveryNext, SessionInvariant, PTL DEF Spec

-----------------------------------------------------------------------------
(* One transport at a time.                                                *)

(* While a response waits it is the only one, no socket is open, its Client *)
(* would write to it, and no other Client is registered.                   *)
OneTransport ==
    \A r \in Responses : respState[r] = "pending" =>
        /\ \A q \in Responses : respState[q] = "pending" => q = r
        /\ \A s \in Sockets : socket[s] = "closed"
        /\ httpWriter[respOwner[r]] = r
        /\ onAborted[respOwner[r]] = r
        /\ isPolling[respOwner[r]]
        /\ registered \in {respOwner[r], None}

LEMMA TransportInit == Init => OneTransport
BY DEF Init, OneTransport

(* A step that starts no poll, opens no socket and leaves the Clients of   *)
(* the waiting responses alone preserves it.                               *)
LEMMA NoNewTransport ==
    ASSUME OneTransport,
           registered' \in {registered, None},
           \A r \in Responses : respState'[r] = "pending" =>
              /\ respState[r] = "pending"
              /\ respOwner'[r] = respOwner[r]
              /\ httpWriter'[respOwner[r]] = httpWriter[respOwner[r]]
              /\ onAborted'[respOwner[r]] = onAborted[respOwner[r]]
              /\ isPolling'[respOwner[r]] = isPolling[respOwner[r]],
           \A s \in Sockets : socket[s] = "closed" => socket'[s] = "closed"
    PROVE  OneTransport'
BY DEF OneTransport

(* So does one after which no response waits.                              *)
LEMMA NothingPending ==
    ASSUME \A r \in Responses : respState'[r] # "pending"
    PROVE  OneTransport'
BY DEF OneTransport

(* A flush ends the response of its own Client and leaves the others.      *)
LEMMA FlushResult ==
    ASSUME SessionInv, NEW c \in Clients, Flush(c)
    PROVE  LET r == onAborted[c] IN
           /\ r \in Responses /\ r = httpWriter[c] /\ respOwner[r] = c
           /\ respState[r] \in {"pending", "aborted"}
           /\ EndResp(r, registered, "flush")
           /\ respState'[r] \in {"ended", "aborted"}
           /\ \A q \in Responses \ {r} : respState'[q] = respState[q]
           /\ registered' \in {registered, None}
<1>t. SessionTypeOK /\ WriterInv
  BY DEF SessionInv
<1>1. /\ onAborted[c] \in Responses /\ onAborted[c] = httpWriter[c]
      /\ respOwner[onAborted[c]] = c
      /\ respState[onAborted[c]] \in {"pending", "aborted"}
  BY <1>t DEF Flush, WriterInv, Reachable, SessionTypeOK
<1>2. EndResp(onAborted[c], registered, "flush")
  BY <1>1, SessionAssumption DEF Flush
<1>3. QED
  BY <1>t, <1>1, <1>2, EndRespResult

(* What expiry does to the response of a polling Client.                   *)
LEMMA ExpireResult ==
    ASSUME SessionInv, ExpirePolling
    PROVE  /\ registered \in Clients /\ registered' = None
           /\ \A r \in Responses :
                 /\ respState[r] # "pending" => respState'[r] # "pending"
                 /\ httpWriter[registered] = r => respState'[r] # "pending"
           /\ \/ delivered' = delivered
              \/ /\ delivered' = Written(msgQueue[registered], "close")
                 /\ httpWriter[registered] # None
<1>t. SessionTypeOK /\ WriterInv
  BY DEF SessionInv
<1>0. registered \in Clients /\ Reachable(registered)
  BY <1>t DEF ExpirePolling, Reachable, SessionTypeOK
<1>1. CASE httpWriter[registered] # None /\ onAborted[registered] # None
  <2>1. /\ onAborted[registered] \in Responses
        /\ onAborted[registered] = httpWriter[registered]
        /\ respOwner[onAborted[registered]] = registered
        /\ respState[onAborted[registered]] \in {"pending", "aborted"}
    BY <1>t, <1>0, <1>1 DEF WriterInv, SessionTypeOK
  <2>2. EndResp(onAborted[registered], None, "close")
    BY <1>1 DEF ExpirePolling
  <2>3. /\ respState'[onAborted[registered]] \in {"ended", "aborted"}
        /\ \A q \in Responses \ {onAborted[registered]} :
              respState'[q] = respState[q]
        /\ registered' = None
    BY <1>t, <2>1, <2>2, EndRespResult
  <2>4. \/ delivered' = delivered
        \/ delivered' = Written(msgQueue[registered], "close")
    BY <2>1, <2>2 DEF EndResp
  <2>5. QED
    BY <1>0, <1>1, <2>1, <2>3, <2>4
<1>2. CASE ~(httpWriter[registered] # None /\ onAborted[registered] # None)
  <2>1. registered' = None /\ UNCHANGED <<respState, delivered>>
    BY <1>2 DEF ExpirePolling
  <2>2. httpWriter[registered] = None
    BY <1>t, <1>0, <1>2 DEF WriterInv, SessionTypeOK
  <2>3. QED
    BY <1>0, <2>1, <2>2, SessionAssumption
<1>3. QED
  BY <1>1, <1>2

(* Every callback preserves it, if the peer keeps to one transport.        *)
LEMMA TransportNext ==
    ASSUME ~Overlap, SessionInv, OneTransport, [Next]_vars
    PROVE  OneTransport'
<1> USE DEF clientVars, respVars
<1>t. /\ SessionTypeOK /\ TimerInv /\ WriterInv
      /\ None \notin Clients /\ None \notin Responses
  BY SessionAssumption DEF SessionInv
<1>m. MayConnect => \A r \in Responses : respState[r] # "pending"
  BY DEF MayConnect
<1>s. ASSUME NEW s \in Sockets, socket[s] = "open"
      PROVE  \A r \in Responses : respState[r] # "pending"
  BY <1>s DEF OneTransport
<1>1. ASSUME NEW r \in Responses, NEW c \in Clients, GetPollNew(r, c)
      PROVE  OneTransport'
  <2>1. \A q \in Responses : respState'[q] = "pending" => q = r
    BY <1>1, <1>t, <1>m DEF GetPollNew, Wait, SessionTypeOK
  <2>2. /\ respOwner'[r] = c /\ registered' = c /\ isPolling'[c]
        /\ httpWriter'[c] = r /\ onAborted'[c] = r
    BY <1>1, <1>t DEF GetPollNew, NewClient, Wait, SessionTypeOK
  <2>3. \A s \in Sockets : socket'[s] = "closed"
    BY <1>1 DEF GetPollNew, MayConnect
  <2>4. QED
    BY <2>1, <2>2, <2>3 DEF OneTransport
<1>2. ASSUME NEW r \in Responses, GetPollWait(r)
      PROVE  OneTransport'
  <2>1. \A q \in Responses : respState'[q] = "pending" => q = r
    BY <1>2, <1>t, <1>m DEF GetPollWait, Wait, SessionTypeOK
  <2>2. /\ respOwner'[r] = registered' /\ isPolling'[registered']
        /\ httpWriter'[registered'] = r /\ onAborted'[registered'] = r
    BY <1>2, <1>t DEF GetPollWait, Wait, SessionTypeOK
  <2>3. \A s \in Sockets : socket'[s] = "closed"
    BY <1>2 DEF GetPollWait, MayConnect
  <2>4. QED
    BY <2>1, <2>2, <2>3 DEF OneTransport
<1>3. ASSUME NEW r \in Responses, AbortPoll(r)
      PROVE  OneTransport'
  <2>1. \A q \in Responses : respState'[q] # "pending"
    BY <1>3, <1>t DEF AbortPoll, OneTransport, SessionTypeOK
  <2>2. QED
    BY <2>1, NothingPending
<1>4. ASSUME NEW r \in Responses, PollTimeout(r)
      PROVE  OneTransport'
  <2>1. /\ respState[r] = "pending" /\ respState'[r] \in {"ended", "aborted"}
        /\ \A q \in Responses \ {r} : respState'[q] = respState[q]
    BY <1>4, <1>t, EndRespResult DEF PollTimeout, TimerInv
  <2>2. \A q \in Responses : respState'[q] # "pending"
    BY <2>1 DEF OneTransport
  <2>3. QED
    BY <2>2, NothingPending
<1>5. CASE GetPollReply
  BY <1>5, <1>m, NothingPending DEF GetPollReply
<1>6. ASSUME NEW c \in Clients, Flush(c)
      PROVE  OneTransport'
  <2>1. /\ onAborted[c] = httpWriter[c]
        /\ respState'[onAborted[c]] # "pending"
        /\ \A q \in Responses \ {onAborted[c]} : respState'[q] = respState[q]
        /\ registered' \in {registered, None}
    BY <1>6, FlushResult
  <2>2. ASSUME NEW q \in Responses, respState'[q] = "pending"
        PROVE  respState[q] = "pending" /\ respOwner[q] # c
    BY <2>1, <2>2 DEF OneTransport
  <2>3. ASSUME NEW q \in Responses, respState'[q] = "pending"
        PROVE  /\ httpWriter'[respOwner[q]] = httpWriter[respOwner[q]]
               /\ onAborted'[respOwner[q]] = onAborted[respOwner[q]]
    BY <1>6, <1>t, <2>2, <2>3 DEF Flush, TimerInv, SessionTypeOK
  <2>4. QED
    BY <1>6, <2>1, <2>2, <2>3, NoNewTransport DEF Flush
<1>7. ASSUME NEW c \in Clients, FlushIdle(c)
      PROVE  OneTransport'
  BY <1>7, NoNewTransport DEF FlushIdle
<1>8. ASSUME NEW s \in Sockets, SocketOpen(s)
      PROVE  OneTransport'
  BY <1>8, <1>m, NothingPending DEF SocketOpen
<1>9. CASE SocketRefused
  BY <1>9, <1>m, NothingPending DEF SocketRefused
<1>10. ASSUME NEW c \in Clients, SendMessage(c)
       PROVE  OneTransport'
  BY <1>10, <1>t, SendMessageResult, NoNewTransport
<1>11. ASSUME NEW s \in Sockets, SocketMessage(s)
       PROVE  OneTransport'
  <2>1. CASE UNCHANGED respVars
    BY <1>11, <1>s, <2>1, NothingPending DEF SocketMessage
  <2>2. CASE registered # None /\ SendMessage(registered)
    BY <1>10, <1>t, <2>2 DEF SessionTypeOK
  <2>3. QED
    BY <1>11, <2>1, <2>2 DEF SocketMessage
<1>12. ASSUME NEW s \in Sockets, SocketClose(s)
       PROVE  OneTransport'
  BY <1>12, <1>s, NothingPending DEF SocketClose
<1>13. CASE Deliver
  BY <1>10, <1>13, <1>t DEF Deliver, SessionTypeOK
<1>14. ASSUME NEW c \in Clients, CapturedSend(c)
       PROVE  OneTransport'
  BY <1>10, <1>14 DEF CapturedSend
<1>15. CASE PostStart \/ \E c \in Clients : Release(c)
  BY <1>15, NoNewTransport DEF PostStart, Release
<1>16. CASE ExpirePolling
  <2>1. \A r \in Responses : respState'[r] # "pending"
    BY <1>16, <1>t, ExpireResult DEF OneTransport
  <2>2. QED
    BY <2>1, NothingPending
<1>17. CASE ExpireWs
  <2>1. \A r \in Responses : respState[r] # "pending"
    BY <1>17 DEF ExpireWs, OneTransport
  <2>2. QED
    BY <1>17, <2>1, NothingPending DEF ExpireWs
<1>18. CASE UNCHANGED vars
  BY <1>18, NoNewTransport DEF vars
<1>19. QED
  BY <1>1, <1>2, <1>3, <1>4, <1>5, <1>6, <1>7, <1>8, <1>9, <1>11, <1>12,
     <1>13, <1>14, <1>15, <1>16, <1>17, <1>18 DEF Next

-----------------------------------------------------------------------------
(* A worker writes a message at most once.                                 *)

(* Client c will never write its queue again: it has no response and the   *)
(* hub has let go of it.                                                   *)
Spent(c) == httpWriter[c] = None /\ registered # c

(* A message waits in the queue of one Client at most, as long as that     *)
(* Client can still write it has not been written, and a message not sent  *)
(* yet is in no queue and has not been written.                            *)
QueuedOnce ==
    /\ \A m \in Messages : m > sent =>
          delivered[m] = <<>> /\ \A c \in Clients : ~InQueue(m, c)
    /\ \A m \in Messages, c \in Clients : InQueue(m, c) =>
          /\ \A d \in Clients : InQueue(m, d) => d = c
          /\ ~Spent(c) => delivered[m] = <<>>

OnceInv == QueuedOnce /\ AtMostOnce

LEMMA OnceInit == Init => OnceInv
BY DEF Init, OnceInv, QueuedOnce, AtMostOnce, InQueue

(* A step that writes and queues nothing, and after which every Client     *)
(* that can still write either could before or has an empty queue,         *)
(* preserves the invariant.                                                *)
LEMMA OnceNoWrite ==
    ASSUME OnceInv, UNCHANGED <<sent, delivered>>,
           \A d \in Clients, m \in Messages : InQueue(m, d)' =>
              InQueue(m, d) /\ (Spent(d) => Spent(d)')
    PROVE  OnceInv'
<1>1. Messages' = Messages
  BY DEF Messages
<1>2. AtMostOnce'
  BY <1>1 DEF OnceInv, AtMostOnce
<1>3. QueuedOnce'
  BY <1>1 DEF OnceInv, QueuedOnce
<1>4. QED
  BY <1>2, <1>3 DEF OnceInv

(* So does one that writes the queue of a Client which could still write   *)
(* and which afterwards cannot, or has none of these messages any more.    *)
LEMMA OnceWrite ==
    ASSUME SessionTypeOK, OnceInv, NEW c \in Clients, ~Spent(c),
           NEW how \in Replies, delivered' = Written(msgQueue[c], how),
           UNCHANGED sent,
           \A d \in Clients, m \in Messages : InQueue(m, d)' =>
              InQueue(m, d) /\ (Spent(d) => Spent(d)'),
           \A m \in Messages : InQueue(m, c)' => Spent(c)'
    PROVE  OnceInv'
<1>m. Messages' = Messages
  BY DEF Messages
<1>1. ASSUME NEW m \in Messages, ~InQueue(m, c)
      PROVE  delivered'[m] = delivered[m]
  BY <1>1 DEF Written, InQueue
<1>2. ASSUME NEW m \in Messages, InQueue(m, c)
      PROVE  delivered[m] = <<>> /\ delivered'[m] = Append(<<>>, how)
  <2>1. delivered[m] = <<>>
    BY <1>2 DEF OnceInv, QueuedOnce
  <2>2. delivered'[m] = Append(delivered[m], how)
    BY <1>2 DEF Written, InQueue
  <2>3. QED
    BY <2>1, <2>2
<1>3. AtMostOnce'
  <2>1. SUFFICES ASSUME NEW m \in Messages
                 PROVE  Len(delivered'[m]) <= 1
    BY <1>m DEF AtMostOnce
  <2>2. CASE InQueue(m, c)
    <3>1. delivered'[m] = Append(<<>>, how)
      BY <1>2, <2>2
    <3>2. Len(delivered'[m]) = 1
      BY <3>1
    <3>3. QED
      BY <3>2
  <2>3. CASE ~InQueue(m, c)
    BY <1>1, <2>3 DEF OnceInv, AtMostOnce
  <2>4. QED
    BY <2>2, <2>3
<1>4. ASSUME NEW m \in Messages, m > sent'
      PROVE  delivered'[m] = <<>> /\ \A d \in Clients : ~InQueue(m, d)'
  <2>1. \A d \in Clients : ~InQueue(m, d)
    BY <1>4 DEF OnceInv, QueuedOnce
  <2>2. QED
    BY <1>1, <1>4, <2>1 DEF OnceInv, QueuedOnce
<1>5. ASSUME NEW m \in Messages, NEW d \in Clients, InQueue(m, d)'
      PROVE  /\ \A e \in Clients : InQueue(m, e)' => e = d
             /\ ~Spent(d)' => delivered'[m] = <<>>
  <2>1. \A e \in Clients : InQueue(m, e)' => e = d
    BY <1>5 DEF OnceInv, QueuedOnce
  <2>2. ASSUME ~Spent(d)'
        PROVE  delivered'[m] = <<>>
    <3>1. InQueue(m, d) /\ ~Spent(d) /\ d # c
      BY <1>5, <2>2
    <3>2. ~InQueue(m, c) /\ delivered[m] = <<>>
      BY <3>1 DEF OnceInv, QueuedOnce
    <3>3. QED
      BY <1>1, <3>2
  <2>3. QED
    BY <2>1, <2>2
<1>6. QueuedOnce'
  BY <1>m, <1>4, <1>5 DEF QueuedOnce
<1>7. QED
  BY <1>3, <1>6 DEF OnceInv

(* So does a message sent to a Client: it is queued for that one only, and *)
(* it is new.                                                              *)
LEMMA OnceSend ==
    ASSUME SessionTypeOK, OnceInv, NEW c \in Clients, SendMessage(c)
    PROVE  OnceInv'
<1>0. \A d \in Clients : Spent(d) => Spent(d)'
  BY SendMessageResult, SessionAssumption DEF Spent
<1>1. CASE UNCHANGED <<msgQueue, sent>>
  BY <1>0, <1>1, OnceNoWrite DEF SendMessage, InQueue
<1>2. CASE /\ sent < MaxMessages /\ sent' = sent + 1
           /\ msgQueue' = [msgQueue EXCEPT ![c] = Append(@, sent + 1)]
  <2>m. Messages' = Messages
    BY DEF Messages
  <2>1. /\ sent \in Nat /\ sent' \in Messages /\ sent' = sent + 1
        /\ msgQueue[c] \in Seq(Messages) /\ delivered' = delivered
    BY <1>2, SessionAssumption DEF SessionTypeOK, Messages, SendMessage
  <2>2. ASSUME NEW d \in Clients, NEW m \in Messages, InQueue(m, d)'
        PROVE  InQueue(m, d) \/ (d = c /\ m = sent')
    <3>1. CASE d = c
      <4>1. msgQueue'[c] = Append(msgQueue[c], sent')
        BY <1>2, <2>1 DEF SessionTypeOK
      <4>2. QED
        BY <2>1, <2>2, <3>1, <4>1 DEF InQueue
    <3>2. CASE d # c
      BY <1>2, <2>2, <3>2 DEF InQueue, SessionTypeOK
    <3>3. QED
      BY <3>1, <3>2
  <2>3. delivered[sent'] = <<>> /\ \A d \in Clients : ~InQueue(sent', d)
    BY <2>1 DEF OnceInv, QueuedOnce
  <2>4. ASSUME NEW m \in Messages, m > sent'
        PROVE  delivered'[m] = <<>> /\ \A d \in Clients : ~InQueue(m, d)'
    <3>1. m > sent /\ m # sent'
      BY <2>1, <2>4 DEF Messages
    <3>2. delivered[m] = <<>> /\ \A d \in Clients : ~InQueue(m, d)
      BY <3>1 DEF OnceInv, QueuedOnce
    <3>3. QED
      BY <2>1, <2>2, <3>1, <3>2
  <2>5. ASSUME NEW m \in Messages, NEW d \in Clients, InQueue(m, d)'
        PROVE  /\ \A e \in Clients : InQueue(m, e)' => e = d
               /\ ~Spent(d)' => delivered'[m] = <<>>
    <3>1. CASE m = sent'
      BY <2>1, <2>2, <2>3, <2>5, <3>1
    <3>2. CASE m # sent'
      <4>1. InQueue(m, d) /\ \A e \in Clients : InQueue(m, e)' => InQueue(m, e)
        BY <2>2, <2>5, <3>2
      <4>2. QED
        BY <1>0, <2>1, <4>1 DEF OnceInv, QueuedOnce
    <3>3. QED
      BY <3>1, <3>2
  <2>6. QueuedOnce'
    BY <2>m, <2>4, <2>5 DEF QueuedOnce
  <2>7. AtMostOnce'
    BY <2>m, <2>1 DEF OnceInv, AtMostOnce
  <2>8. QED
    BY <2>6, <2>7 DEF OnceInv
<1>3. QED
  BY <1>1, <1>2 DEF SendMessage, SendDataPolling, SendDataWs

(* Every callback of a worker whose peer keeps to one transport preserves  *)
(* it.                                                                     *)
LEMMA OnceNext ==
    ASSUME ~IsPrimary, SessionInv, OneTransport, OnceInv, [Next]_vars
    PROVE  OnceInv'
<1> USE DEF clientVars, respVars
<1>t. SessionTypeOK /\ TimerInv /\ WriterInv /\ None \notin Clients
  BY SessionAssumption DEF SessionInv
<1>0. ASSUME UNCHANGED <<msgQueue, sent, delivered>>,
             \A d \in Clients : Spent(d) => Spent(d)'
      PROVE  OnceInv'
  BY <1>0, OnceNoWrite DEF InQueue
<1>1. ASSUME NEW c \in Clients, NEW polling, NEW writer, NEW sock,
             NewClient(c, polling, writer, sock), registered = None,
             UNCHANGED <<sent, delivered>>
      PROVE  OnceInv'
  <2>1. ASSUME NEW d \in Clients, NEW m \in Messages, InQueue(m, d)'
        PROVE  InQueue(m, d) /\ d # c
    BY <1>1, <1>t, <2>1 DEF NewClient, InQueue, SessionTypeOK
  <2>2. ASSUME NEW d \in Clients, d # c, Spent(d)
        PROVE  Spent(d)'
    BY <1>1, <1>t, <2>2 DEF NewClient, Spent, SessionTypeOK
  <2>3. QED
    BY <1>1, <2>1, <2>2, OnceNoWrite
<1>2. ASSUME NEW c \in Clients, SendMessage(c)
      PROVE  OnceInv'
  BY <1>2, <1>t, OnceSend
<1>3. CASE \E r \in Responses, c \in Clients : GetPollNew(r, c)
  BY <1>1, <1>3 DEF GetPollNew
<1>4. CASE \E r \in Responses : GetPollWait(r)
  BY <1>0, <1>4, <1>t DEF GetPollWait, Spent, SessionTypeOK
<1>5. CASE \E r \in Responses : AbortPoll(r)
  BY <1>0, <1>5, <1>t DEF AbortPoll, UnregisterIfPolling, Spent
<1>6. ASSUME NEW r \in Responses, PollTimeout(r)
      PROVE  OnceInv'
  <2> DEFINE c == respOwner[r]
  <2>1. /\ respState[r] = "pending" /\ c \in Clients /\ httpWriter[c] = r
        /\ isPolling[c] /\ registered \in {c, None}
    BY <1>6, <1>t DEF PollTimeout, TimerInv, OneTransport
  <2>2. registered' = None
    BY <1>6, <1>t, <2>1, EndRespResult DEF PollTimeout
  <2>3. delivered' = Written(msgQueue[c], "timeout")
    BY <1>6, <2>1 DEF PollTimeout, EndResp
  <2>4. ~Spent(c) /\ \A d \in Clients : d = c \/ Spent(d) => Spent(d)'
    BY <1>6, <1>t, <2>1, <2>2, SessionAssumption DEF PollTimeout, Spent, SessionTypeOK
  <2>5. UNCHANGED <<msgQueue, sent>>
    BY <1>6 DEF PollTimeout
  <2>6. \A d \in Clients, m \in Messages : InQueue(m, d)' => InQueue(m, d)
    BY <2>5 DEF InQueue
  <2>7. QED
    BY <1>t, <2>1, <2>3, <2>4, <2>5, <2>6, OnceWrite DEF Replies
<1>7. CASE GetPollReply
  <2>1. ~Spent(registered) /\ registered \in Clients
    BY <1>7, <1>t DEF GetPollReply, Spent, SessionTypeOK
  <2>2. ASSUME NEW d \in Clients, NEW m \in Messages, InQueue(m, d)'
        PROVE  InQueue(m, d) /\ d # registered
    BY <1>7, <1>t, <2>2 DEF GetPollReply, InQueue, SessionTypeOK
  <2>3. \A d \in Clients : Spent(d) => Spent(d)'
    BY <1>7 DEF GetPollReply, Spent
  <2>4. QED
    BY <1>7, <1>t, <2>1, <2>2, <2>3, OnceWrite DEF GetPollReply, Replies
<1>8. ASSUME NEW c \in Clients, Flush(c)
      PROVE  OnceInv'
  <2>1. /\ respOwner[onAborted[c]] = c /\ registered' \in {registered, None}
        /\ EndResp(onAborted[c], registered, "flush")
    BY <1>8, FlushResult
  <2>2. ~Spent(c) /\ UNCHANGED sent
    BY <1>8 DEF Flush, Spent
  <2>3. ASSUME NEW d \in Clients, NEW m \in Messages, InQueue(m, d)'
        PROVE  InQueue(m, d) /\ d # c
    BY <1>8, <1>t, <2>3 DEF Flush, InQueue, SessionTypeOK
  <2>4. \A d \in Clients : Spent(d) => Spent(d)'
    BY <1>8, <1>t, <2>1 DEF Flush, Spent, SessionTypeOK
  <2>5. \/ delivered' = delivered
        \/ delivered' = Written(msgQueue[c], "flush")
    BY <2>1 DEF EndResp
  <2>6. CASE delivered' = delivered
    BY <2>2, <2>3, <2>4, <2>6, OnceNoWrite
  <2>7. CASE delivered' = Written(msgQueue[c], "flush")
    BY <1>t, <2>2, <2>3, <2>4, <2>7, OnceWrite DEF Replies
  <2>8. QED
    BY <2>5, <2>6, <2>7
<1>9. CASE \E s \in Sockets : SocketOpen(s)
  <2>1. CASE registered # None
    BY <1>0, <1>9, <1>t, <2>1 DEF SocketOpen, Spent, SessionTypeOK
  <2>2. CASE registered = None
    BY <1>1, <1>9, <2>2 DEF SocketOpen
  <2>3. QED
    BY <2>1, <2>2
<1>10. CASE \E s \in Sockets : SocketMessage(s)
  <2>1. CASE registered = None
    BY <1>1, <1>10, <2>1 DEF SocketMessage
  <2>2. CASE registered # None
    BY <1>0, <1>2, <1>10, <1>t, <2>2 DEF SocketMessage, Spent, SessionTypeOK
  <2>3. QED
    BY <2>1, <2>2
<1>11. CASE Deliver \/ \E c \in Clients : CapturedSend(c)
  BY <1>2, <1>11, <1>t DEF Deliver, CapturedSend, SessionTypeOK
<1>12. CASE ExpirePolling
  <2>1. registered \in Clients /\ registered' = None
    BY <1>12, ExpireResult
  <2>2. /\ \A d \in Clients : d = registered \/ Spent(d) => Spent(d)'
        /\ ~Spent(registered)
    BY <1>12, <1>t, <2>1 DEF ExpirePolling, Spent, SessionTypeOK
  <2>3. UNCHANGED <<msgQueue, sent>>
    BY <1>12 DEF ExpirePolling
  <2>4. \A d \in Clients, m \in Messages : InQueue(m, d)' => InQueue(m, d)
    BY <2>3 DEF InQueue
  <2>5. CASE delivered' = delivered
    BY <1>0, <2>2, <2>3, <2>5
  <2>6. CASE delivered' = Written(msgQueue[registered], "close")
    BY <1>t, <2>1, <2>2, <2>3, <2>4, <2>6, OnceWrite DEF Replies
  <2>7. QED
    BY <1>12, <2>5, <2>6, ExpireResult
<1>13. CASE \/ \E c \in Clients : FlushIdle(c) \/ Release(c)
            \/ \E s \in Sockets : SocketClose(s)
            \/ SocketRefused \/ PostStart \/ ExpireWs \/ UNCHANGED vars
  BY <1>0, <1>13, <1>t
     DEF FlushIdle, Release, SocketClose, SocketRefused, PostStart, ExpireWs,
         vars, Spent
<1>14. QED
  BY <1>3, <1>4, <1>5, <1>6, <1>7, <1>8, <1>9, <1>10, <1>11, <1>12, <1>13
     DEF Next

(* In a worker whose peer keeps to one transport at a time, no message is  *)
(* written twice: a timed-out or closing poll takes its Client with it.    *)
THEOREM WrittenAtMostOnce ==
    ASSUME ~IsPrimary, ~Overlap
    PROVE  Spec => []AtMostOnce
<1>1. Init => OneTransport /\ OnceInv
  BY TransportInit, OnceInit
<1>2. SessionInv /\ OneTransport /\ OnceInv /\ [Next]_vars =>
        (OneTransport /\ OnceInv)'
  BY TransportNext, OnceNext
<1>3. OnceInv => AtMostOnce
  BY DEF OnceInv
<1>4. QED
  BY <1>1, <1>2, <1>3, SessionInvariant, PTL DEF Spec

-----------------------------------------------------------------------------
(* A connected peer stays registered.                                      *)

(* A step after which nothing waits and no socket is open.                 *)
LEMMA NothingConnected ==
    ASSUME \A r \in Responses : respState'[r] # "pending",
           \A s \in Sockets : socket'[s] # "open"
    PROVE  TransportRegistered'
BY DEF TransportRegistered

(* A message sent to the registered Client: the only send that fails is    *)
(* the one to a full polling queue.                                        *)
LEMMA SendKeepsRegistered ==
    ASSUME SessionInv, TransportRegistered, registered # None,
           SendMessage(registered)
    PROVE  TransportRegistered'
<1>t. SessionTypeOK /\ RegisteredSocketOpen /\ registered \in Clients
  BY DEF SessionInv, SessionTypeOK
<1>1. /\ UNCHANGED <<isPolling, httpWriter, ws, respState, respOwner, socket>>
      /\ \A d \in Clients : d # registered => msgQueue'[d] = msgQueue[d]
  BY <1>t, SendMessageResult DEF respVars
<1>2. CASE ~isPolling[registered]
  <2>1. UNCHANGED <<registered, msgQueue>>
    BY <1>t, <1>2 DEF SendMessage, SendDataWs, RegisteredSocketOpen
  <2>2. QED
    BY <1>1, <2>1 DEF TransportRegistered
<1>3. CASE isPolling[registered] /\ Len(msgQueue[registered]) >= QueueSize
  <2>1. registered' = None /\ UNCHANGED msgQueue
    BY <1>3 DEF SendMessage, SendDataPolling
  <2>2. Len(msgQueue[registered]) = QueueSize
    BY <1>t, <1>3, SessionAssumption DEF SessionTypeOK
  <2>3. QED
    BY <1>1, <1>3, <2>1, <2>2 DEF TransportRegistered
<1>4. CASE isPolling[registered] /\ ~(Len(msgQueue[registered]) >= QueueSize)
  <2>1. UNCHANGED registered
    BY <1>4 DEF SendMessage, SendDataPolling
  <2>2. Len(msgQueue[registered]) # QueueSize
    BY <1>t, <1>4, SessionAssumption DEF SessionTypeOK
  <2>3. ASSUME NEW r \in Responses, respState'[r] = "pending"
        PROVE  \/ registered' = respOwner'[r] /\ httpWriter'[registered'] = r
               \/ Len(msgQueue'[respOwner'[r]]) = QueueSize
    <3>1. CASE registered = respOwner[r] /\ httpWriter[registered] = r
      BY <1>1, <2>1, <3>1
    <3>2. CASE Len(msgQueue[respOwner[r]]) = QueueSize
      <4>1. respOwner[r] \in Clients \ {registered}
        BY <1>1, <2>2, <2>3, <3>2 DEF SessionInv, TimerInv
      <4>2. QED
        BY <1>1, <3>2, <4>1
    <3>3. QED
      BY <1>1, <2>3, <3>1, <3>2 DEF TransportRegistered
  <2>4. QED
    BY <1>1, <1>4, <2>1, <2>3 DEF TransportRegistered
<1>5. QED
  BY <1>2, <1>3, <1>4

(* Every callback but those of an old Client keeps the peer registered.    *)
LEMMA RegisteredNext ==
    ASSUME ~Overlap, SessionInv, OneTransport, TransportRegistered, Next,
           ~ \E c \in Clients \ {registered} : CapturedSend(c) \/ Flush(c)
    PROVE  TransportRegistered'
<1> USE DEF clientVars, respVars
<1>t. /\ SessionTypeOK /\ TimerInv /\ WriterInv
      /\ None \notin Clients /\ None \notin Responses
  BY SessionAssumption DEF SessionInv
<1>m. MayConnect => /\ \A r \in Responses : respState[r] # "pending"
                    /\ \A s \in Sockets : socket[s] # "open"
  BY DEF MayConnect
<1>p. ASSUME NEW r \in Responses, respState[r] = "pending"
      PROVE  /\ \A q \in Responses : respState[q] = "pending" => q = r
             /\ \A s \in Sockets : socket[s] # "open"
  BY <1>p DEF OneTransport
<1>s. ASSUME NEW s \in Sockets, socket[s] = "open"
      PROVE  /\ \A r \in Responses : respState[r] # "pending"
             /\ registered # None /\ ~isPolling[registered]
             /\ \A z \in Sockets : socket[z] = "open" => z = s
  BY <1>s, <1>p DEF TransportRegistered
<1>0. ASSUME UNCHANGED <<registered, isPolling, httpWriter, ws, msgQueue,
                         respState, respOwner, socket>>
      PROVE  TransportRegistered'
  BY <1>0 DEF TransportRegistered
<1>1. ASSUME NEW r \in Responses, NEW c \in Clients, GetPollNew(r, c)
      PROVE  TransportRegistered'
  <2>1. \A q \in Responses : respState'[q] = "pending" => q = r
    BY <1>1, <1>t, <1>m DEF GetPollNew, Wait, SessionTypeOK
  <2>2. respOwner'[r] = c /\ registered' = c /\ httpWriter'[c] = r
    BY <1>1, <1>t DEF GetPollNew, NewClient, Wait, SessionTypeOK
  <2>3. \A s \in Sockets : socket'[s] # "open"
    BY <1>1, <1>m DEF GetPollNew
  <2>4. QED
    BY <2>1, <2>2, <2>3 DEF TransportRegistered
<1>2. ASSUME NEW r \in Responses, GetPollWait(r)
      PROVE  TransportRegistered'
  <2>1. \A q \in Responses : respState'[q] = "pending" => q = r
    BY <1>2, <1>t, <1>m DEF GetPollWait, Wait, SessionTypeOK
  <2>2. respOwner'[r] = registered' /\ httpWriter'[registered'] = r
    BY <1>2, <1>t DEF GetPollWait, Wait, SessionTypeOK
  <2>3. \A s \in Sockets : socket'[s] # "open"
    BY <1>2, <1>m DEF GetPollWait
  <2>4. QED
    BY <2>1, <2>2, <2>3 DEF TransportRegistered
<1>3. ASSUME NEW r \in Responses, AbortPoll(r)
      PROVE  TransportRegistered'
  <2>1. \A q \in Responses : respState'[q] # "pending"
    BY <1>3, <1>t, <1>p DEF AbortPoll, SessionTypeOK
  <2>2. \A s \in Sockets : socket'[s] # "open"
    BY <1>3, <1>p DEF AbortPoll
  <2>3. QED
    BY <2>1, <2>2, NothingConnected
<1>4. ASSUME NEW r \in Responses, PollTimeout(r)
      PROVE  TransportRegistered'
  <2>1. /\ respState[r] = "pending" /\ respState'[r] \in {"ended", "aborted"}
        /\ \A q \in Responses \ {r} : respState'[q] = respState[q]
    BY <1>4, <1>t, EndRespResult DEF PollTimeout, TimerInv
  <2>2. \A q \in Responses : respState'[q] # "pending"
    BY <1>p, <2>1
  <2>3. \A s \in Sockets : socket'[s] # "open"
    BY <1>4, <1>p, <2>1 DEF PollTimeout
  <2>4. QED
    BY <2>2, <2>3, NothingConnected
<1>5. CASE GetPollReply
  BY <1>5, <1>m, NothingConnected DEF GetPollReply
<1>6. ASSUME NEW c \in Clients, Flush(c)
      PROVE  TransportRegistered'
  <2> DEFINE r == onAborted[c]
  <2>0. c = registered
    BY <1>6
  <2>1. /\ r \in Responses /\ r = httpWriter[c]
        /\ respState[r] \in {"pending", "aborted"}
        /\ EndResp(r, registered, "flush")
        /\ respState'[r] # "pending"
        /\ \A q \in Responses \ {r} : respState'[q] = respState[q]
    BY <1>6, FlushResult
  <2>2. \A q \in Responses : respState'[q] # "pending"
    <3>1. SUFFICES ASSUME NEW q \in Responses, respState'[q] = "pending"
                   PROVE  FALSE
      OBVIOUS
    <3>2. respState[q] = "pending" /\ q # r
      BY <2>1, <3>1
    <3>3. respOwner[q] = registered /\ httpWriter[respOwner[q]] = q
      BY <1>t, <1>6, <2>0, <3>2 DEF OneTransport
    <3>4. QED
      BY <2>0, <2>1, <3>2, <3>3
  <2>3. CASE respState[r] = "pending"
    <3>1. \A s \in Sockets : socket'[s] # "open"
      BY <1>6, <1>p, <2>1, <2>3 DEF Flush
    <3>2. QED
      BY <2>2, <3>1, NothingConnected
  <2>4. CASE respState[r] = "aborted"
    <3>1. registered' = UnregisterIfPolling(registered)
      BY <2>1, <2>4 DEF EndResp
    <3>2. ~isPolling[registered] => registered' = registered
      BY <3>1 DEF UnregisterIfPolling
    <3>3. UNCHANGED <<isPolling, ws, socket>>
      BY <1>6 DEF Flush
    <3>4. QED
      BY <2>2, <3>2, <3>3 DEF TransportRegistered
  <2>5. QED
    BY <2>1, <2>3, <2>4
<1>7. ASSUME NEW c \in Clients, FlushIdle(c)
      PROVE  TransportRegistered'
  BY <1>0, <1>7 DEF FlushIdle
<1>8. ASSUME NEW s \in Sockets, SocketOpen(s)
      PROVE  TransportRegistered'
  <2>1. /\ \A z \in Sockets : socket'[z] = "open" => z = s
        /\ \A r \in Responses : respState'[r] # "pending"
    BY <1>8, <1>t, <1>m DEF SocketOpen, SessionTypeOK
  <2>2. registered' # None /\ ~isPolling'[registered'] /\ ws'[registered'] = s
    BY <1>8, <1>t DEF SocketOpen, NewClient, SessionTypeOK
  <2>3. QED
    BY <2>1, <2>2 DEF TransportRegistered
<1>9. CASE SocketRefused
  BY <1>9, <1>m, NothingConnected DEF SocketRefused
<1>10. ASSUME NEW s \in Sockets, SocketMessage(s)
       PROVE  TransportRegistered'
  <2>1. registered # None
    BY <1>10, <1>s DEF SocketMessage
  <2>2. CASE SendMessage(registered)
    BY <2>1, <2>2, SendKeepsRegistered
  <2>3. CASE UNCHANGED <<registered, clientVars, respVars, socket>>
    BY <1>0, <2>3
  <2>4. QED
    BY <1>10, <2>1, <2>2, <2>3 DEF SocketMessage
<1>11. ASSUME NEW s \in Sockets, SocketClose(s)
       PROVE  TransportRegistered'
  <2>1. \A z \in Sockets : socket'[z] # "open"
    BY <1>11, <1>t, <1>s DEF SocketClose, SessionTypeOK
  <2>2. \A r \in Responses : respState'[r] # "pending"
    BY <1>11, <1>s DEF SocketClose
  <2>3. QED
    BY <2>1, <2>2, NothingConnected
<1>12. CASE Deliver
  BY <1>12, SendKeepsRegistered DEF Deliver
<1>13. ASSUME NEW c \in Clients, CapturedSend(c)
       PROVE  TransportRegistered'
  <2>1. c = registered
    BY <1>13
  <2>2. QED
    BY <1>13, <1>t, <2>1, SendKeepsRegistered DEF CapturedSend
<1>14. CASE PostStart \/ \E c \in Clients : Release(c)
  BY <1>0, <1>14 DEF PostStart, Release
<1>15. CASE ExpirePolling
  <2>1. \A r \in Responses : respState'[r] # "pending"
    BY <1>15, <1>t, ExpireResult DEF OneTransport
  <2>2. \A s \in Sockets : socket'[s] # "open"
    BY <1>15 DEF ExpirePolling, TransportRegistered
  <2>3. QED
    BY <2>1, <2>2, NothingConnected
<1>16. CASE ExpireWs
  <2>1. \A r \in Responses : respState'[r] # "pending"
    BY <1>16 DEF ExpireWs, OneTransport
  <2>2. \A s \in Sockets : socket'[s] # "open"
    BY <1>16 DEF ExpireWs, TransportRegistered
  <2>3. QED
    BY <2>1, <2>2, NothingConnected
<1>17. QED
  BY <1>1, <1>2, <1>3, <1>4, <1>5, <1>6, <1>7, <1>8, <1>9, <1>10, <1>11,
     <1>12, <1>13, <1>14, <1>15, <1>16 DEF Next

(* A peer that keeps to one transport at a time is registered as long as   *)
(* that transport lives, in workers and in a single process: only an old   *)
(* Client that a handler still holds, or a full polling queue, can take it *)
(* off the hub.                                                            *)
THEOREM StaysRegistered ==
    ASSUME ~Overlap
    PROVE  Spec => ConnectedStaysRegistered
<1>1. SessionInv /\ OneTransport /\ [Next]_vars => OneTransport'
  BY TransportNext
<1>2. SessionInv /\ OneTransport /\ [Next]_vars =>
        [ \/ TransportRegistered => TransportRegistered'
          \/ \E c \in Clients \ {registered} : CapturedSend(c) \/ Flush(c) ]_vars
  BY RegisteredNext
<1>3. QED
  BY <1>1, <1>2, TransportInit, SessionInvariant, PTL
     DEF Spec, ConnectedStaysRegistered

-----------------------------------------------------------------------------
(* A worker is a mailbox.                                                  *)

(* What waits is the queue of the Client whose response waits.             *)
LEMMA WaitingIs ==
    ASSUME OneTransport, NEW r \in Responses, respState[r] = "pending"
    PROVE  Waiting = msgQueue[respOwner[r]]
BY DEF OneTransport, Waiting

LEMMA NothingWaits ==
    ASSUME \A r \in Responses : respState[r] # "pending"
    PROVE  Waiting = <<>>
BY DEF Waiting

(* The same two facts after a step.                                        *)
LEMMA WaitingNext ==
    ASSUME OneTransport'
    PROVE  /\ \A r \in Responses : respState'[r] = "pending" =>
                 Waiting' = msgQueue'[respOwner'[r]]
           /\ (\A r \in Responses : respState'[r] # "pending") => Waiting' = <<>>
BY DEF OneTransport, Waiting

(* A step that neither starts nor ends a poll and leaves the queue of the  *)
(* Client whose response waits.                                            *)
LEMMA WaitingKept ==
    ASSUME OneTransport, OneTransport',
           \A r \in Responses :
              /\ (respState[r] = "pending") <=> (respState'[r] = "pending")
              /\ respState[r] = "pending" =>
                    /\ respOwner'[r] = respOwner[r]
                    /\ msgQueue'[respOwner[r]] = msgQueue[respOwner[r]]
    PROVE  Waiting' = Waiting
<1>1. CASE \E r \in Responses : respState[r] = "pending"
  <2>1. PICK r \in Responses : respState[r] = "pending"
    BY <1>1
  <2>2. Waiting = msgQueue[respOwner[r]] /\ Waiting' = msgQueue'[respOwner'[r]]
    BY <2>1, WaitingIs, WaitingNext
  <2>3. QED
    BY <2>1, <2>2
<1>2. CASE \A r \in Responses : respState[r] # "pending"
  BY <1>2, NothingWaits, WaitingNext
<1>3. QED
  BY <1>1, <1>2

(* What a reply adds to the messages written.                              *)
LEMMA WrittenSet ==
    ASSUME SessionTypeOK, NEW q \in Seq(Messages), NEW how, delivered' = Written(q, how)
    PROVE  {m \in Messages : delivered'[m] # <<>>} =
              {m \in Messages : delivered[m] # <<>>} \cup Mail!Elements(q)
<1>1. \A m \in Mail!Elements(q) : m \in Messages
  BY DEF Mail!Elements
<1>2. ASSUME NEW m \in Mail!Elements(q)
      PROVE  delivered'[m] # <<>>
  <2>1. delivered'[m] = Append(delivered[m], how)
    BY <1>1, <1>2 DEF Written, Mail!Elements
  <2>2. delivered[m] \in Seq(Replies)
    BY <1>1, <1>2 DEF SessionTypeOK
  <2>3. QED
    BY <2>1, <2>2
<1>3. ASSUME NEW m \in Messages, m \notin Mail!Elements(q)
      PROVE  delivered'[m] = delivered[m]
  BY <1>3 DEF Written, Mail!Elements
<1>4. ASSUME NEW m \in Messages
      PROVE  (delivered'[m] # <<>>) <=>
                (delivered[m] # <<>> \/ m \in Mail!Elements(q))
  BY <1>2, <1>3
<1>5. QED
  BY <1>1, <1>4

(* A reply to the response that waits takes the whole queue.               *)
LEMMA MailReply ==
    ASSUME SessionTypeOK, TimerInv, OneTransport, OneTransport',
           NEW r \in Responses, respState[r] = "pending",
           \A q \in Responses : respState'[q] # "pending",
           NEW how, delivered' = Written(msgQueue[respOwner[r]], how),
           UNCHANGED sent
    PROVE  Mail!Reply
<1>1. Waiting = msgQueue[respOwner[r]] /\ Waiting' = <<>>
  BY WaitingIs, WaitingNext
<1>2. Waiting \in Seq(Messages)
  BY <1>1 DEF SessionTypeOK, TimerInv
<1>3. Messages' = Messages
  BY DEF Messages
<1>4. QED
  BY <1>1, <1>2, <1>3, WrittenSet DEF Mail!Reply

(* A message sent to the Client whose response waits is accepted, any      *)
(* other is refused or not counted.                                        *)
LEMMA MailSend ==
    ASSUME SessionInv, OneTransport, OneTransport',
           NEW c \in Clients, SendMessage(c)
    PROVE  [Mail!Next]_Mail!vars
<1>t. SessionTypeOK /\ TimerInv
  BY DEF SessionInv
<1>0. /\ UNCHANGED <<respState, respOwner, delivered>>
      /\ \A d \in Clients : d # c => msgQueue'[d] = msgQueue[d]
  BY <1>t, SendMessageResult DEF respVars
<1>m. Messages' = Messages
  BY DEF Messages
<1>1. CASE UNCHANGED <<msgQueue, sent>>
  <2>1. Waiting' = Waiting
    BY <1>0, <1>1, WaitingKept
  <2>2. QED
    BY <1>0, <1>1, <1>m, <2>1 DEF Mail!vars
<1>2. CASE /\ sent' = sent + 1
           /\ msgQueue' = [msgQueue EXCEPT ![c] = Append(@, sent + 1)]
  <2>1. CASE \E r \in Responses : respState[r] = "pending" /\ respOwner[r] = c
    <3>1. PICK r \in Responses : respState[r] = "pending" /\ respOwner[r] = c
      BY <2>1
    <3>2. Waiting = msgQueue[c] /\ Waiting' = msgQueue'[c]
      BY <1>0, <3>1, WaitingIs, WaitingNext
    <3>3. msgQueue'[c] = Append(msgQueue[c], sent + 1)
      BY <1>t, <1>2 DEF SessionTypeOK
    <3>4. Mail!Accept
      BY <1>0, <1>2, <1>m, <3>2, <3>3 DEF Mail!Accept
    <3>5. QED
      BY <3>4 DEF Mail!Next
  <2>2. CASE ~ \E r \in Responses : respState[r] = "pending" /\ respOwner[r] = c
    <3>1. Waiting' = Waiting
      BY <1>0, <1>t, <2>2, WaitingKept DEF TimerInv
    <3>2. Mail!Refuse
      BY <1>0, <1>2, <1>m, <3>1 DEF Mail!Refuse
    <3>3. QED
      BY <3>2 DEF Mail!Next
  <2>3. QED
    BY <2>1, <2>2
<1>3. QED
  BY <1>1, <1>2 DEF SendMessage, SendDataPolling, SendDataWs

(* Every callback is a step of the mailbox or leaves it as it is.          *)
LEMMA MailNext ==
    ASSUME ~IsPrimary, ~Overlap, SessionInv, OneTransport, OneTransport',
           [Next]_vars
    PROVE  [Mail!Next]_Mail!vars
<1> USE DEF clientVars, respVars
<1>t. /\ SessionTypeOK /\ TimerInv /\ WriterInv /\ WorkerPollFlushable
      /\ None \notin Clients /\ None \notin Responses
  BY SessionAssumption DEF SessionInv
<1>m. Messages' = Messages
  BY DEF Messages
<1>0. ASSUME UNCHANGED <<sent, delivered>>, Waiting' = Waiting
      PROVE  [Mail!Next]_Mail!vars
  BY <1>0, <1>m DEF Mail!vars
<1>k. ASSUME UNCHANGED <<respState, respOwner, msgQueue, sent, delivered>>
      PROVE  [Mail!Next]_Mail!vars
  BY <1>0, <1>k, WaitingKept
<1>n. ASSUME \A r \in Responses : respState[r] # "pending",
             \A r \in Responses : respState'[r] # "pending",
             UNCHANGED <<sent, delivered>>
      PROVE  [Mail!Next]_Mail!vars
  BY <1>0, <1>n, NothingWaits, WaitingNext
<1>c. MayConnect => \A r \in Responses : respState[r] # "pending"
  BY DEF MayConnect
<1>w. ASSUME registered # None, isPolling[registered]
      PROVE  \E r \in Responses :
                /\ respState[r] = "pending" /\ respOwner[r] = registered
                /\ httpWriter[registered] = r /\ onAborted[registered] = r
  BY <1>t, <1>w DEF WorkerPollFlushable, SessionTypeOK
<1>1. ASSUME NEW r \in Responses, NEW c \in Clients, GetPollNew(r, c)
      PROVE  [Mail!Next]_Mail!vars
  <2>1. respState'[r] = "pending" /\ respOwner'[r] = c /\ msgQueue'[c] = <<>>
    BY <1>1, <1>t DEF GetPollNew, NewClient, Wait, SessionTypeOK
  <2>2. Waiting = <<>> /\ Waiting' = <<>>
    BY <1>1, <1>c, <2>1, NothingWaits, WaitingNext DEF GetPollNew
  <2>3. QED
    BY <1>0, <1>1, <2>2 DEF GetPollNew
<1>2. CASE GetPollReply \/ \E r \in Responses : GetPollWait(r)
  BY <1>2, <1>c, <1>w DEF GetPollReply, GetPollWait
<1>3. ASSUME NEW r \in Responses, AbortPoll(r)
      PROVE  [Mail!Next]_Mail!vars
  <2>1. \A q \in Responses : respState'[q] # "pending"
    BY <1>3, <1>t DEF AbortPoll, OneTransport, SessionTypeOK
  <2>2. Mail!GiveUp
    BY <1>3, <1>m, <2>1, WaitingNext DEF AbortPoll, Mail!GiveUp
  <2>3. QED
    BY <2>2 DEF Mail!Next
<1>4. ASSUME NEW r \in Responses, PollTimeout(r)
      PROVE  [Mail!Next]_Mail!vars
  <2>1. /\ respState[r] = "pending" /\ respState'[r] \in {"ended", "aborted"}
        /\ \A q \in Responses \ {r} : respState'[q] = respState[q]
    BY <1>4, <1>t, EndRespResult DEF PollTimeout, TimerInv
  <2>2. \A q \in Responses : respState'[q] # "pending"
    BY <2>1 DEF OneTransport
  <2>3. delivered' = Written(msgQueue[respOwner[r]], "timeout")
    BY <1>4, <2>1 DEF PollTimeout, EndResp
  <2>4. Mail!Reply
    BY <1>4, <1>t, <2>1, <2>2, <2>3, MailReply DEF PollTimeout
  <2>5. QED
    BY <2>4 DEF Mail!Next
<1>5. ASSUME NEW c \in Clients, Flush(c)
      PROVE  [Mail!Next]_Mail!vars
  <2> DEFINE r == onAborted[c]
  <2>1. /\ r \in Responses /\ r = httpWriter[c] /\ respOwner[r] = c
        /\ respState[r] \in {"pending", "aborted"}
        /\ EndResp(r, registered, "flush")
        /\ respState'[r] # "pending"
        /\ \A q \in Responses \ {r} : respState'[q] = respState[q]
    BY <1>5, FlushResult
  <2>2. UNCHANGED <<respOwner, sent>>
    BY <1>5 DEF Flush
  <2>3. CASE respState[r] = "pending"
    <3>1. \A q \in Responses : respState'[q] # "pending"
      BY <2>1, <2>3 DEF OneTransport
    <3>2. delivered' = Written(msgQueue[respOwner[r]], "flush")
      BY <2>1, <2>3 DEF EndResp
    <3>3. Mail!Reply
      BY <1>t, <2>1, <2>2, <2>3, <3>1, <3>2, MailReply
    <3>4. QED
      BY <3>3 DEF Mail!Next
  <2>4. CASE respState[r] = "aborted"
    <3>1. UNCHANGED <<respState, delivered>>
      BY <2>1, <2>4 DEF EndResp
    <3>2. ASSUME NEW q \in Responses, respState[q] = "pending"
          PROVE  msgQueue'[respOwner[q]] = msgQueue[respOwner[q]]
      <4>1. respOwner[q] # c /\ respOwner[q] \in Clients
        BY <1>t, <2>1, <2>4, <3>2 DEF OneTransport, TimerInv
      <4>2. QED
        BY <1>5, <1>t, <4>1 DEF Flush, SessionTypeOK
    <3>3. Waiting' = Waiting
      BY <2>2, <3>1, <3>2, WaitingKept
    <3>4. QED
      BY <1>0, <2>2, <3>1, <3>3
  <2>5. QED
    BY <2>1, <2>3, <2>4
<1>6. ASSUME NEW s \in Sockets, SocketOpen(s)
      PROVE  [Mail!Next]_Mail!vars
  BY <1>6, <1>c, <1>n DEF SocketOpen
<1>7. ASSUME NEW s \in Sockets, SocketMessage(s)
      PROVE  [Mail!Next]_Mail!vars
  <2>1. CASE UNCHANGED <<respState, sent, delivered>>
    <3>1. \A r \in Responses : respState[r] # "pending"
      BY <1>7 DEF SocketMessage, OneTransport
    <3>2. QED
      BY <1>n, <2>1, <3>1
  <2>2. CASE registered # None /\ SendMessage(registered)
    BY <1>t, <2>2, MailSend DEF SessionTypeOK
  <2>3. QED
    BY <1>7, <2>1, <2>2 DEF SocketMessage
<1>8. CASE Deliver \/ \E c \in Clients : CapturedSend(c)
  BY <1>8, <1>t, MailSend DEF Deliver, CapturedSend, SessionTypeOK
<1>9. CASE ExpirePolling
  <2>1. PICK r \in Responses :
           /\ respState[r] = "pending" /\ respOwner[r] = registered
           /\ httpWriter[registered] = r /\ onAborted[registered] = r
    BY <1>9, <1>w DEF ExpirePolling
  <2>2. EndResp(r, None, "close") /\ UNCHANGED sent
    BY <1>9, <1>t, <2>1 DEF ExpirePolling
  <2>3. \A q \in Responses : respState'[q] # "pending"
    BY <1>9, <2>1, ExpireResult DEF OneTransport
  <2>4. delivered' = Written(msgQueue[respOwner[r]], "close")
    BY <2>1, <2>2 DEF EndResp
  <2>5. Mail!Reply
    BY <1>t, <2>1, <2>2, <2>3, <2>4, MailReply
  <2>6. QED
    BY <2>5 DEF Mail!Next
<1>10. CASE \/ \E c \in Clients : FlushIdle(c) \/ Release(c)
            \/ \E s \in Sockets : SocketClose(s)
            \/ SocketRefused \/ PostStart \/ ExpireWs \/ UNCHANGED vars
  BY <1>k, <1>10
     DEF FlushIdle, Release, SocketClose, SocketRefused, PostStart, ExpireWs,
         vars
<1>11. QED
  BY <1>1, <1>2, <1>3, <1>4, <1>5, <1>6, <1>7, <1>8, <1>9, <1>10 DEF Next

LEMMA MailInit == Init => Mail!Init
<1>1. ASSUME Init
      PROVE  /\ Waiting = <<>>
             /\ {m \in Messages : delivered[m] # <<>>} = {}
  BY <1>1 DEF Init, Waiting
<1>2. QED
  BY <1>1 DEF Init, Mail!Init

(* In a worker, a peer that keeps to one transport at a time has a mailbox: *)
(* whatever Clients, responses, timers and captured sends there are, there *)
(* is one queue that replies are made from.                                *)
THEOREM WorkerIsMailbox ==
    ASSUME ~IsPrimary, ~Overlap
    PROVE  Spec => ImplementsMailbox
<1>1. SessionInv /\ OneTransport /\ [Next]_vars => OneTransport'
  BY TransportNext
<1>2. SessionInv /\ OneTransport /\ OneTransport' /\ [Next]_vars =>
        [Mail!Next]_Mail!vars
  BY MailNext
<1>3. QED
  BY <1>1, <1>2, TransportInit, MailInit, SessionInvariant, PTL
     DEF Spec, ImplementsMailbox, Mail!Spec


(* The mailbox keeps its messages in order.                                *)
LEMMA MailOrdered ==
    /\ Mail!Init => Mail!Ordered
    /\ Mail!Ordered /\ [Mail!Next]_Mail!vars => Mail!Ordered'
<1> DEFINE written == {m \in Messages : delivered[m] # <<>>}
<1> HIDE DEF written
<1>1. Mail!Init => Mail!Ordered
  BY DEF Mail!Init, Mail!Ordered, written
<1>2. ASSUME Mail!Ordered, [Mail!Next]_Mail!vars
      PROVE  Mail!Ordered'
  <2>o. /\ sent \in Nat /\ Waiting \in Seq(Nat) /\ written \subseteq Nat
        /\ \A i, j \in DOMAIN Waiting : i < j => Waiting[i] < Waiting[j]
        /\ \A i \in DOMAIN Waiting : Waiting[i] <= sent
        /\ \A m \in written :
              m <= sent /\ \A i \in DOMAIN Waiting : m < Waiting[i]
    BY <1>2 DEF Mail!Ordered, written
  <2>g. ASSUME /\ sent' \in Nat /\ Waiting' \in Seq(Nat) /\ written' \subseteq Nat
               /\ \A i, j \in DOMAIN Waiting' : i < j => Waiting'[i] < Waiting'[j]
               /\ \A i \in DOMAIN Waiting' : Waiting'[i] <= sent'
               /\ \A m \in written' :
                     m <= sent' /\ \A i \in DOMAIN Waiting' : m < Waiting'[i]
        PROVE  Mail!Ordered'
    BY <2>g DEF Mail!Ordered, written
  <2>1. CASE Mail!Accept
    <3>1. /\ sent' = sent + 1 /\ Waiting' = Append(Waiting, sent + 1)
          /\ written' = written
      BY <2>1 DEF Mail!Accept, written
    <3>2. /\ Waiting' \in Seq(Nat) /\ DOMAIN Waiting' = 1 .. Len(Waiting) + 1
          /\ \A i \in DOMAIN Waiting : Waiting'[i] = Waiting[i]
          /\ Waiting'[Len(Waiting) + 1] = sent + 1
          /\ DOMAIN Waiting = 1 .. Len(Waiting) /\ Len(Waiting) \in Nat
      BY <2>o, <3>1
    <3>3. \A i \in DOMAIN Waiting' :
             i \in DOMAIN Waiting \/ (i = Len(Waiting) + 1 /\ i \notin DOMAIN Waiting)
      BY <3>2
    <3>4. \A i \in DOMAIN Waiting : Waiting[i] \in Nat
      BY <2>o
    <3>5. \A i \in DOMAIN Waiting' : Waiting'[i] <= sent'
      BY <2>o, <3>1, <3>2, <3>3, <3>4
    <3>6. \A i, j \in DOMAIN Waiting' : i < j => Waiting'[i] < Waiting'[j]
      <4>1. SUFFICES ASSUME NEW i \in DOMAIN Waiting', NEW j \in DOMAIN Waiting', i < j
                     PROVE  Waiting'[i] < Waiting'[j]
        OBVIOUS
      <4>2. i \in DOMAIN Waiting
        BY <3>2, <4>1
      <4>3. CASE j \in DOMAIN Waiting
        BY <2>o, <3>2, <4>1, <4>2, <4>3
      <4>4. CASE j = Len(Waiting) + 1
        BY <2>o, <3>2, <3>4, <4>2, <4>4
      <4>5. QED
        BY <3>3, <4>3, <4>4
    <3>7. \A m \in written' : m <= sent' /\ \A i \in DOMAIN Waiting' : m < Waiting'[i]
      BY <2>o, <3>1, <3>2, <3>3
    <3>8. QED
      BY <2>o, <2>g, <3>1, <3>2, <3>5, <3>6, <3>7
  <2>2. CASE Mail!Refuse
    <3>1. sent' = sent + 1 /\ Waiting' = Waiting /\ written' = written
      BY <2>2 DEF Mail!Refuse, written
    <3>2. \A i \in DOMAIN Waiting : Waiting[i] \in Nat /\ Waiting[i] <= sent + 1
      BY <2>o
    <3>3. \A m \in written : m <= sent + 1
      BY <2>o
    <3>4. QED
      BY <2>o, <2>g, <3>1, <3>2, <3>3
  <2>3. CASE Mail!Reply
    <3>1. /\ sent' = sent /\ Waiting' = <<>>
          /\ written' = written \cup Mail!Elements(Waiting)
      BY <2>3 DEF Mail!Reply, written
    <3>2. \A m \in Mail!Elements(Waiting) : m \in Nat /\ m <= sent
      BY <2>o DEF Mail!Elements
    <3>3. written' \subseteq Nat /\ \A m \in written' : m <= sent'
      BY <2>o, <3>1, <3>2
    <3>4. Waiting' \in Seq(Nat) /\ \A i \in DOMAIN Waiting' : FALSE
      BY <3>1
    <3>5. QED
      BY <2>o, <2>g, <3>1, <3>3, <3>4
  <2>4. CASE Mail!GiveUp
    <3>1. sent' = sent /\ Waiting' = <<>> /\ written' = written
      BY <2>4 DEF Mail!GiveUp, written
    <3>2. QED
      BY <2>o, <2>g, <3>1
  <2>5. CASE UNCHANGED Mail!vars
    <3>1. sent' = sent /\ Waiting' = Waiting /\ written' = written
      BY <2>5 DEF Mail!vars, written
    <3>2. QED
      BY <2>o, <2>g, <3>1
  <2>6. QED
    BY <1>2, <2>1, <2>2, <2>3, <2>4, <2>5 DEF Mail!Next
<1>3. QED
  BY <1>1, <1>2

(* A step writes a message once or not at all.                             *)
LEMMA DeliveredGrows ==
    ASSUME [Next]_vars, NEW m \in Messages
    PROVE  \/ delivered'[m] = delivered[m]
           \/ \E how \in Replies : delivered'[m] = Append(delivered[m], how)
<1> USE DEF clientVars, respVars
<1>0. CASE delivered' = delivered
  BY <1>0
<1>1. ASSUME NEW q, NEW how \in Replies, delivered' = Written(q, how)
      PROVE  \/ delivered'[m] = delivered[m]
             \/ \E h \in Replies : delivered'[m] = Append(delivered[m], h)
  BY <1>1 DEF Written
<1>2. ASSUME NEW r, NEW reg, NEW how \in Replies, EndResp(r, reg, how)
      PROVE  \/ delivered'[m] = delivered[m]
             \/ \E h \in Replies : delivered'[m] = Append(delivered[m], h)
  BY <1>1, <1>2 DEF EndResp
<1>3. CASE \E r \in Responses : PollTimeout(r)
  BY <1>2, <1>3 DEF PollTimeout, Replies
<1>4. CASE GetPollReply
  BY <1>1, <1>4 DEF GetPollReply, Replies
<1>5. CASE \E c \in Clients : Flush(c)
  BY <1>0, <1>2, <1>5 DEF Flush, Replies
<1>6. CASE ExpirePolling
  BY <1>0, <1>2, <1>6 DEF ExpirePolling, Replies
<1>7. CASE \/ \E s \in Sockets : SocketMessage(s)
           \/ Deliver \/ \E c \in Clients : CapturedSend(c)
  BY <1>0, <1>7 DEF SocketMessage, Deliver, CapturedSend, SendMessage
<1>8. CASE \/ \E r \in Responses, c \in Clients : GetPollNew(r, c)
           \/ \E r \in Responses : GetPollWait(r) \/ AbortPoll(r)
           \/ \E c \in Clients : FlushIdle(c) \/ Release(c)
           \/ \E s \in Sockets : SocketOpen(s) \/ SocketClose(s)
           \/ SocketRefused \/ PostStart \/ ExpireWs \/ UNCHANGED vars
  BY <1>0, <1>8
     DEF GetPollNew, GetPollWait, AbortPoll, FlushIdle, Release, SocketOpen,
         SocketClose, SocketRefused, PostStart, ExpireWs, vars
<1>9. QED
  BY <1>3, <1>4, <1>5, <1>6, <1>7, <1>8 DEF Next

(* Messages reach such a peer in the order they were sent, although they   *)
(* are queued at several Clients, and each once: after a message was       *)
(* written neither it nor an older one is.                                 *)
THEOREM MessagesInOrder ==
    ASSUME ~IsPrimary, ~Overlap
    PROVE  Spec => WrittenInOrder
<1>1. SessionInv /\ OneTransport /\ OnceInv /\ [Next]_vars =>
        /\ OneTransport' /\ OnceInv'
        /\ [Mail!Next]_Mail!vars
  BY TransportNext, OnceNext, MailNext
<1>2. ASSUME SessionInv, Mail!Ordered, OnceInv', [Next]_vars,
             [Mail!Next]_Mail!vars,
             NEW m \in Messages, NEW n \in Messages, m <= n, delivered[n] # <<>>
      PROVE  delivered'[m] = delivered[m]
  <2>1. SUFFICES ASSUME NEW how \in Replies,
                        delivered'[m] = Append(delivered[m], how)
                 PROVE  FALSE
    BY <1>2, DeliveredGrows
  <2>2. delivered[m] \in Seq(Replies) /\ m \in Nat /\ n \in Nat
    <3>1. delivered[m] \in Seq(Replies)
      BY <1>2 DEF SessionInv, SessionTypeOK
    <3>2. m \in Nat /\ n \in Nat
      BY SessionAssumption DEF Messages
    <3>3. QED
      BY <3>1, <3>2
  <2>3. delivered[m] = <<>>
    <3>1. Len(delivered'[m]) <= 1
      BY <1>2 DEF OnceInv, AtMostOnce, Messages
    <3>2. Len(Append(delivered[m], how)) = Len(delivered[m]) + 1
      BY <2>2
    <3>3. Len(delivered[m]) = 0
      BY <2>1, <2>2, <3>1, <3>2
    <3>4. QED
      BY <2>2, <3>3
  <2>4. m # n
    BY <1>2, <2>3
  <2>5. delivered'[m] # <<>>
    <3>1. Append(delivered[m], how) # <<>>
      BY <2>2
    <3>2. QED
      BY <2>1, <3>1
  <2>6. {k \in Messages : delivered'[k] # <<>>} =
           {k \in Messages : delivered[k] # <<>>} \cup Mail!Elements(Waiting)
    <3>1. Messages' = Messages
      BY DEF Messages
    <3>2. CASE Mail!Reply
      BY <3>1, <3>2 DEF Mail!Reply
    <3>3. CASE {k \in Messages : delivered'[k] # <<>>} =
                  {k \in Messages : delivered[k] # <<>>}
      BY <2>3, <2>5, <3>3
    <3>4. QED
      BY <1>2, <3>1, <3>2, <3>3
         DEF Mail!Next, Mail!Accept, Mail!Refuse, Mail!GiveUp, Mail!vars
  <2>7. m \in Mail!Elements(Waiting)
    BY <2>3, <2>5, <2>6
  <2>8. n < m
    BY <1>2, <2>7 DEF Mail!Elements, Mail!Ordered
  <2>9. QED
    BY <1>2, <2>2, <2>8
<1>3. SessionInv /\ Mail!Ordered /\ OnceInv' /\ [Next]_vars
         /\ [Mail!Next]_Mail!vars =>
        [\A m, n \in Messages :
            m <= n /\ delivered[n] # <<>> => delivered'[m] = delivered[m]]_vars
  BY <1>2
<1>4. Init => OneTransport /\ OnceInv /\ Mail!Ordered
  BY TransportInit, OnceInit, MailInit, MailOrdered
<1>5. SessionInv /\ OneTransport /\ OnceInv /\ Mail!Ordered /\ [Next]_vars =>
        /\ (OneTransport /\ OnceInv /\ Mail!Ordered)'
        /\ [\A m, n \in Messages :
              m <= n /\ delivered[n] # <<>> => delivered'[m] = delivered[m]]_vars
  BY <1>1, <1>3, MailOrdered
<1>6. QED
  BY <1>4, <1>5, SessionInvariant, PTL DEF Spec, WrittenInOrder

=============================================================================
