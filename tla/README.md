# A verification project for cbsignal

cbsignal is a WebRTC signalling server: peers connect by WebSocket or by HTTP
long polling, send each other signals through it, and several worker
processes (on one or more machines) cooperate through Redis. This directory
holds TLA+ modules for the parts of it whose correctness depends on the order
in which callbacks, timers, processes and Redis commands run, TLC
configurations that check them, and theorems about them that the TLA+ proof
system checks.

## The system

| Part | Source | State | Operations |
|---|---|---|---|
| Peer session | `lib/client.js`, `lib/server.js` (GET, POST, ws handlers), `lib/hub.js` (`doRegister`, `doUnregister`, `sendJsonToClient`, `checkConns`) | `hub._map`; per Client: transport, `msgQueue`, `onAborted`, flush timer; per response: aborted flag, 97 s timer | open, message, close of a socket; start, abort, timeout and flush of a poll; POST; delivery of a signal; expiry |
| Signal routing | `lib/hub.js` (`processMessage` ... `_handlePeerNotFound`) | `notFoundIdCache`, the loop over an array and its lookups across `await` | local delivery, directory lookup, remote send, not-found notice |
| Peer directory | `lib/broker/redis.js` | Redis keys `signal:peerId:<id>` with a time to live, LRU cache, `isAlive` | set, delete, renew, look up, break |
| Remote queue | `lib/broker/node.js`, `lib/utils/aggregator.js`, `hub.consume` | batch under construction, `isAlive`, `shouldCheck`, the Redis list | enqueue, flush, length check, push, trim, clear, pop |
| Node registry | `lib/broker/nodes.js`, `lib/broker/node.js` (`destroy`) | map of Nodes, their heartbeat timers and counters | get, add, heartbeat, delete |
| Supervisor | `index.js`, `lib/worker.js` | ping timer and missed pings of each worker, forks that wait | fork, ping, pong, kill, exit, refork |
| Interval controller | `lib/utils/aggregator.js` | current interval, interval timer, reset monitor | increase, reset, start, stop |
| Admission | `lib/server.js`, `lib/utils/guard.js`, `lib/utils/tool.js` | token bucket | rate limit, token, origin |
| Compact signalling | `lib/compact/*`, `hub._processJson` | none (bit buffers of two loops) | compact, decompact, fingerprint to base64 and back |
| Wire format | `lib/utils/protoBuf.js` | none | protobuf encoding of a batch |

Within one process every callback runs to its end before the next, so an
action of a module is one callback (or the part of an `async` function between
two `await`s). Processes share nothing but Redis. A signal goes from a socket
or POST of the sender to `processMessage`; if the target is registered in the
same process its Client writes it, or queues it for a poll; otherwise the
directory is asked, and the signal joins the batch of the Node of the worker
that has the target; that worker's `consume` loop pops the batch and hands it
to the target's Client.

What is hard to test here: the endings of a poll (timeout, flush, abort,
expiry, superseded by another poll, upgrade to a socket) in every order;
handlers that keep a Client or a lookup result across an `await`; close
handlers that name the peer and not the connection; writes of several workers
to one key; a list shared by senders who each see an old length; Redis
commands that are dropped, rejected or run twice; crashes. `PROJECT.json`
lists them one by one under `hazards`, each with the properties meant to
catch it.

What makes each part correct:

* Session: a response is ended once and in time; the hub writes only to a
  transport that is open; what was queued is written, and not twice.
* Directory: once writes have settled it names the worker that has the peer,
  or nobody; stale addresses disappear.
* Queue: a message is delivered or given up, once; the list is bounded;
  the order of messages is kept except in one known case.
* Routing: a signal reaches the worker that has the target unless the target
  moved meanwhile, and what makes it fail does not last.
* Compact signalling: the peer connects with what was offered; a fingerprint
  is the one that was signed.
* Registry: who gives up leaves the map and falls quiet; a dead worker is
  forgotten, a live one is found again.
* Supervisor: as many workers as configured, sooner or later; none is killed
  that answers.

## Modules

| Module | What it is |
|---|---|
| `PeerSession` | one peer id in one process |
| `Mailbox` | what a worker promises a polling peer, abstractly; `PeerSession` implements it |
| `RemoteQueue` | the list of one receiving worker and all its senders |
| `LossyChannel` | what that queue promises, abstractly; `RemoteQueue` implements it |
| `PeerDirectory` | one peer's key in Redis and the workers that write and cache it |
| `NodeRegistry` | the Nodes that one worker makes for one remote address, their heartbeats and Aggregator timers |
| `SignalRouting` | arrays of signals to one target through the hub of one worker |
| `Supervisor` | the primary process and its workers |
| `Fingerprint` | the two loops of `lib/compact/base64.js` |
| `Compact` | `lib/compact/index.js` and `dict.js`: what the hub sends to compact peers |
| `CompactRelay` | a signal through `_processJson` and `lib/compact/decompact.js` |
| `...Proofs` | theorems about the module of that name |
| `MC...` | inputs and quotas for the TLC runs |

The modules meet at named places. `SignalRouting` takes over from
`PeerDirectory` the key and the cached address, and from `NodeRegistry` the
Node of the map, each free to change as that module allows, at any moment; a
signal it passes on is an `Enqueue` of `RemoteQueue`. `NodeRegistry` and
`RemoteQueue` are two views of one Node: the former has all Nodes of an
address, with what becomes of their timers, the latter has one of them and the
contents of its messages. What `RemoteQueue` delivers, `PeerSession` gets as
`Deliver`. `Supervisor` ends and starts the processes that `PeerDirectory`
lets crash.

Definitions called *Variant* are not part of any specification. Each is a
small mistake in one definition, kept to see that the properties notice it
(`mutants` in `PROJECT.json`).

### PeerSession

Peers share no state in a process, so the module has one peer id and its slot
`registered` in `hub._map`. A Client is a name with its fields as functions; a
name is used again when nothing in the program can reach the object (`Reachable`:
the slot, an armed flush timer, a pending response, a captured reference), as
a garbage collector would. Responses likewise. `FreshClient` and
`FreshResponse` say so; that is what keeps the number of states finite while
peers come and go without limit.

| Action | Code |
|---|---|
| `GetPollNew`, `GetPollWait`, `GetPollReply` | GET `/`: no Client, a Client without and with queued messages |
| `AbortPoll`, `PollTimeout` | `response.onAborted`, the 97 s timer; both run `endResp` (`EndResp`) |
| `Flush`, `FlushIdle` | the flush timer of `sendDataPolling`, with and without an `onAborted` to call |
| `SocketOpen`, `SocketRefused`, `SocketMessage`, `SocketClose` | the ws handlers |
| `Deliver` | a signal for the peer, from this process or a batch |
| `PostStart`, `CapturedSend`, `Release` | a POST body read later, and lookups in `_handlePeerNotFound`: work that holds a Client |
| `ExpirePolling`, `ExpireWs` | `checkConns` |

`uWebSockets.js` throws when a completed response is touched: `EndedResponse`
makes the response `misused`, which `NoUseAfterEnd` excludes. `flushTimer`
tells a live handle from a cleared one, since `endResp` clears the timer but
leaves the handle in the field and `sendDataPolling` tests the field.
`delivered` records, for every message that was queued for polling, each way
it went out. Messages sent on a socket are not tracked: the socket has them.

`Mailbox` sees nothing of Clients and polls: messages 1, 2, 3, ... are refused
at once or wait in one queue, a reply writes the whole queue, and what leaves
the queue otherwise is never written. `Mail` maps `PeerSession` to it: the queue
is `Waiting`, the messages of the Client whose response is pending, and a message
is written when `delivered` has an entry for it. With one transport at a time
at most one response is pending in a worker, and the messages of a Client without one
cannot be written any more: in a worker the end of a poll takes its Client out of
the map. So the flush that empties a queue, the timeout that writes it and keeps
it in the abandoned object, and a peer that comes back under a new Client are all
steps of one mailbox (`ImplementsMailbox`, `WrittenInOrder`).

`IsPrimary` selects the deployment (`cluster.isPrimary`, where a replied poll
leaves the Client registered). `Overlap` says whether the peer may open a
transport while it has another. `Captures` says whether handlers may hold an
old Client.

### RemoteQueue

The commands that one sender writes to its Redis connection are `pipe`; Redis
runs them in order (`Run`), and the sender's continuations see the replies in
order (`HandleReply`), with timers and new messages in between. A reply whose
continuation changes nothing is not queued. The numbers 1, 2, 3, ... of a
sender's messages stand for their contents. `NodeDies` and `NodeRevives` are
the heartbeat's effect on one Node. `Fail` and `Rerun` are a command that is
rejected and a push that the client library writes again after it ran.
`lost`, `delivered` and `checked` are history variables: only the properties
read them.

### PeerDirectory

Each worker writes SET, DEL, EXPIRE and GET to its connection (`pipe`);
`Run` is Redis. Time is not modelled: a key (10 minutes) and a cached address
(15 minutes) may expire at any moment, so whatever holds here holds for other
values of these limits. `marks` remembers the two things after which the
directory has no claim to be right: a lost write (dropped in a break,
rejected, the DEL that a worker which died can no longer write, or a key that
expired under a registered peer) and an overlap (a worker registers the peer
before its previous one let go). A later clean registration clears the marks,
because its SET comes after all other writes: that the directory recovers is
part of what is checked. `Crash` is the environment's: a worker dies, with all
it knows, but the commands it has written are in the kernel's socket and Redis
still runs them. A worker that is restarted has another pid and so is another
member of `Workers`.

### NodeRegistry

`Nodes.get` awaits Redis before it creates a Node, so two lookups of an address
that is not mapped create two; the second one replaces the first in the map,
and the first goes on beating. The module has every Node ever made for one
address, with names used again when nothing reaches the old object. `pending`
is the connection: commands and the continuations that wait for their replies,
in order. `Tick` is the heartbeat timer (`Beat`, or `Delete` after too many
misses, with `Node.destroy` and the Aggregator's `stop`), `HandleBeat` and
`HandleLen` what follows its two awaits, `HandlePush` what follows a push,
where a full list makes `increaseInterval` start both timers of the Aggregator,
even those of one that was stopped. Time appears once: the Aggregator's
interval is 60 to 180 ms and a heartbeat's 7 s, so a queue that was filled
before a heartbeat (`"overdue"`) is flushed before the next one.

`overlapped` and `late` are history variables. Without overlap every Node that
beats is the mapped one. While each heartbeat is answered before the next one,
a Node is quiet when it gives up; a connection that stalls for more than 7 s
makes `DestroyedIsQuiet` false, which TLC shows if `late` is left out of it:
the late answer to a push increases the interval of an Aggregator that was
stopped, and its timers run for ever.

### SignalRouting

An array is at the head of its loop (`"running"`), or waits for the target's
address or for the remote worker's key. `Quiet` keeps callbacks apart: what
runs without an `await` in between is not interrupted by another message.
`processMessage` looks the target up once (`local`), and later items rely on
it. `Found` is the rest of `processSignal` once the address is known, with this
worker's own address taken for none and a Node that refuses. A "signal" is an
array of one item, and `processCommon` ("reject", "debug") takes the same way
without a notice. Who is told of a failure, and that he is told only once for
each target, is left out; `fate` tells why an item failed.

### Supervisor

A worker is named once and again after each exit, as `cluster.fork` gives a new
process. `Tick` and `Pong` are the closures of `setupWorker`, `Exit` the two
exit handlers (which node.js calls in one go), `Refork` the 5 s timer. A worker
that is `"up"` answers every ping before the next one; a `"silent"` one answers
none until it wakes, if it does, so a late pong is a pong after `Wake`.

### Fingerprint

A fingerprint is its bytes, a character its position in `CHARSET`. `encode` is
`ReadByte` (the `for`), `WriteIndex` (its inner `while`), `WriteRest` and
`AddPad`; `decode` is `StartDecoding`, `ReadIndex`, `WriteByte` and `Finish`.
Neither loop masks its buffer, so the buffer is kept modulo `BufferSize` as a
32-bit shift does, and what falls out at the left is lost in the model, too.
`EncodesBase64` compares the text with base64 by its definition (three bytes
are four groups of six bits), which the loops do not mention.

### Compact and CompactRelay

A description is a sequence of lines, a line its field, its attribute and its
words. Texts are cut where one of the regular expressions of `dict.js` can tell
a difference; that is why an m= line such as `9 TCP/DTLS/SCTP` has the words
`TC`, `P`, `/`, `DTLS/SCTP`: `mediaDecode` puts `application` for each `P` it
finds. A candidate is cut in the same way, but with the blanks between its words
(`Blank`) as pieces of their own, since the expression of `candidateEncode` has
phrases of several words and knows no word boundaries: `raddr 20.0.0.0` is
`<<"raddr", Blank, "2", "0.0.0.0">>` and comes out as `A 2V`; `network-cost 9990`
is `<<"network-cost", Blank, "999", "0">>`, and with `typ host generation 0`
before it becomes `P0`. `ReplacePhrases` goes through the pieces as `replace`
does with a global expression, takes the first phrase of the dictionary that is
found at a place and goes on after it; `candidateDecode` decodes only what is a
word of its own (`Whole`), as `split(" ")` does. The dots in `0.0.0.0` match any
character: what they match otherwise, like `0:0:0:0`, is a piece in the constant
`Lookalikes`, and becomes the word `undefined`, as a missing key does. That a text
is cut everywhere it must be is an assumption on the inputs (`IsCut`): its pieces
are in the constant `Pieces`, the texts in which the expressions find nothing, or
which they find as a whole. `20.0.0.0` is not one of them.

A dictionary is a set of entries `<<key, code>>`, and `Encode` and `Decode` look
one up in either direction; the loops of `compactSDPStr` and `decompactSDPStr`
over the lines are functions of the round, one round a line. The versions whose
last digit is 2 are a constant, `VersionsEndingIn2`, of which only "2" itself is
assumed (`VersionsAssumption`).

`SignalsAssumption` says what peers send. The lines of a description are as in
RFC 4566 (`IsLine`): field names, attribute names and the values that a
dictionary translates are written in full, so that none of them is itself one of
the codes, and no attribute begins with one of the six capitals that
`decompactSDPStr` takes for a code whatever follows (`CapitalNames`:
`a=Sxyz` would come out as `a=sctp-port:xyz`); only a= lines have attributes;
c=, o= and fingerprint lines have their three, six or two words; media lines and
candidates are cut; no piece of a
candidate is one of the letters that `candidateDecode` looks for. The origin is
the second line (`IsDescription`), and a candidate is one line, or none at the
end of the list. TLC checks all this of the signals in the runs. Words that are
names of properties of every JavaScript object ("constructor"), which the
operator `in` would find in the dictionaries, are left out.

What `decompactSDPStr` makes up, it makes up in one way only: the version, the
session name, the time, one `setup` and one numbered `mid` for each section, and
the group of all of them (`UsualLines`). So a description is regular if these
are its lines about the session (`SessionLines`), and if its origin, its media
lines and its candidates have none of the features that get lost. A candidate is
regular (`RegularCandidate`) if every phrase that is found in it is made of whole
words, nothing passes for the wildcard address, no protocol is inside another
word of the first four, and something follows its address.

`Compact` holds the maps and the encoding
as functions; `CompactRelay` has the decoding and two steps, `processJson` in the
hub and `Receive` in the peer. The peer's program is not part of the
repository; `Receive` does what `decompact.js` does, which is kept there for it
and was used by developers to compare both ends (the commented part of
`_processJson`). `Same` is that comparison.

## Runs

| Run | Checks | Instance |
|---|---|---|
| `session_worker` | use after end, socket slot, flush, messages queued while a response waits | worker, overlapping transports, captures; 2 Clients, 2 responses, 2 sockets, queue of 2 |
| `session_primary` | types, repeats only after timeouts | the same in a primary, 1 socket, queue of 1 |
| `session_live` | refinement of `Mailbox`, messages written in order, a connected peer stays registered, every poll ends, every queued message is written | worker, one transport at a time |
| `queue_safe` | types, the bound of the list, empty batches, overtaking, refinement of `LossyChannel` | 2 senders, 4 messages and 1, bound 2, a death |
| `queue_live` | every message settles | 1 sender, 3 messages, a death, 2 failures |
| `directory` | the last write under way, agreement, no false entry, caches converge, a gone peer is forgotten | 2 workers, commands under way for both, one of them fragile |
| `registry` | types, orphans, quiet after the end, raised intervals, the dead are forgotten, the living found again | 2 Nodes, 2 misses tolerated, one increase, 2 commands under way |
| `routing` | types, delivery while nothing changes, delivery in the end | 2 arrays of at most 2 items |
| `supervisor` | the number of workers, who is killed, all up again | 2 workers, 5 missed pings tolerated, 3 faults |
| `fingerprint` | types, base64 by definition, same bytes back | all fingerprints of 1 to 4 bytes over 5 values, three of 32 bytes |
| `compact_relay` | who arrives intact, essentials, normal form | offers, answers and candidates with at most three unusual features, 11 candidates in pieces |
| `compact_origin` | a claim of a comment that does not hold | the same |

What they show, beyond that the properties hold:

* In a worker `endResp` ends each response exactly once although it has three
  callers and no guard. `NoUseAfterEnd` depends on `_httpWriter`, `onAborted`
  and the 97 s timer agreeing, which is `SessionInv` below.
* A message can be written twice: the timeout writes the queue and leaves it,
  and in a primary the Client stays registered, so the next poll finds the
  messages again. That is why `RedeliveryOnlyAfterTimeout` exempts timeouts
  and closes and why only a worker with a disciplined peer is a `Mailbox`,
  which writes in order and at most once.
* A peer that overlaps its transports can be connected and not registered (the
  old socket's close, or the superseded poll's end, unregisters the id). No
  property says that this does not happen: the code does it.
  Without overlap it stays registered through every handler and timer
  (`ConnectedStaysRegistered`) but one: a handler that has held an old Client
  since before an `await` sends on it, fails, and unregisters the id.
* A message that is queued while a response waits stays queued, with a response
  waiting, until it is written, whatever full queues, switches to a socket and
  newer polls come (`NothingDroppedSilently`); only an abort by the peer strands
  it. Nothing is claimed of a Client without a response: `switchToWS` keeps a
  queue that nobody may ever write.
* While no command fails, messages of one sender may overtake each other only around a length check
  (`OvertakenOnlyIfChecked`): the check awaits Redis with the batch in hand,
  and a batch after the check was switched off does not wait.
* The directory is right whenever nothing was lost and workers did not fight
  over the peer, and, unless a write was lost, it is never wrong in the direction
  of naming a worker that gave the peer up. What makes it right is that the last
  write each worker has under way is what the worker believes (`LastWriteTells`).
* A worker that dies is forgotten by every Node ever made for it, and a live
  one that was thought dead is found again, although two Nodes for one address
  can unmap each other (`DeadIsForgotten`, `ReturnsAlive`).
* A signal gets lost on its way only if, since its array came, something about
  its target changed or was wrong (`SteadyIsDelivered`), and then later ones
  arrive (`EventuallyDelivered`). A Node thought dead, an address cached from
  before a move (the worker's own one among them) and a lookup that fails are
  the ways to lose it.
* A worker that was silent for up to five pings and answers again is spared
  (`ResponsiveIsSpared`); one that hangs for ever is replaced (`AllUpAgain`).
* A signal (as `SignalsAssumption` has them) is changed by compaction in a known
  set of cases only: a description or candidate that is regular (`Regular`) arrives as it was sent,
  up to order and case, and *only* those do. The irregular features are a
  version ending in 2 other than 2 itself, an origin whose user is not `-`,
  `setup:passive` (and `active` in an offer), media ids that are not 0, 1, ...,
  a missing group or `extmap-allow-mixed`, `sctpmap`, another
  `msid-semantic`, media lines with capitals P, U, S or D of their own, a
  candidate with something that contains what the dictionaries replace (a related
  address `20.0.0.0` or `0:0:0:0`, a network cost 9990, a foundation with `udp` in
  it), a candidate of five words, which gets a blank at its end, and a candidate
  with another media id or with the prefix `a=`. Credentials, fingerprints, ports and addresses of
  a description arrive in all of them (`EssentialsArrive`).
* `compact_origin` is a violation: `compactSDPStr` tests the *end of the line*
  `2 IN IP4 127.0.0.1` to see whether the session's version is 2, so version
  12 is dropped as well and restored as 2. The comparison of both ends in
  `_processJson` expects origins to differ for Firefox only. See `findings`.

### Bounds and why they are enough

Two Clients are a peer's current one and an old one that something still
holds; two responses are a poll and the one that superseded it; two sockets
likewise. A polling queue of 2 instead of 30 overflows in three deliveries.
`MaxMessages` bounds only the queued messages, so that their history stays
finite; peers may reconnect for ever. The bound 2 of the Redis list, trimmed
to 1 (300 and 150 in the code), is reached, exceeded by a concurrent push and
trimmed within five messages, and one message overtakes another. Batches of 2 make a full and a partial batch.
`MaxDeaths` and `MaxFailures` bound rare events, and `MaxPipe` the commands
under way: two of each worker, a DEL and a SET, are what the writes of another
worker can race with. `Fragile` and `Readers` name the workers that may fail
and that look the peer up. Symmetry is used only in runs without liveness.

Two Nodes are a mapped one and an orphan. Three overlapping lookups make two
orphans, which meet the map one by one, as the first does. `MaxPending` is 2: a
heartbeat and the push before it, or the late answer after it, and an
increase of one step reaches the limit and leaves it. `MaxRetrys` is the
program's. Two arrays of two items are an item whose lookup is under way, one
that finds its result, and one after it. The supervisor's faults are three: one
worker may hang, be killed and its successor crash while the other one falls
silent.

Four bytes are a whole group of three and the start of the next, so every
length modulo three and every state of the buffer's count occurs; the byte
values have different bits at both ends. `BufferSize` is 2^14 in the run, and
not 2^32, since TLC's integers have 32 bits; the smaller buffer forgets sooner,
and the theorems hold for every multiple of 2^13. Descriptions deviate from
the usual one in at most three of 14 features: features are rewritten line by
line, and the only ones that meet are the type and the role, the media lines
and their ids, and version, type and address of the origin.

### Deadlock

The runs of `RemoteQueue` and `PeerDirectory` say `CHECK_DEADLOCK FALSE`: with
all messages sent and settled, or all workers down, nothing is left to do. Those
of `Fingerprint` and `CompactRelay` say so because a conversion ends. The
runs of `PeerSession`, `NodeRegistry`, `SignalRouting` and `Supervisor` check
it.

### Fairness

* `PeerSession`: the 97 s timers and the flush timers. node.js fires a timer
  whose time has come. Nothing is assumed of the peer, of deliveries or of
  `checkConns`.
* `RemoteQueue`: the Aggregator's interval timer, Redis running commands, a
  sender handling replies, the receiver's consume loop. Nothing is assumed of
  the heartbeat.
* `PeerDirectory`: Redis runs commands, answers are handled, cached values
  expire (LRU ttl), breaks end (2 s timer). A peer that left for good is
  unregistered in the end (sockets close or idle out, polls time out,
  `checkConns` finds the rest) and its key, which nobody renews, expires.
* `NodeRegistry`: Redis answers; heartbeat and interval timers fire again and
  again. That is strong fairness, because `MaxPending` may leave a timer no
  room now and then, which the program's connection does not do. The key of a
  worker that died expires, as nobody writes it any more.
* `SignalRouting`: callbacks run and Redis answers; cached addresses are
  evicted (15 minutes) and the heartbeat finds a worker again that has its
  key. The sender sends again (strong fairness of `Arrive`): otherwise the
  fate of its last array would stay for ever.
* `Supervisor`: timers fire, messages of living processes are read, exits are
  seen. Of the workers forked again and again one starts before it has missed
  six pings (strong fairness of `Start`): a worker that never came up would be
  killed and forked for ever. Nothing is assumed of `Wake`.

## Proofs

`PeerSessionProofs` proves, for all sets of Clients, Responses and Sockets, all
queue sizes and message bounds, and both deployments:

| Theorem | Statement |
|---|---|
| `SessionInvariant` | `Spec => []SessionInv` |
| `TypeCorrect` | `Spec => []SessionTypeOK` |
| `ResponsesEndOnce` | `Spec => []NoUseAfterEnd` |
| `PollsAreTimed` | `Spec => []PendingIsTimed` |
| `RegisteredIsOpen` | `Spec => []RegisteredSocketOpen` |
| `WorkerCanFlush` | `Spec => []WorkerPollFlushable` |
| `MessagesAreKept` | `Spec => NothingDroppedSilently` |
| `RepeatsOnlyAfterTimeout` | `Spec => []RedeliveryOnlyAfterTimeout` |
| `StaysRegistered` | without `Overlap`: `Spec => ConnectedStaysRegistered` |
| `WrittenAtMostOnce` | in a worker without `Overlap`: `Spec => []AtMostOnce` |
| `WorkerIsMailbox` | in a worker without `Overlap`: `Spec => ImplementsMailbox` |
| `MessagesInOrder` | in a worker without `Overlap`: `Spec => WrittenInOrder` |

The assumption is `SessionAssumption`, on the constants; the last four theorems
are about the deployments and peers that their hypotheses name. Without them the
properties fail, as TLC shows if `Overlap` or `IsPrimary` is set to TRUE in
`MCPeerSession_live.cfg`: an overlapping transport unregisters the peer, and a
primary keeps the Client of a poll that timed out together with the messages it
has just written. None of the properties is inductive. A flush is safe because the response it ends is still
pending, and that is known only through the Client's fields, so the inductive
invariant `SessionInv` adds

* `TimerInv`: the 97 s timer of a response runs exactly while it is pending,
  and its closures belong to a Client;
* `WriterInv`: the response that a reachable Client's `_httpWriter` names is
  pending, was created for that Client, and is the one its `onAborted` ends;
* `WorkerTimerInv`: in a worker no registered polling Client has a cleared
  handle in its timer field, which would keep it from arming a flush.

`SessionInit` and `SessionNext` are the two facts about `SessionInv`; the proof
of a step has one case for each action, and the pieces that several actions
share (`EndResp`, `SendMessage`, `NewClient`) have lemmas of their own.
`RepeatsOnlyAfterTimeout` rests on a second invariant, `DeliveryInv`: a message
that waits in the queue of a reachable Client has gone out at most by timeouts
and closes, and waits in no other reachable queue. Its proof uses
`ReachableNext`: a Client that becomes reachable has an empty queue.
`MessagesAreKept` joins two views of a step: a message leaves the queue of a
reachable Client only by being written or after an abort (`StaysOrIsWritten`),
and a pending response whose Client has messages queued stays pending, is
aborted, or writes them (`ResponseWaitsOn`).

The last four rest on `OneTransport`: without overlap a pending response is the
only one, no socket is open beside it, its Client still writes to it, and no
other Client is registered. `StaysRegistered` needs no more than that. At most
once needs what becomes of a Client whose poll is over: `Spent` says that it
neither is registered nor has a response, a state it never leaves, and
`QueuedOnce` that a message in the queue of a Client that is not spent has not
been written. So the copy that a timeout leaves behind is found only in spent
Clients. The refinement then takes one step of `PeerSession` after the other:
a delivery is `Accept` or `Refuse`, what writes the queue of the pending
response is `Reply`, what ends it otherwise is `GiveUp`, and everything else is
a stutter; since with `OneTransport` the response that `Waiting` chooses is *the*
pending one, each case compares two queues by name. `MessagesInOrder` follows
from the refinement and `Ordered`, an invariant of `Mailbox`: what waits is newer
than what was written.

`PeerDirectoryProofs`, for every set of workers, whichever fail, however many
commands each has under way:

| Theorem | Statement |
|---|---|
| `DirectoryInvariant` | `Spec => []DirectoryInv` |
| `DirectoryTypes` | `Spec => []TypeOK` |
| `LastWriteIsTrue` | `Spec => []LastWriteTells` |
| `DirectoryIsRight` | `Spec => []DirectoryAgrees` |
| `EntryIsNeverFalse` | `Spec => []NoFalseEntry` |

`DirectoryAgrees` speaks only of states without writes under way, so it says
nothing of the states before. `DirectoryInv` adds what holds there:
`LastWriteTells` (unless a write was lost, the last write a worker has under
way is SET exactly if the worker has the peer), `OneInvolved` (without overlap
at most one worker has the peer or writes about it) and `RegisteredHasKey`
(without overlap a worker that has the peer and no write under way has the
key). The assumption is `DirectoryAssumption`, on the constants.

`RemoteQueueProofs`, for every finite set of senders, every bound of the list,
batch size and quota (`QueueAssumption`):

| Theorem | Statement |
|---|---|
| `QueueTypes` | `Spec => []TypeOK` |
| `TheListIsTrimmed` | `Spec => []OverflowIsTrimmed` |
| `NoBatchIsEmpty` | `Spec => []NoEmptyBatch` |
| `OnlyCheckedAreOvertaken` | `Spec => []OvertakenOnlyIfChecked` |
| `QueueIsLossyChannel` | `Spec /\ [][\A s \in Senders : ~Rerun(s)]_vars => ImplementsChannel` |

`OverflowIsTrimmed` is inductive with the types: a push that reaches the bound
leaves its reply, the reply leaves a trim in the same sender's pipe, and the
pipes and replies of the others only matter in that they stay.

`OvertakenOnlyIfChecked` speaks of messages that were delivered, and what makes it
true is where the others are. `OrderKept` puts the places of one sender's
messages into the order in which they are passed: delivered, in the list, in a
push under way, in a reply to a length check, in a length check under way, in
the sender's own queue. While no command has failed, a message in an earlier place
is older than one in a later place, unless the older one waited for a length check and the younger one did
not (`MayLead`; the two places around a length check hold only messages that
did). After a failure or a repetition nothing is claimed. Each step takes messages from one place to the next, or drops them. That
Redis runs a sender's commands in order and that their replies are handled in
order is what keeps places apart: only a length check lets a batch wait for its
reply while later batches are pushed.

For the refinement, `WellFormed` types what is under way more narrowly: commands, replies and
batches that carry messages carry one or more, all different. `EachOnce` says
where a message is: in the queue, a command, a reply, a batch, delivered or
given up (`InOnePlace`), and in one command, reply or batch only
(`InOneBatch`). Every step but the repetition of a push moves messages from one
of these places to another or drops them. Then a batch that the receiver takes
holds only messages in transit, which is a `Deliver` of `LossyChannel`, and what
a refused check, a failed push, a trim or a clear gives up was not delivered,
which is a `Lose`. A push that runs twice breaks this (a message is delivered
twice), so the theorem excludes it, as the run does by `MaxFailures = 0`; other
failing commands are included.

`FingerprintProofs`, for all byte sequences and every buffer whose number of
values is a multiple of 2^13, so also 2^32 (`FingerprintAssumption`):

| Theorem | Statement |
|---|---|
| `CodecInvariant` | `Spec => []CodecInv` |
| `CodecTypes` | `Spec => []TypeOK` |
| `TextIsBase64` | `Spec => []EncodesBase64` |
| `FingerprintIsRestored` | `Spec => []FingerprintSurvives` |

`CodecInv` says of each loop how many bits were read and written, that the
`bitCount` bits at the right of the buffer are the last ones read (`BitsOfBytes`,
`BitsOfText`, one line for each count that occurs), and that what was written
so far is right. The arithmetic (a shift that wraps keeps 13 bits, a byte is
put together from the parts of two characters) is in lemmas of its own.

`CompactRelayProofs`, for every set of signals that `SignalsAssumption` allows,
with descriptions of any length and any content of their lines, candidates of any
pieces, and any sets for `Pieces`, `Lookalikes`, `CapitalNames` and
`VersionsEndingIn2` with the assumptions stated:

| Theorem | Statement |
|---|---|
| `EssentialsSurvive` | `Spec => []EssentialsArrive` |
| `RegularArrives` | `Spec => []RegularArrivesIntact` |
| `CompactAgain` | `Spec => []CompactAgainIsSame` |

`RelayInv`, the invariant, only says of what is on its way that it is the code of
the signal or the signal itself, and of what is received that it was made of
that. The work is in the functions of both ends, and the proof goes from words to
signals:

* *Loops.* `CountUp` is induction over the natural numbers for one set, by the
  least counterexample; `LoopEnds` derives from it that a loop with n rounds has
  its n states, and `LoopBackEnds` the same for `ReplacePhrases`, which computes
  from the end and skips the pieces of each phrase it finds. `FlattenSeq` is such
  a loop, too (`FlatteningIs`), so it joins what is made of the parts
  (`FlattenConcat`); the decoder of candidates and `compactSDPStr` are described
  by it.
* *Words.* The dictionaries are finite and their entries are compared one with
  another: no two keys share a code and no key has two (`NoClashes`), so
  decoding undoes encoding for keys and for every word that is not itself a code
  (`DecodeEncode`). Of protocols, `udp` and `UDP` share a code: they come back in
  capitals.
* *Candidates.* What `ReplacePhrases` writes contains no phrase but those it left
  because they are in pieces of others, and none arises where a code meets its
  neighbours (`NothingNew`); so the restored text is replaced to the same codes
  (`ReplacedAgain`), and a code that is a word of its own is decoded to the
  phrase it replaced (`PhrasesComeBack`). These are inductions on the length of
  the text (`TextInduction`), with a case for a phrase and one for a single piece at
  its start. With the four words before the address, and the address itself,
  that is `CandidateComesBack`: the restored candidate (`Worn`) has the same code
  again. `RegularComesBack` says that a regular candidate is restored up to
  case. `OnlyRegularComeBack` says the converse, that only a regular one is like
  any that is restored: a restored candidate is restored to itself, and one that
  is restored to itself is regular (`WornRegular`).
* *Lines.* `LineComesBack` puts this together for one line: it keeps its field
  and its attribute, its words become `BackWords`, and it has the same code
  again. `LineSame` says when the result is the same up to case: exactly if the
  line is usual (`LineIsUsual`: its origin, its media or its candidate), and no
  line that is not usual is like any that comes back.
* *Texts.* `compactSDPStr` joins what it writes for each line (`CompactIs`), it
  keeps every media line and puts the origin first (`CodesAre`). A round of
  the other loop, `Restore`, adds its line and what it makes up of a section,
  wherever it inserts them (`RestoreAdds`). So the restored text consists of the
  usual lines and the lines that were kept (`RestoredLines`), and its codes are
  the codes it was made of (`RestoredAgain`).
* *Signals.* Lines about the session cannot be mistaken for others
  (`ComparableSplit`), so two descriptions are the same exactly if both parts
  are, which is what `Regular` says of them (`DescriptionRestored`). For
  `EssentialsSurvive` it is enough that usual lines are not essential and that
  the words of essential ones come back as they were.

The provers do not know that a string literal is in STRING; the set of words
that the lemmas speak of (`Texts`) therefore names the literals of `dict.js`.
Numbers as texts (`ToString`) need no property: both sides write them.

`NodeRegistryProofs`, for any number of Nodes, commands under way, steps of the
interval, and two or more tolerated misses (`RegistryAssumption`; with a single
one a Node could give up with a filled queue):

| Theorem | Statement |
|---|---|
| `RegistryInvariant` | `Spec => []RegistryInv` |
| `RegistryTypes` | `Spec => []TypeOK` |
| `MappedNodesBeat` | `Spec => []MappedIsLive` |
| `OrphansComeFromOverlap` | `Spec => []OrphansNeedOverlap` |
| `RaisedIntervalsAreWatched` | `Spec => []RaisedIsWatched` |
| `DestroyedNodesAreQuiet` | `Spec => []DestroyedIsQuiet` |

The first half of `RegistryInv` concerns the map: without overlap at most one
lookup is under way, and only while the address is not mapped (`OneGet`). The
second half, `Orderly`, holds of each Node while heartbeats are answered in
time, and is the reason that it gives up quietly: misses are counted while it
takes no messages (`MissedIsDead`), so what was queued before the first miss is
sent before the last heartbeat is (`MissedIsUnfilled`, `LastBeatIsLast`) and
answered before that one is (`GivenUpIsEmpty`). That commands are answered in
order is essential, so the lemmas speak of what follows what in `pending`
(`Follows`): a step removes at most the first command and adds at most one at
the end.

`SignalRoutingProofs`, for any number of arrays of any length
(`RoutingAssumption`):

| Theorem | Statement |
|---|---|
| `RoutingInvariant` | `Spec => []RoutingInv` |
| `RoutingTypes` | `Spec => []TypeOK` |
| `SteadyArraysAreDelivered` | `Spec => []SteadyIsDelivered` |

`RoutingInv` adds to the types that an array under way has items left and that
a steady array knows the truth (`Knows`): the directory is settled, `local` is
right, and only an array with a remote target waits for a lookup. The
handlers of other arrays matter only through the cache and the Node, and keep
both settled.

`SupervisorProofs`, for every finite set of workers and any number of faults
(`SupervisorAssumption`):

| Theorem | Statement |
|---|---|
| `SupervisorInvariant` | `Spec => []SupervisorInv` |
| `SupervisorTypes` | `Spec => []TypeOK` |
| `NoWorkerIsLost` | `Spec => []WorkersConserved` |
| `ResponsiveWorkersAreSpared` | `Spec => ResponsiveIsSpared` |

`SupervisorInv` adds that a ping timer runs only for a process whose exit was
not seen (`TimedIsCounted`), and that a ping which counts as missed, or its
answer, is still on its way (`MissedIsUnderWay`): so the timer of a worker that
reads and answers in time finds the count at zero.

Only model-checked:

* All liveness: `PollAnswered`, `QueuedIsWritten`, `EveryMessageSettles`,
  `CachesConverge`, `GoneIsForgotten`, `DeadIsForgotten`, `ReturnsAlive`,
  `EventuallyDelivered`, `AllUpAgain`. The proof system does not reason about
  fairness and ENABLED.

That a peer opens one transport at a time, the hypothesis of `StaysRegistered` and
the theorems after it, cannot be checked here: the peer's program is not in the
repository.

The library's induction theorems take an operator as parameter, which these
provers cannot instantiate; where induction is needed, it is over a set
(`CountUp`, `CountDown`). No module here uses RECURSIVE operators.

## Not modelled

* Configuration, logging and the statistics endpoints change nothing. The CPU
  guard's uses are commented out, and `Aggregator.configure`, `Nodes.clear` and
  `Hub.clearAll` have no caller.
* Admission (rate limit, token, origin): a refused request changes nothing, and
  the refused socket is in `PeerSession`. The token bucket and the protobuf
  encoding are external packages, as are TLS and permessage-deflate.
* Of the modelled parts: the text of HTTP responses; the layout of lines in
  descriptions; backpressure of a socket beyond the outcomes of `send`; a
  consume loop that dies of an exception other than an empty batch; the compact
  flag in directory values; who is told of an undeliverable signal; the
  connection counts in pings and pongs; a ping on a channel that has just
  closed; cluster resharding in Redis.

## Plan

Every invariant and every action property that a run checks is proved. What is
left is worth less than what is done: the notices of `_handlePeerNotFound` over
several targets, and an exception in the consume loop.
