# A TLA+ model of codex-remote-control

CRC lets a phone drive a coding agent that runs on a developer's machine. The
machine runs a *bridge*, which spawns the agent; the phone runs the *mobile app*;
both connect to a *relay*, which pairs them by a session code and passes on their
encrypted messages. This directory holds TLA+ modules that model the parts with
state and concurrency, TLC configurations that check them on small instances, and
TLAPS proofs of the safety properties for every value of the constants. Paths are
relative to the repository; `relay-session.ts` and the like are named without
their directory where that is clear.

    tlc -workers 2 -config MCRelay.cfg Relay.tla        # one run; see "Runs"
    tlapm RelayProofs.tla                               # one proof module

## 1. The system

    mobile app                      relay                       bridge
    session store                   server.ts                   start.ts
    RelaySessionManager  <--ws-->   ClientRegistry    <--ws-->  RelayClient
    SecureWebSocketClient           MessageForwarder            MessageRouter
    SecureStore                     HeartbeatMonitor            CodexAdapter <--ws--> codex app-server

Everything is single-threaded JavaScript: a handler, or the stretch of an async
function between two awaits, is never interrupted. What interleaves is the
handlers of different sockets, the timers, the moment a WebSocket's `readyState`
leaves OPEN and the later moment its close event is emitted, functions that wait
in an await, and key derivations that run on a thread pool.

### Components, their state, and what makes them correct

| component | state | operations and events | correct when |
|---|---|---|---|
| Relay server (`packages/relay/src`) | sessions with a bridge and a client slot, two WeakMaps from sockets to sessions, last activity | connect, message, close event, monitor's interval, shutdown | both views of who holds a slot agree; a slot is its holder's until that socket closes; only partners hear each other; idle sessions go; shutdown ends |
| Bridge relay client (`relay-client.ts`) | the socket, its state, heartbeat and reconnect timers, attempts, outbound buffer | connect, disconnect, send, open, message, close, timers | one connection; messages keep their order across connections; the heartbeat follows the connection; a lost connection is retried |
| Agent adapter (`codex-adapter.ts`) | status, child process, socket, map of pending requests with timeouts | start, stop, sendRequest, response, close, exit, timeouts | each request settles once and with its own answer; start() and stop() settle; nothing is left alive |
| Message router (`message-router.ts`, `start.ts`) | keys, paired flag, subscriptions | start, stop, completePairing, relay message, agent response and event | each request of the phone gets one reply; keys on the wire only move forward |
| Mobile session (`relay-session.ts`, `websocket-client.ts`, `stores/session.ts`, `_layout.tsx`) | attached client, snapshot, store's status, stored snapshot, calls that wait | pair, restore, disconnect, connection events, relay messages, kill and relaunch | the status shown is true; one connection; a forgotten session is not restored; launch and pair() get to an end |
| Pairing handshake (app, relay, bridge) | which pairing's keys each side has | pair(), pair.confirm, completePairing() | the bridge hears of pairings in order; both sides end with the keys of one pairing |
| Git operations (`git/operations.ts`) | none of its own; the repository it runs git on | status in three commands; add, commit, push, pull, reset, stash, branches | what status reports is what git said, of one moment or of several |
| Workspace scanner (`workspace/scanner.ts`) | none | detectWorkspace, findGitRoot, extractGitHubSlug | the innermost repository around the directory, and its origin |
| Cryptography (`shared/src/crypto`, `crypto-client.ts`) | key pairs, directional keys of each side | generate, derive, seal, open | what one side seals opens on the other with the keys of one exchange, and with no others |
| Thread storage (`storage.ts`, `database.ts`) | one database connection, its tables, its transaction | save, load, archive, delete, one or many at once | saved messages stay; no message without its thread; a transaction is its caller's |
| Thread screen and conversation store (`thread/[id].tsx`, `conversation.ts`) | messages, streaming flag, active turn, timers | send, answer, interrupt | one turn streams at a time; each message has its answer |
| Pair and connect screens, hook, parser (`pair.tsx`, `connect.tsx`, `usePairing.ts`, `pairing.ts`) | form state, the last code scanned, calls of pair() | scan, press, edit, rescan, leave | one pair() under way at a time, and shown |
| Protocol types, guards, utilities | none | pure | (used as given) |
| Other screens and components; the CLI's pair and status | presentation | | |

### Interactions

* App and bridge each hold one WebSocket to the relay. The relay pairs them by
  code and role, tells both `pair.ready`, tells the one that stays `disconnect`.
* `pair.confirm` goes from the app through the relay to `RelayClient`, which emits
  it; `start.ts` calls `completePairing()`, which awaits a derivation and stores the
  keys. The app stores its own keys before it sends.
* An encrypted request goes to `MessageRouter`, which puts it to `CodexAdapter`; the
  promise's callback encrypts the response, with the keys of that moment, and gives
  it to `RelayClient`, which writes or buffers it.
* `stop()` unsubscribes, disconnects the relay client, then waits for the agent.
* The pair screen calls `RelaySessionManager.pair()`; the session code of the QR
  code is the salt of both sides' keys. `crc start` takes the code from `--session`
  or makes one, and prints the workspace it detects.
* The bridge's git wrappers, the app's database and the thread screen are finished
  but not wired to the rest: nothing but tests and the screen itself calls them.

### What is hard here

Close events that come after the owner has moved on; rejected connections that
were open for a moment; timers that race the event they wait for; calls that wait
on a client that is taken away; a buffer that outlives its connection; keys that
change between a request and its reply; a phone that is killed between two steps;
calls that share one database connection, and so one transaction; three commands
read as one status; a timer that outlives the turn it belongs to; handlers that see
the state of the last drawing.
`PROJECT.json` lists each such hazard at its line with the properties aimed at it.

## 2. Modules

| module | models | composed from |
|---|---|---|
| `Rendezvous` | abstract: what the relay promises its parties | |
| `Relay` | the whole server: registry, forwarder, monitor, shutdown | implements `Rendezvous` |
| `RelayHeartbeat` | `Relay` with a history variable: who was heard | EXTENDS `Relay` |
| `OutboundQueue` | abstract: what a relay client promises its caller | |
| `RelayClient` | the bridge's `RelayClient` class | implements `OutboundQueue` |
| `AgentRequests` | abstract: what an adapter promises its caller | |
| `CodexAdapter`, `MCCodexAdapter` | the adapter, its process and its socket | implements `AgentRequests` |
| `MessageRouter` | the bridge as `crc start` runs it | uses `OutboundQueue` and `AgentRequests` |
| `MobileSession` | the app's session | |
| `Pairing` | app, one session of the relay, bridge | EXTENDS `MobileSession` |
| `SessionCrypto` | the keys of bridge and app, the session code, sealing and opening | |
| `GitOperations` | `gitStatus()` and its parser, the wrappers that change the repository | |
| `Workspace` | the workspace scanner | |
| `ThreadStorage` | the app's database | |
| `ThreadScreen` | the thread screen with the conversation store | |
| `PairScreen` | the screens that start a pairing | |
| `MCLocal` | an instance of the last six, for one run | EXTENDS them |
| `PhoneProofs` | theorems about `ThreadScreen`, `ThreadStorage`, `PairScreen` | EXTENDS them and `TLAPS` |
| `BridgeToolsProofs` | theorems about `GitOperations` and `Workspace` | EXTENDS them and `TLAPS` |
| `PairingProofs` | theorems about `MobileSession`, then about `Pairing` | EXTENDS `Pairing` and `TLAPS` |
| other `*Proofs` | theorems about the module of that name | EXTEND it and `TLAPS` |

The detailed modules of the bridge's two ends are related to `MessageRouter`
through the abstract ones: `RelayClient` and `CodexAdapter` are checked *and*
proved to implement `OutboundQueue` and `AgentRequests`; `MessageRouter` moves
by the actions of these, and is proved to take no other steps of theirs. Definitions carry the names of the code; `PROJECT.json`
maps each to its lines. Definitions introduced by "Mutant:" are slips that a
property must notice; no specification uses them.

The last six parts share no state with each other or with the rest. `MCLocal` runs
them together all the same: its variable `part` is chosen at the start, and in a
behaviour only that part moves. So every behaviour of the run is one of a single
part's specification, and each property is about one part.

### State and actions against the code

**Relay.** One action per handler: `ConnectInvalid`/`ConnectRejected`/
`ConnectAccepted` are the three ends of `wss.on("connection")`,
`Message...` the branches of `handleMessage`, `CloseEvent` the close handler with
`removeSocket`, `Cleanup` the interval callback, `Shutdown` the signal handler.
`occupant` is the two fields of a `SessionPair`, `sessionBy` the two WeakMaps.
Sockets without handlers (the rejected ones) close without the registry hearing of
it: `CloseUnheard`. Peers connect with any code and role, send anything, vanish, or
fall silent. Rate limits and the health endpoint do not exist or hold no state.

**RelayClient.** Handlers act on the client's fields whichever socket they were set
on, so `ready` covers *every* connection that still has events to come, not only
`ws`. Messages are numbers in order of `send()`. The backoff exponent is counted to
3, from where the delay is constant.

**CodexAdapter.** `start` is the position of `start()`, `proc` the child process,
`process` whether the adapter still refers to it; `pending` is the map by id, so an
id used twice overwrites. `outcome` and `answer` are histories of how each promise
was settled. What follows an await on a promise runs in the step that settles it.

**MessageRouter.** `sent` is everything given to `RelayClient.send`, with the keys it
was encrypted with; `written` and `waiting` are `OutboundQueue`'s. `link` includes
"reviving": a `pair.confirm` heard while the client closes makes it reconnect after
`disconnect()` (finding 3), so the router's model does not assume that away. At the
end of `stop()` the process exits before the rejected requests' callbacks run: their
chain of promises is longer than that of `stop()`.

**MobileSession.** `pair()` and `reconnect()` run in one step up to
`waitForConnected()`, which listens to the client of that moment (`waiter`);
`attachClient()` removes the old client's handlers, so a replaced connection has no
more events for the app. SecureStore operations end in the order they were begun,
and each may be rejected; `Failures` says which kinds may. `Stored` and
`StorageRejected` are the two ends of a write or a delete, with what follows the await:
a rejected write makes `pair()` fail after its `pair.confirm`, a rejected delete ends
`disconnect()` before it resets the store, and nothing catches that
(`settings/index.tsx:81`). At launch `LoadRejected` is a load that fails and
`LoadUnreadable` a value that does not parse, whose deletion the launch waits for
("clearing"). `refused` is history: there is no session in memory because the launch's
load was rejected, or while the delete that ended last was.
`Relaunch` is the app killed at any point and started again: all memory goes,
`persisted` stays. Messages of the relay come at any time on an open connection.

**Pairing.** The app's actions are those of `MobileSession`, each with what it means
for the relay: `RelayAccepts` gives the slot or rejects, `RelayHears` passes a
`pair.confirm` on or drops it, `RelayCloses` frees the slot. Keys are named by the
attempt they come from. `confirms` and `heard` are histories.

**SessionCrypto.** `bridgeKey` and `bridgeKeys` are `MessageRouter`'s exchange key and
`directionalKeys`, `phone` is the app's snapshot. A ciphertext is the sequence of the
text's bytes, each masked with the key, and 16 tag bytes that name key and text; the
bridge's cipher gives the tag apart and the app's at the end, as the libraries do,
and both sides cut and join as the code does. `X25519`, `HKDF` and GCM are what the
code relies on: one secret from either side, one result for one secret and salt,
nothing opens with another key. A session code has its letters' case and blanks
around it, which `--session` may have and the app's parser removes. Bridges are
started again and phones pair again with old QR codes; `exchange` in a side's keys
is history. `completePairing()` is one step here: its await is `MessageRouter`'s.

**GitOperations.** `head`, `counts` and `files` are what git would say: the branch, the
commits ahead and behind, the two status columns of each path. `step` is the command
`gitStatus()` waits for. Lines and paths are sequences of characters, because the
parser cuts them by columns (a character is any value; `Space` stands for the blank).
`Among` is the loop that pushes what it chooses. What a wrapper makes of the repository is git's: it may
change anything that its command can change.

**Workspace.** Directories are sequences of names, `dotGit` says what `.git` is in each
(a directory, a file in a worktree, or nothing) and `config` holds the URLs of a
`.git/config` with the sections they are in. The regular expressions tell of a URL
whether a colon or a slash stands before its host, whether the host is github.com or
only ends so, and the parts the dots divide the name into; those are its fields.

**ThreadStorage.** `phase` is where a call waits: in `getDatabase()` for the connection
or the schema script, before a statement, in its transaction, or before a rollback.
A step is one statement. That foreign keys are off until the script's PRAGMA, that
INSERT OR REPLACE deletes first, and that `withTransactionAsync` is BEGIN, the task
and COMMIT or ROLLBACK on the one shared connection is how SQLite and expo-sqlite
behave. `Fails` is any statement that is rejected, `RelaunchStorage` the app killed
and launched again: an open transaction is undone, `foreignKeys` off again.

**ThreadScreen.** `clock` is `Date.now()`, which names messages, answers and turns.
Timers fire in the order they were set, at their time or later. Screens of all
threads share the store; neither Stop nor leaving a screen clears a timer. The turn a
message belongs to, and the set of turns that Stop ended (`stopped`), are histories.

**PairScreen.** `shown` is the state the handlers closed over when the screen was last
drawn. Presses and the keyboard draw at once; the camera reports codes before that
too. `calls` are calls of `pair()` this screen made, `oldCalls` those of a screen that
was left, which end on the main screen all the same.

## 3. Runs

| run | module, cfg | checks | bounds |
|---|---|---|---|
| `relay` | `Relay`, `MCRelay` | `RegistryConsistent`, `NoOrphans`, `SlotsAreHeldUntilClosed`, `OnlyPartnersAreHeard`, `KeepsPromise`, `SilentSessionsExpire`, `ShutdownCompletes` | 3 sockets, 2 codes, idle limit 1 |
| `relay_silent` | `RelayHeartbeat`, `MCRelayHeartbeat` | violation of `SilentPartyIsDropped` | 2 sockets, 1 code, idle limit 2 |
| `client` | `RelayClient`, `MCRelayClient` | `OneConnectionAtATime`, `HeartbeatFollowsConnection`, `BackoffNeverGrows`, `KeepsOrder`, `LostConnectionIsRetried` | 3 connections (reused), 2 messages, connect() at any time |
| `client_retry` | `RelayClient`, `MCRelayClientRetry` | violation of `KeepsReconnecting` | 2 connections |
| `client_stopped` | `RelayClient`, `MCRelayClientStopped` | violation of `StaysDisconnected` | 2 connections |
| `adapter` | `MCCodexAdapter`, `MCCodexAdapter` | `PendingIsWaiting`, `OwnAnswers`, `SettlesOnce`, `NothingPendsAfterTheEnd`, `EveryRequestSettles`, `StartSettles`, `StopIsFinal` | 3 requests, two under one id; 2 calls of stop() |
| `adapter_stop` | `MCCodexAdapter`, `MCCodexAdapterStop` | violation of `StopWaitsForExit` | 1 call of stop() |
| `mobile` | `MobileSession`, `MCMobileSession` | `ConnectedIsOpen`, `OneConnection`, `ForgottenIsForgotten`, `LaunchCompletes`, `PairSettles` | 2 calls of pair(), 3 connections, 2 storage operations at once, each of which SecureStore may reject |
| `pairing` | `Pairing`, `MCPairing` | `BridgeHearsInOrder`, `ConfirmTakesEffect`, `AgreeOnceHeard` | 2 calls of pair(), 2 connections (reused), 1 storage operation at once |
| `pairing_confirm` | `Pairing`, `MCPairingConfirm` | violation of `KeysAgree` | the same, the bridge always there |
| `router` | `MessageRouter`, `MCMessageRouter` | `OneReplyEach`, `KeysOnlyMoveOn`, `RequestsAreAnswered` | 2 pairings, 2 requests, 1 notification |
| `local`, part screen | `MCLocal`, `MCLocal` | `OneTurnAtATime`, `RepeatedIds`, `EveryMessageAnswered` | 2 threads, 3 messages, answers after 2 of 7 ticks |
| `local`, part storage | | `MessagesHaveThreads`, `TransactionsAreOwn`, `SavedMessagesStay` | 2 threads, 1 message, 2 calls at once |
| `local`, part git | | `StatusReadsGit` | 2 files, 5 status codes, 2 branches, ahead or behind by 1 |
| `local`, part workspace | | `DetectsWorkspace` | 2 names, paths of length 2, 7 contents of `.git/config` |
| `local`, part pair | | `OneSubmissionAtATime` | 3 texts, one of them refused, 3 calls of pair() |
| `local`, part crypto | | `SealedMessagesOpen` | 4 key pairs, 1 code in any spelling, an empty and another text, 1 message under way |

The type invariants are not among the properties of the runs: they are theorems.
So are `NothingWaitsOnOpen` of `RelayClient` (without it `KeepsOrder` fails),
`TransactionsEnd` of `ThreadStorage` and `StoredInOrder` of `Pairing`, and what
follows from an abstract specification: `WrittenInOrder`, `SettledIsFinal`.

`KeysAgree` is refuted, so `AgreeOnceHeard` says what is left of it. It is an
implication between two temporal formulas: as long as no two derivations of the bridge
overlap, whoever holds the session that was announced last agrees with a bridge that
has heard of it. The premise is about the thread pool (`message-router.ts:145`); run
`pairing` has behaviours with and without it.

Why the bounds are enough for the question: in the relay a slot conflict needs a
holder and a newcomer and a partner to hear them, and a code used again needs a
second session beside it: three sockets and two codes. In the client, the next
connection and the last one's late close event are two; restarting adds a third, and
of two messages one may be in the buffer while the other comes.
One pair of requests under one id and one beside it covers the adapter's map. In
the app, one call takes the client away from another: two calls; a third
connection is on its way out while two are fought over. Pairing reuses a closed
connection, so two suffice for a rejected newcomer; SecureStore rejects nothing there,
since what a rejection leaves on disk a kill before the operation's end leaves there
too; `mobile` has the rejections, and the theorems about `Pairing` allow any. In the
router the second pairing
replaces keys that a request, and a message in the buffer, were encrypted with.
On the thread screen, one message is interrupted, a second meets the timer left
behind, a third its result; seven ticks give an answer, the millisecond after it and
another turn. Two calls of the database are a transaction and what runs into it; two
threads tell the one that is saved from the one that must keep its message. Of two
files, the first line of git's output is trimmed and the second is not. Two levels
give a repository inside another and one beside. On the pair screen a code, a second
one before the next drawing, and a call left behind are three. Four key pairs are two
bridges and two phones: every mixture of an old and a new one. Connections may be
lost and made again without bound in all models. The safety properties are proved
without the bounds wherever a theorem is listed below.

Deadlock is not checked where the system really stops: a relay that was shut down,
an adapter that was stopped, a client that was disconnected, a bridge that exited,
an app whose calls are all used up, a part of `MCLocal` whose bounds are reached.

### Fairness

Node's timers fire, and a close event follows the end of a connection (`ws`
destroys a connection 30 s after `close()`); storage operations succeed or are rejected,
and derivations end;
what has arrived is handled. Nothing else is assumed: peers may fall silent, a
handshake may fail or succeed (that it ends is assumed for `RelayClient` alone), the
agent need not answer nor heed SIGTERM, the phone need not pair. In
`MessageRouter`, that what the agent was asked is settled is fairness of `Settled`,
which `EveryRequestSettles` of run `adapter` justifies. The parts of `MCLocal` have no
fairness and no liveness property: their calls end with statements, commands and
timers that the model lets end or fail at any time.

## 4. Findings

1. `SilentPartyIsDropped` (`heartbeat.ts:47`): inactivity is per session, so a party
   that fell silent keeps its slot while the other sends; `config.ts:14` and
   `constants.ts:8` speak of missed heartbeats before disconnecting.
2. `KeepsReconnecting` (`relay-client.ts:114`): the close handler retries only from
   connected or paired, so the first retry that fails is the last, and the
   exponential backoff of the class comment (line 8) never grows past its base, as
   `BackoffNeverGrows` states and `ClientBackoff` proves.
3. `StaysDisconnected` (`relay-client.ts:182`): a `pair.confirm` that arrives between
   `disconnect()` and the close event makes the client reconnect.
4. `StopWaitsForExit` (`codex-adapter.ts:135`): `stop()` resolves together with
   SIGKILL, before the process has exited.
5. `KeysAgree` (`relay-session.ts:78`): `pair()` gives up after 5 s but leaves its
   client attached and the session marked as paired; when the connection opens
   later the app shows connected, and `pair.confirm` is never sent. A rejected
   connection, or a bridge that is away at that moment, end the same way.

The next are exceptions that a property of run `local` or `mobile` has to make in order
to hold; without the exception TLC violates it.

6. `StatusReadsGit` (`operations.ts:47`): `runGit()` trims the whole output, so if the
   first file listed is unchanged in the index, the blank of its first column goes,
   and it is reported as staged under a path without its first character.
7. `DetectsWorkspace` (`scanner.ts:53`): the first URL in `.git/config` is taken,
   whatever section it is in, where `scanner.ts:16` speaks of origin's.
8. `RepeatedIds` (`thread/[id].tsx:45`): an answer is named by the next millisecond, so
   a message sent just then has the same id; `conversation.ts:8` calls ids unique.
9. `SealedMessagesOpen` (`message-router.ts:86`): with a small letter in `--session` the
   relay lets both sides meet and both report an encrypted session, but they salted
   their keys differently and nothing ever opens.
10. `ConnectedIsOpen` and `ForgottenIsForgotten` (`relay-session.ts:137`): if SecureStore
    rejects the delete, `disconnect()` ends there: the client and the session are gone
    from memory, the settings screen still shows "connected", and the next launch
    restores the session that was to be forgotten. Both properties allow just that
    (`refused`), until a `pair()`, a launch or a `disconnect()` that succeeds.
11. `OneTurnAtATime` (`thread/[id].tsx:59`): Stop does not clear the timer of its turn.
    When it fires it ends whatever turn streams by then, which goes on unseen
    (`CutShort`); the property says that this takes an earlier turn that was stopped.
12. `DetectsWorkspace` (`scanner.ts:100`): a URL whose host only ends in github.com
    gives a slug of GitHub all the same.

## 5. Proofs

All theorems are for any sets of sockets, requests, calls and so on. Assumptions are
only those the modules state: that the null values are not members of the sets they
stand beside, that bounds are natural numbers, and, for `GitOperations`, what git
prints: two characters of status, of which neither is "?" unless both are, and paths
that are not empty.

* **RelayProofs.** `IInv` is `TypeOK`, `RegistryConsistent`, `NoOrphans` and the fact
  that an unused socket has no handlers. `RegistryConsistent` alone is not inductive:
  without `NewcomersAreUnknown` an accepted socket might hold a slot already. From
  `IInv` follow the action properties `SlotsAreHeldUntilClosed` and
  `OnlyPartnersAreHeard` and the refinement `KeepsPromise` (each step of the server
  is a step of `Rendezvous` or a stutter).
* **RelayClientProofs.** `KeepsOrder` needs only `TypeOK` and `NothingWaitsOnOpen`
  (else a message could overtake the buffer), which are inductive together
  (`ClientNothingWaits`). `ClientWritesInOrder` is carried over from the queue: its own
  steps keep the wire, and after it the buffer, in the order of the calls. The three properties of a client that is not restarted,
  which the history variable `restarted` tells, need `SingleConnection`: a connection
  that can open is the one in `ws`, a pending retry means none is left, and a retry
  under way keeps `state` out of the values from which a close schedules another.
* **CodexAdapterProofs.** `PendingIsWaiting` and `OwnAnswers` together are inductive
  over types, and give `SettlesOnce`, the refinement of `AgentRequests`: whatever is
  rejected with the map is waiting. `AdapterSettledIsFinal` is carried over from there:
  in `AgentRequests` an outcome that is settled never changes. The life properties need `Stages`, which says
  where `start()` and `stop()` may be at the same time.
* **PairingProofs.** Of the app by itself: `ClientInv` ties the attached connection to
  the events it still has and to the retry timer; `WaiterInv` says which call may
  listen to the attached client and where the launch is then; `StorageInv` says that
  once the session in memory is gone, the last storage operation under way is the
  deletion, or nothing is under way and either nothing is stored or SecureStore has
  refused. `ForgottenIsForgotten` is the case with nothing under way. `PairingIsMobileSession` carries these theorems over to the composition.
  There, `BridgeHearsInOrder` needs that the slot has one holder, that only the
  holder's `pair.confirm` is on its way, and that what was heard, what is in the relay
  and what is on the wire were sent in this order. `SentInv` (a call that listens to
  the client has not sent, one that has sent does not wait, and none sends twice) and
  `StoredInv` need each other: a storage operation settles its call, which must not be
  one that waits, and it is not because only calls that have sent are stored. From
  `SentInv` and the order, what was sent last and has been heard is what was heard
  last (`HeardLast`), and `LatestInv`, which is inductive under `OneDerivation`, says
  that the bridge has the keys of what it heard last or is deriving them: together
  `AgreeOnceHeard`.
* **MessageRouterProofs.** The invariant has the order of the wire and the buffer
  (`QueueOrder`), keys in use equal to those stored last (`KeysInv`), messages in the
  order of their keys (`SentInv`), and a request's keys stored before its reply's
  (`ByInv`), which also shows that a waiting request always finds keys to reply with.
  `RouterUsesQueue` and `RouterUsesAgent` show that the router with its history of
  messages and outcomes implements both abstract specifications at once.
* **PhoneProofs.** The thread screen: `RepeatedIds` needs that ids follow the clock
  (`IdsFollowTime`) and that, without Stop, messages of one role are made in
  different milliseconds (`MessagesApart`). `EveryMessageAnswered` and `OneTurnAtATime`
  rest on the order of turns: timers fire in it, so answers come in it (`TurnsInv`,
  `AnswersInv`), and a timer that outlives its turn's streaming is one that Stop left
  (`StoppedInv`: of a turn sent before) or one that such a timer cut short. The database: `TransactionsEnd` (an open
  transaction has a `saveThreads()` that will end it) gives `KeysAreOn` (unless a
  call came early, statements find foreign keys on), and `MessagesHaveThreads` needs
  that the rows a rollback restores have their threads too; `TransactionsAreOwn`
  needs that without overlap there is one such call (`OneSaver`); `SavedMessagesStay`
  that no call under way may lose what is kept (`KeptIsSafe`), so nothing is kept
  while a transaction is open. The pair screen: a screen that was left has no calls
  of its own (`OwnCalls`).
* **SessionCryptoProofs.** `QrInv`, `ConfirmInv`, `KeysInv` and `SealedInv` say of
  what is shown, under way, derived and sealed which two key pairs and which code it
  comes from; a bridge's key pair is never an app's. The lemmas show that both ways
  to seal give one payload and both ways to open one result (`SealAlike`,
  `OpenAlike`, over concatenations of any length), that only the key opens, and that
  two derivations agree just if secret and salt do.

* **BridgeToolsProofs.** What a loop computes. The prover has no induction over data,
  but it has the library's theorem that a set of natural numbers that is not empty has
  a least element, and that gives an induction over a *set* of numbers
  (`SetInduction`), one set for each loop. A recursive function is `CHOOSE`n, so each
  proof first exhibits a function that satisfies the equation (`AmongUnfolds`,
  `WalkFindsInnermost`). The walk upwards finds the directory that is *defined* as the
  longest prefix with a `.git`. For `gitStatus()`: a line cut at its fourth character
  is the path (`FromFourth`, `LineOfPath`); choosing lines by their columns and then
  cutting them is choosing paths by their codes (`AmongAlike`, `RestChosen`); the first
  line is as it should be or has lost its first column, and then it is always taken for
  staged, and never for anything else (`LinesRead`, `ListsRead`). `GitInv` says what
  `result` holds after each command, as long as nothing changed, and that a change
  after the listing is one after `gitStatus()` returned.

Only model-checked: every liveness property (fairness and ENABLED are beyond the
prover), which are `SilentSessionsExpire`, `ShutdownCompletes`,
`LostConnectionIsRetried`, `EveryRequestSettles`, `StartSettles`, `StopIsFinal`,
`LaunchCompletes`, `PairSettles`, `ConfirmTakesEffect` and `RequestsAreAnswered`; and
the violations. Every invariant and every other property of the runs is a theorem.

## 6. Not modelled

* **Cryptography**: signing, the JSON conveniences and `deserializeKeyPair()`, which
  only tests call; the algorithms themselves are the libraries'.
* **Shared protocol, types and utilities**: declarations, guards and formatting. The
  kinds of messages and the constants appear where they are used.
* **`stores/threads.ts`** and the conversation store's `setMessages`, `updateMessage`,
  `clearMessages` and `setPendingApproval`: setters that only tests call, so the source
  does not say in what order they come. `useRelayConnection` is used by no screen,
  `loadWorkspaceConfig()` by nothing, nor is the table `pending_operations`.
* **Git wrappers that only print** (diff, log, branch list, remote URL).
* **Other screens and components, `crc pair` and `crc status`**: they show what other
  parts keep.
* Of modelled parts: heartbeat messages as such (they are messages like others), log
  output, event emitters' other subscribers, the wording of errors, the agent's
  approval requests (they are notifications), and an app with two sessions at once
  (the manager is a singleton).

## 7. Plan

Done, in this order: relay; relay client; adapter; mobile session; pairing; message
router; the thread screen, the database, git, the workspace, the pair screen and the
keys. What is left:

1. A bridge composition with `CodexAdapter` itself in place of `AgentRequests`, for the
   overlap of signals, the agent's late death and the relay's revival.
2. The phone's side of encrypted requests, and the callers of the database and of the
   thread store, once a screen has them.
3. `Rendezvous` as the relay of `Pairing`. `Rendezvous` delivers in the step in which a
   message is sent; `Pairing` keeps a message on its way until the relay hears it, so
   either needs the other's view of the wire first.
4. Theorems: that what the bridge hears in `Pairing` is a behaviour of the
   confirmations in `MessageRouter`, so that the order of the keys on the wire is the
   order of the pairings.
