# Walkie-talkie in TLA+

`wt` is a daemon and a command line. Daemons on different machines exchange
messages over QUIC (iroh), each message kept in SQLite until it has been handed
to its peer. On one machine a daemon also runs *sessions*: harness processes
(coding agents) in workspaces of their own, fed and watched by a supervisor
task, that talk to a "prime" agent over a local message bus.

This directory models six state machines of that system: delivery between
daemons, the life of a session, the local bus, subscriptions to the inbox,
capability tokens, and the browser dashboard. TLC checks them on small
instances; TLAPS proves their safety properties for every size. Paths below are
relative to `src/`.

## The system

| component | state it keeps | operations | interacts with | correct if |
|---|---|---|---|---|
| outbox and delivery tasks (`crates/wt-daemon/src/state.rs`, `store.rs` of `wt-core`) | rows of `messages` with `direction = 0`; a waker and a task per peer; open streams | `Send`, `notify_peer`, `resume_delivery`, `drain_peer` and its retry timer | store, transport, IPC | nothing accepted is lost or altered by the daemon, every row is retried until written |
| inbound streams and inbox (`state.rs`, `services/msg.rs`, `framing.rs`) | rows with `direction = 1`; a reader and a consumer task per stream, a channel of 256 between them | `handle_connection`, `run_recv_loop`, `inbox_record`, broadcast | transport, store, subscribers | a message is shown at most once, as it was sent, in the order it was sent |
| sessions and supervisors (`ipc.rs`, `supervisor.rs`, `harness.rs`) | rows of `agents` and `sessions`; abort handles in `children`; a task and a process per child | `Spawn`, `AgentKill`, `SessionClose`, the supervisor loop, reconcile at startup | store, workspaces, bus, operating system | one child per name, a stopped child is gone, no child is listed that is not there |
| workspaces (`workspace.rs`) | a directory and a git branch per session | `provision`, `teardown` | git, file system | a failed spawn leaves nothing, a running child keeps its directory |
| agent bus (`ipc.rs`, `supervisor.rs`, `store.rs`) | rows of `agent_messages` with `consumed_at_ms`; a broadcast | `AgentSend`, `AgentRecv`, `drain_turn_inputs`, retention | supervisors, subscribers | each turn is fed once and in order, nothing unread is dropped |
| receive subscriptions (`ipc.rs`, `wt recv` and `wt chat` in `wt-cli`) | a subscription per `RecvSubscribe` | backlog, live tail, lag | inbox, broadcast | no gap and one duplicate at most at the seam of backlog and tail |
| tokens and peers (`auth.rs`, `store.rs`) | `peers`, `tokens` | add, remove, grant, import, revoke, verify | accept and dial | a revoked or expired token opens nothing |
| groups and agent tokens (`ipc.rs`, `auth.rs`) | `groups`, bearer hashes | `GroupNew`, look-ups | every agent request | only the prime spawns and kills |
| store (`store.rs`) | one SQLite connection on one thread | one statement or transaction per call | everything | a call is atomic |
| web gateway and dashboard (`web.rs`, `extension/app.js`) | the current group, a panel per session, one socket, timers | select a group, render, load, poll statuses, reply, reconnect | bus, store | a transcript is that of the group on the board, complete and without repetition |
| transport, mDNS, identity, paths, the rest of the CLI | sockets, files, nothing durable of their own | input and output | | |

Everything runs in one tokio runtime with several threads: each IPC request,
each inbound stream, each peer's delivery and each child is a task, and store
calls are queued to a thread of their own. So between any two awaits any other
task may run, and on another thread even where there is no await. The hard
behaviours are

* crashes between two effects: frame written / row marked; workspace made /
  agent registered; row inserted / task notified;
* a wake that arrives while a task is about to sleep;
* two streams of one peer and channel alive at once after a reconnect;
* requests for the same session name racing: spawn against spawn, spawn against
  kill;
* `abort()`, which only asks a task to end;
* the store, git, the network or the harness refusing at any step;
* every reader that combines a backlog from the table with a broadcast of bounded
  size (`AgentRecv`, `RecvSubscribe`, the supervisor, the dashboard);
* answers of the browser's fetches that arrive after the user has gone elsewhere;
* a token's issuer and subject with tables and clocks of their own.

`PROJECT.json` lists the main ones, each at its line, with the properties that would
catch it going wrong.

## Modules

| module | what it is |
|---|---|
| `Delivery` | outbox, delivery tasks, streams, inboxes; properties and inductive invariant |
| `Mailbox` | the abstract specification: messages are posted, taken once, shown once |
| `DeliveryRefinement` | the mapping under which `Delivery` implements `Mailbox` |
| `DeliveryProofs` | theorems about `Delivery`: types, durability, integrity, no silent loss |
| `DeliveryRefinementProofs` | theorems: shown at most once, and the refinement of `Mailbox` |
| `DeliveryOrderProofs` | theorems: wakes, order in a stream, first in, first out |
| `Lifecycle` | the life of one session name; properties and inductive invariant |
| `LifecycleProofs` | theorems about `Lifecycle` |
| `AgentBus` | the bus of one session with its supervisor, its readers and its writers |
| `AgentBusProofs` | theorems about `AgentBus` |
| `Subscription` | one `RecvSubscribe` connection, from the inbound streams to what is printed |
| `SubscriptionProofs` | theorems about `Subscription` |
| `Tokens` | peers and tokens of several installs, and the check when a stream opens; properties and inductive invariant |
| `TokensProofs` | theorems about `Tokens` |
| `Dashboard` | the client of `extension/app.js` against the web gateway |
| `DashboardProofs` | theorems about `Dashboard` |
| `MCDelivery`, `MCLifecycle`, `MCAgentBus`, `MCSubscription`, `MCTokens`, `MCDashboard` | symmetry sets, requests and terms for TLC |

The parts meet in tables whose calls are atomic in every module, and each module
keeps of its neighbours what can be seen through them: `Subscription` begins
where `Delivery`'s `RecordFrame` and `EmitFrame` end, `Tokens` is behind the
`registry`, `tokens` and `admitted` of `Delivery`, `AgentBus` runs inside
`Lifecycle`'s supervisor and keeps of its end `Kill` and `Restart`, and
`Dashboard` sees the bus as a log and a broadcast. They are not composed: the
product would only repeat interleavings that do not share a variable.

Definitions whose comment begins with "Mutant" are small wrong versions of the
one that follows. No specification uses them; `PROJECT.json` says which property
each of them breaks, which shows that the property depends on that piece of code.

### Delivery

State on the sender's disk: `outbox` (per channel, the rows in insertion order),
`registry` and `tokens` (whom it can dial). In its memory: `phase`, `backlog`
(where `resume_delivery` is), `handlers` (`Send` requests that have inserted their
row and not yet called `notify_peer`), `task` (per peer: the waker and its channel
of one, the place in `per_peer_delivery_task` and `drain_peer`, the batch read,
the stream held per channel). `net` is every stream with both ends: the
connection, frames buffered by the transport, the receiver's channel, and the
frame a consumer has recorded and not yet broadcast. At the receivers: `admitted`,
`inbox`, `emitted` (the broadcast so far). `lost` is a history variable: the
messages of frames the transport dropped.

An action is the code between two awaits that touch shared state: `Send` and
`NotifyPeer` are the two halves of the IPC handler, `FetchBatch`, `OpenStream`,
`WriteFrame`, `MarkDelivered` the steps of a drain, `TakeWake`, `RetryTimer`,
`SeeShutdown` the arms of its `select!`, `AcceptStream`, `ReadFrame`,
`RecordFrame`, `EmitFrame` those of an inbound stream. `Shutdown`,
`CloseTransport` and `Exit` are `run` after a signal, which is caught only once
`resume_delivery` has returned.

What is abstracted: a payload is the number of its `Send`, and a bit that says if
its frame is over `MAX_FRAME_BYTES`; a timestamp is an integer that the clock
moves by `ClockSteps`. The primary key, `MAX(id_seq) + 1` over all peers of a
channel, the `ORDER BY` with its ties, the `LIMIT` and `INSERT OR IGNORE` are
kept. A connection that is cut loses any suffix of what it carried; a write on it
succeeds or fails, because the sender may or may not have noticed.

### Lifecycle

One session name; different names share nothing but the map and the tables they
are keys of. On disk: the status of the `agents` row, status and mode of the
`sessions` row, who made the directory and the branch. In memory: where each
`Spawn` (`spawn`), `AgentKill` or `SessionClose` (`stop`) request is, `children`,
and per `Spawn` the supervisor it started (`sup`), whether that was aborted
(`cancel`), and its process (`harness`).

`SpawnBegin` to `RegisterChild` follow `spawn_session` and `supervisor::start`,
`UndoMark` and `UndoWorkspace` its error path; the check for a directory and its
creation are two actions, because requests run on several threads. A request that
ends in a store error ends in `failed`, which the code reaches without undoing
anything. Each step that touches the file system may fail: a directory that cannot
be made (`mkdir`), git that refuses (`git`), and a `git worktree add -b` that has
made the branch when its checkout fails (`checkout`); the last one is in all runs
but `lifecycle_cleanup`. `TurnComplete` to `Forget` are the supervisor, and `Reap`
the runtime dropping an aborted one: `cancel = "late"` is a task that another
thread was polling when it was aborted and that comes to its next await first.
`Shutdown` is one step: what tasks still do between the abort of the supervisors
and the end of the process cannot be told from what they do before it, and
`Restart` reconciles both alike.

Left out of `Lifecycle`: who may spawn and kill (the bearer-token check), and the
messages on the bus and idle notices, which are in `AgentBus`. `session_create` meeting an
existing row is left out because `FreshSession`, which is proved, says that it
does not happen.

### AgentBus

One session with its prime and its child. `rows` is `agent_messages`, by number;
`pub` holds the messages that `bus_enqueue` has stored and not yet broadcast,
which is where writers overtake each other, and where one may end: a supervisor
that `kill_child` aborts while it awaits inside `bus_enqueue` (`Sending`), or a
browser that hangs up (`HangUp`), has stored a row whose event nobody will send.
`unheard` remembers these. `sup` is the supervisor (its place, the turns it has
read and not yet fed, `turn_active`, `idle_notified`), `wake` whether its
subscription has anything, `rd` each `AgentRecv` connection with its backlog and
its bounded subscription. `fed`, `finished`, `reported` and `alive` are the
harness. `Launch`, `Record`, `Recorded` are `supervisor::start`; `Drain`, `Feed`,
`Mark`, `Running` are `drain_turn_inputs`; `Wake`, `Poll`, `AssistantText`,
`TurnComplete`, `Exited` the arms of `run`'s `select!`, `Idle` what follows a
poll, `Tell` and `Told` a message on the side whose failure is ignored;
`FinishStatus`, `FinishTell` and `Forget` are `finish`; `Subscribe` to
`Disconnect` a reader. A mark whose failure the code ignores is `TryMark`, and
`missed` remembers it.

Abstracted: of the kinds only `turn_input` is told apart, because only
`agent_msg_pending` looks at them; the order of a backlog is any, since it goes
by a wall clock; a turn is written to the harness in one step. The `LIMIT` of a
backlog is over all sessions of the group when a `recv` names none, so how many of
this session's rows fit in it is any number of `Rooms` (`Limited`), and `cut` are
the rows that did not.

The session is the only one, and its prime is not itself a child. A coordinator is
both: `agent_msg_pending` goes by the recipient alone, so turn inputs that workers
send it are fed to it together with its own prime's, in the order of numbers that
count different sessions. `FedInOrder` does not speak of that case.

### Subscription

One connection, because subscriptions change nothing that another one sees.
`arrived` is every message in the order of arrival with its sender's time stamp,
`inbox` those whose insert succeeded, `pub` those not yet broadcast. `Resolve`
keeps that a name which is not found means every peer; `Query` is
`inbox_backlog` with its `ORDER BY` (ties in any order) and its `LIMIT`; `conn`
is the socket, and `ReadRecv` and `ReadChat` the two commands that read it.

### Tokens

Each install has a table of peers, a table of tokens and a clock. A signature
cannot be forged and an id is drawn once, so `issued` (the signed texts) is all
that can be pasted; `TokenImport` may take any of it. `offers` are connections
under way, `admitted` those whose peer was known and whose `StreamOpen` is
awaited: the two checks of the receiver are two steps. `SaturatingAdd` and
`Signed` keep the width of expiry dates, with `Word` for 2^64. That an install
does not reach itself (`Connects`) is not a check of this code but iroh's, which
refuses to dial its own node; it is marked external. `Tick` keeps any
two clocks within the tolerance, without which the code promises nothing.

### Dashboard

`calls` are the asynchronous functions of the client that are under way; each
fetch is issued, answered by the server from the store (`ListSessions`,
`ListMessages`) and handled, in three steps. `panels` are the transcripts, `ws`
the socket with both ends, `timers` the reconnects that are due. Groups share
session names. `AppendMessage` is `appendMessage` and `AppendMessages` the loop of
`loadMessages` over an answer; an answer is given by the number of its last
message, because `SessionLog`, what retention leaves of a session at that moment,
depends on nothing else. `Abort` is a sender that ends between the insert and the
broadcast, as in `AgentBus`. `by`, `base`, `before` and `unheard` are there for
`LiveTailComplete` only.

## Runs

All bounds are constants named in the cfgs; deadlock is not checked because
requests and messages run out.

| run | result | what it shows |
|---|---|---|
| `delivery_faults` | holds | two messages, any two faults of seven kinds: `AtMostOnce`, `NoSilentLoss`, `OutboxDurable`, and `Delivery` implements `Mailbox` (`ImplementsMailbox`) |
| `delivery_peers` | holds | two peers on one channel: `Integrity` and the proof's `DeliveryInv` |
| `delivery_live` | holds | two messages of one millisecond, either perhaps too long for a frame, one fault of any kind: order within a stream (`StreamOrder`), no lost wake (`NoLostWake`), first in, first out end to end until something fails (`FifoSteady`); every row that can be written is (`Retried`), and arrives, is lost by the transport, or its peer is gone (`Settles`) |
| `lifecycle_requests` | holds | two spawns, two stops, both modes, any two faults: `OneHarness`, `FreshSession`, `Reachable`, and the proof's `LifecycleInv` |
| `lifecycle_cleanup` | holds | worktrees, failing git, directories and harness, crashes: `RolledBack`, `WorkspaceKept`, `NoGhost` |
| `lifecycle_live` | holds | one fault of any kind: a stop ends every child that had been reported as spawned |
| `kill_race` | violated | a kill during a spawn finds no handle and the child runs on |
| `bus` | holds | writers, a reader, the supervisor, a kill and one fault (a store call, a hang-up, a crash) on a bus of two rows, a backlog limit and a broadcast of one: consecutive numbers and exact retention (`Retention`), nothing consumed that nobody was given (`ConsumedWasDelivered`), turns fed once and in order (`FedInOrder`), no gap for readers but by lag, limit or a sender that was cut short (`SeamComplete`), no turn left lying (`NoStrandedTurn`), output before `awaiting_input` (`OutputFirst`) |
| `subscription` | holds | four command lines, three messages of two senders whose clocks disagree: `SeamComplete`, `OneDuplicate`, `Drained` |
| `chat` | violated | `wt chat` stops reading at the end of the (empty) backlog |
| `tokens` | holds | two installs, two tokens, clocks apart by the tolerance: a revocation is final (`RevocationSticks`, `RevokedStaysOut`), a refusal has a cause (`RefusedForCause`), and the proof's `TokensInv` |
| `dashboard` | holds | two groups, two overlapping calls, a poll, a failure or an aborted sender, a log of one message and a broadcast of one: `OwnTranscript`, `LiveTailComplete`, `Reconnects` |

Each violated run checks one sentence of the repository's documentation or
comments; `findings` in `PROJECT.json` quotes it. Smaller or rarer disagreements
have no run of their own; a change of one line of a cfg shows most of them.

Delivery:

* Order is lost across a reconnect: the consumer of the old stream may still
  empty its channel while the new stream's already records. `README.md:439` says
  that the order per sender and channel is preserved.
* A message whose insert fails at the receiver is shown, and shown again when it
  is retried (`"inbox"` in `delivery_faults` breaks `AtMostOnce`). `README.md:408`
  says that only the first observation is emitted.
* A row whose frame is over 16 MiB is accepted (the IPC takes 64 MiB), fails on
  every drain, and every later row for its peer waits behind it. `README.md:433`
  promises retries; `Retried` and `Settles` leave out what is not `Writable`.
* A clock set back between two sends reverses them, since the drain goes by
  `enqueued_at_ms` (`-1` in `ClockSteps` of `delivery_live` breaks `FifoSteady`).
* A scan that fails at startup is only logged, and the backlog of a peer waits for
  the next `Send` to it (`delivery_live` with two faults breaks `Retried`).

Sessions:

* Two spawns with `--new` for one name share the folder, and the rollback of the
  loser removes it (`"new"` in `lifecycle_cleanup` breaks `WorkspaceKept`), although
  `workspace.rs:3` speaks of an isolated workspace per session.
* A store error in `agent_register` or `session_create` returns without rolling the
  workspace back (`"store"` in `lifecycle_cleanup` breaks `RolledBack`).
* A `git worktree add -b` that fails after it has made the branch leaves it, and the
  name cannot be spawned again until somebody deletes it by hand; `ipc.rs:971` says
  "Rolls back" (`"checkout"` in `lifecycle_cleanup` breaks `RolledBack`).
* A child that ends before `register_child` leaves its handle in `children`.
* A daemon that dies between `provision` and `agent_register` leaves a workspace
  without a row, which no command removes and which blocks the name.
* A killed session's name cannot be spawned again, because its rows stay, although
  the repository's README says "re-spawn to restart".

Bus, subscriptions, tokens, dashboard:

* `bus_enqueue` inserts, awaits and only then broadcasts (`state.rs:471-475`).
  `kill_child` aborts a supervisor that may be at that await (`state.rs:502-514`),
  and a browser that hangs up takes its request with it. The insert is made by the
  store's thread all the same. A `wt recv -f` or a socket that was there all the
  time never gets the message, although nothing lagged; the supervisor finds it with
  its next poll, other readers when they start again. Dropping `unheard` from
  `SeamComplete` or `LiveTailComplete` shows it.
* The dashboard loads a transcript first and opens its socket afterwards
  (`app.js:183-184`), and a socket that is replaced after a loss loads nothing
  (`app.js:397`): a message stored after the load was read and published before the
  socket is there is not on the board until the group is chosen again. The comment
  at `app.js:375`, "The echoed message arrives over the WS and renders itself", does
  not hold for a reply sent in that time. Dropping `ws.before` from
  `LiveTailComplete` shows it.
* The backlog of `AgentRecv` ends at 10,000 rows (`ipc.rs:612`), oldest first, and
  a prime's default `recv` is over all its sessions, of which three full ones hold
  15,000. `-f` goes on with the live tail and never shows what was cut off
  (dropping `cut` from `SeamComplete` shows it).
* `store.rs:1052` says that the turn inputs of a child "share one `seq` space". Those
  of a coordinator do not: workers may send it `turn_input` in their own sessions
  (`ipc.rs:555`), and they are fed in the order of unrelated numbers. This is outside
  the model, see `AgentBus`.
* `README.md:886`: the idle watchdog is armed per turn. `turn_active` is one bit: of
  two turns fed together the second is not watched, because the end of the first
  clears it. And the poll that looks at it starts again with every line of output.
* `--since` compares the senders' time stamps with the reader's clock, and a name
  that is not in `peers` means every peer instead of none.
* The limit of a backlog keeps the oldest rows.
* `find_token_with_cap` says "newest" and takes the one that expires last, even if
  its issuer has revoked it; an older token that is still good is not tried. A
  lifetime of more than 2^63 seconds gives a token that is expired from the start.
* A look-up of a revocation that fails counts as not revoked, and a stream that is
  open when its token is revoked stays open.
* `refreshStatuses` may put the badges of one group on the panels of another.
* `web.rs:329` says that a client which lags polls `/messages` again. It does not.
* `selectGroup` does not look at `currentGroup` after its await: a slow click on one
  group takes the socket away from the group that was chosen after it, and the
  board is no longer updated, although `renderSessions` guards against just this
  ("user switched while loading").

Why the bounds are enough. Two messages let one be under way while the other is
retried; a transport that buffers two frames and a receiver channel of one make
both fill up; two slots per channel let an old connection overlap with its
replacement, and a third would need another reconnect before the first consumer
has drained. Two faults let a failure meet the recovery from another. Two spawns
and two stops give every pairwise race. On the bus the clients stop after two
messages but the supervisor's own go on, so that a table of two rows is trimmed
with turns unread, marks hit rows that are gone, and a broadcast of one lags; a
limit with room for one row (`Rooms`) cuts any longer backlog; every session opens
with a prompt, whose record may fail, which leaves what a session without one has;
one reader suffices because the supervisor is the second. Three messages, a limit
and a buffer of two make a backlog be cut and a subscription lag. Two tokens and
clocks up to three let a token be granted, imported, revoked and imported again
and expire on one clock before the other. Two groups with two sessions and two
calls give every pair of a stale answer and a new one, and a log that keeps one
message (`MaxPerSession`) loses the others before they are read. Symmetry (of
slots and peers, requests of one kind, installs and ids, calls and groups) is used
only in runs without liveness properties.

Which faults a passing run leaves out matters as much: `AtMostOnce` and the
refinement hold without a failing receiver store, `FifoSteady` speaks of states
before the first fault, with a monotone clock, `RolledBack` holds without store
errors, failing clean-ups and half-done checkouts, `WorkspaceKept` for worktrees,
and `NoGhost` without store errors (a status write that fails is ignored) and
without an aborted supervisor's late write. `SeamComplete` and `LiveTailComplete`
leave out a subscription that has lagged, which nothing makes up for, and a
message whose sender ended before the broadcast, `SeamComplete` also what the
limit has cut off and `LiveTailComplete` the gap before the socket; `FedInOrder` a
turn whose mark has failed; `RevokedStaysOut` a look-up that has failed.

### Fairness

Only `delivery_live` and `lifecycle_live` assume any.

`Delivery`: every delivery task, request handler and receiving task takes a step
if it can for ever (tokio polls what is ready, and the retry timer always fires);
the steps of a shutdown follow one another; a daemon that went down is started
again. Sends, faults and the loss of frames are not fair: nobody promises them.
`Lifecycle`: accepted requests go on, an aborted task is dropped, a supervisor
sees that its child has gone, the daemon is started again, and an orphan ends when
its pipes break, which is what `store.rs` relies on. No request has to arrive, no
turn has to end, and no child has to exit by itself.

## Proofs

The eight proof modules are checked to the last leaf, for any sets of peers,
channels, requests, readers, installs, tokens, groups and calls, any bounds and
buffer sizes, and, where no hypothesis says otherwise, any combination of fault
kinds. Every safety property of a passing run is a theorem. The assumptions on
the constants (`DeliveryAssumption` and so on) only type them. Where a theorem has
a hypothesis of its own, it is the one under which the property holds at all: the
section on runs names the counterexample without it.

Each inductive invariant is next to the properties in the component's module; TLC
was run on it, on instances of the size of the component's runs, before it was
proved.

`DeliveryProofs`

* `TypeCorrect` — `[]TypeOK`. What it takes is `NextSeqIsLen`: the sequence
  number of a new row is one more than the number of rows in its channel,
  so `SeqIsPlace` (row *i* has number *i*) is carried along.
* `OutboxIsDurable` — no step removes, renumbers or unmarks a row.
* `DeliveryInvariant` — `[]DeliveryInv`, the inductive invariant. `Integrity` is
  not inductive: it needs that the frames in streams (`StreamsAddressed`), and the
  batches they come from (`BatchAddressed`), are addressed to the peer.
  `NoSilentLoss` needs that a row between its write and its mark is accounted for
  (`MarkAccounted`), which must survive whatever happens to the stream in the
  meantime: delivered, lost (`lost` grows), swallowed as a duplicate (`KeyDecides`:
  two messages with one key are the same message), or the slot freed and reused
  (`EndsQuiet`: nothing is left in it).
* `ReceivedIsGenuine` (`[]Integrity`) and `DeliveredIsAccounted`
  (`[]NoSilentLoss`) follow.

`DeliveryRefinementProofs`, if no insert of a receiver fails (`"inbox"` is not a
fault kind)

* `ShownAtMostOnce` — `[]AtMostOnce`, from `OnceInv`: a frame that a consumer holds
  is in the inbox, has not been shown, and no other consumer of that peer holds
  the same message. So it is the row, not the stream, that makes a message unique.
* `DeliveryImplementsMailbox` — `Delivery` implements `Mailbox`. `Send` posts,
  `RecordFrame` takes or stutters, `EmitFrame` shows, everything else stutters;
  that what is taken was posted is `DeliveryInv`, that it is shown once `OnceInv`.

`DeliveryOrderProofs`

* `WakesAreNotLost` — `[]NoLostWake`. A task is as good as asleep from the empty
  answer of its query on (`Asleep`), so `WakeInv` says it from there: a row that
  is pending then was inserted later, and its handler has its notify to make.
* `StreamsKeepOrder` — `[]StreamOrder`, if the clock is not set back
  (`ClockSteps \subseteq Nat`). `OrderInv`: time stamps follow numbers, a batch
  holds the oldest pending rows of its channels, and what is in a stream that its
  task holds is older than what the task has still to write, but for the row that
  it is about to mark.
* `FifoWhileSteady` — `[]FifoSteady`, under the same hypothesis and if every frame
  fits (`TRUE \notin Sizes`). `FifoInv`: until the first fault every task has kept
  every stream it has opened, so what a peer has shown of a channel is older than
  its one stream, and that older than the rest of the outbox. A frame that is too
  long is no fault of the environment, but `drain_peer` drops all its streams over
  it, and with several channels a new stream then races what is left in an old
  one: hence the second hypothesis. `delivery_live`, with one channel, allows it.

`LifecycleProofs`

* `LifecycleTyped` — `[]TypeOK`.
* `LifecycleInvariant` — `[]LifecycleInv`. A request has *claimed* the name from
  the insert in `agent_register` on, or if it ever started a harness. There is at
  most one such request, and then the agent's row exists: rows are never deleted,
  so no other insert succeeds. Supervisors and finished spawns have started a
  harness, and a session's row comes with an agent's.
* `HarnessIsUnique` (`[]OneHarness`) and `SessionIsFresh` (`[]FreshSession`)
  follow: no lock, only the primary key, keeps two racing spawns apart, and that
  is enough.
* `ChildrenAreReachable` — `[]Reachable`, with any faults: only one request ever
  registers a child, so none is overwritten (`ReachInv`).
* `SpawnRollsBack` — `[]RolledBack`, without failing stores, clean-ups and
  half-done checkouts: what a
  request has not made yet, or has undone, is not there (`RollInv`).
* `ChildrenKeepTheirWorkspace` — `[]WorkspaceKept`, for worktrees: a request
  that has provisioned owns the directory, so that a rollback removes its own
  (`KeepInv`). With `--new` the directory is shared and this is false.
* `NoAgentIsAGhost` — `[]NoGhost`, without failing stores, failing reconciles and
  late writes: while an agent is listed as live, its `Spawn` is under way, its
  supervisor at work, or a stop about to mark it (`GhostInv`).

`AgentBusProofs`: `BusInv` is inductive with `TypeOK` (`BusTypes`).

* `NumbersAreConsecutive` — `[]Retention`, which is inductive.
* `ConsumedReachedSomebody` — `[]ConsumedWasDelivered`: whoever is about to mark has
  written (`WrittenBeforeMark`).
* `TurnsAreFedInOrder` — `[]FedInOrder`. `TurnsFresh`: what is pending, or in the
  hands of the supervisor, is newer than all that was fed, except the turn that is
  being marked and those whose mark failed; and what came after the query is newer
  than what the query found.
* `SeamHasNoGap` — `[]SeamComplete`, kills and hang-ups between insert and send
  included: the loss they cause, the limit and lag are the only ones, because a
  row is `unheard` from the step on that drops its event. Events tell the truth
  about their rows (`EventsTrue`), and no subscription is longer than the
  broadcast (`RxBounded`).
* `TurnsAreNotStranded` — `[]NoStrandedTurn`: from the query on, a pending turn that
  is neither fed nor in hand has a wake queued or its event to come, or is one of
  `unheard` (`TurnsCovered`).
* `OutputBeforeStatus` — `OutputFirst`, an action property, from `ResultsStored`.

`SubscriptionProofs`: `SubInv` is inductive with `TypeOK` (`SubscriptionTypes`).

* `SubscriptionHasNoGap` — `[]SeamComplete`, from `SeamOpen`: between subscription
  and query, every message was published before, or will come.
* `ShownTwiceAtWorst` — `[]OneDuplicate`: the broadcast brings a message once and
  none that was on it before (`BroadcastOnce`), the backlog once (`ShownOnce`).
* `RecvDrainsTheInbox` — `[]Drained`: what is printed, on the socket, still to write
  and cut off is one ascending sequence (`DrainInOrder`), and nothing of it goes
  missing on the way to `RecvBacklogEnd` (`DrainWhole`).

`TokensProofs`

* `TokensTyped` (`[]TypeOK`) and `TokensInvariant` (`[]TokensInv`), the inductive
  invariant.
* `RevocationIsFinal` — `[]RevocationSticks`. `token_insert` clears the mark of a
  row that is there, so this rests on who may call it: `TokenGrant` has a fresh id,
  and `TokenImport` takes tokens for this install, whose issuer is another.
* `RevokedOpensNothing` — `RevokedStaysOut`, an action property. It needs `Dialled`:
  an install could import a token that it granted to itself, but it does not
  dial itself.
* `RefusalHasCause` — `[]RefusedForCause`, which needs that only the issuer's own
  command revokes its row (`OwnRevocation`), that clocks are within the tolerance
  (`ClocksTogether`), and that the cast of an expiry date is harmless for tokens
  that are ever presented (`Sound`), for every word length.

`DashboardProofs`

* `LoadTakesAll`, a lemma: whatever the length of an answer, the loop of
  `loadMessages` leaves a panel that has seen all of it, and keeps a sound
  transcript sound, whatever retention has left of it. It is an induction on the
  length. The library's induction theorems take an operator, which the provers
  cannot instantiate, so it is done with a set (`SetInduction`): a set of naturals
  that has 0 and, with each number, the next, is all of them, because a smallest
  missing one (`NatMin`, from the well-foundedness of `<`) could be neither.
* `DashboardTypes` — `[]TypeOK`, with `ClientInv`: a call under way is about a
  group that exists, and there is a fault for every timer.
* `LostSocketsAreReplaced` — `[]Reconnects`, inductive: a `selectGroup` under way
  ends by opening a socket, a poll never does, and only the timer of the current
  group counts.
* `TranscriptsAreOwn` — `[]OwnTranscript`, from `PanelsSound`: what a panel shows is
  of the current group, was seen, and is shown once; and it has seen all that its
  own load covered.
* `LiveTailHasNoGap` — `[]LiveTailComplete`. It speaks of a panel whose load has
  been handled, and is not inductive, because messages are stored and published
  while the answer is on its way: `TailKnown` says it from the moment the server
  has read the log, for every length that the panel's load covers already or will
  when its answer arrives (`Covered`). What `Abort` takes off the broadcast is in
  `unheard` at once, so the four gaps of the statement are all there are, for every
  retention cap.

Only model-checked: `Retried`, `Settles` and `StopReaps`, which need fairness and
are beyond the prover; and that the two violated properties are violated.

## Not modelled

* Groups and agent tokens: `GroupNew` is two inserts, the bearer-token check a
  look-up before each request. A crash between the two leaves a group without a
  prime whose name is taken.
* Encodings (CBOR, JSON, tickets, token signatures) and key files.
* Discovery, relays and NAT traversal, of which `Delivery` keeps only that a dial may
  fail and a connection may break.
* Schema migrations, read-only listings, the CLI's commands that send one request
  and print its answer, the dashboard's forms, badges and markdown.
* The contents of workspaces.
* A browser that hangs up during a spawn: `web.rs` then drops `spawn_session` at any
  of its awaits. What it leaves is what a crash at that point leaves, without the
  reconcile; `Lifecycle` has the requests of the IPC, whose tasks go on.
* Time as a quantity: how long a turn is silent, how often the poll runs, how long a
  fetch takes; and how much a pipe to a harness holds, so that the supervisor and a
  child that writes without reading can wait for each other.

## Plan

1. `Groups`: `GroupNew`, the prime and its token, and who may send, spawn and kill.
2. An abstract queue per recipient for `AgentBus`, and the refinement.
3. A pipe of bounded size between supervisor and harness, for the deadlock that is
   in the list of hazards.
4. Proofs: `FifoWhileSteady` for one channel with frames that are too long; the
   steps of `Retried` that are safety (a task that waits has a timer or a wake).
