# NetLink in TLA+

NetLink finds peers on a local network and exchanges messages with them over UDP. This directory holds TLA+ models
of its core, the TLC configurations that check them on small instances, and TLAPS proofs about the link layer.
`PROJECT.json` lists the components, runs, mutants, theorems, findings and hazards, and maps every definition to the
source lines it models. Source paths below are relative to `src/src/internal/` unless they start with `src/`.

## The system

| Part | Source | Threads | Modelled by |
|---|---|---|---|
| Reliable link, sending | `Channel/Reliability/ReliableLink.cpp`, `Channel/Queue/SequenceBuffer.h` | I/O | `SequenceBuffer`, `LinkParameters`, `SendSide` |
| Reliable link, receiving | `ReliableLink.cpp`, `Channel/Protocol/AckRanges.h`, `Channel/Fragmentation/MessageAssembler.*` | I/O | `ReceiveSide` |
| Two links and the network | | | `ReliableLink`, promises in `OrderedLane` |
| Mailbox | `Channel/Mailbox.h` | application, I/O | `Mailbox` |
| Engine loop | `Engine/NetworkEngine.cpp` (`run`, `step`, `waitForWork`, `wake`) | application, I/O | `EngineLoop` (extends `Mailbox`) |
| Sessions | `Engine/NetworkEngine.cpp` (`apply`, `onHello`, `advance`, ...) | I/O of two engines, application | `Session` |
| Lifecycle | `Core/NetLinkCore.*`, `Util/TaskQueue.h` | application, I/O, event thread | order of the callbacks only, in `Session`; the rest is planned |
| Discovery | `Discovery/DiscoveryLogic.*` | I/O | planned |
| Send scheduler | `Channel/SendScheduler.h` | I/O | planned |
| Media lane | `Channel/Fragmentation/MediaAssembler.*` | I/O | queue in `Mailbox`; assembler planned |
| RTT, wire formats, sockets, adapters, C interface, log | | | not modelled, see below |

An application thread calls `send`, `connect`, `flush`, ...; the call leaves messages and commands in the **mailbox**
and wakes the **I/O thread**. Each *step* of that thread drains the mailbox, applies the commands, takes in all
datagrams, serves the timers, advances the **sessions**, and then lets the **scheduler** ask the **links** for
datagrams that fit. A link has an acknowledged stream for each of `Control` (session messages), `Reliable` and `Bulk`,
and an unacknowledged one for `Media`. Events go to the event thread, which runs the callbacks.

The models cut this at the interfaces: `ReliableLink` is two links and a network without engines; `EngineLoop` is one
engine's threads with links reduced to "still has unacknowledged messages"; `Session` is two engines with links reduced
to "in order, and what is acknowledged is delivered or kept in the link", which is what `ReliableLink` is shown to
guarantee as long as the receiving link lives.

## The modules and the code

**SequenceBuffer** - the ring `SequenceBuffer<T>` as a function on the sequence numbers it holds. `insert` drops what
occupies the same slot (`seq mod capacity`), as the code overwrites it.

**SendSide** - one `Stream` per lane plus the members the lanes share (`mSent`, `mTransmissions`, `mLargestAcked`,
`mRecoveryStart`, the congestion window, `mStalledSince`). Actions: `SendNext` and `Retransmit` (peek and commit),
`PeekOnly` (a peek whose datagram the socket refuses: it still pops acknowledged entries), `HandleAck`, `Expire`
(retransmission timer), `Fail`. The Media branches of `peek` and `commit` are not part of it. Time is left out: the
timer may find any prefix of `mSent` overdue, so every timeout value and every RTT estimate is covered. The deques
`mSent` and `lost` are sets ordered by transmission number; `LostIsFifo` shows that this is the order of the deque. A
message is taken from its source when its first packet is committed. The congestion window counts in fractions
1/`CwndUnit`.

**ReceiveSide** - `HandleData` (drop, buffer, deliver, assemble), `HandlePing`, `SendAcks` (all due Acks, each after
`retryRefused`), `SetPaused`, `FailReceiver` (`fail` and `resetStreams`: the streams go, with their reservations), and
other links reserving and releasing the shared `AssemblyBudget`. Draining the reorder buffer is a recursive function.

**ReliableLink** - a sender, a receiver and a network that loses, repeats and reorders. A datagram in transit is a
member of a set. Either side may fail: the sender by its progress clock or a timeout, the receiver at any time, since
what its clocks look at belongs to the other direction. **OrderedLane** is the abstract specification: whole messages,
once, in the order they were taken.

**Mailbox** - one action per critical section; the notification after the unlock is a step of its own, and so is
waking up from a condition variable (`WakeUp`, `TimeOut`). Numbers and epochs of messages are history that
the properties compare.

**EngineLoop** - program counter `ioState` of the I/O thread, with application threads interleaving between any two
mailbox operations of a step. `wake()` sets `mWoken`, then notifies and interrupts the socket it read, which may have
been replaced meanwhile; `waitForWork()` waits on the condition variable without a socket and in `ReadWaiter::wait`
with one. The check of `run()` (`Begin`) and the reset of `mWoken` (`StepBegins`) are two actions. A stop that is
requested between them has its `wake()` erased: `run()` looks again only after that step and the wait after it. With a
socket its pending interrupt still ends that wait; without one, or when the socket is replaced in that step, the stop
is seen at the next tick. So `NoLostWakeup` is about commands and messages, not about stops. Exceptions may leave a
step at any point (`Throw`), or the wait. Links are not assumed to be acknowledged: a remote that pauses acknowledges
nothing and does not fail. Sessions open directly here; how they open is the matter of `Session`.

**Session** - per engine one record `eng[e]` with the `Peer` record of the other engine (`peer`), the published
`Mailbox::Session` (`session`), what the application was told (`view`, `asking`) and `mShutdown`. The functions of the
code (`startSession`, `endSession`, `onHello`, `onControl`, `sendClose`, ...) are operators from record to record.
`Apply` is the drain of a step with all its commands, `Receive` and `ReceiveHello` are `handleDatagram`, `StepEnds` is
the rest of the step: `advance`, Acks, data, and erasing ended sessions. A session that is ended but not yet erased is
visible to the datagrams of the same step, as in the code. The network holds every datagram sent, for ever; datagrams
that cannot have an effect anymore are dropped from the state (`useful`). Both messages and Acks are cumulative
positions in a lane. A message that the receiving link acknowledges and holds back, because the budget refused it when
the gap before it closed, is in `held` until a later packet or Ack lets the link try again (`ReceiveAndHold`,
`retried`, `StepEnds`); it is handed over in that step or in the next one. `LinkFails` may happen at any time. `known`
in `startSession` stands for "discovered, socket bound, room for a session". Which peers a step touches is not
modelled: `advance` does nothing for the others. The command batch is applied in one action: an application that reads
the published state between two commands of a batch sees nothing that it does not also see before or after one of the
batches.

## Runs

"States" are distinct states; times are with two workers.

| Run | Question | States | Time |
|---|---|---|---|
| `link_lane` | One lane: is anything lost, forgotten, overwritten, delivered twice, counted wrong? | 288,000 | 1.5 min |
| `link_lanes` | Two lanes sharing window, `mSent`, serials and budget | 171,000 | 1 min |
| `link_live` | Does everything arrive in spite of a loss, refusals and pauses? | 122,000 | 2 min |
| `engine_wake` | Can the loop sleep over work? | 154,000 | 1 min |
| `engine_mail` | Two application threads across two sessions with one peer | 1,952,000 | 2 min |
| `engine_flush` | Do `push()`, `flush()` and `disconnect()` come to an end; are bytes exact? | 190,000 | 1.5 min |
| `session` | Callbacks, agreement and delivery between two engines | 556,000 | 2 min |
| `session_live` | Is every `connect()` answered, does shutdown finish? | 101,000 | 2 min |
| `flush_later`, `session_cancel`, `connect_auto`, `stale_hello` | the findings below | | seconds |

**Links.** `NothingForgotten`: an unacknowledged packet is on the wire under its latest transmission or queued for
retransmission. `OldestIsOnTheWire`: the record the retransmission timer looks at is never stale, so the timer runs.
`OnTheWireExact`, `ProgressClockExact`, `BudgetExact`: incrementally kept values equal their definitions.
`AckedIsHeld`, `NeverOutOfWindow`: no slot of either ring is overwritten while needed. `AheadOnlyWhilePaused`: the
sender's window runs ahead of the receiver's only while paused, so an overtaken Ack must not lift the pause. These
three speak of a receiver that has not failed; `BudgetExact` also of what is left of the budget when it has.
`WaitsOnlyForBudget`: the next packet in order waits only because the budget refused it. `LostIsFifo`: packets are
queued for retransmission in the order of their transmissions. `OneReductionPerRound`: the congestion window shrinks
only for the loss of a packet sent after the last reduction, which then begins a new round. `DeliversInOrder`:
refinement of `OrderedLane`. `EverythingArrives`: liveness.

**Engine.** `NoLostWakeup`, `CommandsAreTaken`: no ring for mail is lost between `mSignalled`, `mWoken`, the two kinds
of waiting and a replaced socket. `NoMissedNotify`: no waiting caller misses what it waits for; `engine_flush`
includes the end of the loop among the things waited for. `FlushTruthful`, `FlushWillBeTold`: flush never says too
much, and the loop knows whom it has to tell. `WaitersReturn`: `push()` and `flush()` return without their timeout
once there is room, everything is acknowledged, the session is over or the engine has ended, unless that is undone
before they look. `NeverIntoAnotherSession`; `PublishedMatches`: while the engine runs, `connectedPeers()` lists whom
`send()` takes messages for; `BytesExact`; `DisconnectEnds`: draining ends at `DrainTimeout` even if the remote
acknowledges nothing.

**Sessions.** `EventsInOrder` is the contract at `src/include/NetLink/NetLink.h:141`; `PublishedFits` relates what
other threads read to the session; `ConnectedAgree`: the two ends of a session name each other and exactly one is the
initiator; `AcknowledgedIsKept`: what is acknowledged was handed to the remote application or is kept in its link,
never dropped because its session is not open. "Acknowledged means received"
(`src/tests/EngineTests/NetworkEngineTests.cpp:472`) holds in this sense only: a message that the link holds back is
handed over later, and not at all when the session ends first. `ConnectIsAnswered`, `ConnectEnds`, `ShutdownFinishes`.

### Bounds

* Links: windows of 2 packets, so both rings wrap; messages of one and two fragments and a budget of one two-fragment
  message, so refusals happen; 4 to 6 transmissions, enough for a packet to be lost, sent again, lost again and
  acknowledged under its first transmission; two Acks, which may overtake each other and be
  repeated, so that a pause or a resume comes late. A fast retransmit threshold of 1 reaches loss detection with few packets. `link_lane` lets one
  pause or one refusal happen, `link_live` two, so also one of each.
* `SerialSpan` (2^32 in the code) is 8 or 6. `MaxAckSerial` is 2 in `link_lane` and `link_lanes`, where serials do not
  wrap; they wrap in `link_live`. The comparison by signed difference needs that neither an Ack in the network nor the
  last Ack of a lane is behind by half of the serials. The code enforces neither half, and since the lanes share
  `mAckSerial` the second one is about a lane that is idle while the others are acknowledged that often. Both are
  assumed (`serialsClose`).
* Engine: one peer suffices for what the mailbox keeps per peer; two callers race each other and the loop; two sockets
  (`engine_wake`) let a ring go to a replaced one; two epochs let a session be replaced while a caller waits. The
  callers are interchangeable (symmetry, in the safety run only).
* Sessions: two engines with `connect()` once each, three links (two crossing requests and the one that replaces them;
  four for the late Hello), up to two commands in a batch (in `session` at the engine that
  disconnects, and one at the other) and two messages, which it takes to hold one back. Stops are
  in `session_live`, without messages: with everything in one run it does not end in time. In `session` and
  `session_live` nobody accepts automatically and only the engine with the higher ID disconnects: the cases that
  violate the contract are runs of their own.
* Deadlock is not checked: every instance ends when its bounds are used up, and every engine may end.

### Fairness

* `ReliableLink`: the loops on both sides keep running, so what is due is done; the network delivers what it does not
  lose; the application takes what is delivered; other links complete their messages and return the budget.
* `EngineLoop`: weak fairness of the I/O thread and of the callers on their way out of a call (the system schedules
  them and no step blocks); strong fairness of the end of draining, a fixed time from which on `serviceTimers()`
  touches the session in every step. Nothing is assumed of the remote, which need not acknowledge. Timeouts of waits
  and exceptions are not fair: the properties hold without their help.
* `Session`: steps end and each applies what was posted before it; deadlines pass; what two live links send to each
  other arrives in the end (they retransmit); a link without a counterpart fails (`peerTimeout`, the keep-alive ping).
  It is written as `[]<>` formulas over explicit enabling conditions, which TLC evaluates faster than `WF`.

## Findings

1. `flush_later` - `flush()` waits for messages accepted after the call: `settle()` moves `done` only when nothing at all
   is outstanding (`Channel/Mailbox.h:223` promises "accepted so far").
2. `session_cancel` - `connect()`, then `disconnect()` in the step in which a crossing Hello arrives, at the engine
   with the lower ID: the ended but not yet erased request counts as crossing, and a session is opened that
   the application gave up; a second `onDisconnected`, or an `onConnected`, follows (`Engine/NetworkEngine.cpp:895`).
3. `connect_auto` - with automatic acceptance, a Hello between `connect()` and the step that applies it: if that session
   does not get connected, `connect()` is never answered (`Engine/NetworkEngine.cpp:577`, `announced` is false).
4. `stale_hello` - both sides connect; the Hello of the side with the lower ID, whose link is already dropped, is
   overtaken by its Accept: the other side reports its new session as lost (`Engine/NetworkEngine.cpp:906`).

## Proofs

Five modules, checked by TLAPS for every number of lanes, windows, budget, thresholds and network behaviour: no bound
of `ReliableLink` is used. They assume `LinkAssumption`, `SendAssumption`, `ReceiveAssumption` and
`CompositionAssumption` (windows and counters are positive naturals, and the like), which TLC evaluates on every link
run.

* `SequenceBufferProofs` - numbers within one window have different slots, so `insert` evicts nothing (`SlotsDiffer`,
  `InsertInWindow`); least and greatest members of finite sets of naturals.
* `SendSideProofs` - `SendInv` is inductive for each operation of the sender: types, window bounds, every entry of
  `inFlight` that is not lost has exactly the record of its latest transmission in `mSent`, every lost one a record in
  `lost`, the front of `mSent` is live, and the counters equal the cardinalities they stand for. The front is what
  makes `NothingForgotten` inductive: Acks and losses pop stale records only from the front.
* `SendSideAckProofs` - the same for Acks, the retransmission timer and failure, and `BeginsRound`: if Acks or the
  timer shrink the window, a packet newer than `mRecoveryStart` was found lost, and `mRecoveryStart` moves to the
  newest transmission.
* `ReceiveSideProofs` - `ReceiveInv`: the reorder buffer stays within the window ahead of `nextExpected`, and its next
  packet waits only while `budgetPaused`. Draining is a recursive function; what is used of it (`Drain`) is that it
  ends at a packet that is missing or refused, and keeps what it does not deliver.
* `ReliableLinkProofs` - `LinkInv` adds that Acks in the network are truthful (`AcksTruthful`), although they may be
  old: the receiver never loses what it held (`HeldStaysHeld`) until it fails. With it `AckedIsHeld` is inductive. The
  theorems are `Invariant`, `TypeCorrect`, `NeverForgotten`, `CountersExact`, `ClockExact`, `AcknowledgedIsHeld`,
  `NeverStuckInReorder`, and the action properties `LostInOrder` and `ReducedOncePerRound`.

Only model-checked: liveness (out of the prover's reach, as is `ENABLED`); `BudgetExact` (a sum over lanes, which
needs induction over data); `AheadOnlyWhilePaused`, `NeverOutOfWindow` and the refinement `DeliversInOrder` (not yet
proved); the engine and session properties (not yet proved).

## Not modelled

* Wire formats, checksums of lengths, names: datagrams are records; one that does not decode is a lost one.
* Sockets, adapters, threads of the operating system: only what the loop relies on (`interrupt()`, a changing adapter).
* RTT estimation: timeouts happen at any time. Statistics, log, C interface: no state the rest depends on.
* In `ReliableLink` one direction of data is modelled; Acks need no data in the other direction. Keep-alive pings only
  prevent failures, which may happen at any time here.
* Limits on the number of peers and pending sessions (two engines never reach them), addresses, names and versions of
  peers.

## Plan

Done: the link layer with its proofs, mailbox and engine loop, sessions. Next, in this order:

1. `Lifecycle`: `NetLinkCore::start/stop/finish`, the event thread's `TaskQueue` and `joinOrDetach` against stops from
   callbacks and from several threads. Properties: no start finds half a stop, no stop waits for an engine that was not
   told to end, callbacks stop when `stop()` returns.
2. `SendScheduler` with the `scheduled` bits of the engine: a peer is in a ring exactly when its bit is set, turns are
   fair, Media leaves the acknowledged lanes their share.
3. `Discovery`: two engines and beacons; expiry against sessions, one reply per new peer, the bound on peers.
4. `MediaAssembler` against a reference: a message is completed at most once and only from its own fragments.
5. Delivery backlog and pauses in the engine loop (`updatePause` against `BacklogShare`).
6. Proofs: `AheadOnlyWhilePaused`, `NeverOutOfWindow` and the refinement of `OrderedLane`; `NoLostWakeup` and
   `NoMissedNotify` of the engine loop; `EventsInOrder` of sessions for the cases that keep it.
