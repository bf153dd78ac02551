# Verification of infinity-wasm-bridge

TLA+ models of the bridge between a desktop application and a WASM gauge of
Microsoft Flight Simulator, the TLC runs that check them on small instances, and
TLAPS proofs of their main safety properties for every size.

    application            Coherent panel (JavaScript)          WASM module
    BridgeServer / Hub  <--- WebSocket --->  BridgeRelay  <--- CommBus --->  Bridge, Router
    crates/infinity-bridge-host              ts/… and rescript/…             crates/infinity-bridge-wasm

The application calls `command` and waits for an ack, broadcasts with `emit`, and
waits for a gauge with `wait_connected`. Every gauge is one WebSocket connection. The
relay forwards each command to the module as a CommBus call under a request id of
its own, and turns the response, or its absence, into an ack.

## 1. Inventory

### Host: `Hub` (host/src/hub.rs, client.rs)

*State.* `clients`: id → {sender, hello, ready, last_seen}; `pending`: command UUID →
oneshot sender; the id counter; a `Notify` and a `watch` channel that report the
connection status; a broadcast channel for incoming events.

*Operations.* `register_client`, `unregister_client`, `set_client_hello`,
`set_client_ready`, `touch_client`, `reap_dead_clients`, `command`, `dispatch_ack`,
`emit`, `wait_connected`, `send_to`, `dispatch_event`.

*What is hard.* Every method is async and shared by the tasks of all connections and
all callers. `command` inserts its sender under one lock, sends under another, waits
with a timer, and removes its entry under a third; an ack, the timer, a
disconnection, or the caller dropping the future can fall between any two of them.
`wait_connected` looks and then sleeps.

*Correct when* the oneshot sender of a waiting call is never lost or duplicated; an
answered call does not time out; a refused call was sent to nobody; all gauges see
messages in one order; the status channel agrees with the registry; waiters wake.

### Host: connection tasks (`handle_socket`, host/src/server.rs)

*State.* Per connection: a reader (select loop and clean-up), a writer (drains the mpsc
channel into the socket), a ping task (reaps silent clients of *any* connection, pings
its own), and the oneshot by which the ping task tells the reader to stop.

*What is hard.* A ping task may reap another connection; its own reader may be handling
a message at that moment; the link may break with or without notice; three tasks end in
several orders, and the socket is closed only when the last part is dropped.

*Correct when* a registered client always has a reader that will unregister it, an ack
taken from `pending` is used by exactly one reader, and a reaped, broken or silent
connection is torn down completely.

### Relay (ts/infinity-bridge-relay, rescript/infinity-bridge-relay)

*State.* The current socket and the reconnect timer; the CommBus handle, whether the
response listener is attached, and the bind-retry timer; the map of pending requests
with a timer each; the deduplication ring; in the ReScript version the handler.

*Operations.* `init`, `destroy`, the socket's four callbacks, the two retry timers, the
continuation of `RegisterViewListener`, host messages, module messages, the request
timer, the rejection of a CommBus call.

*What is hard.* Callbacks in any order: the continuation runs synchronously, late, or
never; a socket reports an error with or without a close, immediately or after it was
replaced; response, rejection, timeout and `destroy` race for one request.

*Correct when* every request is acked once, whatever is lost is retried, one listener is
attached, the host knows whether the relay is bound, and a destroyed relay stays so.

### Deduplication ring (dedup.ts, Dedup.res)

A set for `has`, a queue for the order of eviction, and a capacity. *Correct when* the two
hold the same ids and an id is not executed again before `capacity` others were.

### WASM bridge (wasm/src/bridge.rs, backend.rs)

*State.* None but its subscription to the call event and, in `Router`, a table of handlers.

*Operations.* `Bridge::new`, `dispatch`, `send_response`, `emit`, and `Router`'s choice of a
handler by name, the first of that name winning, then the fallback.

*What is hard.* It is synchronous, inside the simulator's callback; what is hard is
between it and the relays. Every relay hears every response and tells its own by a request
id; calls and responses may be late, out of order, or lost; the module is unloaded and loaded.

*Correct when* a command is executed once per relay at most, and a relay acks it with what
became of it and of no other.

### The demonstration (examples/host-app, examples/fake-gauge.rs)

*State.* The host's script: a position between its seven calls. The gauge: a reader loop, a
writer task behind a channel, a telemetry task that shares the channel.

*What is hard.* The gauge may leave during any call of the script, acks may be late, and a
gauge ends only when its last writer does.

*Correct when* every call ends with its own answer or an error, the script runs to its end, and
a gauge whose socket ended exits.

### Wire messages (infinity-bridge-wire), instrument shell

The wire crate declares messages and errors; it holds no state. The instrument shell
(rescript/infinity-instrument) hands the simulator's callbacks to the author's functions.

## 2. Modules

| module | models | proofs |
|---|---|---|
| `Rpc` | what `command` promises its caller: the abstract specification | |
| `Hub` | hub.rs: registry, commands, events, waiters, channels | `HubProofs` |
| `Server` | `handle_socket`, over `Hub`: the tasks of every connection | `ServerProofs` |
| `FakeGauge` | fake-gauge.rs: reader, writer and telemetry task of the stand-in gauge | |
| `HostApp` | host-app/src/main.rs, over `Hub` and `FakeGauge`: the demonstration | `HostAppProofs` |
| `Exchange` | what a relay promises of each command: the abstract specification | |
| `Relay` | relay.ts and BridgeRelay.res: the life of one relay | `RelayProofs` |
| `DedupRing` | dedup.ts and Dedup.res | `DedupProofs` |
| `Bridge` | bridge.rs: the WASM module on the CommBus | |
| `Pipeline` | several relays over `Bridge`, and the host's subscriber of events | `PipelineProofs` |
| `Timing` | durations: keepalive of the connections, the two timeouts of a command | `TimingProofs` |

    Rpc  <=implements=  Hub  <=implements=  Server       Exchange  <=implements=  Relay      DedupRing
                         ^                                  ^       one relay's whole life    its ring
                         '----- EXTENDS -----  HostApp      '=implements=  Pipeline
                                                  |              each of several relays
                                   EXTENDS FakeGauge                       |
                                                                   EXTENDS Bridge

`Server` and `HostApp` EXTEND `Hub` and call its actions, so that one critical section of
hub.rs is one definition in all three. `Hub!ImplementsRpc` and `Server!ImplementsHub` are
the refinements: tasks that use the Hub as `Hub` allows, and a Hub whose calls behave as
`Rpc` promises; `HostApp` implements `Hub` too, and so `Rpc`. `Relay!ImplementsExchange` and
`Pipeline!ImplementsExchange` hold the two models of a relay to one promise: `Relay` has everything
that happens to one relay, `Pipeline` what several do to each other.

### Hub

One action per critical section, that is, per stretch between two awaits or unlocks.

* `clients`, `hello`, `ready`, `stale` are the map and three of its fields as sets of
  ids; `stale` stands for `last_seen` being older than `ping_timeout` (`GoStale` is the
  passing of time, `TouchClient` resets it). `used` is the id counter: ids are not reused.
* `command`: `Command` inserts the sender (hub.rs:206), `SendCommand` or `RefuseCommand`
  chooses targets and sends (208-242), `TakeAck` and `Expire` are the two ends of the
  `timeout` (244), `Return` removes the entry and maps the result (246-264), `Cancel` is the
  future dropped at one of its awaits: nothing runs, so the entry stays.
* `TakeAck` needs a filled slot and `Expire` an empty one: tokio's `timeout` polls the
  future before the clock.
* `dispatch_ack` is two actions: `DispatchAck` takes the sender under the lock, `FireAck`
  sends after it (268-271). `held` is the sender in between; a send to a dropped receiver
  is lost.
* `Enqueue` appends to the channels of all targets that still have a writer; `WriterTake`
  and `WriterEnd` are the other end.
* `wait_connected` is `CheckConnected` and `Park`, since `notified()` starts to listen when
  the future is created (136), after the check (133).

### Server

`reader`, `pinger`, `link` and `input` of each connection. The writer needs no variable: it
runs while the connection is in `used` and not in `closed`. `ReadText` touches the client
before it parses; `Handle…` are the arms of the match; `HandleAck`/`FinishAck` the two
sections of `dispatch_ack`, in the middle of which the reader cannot be stopped, because
`select!` covers only the wait for the next message. `ReaderReaped`, `ReaderClosed`, `Leave`
and `Join` are the end of the loop and the clean-up; `Leave` merges `unregister_client`
with the `abort` of the ping task, since between the two the ping task can only do what it
may do before. `LoseLink` (no notice) and `CloseLink` (notice) are the network. A lost link brings
nothing new; the texts that had arrived are still read (`Readable`), while the writer may fail
already (server.rs:206), until the connection is silent.

### Relay

One action per JavaScript task. `sock` gives the state of every WebSocket object ever made,
because an old object keeps its handlers, and `ws` the one the relay refers to. `Error`
leaves a socket that may still report a close (`Close`), now or much later. A bind may fail
each time (`on` throws). `called`, `acks`, `got` and `told` are what the outside saw: the CommBus
calls, the acks produced (sent if the socket is open), the commands that arrived over
each socket, and the readiness last told over each. `impl` picks the implementation where
the two differ: `DestroyThrows` (TypeScript does not catch `unregister`), and a continuation
after `destroy` (the TypeScript closure still has the handle; the ReScript handler is gone).

`Exchange` has four phases of a command: new, pending, settled, refused. `Phase` reads them off the
relay's ring, its pending map and the calls it made; `destroy` is `Retire`, which settles all that
is pending, and everything but `Forward`, `RefuseNotReady` and what settles a request stutters.

### DedupRing

`Mark` is `mark` for an id that is not there; for one that is, it returns at once.
`executed` is a history the ring never reads.

### FakeGauge and HostApp

`gauge` is where `main()` of the gauge is, `writing` says whether its writer task runs, `out` is
the channel all its tasks share, `socket` the connection. `HandleCommand` is `handle_command`:
whether it acks a command, and how. The writer has one end only, `WriteFails`: the telemetry
task keeps a sender, so that the channel never closes (fake-gauge.rs:71-102, 171-173).

`at` is the next step of `main()`: `Begin` starts a call and its await ends in `Report`, which
takes any result, as every `match` of main.rs does. `HostWrites` and `HostReads` join the
host's task and the gauge's at the socket: what a socket buffers is part of the sender's channel,
since two queues in a row are one. Of `handle_socket` only what the script can notice is here;
`firing` is the reader between the two sections of `dispatch_ack`. `Break` ends a connection at
any moment, and `Accept` needs the previous gauge to be gone: one terminal, one gauge.

### Bridge and Pipeline

`Dispatch` is a whole callback of the module: an envelope is taken, handled, answered. The
CommBus is external: `calls` and `answers` are sets, so that anything arrives in any order or
not at all, and a response stays visible, because a relay that has taken it finds no pending
request of that id afterwards. `ran` records who asked for what was executed and how it ended.

A request is a record of its relay, id and command; the id is the pair of `Date.now()` and the
relay's own counter (relay.ts:494). `Forward`, `Duplicate`, `GiveUp` (timer or rejected
call), `OnResponse`, `ForwardEvent` and `OnEvent` are the relay's tasks; `answer` is what the host
makes of the acks: the first one counts. The host sends a command to every ready
connection, and a relay may see it twice over two sockets, so `Forward` and `Duplicate` are
free to happen for each relay. `sent`, `place` and `heard` count events along the
broadcast channel; `Hear` and `Lagged` are the two outcomes of `recv` in `while let Ok(..)`.

### Timing

Discrete time passes in `Pass`, and only when nothing is due: a timer fires when it is due, a
task that can run takes no time, a message takes at most `Trip` (for a ping: with its pong).
Every connection has the age of its `last_seen`, the time to its next tick, the age of the
ping that is out, and the time since its writer died; the command at hand has its age, and the
time since it was sent, reached a relay, or was acked. `Tick` is a round of the ping task:
everybody who is `Dead` is reaped, then the own client is pinged, and if that fails the
reader is told to leave. `Lose` is a command that no relay takes. One command follows
another, since commands do not share timers.

## 3. Runs

| run | instance | what it shows |
|---|---|---|
| `hub_calls` | 2 connections, 1 command, 1 event | the Hub's safety properties and `CallsSettle`: command(), with its races, implements `Rpc` and its fairness |
| `server_tasks` | 2 connections, 1 command; hellos and acks | the tasks implement `Hub`; one live reader holds an ack; no ghost clients |
| `server_teardown` | 2 connections; readiness and events | stranded and silently lost connections are closed |
| `app` | the script's 5 commands, event and waiter; 1 gauge | calls end with their own answers, the parked `wait_connected` wakes, the script finishes, the gauge exits |
| `relay` | 1 command, 3 sockets, both implementations | one ack for each command, a retry for each loss, one listener, a host that knows; a destroyed relay is inert; the relay implements `Exchange` |
| `dedup` | 5 ids, capacity 3, 8 executions | the ring's containers agree, executions are apart, nothing is evicted early |
| `pipeline` | 2 relays, 2 commands, 3 requests, 2 events | one execution per relay, answers are the command's own while ids differ, no unnoticed gap in the events and no subscriber cut off that keeps up, each relay implements `Exchange` |
| `timing` | 2 gauges, one command after the other | who is reaped when, how long dead writers hide live gauges, whose timeout speaks first |
| `hub_lost_wakeup` | 1 connection, 1 waiter | **violated**: `WaitConnectedReturns` |
| `relay_onclose` | 1 command, 3 sockets | **violated**: `OneLiveSocket` |
| `relay_destroy` | 1 command, 2 sockets | **violated**: `DestroyIsFinal` |
| `pipeline_ids` | as `pipeline` | **violated**: `AnswersItsCommand` |

### Where code and text disagree

1. `wait_connected` can sleep although a gauge is connected: a registration between the look
   at the registry and the creation of the `Notified` future wakes nobody, because
   `notify_waiters` stores no permit (hub.rs:133-136). `ScriptFinishes` is therefore stated from
   the point where main.rs's own `wait_connected` has returned.
2. relay.ts:284 calls an `onclose` after an `onerror` harmless. It is while the
   retry timer is set; after the reconnect it drops the new socket, which stays open, and a
   second connection is made. It takes an engine that reports the two more than
   `reconnectMs` apart. `OnlyLateClosesStray` proves that it takes this, and nothing else.
3. BridgeRelay.res:514 closes the socket of a destroyed relay and cancels the reconnect,
   but the handlers stay attached and `close()` completes later: `onclose` schedules a new
   reconnect. relay.ts:190 does the same. Of what a destroyed relay may do, `DestroyedIsInert` is the
   rest: it asks the module for nothing.
4. Wire.res:43 says that the envelope correlates responses with commands. Its id is
   the time and a counter that each relay has of its own, and each relay hears every response:
   two relays on the same CommBus events whose counters agree in one millisecond take each
   other's responses. `AnswersAreOwn` shows that this is the only way an answer
   goes astray, and `LoneRelayAnswersRight` that it takes two relays.

Each of the four has a theorem that says how far the statement is true. For the first it is
`OnlyTheGapLosesWakeups`: if nobody registers in that gap, who sleeps does so because nobody is connected.

Four more were met while reading; no run is about them. The error "all gauge connections dropped
before ack" (hub.rs:258) is never returned, since the senders in `pending` are tied to no
connection: such a command waits out its timer. README.md:241 calls the ring an LRU, but it evicts
in order of first arrival. README.md:245 speaks of exponential backoff; the code
waits a fixed `reconnectMs`. relay.ts:44-46 says that readiness means that the module can be reached;
a TypeScript relay that was destroyed before the continuation of `RegisterViewListener` ran binds all
the same (`Continue`), and over a socket that reconnected it tells the host ready without a CommBus
handle to call the module with. `HostKnowsReadiness` compares what was told with the bound flag, and
so does not object.

### Bounds, and why they are enough

* *Connections: 2.* The properties relate a connection to the registry, or two connections to
  each other (one that reaps another, one command on two channels). Ids are not reused, so a
  reconnect is a new member of `Conns`.
* *Commands and events: 1 each in `hub_calls`.* A command touches only its own entry of
  `pending`; order needs two messages, the command and the event. The safety properties are
  proved for any number.
* *Gauges: 1 in `app`*, which may come, break and leave at any of the script's steps
  (75,000 states). With a second gauge, started when the first has exited, the safety properties
  also hold (8.6 million states); that run is left out for its length, and the proofs
  cover any number. `MaxQueued = 1`: telemetry piles up behind nothing but more telemetry.
* *Sockets: 3.* One that failed, one that replaced it, one made because the first then closed.
  A run with two commands and three sockets (6.6 million states) also passes; it is left
  out for its length, and the proofs cover any number of both.
* *Kinds* divides the messages a gauge may send between the two server runs; hellos and acks
  touch calls, readiness and events touch targets.
* *MaxExecuted = 8* with capacity 3 and 5 ids: ids are evicted and executed again.
* *Pipeline: 2 relays, 2 commands, `MaxCalls` 3, `MaxNow` 1.* Two relays that count alike or do
  not, in the same millisecond or in two; each has a request for the same or for another command,
  and one of them a second one. One command has a handler, the other no name and no fallback, so
  that verdicts differ. `Capacity` 1 and `MaxEvents` 2 make the subscriber lag, `MaxUnderWay`
  1 bounds what a relay has not heard yet.
* *Timing: `Interval` 2, `Timeout` 3, `Trip` 1, `RelayTimeout` 1, `HostTimeout` 4.* The tightest
  keepalive and the tightest pair of timeouts for which the promises hold (`Interval + Trip =
  Timeout`, `Trip + RelayTimeout + Trip < HostTimeout` by one), so that an error of one unit shows.
  Deadlock is checked here: time can always pass or something is due. The proofs cover all durations.
* *Symmetry* is used in runs with safety properties only. Deadlock is not checked in
  the server, relay, app and pipeline runs, where finite connections, sockets and requests
  run out, and where a relay without sockets and a finished script legitimately stop.

### Fairness

* `HubFairSpec`: weak fairness of the steps of a running command, of `FireAck`, and of a
  waiter's check. These are tasks that are runnable, timers that fire and async mutexes that
  are granted in the order of the requests; tokio does all three. Nothing is assumed of
  callers, gauges or connections.
* `ServerFairSpec` adds weak fairness of each task of a connection. `ReaderReaped` has strong
  fairness: `select!` polls its branches in random order, so a gauge that never stops talking
  does not hide the signal for ever. A send completes or fails; it
  must fail only on a closed link, so that a lost one is noticed by the keepalive alone.
  A lost link carries nothing new, so its `last_seen` grows old once what had arrived is read.
* `AppFairSpec`: weak fairness of `main()`, of each task of a connection on the host, and of the
  gauge's tasks taken together. It assumes neither that a gauge comes nor that a connection holds,
  so `ScriptFinishes` starts where one was seen. In `GaugeExits`, that the telemetry ticks and its
  send then fails is what ends the gauge.
* `Relay`, `Pipeline` and `Timing` state no fairness. `RetryPending` says that a timer is armed,
  which is the relay's part of getting connected; that the timer fires is the browser's. `Timing` has
  deadlines instead: time cannot pass what is due.

## 4. Proofs

All theorems hold for arbitrary sets of connections, commands, events, waiters, gauges,
sockets, relays and ids, and for every capacity and duration. They assume only what the modules'
ASSUMEs say: command and event identifiers are distinct, "none" is no socket, a capacity is a natural
number, a ping with its pong is shorter than the interval, and, for `HostApp`, that the
commands are those of the script and that each gauge is one connection. What `RelayProofs` and
`PipelineProofs` say of commands holds for as many as a relay's ring keeps: both modules have a set
that never evicts in the ring's place, and `PlainSetOfFew` is what justifies it. Beyond that a command that
comes back after its eviction is executed again, and `RingDeduplicates` says how far apart.
Five theorems have a hypothesis of their own, in their statement: that the ids fit in the ring
(`PlainSetOfFew`), that there is one relay (`LoneRelayAnswersRight`), what the durations are
(`ShippedDurations`), and of the behaviour, that an event does not come at the wrong time
(`OnlyTheGapLosesWakeups`, `OnlyLateClosesStray`). The last four say when a statement or a promise of the
source is kept.

**HubProofs.** `HubInv` is the inductive invariant: `HubTypeOK`, `StatusMatchesRegistry`,
`SenderPlace` of each command and `OnlySentTravels`. The properties are not inductive alone.
An ack may be dispatched for any command a gauge received, so that `SenderAccounted` survives
a `DispatchAck` only because a command that is still idle or calling is in no channel:
that is `OnlySentTravels`, which also gives `RefusedNeverSent`. `SenderPlace` says where
the sender is at *every* point of a command's life, including those about which the
property is silent (a returned command's slot, an expired one's). `OrderCorrect` needs that
a message is queued only when it is in no channel yet: it then comes last in all of them, and
no two channels can come to disagree; a writer only passes on or drops the head.
`EmitCorrect` is an action property. `CallsImplementRpc` is the refinement: every step of
the Hub is a step of `Rpc` or a stutter; it is the safety half of the `CallsSettle` that TLC
checks.

`OnlyTheGapLosesWakeups` assumes of the behaviour that nobody registers while a waiter is between its
check and its `notified()`, and then needs the invariant for both places, "checked" and "parked".

**RelayProofs.** `RelayInv` is the type invariant, the four properties of a relay that is up, and `NewIsIdle`: before
`init` nothing is armed, attached or connected. Without it `Start` could attach a second
listener or find a socket it did not make. The proof goes by groups of tasks (life cycle,
`destroy`, sockets, commands), each resting on a lemma about the helper it shares:
`BindStep`, `ConnectStep`, `SettleStep`. `InertCorrect` is inductive as it stands: only `Forward` makes
a request, and it needs the handle that `destroy` drops. `ExchangeKept` needs `AskedFor`: what is
pending was asked for, and nothing that has not arrived; without it a refused command
cannot be told from a settled one. Every request is settled in one way, whoever settles it
(`SettlingStep`), so that two who race settle it once. `OnlyLateClosesStray` assumes of the
behaviour that no close comes after a socket was replaced or the relay destroyed; `NoStraySocket`
then says that only the relay's own socket is live.

**DedupProofs.** `RingInv` adds to the two properties that the ring holds the commands
executed last, in their order (`HoldsTheLast`). A command that is executed is not in the
ring, hence not among the last `Capacity`, and so its previous execution is further away.
`RingRemembers` is a pigeonhole argument on top: were there more than `Capacity` executions of at
most `Capacity` commands, two of the first `Capacity + 1` would be of one command and too close. So the
ring still holds all of them. `PlainSetOfFew` draws the conclusion on which `Relay` and
`Pipeline` rest, which have a plain set in the ring's place: with few ids the two cannot be told apart.

**ServerProofs.** The core is `HubStep`: every step of the connection tasks is a step of the Hub or
leaves it alone. It gives `ServerImplementsHub`, carries `HubInv` over, and with
`CallsImplementRpc` gives `ServerImplementsRpc`. It needs to know that an ack a reader handles is one
its gauge received, which `ServerTypeOK` says of `input` and which stays true because what was
delivered only grows (`Grows`). `HeldByOneReader` is strengthened to `SendersInHands`: taken
senders and firing readers correspond one to one. A second reader cannot take a sender, because the
first removed it from `pending` (`SenderPlace`, from `HubInv`).

**HostAppProofs.** `Processes` says what may be in a gauge's channel: acks of commands that this
gauge received, as `handle_command` makes them. So the demonstration implements `Hub`
(`AppHubStep`), and `Ends` follows an answer from the channel to the reader, the slot and the result;
`OwnAnswers` is what it says of results.

**PipelineProofs.** An answer is traced to something that ran (`Traced`), from there to the request
that asked for it (`Asked`), which is the only one of its relay for that command and
under that id (`OneRequest`). If ids of different relays differ, the response a relay
takes is therefore one to its own request. `RunsOncePerRelay` follows from `Asked`, since what ran
is no longer on the call event, and `OneRequest`. `ExchangesKept` needs the same invariant: a
request that goes leaves no other of its relay for that command (`SettlesOne`), and none is made for a
command that was marked (`TakesOne`). With one relay all ids are its own, hence `LoneRelayAnswersRight`.

**TimingProofs.** Each property bounds one clock by another: what a clock can show is what is left of
the interval until something resets it. `Pings`: the age of a ping that is out and the time
to the next tick make up the interval. `Quiet`: a client's silence and the time to its next tick stay
within timeout and interval, and for a gauge that answers within the interval. `Writers`: the same
for a writer that died. `Calls`: the host's clock shows the sum of the stages. `ShippedDurations`
puts the defaults of `ServerConfig` and of the relays into the three that have a condition.

**Only model-checked.** Liveness is out of the prover's reach: `CallsSettle`'s fairness,
`ParkedWaiterIsWoken`, `StrandedIsClosed`, `LostLinkIsClosed`, `ScriptFinishes`, `GaugeExits`. Every
safety property of the passing runs is proved.

## 5. What is not modelled

* The encoding of messages, `BridgeError`'s constructors, configuration, logging, HTTP routes.
* The instrument shell, which keeps no state, and two illustrations: wasm_gauge_example.rs is
  one block comment, cohierent.ts a use of the relay that `Relay` includes.
* Parsers and malformed input: a text that does not parse is dropped and changes nothing but the
  sign of life, and an envelope that does not parse is dropped by the module.
* When a blocked send fails (server.rs:326): TCP's timers decide, and a send in the models
  completes or fails in the end.
* In `Hub` and `Server`, pings and pongs as messages: they share the channels but reorder nothing, and
  whether one was answered in time is `GoStale`'s choice there. `Timing` has them.
* The order of the locks: critical sections are atomic. `command` takes `pending` inside `clients`
  (hub.rs:211), and no path takes the two in the other order.
* `connection_status`'s subscribers, `connected_clients`, `is_ready`: they only read.
* In `Relay` a request is named by its command and the ring is larger than the set of
  commands, so that no id is evicted (`PlainSetOfFew`): eviction is `DedupRing`'s subject, ids are
  `Pipeline`'s. In
  `Pipeline` a relay has started and knows its CommBus: that is `Relay`'s subject.
* In `Timing` a round of a ping task is one step, and tasks that can run take no time. How the tasks
  interleave between two instants is `Server`'s subject. A keepalive whose ping and pong take longer
  than `ping_interval` is outside its assumption.

## 6. What could be added

Composing `Relay` with `Pipeline`, so that a relay that starts, binds and is destroyed meets the
other's requests, multiplies two large state spaces for properties that either has alone;
`Exchange` is what they share, and each implements it. `Pipeline`'s relays could further be shown to
implement `Relay` itself, with its sockets and timers hidden. The Rust code has no
component left whose state no module has.
