------------------------------- MODULE Relay -------------------------------
(***************************************************************************)
(* The relay that runs in the gauge's Coherent panel, between the host's   *)
(* WebSocket and the WASM module's CommBus (ts/infinity-bridge-relay/src/  *)
(* relay.ts and rescript/infinity-bridge-relay/src/BridgeRelay.res).       *)
(*                                                                         *)
(* JavaScript runs one task at a time: one action is one task - a call of  *)
(* init or destroy, a socket event, a timer, a message, a rejected promise *)
(* - with everything it calls.  A request is named by its command, since a *)
(* relay forwards a command at most once; the ring of ids is larger than   *)
(* Cmds, so that `seen` loses none (DedupRing is about eviction).          *)
(*                                                                         *)
(* The two implementations differ in destroy and in what a late            *)
(* continuation does: `impl` says which one runs.                          *)
(***************************************************************************)
EXTENDS Naturals, FiniteSets, Sequences

CONSTANTS
    Cmds,      \* commands of the host
    Sockets    \* bound: the WebSocket objects one relay may create

ASSUME NoneIsNoSocket == "none" \notin Sockets

VARIABLES
    impl,          \* "ts" or "rescript"
    life,          \* whether init and destroy have been called
    bus,           \* commBus is there
    bound,         \* commBusBound
    listeners,     \* response listeners attached to the CommBus
    continuation,  \* RegisterViewListener's callback
    bindTimer,     \* bindRetryTimerId is set
    ws,            \* the socket the relay refers to
    sock,          \* state of each WebSocket object; its handlers stay attached
    told,          \* readiness the host was last told over each socket
    wsTimer,       \* wsRetryTimerId is set
    seen,          \* ids in the dedup ring
    pending,       \* commands whose request is in the pending map
    timers,        \* commands whose request timer is armed
    called,        \* what became of the CommBus call of each command
    acks,          \* acks produced for each command, duplicates' apart
    got            \* commands that arrived over each socket

binding   == <<bus, bound, listeners, continuation, bindTimer>>
sockets   == <<ws, sock, told, wsTimer>>
requests  == <<seen, pending, timers, called, acks, got>>
relayVars == <<impl, life, binding, sockets, requests>>

Verdicts == {"ok", "err", "timeout", "unbound", "not_ready", "destroyed"}
Live(s) == sock[s] \in {"connecting", "open"}
IsOpen(state, s) == s # "none" /\ state[s] = "open"
Readiness(flag) == IF flag THEN "ready" ELSE "unready"

\* The relay refers to a socket only while that socket may still be used.
RelayTypeOK ==
    /\ impl \in {"ts", "rescript"}
    /\ life \in {"new", "up", "destroyed"}
    /\ bus \in BOOLEAN /\ bound \in BOOLEAN /\ listeners \in Nat
    /\ continuation \in {"none", "due", "fired"}
    /\ bindTimer \in BOOLEAN /\ wsTimer \in BOOLEAN
    /\ sock \in [Sockets -> {"unused", "connecting", "open", "errored", "closing", "closed"}]
    /\ ws \in Sockets \cup {"none"} /\ (ws # "none" => Live(ws))
    /\ told \in [Sockets -> {"none", "ready", "unready"}]
    /\ seen \subseteq Cmds /\ pending \subseteq seen /\ timers \subseteq seen
    /\ called \in [Cmds -> {"none", "out", "rejected"}]
    /\ acks \in [Cmds -> Seq(Verdicts)]
    /\ got \in [Sockets -> SUBSET Cmds]

RelayInit ==
    /\ impl \in {"ts", "rescript"}
    /\ life = "new"
    /\ bus = FALSE /\ bound = FALSE /\ listeners = 0
    /\ continuation = "none" /\ bindTimer = FALSE
    /\ ws = "none" /\ wsTimer = FALSE
    /\ sock = [s \in Sockets |-> "unused"]
    /\ told = [s \in Sockets |-> "none"]
    /\ seen = {} /\ pending = {} /\ timers = {}
    /\ called = [c \in Cmds |-> "none"]
    /\ acks = [c \in Cmds |-> <<>>]
    /\ got = [s \in Sockets |-> {}]

----------------------------------------------------------------------------
(* Parts of tasks.                                                         *)

\* wsSend of the ready event: it goes over the relay's socket if that is open.
SendReady(state, flag) ==
    told' = IF IsOpen(state, ws) THEN [told EXCEPT ![ws] = Readiness(flag)] ELSE told

\* Mutation: every path that may bind does.
BindAgain ==
    \/ /\ bound' = TRUE /\ listeners' = listeners + 1
       /\ SendReady(sock, TRUE)
    \/ UNCHANGED <<bound, listeners, told>>

\* on() attaches the listener or throws, which leaves everything as it is.
BindCommBus ==
    \/ /\ ~ bound
       /\ bound' = TRUE /\ listeners' = listeners + 1
       /\ SendReady(sock, TRUE)
    \/ UNCHANGED <<bound, listeners, told>>

\* Called with no retry timer set: one is set unless there is nothing to retry.
ScheduleBindRetry == bindTimer' = ~ bound'

\* new WebSocket throws, or its events will follow.
ConnectWs ==
    \/ /\ ws # "none" /\ Live(ws)
       /\ wsTimer' = FALSE
       /\ UNCHANGED <<ws, sock>>
    \/ /\ ~ (ws # "none" /\ Live(ws))
       /\ \/ \E s \in Sockets :
                /\ sock[s] = "unused"
                /\ ws' = s /\ sock' = [sock EXCEPT ![s] = "connecting"]
                /\ wsTimer' = FALSE
          \/ ws' = "none" /\ wsTimer' = TRUE /\ UNCHANGED sock

\* The request of c leaves the map, its timer is cleared, the host gets an ack.
Settle(c, verdict) ==
    /\ pending' = pending \ {c}
    /\ timers' = timers \ {c}
    /\ acks' = [acks EXCEPT ![c] = Append(@, verdict)]

----------------------------------------------------------------------------
(* init and destroy.                                                       *)

\* A continuation that runs at once finds no handle, and does nothing.
Start ==
    /\ life = "new"
    /\ life' = "up"
    /\ ConnectWs
    /\ continuation' \in {"due", "fired"}
    /\ bus' = TRUE
    /\ BindCommBus
    /\ ScheduleBindRetry
    /\ UNCHANGED <<impl, requests>>

\* Mutation: the continuation binds the handle it has, whatever has happened since.
ContinueRegardless ==
    /\ continuation = "due"
    /\ continuation' = "fired"
    /\ BindCommBus
    /\ UNCHANGED <<impl, life, bus, bindTimer, ws, sock, wsTimer, requests>>

\* The sim runtime has connected the view listener.  The TypeScript closure keeps
\* the handle; the ReScript one needs the handler that destroy drops.
Continue ==
    /\ continuation = "due"
    /\ continuation' = "fired"
    /\ IF impl = "ts" \/ life = "up" THEN BindCommBus ELSE UNCHANGED <<bound, listeners, told>>
    /\ UNCHANGED <<impl, life, bus, bindTimer, ws, sock, wsTimer, requests>>

BindRetry ==
    /\ bindTimer
    /\ IF bus THEN BindCommBus ELSE UNCHANGED <<bound, listeners, told>>
    /\ ScheduleBindRetry
    /\ UNCHANGED <<impl, life, bus, continuation, ws, sock, wsTimer, requests>>

\* Every pending request is rejected, and with it acked.
RejectAll ==
    /\ pending' = {}
    /\ timers' = timers \ pending
    /\ acks' = [c \in Cmds |-> IF c \in pending THEN Append(acks[c], "destroyed") ELSE acks[c]]
    /\ UNCHANGED <<seen, called, got>>

\* off() detaches the listener, or throws and is caught.
Unhook ==
    /\ bus' = FALSE /\ bound' = FALSE
    /\ listeners' = listeners \/ (bound /\ listeners' = listeners - 1)

\* The socket closes in its own time, with its handlers still attached.
CleanupWs ==
    /\ wsTimer' = FALSE
    /\ ws' = "none"
    /\ sock' = IF ws = "none" THEN sock ELSE [sock EXCEPT ![ws] = "closing"]

Destroy ==
    /\ life = "up"
    /\ life' = "destroyed"
    /\ RejectAll /\ Unhook /\ CleanupWs
    /\ bindTimer' = FALSE
    /\ UNCHANGED <<impl, continuation, told>>

\* unregister() throws, and only the ReScript relay catches that.
DestroyThrows ==
    /\ impl = "ts" /\ life = "up"
    /\ life' = "destroyed"
    /\ RejectAll
    /\ bindTimer' = FALSE
    /\ listeners' = listeners \/ (bound /\ listeners' = listeners - 1)
    /\ UNCHANGED <<impl, bus, bound, continuation, sockets>>

----------------------------------------------------------------------------
(* The socket.                                                             *)

\* Mutation: the reconnected relay only introduces itself.
OpenWithoutReady(s) ==
    /\ sock[s] = "connecting"
    /\ sock' = [sock EXCEPT ![s] = "open"]
    /\ UNCHANGED <<impl, life, binding, ws, told, wsTimer, requests>>

\* onopen says hello and ready over the socket the relay refers to.
Open(s) ==
    /\ sock[s] = "connecting"
    /\ sock' = [sock EXCEPT ![s] = "open"]
    /\ SendReady(sock', bound)
    /\ UNCHANGED <<impl, life, binding, ws, wsTimer, requests>>

\* Mutation: onerror leaves the work to an onclose that need not come.
ErrorWaitsForClose(s) ==
    /\ Live(s)
    /\ sock' = [sock EXCEPT ![s] = "errored"]
    /\ ws' = "none"
    /\ UNCHANGED <<impl, life, binding, told, wsTimer, requests>>

\* Mutation: onerror schedules a reconnect and keeps the dead socket.
ErrorKeepsSocket(s) ==
    /\ Live(s)
    /\ sock' = [sock EXCEPT ![s] = "errored"]
    /\ wsTimer' = TRUE
    /\ UNCHANGED <<impl, life, binding, ws, told, requests>>

\* onerror, whether or not an onclose follows.
Error(s) ==
    /\ Live(s)
    /\ sock' = [sock EXCEPT ![s] = "errored"]
    /\ ws' = "none" /\ wsTimer' = TRUE
    /\ UNCHANGED <<impl, life, binding, told, requests>>

\* onclose clears the relay's reference, whichever socket it belongs to.
Close(s) ==
    /\ sock[s] \in {"open", "closing", "errored"}
    /\ sock' = [sock EXCEPT ![s] = "closed"]
    /\ ws' = "none" /\ wsTimer' = TRUE
    /\ UNCHANGED <<impl, life, binding, told, requests>>

Reconnect ==
    /\ wsTimer
    /\ ConnectWs
    /\ UNCHANGED <<impl, life, binding, told, requests>>

----------------------------------------------------------------------------
(* Commands.                                                               *)

Arrive(s, c) ==
    /\ sock[s] = "open"
    /\ c \notin got[s]
    /\ got' = [got EXCEPT ![s] = @ \cup {c}]

\* Acked at once, as a success.
Duplicate(s, c) ==
    /\ Arrive(s, c)
    /\ c \in seen
    /\ UNCHANGED <<impl, life, binding, sockets, seen, pending, timers, called, acks>>

\* Mutation: a command that is not pending any more may be asked for again.
ForwardAgain(s, c) ==
    /\ Arrive(s, c)
    /\ c \notin pending /\ bus
    /\ seen' = seen \cup {c}
    /\ pending' = pending \cup {c}
    /\ timers' = timers \cup {c}
    /\ BindCommBus
    /\ called' = [called EXCEPT ![c] = "out"]
    /\ UNCHANGED <<impl, life, bus, continuation, bindTimer, ws, sock, wsTimer, acks>>

\* Marked, given a request, a timer and - with a CommBus - a call.
Forward(s, c) ==
    /\ Arrive(s, c)
    /\ c \notin seen /\ bus
    /\ seen' = seen \cup {c}
    /\ pending' = pending \cup {c}
    /\ timers' = timers \cup {c}
    /\ BindCommBus
    /\ called' = [called EXCEPT ![c] = "out"]
    /\ UNCHANGED <<impl, life, bus, continuation, bindTimer, ws, sock, wsTimer, acks>>

RefuseNotReady(s, c) ==
    /\ Arrive(s, c)
    /\ c \notin seen /\ ~ bus
    /\ seen' = seen \cup {c}
    /\ acks' = [acks EXCEPT ![c] = Append(@, "not_ready")]
    /\ UNCHANGED <<impl, life, binding, sockets, pending, timers, called>>

\* Mutation: the timer acks and leaves the request to be answered again.
TimeoutKeepsRequest(c) ==
    /\ c \in timers
    /\ timers' = timers \ {c}
    /\ acks' = [acks EXCEPT ![c] = Append(@, IF bound THEN "timeout" ELSE "unbound")]
    /\ UNCHANGED <<impl, life, binding, sockets, seen, pending, called, got>>

RequestTimeout(c) ==
    /\ c \in timers
    /\ Settle(c, IF bound THEN "timeout" ELSE "unbound")
    /\ UNCHANGED <<impl, life, binding, sockets, seen, called, got>>

\* The module may answer late, several times (several modules listen to one event),
\* or never; what is not pending any more is dropped.
Respond(c, verdict) ==
    /\ called[c] # "none" /\ listeners > 0
    /\ c \in pending
    /\ Settle(c, verdict)
    /\ UNCHANGED <<impl, life, binding, sockets, seen, called, got>>

CallRejected(c) ==
    /\ called[c] = "out"
    /\ called' = [called EXCEPT ![c] = "rejected"]
    /\ IF c \in pending THEN Settle(c, "err") ELSE UNCHANGED <<pending, timers, acks>>
    /\ UNCHANGED <<impl, life, binding, sockets, seen, got>>

----------------------------------------------------------------------------
RelayNext ==
    \/ Start \/ Continue \/ BindRetry \/ Destroy \/ DestroyThrows \/ Reconnect
    \/ \E s \in Sockets :
          \/ Open(s) \/ Error(s) \/ Close(s)
          \/ \E c \in Cmds : Duplicate(s, c) \/ Forward(s, c) \/ RefuseNotReady(s, c)
    \/ \E c \in Cmds :
          \/ RequestTimeout(c) \/ CallRejected(c)
          \/ \E v \in {"ok", "err"} : Respond(c, v)

RelaySpec == RelayInit /\ [][RelayNext]_relayVars

----------------------------------------------------------------------------
(* Safety                                                                  *)

\* A command that arrived is pending, with its timer armed and no ack, or it was
\* acked once and nothing of its request is left, whatever raced to answer it: the
\* module, the rejected call, the timer, destroy (relay.ts:213,397,457,170).
RequestAccounted ==
    \A c \in Cmds :
       /\ c \in pending <=> c \in timers
       /\ Len(acks[c]) = IF c \in seen \ pending THEN 1 ELSE 0

\* While the relay is up and not bound, or without a socket, a timer will try again:
\* neither a lost race nor an error without a close leaves it deaf (relay.ts:126,282).
RetryPending ==
    life = "up" => (bound \/ bindTimer) /\ (ws # "none" \/ wsTimer)

\* Of all the paths that bind, exactly one attaches the listener (relay.ts:112-114):
\* no response and no event of the module is handled twice.
OneListener == life = "up" => bus /\ listeners = IF bound THEN 1 ELSE 0

\* The host at the other end of the relay's socket knows whether it is bound,
\* however bind and open were ordered (relay.ts:152-158).
HostKnowsReadiness == IsOpen(sock, ws) => told[ws] = Readiness(bound)

\* A destroyed relay may come back to the host, but not to the module: it holds no
\* request, retries no bind, and the ReScript relay stays unbound when its continuation
\* runs late, so that the host learns it is not ready.  It is the TypeScript relay whose
\* unregister() threw that goes on asking the module (BridgeRelay.res:474-477,485,508).
DestroyedIsInert ==
    life = "destroyed" =>
       /\ ~ bindTimer
       /\ impl = "rescript" => ~ bus /\ ~ bound
       /\ ~ bus => pending = {}

\* The commands, as the promise of Exchange has them.
Phase(c) ==
    IF c \in pending THEN "pending"
    ELSE IF c \notin seen THEN "new"
    ELSE IF called[c] = "none" THEN "refused" ELSE "settled"

Phases == [c \in Cmds |-> Phase(c)]

Promise == INSTANCE Exchange WITH phase <- Phases

\* From init to after destroy, over all sockets, each command is asked for once or
\* refused for good, and what is settled does not come back (relay.ts:373-468).
ImplementsExchange == Promise!Spec

----------------------------------------------------------------------------
(* What the source says and the model refutes                              *)

\* relay.ts:284, "a following `onclose` is harmless": the relay has one socket at a
\* time.  Refuted: an onclose that follows the reconnect drops the new socket, which
\* stays open with its handlers, and a second one is made.
OneLiveSocket == life = "up" => Cardinality({s \in Sockets : Live(s)}) <= 1

\* BridgeRelay.res:514, "Cancel any pending reconnect and close the socket": nothing
\* of a destroyed relay is connected or about to be.  Refuted: the socket that destroy
\* closes calls onclose, which schedules a reconnect.
DestroyIsFinal ==
    impl = "rescript" /\ life = "destroyed" => ~ wsTimer /\ ~ \E s \in Sockets : Live(s)
============================================================================
