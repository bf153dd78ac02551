-------------------------------- MODULE Hub --------------------------------
(***************************************************************************)
(* The host's Hub (crates/infinity-bridge-host/src/hub.rs): the registry   *)
(* of gauge connections, the commands waiting for an ack, the events sent  *)
(* to every gauge and the callers of wait_connected.                       *)
(*                                                                         *)
(* One action is one critical section: what a method does while it holds   *)
(* the `clients` lock, or the `pending` lock, or between two awaits.       *)
(* Methods of several sections are several actions, so that the tasks that *)
(* share the Hub interleave exactly where the runtime may switch them.     *)
(*                                                                         *)
(* What calls the Hub is open here: connections come and go, acks arrive   *)
(* for any command a gauge has received, at any time and any number of     *)
(* times.  Server closes it with the tasks of server.rs.                   *)
(***************************************************************************)
EXTENDS Naturals, Sequences

CONSTANTS
    Conns,     \* the connections that can be made; each gets an id of its own
    Cmds,      \* the calls of Hub::command, one UUID each
    Events,    \* the calls of Hub::emit
    Waiters    \* the calls of Hub::wait_connected

ASSUME MessagesDisjoint == Cmds \cap Events = {}

VARIABLES
    used,      \* ids next_id has handed out
    clients,   \* keys of the `clients` map
    hello,     \* clients whose hello is Some
    ready,     \* clients whose ready flag is set
    stale,     \* clients whose last_seen is older than the ping timeout
    status,    \* value of the connection_tx watch channel
    pc,        \* where each command is, in the end its result
    pending,   \* keys of the `pending` map
    held,      \* ack a reader took out of `pending` for, and has not yet sent
    slot,      \* ack sent into the oneshot channel of the command
    outbox,    \* messages queued in each connection's mpsc channel
    closed,    \* connections whose channel receiver (the writer task) is gone
    received,  \* messages the gauge at the far end has received
    emitted,   \* result of each emit
    waiter     \* where each wait_connected call is

registry == <<used, clients, hello, ready, stale, status>>
calls    == <<pc, pending, held, slot>>
wires    == <<outbox, closed, received>>
hubVars  == <<registry, calls, wires, emitted, waiter>>

Acks     == {"ok", "err"}                     \* the `ok` flag of an AckPayload
Refusals == {"no_clients", "transport"}
Running  == {"calling", "waiting", "acked", "expired"}
Messages == Cmds \cup Events

\* The registry's flags belong to registered connections, and those have an id.
HubTypeOK ==
    /\ used \subseteq Conns
    /\ clients \subseteq used
    /\ hello \subseteq clients /\ ready \subseteq clients /\ stale \subseteq clients
    /\ status \in BOOLEAN
    /\ pc \in [Cmds -> {"idle", "ok", "application", "timeout", "cancelled"}
                         \cup Running \cup Refusals]
    /\ pending \subseteq Cmds
    /\ held \in [Cmds -> Acks \cup {"none"}]
    /\ slot \in [Cmds -> Acks \cup {"none"}]
    /\ outbox \in [Conns -> Seq(Messages)]
    /\ closed \subseteq Conns
    /\ received \in [Conns -> Seq(Messages)]
    /\ emitted \in [Events -> {"idle", "ok"} \cup Refusals]
    /\ waiter \in [Waiters -> {"idle", "checking", "checked", "parked", "returned"}]

HubInit ==
    /\ used = {} /\ clients = {} /\ hello = {} /\ ready = {} /\ stale = {}
    /\ status = FALSE
    /\ pc = [c \in Cmds |-> "idle"]
    /\ pending = {}
    /\ held = [c \in Cmds |-> "none"]
    /\ slot = [c \in Cmds |-> "none"]
    /\ outbox = [k \in Conns |-> <<>>]
    /\ closed = {}
    /\ received = [k \in Conns |-> <<>>]
    /\ emitted = [e \in Events |-> "idle"]
    /\ waiter = [w \in Waiters |-> "idle"]

----------------------------------------------------------------------------
(* The registry of connections, every section under the `clients` lock.    *)

\* The entries of S leave the map.
Remove(S) ==
    /\ clients' = clients \ S
    /\ hello' = hello \ S
    /\ ready' = ready \ S
    /\ stale' = stale \ S

\* Mutation: the new connection is announced on the watch channel only.
RegisterWithoutNotify(k) ==
    /\ k \notin used
    /\ used' = used \cup {k}
    /\ clients' = clients \cup {k}
    /\ status' = TRUE
    /\ UNCHANGED <<hello, ready, stale, calls, wires, emitted, waiter>>

\* Mutation: the id counter is read but not advanced.
RegisterReusesId(k) ==
    /\ k \notin used
    /\ clients' = clients \cup {k}
    /\ status' = TRUE
    /\ waiter' = [w \in Waiters |-> IF waiter[w] = "parked" THEN "checking"
                                                           ELSE waiter[w]]
    /\ UNCHANGED <<used, hello, ready, stale, calls, wires, emitted>>

\* notify_waiters wakes the calls parked at this moment and stores no permit.
RegisterClient(k) ==
    /\ k \notin used
    /\ used' = used \cup {k}
    /\ clients' = clients \cup {k}
    /\ status' = TRUE
    /\ waiter' = [w \in Waiters |-> IF waiter[w] = "parked" THEN "checking"
                                                           ELSE waiter[w]]
    /\ UNCHANGED <<hello, ready, stale, calls, wires, emitted>>

\* The setters look the id up, and do nothing for one that was removed.
SetClientHello(k) ==
    /\ hello' = hello \cup ({k} \cap clients)
    /\ UNCHANGED <<used, clients, ready, stale, status, calls, wires, emitted, waiter>>

SetClientReady(k, r) ==
    /\ ready' = IF r THEN ready \cup ({k} \cap clients) ELSE ready \ {k}
    /\ UNCHANGED <<used, clients, hello, stale, status, calls, wires, emitted, waiter>>

TouchClient(k) ==
    /\ stale' = stale \ {k}
    /\ UNCHANGED <<used, clients, hello, ready, status, calls, wires, emitted, waiter>>

\* Time: nothing was heard from k for longer than the ping timeout.
GoStale(k) ==
    /\ k \in clients
    /\ stale' = stale \cup {k}
    /\ UNCHANGED <<used, clients, hello, ready, status, calls, wires, emitted, waiter>>

\* Mutation: the channel reports the loss of any connection.
UnregisterReportsLoss(k) ==
    /\ Remove({k})
    /\ status' = FALSE
    /\ UNCHANGED <<used, calls, wires, emitted, waiter>>

UnregisterClient(k) ==
    /\ Remove({k})
    /\ status' = (clients' # {})
    /\ UNCHANGED <<used, calls, wires, emitted, waiter>>

\* Removes every stale entry, whichever connection's ping task runs it.
ReapDeadClients ==
    /\ Remove(stale)
    /\ status' = IF stale # {} THEN clients' # {} ELSE status
    /\ UNCHANGED <<used, calls, wires, emitted, waiter>>

----------------------------------------------------------------------------
(* The channel of a connection, between the Hub and its writer task.       *)

Enqueue(S, m) ==
    outbox' = [k \in Conns |-> IF k \in S THEN Append(outbox[k], m) ELSE outbox[k]]

\* Mutation: a message that could not be sent is put back into the channel.
WriterPutsBack(k) ==
    /\ outbox[k] # <<>>
    /\ \/ /\ outbox' = [outbox EXCEPT ![k] = Tail(@)]
          /\ received' = [received EXCEPT ![k] = Append(@, Head(outbox[k]))]
       \/ /\ outbox' = [outbox EXCEPT ![k] = Append(Tail(@), Head(@))]
          /\ UNCHANGED received
    /\ UNCHANGED <<registry, calls, closed, emitted, waiter>>

\* The writer takes the next message; the gauge receives it, or the link ate it.
WriterTake(k) ==
    /\ outbox[k] # <<>>
    /\ outbox' = [outbox EXCEPT ![k] = Tail(@)]
    /\ \/ received' = [received EXCEPT ![k] = Append(@, Head(outbox[k]))]
       \/ UNCHANGED received
    /\ UNCHANGED <<registry, calls, closed, emitted, waiter>>

\* The writer ends; what is still queued is dropped with the receiver.
WriterEnd(k) ==
    /\ k \in used \ closed
    /\ closed' = closed \cup {k}
    /\ outbox' = [outbox EXCEPT ![k] = <<>>]
    /\ UNCHANGED <<registry, calls, received, emitted, waiter>>

----------------------------------------------------------------------------
(* Hub::command.                                                           *)

\* The clients a command goes to: the ready ones, everyone if none is ready.
Targets == IF ready # {} THEN ready ELSE clients

Command(c) ==
    /\ pc[c] = "idle"
    /\ pc' = [pc EXCEPT ![c] = "calling"]
    /\ pending' = pending \cup {c}
    /\ UNCHANGED <<registry, held, slot, wires, emitted, waiter>>

RefuseCommand(c) ==
    /\ pc[c] = "calling"
    /\ Targets \subseteq closed
    /\ pc' = [pc EXCEPT ![c] = IF clients = {} THEN "no_clients" ELSE "transport"]
    /\ pending' = pending \ {c}
    /\ UNCHANGED <<registry, held, slot, wires, emitted, waiter>>

\* Mutation: a command is sent although a target cannot take it, and then refused.
SendThenRefuse(c) ==
    /\ pc[c] = "calling"
    /\ ~ Targets \subseteq closed
    /\ Enqueue(Targets \ closed, c)
    /\ pc' = [pc EXCEPT ![c] = IF Targets \cap closed # {} THEN "transport" ELSE "waiting"]
    /\ UNCHANGED <<registry, pending, held, slot, closed, received, emitted, waiter>>

SendCommand(c) ==
    /\ pc[c] = "calling"
    /\ ~ Targets \subseteq closed
    /\ Enqueue(Targets \ closed, c)
    /\ pc' = [pc EXCEPT ![c] = "waiting"]
    /\ UNCHANGED <<registry, pending, held, slot, closed, received, emitted, waiter>>

\* tokio's timeout polls the channel before the clock: a filled slot wins.
TakeAck(c) ==
    /\ pc[c] = "waiting"
    /\ slot[c] # "none"
    /\ pc' = [pc EXCEPT ![c] = "acked"]
    /\ UNCHANGED <<registry, pending, held, slot, wires, emitted, waiter>>

\* The timeout drops the oneshot receiver before `pending` is locked again.
Expire(c) ==
    /\ pc[c] = "waiting"
    /\ slot[c] = "none"
    /\ pc' = [pc EXCEPT ![c] = "expired"]
    /\ UNCHANGED <<registry, pending, held, slot, wires, emitted, waiter>>

Outcome(a) == IF a = "ok" THEN "ok" ELSE "application"

\* Mutation: only the path of an ack cleans up.
ReturnLeaksOnTimeout(c) ==
    /\ pc[c] \in {"acked", "expired"}
    /\ pc' = [pc EXCEPT ![c] = IF @ = "expired" THEN "timeout" ELSE Outcome(slot[c])]
    /\ pending' = IF pc[c] = "expired" THEN pending ELSE pending \ {c}
    /\ UNCHANGED <<registry, held, slot, wires, emitted, waiter>>

Return(c) ==
    /\ pc[c] \in {"acked", "expired"}
    /\ pc' = [pc EXCEPT ![c] = IF @ = "expired" THEN "timeout" ELSE Outcome(slot[c])]
    /\ pending' = pending \ {c}
    /\ UNCHANGED <<registry, held, slot, wires, emitted, waiter>>

\* The caller drops the future at one of its awaits; `pending` keeps its entry.
Cancel(c) ==
    /\ pc[c] \in Running
    /\ pc' = [pc EXCEPT ![c] = "cancelled"]
    /\ UNCHANGED <<registry, pending, held, slot, wires, emitted, waiter>>

\* dispatch_ack takes the sender under the lock and uses it after the unlock.
DispatchAck(c, a) ==
    /\ held' = IF c \in pending THEN [held EXCEPT ![c] = a] ELSE held
    /\ pending' = pending \ {c}
    /\ UNCHANGED <<registry, pc, slot, wires, emitted, waiter>>

\* Mutation: the channel accepts an ack after its receiver was dropped.
FireAckLate(c) ==
    /\ held[c] # "none"
    /\ held' = [held EXCEPT ![c] = "none"]
    /\ slot' = [slot EXCEPT ![c] = held[c]]
    /\ UNCHANGED <<registry, pc, pending, wires, emitted, waiter>>

FireAck(c) ==
    /\ held[c] # "none"
    /\ held' = [held EXCEPT ![c] = "none"]
    /\ slot' = IF pc[c] = "waiting" THEN [slot EXCEPT ![c] = held[c]] ELSE slot
    /\ UNCHANGED <<registry, pc, pending, wires, emitted, waiter>>

----------------------------------------------------------------------------
(* Hub::emit and Hub::wait_connected.                                      *)

\* Mutation: every failed send but one is overlooked.
EmitMiscounts(e) ==
    /\ emitted[e] = "idle"
    /\ Enqueue(clients \ closed, e)
    /\ emitted' = [emitted EXCEPT ![e] = IF clients = {} THEN "no_clients" ELSE "ok"]
    /\ UNCHANGED <<registry, calls, closed, received, waiter>>

Emit(e) ==
    /\ emitted[e] = "idle"
    /\ Enqueue(clients \ closed, e)
    /\ emitted' = [emitted EXCEPT ![e] =
                     IF clients = {} THEN "no_clients"
                     ELSE IF clients \subseteq closed THEN "transport" ELSE "ok"]
    /\ UNCHANGED <<registry, calls, closed, received, waiter>>

WaitConnected(w) ==
    /\ waiter[w] = "idle"
    /\ waiter' = [waiter EXCEPT ![w] = "checking"]
    /\ UNCHANGED <<registry, calls, wires, emitted>>

CheckConnected(w) ==
    /\ waiter[w] = "checking"
    /\ waiter' = [waiter EXCEPT ![w] = IF clients # {} THEN "returned" ELSE "checked"]
    /\ UNCHANGED <<registry, calls, wires, emitted>>

\* Only now does notified() start to listen for notify_waiters.
Park(w) ==
    /\ waiter[w] = "checked"
    /\ waiter' = [waiter EXCEPT ![w] = "parked"]
    /\ UNCHANGED <<registry, calls, wires, emitted>>

----------------------------------------------------------------------------
\* A gauge acks the commands it has received, as often as it likes.
Delivered(k) == {received[k][i] : i \in DOMAIN received[k]}

Registry ==
    \/ ReapDeadClients
    \/ \E k \in Conns :
          \/ RegisterClient(k) \/ GoStale(k)
          \/ /\ k \in used
             /\ \/ SetClientHello(k) \/ TouchClient(k) \/ UnregisterClient(k)
                \/ \E r \in BOOLEAN : SetClientReady(k, r)

Channels == \E k \in Conns : WriterTake(k) \/ WriterEnd(k)

Proceed(c) == RefuseCommand(c) \/ SendCommand(c) \/ TakeAck(c) \/ Expire(c) \/ Return(c)

Gauge ==
    \E k \in Conns, c \in Cmds, a \in Acks : c \in Delivered(k) /\ DispatchAck(c, a)

HubNext ==
    \/ Registry
    \/ Channels
    \/ Gauge
    \/ \E c \in Cmds : Command(c) \/ Proceed(c) \/ FireAck(c) \/ Cancel(c)
    \/ \E e \in Events : Emit(e)
    \/ \E w \in Waiters : WaitConnected(w) \/ CheckConnected(w) \/ Park(w)

HubSpec == HubInit /\ [][HubNext]_hubVars

(* A task that can run is run (tokio), timers fire, and the async mutexes   *)
(* are granted in the order they are asked for; nothing is assumed of       *)
(* callers, gauges and connections.                                         *)
HubFairSpec ==
    /\ HubSpec
    /\ \A c \in Cmds : WF_hubVars(Proceed(c)) /\ WF_hubVars(FireAck(c))
    /\ \A w \in Waiters : WF_hubVars(CheckConnected(w) \/ Park(w))

----------------------------------------------------------------------------
(* Safety                                                                  *)

\* connection_status() and is_connected() never disagree between two sections:
\* the channel is written under the lock that guards the map (hub.rs:62,78,103).
StatusMatchesRegistry == status = (clients # {})

\* A command that is waiting can still be answered, or already was: its oneshot
\* sender is in `pending`, in the hands of one reader, or used - and in one place.
\* Once its future has returned, nothing of it is left in `pending` (hub.rs:246).
SenderAccounted ==
    \A c \in Cmds :
       /\ pc[c] \in {"calling", "waiting", "acked"} =>
             /\ c \in pending \/ held[c] # "none" \/ slot[c] # "none"
             /\ ~ (c \in pending /\ held[c] # "none")
             /\ ~ (c \in pending /\ slot[c] # "none")
             /\ ~ (held[c] # "none" /\ slot[c] # "none")
       /\ c \in pending => pc[c] \in Running \cup {"cancelled"}

Sent(k) == received[k] \o outbox[k]
Precedes(s, m, n) == \E i, j \in DOMAIN s : i < j /\ s[i] = m /\ s[j] = n

\* Commands and events reach all gauges in one order, and none reaches a gauge
\* twice: each is queued to everyone in one section under the `clients` lock.
SameOrderEverywhere ==
    \A j, k \in Conns : \A m, n \in Messages :
       ~ (Precedes(Sent(j), m, n) /\ Precedes(Sent(k), n, m))

\* A command or event refused with an error was queued to no gauge, so that its
\* caller may send it again without it being executed twice (hub.rs:233).
RefusedNeverSent ==
    \A k \in Conns : \A i \in DOMAIN Sent(k) :
       LET m == Sent(k)[i] IN
         /\ m \in Cmds => pc[m] \notin Refusals
         /\ m \in Events => emitted[m] \notin Refusals

\* An event reported sent went to a connection that was registered and whose
\* writer was there (server.rs:131: dispatched to at least one gauge).
EmitOkReachedAWriter ==
    [][\A e \in Events : emitted[e] = "idle" /\ emitted'[e] = "ok" =>
          \E k \in clients \ closed : \E i \in DOMAIN outbox'[k] : outbox'[k][i] = e]_hubVars

(* Calls, as their callers see them.                                       *)
Abstract == INSTANCE Rpc WITH
    outcome <- [c \in Cmds |-> IF pc[c] \in {"waiting", "acked", "expired"} THEN "open"
                                                                          ELSE pc[c]],
    answer <- slot

\* command(), dispatch_ack and the timer implement Rpc, whatever they race with.
ImplementsRpc == Abstract!Spec

\* ... and every call settles.
CallsSettle == Abstract!FairSpec

----------------------------------------------------------------------------
(* Liveness of wait_connected                                              *)

Connected == clients # {}

\* A call that waits while nobody is connected returns after the next connection,
\* if that connection lasts.
ParkedWaiterIsWoken ==
    \A w \in Waiters :
       (waiter[w] = "parked" /\ ~ Connected /\ [](Connected => []Connected) /\ <>Connected)
          ~> waiter[w] = "returned"

----------------------------------------------------------------------------
(* What the source says and the model refutes                              *)

\* server.rs:165, "Wait until at least one gauge connects": a call returns once a
\* connection lasts.  Refuted: notify_waiters between CheckConnected and Park
\* wakes nobody, and the call sleeps although a gauge is connected.
WaitConnectedReturns ==
    \A w \in Waiters : <>[]Connected => (waiter[w] = "checking" ~> waiter[w] = "returned")
============================================================================
