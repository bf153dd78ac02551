------------------------------- MODULE Server -------------------------------
(***************************************************************************)
(* The tasks of one WebSocket connection (handle_socket in                 *)
(* crates/infinity-bridge-host/src/server.rs) on top of the Hub they share:*)
(*                                                                         *)
(*   reader   the select loop, then the clean-up that follows it;          *)
(*   writer   drains the connection's channel into the socket; it runs     *)
(*            while the connection is in `used` and not in `closed`;       *)
(*   pinger   reaps silent clients, whoever they are, and pings its own.   *)
(*                                                                         *)
(* The link may break with notice (closed: the reader meets the end) or    *)
(* without (lost: nothing new arrives, and what had arrived is read until  *)
(* the connection is silent).  A gauge acks what it has received; what     *)
(* else it says is any message at any time.                                *)
(* Pings and pongs are in no queue here: they cannot reorder anything, and *)
(* whether one was answered in time is GoStale's choice.                   *)
(***************************************************************************)
EXTENDS Hub

CONSTANT Kinds    \* the kinds of messages gauges send

ASSUME KindsKnown == Kinds \subseteq {"hello", "ready", "ack", "event"}

VARIABLES
    reader,    \* where the reader of each connection is
    input,     \* the message its loop has in hand
    pinger,    \* where the ping task is
    link       \* the TCP connection

tasks      == <<reader, input, pinger, link>>
serverVars == <<hubVars, tasks>>

\* What a gauge says: ready carries its flag; event stands for all the messages
\* that leave the Hub's registry and calls alone (events, pongs, pings, cmds and
\* texts that do not parse).
Said(k) == {m \in [t : {"hello", "event"}] \cup [t : {"ready"}, up : BOOLEAN]
                     \cup [t : {"ack"}, id : Delivered(k), a : Acks] : m.t \in Kinds}
NoInput == [t |-> "none"]

\* A connection has its tasks from the moment it is registered, and a reader has a
\* message in hand exactly while it handles one.
ServerTypeOK ==
    /\ reader \in [Conns -> {"none", "reading", "handling", "firing",
                             "leaving", "joining", "done"}]
    /\ pinger \in [Conns -> {"none", "ticking", "probing", "ended"}]
    /\ link \in [Conns -> {"none", "up", "lost", "closed"}]
    /\ DOMAIN input = Conns
    /\ \A k \in Conns :
          /\ k \in used <=> reader[k] # "none"
          /\ IF reader[k] \in {"handling", "firing"} THEN input[k] \in Said(k)
                                                    ELSE input[k] = NoInput

ServerInit ==
    /\ HubInit
    /\ reader = [k \in Conns |-> "none"]
    /\ input = [k \in Conns |-> NoInput]
    /\ pinger = [k \in Conns |-> "none"]
    /\ link = [k \in Conns |-> "none"]

----------------------------------------------------------------------------
(* The reader.                                                             *)

Accept(k) ==
    /\ reader[k] = "none"
    /\ RegisterClient(k)
    /\ reader' = [reader EXCEPT ![k] = "reading"]
    /\ pinger' = [pinger EXCEPT ![k] = "ticking"]
    /\ link' = [link EXCEPT ![k] = "up"]
    /\ UNCHANGED input

\* What the reader can still get: of a link that is lost, what has arrived before.
Readable(k) == link[k] = "up" \/ (link[k] = "lost" /\ k \notin stale)

\* Any text counts as a sign of life, before it is even parsed.
ReadText(k) ==
    /\ reader[k] = "reading" /\ Readable(k)
    /\ \E m \in Said(k) : input' = [input EXCEPT ![k] = m]
    /\ reader' = [reader EXCEPT ![k] = "handling"]
    /\ TouchClient(k)
    /\ UNCHANGED <<pinger, link>>

\* Mutation: the message of one round is still there in the next.
ResumeWithInput(k) ==
    /\ reader' = [reader EXCEPT ![k] = "reading"]
    /\ UNCHANGED <<input, pinger, link>>

\* The loop goes back to its select.
Resume(k) ==
    /\ reader' = [reader EXCEPT ![k] = "reading"]
    /\ input' = [input EXCEPT ![k] = NoInput]
    /\ UNCHANGED <<pinger, link>>

Handling(k, t) == reader[k] = "handling" /\ input[k].t = t

HandleHello(k) == Handling(k, "hello") /\ SetClientHello(k) /\ Resume(k)

HandleReady(k) == Handling(k, "ready") /\ SetClientReady(k, input[k].up) /\ Resume(k)

HandleEvent(k) == Handling(k, "event") /\ UNCHANGED hubVars /\ Resume(k)

\* dispatch_ack of a command that nobody waits for any more ends here.
HandleAck(k) ==
    /\ Handling(k, "ack")
    /\ DispatchAck(input[k].id, input[k].a)
    /\ IF input[k].id \in pending
       THEN reader' = [reader EXCEPT ![k] = "firing"] /\ UNCHANGED <<input, pinger, link>>
       ELSE Resume(k)

FinishAck(k) == reader[k] = "firing" /\ FireAck(input[k].id) /\ Resume(k)

\* Mutation: select! also covers the handling of a message.
ReapedWhileHandling(k) ==
    /\ reader[k] \in {"reading", "handling", "firing"} /\ pinger[k] = "ended"
    /\ reader' = [reader EXCEPT ![k] = "leaving"]
    /\ UNCHANGED <<hubVars, input, pinger, link>>

\* select!: the ping task fired reaped_tx or ended, which drops it.
ReaderReaped(k) ==
    /\ reader[k] = "reading" /\ pinger[k] = "ended"
    /\ reader' = [reader EXCEPT ![k] = "leaving"]
    /\ UNCHANGED <<hubVars, input, pinger, link>>

ReaderClosed(k) ==
    /\ reader[k] = "reading" /\ link[k] = "closed"
    /\ reader' = [reader EXCEPT ![k] = "leaving"]
    /\ UNCHANGED <<hubVars, input, pinger, link>>

\* Mutation: a reader woken by its ping task takes it that the Hub was told.
LeaveUnlessReaped(k) ==
    /\ reader[k] = "leaving"
    /\ IF pinger[k] = "ended" THEN UNCHANGED hubVars ELSE UnregisterClient(k)
    /\ reader' = [reader EXCEPT ![k] = "joining"]
    /\ pinger' = [pinger EXCEPT ![k] = "ended"]
    /\ UNCHANGED <<input, link>>

\* Mutation: the entry is removed from the map past unregister_client.
LeaveQuietly(k) ==
    /\ reader[k] = "leaving"
    /\ Remove({k})
    /\ reader' = [reader EXCEPT ![k] = "joining"]
    /\ pinger' = [pinger EXCEPT ![k] = "ended"]
    /\ UNCHANGED <<input, link, used, status, calls, wires, emitted, waiter>>

\* Unregister, abort the ping task, drop the reader's own channel sender.
Leave(k) ==
    /\ reader[k] = "leaving"
    /\ UnregisterClient(k)
    /\ reader' = [reader EXCEPT ![k] = "joining"]
    /\ pinger' = [pinger EXCEPT ![k] = "ended"]
    /\ UNCHANGED <<input, link>>

\* The writer has ended: the socket's two halves are dropped, the gauge sees it.
Join(k) ==
    /\ reader[k] = "joining" /\ k \in closed
    /\ reader' = [reader EXCEPT ![k] = "done"]
    /\ link' = [link EXCEPT ![k] = "closed"]
    /\ UNCHANGED <<hubVars, input, pinger>>

----------------------------------------------------------------------------
(* The writer, the ping task and the link.                                 *)

\* A lost link takes the message and nothing arrives.
WriterSend(k) ==
    /\ k \notin closed
    /\ link[k] \in {"up", "lost"}
    /\ WriterTake(k)
    /\ received' # received <=> link[k] = "up"
    /\ UNCHANGED tasks

\* A send fails, also while the reader still has texts that arrived before.
WriterFail(k) ==
    /\ link[k] \in {"lost", "closed"}
    /\ WriterEnd(k)
    /\ UNCHANGED tasks

\* recv() returns None: the queue is empty and both of its senders are dropped.
WriterDrained(k) ==
    /\ outbox[k] = <<>> /\ k \notin clients /\ reader[k] = "joining"
    /\ WriterEnd(k)
    /\ UNCHANGED tasks

PingReap(k) ==
    /\ pinger[k] = "ticking"
    /\ ReapDeadClients
    /\ pinger' = [pinger EXCEPT ![k] = IF k \in stale THEN "ended" ELSE "probing"]
    /\ UNCHANGED <<reader, input, link>>

\* Mutation: a ping that cannot be sent is left for the next tick.
PingSendIgnoresErrors(k) ==
    /\ pinger[k] = "probing"
    /\ pinger' = [pinger EXCEPT ![k] = "ticking"]
    /\ UNCHANGED <<hubVars, reader, input, link>>

\* Mutation: a ping that was sent counts as a sign of life.
PingSendTouches(k) ==
    /\ pinger[k] = "probing"
    /\ pinger' = [pinger EXCEPT ![k] = IF k \in clients \ closed THEN "ticking" ELSE "ended"]
    /\ TouchClient(k)
    /\ UNCHANGED <<reader, input, link>>

\* send_to fails for a client that is not registered or has lost its writer.
PingSend(k) ==
    /\ pinger[k] = "probing"
    /\ pinger' = [pinger EXCEPT ![k] = IF k \in clients \ closed THEN "ticking" ELSE "ended"]
    /\ UNCHANGED <<hubVars, reader, input, link>>

LoseLink(k) ==
    /\ link[k] = "up"
    /\ link' = [link EXCEPT ![k] = "lost"]
    /\ UNCHANGED <<hubVars, reader, input, pinger>>

CloseLink(k) ==
    /\ link[k] \in {"up", "lost"}
    /\ link' = [link EXCEPT ![k] = "closed"]
    /\ UNCHANGED <<hubVars, reader, input, pinger>>

FallSilent(k) == GoStale(k) /\ UNCHANGED tasks

----------------------------------------------------------------------------
Callers ==
    /\ \/ \E c \in Cmds : Command(c) \/ Proceed(c) \/ Cancel(c)
       \/ \E e \in Events : Emit(e)
       \/ \E w \in Waiters : WaitConnected(w) \/ CheckConnected(w) \/ Park(w)
    /\ UNCHANGED tasks

Handle(k) ==
    HandleHello(k) \/ HandleReady(k) \/ HandleEvent(k) \/ HandleAck(k) \/ FinishAck(k)

Write(k) == WriterSend(k) \/ WriterFail(k) \/ WriterDrained(k)

ServerNext ==
    \/ Callers
    \/ \E k \in Conns :
          \/ Accept(k) \/ ReadText(k) \/ Handle(k)
          \/ ReaderReaped(k) \/ ReaderClosed(k) \/ Leave(k) \/ Join(k)
          \/ Write(k) \/ PingReap(k) \/ PingSend(k)
          \/ LoseLink(k) \/ CloseLink(k) \/ FallSilent(k)

ServerSpec == ServerInit /\ [][ServerNext]_serverVars

(* Tasks that can run are run, and intervals tick.  select! polls its        *)
(* branches in random order, so that a steady stream of messages does not    *)
(* hide the ping task's signal for ever (strong fairness of ReaderReaped).   *)
(* A link that is lost carries nothing new, so last_seen grows old; but      *)
(* it need not fail a send, as the operating system may buffer for long.     *)
TaskFairness(k) ==
    /\ WF_serverVars(Handle(k)) /\ SF_serverVars(ReaderReaped(k))
    /\ WF_serverVars(ReaderClosed(k)) /\ WF_serverVars(Leave(k)) /\ WF_serverVars(Join(k))
    /\ WF_serverVars(WriterSend(k) \/ WriterDrained(k))
    /\ WF_serverVars(link[k] = "closed" /\ WriterFail(k))
    /\ WF_serverVars(PingReap(k)) /\ WF_serverVars(PingSend(k))
    /\ WF_serverVars(link[k] = "lost" /\ FallSilent(k))

ServerFairSpec ==
    /\ ServerSpec
    /\ \A k \in Conns : TaskFairness(k)
    /\ \A c \in Cmds : WF_serverVars(Proceed(c) /\ UNCHANGED tasks)
    /\ \A w \in Waiters : WF_serverVars((CheckConnected(w) \/ Park(w)) /\ UNCHANGED tasks)

----------------------------------------------------------------------------
(* Properties                                                              *)

\* The tasks use the Hub as Hub says it is used - an ack only for a command that
\* was received, the registry only through its methods - so that every safety
\* property of Hub holds of the server.
ImplementsHub == HubSpec

\* A sender taken out of `pending` is in the hands of exactly one reader, which
\* is still there to use it (hub.rs:268-270 under server.rs:285).
HeldByOneReader ==
    \A c \in Cmds :
       LET holders == {k \in Conns : reader[k] = "firing" /\ input[k].id = c} IN
         IF held[c] = "none" THEN holders = {} ELSE \E k \in Conns : holders = {k}

\* A registered connection has a reader that will unregister it, and one whose
\* reader has left is not registered: no ghost is ever addressed (server.rs:323).
NoGhostClients ==
    \A k \in clients : reader[k] \in {"reading", "handling", "firing", "leaving"}

\* The comment at server.rs:215: a connection that was reaped, by whichever ping
\* task, or whose writer died, does not linger; its socket is closed so that the
\* gauge reconnects.
StrandedIsClosed ==
    \A k \in Conns : (k \in used /\ (k \notin clients \/ k \in closed)) ~> reader[k] = "done"

\* A gauge that vanished without a close is noticed by the keepalive, removed and
\* its connection closed.
LostLinkIsClosed == \A k \in Conns : link[k] = "lost" ~> reader[k] = "done"
============================================================================
