----------------------------- MODULE FakeGauge -----------------------------
(***************************************************************************)
(* The process that stands in for relay and module in the demonstration:   *)
(* examples/fake-gauge.rs and its copy host-app/src/fake_gauge.rs.  It     *)
(* runs three tasks: main() reads the socket, the writer drains the one    *)
(* outbound channel, and a third task emits telemetry every three seconds. *)
(* It connects once; when its socket ends it waits for its writer, exits.  *)
(***************************************************************************)
EXTENDS Naturals, Sequences

CONSTANTS
    Gauges,         \* the processes, each started at most once
    MaxQueued       \* bound: telemetry is due only while fewer messages are queued

VARIABLES
    gauge,     \* where main() is
    writing,   \* processes whose writer task runs
    out,       \* the channel from out_tx to out_rx
    socket     \* the connection

gaugeVars == <<gauge, writing, out, socket>>

Hello     == [t |-> "hello"]
Telemetry == [t |-> "event"]

GaugeInit ==
    /\ gauge = [g \in Gauges |-> "off"]
    /\ writing = {}
    /\ out = [g \in Gauges |-> <<>>]
    /\ socket = [g \in Gauges |-> "none"]

Connect(g) ==
    /\ gauge[g] = "off"
    /\ gauge' = [gauge EXCEPT ![g] = "reading"]
    /\ writing' = writing \cup {g}
    /\ out' = [out EXCEPT ![g] = <<Hello>>]
    /\ socket' = [socket EXCEPT ![g] = "open"]

\* A channel whose receiver, the writer task, is gone refuses the message.
SendOut(g, m) == out' = IF g \in writing THEN [out EXCEPT ![g] = Append(@, m)] ELSE out

Write(g) ==
    /\ g \in writing /\ out[g] # <<>>
    /\ socket[g] = "open"
    /\ out' = [out EXCEPT ![g] = Tail(@)]
    /\ UNCHANGED <<gauge, writing, socket>>

\* Mutation: the writer goes on after a failed send.
WriteFailsUnnoticed(g) ==
    /\ g \in writing /\ out[g] # <<>>
    /\ socket[g] = "shut"
    /\ out' = [out EXCEPT ![g] = Tail(@)]
    /\ UNCHANGED <<gauge, writing, socket>>

\* The only way the writer ends: the telemetry task keeps a sender for itself, so
\* recv never returns None.
WriteFails(g) ==
    /\ g \in writing /\ out[g] # <<>>
    /\ socket[g] = "shut"
    /\ writing' = writing \ {g}
    /\ out' = [out EXCEPT ![g] = <<>>]
    /\ UNCHANGED <<gauge, socket>>

\* Without a writer to take it, the send fails and the task ends.
Tick(g) ==
    /\ gauge[g] \in {"reading", "leaving"} /\ g \in writing
    /\ Len(out[g]) < MaxQueued
    /\ SendOut(g, Telemetry)
    /\ UNCHANGED <<gauge, writing, socket>>

\* The `ok` of the ack that handle_command makes, "none" if it makes none.
HandleCommand(name) ==
    CASE name \in {"equip_query", "equip_cmd", "unnamed"} -> "ok"
      [] name = "slow_command" -> "none"
      [] OTHER -> "err"

\* One round of the reader loop.  Events, and what is neither, are only printed.
OnMessage(g, m) ==
    /\ gauge[g] = "reading"
    /\ IF m.t = "cmd" /\ HandleCommand(m.name) # "none"
       THEN SendOut(g, [t |-> "ack", id |-> m.id, a |-> HandleCommand(m.name)])
       ELSE UNCHANGED out
    /\ UNCHANGED <<gauge, writing, socket>>

\* A close frame, an error, or the end of the stream.
Disconnected(g) ==
    /\ gauge[g] = "reading" /\ socket[g] = "shut"
    /\ gauge' = [gauge EXCEPT ![g] = "leaving"]
    /\ UNCHANGED <<writing, out, socket>>

\* Mutation: main() returns without waiting for its writer.
ExitAtOnce(g) ==
    /\ gauge[g] = "leaving"
    /\ gauge' = [gauge EXCEPT ![g] = "exited"]
    /\ UNCHANGED <<writing, out, socket>>

Exit(g) ==
    /\ gauge[g] = "leaving" /\ g \notin writing
    /\ gauge' = [gauge EXCEPT ![g] = "exited"]
    /\ UNCHANGED <<writing, out, socket>>

\* What a process does by itself; Write and OnMessage take the host's part.
GaugeStep(g) == WriteFails(g) \/ Tick(g) \/ Disconnected(g) \/ Exit(g)
============================================================================
