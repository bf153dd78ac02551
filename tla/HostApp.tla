------------------------------ MODULE HostApp ------------------------------
(***************************************************************************)
(* The demonstration as a whole: the script of examples/host-app/src/      *)
(* main.rs over the Hub, and the fake gauges that connect to it, one at a  *)
(* time.  A connection may break at any moment, so that the script meets   *)
(* every error it is written for.                                          *)
(*                                                                         *)
(* Of server.rs only what the script can see is here: a reader per         *)
(* connection that leaves when its socket ends.  Server has the rest.      *)
(* What a socket buffers is part of the sender's channel, since two queues *)
(* in a row are one.                                                       *)
(***************************************************************************)
EXTENDS Hub, FakeGauge

\* The script: its calls by the purpose they serve in main.rs.
Script == <<"early", "connected", "query", "toggle", "updated", "slow", "unknown">>

\* The names of its commands.
Name == [early |-> "equip_query", query |-> "equip_query", toggle |-> "equip_cmd",
         slow |-> "slow_command", unknown |-> "nonexistent_command"]

ASSUME ScriptAssumption ==
    /\ Cmds = {"early", "query", "toggle", "slow", "unknown"}
    /\ Events = {"updated"} /\ Waiters = {"connected"}
    /\ Gauges = Conns

VARIABLES
    at,          \* the script's next step
    firing       \* the command whose sender a connection's reader holds

appVars == <<hubVars, gaugeVars, at, firing>>

AppTypeOK ==
    /\ at \in 1 .. Len(Script) + 1
    /\ \A g \in Gauges :
          /\ firing[g] \in Cmds \cup {"none"}
          /\ g \in used <=> socket[g] # "none"
          /\ gauge[g] \in {"off", "reading", "leaving", "exited"}
          /\ gauge[g] = "exited" => g \notin writing

AppInit ==
    /\ HubInit /\ GaugeInit
    /\ at = 1
    /\ firing = [g \in Gauges |-> "none"]

----------------------------------------------------------------------------
(* main(), one await after the other.                                      *)

Finished == at > Len(Script)
Current == Script[at]

Begin ==
    /\ ~ Finished
    /\ \/ Current \in Cmds /\ Command(Current)
       \/ Current \in Waiters /\ WaitConnected(Current)
    /\ UNCHANGED <<gaugeVars, at, firing>>

Work ==
    /\ \/ \E c \in Cmds : Proceed(c)
       \/ \E w \in Waiters : CheckConnected(w) \/ Park(w)
    /\ UNCHANGED <<gaugeVars, at, firing>>

Send ==
    /\ ~ Finished /\ Current \in Events
    /\ Emit(Current)
    /\ at' = at + 1
    /\ UNCHANGED <<gaugeVars, firing>>

Results == {"ok", "application", "timeout"} \cup Refusals

\* Mutation: the script passes errors on with `?`.
ReportStopsAtErrors ==
    /\ ~ Finished
    /\ \/ Current \in Cmds /\ pc[Current] = "ok"
       \/ Current \in Waiters /\ waiter[Current] = "returned"
    /\ at' = at + 1
    /\ UNCHANGED <<hubVars, gaugeVars, firing>>

\* Every result is printed, and the script goes on whatever it is.
Report ==
    /\ ~ Finished
    /\ \/ Current \in Cmds /\ pc[Current] \in Results
       \/ Current \in Waiters /\ waiter[Current] = "returned"
    /\ at' = at + 1
    /\ UNCHANGED <<hubVars, gaugeVars, firing>>

----------------------------------------------------------------------------
(* A connection, seen from the host.                                       *)

\* One terminal, one gauge: the next is started when the last has exited.
Accept(g) ==
    /\ \A h \in Gauges : gauge[h] \in {"off", "exited"}
    /\ Connect(g) /\ RegisterClient(g)
    /\ UNCHANGED <<at, firing>>

\* What the host sent, as the gauge parses it.
Incoming(m) == IF m \in Cmds THEN [t |-> "cmd", id |-> m, name |-> Name[m]] ELSE [t |-> "event"]

\* The host's writer sends a message, the gauge's reader handles it.
HostWrites(g) ==
    /\ socket[g] = "open"
    /\ WriterTake(g) /\ received' # received
    /\ OnMessage(g, Incoming(Head(outbox[g])))
    /\ UNCHANGED <<at, firing>>

HostWriterEnds(g) ==
    /\ socket[g] = "shut"
    /\ WriterEnd(g)
    /\ UNCHANGED <<gaugeVars, at, firing>>

\* Mutation: an ack answers the call that waits, whichever it was meant for.
HostReadsInTurn(g) ==
    /\ g \in clients /\ firing[g] = "none"
    /\ Write(g)
    /\ LET m == Head(out[g]) IN
         \/ m.t # "ack" /\ UNCHANGED <<hubVars, firing>>
         \/ m.t = "ack" /\ pending = {} /\ UNCHANGED <<hubVars, firing>>
         \/ /\ m.t = "ack"
            /\ \E c \in pending : DispatchAck(c, m.a) /\ firing' = [firing EXCEPT ![g] = c]
    /\ UNCHANGED at

\* The gauge's writer sends a message, the reader of its connection handles it.
HostReads(g) ==
    /\ g \in clients /\ firing[g] = "none"
    /\ Write(g)
    /\ LET m == Head(out[g]) IN
         \/ m = Hello /\ SetClientHello(g) /\ UNCHANGED firing
         \/ m = Telemetry /\ UNCHANGED <<hubVars, firing>>
         \/ /\ m.t = "ack"
            /\ DispatchAck(m.id, m.a)
            /\ firing' = IF m.id \in pending THEN [firing EXCEPT ![g] = m.id] ELSE firing
    /\ UNCHANGED at

HostFires(g) ==
    /\ firing[g] # "none"
    /\ FireAck(firing[g])
    /\ firing' = [firing EXCEPT ![g] = "none"]
    /\ UNCHANGED <<gaugeVars, at>>

\* The reader meets the end of the socket.
HostLeaves(g) ==
    /\ g \in clients /\ firing[g] = "none" /\ socket[g] = "shut"
    /\ UnregisterClient(g)
    /\ UNCHANGED <<gaugeVars, at, firing>>

\* The connection breaks, with or without the host's doing.
Break(g) ==
    /\ socket[g] = "open"
    /\ socket' = [socket EXCEPT ![g] = "shut"]
    /\ UNCHANGED <<hubVars, gauge, writing, out, at, firing>>

GaugeRuns(g) ==
    /\ GaugeStep(g)
    /\ UNCHANGED <<hubVars, at, firing>>

----------------------------------------------------------------------------
Main == Begin \/ Work \/ Send \/ Report

Connection(g) ==
    HostWrites(g) \/ HostWriterEnds(g) \/ HostReads(g) \/ HostFires(g) \/ HostLeaves(g)

AppNext ==
    \/ Main
    \/ \E g \in Gauges :
          Accept(g) \/ Connection(g) \/ Break(g) \/ GaugeRuns(g)

AppSpec == AppInit /\ [][AppNext]_appVars

(* Both processes run their tasks; gauges come, go and break as they like.  *)
AppFairSpec ==
    /\ AppSpec
    /\ WF_appVars(Main)
    /\ \A g \in Gauges :
          /\ WF_appVars(HostReads(g)) /\ WF_appVars(HostFires(g)) /\ WF_appVars(HostLeaves(g))
          /\ WF_appVars(HostWrites(g) \/ HostWriterEnds(g))
          /\ WF_appVars(GaugeRuns(g))

----------------------------------------------------------------------------
(* Properties                                                              *)

\* Each call of the script ends as handle_command provides for its own name, or in an
\* error of the transport - whatever acks of earlier calls are late or under way:
\* "slow" never succeeds, "unknown" neither, and the others are not refused by the
\* gauge (main.rs:93, 211, 226).
OwnAnswers ==
    /\ pc["slow"] \notin {"ok", "application"}
    /\ pc["unknown"] # "ok"
    /\ \A c \in {"early", "query", "toggle"} : pc[c] # "application"

\* Once a gauge was seen the script runs to its end and listens, whatever becomes of
\* the gauge: each of its calls settles, and no result stops it (main.rs:103-235).
ScriptFinishes == waiter["connected"] = "returned" ~> Finished

\* A gauge whose socket ends leaves its reader loop and then waits for its writer,
\* which nobody tells to stop: its next telemetry must fail (fake-gauge.rs:171-173).
GaugeExits == \A g \in Gauges : gauge[g] = "leaving" ~> gauge[g] = "exited"
============================================================================
