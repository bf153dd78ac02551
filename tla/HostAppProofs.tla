--------------------------- MODULE HostAppProofs ---------------------------
(***************************************************************************)
(* Theorems about HostApp, for any number of gauges, one after the other.  *)
(*                                                                         *)
(* That the script and the connections use the Hub as Hub has it rests on  *)
(* what a gauge has in its channel: acks of commands it received, as       *)
(* HandleCommand makes them (Sayable).  From there the answer is followed  *)
(* to the reader, the slot and the result.                                 *)
(***************************************************************************)
EXTENDS HostApp, HubProofs

\* What may be in a gauge's channel.
Answer(c) == HandleCommand(Name[c])
Sayable(D) ==
    {Hello, Telemetry}
      \cup {m \in [t : {"ack"}, id : Cmds, a : Acks] : m.id \in D /\ m.a = Answer(m.id)}

Processes ==
    /\ gauge \in [Gauges -> {"off", "reading", "leaving", "exited"}]
    /\ socket \in [Gauges -> {"none", "open", "shut"}]
    /\ writing \subseteq Gauges
    /\ DOMAIN out = Gauges /\ \A g \in Gauges : out[g] \in Seq(Sayable(Delivered(g)))
    /\ DOMAIN firing = Gauges

\* The answer of a command on its way from the reader to the result.
Ends(c) ==
    /\ held[c] # "none" => held[c] = Answer(c)
    /\ slot[c] # "none" => slot[c] = Answer(c)
    /\ pc[c] = "ok" => Answer(c) = "ok"
    /\ pc[c] = "application" => Answer(c) = "err"

AppInv == HubInv /\ AppTypeOK /\ Processes /\ \A c \in Cmds : Ends(c)

USE ScriptAssumption

----------------------------------------------------------------------------
(* The Hub's part.                                                         *)

LEMMA HeadSayable ==
    ASSUME AppInv, NEW g \in Gauges, out[g] # <<>>
    PROVE  Head(out[g]) \in Sayable(Delivered(g)) /\ Tail(out[g]) \in Seq(Sayable(Delivered(g)))
  BY DEF AppInv, Processes

LEMMA AppHubStep == ASSUME AppInv, [AppNext]_appVars PROVE [HubNext]_hubVars
<1> SUFFICES ASSUME AppNext PROVE [HubNext]_hubVars
  BY DEF appVars
<1>1. CASE Main
  BY <1>1 DEF Main, Begin, Work, Send, Report, HubNext
<1> SUFFICES ASSUME NEW g \in Gauges,
                    Accept(g) \/ Connection(g) \/ Break(g) \/ GaugeRuns(g)
             PROVE  [HubNext]_hubVars
  BY <1>1 DEF AppNext
<1>2. CASE Accept(g) \/ HostLeaves(g)
  BY <1>2 DEF Accept, HostLeaves, HubNext, Registry, AppInv, HubInv, HubTypeOK
<1>3. CASE HostWrites(g) \/ HostWriterEnds(g)
  BY <1>3 DEF HostWrites, HostWriterEnds, HubNext, Channels
<1>4. CASE HostReads(g)
  <2> DEFINE m == Head(out[g])
  <2>1. m \in Sayable(Delivered(g)) /\ g \in used
    BY <1>4, HeadSayable DEF HostReads, Write, AppInv, HubInv, HubTypeOK
  <2>2. CASE m.t = "ack" /\ DispatchAck(m.id, m.a)
    <3>1. m.id \in Cmds /\ m.a \in Acks /\ m.id \in Delivered(g)
      BY <2>1, <2>2 DEF Sayable, Hello, Telemetry
    <3> QED
      BY <2>2, <3>1 DEF HubNext, Gauge
  <2>3. CASE SetClientHello(g) \/ UNCHANGED hubVars
    BY <2>1, <2>3 DEF HubNext, Registry
  <2> QED
    BY <1>4, <2>2, <2>3 DEF HostReads
<1>5. CASE HostFires(g)
  BY <1>5 DEF HostFires, HubNext, AppInv, AppTypeOK
<1>6. CASE Break(g) \/ GaugeRuns(g)
  BY <1>6 DEF Break, GaugeRuns
<1> QED
  BY <1>2, <1>3, <1>4, <1>5, <1>6 DEF Connection

----------------------------------------------------------------------------
(* The processes.                                                          *)

LEMMA SayableGrows ==
    ASSUME NEW D, NEW E, D \subseteq E
    PROVE  Seq(Sayable(D)) \subseteq Seq(Sayable(E))
<1>1. Sayable(D) \subseteq Sayable(E)
  BY DEF Sayable
<1> QED
  BY <1>1

\* What stands in the channels before a step may stand there after it.
LEMMA OutGrows ==
    ASSUME AppInv, [AppNext]_appVars, NEW g \in Gauges
    PROVE  out[g] \in Seq(Sayable(Delivered(g)'))
<1>1. Delivered(g) \subseteq Delivered(g)'
  BY AppHubStep, Grows DEF AppInv, HubInv
<1> QED
  BY <1>1, SayableGrows DEF AppInv, Processes

LEMMA SendStep ==
    ASSUME AppInv, [AppNext]_appVars, NEW g \in Gauges, NEW m \in Sayable(Delivered(g)'),
           SendOut(g, m)
    PROVE  DOMAIN out' = Gauges /\ \A h \in Gauges : out'[h] \in Seq(Sayable(Delivered(h)'))
<1>1. DOMAIN out = Gauges /\ \A h \in Gauges : out[h] \in Seq(Sayable(Delivered(h)'))
  BY OutGrows DEF AppInv, Processes
<1>2. Append(out[g], m) \in Seq(Sayable(Delivered(g)'))
  BY <1>1
<1> QED
  BY <1>1, <1>2 DEF SendOut

\* The ack of a command is made of the message that brought it.
LEMMA WritesStep ==
    ASSUME AppInv, [AppNext]_appVars, NEW g \in Gauges, HostWrites(g)
    PROVE  DOMAIN out' = Gauges /\ \A h \in Gauges : out'[h] \in Seq(Sayable(Delivered(h)'))
<1> DEFINE c == Head(outbox[g])
           m == Incoming(c)
<1>1. outbox[g] # <<>> /\ outbox[g] \in Seq(Messages) /\ received[g] \in Seq(Messages)
  BY DEF HostWrites, WriterTake, AppInv, HubInv, HubTypeOK
<1>2. c \in Delivered(g)'
  <2>1. received' = [received EXCEPT ![g] = Append(@, c)]
    BY DEF HostWrites, WriterTake
  <2>2. received'[g] = Append(received[g], c)
    BY <2>1 DEF AppInv, HubInv, HubTypeOK
  <2>3. c \in Messages
    BY <1>1
  <2> QED
    BY <1>1, <2>2, <2>3 DEF Delivered
<1>3. CASE m.t = "cmd" /\ HandleCommand(m.name) # "none"
  <2>1. c \in Cmds /\ m.id = c /\ m.name = Name[c]
    BY <1>3 DEF Incoming
  <2>2. Answer(c) \in Acks
    BY <1>3, <2>1 DEF Answer, HandleCommand, Acks
  <2>3. [t |-> "ack", id |-> c, a |-> Answer(c)] \in Sayable(Delivered(g)')
    BY <1>2, <2>1, <2>2 DEF Sayable
  <2>4. SendOut(g, [t |-> "ack", id |-> c, a |-> Answer(c)])
    BY <1>3, <2>1 DEF HostWrites, OnMessage, Answer
  <2> QED
    BY <2>3, <2>4, SendStep
<1>4. CASE out' = out
  BY <1>4, OutGrows DEF AppInv, Processes
<1> QED
  BY <1>3, <1>4 DEF HostWrites, OnMessage

LEMMA ChannelStep ==
    ASSUME AppInv, [AppNext]_appVars
    PROVE  DOMAIN out' = Gauges /\ \A h \in Gauges : out'[h] \in Seq(Sayable(Delivered(h)'))
<1>0. DOMAIN out = Gauges /\ \A h \in Gauges : out[h] \in Seq(Sayable(Delivered(h)'))
  BY OutGrows DEF AppInv, Processes
<1>1. CASE out' = out
  BY <1>0, <1>1
<1>2. ASSUME NEW g \in Gauges, HostWrites(g)
      PROVE  DOMAIN out' = Gauges /\ \A h \in Gauges : out'[h] \in Seq(Sayable(Delivered(h)'))
  BY <1>2, WritesStep
<1>3. ASSUME NEW g \in Gauges, Tick(g)
      PROVE  DOMAIN out' = Gauges /\ \A h \in Gauges : out'[h] \in Seq(Sayable(Delivered(h)'))
  <2>1. Telemetry \in Sayable(Delivered(g)') /\ SendOut(g, Telemetry)
    BY <1>3 DEF Sayable, Tick
  <2> QED
    BY <2>1, SendStep
<1>4. ASSUME NEW g \in Gauges, NEW s, s \in Seq(Sayable(Delivered(g)')),
             out' = [out EXCEPT ![g] = s]
      PROVE  DOMAIN out' = Gauges /\ \A h \in Gauges : out'[h] \in Seq(Sayable(Delivered(h)'))
  BY <1>0, <1>4
<1>5. \A g \in Gauges : <<>> \in Seq(Sayable(Delivered(g)')) /\ <<Hello>> \in Seq(Sayable(Delivered(g)'))
  BY DEF Sayable
<1>6. \A g \in Gauges : out[g] # <<>> => Tail(out[g]) \in Seq(Sayable(Delivered(g)'))
  BY <1>0
<1>7. \/ out' = out
      \/ \E g \in Gauges :
            \/ HostWrites(g) \/ Tick(g)
            \/ out' = [out EXCEPT ![g] = <<Hello>>] \/ out' = [out EXCEPT ![g] = <<>>]
            \/ out[g] # <<>> /\ out' = [out EXCEPT ![g] = Tail(out[g])]
  BY DEF AppNext, appVars, gaugeVars, Main, Begin, Work, Send, Report, Accept, Connect, Connection,
     HostWriterEnds, HostReads, Write, HostFires, HostLeaves, Break, GaugeRuns, GaugeStep,
     WriteFails, Disconnected, Exit
<1> QED
  BY <1>1, <1>2, <1>3, <1>4, <1>5, <1>6, <1>7

LEMMA ProcessesStep == ASSUME AppInv, [AppNext]_appVars PROVE Processes'
<1>1. /\ gauge \in [Gauges -> {"off", "reading", "leaving", "exited"}]
      /\ socket \in [Gauges -> {"none", "open", "shut"}]
      /\ writing \subseteq Gauges /\ DOMAIN firing = Gauges
  BY DEF AppInv, Processes
<1>2. \/ gauge' = gauge
      \/ \E g \in Gauges, s \in {"reading", "leaving", "exited"} : gauge' = [gauge EXCEPT ![g] = s]
  BY DEF AppNext, appVars, gaugeVars, Main, Begin, Work, Send, Report, Accept, Connect, Connection,
     HostWrites, OnMessage, HostWriterEnds, HostReads, Write, HostFires, HostLeaves, Break,
     GaugeRuns, GaugeStep, WriteFails, Tick, Disconnected, Exit
<1>3. \/ socket' = socket
      \/ \E g \in Gauges, s \in {"open", "shut"} : socket' = [socket EXCEPT ![g] = s]
  BY DEF AppNext, appVars, gaugeVars, Main, Begin, Work, Send, Report, Accept, Connect, Connection,
     HostWrites, OnMessage, HostWriterEnds, HostReads, Write, HostFires, HostLeaves, Break,
     GaugeRuns, GaugeStep, WriteFails, Tick, Disconnected, Exit
<1>4. writing' = writing \/ \E g \in Gauges : writing' \in {writing \cup {g}, writing \ {g}}
  BY DEF AppNext, appVars, gaugeVars, Main, Begin, Work, Send, Report, Accept, Connect, Connection,
     HostWrites, OnMessage, HostWriterEnds, HostReads, Write, HostFires, HostLeaves, Break,
     GaugeRuns, GaugeStep, WriteFails, Tick, Disconnected, Exit
<1>5. DOMAIN firing' = DOMAIN firing
  BY DEF AppNext, appVars, Main, Begin, Work, Send, Report, Accept, Connection, HostWrites,
     HostWriterEnds, HostReads, HostFires, HostLeaves, Break, GaugeRuns
<1>6. gauge' \in [Gauges -> {"off", "reading", "leaving", "exited"}]
  BY <1>1, <1>2
<1>7. socket' \in [Gauges -> {"none", "open", "shut"}]
  BY <1>1, <1>3
<1>8. writing' \subseteq Gauges
  BY <1>1, <1>4
<1> QED
  BY <1>1, <1>5, <1>6, <1>7, <1>8, ChannelStep DEF Processes

LEMMA AppTypeStep == ASSUME AppInv, [AppNext]_appVars PROVE AppTypeOK'
<1>0. /\ AppTypeOK /\ DOMAIN firing = Gauges /\ DOMAIN gauge = Gauges /\ DOMAIN socket = Gauges
      /\ Len(Script) = 7 /\ pending \subseteq Cmds
  BY DEF AppInv, Processes, HubInv, HubTypeOK, Script
<1> USE DEF AppTypeOK
<1>1. CASE UNCHANGED appVars
  BY <1>0, <1>1 DEF appVars, hubVars, registry, gaugeVars
<1>2. CASE Main
  <2>1. UNCHANGED <<used, gaugeVars, firing>>
    BY <1>2 DEF Main, Begin, Work, Send, Report, Command, Proceed, RefuseCommand, SendCommand,
       TakeAck, Expire, Return, Emit, WaitConnected, CheckConnected, Park, hubVars, registry
  <2>2. at' \in 1 .. Len(Script) + 1
    BY <1>0, <1>2 DEF Main, Begin, Work, Send, Report, Finished
  <2> QED
    BY <1>0, <2>1, <2>2 DEF gaugeVars
<1> SUFFICES ASSUME NEW g \in Gauges,
                    Accept(g) \/ Connection(g) \/ Break(g) \/ GaugeRuns(g)
             PROVE  AppTypeOK'
  BY <1>1, <1>2 DEF AppNext
<1>3. CASE Accept(g)
  BY <1>0, <1>3 DEF Accept, Connect, RegisterClient
<1>4. CASE HostWrites(g) \/ HostWriterEnds(g) \/ HostFires(g) \/ HostLeaves(g)
  BY <1>0, <1>4 DEF HostWrites, WriterTake, OnMessage, HostWriterEnds, WriterEnd, HostFires, FireAck,
     HostLeaves, UnregisterClient, gaugeVars, registry
<1>5. CASE HostReads(g)
  <2>1. UNCHANGED <<used, at, gauge, writing, socket>>
    BY <1>5 DEF HostReads, Write, SetClientHello, DispatchAck, hubVars, registry
  <2>2. firing' = firing \/ \E c \in Cmds : firing' = [firing EXCEPT ![g] = c]
    BY <1>0, <1>5 DEF HostReads
  <2> QED
    BY <1>0, <2>1, <2>2
<1>6. CASE Break(g)
  BY <1>0, <1>6 DEF Break, hubVars, registry
<1>7. CASE GaugeRuns(g)
  BY <1>0, <1>7 DEF GaugeRuns, GaugeStep, WriteFails, Tick, Disconnected, Exit, hubVars, registry
<1> QED
  BY <1>3, <1>4, <1>5, <1>6, <1>7 DEF Connection

----------------------------------------------------------------------------
(* The answers.                                                            *)

LEMMA ReturnEnds ==
    ASSUME AppInv, NEW c \in Cmds, Return(c), NEW d \in Cmds
    PROVE  Ends(d)'
<1>1. /\ pc' = [pc EXCEPT ![c] = IF @ = "expired" THEN "timeout" ELSE Outcome(slot[c])]
      /\ UNCHANGED <<held, slot>> /\ DOMAIN pc = Cmds
  BY DEF Return, AppInv, HubInv, HubTypeOK
<1>2. CASE pc[c] = "acked" /\ d = c
  <2>1. slot[c] = Answer(c) /\ slot[c] \in Acks
    BY <1>2 DEF AppInv, Ends, HubInv, HubTypeOK, SenderPlace
  <2>2. pc'[c] = Outcome(slot[c])
    BY <1>1, <1>2
  <2> QED
    BY <1>1, <1>2, <2>1, <2>2 DEF AppInv, Ends, Outcome, Acks
<1>3. CASE pc[c] = "expired" /\ d = c
  BY <1>1, <1>3 DEF AppInv, Ends
<1>4. CASE d # c
  BY <1>1, <1>4 DEF AppInv, Ends
<1> QED
  BY <1>2, <1>3, <1>4 DEF Return

LEMMA ReadEnds ==
    ASSUME AppInv, NEW g \in Gauges, HostReads(g), NEW d \in Cmds
    PROVE  Ends(d)'
<1> DEFINE m == Head(out[g])
<1>1. CASE m.t = "ack" /\ DispatchAck(m.id, m.a)
  <2>0. m \in Sayable(Delivered(g))
    BY HeadSayable DEF HostReads, Write
  <2>1. m.id \in Cmds /\ m.a = Answer(m.id)
    BY <1>1, <2>0 DEF Sayable, Hello, Telemetry
  <2>2. /\ held' = held \/ held' = [held EXCEPT ![m.id] = Answer(m.id)]
        /\ UNCHANGED <<pc, slot>> /\ DOMAIN held = Cmds
    BY <1>1, <2>1 DEF DispatchAck, AppInv, HubInv, HubTypeOK
  <2> QED
    BY <2>1, <2>2 DEF AppInv, Ends
<1>2. CASE SetClientHello(g) \/ UNCHANGED hubVars
  BY <1>2 DEF SetClientHello, hubVars, calls, AppInv, Ends
<1> QED
  BY <1>1, <1>2 DEF HostReads

LEMMA EndsStep == ASSUME AppInv, [AppNext]_appVars, NEW d \in Cmds PROVE Ends(d)'
<1>1. CASE UNCHANGED calls
  BY <1>1 DEF calls, AppInv, Ends
<1>2. ASSUME NEW c \in Cmds,
             Command(c) \/ RefuseCommand(c) \/ SendCommand(c) \/ TakeAck(c) \/ Expire(c)
      PROVE  Ends(d)'
  <2>1. /\ \E v \in {"calling", "no_clients", "transport", "waiting", "acked", "expired"} :
              pc' = [pc EXCEPT ![c] = v]
        /\ UNCHANGED <<held, slot>> /\ DOMAIN pc = Cmds
    BY <1>2 DEF Command, RefuseCommand, SendCommand, TakeAck, Expire, AppInv, HubInv, HubTypeOK
  <2> QED
    BY <2>1 DEF AppInv, Ends
<1>3. ASSUME NEW g \in Gauges, HostFires(g)
      PROVE  Ends(d)'
  <2>1. firing[g] \in Cmds /\ FireAck(firing[g]) /\ DOMAIN held = Cmds /\ DOMAIN slot = Cmds
    BY <1>3 DEF HostFires, AppInv, AppTypeOK, HubInv, HubTypeOK
  <2> QED
    BY <2>1 DEF FireAck, AppInv, Ends
<1>4. \/ UNCHANGED calls
      \/ \E c \in Cmds : Command(c) \/ Proceed(c)
      \/ \E g \in Gauges : HostReads(g) \/ HostFires(g)
  BY DEF AppNext, appVars, hubVars, Main, Begin, Work, Send, Emit, Report, WaitConnected,
     CheckConnected, Park, Accept, RegisterClient, Connection, HostWrites, WriterTake,
     HostWriterEnds, WriterEnd, HostLeaves, UnregisterClient, Break, GaugeRuns
<1> QED
  BY <1>1, <1>2, <1>3, <1>4, ReturnEnds, ReadEnds DEF Proceed

LEMMA AppInvariant == AppSpec => []AppInv
<1>1. AppInit => AppInv
  <2> SUFFICES ASSUME AppInit PROVE AppInv
    OBVIOUS
  <2>1. HubInv
    BY InvariantInitial DEF AppInit
  <2>2. AppTypeOK
    BY DEF AppInit, GaugeInit, HubInit, AppTypeOK, Script
  <2>3. Processes
    <3>1. \A g \in Gauges : <<>> \in Seq(Sayable(Delivered(g)))
      OBVIOUS
    <3> QED
      BY <3>1 DEF AppInit, GaugeInit, Processes
  <2>4. \A c \in Cmds : Ends(c)
    BY DEF AppInit, HubInit, Ends
  <2> QED
    BY <2>1, <2>2, <2>3, <2>4 DEF AppInv
<1>2. AppInv /\ [AppNext]_appVars => AppInv'
  <2> SUFFICES ASSUME AppInv, [AppNext]_appVars PROVE AppInv'
    OBVIOUS
  <2>1. HubInv'
    BY AppHubStep, InvariantStep DEF AppInv
  <2>2. AppTypeOK' /\ Processes' /\ \A c \in Cmds : Ends(c)'
    BY AppTypeStep, ProcessesStep, EndsStep
  <2> QED
    BY <2>1, <2>2 DEF AppInv
<1> QED
  BY <1>1, <1>2, PTL DEF AppSpec

----------------------------------------------------------------------------
(* The theorems.                                                           *)

\* A gauge has a socket from the moment the host registered it, and has exited only
\* after its writer.
THEOREM AppTypeCorrect == AppSpec => []AppTypeOK
  BY AppInvariant, PTL DEF AppInv

\* Each call of the script ends as the gauge answers that call and no other, or in an
\* error of the transport, through however many gauges it takes.
THEOREM AnswersAreOwnCorrect == AppSpec => []OwnAnswers
<1>1. AppInv => OwnAnswers
  <2> SUFFICES ASSUME AppInv PROVE OwnAnswers
    OBVIOUS
  <2>1. /\ Answer("slow") = "none" /\ Answer("unknown") = "err"
        /\ \A c \in {"early", "query", "toggle"} : Answer(c) = "ok"
    BY DEF Answer, Name, HandleCommand
  <2> QED
    BY <2>1 DEF AppInv, Ends, OwnAnswers
<1> QED
  BY <1>1, AppInvariant, PTL

\* The demonstration uses the Hub as Hub has it, so that its calls are calls of Rpc.
THEOREM AppImplementsRpc == AppSpec => ImplementsRpc
<1>1. AppInit => HubInit
  BY DEF AppInit
<1>2. AppInv /\ [AppNext]_appVars => [HubNext]_hubVars
  BY AppHubStep
<1>3. AppSpec => HubSpec
  BY <1>1, <1>2, AppInvariant, PTL DEF AppSpec, HubSpec
<1> QED
  BY <1>3, CallsImplementRpc
============================================================================
