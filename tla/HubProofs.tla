----------------------------- MODULE HubProofs -----------------------------
(***************************************************************************)
(* Theorems about Hub, for any number of connections, commands, events and *)
(* waiters.  HubInv is the inductive invariant they rest on.               *)
(***************************************************************************)
EXTENDS Hub, SequenceTheorems, TLAPS

\* A command that was never queued to a connection.
Unsent == {"idle", "calling"} \cup Refusals

\* What is queued or received was sent by a command that went on to wait, or by
\* an emit that reported success.
WasSent(m) ==
    /\ m \in Cmds => pc[m] \notin Unsent
    /\ m \in Events => emitted[m] = "ok"

\* Everything queued for a gauge or received by it.
Cargo(k) == {received[k][i] : i \in DOMAIN received[k]}
              \cup {outbox[k][i] : i \in DOMAIN outbox[k]}

OnlySentTravels == \A k \in Conns : \A m \in Cargo(k) : WasSent(m)

\* Where the sender of a command is, at every point of its life.  An ack can only
\* be dispatched for a command a gauge received, hence OnlySentTravels.
SenderPlace(c) ==
    /\ c \in pending => /\ held[c] = "none" /\ slot[c] = "none"
                        /\ pc[c] \in Running \cup {"cancelled"}
    /\ held[c] # "none" => slot[c] = "none"
    /\ pc[c] \in Unsent => held[c] = "none" /\ slot[c] = "none"
    /\ pc[c] = "calling" => c \in pending
    /\ pc[c] = "waiting" => c \in pending \/ held[c] # "none" \/ slot[c] # "none"
    /\ pc[c] = "acked" => slot[c] # "none"
    /\ pc[c] = "expired" => slot[c] = "none"

HubInv ==
    /\ HubTypeOK
    /\ StatusMatchesRegistry
    /\ OnlySentTravels
    /\ \A c \in Cmds : SenderPlace(c)

----------------------------------------------------------------------------
(* Every step is one of these actions.                                     *)

RegistryStep ==
    \/ ReapDeadClients
    \/ \E k \in Conns :
          \/ RegisterClient(k) \/ GoStale(k) \/ SetClientHello(k)
          \/ TouchClient(k) \/ UnregisterClient(k)
          \/ \E r \in BOOLEAN : SetClientReady(k, r)

\* The registry's steps touch no call and no channel.
LEMMA RegistryFrame ==
    ASSUME Registry
    PROVE  RegistryStep /\ UNCHANGED <<calls, wires, emitted>>
  BY DEF Registry, RegistryStep, ReapDeadClients, RegisterClient, GoStale, SetClientHello,
         TouchClient, UnregisterClient, SetClientReady

\* The others leave the registry alone, so that it needs no case for them.
LEMMA OtherFrame ==
    ASSUME \/ Channels \/ Gauge
           \/ \E c \in Cmds : Command(c) \/ Proceed(c) \/ FireAck(c) \/ Cancel(c)
           \/ \E e \in Events : Emit(e)
           \/ \E w \in Waiters : WaitConnected(w) \/ CheckConnected(w) \/ Park(w)
    PROVE  UNCHANGED registry
  BY DEF Channels, WriterTake, WriterEnd, Gauge, DispatchAck, Command, Proceed, RefuseCommand,
         SendCommand, TakeAck, Expire, Return, FireAck, Cancel, Emit, WaitConnected,
         CheckConnected, Park

----------------------------------------------------------------------------
(* Types                                                                   *)

LEMMA InitType == HubInit => HubTypeOK
<1> SUFFICES ASSUME HubInit PROVE HubTypeOK
  OBVIOUS
<1>1. /\ outbox \in [Conns -> Seq(Messages)]
      /\ received \in [Conns -> Seq(Messages)]
  <2>1. <<>> \in Seq(Messages)
    OBVIOUS
  <2> QED
    BY <2>1 DEF HubInit
<1> QED
  BY <1>1 DEF HubInit, HubTypeOK

\* Queuing a message keeps the channels' type.
LEMMA EnqueueType ==
    ASSUME NEW S, NEW m \in Messages, HubTypeOK, Enqueue(S, m)
    PROVE  outbox' \in [Conns -> Seq(Messages)]
  BY DEF Enqueue, HubTypeOK

LEMMA RegistryType ==
    ASSUME HubTypeOK, Registry
    PROVE  HubTypeOK'
<1>1. RegistryStep /\ UNCHANGED <<calls, wires, emitted>>
  BY RegistryFrame
<1>2. /\ used' \subseteq Conns /\ clients' \subseteq used' /\ hello' \subseteq clients'
      /\ ready' \subseteq clients' /\ stale' \subseteq clients' /\ status' \in BOOLEAN
  <2>1. CASE ReapDeadClients
    BY <2>1 DEF HubTypeOK, ReapDeadClients, Remove
  <2>2. ASSUME NEW k \in Conns, RegisterClient(k) \/ GoStale(k) \/ SetClientHello(k)
        PROVE  <1>2
    BY <2>2 DEF HubTypeOK, RegisterClient, GoStale, SetClientHello
  <2>3. ASSUME NEW k \in Conns, TouchClient(k) \/ UnregisterClient(k)
        PROVE  <1>2
    BY <2>3 DEF HubTypeOK, TouchClient, UnregisterClient, Remove
  <2>4. ASSUME NEW k \in Conns, NEW r \in BOOLEAN, SetClientReady(k, r)
        PROVE  <1>2
    BY <2>4 DEF HubTypeOK, SetClientReady
  <2> QED
    BY <1>1, <2>1, <2>2, <2>3, <2>4 DEF RegistryStep
<1>3. waiter' \in [Waiters -> {"idle", "checking", "checked", "parked", "returned"}]
  BY <1>1 DEF RegistryStep, HubTypeOK, ReapDeadClients, RegisterClient, GoStale,
              SetClientHello, TouchClient, UnregisterClient, SetClientReady
<1> QED
  BY <1>1, <1>2, <1>3 DEF HubTypeOK, calls, wires

\* The channels: a queued message is one that was sent.
LEMMA ChannelsType ==
    ASSUME HubTypeOK, Channels
    PROVE  HubTypeOK'
<1> PICK k \in Conns : WriterTake(k) \/ WriterEnd(k)
  BY DEF Channels
<1>1. outbox' \in [Conns -> Seq(Messages)] /\ received' \in [Conns -> Seq(Messages)]
  <2>1. CASE WriterTake(k)
    <3>1. Head(outbox[k]) \in Messages /\ Tail(outbox[k]) \in Seq(Messages)
      BY <2>1 DEF WriterTake, HubTypeOK
    <3>2. Append(received[k], Head(outbox[k])) \in Seq(Messages)
      BY <3>1 DEF HubTypeOK
    <3>3. outbox' = [outbox EXCEPT ![k] = Tail(outbox[k])]
      BY <2>1 DEF WriterTake, HubTypeOK
    <3>4. \/ received' = [received EXCEPT ![k] = Append(received[k], Head(outbox[k]))]
          \/ received' = received
      BY <2>1 DEF WriterTake, HubTypeOK
    <3>5. outbox \in [Conns -> Seq(Messages)] /\ received \in [Conns -> Seq(Messages)]
      BY DEF HubTypeOK
    <3>6. outbox' \in [Conns -> Seq(Messages)]
      BY <3>1, <3>3, <3>5
    <3> QED
      BY <3>2, <3>4, <3>5, <3>6
  <2>2. CASE WriterEnd(k)
    BY <2>2 DEF WriterEnd, HubTypeOK
  <2> QED
    BY <2>1, <2>2
<1>2. closed' \subseteq Conns /\ UNCHANGED <<registry, calls, emitted, waiter>>
  BY DEF WriterTake, WriterEnd, HubTypeOK
<1> QED
  BY <1>1, <1>2 DEF HubTypeOK, registry, calls

LEMMA CallsType ==
    ASSUME HubTypeOK, NEW c \in Cmds,
           Command(c) \/ Proceed(c) \/ FireAck(c) \/ Cancel(c)
           \/ \E a \in Acks : DispatchAck(c, a)
    PROVE  HubTypeOK'
<1>1. CASE Command(c) \/ RefuseCommand(c) \/ TakeAck(c) \/ Expire(c) \/ Return(c) \/ Cancel(c)
  <2>1. UNCHANGED <<registry, held, slot, wires, emitted, waiter>>
    BY <1>1 DEF Command, RefuseCommand, TakeAck, Expire, Return, Cancel
  <2>2. pending' \subseteq Cmds
    BY <1>1 DEF HubTypeOK, Command, RefuseCommand, TakeAck, Expire, Return, Cancel
  <2>3. pc' \in [Cmds -> {"idle", "ok", "application", "timeout", "cancelled"}
                           \cup Running \cup Refusals]
    <3> DEFINE Places == {"idle", "ok", "application", "timeout", "cancelled"}
                            \cup Running \cup Refusals
    <3>1. pc \in [Cmds -> Places]
      BY DEF HubTypeOK
    <3>2. \E x \in Places : pc' = [pc EXCEPT ![c] = x]
      BY <1>1, Zenon DEF Command, RefuseCommand, TakeAck, Expire, Return, Cancel, Outcome,
                         Running, Refusals
    <3> HIDE DEF Places
    <3>3. pc' \in [Cmds -> Places]
      BY <3>1, <3>2
    <3> QED
      BY <3>3 DEF Places
  <2> QED
    BY <2>1, <2>2, <2>3 DEF HubTypeOK, registry, wires
<1>2. CASE SendCommand(c)
  <2>1. outbox' \in [Conns -> Seq(Messages)]
    BY <1>2, EnqueueType DEF SendCommand, Messages
  <2> QED
    BY <1>2, <2>1 DEF SendCommand, HubTypeOK, registry, Running
<1>3. CASE FireAck(c)
  BY <1>3 DEF FireAck, HubTypeOK, registry, wires
<1>4. ASSUME NEW a \in Acks, DispatchAck(c, a) PROVE HubTypeOK'
  BY <1>4 DEF DispatchAck, HubTypeOK, registry, wires
<1> QED
  BY <1>1, <1>2, <1>3, <1>4 DEF Proceed

LEMMA EmitType ==
    ASSUME HubTypeOK, NEW e \in Events, Emit(e)
    PROVE  HubTypeOK'
<1>1. outbox' \in [Conns -> Seq(Messages)]
  BY EnqueueType DEF Emit, Messages
<1> QED
  BY <1>1 DEF Emit, HubTypeOK, registry, calls, Refusals

LEMMA WaiterType ==
    ASSUME HubTypeOK, NEW w \in Waiters, WaitConnected(w) \/ CheckConnected(w) \/ Park(w)
    PROVE  HubTypeOK'
  BY DEF WaitConnected, CheckConnected, Park, HubTypeOK, registry, calls, wires

LEMMA NextType == HubTypeOK /\ [HubNext]_hubVars => HubTypeOK'
<1> SUFFICES ASSUME HubTypeOK, [HubNext]_hubVars PROVE HubTypeOK'
  OBVIOUS
<1>1. CASE Registry
  BY <1>1, RegistryType
<1>2. CASE Channels
  BY <1>2, ChannelsType
<1>3. CASE Gauge
  BY <1>3, CallsType DEF Gauge
<1>4. CASE \E c \in Cmds : Command(c) \/ Proceed(c) \/ FireAck(c) \/ Cancel(c)
  BY <1>4, CallsType
<1>5. CASE \E e \in Events : Emit(e)
  BY <1>5, EmitType
<1>6. CASE \E w \in Waiters : WaitConnected(w) \/ CheckConnected(w) \/ Park(w)
  BY <1>6, WaiterType
<1>7. CASE UNCHANGED hubVars
  BY <1>7 DEF hubVars, registry, calls, wires, HubTypeOK
<1> QED
  BY <1>1, <1>2, <1>3, <1>4, <1>5, <1>6, <1>7 DEF HubNext

\* Type correctness, and flags only for registered connections (HubTypeOK): a
\* late hello, ready or touch never brings a removed entry back.
THEOREM TypeCorrect == HubSpec => []HubTypeOK
<1>1. HubInit => HubTypeOK
  BY InitType
<1>2. HubTypeOK /\ [HubNext]_hubVars => HubTypeOK'
  BY NextType
<1> QED
  BY <1>1, <1>2, PTL DEF HubSpec

----------------------------------------------------------------------------
(* The watch channel                                                       *)

LEMMA StatusStep ==
    ASSUME HubTypeOK, StatusMatchesRegistry, [HubNext]_hubVars
    PROVE  StatusMatchesRegistry'
<1>1. CASE Registry
  <2> USE <1>1 DEF StatusMatchesRegistry
  <2>1. CASE ReapDeadClients
    BY <2>1 DEF ReapDeadClients, Remove
  <2>2. ASSUME NEW k \in Conns, RegisterClient(k) \/ GoStale(k) \/ SetClientHello(k)
                                \/ TouchClient(k) \/ UnregisterClient(k)
        PROVE  StatusMatchesRegistry'
    BY <2>2 DEF RegisterClient, GoStale, SetClientHello, TouchClient, UnregisterClient
  <2>3. ASSUME NEW k \in Conns, NEW r \in BOOLEAN, SetClientReady(k, r)
        PROVE  StatusMatchesRegistry'
    BY <2>3 DEF SetClientReady
  <2> QED
    BY <2>1, <2>2, <2>3, RegistryFrame DEF RegistryStep
<1>2. CASE UNCHANGED registry
  BY <1>2 DEF registry, StatusMatchesRegistry
<1> QED
  BY <1>1, <1>2, OtherFrame DEF HubNext, hubVars

\* connection_status() is true exactly while a gauge is registered, however
\* registrations, removals and reaps by several tasks interleave.
THEOREM StatusCorrect == HubSpec => []StatusMatchesRegistry
<1>1. HubInit => StatusMatchesRegistry
  BY DEF HubInit, StatusMatchesRegistry
<1>2. HubTypeOK /\ StatusMatchesRegistry /\ [HubNext]_hubVars => StatusMatchesRegistry'
  BY StatusStep
<1> QED
  BY <1>1, <1>2, TypeCorrect, PTL DEF HubSpec

----------------------------------------------------------------------------
(* What travels                                                            *)

\* Once sent, a message stays sent: no step takes it back.
LEMMA SentIsForEver ==
    ASSUME HubTypeOK, HubNext, NEW m \in Messages, WasSent(m)
    PROVE  WasSent(m)'
<1>1. m \in Cmds => pc'[m] \notin Unsent
  <2> SUFFICES ASSUME m \in Cmds PROVE pc'[m] \notin Unsent
    OBVIOUS
  <2> USE DEF HubTypeOK, WasSent, Unsent, Refusals
  <2>1. ASSUME NEW c \in Cmds, Command(c) \/ Proceed(c) \/ FireAck(c) \/ Cancel(c)
        PROVE  pc'[m] \notin Unsent
    <3>1. CASE Command(c)
      BY <3>1 DEF Command
    <3>2. CASE RefuseCommand(c) \/ SendCommand(c)
      BY <3>2 DEF RefuseCommand, SendCommand
    <3>3. CASE TakeAck(c) \/ Expire(c) \/ Cancel(c)
      BY <3>3 DEF TakeAck, Expire, Cancel, Running
    <3>4. CASE Return(c)
      BY <3>4 DEF Return, Outcome
    <3>5. CASE FireAck(c)
      BY <3>5 DEF FireAck
    <3> QED
      BY <2>1, <3>1, <3>2, <3>3, <3>4, <3>5 DEF Proceed
  <2>2. CASE Registry \/ Channels \/ Gauge \/ (\E e \in Events : Emit(e))
             \/ \E w \in Waiters : WaitConnected(w) \/ CheckConnected(w) \/ Park(w)
    <3>1. UNCHANGED pc
      BY <2>2, RegistryFrame DEF Channels, Gauge, WriterTake, WriterEnd, DispatchAck, Emit,
         WaitConnected, CheckConnected, Park, calls
    <3> QED
      BY <3>1
  <2> QED
    BY <2>1, <2>2 DEF HubNext
<1>2. m \in Events => emitted'[m] = "ok"
  <2> SUFFICES ASSUME m \in Events PROVE emitted'[m] = "ok"
    OBVIOUS
  <2>1. CASE \E e \in Events : Emit(e)
    BY <2>1 DEF Emit, WasSent, HubTypeOK
  <2>2. CASE ~ \E e \in Events : Emit(e)
    <3>1. UNCHANGED emitted
      BY <2>2, RegistryFrame DEF HubNext, Channels, Gauge, WriterTake, WriterEnd, DispatchAck,
         Command, Proceed, RefuseCommand, SendCommand, TakeAck, Expire, Return, FireAck,
         Cancel, WaitConnected, CheckConnected, Park
    <3> QED
      BY <3>1 DEF WasSent
  <2> QED
    BY <2>1, <2>2
<1> QED
  BY <1>1, <1>2 DEF WasSent

\* A step moves messages from a channel to its gauge, drops them, or queues one
\* that this very step marks as sent.
LEMMA CargoStep ==
    ASSUME HubTypeOK, HubNext, NEW k \in Conns, NEW m, m \in Cargo(k)'
    PROVE  m \in Cargo(k) \/ (m \in Messages /\ WasSent(m)')
<1>0. outbox[k] \in Seq(Messages) /\ received[k] \in Seq(Messages)
  BY DEF HubTypeOK
<1>1. ASSUME NEW l \in Conns, WriterTake(l) PROVE m \in Cargo(k)
  <2>1. CASE l = k
    <3>1. /\ outbox[k] # <<>>
          /\ outbox'[k] = Tail(outbox[k])
          /\ received'[k] = received[k] \/ received'[k] = Append(received[k], outbox[k][1])
      BY <1>0, <1>1, <2>1 DEF WriterTake, HubTypeOK
    <3>2. 1 \in DOMAIN outbox[k]
      BY <1>0, <3>1
    <3>3. ASSUME NEW i \in DOMAIN received'[k] PROVE received'[k][i] \in Cargo(k)
      <4>1. CASE received'[k] = received[k]
        BY <3>3, <4>1 DEF Cargo
      <4>2. CASE received'[k] = Append(received[k], outbox[k][1])
        <5>1. \/ i \in DOMAIN received[k] /\ received'[k][i] = received[k][i]
              \/ received'[k][i] = outbox[k][1]
          BY <1>0, <3>2, <3>3, <4>2
        <5> QED
          BY <3>2, <5>1 DEF Cargo
      <4> QED
        BY <3>1, <4>1, <4>2
    <3>4. ASSUME NEW i \in DOMAIN outbox'[k] PROVE outbox'[k][i] \in Cargo(k)
      <4>1. i + 1 \in DOMAIN outbox[k] /\ outbox'[k][i] = outbox[k][i + 1]
        BY <1>0, <3>1, <3>4
      <4> QED
        BY <4>1 DEF Cargo
    <3> QED
      BY <3>3, <3>4 DEF Cargo
  <2>2. CASE l # k
    <3>1. outbox'[k] = outbox[k] /\ received'[k] = received[k]
      BY <1>1, <2>2 DEF WriterTake, HubTypeOK
    <3> QED
      BY <3>1 DEF Cargo
  <2> QED
    BY <2>1, <2>2
<1>2. ASSUME NEW l \in Conns, WriterEnd(l) PROVE m \in Cargo(k)
  <2>1. (outbox'[k] = outbox[k] \/ outbox'[k] = <<>>) /\ received' = received
    BY <1>2 DEF WriterEnd, HubTypeOK
  <2> QED
    BY <2>1 DEF Cargo
<1>3. ASSUME NEW S, NEW n \in Messages, Enqueue(S, n), received' = received
      PROVE  m \in Cargo(k) \/ m = n
  <2>1. outbox'[k] = outbox[k] \/ outbox'[k] = Append(outbox[k], n)
    BY <1>3 DEF Enqueue
  <2>2. ASSUME NEW i \in DOMAIN outbox'[k]
        PROVE  (i \in DOMAIN outbox[k] /\ outbox'[k][i] = outbox[k][i]) \/ outbox'[k][i] = n
    BY <1>0, <2>1, <2>2
  <2> QED
    BY <1>3, <2>2 DEF Cargo
<1>4. ASSUME NEW c \in Cmds, SendCommand(c) PROVE m \in Cargo(k) \/ (m \in Messages /\ WasSent(m)')
  <2>1. c \in Messages /\ c \notin Events /\ pc'[c] = "waiting"
    BY <1>4, MessagesDisjoint DEF SendCommand, Messages, HubTypeOK
  <2>2. WasSent(c)'
    BY <2>1 DEF WasSent, Unsent, Refusals
  <2>3. m \in Cargo(k) \/ m = c
    BY <1>3, <1>4, <2>1 DEF SendCommand
  <2> QED
    BY <2>1, <2>2, <2>3
<1>5. ASSUME NEW e \in Events, Emit(e) PROVE m \in Cargo(k) \/ (m \in Messages /\ WasSent(m)')
  <2>1. e \in Messages /\ e \notin Cmds
    BY MessagesDisjoint DEF Messages
  <2>2. CASE clients \subseteq closed
    <3>1. outbox' = [j \in Conns |-> outbox[j]] /\ received' = received
      BY <1>5, <2>2 DEF Emit, Enqueue
    <3> QED
      BY <3>1 DEF Cargo
  <2>3. CASE ~ clients \subseteq closed
    <3>1. WasSent(e)'
      BY <1>5, <2>1, <2>3 DEF Emit, WasSent, HubTypeOK
    <3>2. m \in Cargo(k) \/ m = e
      BY <1>3, <1>5, <2>1 DEF Emit
    <3> QED
      BY <2>1, <3>1, <3>2
  <2> QED
    BY <2>2, <2>3
<1>6. CASE \/ Registry \/ Gauge
           \/ \E c \in Cmds : \/ Command(c) \/ FireAck(c) \/ Cancel(c) \/ RefuseCommand(c)
                              \/ TakeAck(c) \/ Expire(c) \/ Return(c)
           \/ \E w \in Waiters : WaitConnected(w) \/ CheckConnected(w) \/ Park(w)
  <2>1. outbox' = outbox /\ received' = received
    BY <1>6, RegistryFrame DEF Gauge, DispatchAck, Command, FireAck, Cancel, RefuseCommand,
       TakeAck, Expire, Return, WaitConnected, CheckConnected, Park, wires
  <2> QED
    BY <2>1 DEF Cargo
<1> QED
  BY <1>1, <1>2, <1>4, <1>5, <1>6 DEF HubNext, Channels, Proceed

LEMMA TravelStep ==
    ASSUME HubTypeOK, OnlySentTravels, [HubNext]_hubVars
    PROVE  OnlySentTravels'
<1>1. CASE HubNext
  <2> SUFFICES ASSUME NEW k \in Conns, NEW m, m \in Cargo(k)' PROVE WasSent(m)'
    BY DEF OnlySentTravels
  <2>1. CASE m \in Cargo(k)
    <3>1. m \in Messages /\ WasSent(m)
      BY <2>1 DEF OnlySentTravels, Cargo, HubTypeOK
    <3> QED
      BY <1>1, <3>1, SentIsForEver
  <2>2. CASE m \notin Cargo(k)
    BY <1>1, <2>2, CargoStep
  <2> QED
    BY <2>1, <2>2
<1>2. CASE UNCHANGED hubVars
  BY <1>2 DEF hubVars, calls, wires, OnlySentTravels, Cargo, WasSent
<1> QED
  BY <1>1, <1>2

LEMMA SentInvariant == HubSpec => []OnlySentTravels
<1>1. HubInit => OnlySentTravels
  BY DEF HubInit, OnlySentTravels, Cargo
<1>2. HubTypeOK /\ OnlySentTravels /\ [HubNext]_hubVars => OnlySentTravels'
  BY TravelStep
<1> QED
  BY <1>1, <1>2, TypeCorrect, PTL DEF HubSpec

\* An element of a concatenation is one of its two parts'.
LEMMA ConcatElement ==
    ASSUME NEW S, NEW s \in Seq(S), NEW t \in Seq(S), NEW i \in DOMAIN (s \o t)
    PROVE  \/ i \in DOMAIN s /\ (s \o t)[i] = s[i]
           \/ i - Len(s) \in DOMAIN t /\ (s \o t)[i] = t[i - Len(s)]
<1>1. /\ s \o t \in Seq(S)
      /\ Len(s \o t) = Len(s) + Len(t)
      /\ \A j \in 1 .. Len(s) + Len(t) :
            (s \o t)[j] = IF j <= Len(s) THEN s[j] ELSE t[j - Len(s)]
  BY ConcatProperties
<1>2. i \in 1 .. Len(s) + Len(t) /\ DOMAIN s = 1 .. Len(s) /\ DOMAIN t = 1 .. Len(t)
  BY <1>1
<1>3. Len(s) \in Nat /\ Len(t) \in Nat
  OBVIOUS
<1>4. CASE i <= Len(s)
  BY <1>1, <1>2, <1>3, <1>4
<1>5. CASE ~ i <= Len(s)
  BY <1>1, <1>2, <1>3, <1>5
<1> QED
  BY <1>4, <1>5

\* A command refused with NoClients or Transport, and an event whose emit failed,
\* is in no channel and at no gauge, then and ever after.
THEOREM RefusalsCorrect == HubSpec => []RefusedNeverSent
<1>1. HubTypeOK /\ OnlySentTravels => RefusedNeverSent
  <2> SUFFICES ASSUME HubTypeOK, OnlySentTravels,
                      NEW k \in Conns, NEW i \in DOMAIN Sent(k)
               PROVE  /\ Sent(k)[i] \in Cmds => pc[Sent(k)[i]] \notin Refusals
                      /\ Sent(k)[i] \in Events => emitted[Sent(k)[i]] \notin Refusals
    BY DEF RefusedNeverSent
  <2>1. received[k] \in Seq(Messages) /\ outbox[k] \in Seq(Messages)
    BY DEF HubTypeOK
  <2>2. \/ i \in DOMAIN received[k] /\ Sent(k)[i] = received[k][i]
        \/ i - Len(received[k]) \in DOMAIN outbox[k]
           /\ Sent(k)[i] = outbox[k][i - Len(received[k])]
    BY <2>1, ConcatElement DEF Sent
  <2>3. Sent(k)[i] \in Cargo(k)
    BY <2>2 DEF Cargo
  <2> QED
    BY <2>3 DEF OnlySentTravels, WasSent, Unsent, Refusals
<1> QED
  BY <1>1, TypeCorrect, SentInvariant, PTL

----------------------------------------------------------------------------
(* The sender of a command                                                 *)

\* Steps that change neither a call nor what was sent keep every sender in place.
LEMMA SenderFrame ==
    ASSUME \A c \in Cmds : SenderPlace(c), UNCHANGED calls
    PROVE  \A c \in Cmds : SenderPlace(c)'
  BY DEF SenderPlace, calls

LEMMA SenderStep ==
    ASSUME HubInv, [HubNext]_hubVars, NEW d \in Cmds
    PROVE  SenderPlace(d)'
<1> USE DEF HubInv, HubTypeOK, SenderPlace
<1>1. ASSUME NEW c \in Cmds, Command(c) PROVE SenderPlace(d)'
  BY <1>1 DEF Command, Unsent, Running, Refusals
<1>2. ASSUME NEW c \in Cmds, RefuseCommand(c) PROVE SenderPlace(d)'
  BY <1>2 DEF RefuseCommand, Unsent, Running, Refusals
<1>3. ASSUME NEW c \in Cmds, SendCommand(c) PROVE SenderPlace(d)'
  BY <1>3 DEF SendCommand, Unsent, Running, Refusals
<1>4. ASSUME NEW c \in Cmds, TakeAck(c) \/ Expire(c) PROVE SenderPlace(d)'
  BY <1>4 DEF TakeAck, Expire, Unsent, Running, Refusals
<1>5. ASSUME NEW c \in Cmds, Return(c) PROVE SenderPlace(d)'
  BY <1>5 DEF Return, Outcome, Unsent, Running, Refusals
<1>6. ASSUME NEW c \in Cmds, Cancel(c) PROVE SenderPlace(d)'
  BY <1>6 DEF Cancel, Unsent, Running, Refusals
<1>7. ASSUME NEW c \in Cmds, FireAck(c) PROVE SenderPlace(d)'
  BY <1>7 DEF FireAck, Unsent, Running, Refusals
<1>8. CASE Gauge
  <2> PICK k \in Conns, c \in Cmds, a \in Acks : c \in Delivered(k) /\ DispatchAck(c, a)
    BY <1>8 DEF Gauge
  <2>1. pc[c] \notin Unsent
    BY DEF Delivered, OnlySentTravels, Cargo, WasSent
  <2> QED
    BY <2>1 DEF DispatchAck, Acks, Unsent, Running, Refusals
<1>9. CASE UNCHANGED calls
  BY <1>9, SenderFrame
<1>10. UNCHANGED calls
       \/ Gauge
       \/ \E c \in Cmds : Command(c) \/ Proceed(c) \/ FireAck(c) \/ Cancel(c)
  BY RegistryFrame DEF HubNext, hubVars, Channels, WriterTake, WriterEnd, Emit,
     WaitConnected, CheckConnected, Park
<1> QED
  BY <1>1, <1>2, <1>3, <1>4, <1>5, <1>6, <1>7, <1>8, <1>9, <1>10 DEF Proceed

LEMMA InvariantInitial == HubInit => HubInv
<1> SUFFICES ASSUME HubInit PROVE HubInv
  OBVIOUS
<1>1. HubTypeOK
  BY InitType
<1>2. StatusMatchesRegistry
  BY DEF HubInit, StatusMatchesRegistry
<1>3. OnlySentTravels
  BY DEF HubInit, OnlySentTravels, Cargo
<1>4. \A c \in Cmds : SenderPlace(c)
  BY DEF HubInit, SenderPlace
<1> QED
  BY <1>1, <1>2, <1>3, <1>4 DEF HubInv

LEMMA InvariantStep == HubInv /\ [HubNext]_hubVars => HubInv'
<1> SUFFICES ASSUME HubInv, [HubNext]_hubVars PROVE HubInv'
  OBVIOUS
<1>1. HubTypeOK'
  BY NextType DEF HubInv
<1>2. StatusMatchesRegistry' /\ OnlySentTravels'
  BY StatusStep, TravelStep DEF HubInv
<1>3. \A c \in Cmds : SenderPlace(c)'
  BY SenderStep
<1> QED
  BY <1>1, <1>2, <1>3 DEF HubInv

LEMMA InvariantHolds == HubSpec => []HubInv
  BY InvariantInitial, InvariantStep, PTL DEF HubSpec

\* What a gauge has received it has received for good.
LEMMA Grows ==
    ASSUME HubTypeOK, [HubNext]_hubVars, NEW k \in Conns
    PROVE  Delivered(k) \subseteq Delivered(k)'
<1>1. received[k] \in Seq(Messages) /\ outbox[k] \in Seq(Messages)
  BY DEF HubTypeOK
<1>2. CASE \E j \in Conns : WriterTake(j)
  <2> PICK j \in Conns : WriterTake(j)
    BY <1>2
  <2>1. Head(outbox[j]) \in Messages
    BY DEF WriterTake, HubTypeOK
  <2>2. \/ received'[k] = received[k]
        \/ received'[k] = Append(received[k], Head(outbox[j]))
    BY DEF WriterTake, HubTypeOK
  <2>3. \A i \in DOMAIN received[k] : i \in DOMAIN received'[k] /\ received'[k][i] = received[k][i]
    BY <1>1, <2>1, <2>2
  <2> QED
    BY <2>3 DEF Delivered
<1>3. CASE UNCHANGED received
  BY <1>3 DEF Delivered
<1>4. (\E j \in Conns : WriterTake(j)) \/ UNCHANGED received
  <2>1. CASE Registry
    BY <2>1, RegistryFrame DEF wires
  <2>2. CASE ~ Registry
    BY <2>2 DEF HubNext, hubVars, wires, Channels, WriterEnd, Gauge, DispatchAck, Command,
       Proceed, RefuseCommand, SendCommand, TakeAck, Expire, Return, FireAck, Cancel, Emit,
       WaitConnected, CheckConnected, Park
  <2> QED
    BY <2>1, <2>2
<1> QED
  BY <1>2, <1>3, <1>4

\* A waiting command never loses its sender and no sender is in two places, and a
\* command that returned left nothing in `pending`: so a caller that gets a timeout
\* was answered by nobody, and the map grows only with cancelled calls.
THEOREM SenderCorrect == HubSpec => []SenderAccounted
<1>1. HubInv => SenderAccounted
  BY DEF HubInv, SenderPlace, SenderAccounted, Unsent
<1> QED
  BY <1>1, InvariantHolds, PTL

----------------------------------------------------------------------------
(* Calls implement Rpc                                                     *)

LEMMA RpcInit == HubInit => Abstract!Init
  BY DEF HubInit, Abstract!Init

\* Each step is a step of the one call it belongs to, or of none.
LEMMA RpcStep ==
    ASSUME HubInv, HubNext
    PROVE  Abstract!Next \/ UNCHANGED Abstract!vars
<1> USE DEF HubInv, HubTypeOK
<1>1. ASSUME NEW c \in Cmds, Command(c) PROVE Abstract!Call(c)
  BY <1>1 DEF Command, Abstract!Call
<1>2. ASSUME NEW c \in Cmds, RefuseCommand(c) PROVE Abstract!Refuse(c)
  BY <1>2 DEF RefuseCommand, Abstract!Refuse, Abstract!Refusals
<1>3. ASSUME NEW c \in Cmds, SendCommand(c) PROVE Abstract!Accept(c)
  BY <1>3 DEF SendCommand, Abstract!Accept
<1>4. ASSUME NEW c \in Cmds, TakeAck(c) \/ Expire(c) PROVE UNCHANGED Abstract!vars
  BY <1>4 DEF TakeAck, Expire, Abstract!vars
<1>5. ASSUME NEW c \in Cmds, Return(c) PROVE Abstract!Return(c) \/ Abstract!TimeOut(c)
  BY <1>5 DEF Return, SenderPlace, Outcome, Abstract!Return, Abstract!TimeOut, Abstract!Outcome
<1>6. ASSUME NEW c \in Cmds, Cancel(c) PROVE Abstract!Abandon(c)
  BY <1>6 DEF Cancel, Running, Abstract!Abandon, Abstract!Live
<1>7. ASSUME NEW c \in Cmds, FireAck(c) PROVE Abstract!Answer(c) \/ UNCHANGED Abstract!vars
  BY <1>7 DEF FireAck, SenderPlace, Acks, Abstract!Answer, Abstract!Answers, Abstract!vars
<1>8. CASE Registry \/ Channels \/ Gauge \/ (\E e \in Events : Emit(e))
           \/ \E w \in Waiters : WaitConnected(w) \/ CheckConnected(w) \/ Park(w)
  <2>1. UNCHANGED <<pc, slot>>
    BY <1>8, RegistryFrame DEF Channels, WriterTake, WriterEnd, Gauge, DispatchAck, Emit,
       WaitConnected, CheckConnected, Park, calls
  <2> QED
    BY <2>1 DEF Abstract!vars
<1> QED
  BY <1>1, <1>2, <1>3, <1>4, <1>5, <1>6, <1>7, <1>8
     DEF HubNext, Proceed, Abstract!Next, Abstract!Settle

\* The safety half of CallsSettle: a call is refused only before it was sent, its
\* result is the first ack that reached it, a call that was answered never times
\* out, and nothing changes a settled call - however acks, timers, cancellations,
\* reaps and other calls interleave.
THEOREM CallsImplementRpc == HubSpec => ImplementsRpc
<1>1. HubInit => Abstract!Init
  BY RpcInit
<1>2. HubInv /\ [HubNext]_hubVars => [Abstract!Next]_(Abstract!vars)
  <2> SUFFICES ASSUME HubInv, [HubNext]_hubVars
               PROVE  Abstract!Next \/ UNCHANGED Abstract!vars
    OBVIOUS
  <2>1. CASE HubNext
    BY <2>1, RpcStep
  <2>2. CASE UNCHANGED hubVars
    BY <2>2 DEF hubVars, calls, Abstract!vars
  <2> QED
    BY <2>1, <2>2
<1> QED
  BY <1>1, <1>2, InvariantHolds, PTL DEF HubSpec, ImplementsRpc, Abstract!Spec

----------------------------------------------------------------------------
(* Events                                                                  *)

\* emit says Ok only for an event that a registered connection with a live writer
\* has just accepted.
THEOREM EmitCorrect == HubSpec => EmitOkReachedAWriter
<1> DEFINE Reached == \A e \in Events : emitted[e] = "idle" /\ emitted'[e] = "ok" =>
                        \E k \in clients \ closed : \E i \in DOMAIN outbox'[k] : outbox'[k][i] = e
<1>1. HubTypeOK /\ [HubNext]_hubVars => [Reached]_hubVars
  <2> SUFFICES ASSUME HubTypeOK, HubNext,
                      NEW e \in Events, emitted[e] = "idle", emitted'[e] = "ok"
               PROVE  \E k \in clients \ closed : \E i \in DOMAIN outbox'[k] : outbox'[k][i] = e
    OBVIOUS
  <2>1. Emit(e) /\ ~ clients \subseteq closed
    <3>1. \E f \in Events : Emit(f)
      BY RegistryFrame DEF HubNext, Channels, Gauge, WriterTake, WriterEnd, DispatchAck,
         Command, Proceed, RefuseCommand, SendCommand, TakeAck, Expire, Return, FireAck,
         Cancel, WaitConnected, CheckConnected, Park
    <3>2. Emit(e)
      BY <3>1 DEF Emit, HubTypeOK
    <3> QED
      BY <3>2 DEF Emit, HubTypeOK
  <2>2. PICK k \in clients \ closed : outbox'[k] = Append(outbox[k], e)
    BY <2>1 DEF Emit, Enqueue, HubTypeOK
  <2>3. outbox[k] \in Seq(Messages)
    BY DEF HubTypeOK
  <2>4. Len(outbox[k]) + 1 \in DOMAIN outbox'[k] /\ outbox'[k][Len(outbox[k]) + 1] = e
    BY <2>2, <2>3
  <2> QED
    BY <2>4
<1> QED
  BY <1>1, TypeCorrect, PTL DEF HubSpec, EmitOkReachedAWriter

----------------------------------------------------------------------------
(* The order in which messages travel                                      *)

LEMMA ConcatIndex ==
    ASSUME NEW S, NEW s \in Seq(S), NEW t \in Seq(S)
    PROVE  /\ Len(s) \in Nat /\ Len(t) \in Nat
           /\ DOMAIN s = 1 .. Len(s) /\ DOMAIN t = 1 .. Len(t)
           /\ DOMAIN (s \o t) = 1 .. Len(s) + Len(t)
           /\ \A i \in 1 .. Len(s) + Len(t) :
                 (s \o t)[i] = IF i <= Len(s) THEN s[i] ELSE t[i - Len(s)]
<1>1. /\ s \o t \in Seq(S)
      /\ Len(s \o t) = Len(s) + Len(t)
      /\ \A i \in 1 .. Len(s) + Len(t) :
            (s \o t)[i] = IF i <= Len(s) THEN s[i] ELSE t[i - Len(s)]
  BY ConcatProperties
<1> QED
  BY <1>1

\* The first message of a channel goes to the gauge.
LEMMA ReceiveOrder ==
    ASSUME NEW S, NEW r \in Seq(S), NEW o \in Seq(S), o # <<>>, NEW m, NEW n,
           Precedes(Append(r, o[1]) \o Tail(o), m, n)
    PROVE  Precedes(r \o o, m, n)
<1>1. /\ Append(r, o[1]) \in Seq(S) /\ Len(Append(r, o[1])) = Len(r) + 1
      /\ \A i \in 1 .. Len(r) + 1 : Append(r, o[1])[i] = IF i <= Len(r) THEN r[i] ELSE o[1]
  OBVIOUS
<1>2. /\ Tail(o) \in Seq(S) /\ Len(Tail(o)) = Len(o) - 1 /\ Len(o) > 0
      /\ \A i \in 1 .. Len(o) - 1 : Tail(o)[i] = o[i + 1]
  OBVIOUS
<1> DEFINE q == Append(r, o[1])
           p == Tail(o)
           s == q \o p
           t == r \o o
<1>3. /\ Len(r) \in Nat /\ Len(o) \in Nat /\ DOMAIN t = 1 .. Len(r) + Len(o)
      /\ \A i \in 1 .. Len(r) + Len(o) : t[i] = IF i <= Len(r) THEN r[i] ELSE o[i - Len(r)]
  BY ConcatIndex
<1>4. PICK i, j \in DOMAIN s : i < j /\ s[i] = m /\ s[j] = n
  BY DEF Precedes
<1> HIDE DEF q, p, t
<1>5. /\ DOMAIN s = 1 .. Len(q) + Len(p)
      /\ \A x \in 1 .. Len(q) + Len(p) : s[x] = IF x <= Len(q) THEN q[x] ELSE p[x - Len(q)]
  BY <1>1, <1>2, ConcatIndex DEF q, p
<1> HIDE DEF s
<1>6. Len(q) = Len(r) + 1 /\ Len(p) = Len(o) - 1
  BY <1>1, <1>2 DEF q, p
<1>7. ASSUME NEW x \in DOMAIN s PROVE x \in DOMAIN t /\ t[x] = s[x]
  <2>1. x \in 1 .. Len(r) + Len(o) /\ x \in 1 .. Len(q) + Len(p)
    BY <1>3, <1>5, <1>6
  <2>2. CASE x <= Len(r) + 1
    <3>1. s[x] = q[x]
      BY <1>5, <1>6, <2>1, <2>2
    <3>2. q[x] = IF x <= Len(r) THEN r[x] ELSE o[1]
      BY <1>1, <1>3, <2>1, <2>2 DEF q
    <3>3. t[x] = IF x <= Len(r) THEN r[x] ELSE o[x - Len(r)]
      BY <1>3, <2>1
    <3>4. ~ x <= Len(r) => x - Len(r) = 1
      BY <1>3, <2>1, <2>2
    <3> QED
      BY <1>3, <2>1, <3>1, <3>2, <3>3, <3>4
  <2>3. CASE x > Len(r) + 1
    <3>1. s[x] = p[x - (Len(r) + 1)]
      <4>1. s[x] = IF x <= Len(q) THEN q[x] ELSE p[x - Len(q)]
        BY <1>5, <2>1
      <4>2. ~ x <= Len(q)
        BY <1>3, <1>6, <2>1, <2>3
      <4>3. x - Len(q) = x - (Len(r) + 1)
        BY <1>6
      <4> QED
        BY <4>1, <4>2, <4>3
    <3>2. x - (Len(r) + 1) \in 1 .. Len(o) - 1 /\ x - (Len(r) + 1) + 1 = x - Len(r)
      BY <1>3, <2>1, <2>3
    <3>3. p[x - (Len(r) + 1)] = o[x - Len(r)]
      BY <1>2, <3>2 DEF p
    <3> QED
      BY <1>3, <2>1, <2>3, <3>1, <3>3
  <2> QED
    BY <1>3, <2>1, <2>2, <2>3
<1>8. Precedes(t, m, n)
  BY <1>4, <1>7 DEF Precedes
<1> QED
  BY <1>8 DEF t

\* The first message of a channel is lost.
LEMMA LossOrder ==
    ASSUME NEW S, NEW r \in Seq(S), NEW o \in Seq(S), o # <<>>, NEW m, NEW n,
           Precedes(r \o Tail(o), m, n)
    PROVE  Precedes(r \o o, m, n)
<1>2. /\ Tail(o) \in Seq(S) /\ Len(Tail(o)) = Len(o) - 1 /\ Len(o) > 0
      /\ \A i \in 1 .. Len(o) - 1 : Tail(o)[i] = o[i + 1]
  OBVIOUS
<1> DEFINE p == Tail(o)
           s == r \o p
           t == r \o o
           f(x) == IF x <= Len(r) THEN x ELSE x + 1
<1>3. /\ Len(r) \in Nat /\ Len(o) \in Nat /\ DOMAIN t = 1 .. Len(r) + Len(o)
      /\ \A i \in 1 .. Len(r) + Len(o) : t[i] = IF i <= Len(r) THEN r[i] ELSE o[i - Len(r)]
  BY ConcatIndex
<1>4. PICK i, j \in DOMAIN s : i < j /\ s[i] = m /\ s[j] = n
  BY DEF Precedes
<1> HIDE DEF p, t
<1>5. /\ DOMAIN s = 1 .. Len(r) + Len(p)
      /\ \A x \in 1 .. Len(r) + Len(p) : s[x] = IF x <= Len(r) THEN r[x] ELSE p[x - Len(r)]
  BY <1>2, ConcatIndex DEF p
<1> HIDE DEF s
<1>6. Len(p) = Len(o) - 1
  BY <1>2 DEF p
<1>7. ASSUME NEW x \in DOMAIN s PROVE f(x) \in DOMAIN t /\ t[f(x)] = s[x]
  <2>1. x \in 1 .. Len(r) + (Len(o) - 1)
    BY <1>3, <1>5, <1>6
  <2>2. CASE x <= Len(r)
    BY <1>3, <1>5, <1>6, <2>1, <2>2
  <2>3. CASE x > Len(r)
    <3>1. s[x] = p[x - Len(r)]
      BY <1>3, <1>5, <1>6, <2>1, <2>3
    <3>2. x - Len(r) \in 1 .. Len(o) - 1 /\ (x - Len(r)) + 1 = (x + 1) - Len(r)
      BY <1>3, <2>1, <2>3
    <3>3. p[x - Len(r)] = o[(x + 1) - Len(r)]
      BY <1>2, <3>2 DEF p
    <3>4. f(x) = x + 1 /\ f(x) \in 1 .. Len(r) + Len(o) /\ ~ f(x) <= Len(r)
      BY <1>3, <2>1, <2>3
    <3> HIDE DEF f
    <3>5. t[f(x)] = IF f(x) <= Len(r) THEN r[f(x)] ELSE o[f(x) - Len(r)]
      BY <1>3, <3>4
    <3>6. t[f(x)] = o[f(x) - Len(r)]
      BY <3>4, <3>5
    <3>7. o[f(x) - Len(r)] = o[(x + 1) - Len(r)]
      BY <3>4
    <3>8. f(x) \in DOMAIN t
      BY <1>3, <3>4
    <3> QED
      BY <3>1, <3>3, <3>6, <3>7, <3>8
  <2> QED
    BY <1>3, <2>1, <2>2, <2>3
<1>8. i \in Nat /\ j \in Nat /\ f(i) < f(j)
  BY <1>3, <1>4, <1>5, <1>6, <1>2
<1>9. Precedes(t, m, n)
  <2> HIDE DEF f
  <2> QED
    BY <1>4, <1>7, <1>8 DEF Precedes
<1> QED
  BY <1>9 DEF t

\* All that is queued is dropped.
LEMMA DropOrder ==
    ASSUME NEW S, NEW r \in Seq(S), NEW o \in Seq(S), NEW m, NEW n,
           Precedes(r \o <<>>, m, n)
    PROVE  Precedes(r \o o, m, n)
<1> DEFINE t == r \o o
<1>1. /\ Len(r) \in Nat /\ Len(o) \in Nat /\ DOMAIN r = 1 .. Len(r)
      /\ DOMAIN t = 1 .. Len(r) + Len(o)
      /\ \A i \in 1 .. Len(r) + Len(o) : t[i] = IF i <= Len(r) THEN r[i] ELSE o[i - Len(r)]
  BY ConcatIndex
<1>2. r \o <<>> = r
  BY ConcatEmptySeq
<1>3. PICK i, j \in DOMAIN r : i < j /\ r[i] = m /\ r[j] = n
  BY <1>2 DEF Precedes
<1> HIDE DEF t
<1>4. \A x \in DOMAIN r : x \in DOMAIN t /\ t[x] = r[x]
  BY <1>1
<1>5. Precedes(t, m, n)
  BY <1>3, <1>4 DEF Precedes
<1> QED
  BY <1>5 DEF t

Holds(s, m) == \E i \in DOMAIN s : s[i] = m

\* A message is queued: it comes after all there is.
LEMMA QueueOrder ==
    ASSUME NEW S, NEW r \in Seq(S), NEW o \in Seq(S), NEW x \in S, NEW m, NEW n,
           Precedes(r \o Append(o, x), m, n)
    PROVE  Precedes(r \o o, m, n) \/ (Holds(r \o o, m) /\ n = x)
<1>2. /\ Append(o, x) \in Seq(S) /\ Len(Append(o, x)) = Len(o) + 1
      /\ \A i \in 1 .. Len(o) + 1 : Append(o, x)[i] = IF i <= Len(o) THEN o[i] ELSE x
  OBVIOUS
<1> DEFINE p == Append(o, x)
           s == r \o p
           t == r \o o
<1>3. /\ Len(r) \in Nat /\ Len(o) \in Nat /\ DOMAIN t = 1 .. Len(r) + Len(o)
      /\ \A i \in 1 .. Len(r) + Len(o) : t[i] = IF i <= Len(r) THEN r[i] ELSE o[i - Len(r)]
  BY ConcatIndex
<1>4. PICK i, j \in DOMAIN s : i < j /\ s[i] = m /\ s[j] = n
  BY DEF Precedes
<1> HIDE DEF p, t
<1>5. /\ DOMAIN s = 1 .. Len(r) + Len(p)
      /\ \A y \in 1 .. Len(r) + Len(p) : s[y] = IF y <= Len(r) THEN r[y] ELSE p[y - Len(r)]
  <2>1. p \in Seq(S)
    BY <1>2 DEF p
  <2> QED
    BY <2>1, ConcatIndex
<1> HIDE DEF s
<1>6. Len(p) = Len(o) + 1
  BY <1>2 DEF p
<1>7. ASSUME NEW y \in 1 .. Len(r) + Len(o) PROVE y \in DOMAIN t /\ t[y] = s[y]
  <2>1. CASE y <= Len(r)
    BY <1>3, <1>5, <1>6, <2>1
  <2>2. CASE y > Len(r)
    <3>1. y - Len(r) \in 1 .. Len(o)
      BY <1>3, <2>2
    <3>2. s[y] = p[y - Len(r)] /\ p[y - Len(r)] = o[y - Len(r)]
      BY <1>2, <1>3, <1>5, <1>6, <2>2, <3>1 DEF p
    <3> QED
      BY <1>3, <2>2, <3>2
  <2> QED
    BY <1>3, <2>1, <2>2
<1>8. i \in 1 .. Len(r) + Len(o) /\ j \in 1 .. Len(r) + Len(o) + 1
  BY <1>3, <1>4, <1>5, <1>6
<1>9. CASE j <= Len(r) + Len(o)
  <2>1. j \in 1 .. Len(r) + Len(o)
    BY <1>3, <1>8, <1>9
  <2>2. Precedes(t, m, n)
    BY <1>4, <1>7, <1>8, <2>1 DEF Precedes
  <2> QED
    BY <2>2 DEF t
<1>10. CASE ~ j <= Len(r) + Len(o)
  <2>0. Len(r) \in Nat /\ Len(o) \in Nat
    BY <1>3
  <2>1. j = Len(r) + Len(o) + 1 /\ j - Len(r) = Len(o) + 1 /\ ~ j <= Len(r)
    BY <1>8, <1>10, <2>0
  <2>2. s[j] = p[Len(o) + 1]
    BY <1>3, <1>5, <1>6, <2>1
  <2>3. p[Len(o) + 1] = x
    BY <1>2, <1>3 DEF p
  <2>4. i \in DOMAIN t /\ t[i] = m
    BY <1>4, <1>7, <1>8
  <2> QED
    BY <1>4, <2>2, <2>3, <2>4 DEF t, Holds
<1> QED
  BY <1>9, <1>10

\* A step reorders no two messages; a new pair ends in a message that the step itself
\* sends, after everything the connection already had.
LEMMA PrecedesStep ==
    ASSUME HubTypeOK, HubNext, NEW k \in Conns, NEW m, NEW n, Precedes(Sent(k), m, n)'
    PROVE  \/ Precedes(Sent(k), m, n)
           \/ /\ \E i \in DOMAIN Sent(k) : Sent(k)[i] = m
              /\ n \in Messages /\ ~ WasSent(n)
<1>1. received[k] \in Seq(Messages) /\ outbox[k] \in Seq(Messages)
  BY DEF HubTypeOK
<1>2. Precedes(received'[k] \o outbox'[k], m, n)
  BY DEF Sent, Precedes
<1>3. CASE received'[k] = received[k] /\ outbox'[k] = outbox[k]
  BY <1>2, <1>3 DEF Sent
<1>4. ASSUME NEW l \in Conns, WriterTake(l) PROVE Precedes(Sent(k), m, n)
  <2>1. CASE l # k
    <3>1. received'[k] = received[k] /\ outbox'[k] = outbox[k]
      BY <1>4, <2>1 DEF WriterTake, HubTypeOK
    <3> QED
      BY <1>2, <3>1 DEF Sent
  <2>2. CASE l = k
    <3>1. /\ outbox[k] # <<>> /\ outbox'[k] = Tail(outbox[k])
          /\ received'[k] = received[k] \/ received'[k] = Append(received[k], outbox[k][1])
      BY <1>1, <1>4, <2>2 DEF WriterTake, HubTypeOK
    <3> QED
      BY <1>1, <1>2, <3>1, ReceiveOrder, LossOrder DEF Sent
  <2> QED
    BY <2>1, <2>2
<1>5. ASSUME NEW l \in Conns, WriterEnd(l) PROVE Precedes(Sent(k), m, n)
  <2>1. received'[k] = received[k] /\ (outbox'[k] = outbox[k] \/ outbox'[k] = <<>>)
    BY <1>5 DEF WriterEnd, HubTypeOK
  <2> QED
    BY <1>1, <1>2, <2>1, DropOrder DEF Sent
<1>6. ASSUME NEW T, NEW x \in Messages, Enqueue(T, x), received' = received
      PROVE  \/ Precedes(Sent(k), m, n)
             \/ (\E i \in DOMAIN Sent(k) : Sent(k)[i] = m) /\ n = x
  <2>1. received'[k] = received[k]
        /\ (outbox'[k] = outbox[k] \/ outbox'[k] = Append(outbox[k], x))
    BY <1>6 DEF Enqueue
  <2>2. CASE outbox'[k] = Append(outbox[k], x)
    <3>1. Precedes(received[k] \o Append(outbox[k], x), m, n)
      BY <1>2, <2>1, <2>2
    <3>2. \/ Precedes(received[k] \o outbox[k], m, n)
          \/ Holds(received[k] \o outbox[k], m) /\ n = x
      BY <1>1, <3>1, x \in Messages, QueueOrder
    <3> QED
      BY <3>2 DEF Sent, Holds
  <2>3. CASE outbox'[k] = outbox[k]
    BY <1>2, <2>1, <2>3 DEF Sent
  <2> QED
    BY <2>1, <2>2, <2>3
<1>7. ASSUME NEW c \in Cmds, SendCommand(c)
      PROVE  /\ c \in Messages /\ ~ WasSent(c)
             /\ \/ Precedes(Sent(k), m, n)
                \/ (\E i \in DOMAIN Sent(k) : Sent(k)[i] = m) /\ n = c
  <2>1. c \in Messages /\ ~ WasSent(c)
    BY <1>7 DEF SendCommand, Messages, WasSent, Unsent
  <2>2. Enqueue(Targets \ closed, c) /\ received' = received
    BY <1>7 DEF SendCommand
  <2> QED
    BY <1>6, <2>1, <2>2
<1>8. ASSUME NEW e \in Events, Emit(e)
      PROVE  /\ e \in Messages /\ ~ WasSent(e)
             /\ \/ Precedes(Sent(k), m, n)
                \/ (\E i \in DOMAIN Sent(k) : Sent(k)[i] = m) /\ n = e
  <2>1. e \in Messages /\ ~ WasSent(e)
    BY <1>8 DEF Emit, Messages, WasSent
  <2>2. Enqueue(clients \ closed, e) /\ received' = received
    BY <1>8 DEF Emit
  <2> QED
    BY <1>6, <2>1, <2>2
<1>9. CASE \/ Registry \/ Gauge
           \/ \E c \in Cmds : \/ Command(c) \/ FireAck(c) \/ Cancel(c) \/ RefuseCommand(c)
                              \/ TakeAck(c) \/ Expire(c) \/ Return(c)
           \/ \E w \in Waiters : WaitConnected(w) \/ CheckConnected(w) \/ Park(w)
  <2>1. outbox' = outbox /\ received' = received
    BY <1>9, RegistryFrame DEF Gauge, DispatchAck, Command, FireAck, Cancel, RefuseCommand,
       TakeAck, Expire, Return, WaitConnected, CheckConnected, Park, wires
  <2> QED
    BY <1>3, <2>1
<1> QED
  BY <1>4, <1>5, <1>7, <1>8, <1>9 DEF HubNext, Channels, Proceed

\* What a connection was sent is in its channel or at its gauge.
LEMMA SentIsCargo ==
    ASSUME HubTypeOK, NEW k \in Conns, NEW i \in DOMAIN Sent(k)
    PROVE  Sent(k)[i] \in Cargo(k)
<1>1. received[k] \in Seq(Messages) /\ outbox[k] \in Seq(Messages)
  BY DEF HubTypeOK
<1>2. \/ i \in DOMAIN received[k] /\ Sent(k)[i] = received[k][i]
      \/ i - Len(received[k]) \in DOMAIN outbox[k]
         /\ Sent(k)[i] = outbox[k][i - Len(received[k])]
  BY <1>1, ConcatElement DEF Sent
<1> QED
  BY <1>2 DEF Cargo

\* All gauges receive commands and events in one order and none of them twice: the
\* section under the clients lock that queues a message queues it everywhere.
THEOREM OrderCorrect == HubSpec => []SameOrderEverywhere
<1>1. HubInit => SameOrderEverywhere
  <2> SUFFICES ASSUME HubInit, NEW k \in Conns, NEW m, NEW n, Precedes(Sent(k), m, n)
               PROVE  FALSE
    BY DEF SameOrderEverywhere
  <2>1. Sent(k) = <<>> \o <<>>
    BY DEF HubInit, Sent
  <2>2. <<>> \o <<>> = <<>>
    OBVIOUS
  <2> QED
    BY <2>1, <2>2 DEF Precedes
<1>2. HubTypeOK /\ OnlySentTravels /\ SameOrderEverywhere /\ [HubNext]_hubVars
        => SameOrderEverywhere'
  <2> SUFFICES ASSUME HubTypeOK, OnlySentTravels, SameOrderEverywhere, [HubNext]_hubVars,
                      NEW j \in Conns, NEW k \in Conns, NEW m \in Messages, NEW n \in Messages,
                      Precedes(Sent(j), m, n)', Precedes(Sent(k), n, m)'
               PROVE  FALSE
    BY DEF SameOrderEverywhere
  <2>1. CASE UNCHANGED hubVars
    <3>1. outbox' = outbox /\ received' = received
      BY <2>1 DEF hubVars, wires
    <3>2. Precedes(Sent(j), m, n) /\ Precedes(Sent(k), n, m)
      BY <3>1 DEF Precedes, Sent
    <3> QED
      BY <3>2 DEF SameOrderEverywhere
  <2>2. CASE HubNext
    <3>1. \/ Precedes(Sent(j), m, n)
          \/ (\E i \in DOMAIN Sent(j) : Sent(j)[i] = m) /\ ~ WasSent(n)
      BY <2>2, PrecedesStep
    <3>2. \/ Precedes(Sent(k), n, m)
          \/ (\E i \in DOMAIN Sent(k) : Sent(k)[i] = n) /\ ~ WasSent(m)
      BY <2>2, PrecedesStep
    <3>3. \A l \in Conns : \A i \in DOMAIN Sent(l) : WasSent(Sent(l)[i])
      BY SentIsCargo DEF OnlySentTravels
    <3>4. Precedes(Sent(j), m, n) => WasSent(m) /\ WasSent(n)
      BY <3>3 DEF Precedes
    <3>5. Precedes(Sent(k), n, m) => WasSent(m) /\ WasSent(n)
      BY <3>3 DEF Precedes
    <3> QED
      BY <3>1, <3>2, <3>3, <3>4, <3>5 DEF SameOrderEverywhere
  <2> QED
    BY <2>1, <2>2
<1> QED
  BY <1>1, <1>2, TypeCorrect, SentInvariant, PTL DEF HubSpec

----------------------------------------------------------------------------
(* The gap in wait_connected.                                              *)

\* No gauge registers while a call is between its look at the registry and its listening.
NobodyInTheGap ==
    (\E w \in Waiters : waiter[w] = "checked") => ~ \E k \in Conns : RegisterClient(k)

SleepsAlone == \A w \in Waiters : waiter[w] \in {"checked", "parked"} => ~ Connected

LEMMA SleepsStep ==
    ASSUME HubTypeOK, SleepsAlone, [HubNext]_hubVars, [NobodyInTheGap]_hubVars
    PROVE  SleepsAlone'
<1> USE DEF SleepsAlone, Connected
<1>0. waiter \in [Waiters -> {"idle", "checking", "checked", "parked", "returned"}]
  BY DEF HubTypeOK
<1>1. ASSUME NEW k \in Conns, RegisterClient(k)
      PROVE  SleepsAlone'
  <2>1. k \notin clients /\ clients' = clients \cup {k}
        /\ waiter' = [w \in Waiters |-> IF waiter[w] = "parked" THEN "checking" ELSE waiter[w]]
    BY <1>1 DEF RegisterClient, HubTypeOK
  <2>2. NobodyInTheGap
    BY <2>1 DEF hubVars, registry
  <2>3. \A w \in Waiters : waiter[w] # "checked"
    BY <1>1, <2>2 DEF NobodyInTheGap
  <2> QED
    BY <1>0, <2>1, <2>3
<1>2. ASSUME ReapDeadClients \/ \E k \in Conns :
                \/ GoStale(k) \/ SetClientHello(k) \/ TouchClient(k) \/ UnregisterClient(k)
                \/ \E r \in BOOLEAN : SetClientReady(k, r)
      PROVE  clients' \subseteq clients /\ waiter' = waiter
  BY <1>2 DEF ReapDeadClients, Remove, GoStale, SetClientHello, TouchClient, UnregisterClient,
              SetClientReady
<1>3. ASSUME NEW w \in Waiters, WaitConnected(w) \/ CheckConnected(w) \/ Park(w)
      PROVE  SleepsAlone'
  BY <1>0, <1>3 DEF WaitConnected, CheckConnected, Park, registry
<1>4. ASSUME \/ Channels \/ Gauge
             \/ \E c \in Cmds : Command(c) \/ Proceed(c) \/ FireAck(c) \/ Cancel(c)
             \/ \E e \in Events : Emit(e)
      PROVE  clients' = clients /\ waiter' = waiter
  BY <1>4 DEF Channels, WriterTake, WriterEnd, Gauge, DispatchAck, Command, Proceed,
              RefuseCommand, SendCommand, TakeAck, Expire, Return, FireAck, Cancel, Emit, registry
<1>5. UNCHANGED hubVars => clients' = clients /\ waiter' = waiter
  BY DEF hubVars, registry
<1> QED
  BY <1>1, <1>2, <1>3, <1>4, <1>5 DEF HubNext, Registry

\* The gap that hub_lost_wakeup finds is the only one: if no gauge registers in it, a call
\* of wait_connected that sleeps does so because nobody is connected, for any number of
\* connections that come and go and of calls that wait (hub.rs:131-137, server.rs:165).
THEOREM OnlyTheGapLosesWakeups ==
    HubSpec /\ [][NobodyInTheGap]_hubVars
      => [](\A w \in Waiters : waiter[w] = "parked" => ~ Connected)
<1>1. HubInit => SleepsAlone
  BY DEF HubInit, SleepsAlone
<1>2. HubTypeOK /\ SleepsAlone /\ [HubNext]_hubVars /\ [NobodyInTheGap]_hubVars => SleepsAlone'
  BY SleepsStep
<1>3. SleepsAlone => \A w \in Waiters : waiter[w] = "parked" => ~ Connected
  BY DEF SleepsAlone
<1> QED
  BY <1>1, <1>2, <1>3, TypeCorrect, PTL DEF HubSpec
============================================================================
