---------------------------- MODULE ServerProofs ----------------------------
(***************************************************************************)
(* Theorems about Server, for any number of connections, commands, events  *)
(* and waiters.  That the tasks use the Hub as Hub has it (HubStep) brings *)
(* every theorem of HubProofs to the server; what the tasks add is where   *)
(* an ack is between the two sections of dispatch_ack.                     *)
(***************************************************************************)
EXTENDS Server, HubProofs

Fires(k, c) == reader[k] = "firing" /\ input[k].id = c

\* A reader that fires has taken a sender, every sender that was taken has a reader
\* that will fire it, and no two readers have the same one.
SendersInHands ==
    /\ \A k \in Conns : reader[k] = "firing" =>
          input[k].t = "ack" /\ input[k].id \in Cmds /\ held[input[k].id] # "none"
    /\ \A c \in Cmds : held[c] # "none" => \E k \in Conns : Fires(k, c)
    /\ \A j, k \in Conns : \A c \in Cmds : Fires(j, c) /\ Fires(k, c) => j = k

ServerInv == HubInv /\ ServerTypeOK /\ NoGhostClients /\ SendersInHands

----------------------------------------------------------------------------
(* The tasks use the Hub as Hub has it.                                    *)

LEMMA SaidFields ==
    ASSUME NEW k, NEW m \in Said(k)
    PROVE  /\ m.t = "ready" => m.up \in BOOLEAN
           /\ m.t = "ack" => m.id \in Delivered(k) /\ m.a \in Acks
  BY DEF Said

\* An ack is dispatched for a command that this gauge received, or finds no sender.
LEMMA AckStep ==
    ASSUME ServerInv, NEW k \in Conns, HandleAck(k)
    PROVE  [Gauge]_hubVars
<1>1. input[k].id \in Delivered(k) /\ input[k].a \in Acks /\ DispatchAck(input[k].id, input[k].a)
  BY SaidFields DEF HandleAck, Handling, ServerInv, ServerTypeOK
<1>2. CASE input[k].id \in Cmds
  BY <1>1, <1>2 DEF Gauge
<1>3. CASE input[k].id \notin Cmds
  <2>1. input[k].id \notin pending
    BY <1>3 DEF ServerInv, HubInv, HubTypeOK
  <2> QED
    BY <1>1, <2>1 DEF DispatchAck, hubVars, calls
<1> QED
  BY <1>2, <1>3

LEMMA HubStep == ASSUME ServerInv, [ServerNext]_serverVars PROVE [HubNext]_hubVars
<1> SUFFICES ASSUME ServerNext PROVE [HubNext]_hubVars
  BY DEF serverVars
<1>1. CASE Callers
  BY <1>1 DEF Callers, HubNext
<1> SUFFICES ASSUME NEW k \in Conns,
                    \/ Accept(k) \/ ReadText(k) \/ Handle(k) \/ ReaderReaped(k)
                    \/ ReaderClosed(k) \/ Leave(k) \/ Join(k) \/ Write(k) \/ PingReap(k)
                    \/ PingSend(k) \/ LoseLink(k) \/ CloseLink(k) \/ FallSilent(k)
             PROVE  [HubNext]_hubVars
  BY <1>1 DEF ServerNext
<1>2. reader[k] # "none" => k \in used
  BY DEF ServerInv, ServerTypeOK
<1>3. CASE Accept(k) \/ PingReap(k) \/ FallSilent(k)
  BY <1>3 DEF Accept, PingReap, FallSilent, HubNext, Registry
<1>4. CASE ReadText(k) \/ Leave(k) \/ HandleHello(k)
  BY <1>2, <1>4 DEF ReadText, Leave, HandleHello, Handling, HubNext, Registry
<1>5. CASE HandleReady(k)
  <2>1. input[k].up \in BOOLEAN
    BY <1>5, SaidFields DEF HandleReady, Handling, ServerInv, ServerTypeOK
  <2> QED
    BY <1>2, <1>5, <2>1 DEF HandleReady, Handling, HubNext, Registry
<1>6. CASE HandleAck(k)
  BY <1>6, AckStep DEF HubNext
<1>7. CASE FinishAck(k)
  BY <1>7 DEF FinishAck, ServerInv, SendersInHands, HubNext
<1>8. CASE Write(k)
  BY <1>8 DEF Write, WriterSend, WriterFail, WriterDrained, HubNext, Channels
<1>9. CASE HandleEvent(k) \/ ReaderReaped(k) \/ ReaderClosed(k) \/ Join(k) \/ PingSend(k)
           \/ LoseLink(k) \/ CloseLink(k)
  BY <1>9 DEF HandleEvent, ReaderReaped, ReaderClosed, Join, PingSend, LoseLink, CloseLink
<1> QED
  BY <1>3, <1>4, <1>5, <1>6, <1>7, <1>8, <1>9 DEF Handle

----------------------------------------------------------------------------
(* The tasks' own invariant.                                               *)

LEMMA SaidGrows ==
    ASSUME HubTypeOK, [HubNext]_hubVars, NEW k \in Conns
    PROVE  Said(k) \subseteq Said(k)'
<1>1. Delivered(k) \subseteq Delivered(k)'
  BY Grows
<1> QED
  BY <1>1 DEF Said

LEMMA CallersFrame ==
    ASSUME Callers
    PROVE  UNCHANGED <<tasks, used, clients, held>>
  BY DEF Callers, Command, Proceed, RefuseCommand, SendCommand, TakeAck, Expire, Return, Cancel,
         Emit, WaitConnected, CheckConnected, Park, registry, calls

\* Everything but Accept leaves the ids alone and registers nobody.
LEMMA RegistryOnlyShrinks ==
    ASSUME NEW k \in Conns,
           \/ ReadText(k) \/ Handle(k) \/ ReaderReaped(k) \/ ReaderClosed(k) \/ Leave(k)
           \/ Join(k) \/ Write(k) \/ PingReap(k) \/ PingSend(k) \/ LoseLink(k)
           \/ CloseLink(k) \/ FallSilent(k)
    PROVE  used' = used /\ clients' \subseteq clients
<1>1. CASE ReadText(k) \/ Handle(k) \/ Leave(k)
  BY <1>1 DEF ReadText, TouchClient, Handle, HandleHello, SetClientHello, HandleReady,
     SetClientReady, HandleEvent, HandleAck, DispatchAck, FinishAck, FireAck, Leave,
     UnregisterClient, Remove, registry, hubVars
<1>2. CASE Write(k) \/ PingReap(k) \/ FallSilent(k)
  BY <1>2 DEF Write, WriterSend, WriterTake, WriterFail, WriterEnd, WriterDrained, PingReap,
     ReapDeadClients, Remove, FallSilent, GoStale, registry
<1>3. CASE \/ ReaderReaped(k) \/ ReaderClosed(k) \/ Join(k) \/ PingSend(k) \/ LoseLink(k)
           \/ CloseLink(k)
  BY <1>3 DEF ReaderReaped, ReaderClosed, Join, PingSend, LoseLink, CloseLink, hubVars, registry
<1> QED
  BY <1>1, <1>2, <1>3

LEMMA ServerTypeStep == ASSUME ServerInv, [ServerNext]_serverVars PROVE ServerTypeOK'
<1> USE DEF ServerTypeOK
<1>1. ServerTypeOK /\ HubTypeOK
  BY DEF ServerInv, HubInv
<1>2. \A k \in Conns : Said(k) \subseteq Said(k)'
  BY <1>1, HubStep, SaidGrows
<1>3. CASE UNCHANGED serverVars
  BY <1>1, <1>2, <1>3 DEF serverVars, hubVars, registry, tasks
<1>4. CASE Callers
  BY <1>1, <1>2, <1>4, CallersFrame DEF tasks
<1> SUFFICES ASSUME NEW k \in Conns,
                    \/ Accept(k) \/ ReadText(k) \/ Handle(k) \/ ReaderReaped(k)
                    \/ ReaderClosed(k) \/ Leave(k) \/ Join(k) \/ Write(k) \/ PingReap(k)
                    \/ PingSend(k) \/ LoseLink(k) \/ CloseLink(k) \/ FallSilent(k)
             PROVE  ServerTypeOK'
  BY <1>3, <1>4 DEF ServerNext
<1>5. CASE Accept(k)
  BY <1>1, <1>2, <1>5 DEF Accept, RegisterClient
<1>6. ~ Accept(k) => used' = used
  BY RegistryOnlyShrinks
<1>7. CASE ReadText(k)
  BY <1>1, <1>2, <1>7, RegistryOnlyShrinks DEF ReadText
<1>8. CASE Handle(k)
  BY <1>1, <1>2, <1>8, RegistryOnlyShrinks DEF Handle, HandleHello, HandleReady, HandleEvent,
     HandleAck, FinishAck, Handling, Resume
<1>9. CASE ReaderReaped(k) \/ ReaderClosed(k) \/ Leave(k) \/ Join(k)
  BY <1>1, <1>2, <1>9, RegistryOnlyShrinks DEF ReaderReaped, ReaderClosed, Leave, Join
<1>10. CASE \/ Write(k) \/ PingReap(k) \/ PingSend(k) \/ LoseLink(k) \/ CloseLink(k)
            \/ FallSilent(k)
  BY <1>1, <1>2, <1>10, RegistryOnlyShrinks DEF Write, WriterSend, WriterFail, WriterDrained,
     PingReap, PingSend, LoseLink, CloseLink, FallSilent, tasks
<1> QED
  BY <1>5, <1>7, <1>8, <1>9, <1>10

LEMMA GhostStep == ASSUME ServerInv, [ServerNext]_serverVars PROVE NoGhostClients'
<1> USE DEF NoGhostClients
<1>0. /\ NoGhostClients /\ clients \subseteq Conns /\ clients \subseteq used
      /\ DOMAIN reader = Conns /\ \A k \in Conns : k \in used <=> reader[k] # "none"
  BY DEF ServerInv, HubInv, HubTypeOK, ServerTypeOK
<1>1. CASE UNCHANGED serverVars
  BY <1>0, <1>1 DEF serverVars, hubVars, registry, tasks
<1>2. CASE Callers
  BY <1>0, <1>2, CallersFrame DEF tasks
<1> SUFFICES ASSUME NEW k \in Conns,
                    \/ Accept(k) \/ ReadText(k) \/ Handle(k) \/ ReaderReaped(k)
                    \/ ReaderClosed(k) \/ Leave(k) \/ Join(k) \/ Write(k) \/ PingReap(k)
                    \/ PingSend(k) \/ LoseLink(k) \/ CloseLink(k) \/ FallSilent(k)
             PROVE  NoGhostClients'
  BY <1>1, <1>2 DEF ServerNext
<1>3. CASE Accept(k)
  BY <1>0, <1>3 DEF Accept, RegisterClient
<1>4. CASE ReadText(k) \/ Handle(k)
  <2>1. reader[k] \in {"reading", "handling", "firing"}
    BY <1>4 DEF ReadText, Handle, HandleHello, HandleReady, HandleEvent, HandleAck, FinishAck,
       Handling
  <2>2. \E r \in {"reading", "handling", "firing"} : reader' = [reader EXCEPT ![k] = r]
    BY <1>4 DEF ReadText, Handle, HandleHello, HandleReady, HandleEvent, HandleAck, FinishAck,
       Resume
  <2> QED
    BY <1>0, <1>4, <2>1, <2>2, RegistryOnlyShrinks
<1>5. CASE ReaderReaped(k) \/ ReaderClosed(k) \/ Join(k)
  BY <1>0, <1>5, RegistryOnlyShrinks DEF ReaderReaped, ReaderClosed, Join
<1>6. CASE Leave(k)
  BY <1>0, <1>6 DEF Leave, UnregisterClient, Remove
<1>7. CASE \/ Write(k) \/ PingReap(k) \/ PingSend(k) \/ LoseLink(k) \/ CloseLink(k)
           \/ FallSilent(k)
  BY <1>0, <1>7, RegistryOnlyShrinks DEF Write, WriterSend, WriterFail, WriterDrained,
     PingReap, PingSend, LoseLink, CloseLink, FallSilent, tasks
<1> QED
  BY <1>3, <1>4, <1>5, <1>6, <1>7

\* Where nothing is taken and nothing is fired, senders stay in their hands.
LEMMA SendersFrame ==
    ASSUME SendersInHands, held' = held,
           \A j \in Conns : /\ reader'[j] = "firing" <=> reader[j] = "firing"
                            /\ reader[j] = "firing" => input'[j] = input[j]
    PROVE  SendersInHands'
  BY DEF SendersInHands, Fires

\* The reader that takes a sender is the only one that has it: while it was in
\* `pending`, nobody had.
LEMMA TakeStep ==
    ASSUME ServerInv, NEW k \in Conns, HandleAck(k), input[k].id \in pending
    PROVE  SendersInHands'
<1> DEFINE c == input[k].id
<1>1. c \in Cmds /\ held[c] = "none" /\ input[k].a \in Acks
  BY SaidFields DEF ServerInv, ServerTypeOK, HubInv, HubTypeOK, SenderPlace, HandleAck, Handling
<1>2. /\ held' = [held EXCEPT ![c] = input[k].a] /\ input' = input
      /\ reader[k] = "handling" /\ input[k].t = "ack" /\ reader' = [reader EXCEPT ![k] = "firing"]
  BY DEF HandleAck, Handling, DispatchAck
<1>3. DOMAIN held = Cmds /\ DOMAIN reader = Conns
  BY DEF ServerInv, ServerTypeOK, HubInv, HubTypeOK
<1>4. \A j \in Conns : \A d \in Cmds : Fires(j, d)' <=> Fires(j, d) \/ (j = k /\ d = c)
  BY <1>1, <1>2, <1>3 DEF Fires
<1>5. \A j \in Conns : ~ Fires(j, c)
  <2> SUFFICES ASSUME NEW j \in Conns, Fires(j, c) PROVE FALSE
    OBVIOUS
  <2>1. reader[j] = "firing" /\ input[j].id = c
    BY DEF Fires
  <2>2. held[input[j].id] # "none"
    BY <2>1 DEF ServerInv, SendersInHands
  <2> QED
    BY <1>1, <2>1, <2>2
<1>6. input[k].a # "none"
  BY <1>1 DEF Acks
<1>7. \A d \in Cmds : held'[d] # "none" <=> held[d] # "none" \/ d = c
  BY <1>1, <1>2, <1>3, <1>6
<1>8. \A j \in Conns : reader'[j] = "firing" =>
         input'[j].t = "ack" /\ input'[j].id \in Cmds /\ held'[input'[j].id] # "none"
  <2> SUFFICES ASSUME NEW j \in Conns, reader'[j] = "firing"
               PROVE  input'[j].t = "ack" /\ input'[j].id \in Cmds /\ held'[input'[j].id] # "none"
    OBVIOUS
  <2>1. CASE j = k
    BY <1>1, <1>2, <1>7, <2>1
  <2>2. CASE j # k
    BY <1>2, <1>3, <1>7, <2>2 DEF ServerInv, SendersInHands
  <2> QED
    BY <2>1, <2>2
<1>9. \A d \in Cmds : held'[d] # "none" => \E j \in Conns : Fires(j, d)'
  BY <1>4, <1>7 DEF ServerInv, SendersInHands
<1>10. \A i, j \in Conns : \A d \in Cmds : Fires(i, d)' /\ Fires(j, d)' => i = j
  BY <1>4, <1>5 DEF ServerInv, SendersInHands
<1> QED
  BY <1>8, <1>9, <1>10 DEF SendersInHands

LEMMA FireStep ==
    ASSUME ServerInv, NEW k \in Conns, FinishAck(k)
    PROVE  SendersInHands'
<1> DEFINE c == input[k].id
<1>1. SendersInHands /\ DOMAIN held = Cmds /\ DOMAIN reader = Conns /\ DOMAIN input = Conns
  BY DEF ServerInv, ServerTypeOK, HubInv, HubTypeOK
<1>2. /\ held' = [held EXCEPT ![c] = "none"] /\ reader[k] = "firing"
      /\ reader' = [reader EXCEPT ![k] = "reading"] /\ input' = [input EXCEPT ![k] = NoInput]
  BY DEF FinishAck, FireAck, Resume
<1>3. c \in Cmds /\ Fires(k, c)
  BY <1>1, <1>2 DEF SendersInHands, Fires
<1>4. \A j \in Conns : \A d \in Cmds : Fires(j, d)' <=> Fires(j, d) /\ j # k
  BY <1>1, <1>2 DEF Fires
<1>5. \A d \in Cmds : held'[d] # "none" <=> held[d] # "none" /\ d # c
  BY <1>1, <1>2, <1>3
<1>6. \A j \in Conns : Fires(j, c) => j = k
  BY <1>1, <1>3 DEF SendersInHands
<1>7. \A j \in Conns : reader'[j] = "firing" =>
         input'[j].t = "ack" /\ input'[j].id \in Cmds /\ held'[input'[j].id] # "none"
  BY <1>1, <1>2, <1>5, <1>6 DEF SendersInHands, Fires
<1>8. \A d \in Cmds : held'[d] # "none" => \E j \in Conns : Fires(j, d)'
  BY <1>1, <1>3, <1>4, <1>5 DEF SendersInHands, Fires
<1>9. \A i, j \in Conns : \A d \in Cmds : Fires(i, d)' /\ Fires(j, d)' => i = j
  BY <1>1, <1>4 DEF SendersInHands
<1> QED
  BY <1>7, <1>8, <1>9 DEF SendersInHands

LEMMA SendersStep == ASSUME ServerInv, [ServerNext]_serverVars PROVE SendersInHands'
<1>0. SendersInHands /\ DOMAIN reader = Conns /\ DOMAIN input = Conns
  BY DEF ServerInv, ServerTypeOK
<1>1. CASE UNCHANGED serverVars
  BY <1>0, <1>1, SendersFrame DEF serverVars, hubVars, calls, tasks
<1>2. CASE Callers
  BY <1>0, <1>2, CallersFrame, SendersFrame DEF tasks
<1> SUFFICES ASSUME NEW k \in Conns,
                    \/ Accept(k) \/ ReadText(k) \/ Handle(k) \/ ReaderReaped(k)
                    \/ ReaderClosed(k) \/ Leave(k) \/ Join(k) \/ Write(k) \/ PingReap(k)
                    \/ PingSend(k) \/ LoseLink(k) \/ CloseLink(k) \/ FallSilent(k)
             PROVE  SendersInHands'
  BY <1>1, <1>2 DEF ServerNext
<1>3. CASE Accept(k) \/ ReadText(k)
  BY <1>0, <1>3, SendersFrame DEF Accept, RegisterClient, ReadText, TouchClient, calls
<1>4. CASE HandleHello(k) \/ HandleReady(k) \/ HandleEvent(k)
  BY <1>0, <1>4, SendersFrame DEF HandleHello, SetClientHello, HandleReady, SetClientReady,
     HandleEvent, Handling, Resume, hubVars, calls
<1>5. CASE HandleAck(k) /\ input[k].id \in pending
  BY <1>5, TakeStep
<1>6. CASE HandleAck(k) /\ input[k].id \notin pending
  <2>1. held' = held
    BY <1>6 DEF HandleAck, DispatchAck
  <2> QED
    BY <1>0, <1>6, <2>1, SendersFrame DEF HandleAck, Handling, Resume
<1>7. CASE FinishAck(k)
  BY <1>7, FireStep
<1>8. CASE ReaderReaped(k) \/ ReaderClosed(k) \/ Leave(k) \/ Join(k)
  BY <1>0, <1>8, SendersFrame DEF ReaderReaped, ReaderClosed, Leave, UnregisterClient, Join,
     hubVars, calls
<1>9. CASE Write(k) \/ PingReap(k) \/ FallSilent(k)
  BY <1>0, <1>9, SendersFrame DEF Write, WriterSend, WriterTake, WriterFail, WriterEnd,
     WriterDrained, PingReap, ReapDeadClients, FallSilent, GoStale, tasks, calls
<1>10. CASE PingSend(k) \/ LoseLink(k) \/ CloseLink(k)
  BY <1>0, <1>10, SendersFrame DEF PingSend, LoseLink, CloseLink, hubVars, calls
<1> QED
  BY <1>3, <1>4, <1>5, <1>6, <1>7, <1>8, <1>9, <1>10 DEF Handle

LEMMA ServerInvariant == ServerSpec => []ServerInv
<1>1. ServerInit => ServerInv
  BY InvariantInitial DEF ServerInit, ServerInv, ServerTypeOK, NoGhostClients, SendersInHands,
     Fires, HubInit
<1>2. ServerInv /\ [ServerNext]_serverVars => ServerInv'
  BY HubStep, InvariantStep, ServerTypeStep, GhostStep, SendersStep DEF ServerInv
<1> QED
  BY <1>1, <1>2, PTL DEF ServerSpec

----------------------------------------------------------------------------
(* The theorems.                                                           *)

\* A connection's tasks are there from its registration on, and its reader has a
\* message in hand only while it handles one.
THEOREM ServerTypeCorrect == ServerSpec => []ServerTypeOK
  BY ServerInvariant, PTL DEF ServerInv

\* No connection is registered whose reader has unregistered it, whoever reaped what
\* in between: a command is never addressed to a connection that nobody cleans up.
THEOREM GhostsCorrect == ServerSpec => []NoGhostClients
  BY ServerInvariant, PTL DEF ServerInv

\* An oneshot sender that dispatch_ack took out of `pending` is in the hands of one
\* reader, which has not been stopped.
THEOREM HoldersCorrect == ServerSpec => []HeldByOneReader
<1>1. ServerInv => HeldByOneReader
  <2> SUFFICES ASSUME ServerInv, NEW c \in Cmds
               PROVE  LET holders == {k \in Conns : Fires(k, c)} IN
                        IF held[c] = "none" THEN holders = {}
                                            ELSE \E k \in Conns : holders = {k}
    BY DEF HeldByOneReader, Fires
  <2>1. CASE held[c] = "none"
    BY <2>1 DEF ServerInv, SendersInHands, Fires
  <2>2. CASE held[c] # "none"
    <3> PICK k \in Conns : Fires(k, c)
      BY <2>2 DEF ServerInv, SendersInHands
    <3>1. {j \in Conns : Fires(j, c)} = {k}
      BY DEF ServerInv, SendersInHands
    <3> QED
      BY <2>2, <3>1
  <2> QED
    BY <2>1, <2>2
<1> QED
  BY <1>1, ServerInvariant, PTL

\* The server implements the Hub: what HubProofs shows of the Hub holds of it under
\* the tasks of server.rs, since they never do to it what Hub does not foresee.
THEOREM ServerImplementsHub == ServerSpec => ImplementsHub
<1>1. ServerInit => HubInit
  BY DEF ServerInit
<1>2. ServerInv /\ [ServerNext]_serverVars => [HubNext]_hubVars
  BY HubStep
<1> QED
  BY <1>1, <1>2, ServerInvariant, PTL DEF ServerSpec, ImplementsHub, HubSpec

\* For instance: a server's calls keep what Rpc promises.
THEOREM ServerImplementsRpc == ServerSpec => ImplementsRpc
  BY ServerImplementsHub, CallsImplementRpc DEF ImplementsHub
============================================================================
