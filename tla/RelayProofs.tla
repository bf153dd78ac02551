---------------------------- MODULE RelayProofs ----------------------------
(***************************************************************************)
(* Theorems about Relay, for every number of sockets and for both          *)
(* implementations.  Of commands there are as many as the relay's ring     *)
(* keeps: Relay has a set in its place, which DedupProofs!PlainSetOfFew    *)
(* justifies while no id is evicted.  RelayInv is inductive; the           *)
(* properties that the runs check are its conjuncts.                       *)
(***************************************************************************)
EXTENDS Relay, FiniteSetTheorems, TLAPS

\* Nothing is armed, attached or connected before init.
NewIsIdle ==
    life = "new" =>
       /\ ~ bus /\ ~ bound /\ listeners = 0 /\ continuation = "none"
       /\ ~ bindTimer /\ ~ wsTimer /\ ws = "none"
       /\ \A s \in Sockets : sock[s] = "unused"

RelayInv ==
    /\ RelayTypeOK /\ NewIsIdle
    /\ RequestAccounted /\ RetryPending /\ OneListener /\ HostKnowsReadiness

----------------------------------------------------------------------------
LEMMA RelayInitInv == RelayInit => RelayInv
<1> SUFFICES ASSUME RelayInit PROVE RelayInv
  OBVIOUS
<1>1. RelayTypeOK
  <2>1. <<>> \in Seq(Verdicts)
    OBVIOUS
  <2>2. acks \in [Cmds -> Seq(Verdicts)]
    BY <2>1 DEF RelayInit
  <2> QED
    BY <2>2 DEF RelayInit, RelayTypeOK
<1>2. NewIsIdle
  BY DEF RelayInit, NewIsIdle
<1>3. RequestAccounted
  BY DEF RelayInit, RequestAccounted
<1>4. RetryPending /\ OneListener /\ HostKnowsReadiness
  BY DEF RelayInit, RetryPending, OneListener, HostKnowsReadiness, IsOpen
<1> QED
  BY <1>1, <1>2, <1>3, <1>4 DEF RelayInv

\* An attempt to bind attaches one listener or none, and tells the host of it.
LEMMA BindStep ==
    ASSUME RelayTypeOK, BindCommBus
    PROVE  /\ bound' \in BOOLEAN /\ listeners' \in Nat
           /\ told' \in [Sockets -> {"none", "ready", "unready"}]
           /\ bound => bound' /\ listeners' = listeners
           /\ ~ bound => listeners' = IF bound' THEN listeners + 1 ELSE listeners
           /\ IsOpen(sock, ws) /\ told[ws] = Readiness(bound) => told'[ws] = Readiness(bound')
<1>1. CASE UNCHANGED <<bound, listeners, told>>
  BY <1>1 DEF RelayTypeOK
<1>2. CASE ~ bound /\ bound' = TRUE /\ listeners' = listeners + 1 /\ SendReady(sock, TRUE)
  <2>1. told' \in [Sockets -> {"none", "ready", "unready"}]
    BY <1>2 DEF SendReady, RelayTypeOK, Readiness
  <2>2. IsOpen(sock, ws) => told'[ws] = Readiness(bound')
    BY <1>2, NoneIsNoSocket DEF SendReady, RelayTypeOK, IsOpen, Readiness
  <2>3. bound' \in BOOLEAN /\ listeners' \in Nat
    BY <1>2 DEF RelayTypeOK
  <2>4. (bound => bound' /\ listeners' = listeners)
        /\ (~ bound => listeners' = IF bound' THEN listeners + 1 ELSE listeners)
    BY <1>2
  <2> QED
    BY <2>1, <2>2, <2>3, <2>4
<1> QED
  BY <1>1, <1>2 DEF BindCommBus

\* After connectWs the relay has a socket that may still open, or a retry timer.
LEMMA ConnectStep ==
    ASSUME RelayTypeOK, ConnectWs
    PROVE  /\ sock' \in [Sockets -> {"unused", "connecting", "open", "errored", "closing", "closed"}]
           /\ ws' \in Sockets \cup {"none"} /\ (ws' # "none" => Live(ws)')
           /\ wsTimer' \in BOOLEAN
           /\ ws' # "none" \/ wsTimer'
           /\ IsOpen(sock', ws') => IsOpen(sock, ws) /\ ws' = ws
BY NoneIsNoSocket DEF ConnectWs, RelayTypeOK, Live, IsOpen

\* An ack settles a request for good.
LEMMA SettleStep ==
    ASSUME RelayTypeOK, RequestAccounted, NEW c \in Cmds, c \in pending,
           NEW v \in Verdicts, Settle(c, v), UNCHANGED seen
    PROVE  /\ pending' \subseteq seen /\ timers' \subseteq seen
           /\ acks' \in [Cmds -> Seq(Verdicts)]
           /\ RequestAccounted'
<1>1. /\ pending' = pending \ {c} /\ timers' = timers \ {c}
      /\ acks' = [acks EXCEPT ![c] = Append(acks[c], v)]
  BY DEF Settle
<1>2. acks[c] \in Seq(Verdicts) /\ Len(acks[c]) = 0
  BY DEF RelayTypeOK, RequestAccounted
<1>3. Append(acks[c], v) \in Seq(Verdicts) /\ Len(Append(acks[c], v)) = 1
  BY <1>2
<1>4. acks' \in [Cmds -> Seq(Verdicts)]
  BY <1>1, <1>3 DEF RelayTypeOK
<1>5. RequestAccounted'
  BY <1>1, <1>3 DEF RequestAccounted, RelayTypeOK
<1> QED
  BY <1>1, <1>4, <1>5 DEF RelayTypeOK

----------------------------------------------------------------------------
\* The life cycle of the relay and its binding.
LEMMA LifeStep ==
    ASSUME RelayInv, Start \/ Continue \/ BindRetry
    PROVE  RelayInv'
<1> USE DEF RelayInv
<1>1. CASE Start
  <2>1. /\ UNCHANGED requests /\ impl' = impl /\ life' = "up" /\ bus' = TRUE
        /\ BindCommBus /\ ConnectWs /\ bindTimer' = ~ bound' /\ continuation' \in {"due", "fired"}
        /\ life = "new"
    BY <1>1 DEF Start, ScheduleBindRetry
  <2>2. ~ IsOpen(sock', ws')
    BY <2>1, ConnectStep DEF NewIsIdle, IsOpen
  <2>3. RelayTypeOK'
    <3>1. /\ impl' \in {"ts", "rescript"} /\ life' \in {"new", "up", "destroyed"} /\ bus' \in BOOLEAN
          /\ continuation' \in {"none", "due", "fired"}
      BY <2>1 DEF RelayTypeOK
    <3>2. /\ bound' \in BOOLEAN /\ listeners' \in Nat /\ bindTimer' \in BOOLEAN
          /\ told' \in [Sockets -> {"none", "ready", "unready"}]
      BY <2>1, BindStep
    <3>3. /\ seen' \subseteq Cmds /\ pending' \subseteq seen' /\ timers' \subseteq seen'
          /\ called' \in [Cmds -> {"none", "out", "rejected"}]
          /\ acks' \in [Cmds -> Seq(Verdicts)] /\ got' \in [Sockets -> SUBSET Cmds]
      BY <2>1 DEF RelayTypeOK, requests
    <3> QED
      BY <2>1, <3>1, <3>2, <3>3, ConnectStep DEF RelayTypeOK
  <2>4. RequestAccounted'
    BY <2>1 DEF RequestAccounted, requests
  <2>5. RetryPending' /\ OneListener' /\ NewIsIdle'
    <3>1. /\ ~ bound /\ listeners = 0
          /\ listeners' = IF bound' THEN 1 ELSE 0
      BY <2>1, BindStep DEF NewIsIdle
    <3>2. ws' # "none" \/ wsTimer'
      BY <2>1, ConnectStep
    <3>3. bound' \/ bindTimer'
      BY <2>1
    <3> QED
      BY <2>1, <3>1, <3>2, <3>3 DEF RetryPending, OneListener, NewIsIdle
  <2>6. HostKnowsReadiness'
    BY <2>2 DEF HostKnowsReadiness
  <2> QED
    BY <2>3, <2>4, <2>5, <2>6
<1>2. CASE Continue \/ BindRetry
  <2>1. /\ UNCHANGED <<requests, impl, life, bus, ws, sock, wsTimer>>
        /\ life # "new"
        /\ continuation' \in {continuation, "fired"}
        /\ bindTimer' \in {bindTimer, ~ bound'}
        /\ BindCommBus \/ UNCHANGED <<bound, listeners, told>>
    BY <1>2 DEF Continue, BindRetry, ScheduleBindRetry, NewIsIdle, RelayTypeOK
  <2>2. ASSUME bound' \in BOOLEAN, listeners' \in Nat, told' \in [Sockets -> {"none", "ready", "unready"}]
        PROVE  RelayTypeOK'
    <3>1. /\ sock' \in [Sockets -> {"unused", "connecting", "open", "errored", "closing", "closed"}]
          /\ ws' \in Sockets \cup {"none"} /\ (ws' # "none" => Live(ws)')
      BY <2>1 DEF RelayTypeOK, Live
    <3>2. /\ impl' \in {"ts", "rescript"} /\ life' \in {"new", "up", "destroyed"} /\ bus' \in BOOLEAN
          /\ continuation' \in {"none", "due", "fired"} /\ bindTimer' \in BOOLEAN /\ wsTimer' \in BOOLEAN
      BY <2>1, <2>2 DEF RelayTypeOK
    <3>3. /\ seen' \subseteq Cmds /\ pending' \subseteq seen' /\ timers' \subseteq seen'
          /\ called' \in [Cmds -> {"none", "out", "rejected"}]
          /\ acks' \in [Cmds -> Seq(Verdicts)] /\ got' \in [Sockets -> SUBSET Cmds]
      BY <2>1 DEF RelayTypeOK, requests
    <3> HIDE DEF RelayInv
    <3> QED
      BY <2>2, <3>1, <3>2, <3>3 DEF RelayTypeOK
  <2>3. CASE BindCommBus
    <3>1. RelayTypeOK'
      BY <2>3, <2>2, BindStep
    <3>2. RequestAccounted' /\ NewIsIdle'
      BY <2>1 DEF RequestAccounted, requests, NewIsIdle
    <3>3. RetryPending' /\ OneListener'
      BY <2>1, <2>3, BindStep DEF RetryPending, OneListener, RelayTypeOK
    <3>4. HostKnowsReadiness'
      BY <2>1, <2>3, BindStep DEF HostKnowsReadiness, IsOpen
    <3> QED
      BY <3>1, <3>2, <3>3, <3>4
  <2>4. CASE UNCHANGED <<bound, listeners, told>>
    <3>1. RelayTypeOK'
      BY <2>4, <2>2 DEF RelayTypeOK
    <3>2. RequestAccounted' /\ NewIsIdle' /\ OneListener' /\ HostKnowsReadiness'
      BY <2>1, <2>4 DEF RequestAccounted, requests, NewIsIdle, OneListener, HostKnowsReadiness, IsOpen
    <3>3. RetryPending'
      BY <2>1, <2>4 DEF RetryPending
    <3> QED
      BY <3>1, <3>2, <3>3
  <2> QED
    BY <2>1, <2>3, <2>4
<1> QED
  BY <1>1, <1>2

\* destroy, whether or not it runs to its end.
LEMMA DestroyStep ==
    ASSUME RelayInv, Destroy \/ DestroyThrows
    PROVE  RelayInv'
<1> USE DEF RelayInv
<1>1. /\ pending' = {} /\ timers' = timers \ pending /\ UNCHANGED <<seen, called, got, impl, continuation>>
      /\ acks' = [c \in Cmds |-> IF c \in pending THEN Append(acks[c], "destroyed") ELSE acks[c]]
      /\ life = "up" /\ life' = "destroyed" /\ bindTimer' = FALSE /\ told' = told
      /\ listeners' = listeners \/ (bound /\ listeners' = listeners - 1)
  BY DEF Destroy, DestroyThrows, RejectAll, Unhook, sockets
<1>2. /\ bus' \in BOOLEAN /\ bound' \in BOOLEAN /\ wsTimer' \in BOOLEAN
      /\ sock' \in [Sockets -> {"unused", "connecting", "open", "errored", "closing", "closed"}]
      /\ ws' \in Sockets \cup {"none"}
      /\ ws' # "none" => ws' = ws /\ sock' = sock /\ bound' = bound
  BY DEF Destroy, DestroyThrows, Unhook, CleanupWs, sockets, RelayTypeOK
<1>3. listeners' \in Nat
  BY <1>1 DEF OneListener, RelayTypeOK
<1>4. \A c \in Cmds : acks[c] \in Seq(Verdicts)
  BY DEF RelayTypeOK
<1>5. \A c \in Cmds : /\ Append(acks[c], "destroyed") \in Seq(Verdicts)
                      /\ Len(Append(acks[c], "destroyed")) = Len(acks[c]) + 1
  BY <1>4 DEF Verdicts
<1>6. acks' \in [Cmds -> Seq(Verdicts)]
  BY <1>1, <1>4, <1>5
<1>7. RelayTypeOK'
  <2>1. ws' # "none" => Live(ws)'
    BY <1>2 DEF RelayTypeOK, Live
  <2>2. /\ impl' \in {"ts", "rescript"} /\ life' \in {"new", "up", "destroyed"}
        /\ continuation' \in {"none", "due", "fired"} /\ bindTimer' \in BOOLEAN
        /\ told' \in [Sockets -> {"none", "ready", "unready"}]
    BY <1>1 DEF RelayTypeOK
  <2>3. /\ seen' \subseteq Cmds /\ pending' \subseteq seen' /\ timers' \subseteq seen'
        /\ called' \in [Cmds -> {"none", "out", "rejected"}] /\ got' \in [Sockets -> SUBSET Cmds]
    BY <1>1 DEF RelayTypeOK
  <2>4. /\ bus' \in BOOLEAN /\ bound' \in BOOLEAN /\ wsTimer' \in BOOLEAN
        /\ sock' \in [Sockets -> {"unused", "connecting", "open", "errored", "closing", "closed"}]
        /\ ws' \in Sockets \cup {"none"}
    BY <1>2
  <2> HIDE DEF RelayInv
  <2> QED
    BY <1>3, <1>6, <2>1, <2>2, <2>3, <2>4 DEF RelayTypeOK
<1>8. RequestAccounted'
  <2>1. ASSUME NEW c \in Cmds
        PROVE  /\ c \notin timers' /\ c \notin pending'
               /\ Len(acks'[c]) = IF c \in seen THEN 1 ELSE 0
    <3>1. Len(acks[c]) = (IF c \in seen \ pending THEN 1 ELSE 0) /\ (c \in pending <=> c \in timers)
      BY <2>1 DEF RequestAccounted
    <3>2. acks'[c] = IF c \in pending THEN Append(acks[c], "destroyed") ELSE acks[c]
      BY <1>1, <2>1
    <3>3. pending \subseteq seen
      BY DEF RelayTypeOK
    <3> QED
      BY <1>1, <1>5, <2>1, <3>1, <3>2, <3>3
  <2> QED
    BY <1>1, <2>1 DEF RequestAccounted
<1>9. HostKnowsReadiness'
  BY <1>1, <1>2 DEF HostKnowsReadiness, IsOpen
<1> QED
  BY <1>1, <1>7, <1>8, <1>9 DEF NewIsIdle, RetryPending, OneListener

\* The sockets.
LEMMA SocketStep ==
    ASSUME RelayInv, Reconnect \/ \E s \in Sockets : Open(s) \/ Error(s) \/ Close(s)
    PROVE  RelayInv'
<1> USE DEF RelayInv
<1>1. CASE Reconnect
  <2>1. ConnectWs /\ UNCHANGED <<impl, life, binding, told, requests>> /\ life # "new"
    BY <1>1 DEF Reconnect, NewIsIdle
  <2>2. RelayTypeOK'
    BY <2>1, ConnectStep DEF RelayTypeOK, binding, requests
  <2>3. RequestAccounted' /\ OneListener' /\ NewIsIdle' /\ RetryPending'
    BY <2>1, ConnectStep DEF RequestAccounted, OneListener, NewIsIdle, RetryPending, binding, requests
  <2>4. HostKnowsReadiness'
    BY <2>1, ConnectStep DEF HostKnowsReadiness, binding
  <2> QED
    BY <2>2, <2>3, <2>4
<1>2. ASSUME NEW s \in Sockets, Open(s) PROVE RelayInv'
  <2>1. /\ sock[s] = "connecting" /\ sock' = [sock EXCEPT ![s] = "open"]
        /\ SendReady(sock', bound) /\ UNCHANGED <<impl, life, binding, ws, wsTimer, requests>>
    BY <1>2 DEF Open
  <2>2. told' \in [Sockets -> {"none", "ready", "unready"}]
    BY <2>1 DEF SendReady, RelayTypeOK, Readiness
  <2>3. RelayTypeOK'
    BY <2>1, <2>2 DEF RelayTypeOK, binding, requests, Live
  <2>4. RequestAccounted' /\ OneListener' /\ NewIsIdle' /\ RetryPending'
    BY <2>1 DEF RequestAccounted, OneListener, NewIsIdle, RetryPending, binding, requests
  <2>5. HostKnowsReadiness'
    BY <2>1, NoneIsNoSocket DEF HostKnowsReadiness, SendReady, IsOpen, binding, RelayTypeOK
  <2> QED
    BY <2>3, <2>4, <2>5
<1>3. ASSUME NEW s \in Sockets, Error(s) \/ Close(s) PROVE RelayInv'
  <2>1. /\ sock[s] # "unused" /\ ws' = "none" /\ wsTimer' = TRUE
        /\ sock' = [sock EXCEPT ![s] = "errored"] \/ sock' = [sock EXCEPT ![s] = "closed"]
        /\ UNCHANGED <<impl, life, binding, told, requests>>
    BY <1>3 DEF Error, Close, Live
  <2>2. RelayTypeOK'
    BY <2>1 DEF RelayTypeOK, binding, requests
  <2>3. RequestAccounted' /\ OneListener' /\ NewIsIdle' /\ RetryPending' /\ HostKnowsReadiness'
    BY <2>1 DEF RequestAccounted, OneListener, NewIsIdle, RetryPending, HostKnowsReadiness, IsOpen,
                binding, requests
  <2> QED
    BY <2>2, <2>3
<1> QED
  BY <1>1, <1>2, <1>3

\* The commands.
LEMMA CommandStep ==
    ASSUME RelayInv, NEW c \in Cmds,
           \/ \E s \in Sockets : Duplicate(s, c) \/ Forward(s, c) \/ RefuseNotReady(s, c)
           \/ RequestTimeout(c) \/ CallRejected(c)
           \/ \E v \in {"ok", "err"} : Respond(c, v)
    PROVE  RelayInv'
<1> USE DEF RelayInv
<1>1. ASSUME NEW s \in Sockets, Arrive(s, c) PROVE got' \in [Sockets -> SUBSET Cmds]
  BY <1>1 DEF Arrive, RelayTypeOK
<1>2. ASSUME NEW s \in Sockets, Duplicate(s, c) PROVE RelayInv'
  <2>1. got' \in [Sockets -> SUBSET Cmds]
    BY <1>1, <1>2 DEF Duplicate
  <2>2. UNCHANGED <<impl, life, binding, sockets, seen, pending, timers, called, acks>>
    BY <1>2 DEF Duplicate
  <2>3. RelayTypeOK'
    BY <2>1, <2>2 DEF RelayTypeOK, binding, sockets, Live
  <2> QED
    BY <2>2, <2>3 DEF RequestAccounted, OneListener, NewIsIdle, RetryPending, HostKnowsReadiness,
                      IsOpen, binding, sockets
<1>3. ASSUME NEW s \in Sockets, Forward(s, c) PROVE RelayInv'
  <2>1. got' \in [Sockets -> SUBSET Cmds] /\ BindCommBus
    BY <1>1, <1>3 DEF Forward
  <2>2. /\ c \notin seen /\ seen' = seen \cup {c} /\ pending' = pending \cup {c}
        /\ timers' = timers \cup {c} /\ called' = [called EXCEPT ![c] = "out"]
        /\ UNCHANGED <<impl, life, bus, continuation, bindTimer, ws, sock, wsTimer, acks>>
        /\ bus
    BY <1>3 DEF Forward
  <2>3. RelayTypeOK'
    BY <2>1, <2>2, BindStep DEF RelayTypeOK, Live
  <2>4. RequestAccounted'
    BY <2>2 DEF RequestAccounted, RelayTypeOK
  <2>5. OneListener' /\ NewIsIdle' /\ RetryPending'
    BY <2>1, <2>2, BindStep DEF OneListener, NewIsIdle, RetryPending, RelayTypeOK
  <2>6. HostKnowsReadiness'
    BY <2>1, <2>2, BindStep DEF HostKnowsReadiness, IsOpen
  <2> QED
    BY <2>3, <2>4, <2>5, <2>6
<1>4. ASSUME NEW s \in Sockets, RefuseNotReady(s, c) PROVE RelayInv'
  <2>1. got' \in [Sockets -> SUBSET Cmds]
    BY <1>1, <1>4 DEF RefuseNotReady
  <2>2. /\ c \notin seen /\ seen' = seen \cup {c}
        /\ acks' = [acks EXCEPT ![c] = Append(acks[c], "not_ready")]
        /\ UNCHANGED <<impl, life, binding, sockets, pending, timers, called>>
    BY <1>4 DEF RefuseNotReady
  <2>3. acks[c] \in Seq(Verdicts) /\ Len(acks[c]) = 0 /\ c \notin pending
    BY <2>2 DEF RelayTypeOK, RequestAccounted
  <2>4. Append(acks[c], "not_ready") \in Seq(Verdicts) /\ Len(Append(acks[c], "not_ready")) = 1
    BY <2>3 DEF Verdicts
  <2>5. acks' \in [Cmds -> Seq(Verdicts)]
    BY <2>2, <2>4 DEF RelayTypeOK
  <2>6. RelayTypeOK'
    BY <2>1, <2>2, <2>5 DEF RelayTypeOK, binding, sockets, Live
  <2>7. RequestAccounted'
    BY <2>2, <2>3, <2>4 DEF RequestAccounted, RelayTypeOK
  <2> QED
    BY <2>2, <2>6, <2>7 DEF OneListener, NewIsIdle, RetryPending, HostKnowsReadiness, IsOpen,
                            binding, sockets
<1>5. ASSUME NEW v \in Verdicts, c \in pending, Settle(c, v), called' \in [Cmds -> {"none", "out", "rejected"}],
             UNCHANGED <<impl, life, binding, sockets, seen, got>>
      PROVE  RelayInv'
  <2>1. RelayTypeOK' /\ RequestAccounted'
    BY <1>5, SettleStep DEF RelayTypeOK, binding, sockets, Live
  <2> QED
    BY <1>5, <2>1 DEF OneListener, NewIsIdle, RetryPending, HostKnowsReadiness, IsOpen, binding, sockets
<1>6. CASE RequestTimeout(c)
  <2>1. c \in pending
    BY <1>6 DEF RequestTimeout, RequestAccounted
  <2>2. \E v \in Verdicts : Settle(c, v)
    BY <1>6 DEF RequestTimeout, Verdicts
  <2> QED
    BY <1>5, <1>6, <2>1, <2>2 DEF RequestTimeout, RelayTypeOK
<1>7. ASSUME NEW v \in {"ok", "err"}, Respond(c, v) PROVE RelayInv'
  BY <1>5, <1>7 DEF Respond, RelayTypeOK, Verdicts
<1>8. CASE CallRejected(c)
  <2>1. called' \in [Cmds -> {"none", "out", "rejected"}]
    BY <1>8 DEF CallRejected, RelayTypeOK
  <2>2. CASE c \in pending
    BY <1>5, <1>8, <2>1, <2>2 DEF CallRejected, Verdicts
  <2>3. CASE c \notin pending
    <3>1. UNCHANGED <<impl, life, binding, sockets, seen, pending, timers, acks, got>>
      BY <1>8, <2>3 DEF CallRejected
    <3>2. RelayTypeOK'
      BY <2>1, <3>1 DEF RelayTypeOK, binding, sockets, Live
    <3> QED
      BY <3>1, <3>2 DEF RequestAccounted, OneListener, NewIsIdle, RetryPending, HostKnowsReadiness,
                        IsOpen, binding, sockets
  <2> QED
    BY <2>2, <2>3
<1> QED
  BY <1>2, <1>3, <1>4, <1>6, <1>7, <1>8

LEMMA RelayInvHolds == RelaySpec => []RelayInv
<1>1. RelayInv /\ UNCHANGED relayVars => RelayInv'
  BY DEF RelayInv, RelayTypeOK, NewIsIdle, RequestAccounted, RetryPending, OneListener,
         HostKnowsReadiness, IsOpen, Live, relayVars, binding, sockets, requests
<1>2. RelayInv /\ RelayNext => RelayInv'
  BY LifeStep, DestroyStep, SocketStep, CommandStep DEF RelayNext
<1> QED
  BY <1>1, <1>2, RelayInitInv, PTL DEF RelaySpec

----------------------------------------------------------------------------
\* The relay refers to a live socket or to none, and its bookkeeping is well formed.
THEOREM RelayTypeCorrect == RelaySpec => []RelayTypeOK
BY RelayInvHolds, PTL DEF RelayInv

\* Every command is acked exactly once, or still pending under an armed timer, while the
\* relay's ring evicts no id (DedupProofs!PlainSetOfFew).
THEOREM RequestsCorrect == RelaySpec => []RequestAccounted
BY RelayInvHolds, PTL DEF RelayInv

\* A relay that is up is never left without a retry of what it lacks.
THEOREM RetriesCorrect == RelaySpec => []RetryPending
BY RelayInvHolds, PTL DEF RelayInv

\* The response listener is attached exactly once.
THEOREM ListenerCorrect == RelaySpec => []OneListener
BY RelayInvHolds, PTL DEF RelayInv

\* The host knows over the relay's socket whether the relay is bound.
THEOREM ReadinessCorrect == RelaySpec => []HostKnowsReadiness
BY RelayInvHolds, PTL DEF RelayInv

----------------------------------------------------------------------------
(* After destroy.                                                          *)

LEMMA InertStep ==
    ASSUME DestroyedIsInert, [RelayNext]_relayVars
    PROVE  DestroyedIsInert'
<1> USE DEF DestroyedIsInert
<1>1. CASE Start
  BY <1>1 DEF Start
<1>2. CASE Continue \/ BindRetry
  BY <1>2 DEF Continue, BindRetry, requests
<1>3. CASE Destroy \/ DestroyThrows
  BY <1>3 DEF Destroy, DestroyThrows, RejectAll, Unhook
<1>4. CASE Reconnect \/ (\E s \in Sockets : Open(s) \/ Error(s) \/ Close(s)) \/ UNCHANGED relayVars
  BY <1>4 DEF Reconnect, Open, Error, Close, relayVars, binding, requests
<1>5. ASSUME NEW c \in Cmds, NEW s \in Sockets, Duplicate(s, c) \/ RefuseNotReady(s, c)
      PROVE  DestroyedIsInert'
  BY <1>5 DEF Duplicate, RefuseNotReady, binding
<1>6. ASSUME NEW c \in Cmds, NEW s \in Sockets, Forward(s, c)
      PROVE  DestroyedIsInert'
  BY <1>6 DEF Forward
<1>7. ASSUME NEW c \in Cmds,
             RequestTimeout(c) \/ CallRejected(c) \/ \E v \in {"ok", "err"} : Respond(c, v)
      PROVE  DestroyedIsInert'
  <2>1. pending' \subseteq pending /\ UNCHANGED <<impl, life, binding>>
    BY <1>7 DEF RequestTimeout, CallRejected, Respond, Settle
  <2> QED
    BY <2>1 DEF binding
<1> QED
  BY <1>1, <1>2, <1>3, <1>4, <1>5, <1>6, <1>7 DEF RelayNext

\* For both implementations: what destroy leaves behind asks the module for nothing,
\* unless unregister() threw.
THEOREM InertCorrect == RelaySpec => []DestroyedIsInert
<1>1. RelayInit => DestroyedIsInert
  BY DEF RelayInit, DestroyedIsInert
<1> QED
  BY <1>1, InertStep, PTL DEF RelaySpec

----------------------------------------------------------------------------
(* The promise of Exchange.                                                *)

\* What is pending was asked for, and nothing that did not arrive.
AskedFor ==
    \A c \in Cmds : /\ c \in pending => c \in seen /\ called[c] # "none"
                    /\ c \notin seen => called[c] = "none"

\* Every task of a relay but four is none of the requests' business.
LEMMA OtherSteps ==
    ASSUME \/ Start \/ Continue \/ BindRetry \/ Reconnect
           \/ \E s \in Sockets : Open(s) \/ Error(s) \/ Close(s) \/ \E c \in Cmds : Duplicate(s, c)
           \/ UNCHANGED relayVars
    PROVE  UNCHANGED <<seen, pending, called>>
BY DEF Start, Continue, BindRetry, Reconnect, Open, Error, Close, Duplicate, relayVars, requests

\* A request is settled by whoever answers it first.
LEMMA SettlingStep ==
    ASSUME RequestAccounted, AskedFor, called \in [Cmds -> {"none", "out", "rejected"}], NEW c \in Cmds,
           RequestTimeout(c) \/ CallRejected(c) \/ \E v \in {"ok", "err"} : Respond(c, v)
    PROVE  /\ seen' = seen /\ pending' = pending \ {c}
           /\ called[c] # "none" /\ called'[c] # "none"
           /\ called' = [called EXCEPT ![c] = called'[c]]
<1>1. CASE RequestTimeout(c) \/ \E v \in {"ok", "err"} : Respond(c, v)
  <2>1. c \in pending /\ pending' = pending \ {c} /\ UNCHANGED <<seen, called>>
    BY <1>1 DEF RequestTimeout, Respond, Settle, RequestAccounted
  <2> QED
    BY <2>1 DEF AskedFor
<1>2. CASE CallRejected(c)
  BY <1>2 DEF CallRejected, Settle
<1> QED
  BY <1>1, <1>2

LEMMA AskedForStep ==
    ASSUME RelayInv, AskedFor, [RelayNext]_relayVars
    PROVE  AskedFor'
<1> USE DEF AskedFor
<1>0. called \in [Cmds -> {"none", "out", "rejected"}] /\ RequestAccounted
  BY DEF RelayInv, RelayTypeOK
<1>1. CASE UNCHANGED <<seen, pending, called>>
  BY <1>1
<1>2. CASE Destroy \/ DestroyThrows
  BY <1>2 DEF Destroy, DestroyThrows, RejectAll
<1>3. ASSUME NEW c \in Cmds, NEW s \in Sockets, Forward(s, c) \/ RefuseNotReady(s, c)
      PROVE  AskedFor'
  BY <1>0, <1>3 DEF Forward, RefuseNotReady
<1>4. ASSUME NEW c \in Cmds,
             RequestTimeout(c) \/ CallRejected(c) \/ \E v \in {"ok", "err"} : Respond(c, v)
      PROVE  AskedFor'
  BY <1>0, <1>4, SettlingStep
<1> QED
  BY <1>1, <1>2, <1>3, <1>4, OtherSteps DEF RelayNext

LEMMA ExchangeStep ==
    ASSUME RelayInv, AskedFor, [RelayNext]_relayVars
    PROVE  [Promise!Next]_Phases
<1> USE DEF Phase, Phases
<1>0. called \in [Cmds -> {"none", "out", "rejected"}] /\ RequestAccounted /\ pending \subseteq seen
  BY DEF RelayInv, RelayTypeOK
<1>1. CASE UNCHANGED <<seen, pending, called>>
  BY <1>1
<1>2. CASE Destroy \/ DestroyThrows
  <2>1. pending' = {} /\ UNCHANGED <<seen, called>>
    BY <1>2 DEF Destroy, DestroyThrows, RejectAll
  <2>2. \A c \in Cmds : Phase(c)' = IF Phase(c) = "pending" THEN "settled" ELSE Phase(c)
    BY <1>0, <2>1 DEF AskedFor
  <2>3. Promise!Retire
    BY <2>2 DEF Promise!Retire
  <2> QED
    BY <2>3 DEF Promise!Next
<1>3. ASSUME NEW c \in Cmds, NEW s \in Sockets, Forward(s, c)
      PROVE  Promise!Take(c)
  <2>1. /\ c \notin seen /\ seen' = seen \cup {c} /\ pending' = pending \cup {c}
        /\ called' = [called EXCEPT ![c] = "out"]
    BY <1>3 DEF Forward
  <2>2. Phase(c) = "new" /\ Phase(c)' = "pending"
    BY <1>0, <2>1
  <2>3. \A d \in Cmds \ {c} : Phase(d)' = Phase(d)
    BY <1>0, <2>1
  <2> QED
    BY <2>2, <2>3 DEF Promise!Take
<1>4. ASSUME NEW c \in Cmds, NEW s \in Sockets, RefuseNotReady(s, c)
      PROVE  Promise!Refuse(c)
  <2>1. c \notin seen /\ seen' = seen \cup {c} /\ UNCHANGED <<pending, called>>
    BY <1>4 DEF RefuseNotReady
  <2>2. Phase(c) = "new" /\ Phase(c)' = "refused"
    BY <1>0, <2>1 DEF AskedFor
  <2>3. \A d \in Cmds \ {c} : Phase(d)' = Phase(d)
    BY <2>1
  <2> QED
    BY <2>2, <2>3 DEF Promise!Refuse
<1>5. ASSUME NEW c \in Cmds,
             RequestTimeout(c) \/ CallRejected(c) \/ \E v \in {"ok", "err"} : Respond(c, v)
      PROVE  Promise!Settle(c) \/ UNCHANGED Phases
  <2>1. /\ seen' = seen /\ pending' = pending \ {c}
        /\ called[c] # "none" /\ called'[c] # "none"
        /\ called' = [called EXCEPT ![c] = called'[c]]
    BY <1>0, <1>5, SettlingStep
  <2>2. \A d \in Cmds \ {c} : Phase(d)' = Phase(d)
    BY <1>0, <2>1
  <2>3. CASE c \in pending
    <3>1. Phase(c) = "pending" /\ Phase(c)' = "settled"
      BY <1>0, <2>1, <2>3
    <3> QED
      BY <2>2, <3>1 DEF Promise!Settle
  <2>4. CASE c \notin pending
    <3>1. Phase(c)' = Phase(c)
      BY <2>1, <2>4
    <3> QED
      BY <2>2, <3>1
  <2> QED
    BY <2>3, <2>4
<1> QED
  BY <1>1, <1>2, <1>3, <1>4, <1>5, OtherSteps DEF RelayNext, Promise!Next

\* A relay asks the module for a command once or refuses it for good, for any number of
\* sockets, through reconnects and after destroy, while its ring evicts no id: one that
\* comes back after its eviction is a new command to the relay.
THEOREM ExchangeKept == RelaySpec => ImplementsExchange
<1>1. RelayInit => AskedFor /\ Promise!Init
  BY DEF RelayInit, AskedFor, Phase, Phases, Promise!Init
<1>2. RelaySpec => []AskedFor
  BY <1>1, RelayInvHolds, AskedForStep, PTL DEF RelaySpec
<1>3. RelayInv /\ AskedFor /\ [RelayNext]_relayVars => [Promise!Next]_Phases
  BY ExchangeStep
<1> QED
  BY <1>1, <1>2, <1>3, RelayInvHolds, PTL DEF RelaySpec, ImplementsExchange, Promise!Spec

----------------------------------------------------------------------------
(* What is needed for the two statements that the model refutes.           *)

\* No socket reports its close after the relay has replaced it or was destroyed: what
\* engines do that follow an error by its close at once, and what detaching the
\* handlers of a socket that is given up would ensure of all.
TimelyClose == \A s \in Sockets : Close(s) => life = "up" /\ ws \in {s, "none"}

NoStraySocket ==
    /\ \A s \in Sockets : Live(s) => s = ws
    /\ impl = "rescript" /\ life = "destroyed" => ~ wsTimer /\ ws = "none"

LEMMA NoStrayStep ==
    ASSUME RelayTypeOK, NoStraySocket, [RelayNext]_relayVars, [TimelyClose]_relayVars
    PROVE  NoStraySocket'
<1> USE NoneIsNoSocket DEF NoStraySocket, Live
<1>1. CASE Start \/ Reconnect
  <2>1. ConnectWs /\ impl' = impl /\ (life' = "up" \/ (life' = life /\ wsTimer))
    BY <1>1 DEF Start, Reconnect
  <2>2. sock \in [Sockets -> {"unused", "connecting", "open", "errored", "closing", "closed"}]
        /\ (ws # "none" => Live(ws))
    BY DEF RelayTypeOK
  <2>3. \A s \in Sockets : Live(s)' => s = ws'
    BY <2>1, <2>2 DEF ConnectWs
  <2> QED
    BY <2>1, <2>3
<1>2. CASE Destroy
  <2>1. CleanupWs /\ life' = "destroyed"
    BY <1>2 DEF Destroy
  <2> QED
    BY <2>1 DEF CleanupWs, RelayTypeOK
<1>3. CASE DestroyThrows
  BY <1>3 DEF DestroyThrows, sockets
<1>4. ASSUME NEW s \in Sockets, Open(s) \/ Error(s)
      PROVE  NoStraySocket'
  BY <1>4 DEF Open, Error, RelayTypeOK
<1>5. ASSUME NEW s \in Sockets, Close(s)
      PROVE  NoStraySocket'
  <2>1. /\ ws' = "none" /\ sock' = [sock EXCEPT ![s] = "closed"]
        /\ impl' = impl /\ life' = life /\ sock[s] # "closed"
    BY <1>5 DEF Close
  <2>2. TimelyClose
    BY <2>1 DEF relayVars, sockets, RelayTypeOK
  <2>3. life = "up" /\ ws \in {s, "none"}
    BY <1>5, <2>2 DEF TimelyClose
  <2> QED
    BY <2>1, <2>3 DEF RelayTypeOK
<1>6. CASE UNCHANGED <<impl, life, ws, sock, wsTimer>>
  BY <1>6
<1>7. ASSUME NEW c \in Cmds,
             \/ \E s \in Sockets : Duplicate(s, c) \/ Forward(s, c) \/ RefuseNotReady(s, c)
             \/ RequestTimeout(c) \/ CallRejected(c)
             \/ \E v \in {"ok", "err"} : Respond(c, v)
      PROVE  UNCHANGED <<impl, life, ws, sock, wsTimer>>
  BY <1>7 DEF Duplicate, Forward, RefuseNotReady, RequestTimeout, CallRejected, Respond, sockets
<1>8. Continue \/ BindRetry \/ UNCHANGED relayVars => UNCHANGED <<impl, life, ws, sock, wsTimer>>
  BY DEF Continue, BindRetry, relayVars, sockets
<1> QED
  BY <1>1, <1>2, <1>3, <1>4, <1>5, <1>6, <1>7, <1>8 DEF RelayNext

\* A close that comes late is all that relay_onclose and relay_destroy need, and they
\* need it: without one a relay has a single connection, and a ReScript relay that was
\* destroyed has none and makes none (relay.ts:284, BridgeRelay.res:514).
THEOREM OnlyLateClosesStray ==
    RelaySpec /\ [][TimelyClose]_relayVars => [](OneLiveSocket /\ DestroyIsFinal)
<1>1. RelayInit => NoStraySocket
  BY DEF RelayInit, NoStraySocket, Live
<1>2. NoStraySocket => OneLiveSocket
  <2> SUFFICES ASSUME NoStraySocket PROVE Cardinality({s \in Sockets : Live(s)}) <= 1
    BY DEF OneLiveSocket
  <2>1. {s \in Sockets : Live(s)} \in SUBSET {ws}
    BY DEF NoStraySocket
  <2>2. IsFiniteSet({ws}) /\ Cardinality({ws}) = 1
    BY FS_Singleton
  <2> QED
    BY <2>1, <2>2, FS_Subset
<1>3. NoStraySocket => DestroyIsFinal
  BY NoneIsNoSocket DEF NoStraySocket, DestroyIsFinal
<1>4. RelayTypeOK /\ NoStraySocket /\ [RelayNext]_relayVars /\ [TimelyClose]_relayVars
        => NoStraySocket'
  BY NoStrayStep
<1> QED
  BY <1>1, <1>2, <1>3, <1>4, RelayTypeCorrect, PTL DEF RelaySpec
============================================================================
