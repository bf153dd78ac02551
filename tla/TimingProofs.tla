---------------------------- MODULE TimingProofs ----------------------------
(***************************************************************************)
(* Theorems about Timing, for every number of gauges and every duration.   *)
(*                                                                         *)
(* Each property bounds one timer by another: what a timer may still show  *)
(* is what is left of the interval until something resets it.              *)
(***************************************************************************)
EXTENDS Timing, TLAPS

\* Only a ping task that runs counts down, and the ping that is out is as old as the
\* interval has advanced.
Pings ==
    \A k \in asked \cap speaking : owed[k] + due[k] = Interval

\* What is quiet is heard of, or reaped, in the interval that runs.
Quiet ==
    \A k \in clients :
       /\ quiet[k] + due[k] <= Timeout + Interval
       /\ Sound(k) => quiet[k] <= Interval + (IF k \in asked THEN owed[k] ELSE 0)
       /\ Sound(k) /\ k \notin asked => quiet[k] + due[k] <= Interval

\* A writer that is gone is noticed when the interval is over.
Writers ==
    \A k \in Conns :
       /\ k \notin open \/ k \in writing => deadFor[k] = 0
       /\ k \in Pinging => deadFor[k] + due[k] <= Interval

\* The host's clock of a command shows what the relay's and the two ways add up to.
Calls ==
    /\ stage \in {"answered", "timeout", "cut_off"} => age = 0
    /\ stage = "sent" => age = held /\ held <= Trip
    /\ stage = "held" => age <= Trip + held /\ held <= RelayTimeout
    /\ stage = "acked" => age <= Trip + RelayTimeout + held /\ held <= Trip

TimingInv == TimingTypeOK /\ Pings /\ Quiet /\ Writers /\ Calls /\ DiagnosisInTime

USE DurationsAssumption

----------------------------------------------------------------------------
LEMMA TimingInitial == TimingInit => TimingInv
  BY DEF TimingInit, TimingInv, TimingTypeOK, Pings, Quiet, Writers, Calls, DiagnosisInTime,
         Pinging

LEMMA PassKeeps == ASSUME TimingInv, Pass PROVE TimingInv'
<1>1. TimingTypeOK'
  BY DEF TimingInv, TimingTypeOK, Pass, Overdue, After, Pinging, RelayTimerDue, connVars
<1>2. Pings'
  <2> SUFFICES ASSUME NEW k \in asked \cap speaking PROVE owed'[k] + due'[k] = Interval
    BY DEF Pings, Pass, connVars
  <2>1. k \in Conns /\ k \in Pinging /\ due[k] \in 0 .. Interval /\ owed[k] \in 0 .. Trip
    BY DEF TimingInv, TimingTypeOK, Pass, Overdue, Pinging
  <2>2. due[k] # 0 /\ owed'[k] = owed[k] + 1 /\ due'[k] = due[k] - 1
    BY <2>1 DEF Pass, Overdue, After
  <2>3. owed[k] + due[k] = Interval
    BY DEF TimingInv, Pings
  <2> QED
    BY <2>1, <2>2, <2>3
<1>3. Quiet'
  BY DEF TimingInv, TimingTypeOK, Pings, Quiet, Pass, Overdue, After, Pinging, Sound, connVars
<1>4. Writers'
  BY DEF TimingInv, TimingTypeOK, Writers, Pass, Overdue, After, Pinging, connVars
<1>5. Calls' /\ DiagnosisInTime'
  BY DEF TimingInv, TimingTypeOK, Calls, DiagnosisInTime, Pass, Overdue, RelayTimerDue
<1> QED
  BY <1>1, <1>2, <1>3, <1>4, <1>5 DEF TimingInv

LEMMA TickKeeps == ASSUME TimingInv, NEW k \in Conns, Tick(k) PROVE TimingInv'
<1> USE DEF TimingInv, TimingTypeOK, Tick, SendPing, Dead, Pinging, callVars
<1>1. TimingTypeOK'
  OBVIOUS
<1>2. Pings'
  BY DEF Pings
<1>3. Quiet'
  BY DEF Pings, Quiet, Sound
<1>4. Writers'
  BY DEF Writers
<1>5. Calls' /\ DiagnosisInTime'
  BY DEF Calls, DiagnosisInTime
<1> QED
  BY <1>1, <1>2, <1>3, <1>4, <1>5

LEMMA ConnectionKeeps ==
    ASSUME TimingInv, NEW k \in Conns, Connection(k) PROVE TimingInv'
<1> USE DEF TimingInv, TimingTypeOK, Pings, Quiet, Writers, Calls, DiagnosisInTime, Sound,
            Pinging, connVars, timers, callVars
<1>1. CASE Accept(k)
  BY <1>1 DEF Accept
<1>2. CASE Tick(k)
  BY <1>2, TickKeeps
<1>3. CASE Pong(k)
  BY <1>3 DEF Pong, Touch
<1>4. CASE FallSilent(k)
  BY <1>4 DEF FallSilent
<1>5. CASE WriterDies(k)
  BY <1>5 DEF WriterDies
<1>6. CASE Closed(k)
  BY <1>6 DEF Closed
<1>7. CASE Leave(k)
  BY <1>7 DEF Leave
<1>8. ASSUME NEW r \in BOOLEAN, SayReady(k, r) PROVE TimingInv'
  BY <1>8 DEF SayReady, Touch
<1> QED
  BY <1>1, <1>2, <1>3, <1>4, <1>5, <1>6, <1>7, <1>8 DEF Connection

LEMMA CallKeeps == ASSUME TimingInv, Call PROVE TimingInv'
<1>1. UNCHANGED <<connVars, timers>>
  BY DEF Call, Command, Lose, Arrive, Respond, RelayTimer, Answer, HostTimer, Enter, Finish
<1>2. TimingTypeOK' /\ Pings' /\ Quiet' /\ Writers'
  BY <1>1 DEF TimingInv, TimingTypeOK, Pings, Quiet, Writers, Sound, Pinging, connVars, timers, Call,
     Command, Lose, Arrive, Respond, RelayTimer, RelayTimerDue, Answer, HostTimer, Enter, Finish
<1>3. Calls' /\ DiagnosisInTime'
  BY DEF TimingInv, TimingTypeOK, Calls, DiagnosisInTime, Call, Command, Lose, Arrive, Respond,
     RelayTimer, RelayTimerDue, Answer, HostTimer, Enter, Finish
<1> QED
  BY <1>2, <1>3 DEF TimingInv

LEMMA TimingInvariant == TimingSpec => []TimingInv
<1>1. TimingInit => TimingInv
  BY TimingInitial
<1>2. TimingInv /\ [TimingNext]_timingVars => TimingInv'
  <2> SUFFICES ASSUME TimingInv, [TimingNext]_timingVars PROVE TimingInv'
    OBVIOUS
  <2>1. CASE UNCHANGED timingVars
    BY <2>1 DEF TimingInv, TimingTypeOK, Pings, Quiet, Writers, Calls, DiagnosisInTime, Sound,
       Pinging, timingVars, connVars, timers, callVars
  <2> QED
    BY <2>1, PassKeeps, ConnectionKeeps, CallKeeps DEF TimingNext
<1> QED
  BY <1>1, <1>2, PTL DEF TimingSpec

----------------------------------------------------------------------------
\* What is registered or pinged is open, and no timer runs past its end.
THEOREM TimingTypeCorrect == TimingSpec => []TimingTypeOK
  BY TimingInvariant, PTL DEF TimingInv

\* A gauge that answers its pings is never reaped, if ping_timeout leaves it one
\* interval and one trip.
THEOREM LiveGaugesAreKept == TimingSpec => []LiveIsKept
<1>1. TimingInv => LiveIsKept
  <2> SUFFICES ASSUME TimingInv, Interval + Trip <= Timeout, NEW k \in Dead, Sound(k)
               PROVE  FALSE
    BY DEF LiveIsKept
  <2>1. k \in clients /\ quiet[k] > Timeout /\ k \in Conns
    BY DEF Dead, TimingInv, TimingTypeOK
  <2>2. quiet[k] \in Nat /\ owed[k] \in 0 .. Trip
    BY <2>1 DEF TimingInv, TimingTypeOK
  <2>3. quiet[k] <= Interval + (IF k \in asked THEN owed[k] ELSE 0)
    BY <2>1 DEF TimingInv, Quiet
  <2> QED
    BY <2>1, <2>2, <2>3
<1> QED
  BY <1>1, TimingInvariant, PTL

\* A client of which nothing is heard is reaped within ping_timeout and an interval.
THEOREM SilentGaugesAreRemoved == TimingSpec => []RemovedInTime
<1>1. TimingInv => RemovedInTime
  BY DEF TimingInv, TimingTypeOK, Quiet, RemovedInTime
<1> QED
  BY <1>1, TimingInvariant, PTL

\* Ready clients that cannot take a command hide the others for an interval at most.
THEOREM MasksEnd == TimingSpec => []MaskedBriefly
<1>1. TimingInv => MaskedBriefly
  <2> SUFFICES ASSUME TimingInv, Targets \cap writing = {}, NEW k \in Targets \cap Pinging
               PROVE  deadFor[k] <= Interval
    BY DEF MaskedBriefly
  <2>1. k \in Conns /\ deadFor[k] \in Nat /\ due[k] \in Nat
    BY DEF TimingInv, TimingTypeOK, Pinging
  <2> QED
    BY <2>1 DEF TimingInv, Writers
<1> QED
  BY <1>1, TimingInvariant, PTL

\* A command that a relay took ends with its answer or with the relay's diagnosis, if
\* the relay's timeout and both trips fit into the caller's.
THEOREM DiagnosesArrive == TimingSpec => []DiagnosisInTime
  BY TimingInvariant, PTL DEF TimingInv

\* With the durations that are shipped, in milliseconds - the defaults of ServerConfig and
\* of both relays, and the three seconds of README's example of command - no gauge
\* that answers its pings is reaped, none is kept for more than 20 seconds of silence,
\* and a command that a relay took ends as its answer or the relay's diagnosis unless a
\* message takes a quarter of a second (server.rs:30, relay.ts:94, README.md:95).
THEOREM ShippedDurations ==
    ASSUME Interval = 5000, Timeout = 15000, RelayTimeout = 2500, HostTimeout = 3000
    PROVE  TimingSpec => [](/\ \A k \in Dead : ~ Sound(k)
                            /\ \A k \in clients : quiet[k] <= 20000
                            /\ Trip < 250 => stage # "cut_off")
<1>1. LiveIsKept /\ RemovedInTime /\ DiagnosisInTime
        => /\ \A k \in Dead : ~ Sound(k)
           /\ \A k \in clients : quiet[k] <= 20000
           /\ Trip < 250 => stage # "cut_off"
  BY DEF LiveIsKept, RemovedInTime, DiagnosisInTime
<1> QED
  BY <1>1, LiveGaugesAreKept, SilentGaugesAreRemoved, DiagnosesArrive, PTL
============================================================================
