------------------------------- MODULE Timing -------------------------------
(***************************************************************************)
(* Where durations meet: the keepalive of the host's connections (the ping *)
(* task of server.rs, last_seen in client.rs) and the two timeouts of a    *)
(* command, the caller's (Hub::command) and the relay's (onHostCommand).   *)
(*                                                                         *)
(* Time passes in Pass, and only when nothing is due: timers fire when     *)
(* they are due, tasks that can run take no time, and a message takes Trip *)
(* at most, a ping together with its pong.  Between two calls of Pass the  *)
(* tasks interleave as Server has it; a round of a ping task is one action *)
(* here, since it is over at the instant at which it began.                *)
(***************************************************************************)
EXTENDS Naturals

CONSTANTS
    Conns,          \* gauges, each with one connection at a time
    Interval,       \* ping_interval
    Timeout,        \* ping_timeout
    RelayTimeout,   \* requestTimeoutMs
    HostTimeout,    \* the `timeout` a caller passes to command
    Trip            \* the longest a message takes

ASSUME DurationsAssumption ==
    /\ {Interval, Timeout, RelayTimeout, HostTimeout, Trip} \subseteq Nat
    /\ Trip < Interval

VARIABLES
    open,       \* connections whose tasks run
    leaving,    \* ... and whose reader is about to clean up
    clients,    \* keys of the `clients` map
    ready,      \* clients whose ready flag is set
    speaking,   \* connections from which texts still arrive
    writing,    \* connections whose writer task runs
    quiet,      \* age of each client's last_seen
    due,        \* time until the next tick of each ping task
    asked,      \* connections with a ping on its way to the gauge, or its pong back
    owed,       \* age of that ping
    deadFor,    \* how long each writer has been gone
    stage,      \* where the command at hand is, or how the last one ended
    age,        \* time since it was issued
    held        \* time since it reached that stage

connVars   == <<open, leaving, clients, ready, speaking, writing>>
timers     == <<quiet, due, asked, owed, deadFor>>
callVars   == <<stage, age, held>>
timingVars == <<connVars, timers, callVars>>

Pinging == open \ leaving

\* What is registered or pinged is open, and nothing is ever overdue.
TimingTypeOK ==
    /\ open \subseteq Conns
    /\ leaving \subseteq open /\ clients \subseteq open /\ speaking \subseteq open
    /\ writing \subseteq open /\ asked \subseteq writing
    /\ ready \subseteq clients
    /\ quiet \in [Conns -> Nat] /\ deadFor \in [Conns -> Nat]
    /\ due \in [Conns -> 0 .. Interval]
    /\ owed \in [Conns -> 0 .. Trip]
    /\ stage \in {"sent", "lost", "held", "acked", "answered", "timeout", "cut_off"}
    /\ age \in 0 .. HostTimeout /\ held \in Nat

TimingInit ==
    /\ open = {} /\ leaving = {} /\ clients = {} /\ ready = {}
    /\ speaking = {} /\ writing = {} /\ asked = {}
    /\ quiet = [k \in Conns |-> 0]
    /\ due = [k \in Conns |-> 0]
    /\ owed = [k \in Conns |-> 0]
    /\ deadFor = [k \in Conns |-> 0]
    /\ stage = "answered" /\ age = 0 /\ held = 0

----------------------------------------------------------------------------
(* The keepalive.                                                          *)

\* The first tick of an interval is immediate, and taken before the loop.
Accept(k) ==
    /\ k \notin open
    /\ open' = open \cup {k} /\ clients' = clients \cup {k}
    /\ speaking' = speaking \cup {k} /\ writing' = writing \cup {k}
    /\ quiet' = [quiet EXCEPT ![k] = 0]
    /\ due' = [due EXCEPT ![k] = Interval]
    /\ UNCHANGED <<leaving, ready, asked, owed, deadFor, callVars>>

\* Mutation: the comparison is off by one.
DeadEarly == {k \in clients : quiet[k] >= Timeout}

\* Mutation: a client that was pinged is given the time to answer.
DeadUnlessAsked == {k \in clients \ asked : quiet[k] > Timeout}

Dead == {k \in clients : quiet[k] > Timeout}

\* Mutation: a ping that cannot be sent is left for the next tick.
SendPingIgnoresErrors(k) ==
    /\ IF k \in clients' \cap writing
       THEN asked' = asked \cup {k} /\ owed' = [owed EXCEPT ![k] = 0]
       ELSE UNCHANGED <<asked, owed>>
    /\ UNCHANGED leaving

SendPing(k) ==
    IF k \in clients' \cap writing
    THEN asked' = asked \cup {k} /\ owed' = [owed EXCEPT ![k] = 0] /\ UNCHANGED leaving
    ELSE leaving' = leaving \cup {k} /\ UNCHANGED <<asked, owed>>

\* A round of the ping task: whoever is dead is reaped, then the own client pinged.
Tick(k) ==
    /\ k \in Pinging /\ due[k] = 0
    /\ clients' = clients \ Dead /\ ready' = ready \ Dead
    /\ SendPing(k)
    /\ due' = [due EXCEPT ![k] = Interval]
    /\ UNCHANGED <<open, speaking, writing, quiet, deadFor, callVars>>

\* touch_client finds no client that was reaped.
Touch(k) == quiet' = IF k \in clients THEN [quiet EXCEPT ![k] = 0] ELSE quiet

Pong(k) ==
    /\ k \in asked \cap speaking \cap Pinging
    /\ asked' = asked \ {k} /\ owed' = [owed EXCEPT ![k] = 0]
    /\ Touch(k)
    /\ UNCHANGED <<connVars, due, deadFor, callVars>>

\* Any other text: here the one that sets the ready flag.
SayReady(k, r) ==
    /\ k \in speaking \cap Pinging
    /\ ready' = IF r THEN ready \cup ({k} \cap clients) ELSE ready \ {k}
    /\ Touch(k)
    /\ UNCHANGED <<open, leaving, clients, speaking, writing, due, asked, owed, deadFor, callVars>>

\* The gauge hangs, or its link is lost without a close.
FallSilent(k) ==
    /\ speaking' = speaking \ {k} /\ k \in speaking
    /\ UNCHANGED <<open, leaving, clients, ready, writing, timers, callVars>>

\* Mutation: the ping that was queued stays on its way.
WriterDiesAlone(k) ==
    /\ k \in writing
    /\ writing' = writing \ {k}
    /\ UNCHANGED <<open, leaving, clients, ready, speaking, timers, callVars>>

\* A send fails and the writer ends, with what its channel holds.
WriterDies(k) ==
    /\ k \in writing
    /\ writing' = writing \ {k}
    /\ asked' = asked \ {k} /\ owed' = [owed EXCEPT ![k] = 0]
    /\ UNCHANGED <<open, leaving, clients, ready, speaking, quiet, due, deadFor, callVars>>

\* The socket ends or fails under the reader.
Closed(k) ==
    /\ k \in Pinging
    /\ leaving' = leaving \cup {k}
    /\ UNCHANGED <<open, clients, ready, speaking, writing, timers, callVars>>

Leave(k) ==
    /\ k \in leaving
    /\ open' = open \ {k} /\ leaving' = leaving \ {k}
    /\ clients' = clients \ {k} /\ ready' = ready \ {k}
    /\ speaking' = speaking \ {k} /\ writing' = writing \ {k} /\ asked' = asked \ {k}
    /\ quiet' = [quiet EXCEPT ![k] = 0] /\ due' = [due EXCEPT ![k] = 0]
    /\ owed' = [owed EXCEPT ![k] = 0] /\ deadFor' = [deadFor EXCEPT ![k] = 0]
    /\ UNCHANGED callVars

----------------------------------------------------------------------------
(* One command after the other.                                            *)

Enter(s) == stage' = s /\ held' = 0 /\ UNCHANGED <<age, connVars, timers>>

Finish(s) == stage' = s /\ held' = 0 /\ age' = 0 /\ UNCHANGED <<connVars, timers>>

Command ==
    /\ stage \in {"answered", "timeout", "cut_off"}
    /\ Enter("sent")

\* Mutation: the timer is one unit late.
RelayTimerLate == stage = "held" /\ held = RelayTimeout + 1

RelayTimerDue == stage = "held" /\ held = RelayTimeout

\* No relay takes it, as far as this command goes.
Lose == stage = "sent" /\ Enter("lost")

\* onHostCommand arms the request's timer.
Arrive == stage = "sent" /\ Enter("held")

Respond == stage = "held" /\ Enter("acked")

RelayTimer == RelayTimerDue /\ Enter("acked")

Answer == stage = "acked" /\ Finish("answered")

\* The caller's timeout: of what no relay took, or of what a relay would yet have told.
HostTimer ==
    /\ age = HostTimeout
    /\ \/ stage \in {"sent", "lost"} /\ Finish("timeout")
       \/ stage \in {"held", "acked"} /\ Finish("cut_off")

----------------------------------------------------------------------------
Overdue ==
    \/ leaving # {}
    \/ \E k \in Pinging : due[k] = 0
    \/ \E k \in asked \cap speaking : owed[k] = Trip
    \/ stage \in {"sent", "acked"} /\ held = Trip
    \/ RelayTimerDue
    \/ stage \in {"sent", "lost", "held", "acked"} /\ age = HostTimeout

After(timer, S) == [k \in Conns |-> IF k \in S THEN timer[k] + 1 ELSE timer[k]]

Pass ==
    /\ ~ Overdue
    /\ quiet' = After(quiet, clients)
    /\ owed' = After(owed, asked \cap speaking)
    /\ deadFor' = After(deadFor, open \ writing)
    /\ due' = [k \in Conns |-> IF k \in Pinging THEN due[k] - 1 ELSE due[k]]
    /\ IF stage \in {"sent", "lost", "held", "acked"}
       THEN age' = age + 1 /\ held' = held + 1 ELSE UNCHANGED <<age, held>>
    /\ UNCHANGED <<connVars, asked, stage>>

Connection(k) ==
    \/ Accept(k) \/ Tick(k) \/ Pong(k) \/ FallSilent(k) \/ WriterDies(k) \/ Closed(k) \/ Leave(k)
    \/ \E r \in BOOLEAN : SayReady(k, r)

Call == Command \/ Lose \/ Arrive \/ Respond \/ RelayTimer \/ Answer \/ HostTimer

TimingNext == Pass \/ Call \/ \E k \in Conns : Connection(k)

TimingSpec == TimingInit /\ [][TimingNext]_timingVars

----------------------------------------------------------------------------
(* Properties                                                              *)

Sound(k) == k \in speaking \cap writing

\* When ping_timeout is no shorter than ping_interval and a round trip, a gauge that
\* answers its pings is never reaped, whichever of the ping tasks looks at it and when
\* (server.rs:231, hub.rs:93).  The defaults admit any trip shorter than an interval.
LiveIsKept ==
    Interval + Trip <= Timeout => \A k \in Dead : ~ Sound(k)

\* A client of which nothing is heard is out of the registry after ping_timeout and one
\* ping_interval, so that no command is addressed to it for longer (server.rs:231-237).
RemovedInTime == \A k \in clients : quiet[k] <= Timeout + Interval

Targets == IF ready # {} THEN ready ELSE clients

\* Ready clients whose writers are gone hide from commands the clients that never said
\* ready: each is refused at once, the retry that hub.rs:233 recommends as well.  That
\* lasts until the next ping of those clients and no longer (hub.rs:222, server.rs:252).
MaskedBriefly ==
    Targets \cap writing = {} => \A k \in Targets \cap Pinging : deadFor[k] <= Interval

\* When the relay's timeout and both ways fit into the host's, a command that a relay
\* took never ends as a bare timeout: the relay's diagnosis is there first, whatever
\* else is slow (README.md:249, relay.ts:397, hub.rs:244).
DiagnosisInTime ==
    Trip + RelayTimeout + Trip < HostTimeout => stage # "cut_off"
============================================================================
