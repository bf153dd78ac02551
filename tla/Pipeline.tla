------------------------------ MODULE Pipeline ------------------------------
(***************************************************************************)
(* From the host's commands to the module and back: several relays         *)
(* (onHostCommand, onHostEvent and onWasmMessage of ts/.../relay.ts) share *)
(* the CommBus with the module of Bridge, and at the far end of the host's *)
(* broadcast channel a subscriber listens to the module's events.          *)
(*                                                                         *)
(* The Hub sends a command to every connection that is ready, so each      *)
(* relay sees some of the commands, and one that it got over two sockets   *)
(* twice.  A relay here has started and knows its CommBus; Relay has the   *)
(* rest of its life.  The ids it invents are what this module is about:    *)
(* the time in milliseconds and a counter that each relay has of its own.  *)
(***************************************************************************)
EXTENDS Bridge, Functions

CONSTANTS
    Cmds,        \* commands of the host, by name; "unnamed" has none
    Capacity,    \* event_capacity of the host's broadcast channel
    MaxNow,      \* bound: milliseconds that pass
    MaxCalls,    \* bound: requests of all relays together
    MaxEvents    \* bound: events that reach the host

ASSUME CapacityAssumption == Capacity \in Nat

VARIABLES
    now,         \* Date.now()
    seq,         \* requestSeq of each relay
    marked,      \* commands in each relay's dedup ring
    issued,      \* every request ever made
    pending,     \* requests in a pending map, under their timers
    answer,      \* the first ack of each command, which Hub::command returns
    sent,        \* events dispatched by the host
    place,       \* events the subscriber has taken from the channel or lost in it
    heard,       \* events the subscriber has handled
    listening    \* whether the subscriber's loop runs

relayVars    == <<now, seq, marked, issued, pending, answer>>
feedVars     == <<sent, place, heard, listening>>
pipelineVars == <<bridgeVars, relayVars, feedVars>>

NoAnswer == [from |-> "nobody", v |-> "none"]

\* A request is pending only where it was made; each relay's ids number its requests.
PipelineTypeOK ==
    /\ pending \subseteq issued
    /\ \A q \in issued :
          q.cmd \in marked[q.from] /\ q.id[1] \in 0 .. now /\ q.id[2] \in 1 .. seq[q.from]
    /\ {e \in calls : e.t = "cmd"} \subseteq issued
    /\ heard <= place /\ place <= sent

PipelineInit ==
    /\ subscribed \in BOOLEAN
    /\ calls = {}
    /\ answers = {} /\ events = [r \in Relays |-> 0]
    /\ ran = {}
    /\ now = 0
    /\ seq = [r \in Relays |-> 0]
    /\ marked = [r \in Relays |-> {}]
    /\ issued = {} /\ pending = {}
    /\ answer = [c \in Cmds |-> NoAnswer]
    /\ sent = 0 /\ place = 0 /\ heard = 0 /\ listening = TRUE

----------------------------------------------------------------------------
(* The relays.                                                             *)

Millisecond ==
    /\ now < MaxNow
    /\ now' = now + 1
    /\ UNCHANGED <<bridgeVars, seq, marked, issued, pending, answer, feedVars>>

Bounded == FoldFunction(+, 0, seq) < MaxCalls

\* nextRequestId, put into an envelope and on the call event.
Call(r, t, c) ==
    LET q == [t |-> t, from |-> r, id |-> <<now, seq[r] + 1>>, cmd |-> c] IN
      /\ Bounded
      /\ seq' = [seq EXCEPT ![r] = @ + 1]
      /\ calls' = calls \cup {q}
      /\ IF t = "cmd" THEN issued' = issued \cup {q} /\ pending' = pending \cup {q}
                      ELSE UNCHANGED <<issued, pending>>

\* Any ack of a relay reaches the host, and only the first one counts.
Ack(r, c, v) ==
    answer' = IF answer[c] = NoAnswer THEN [answer EXCEPT ![c] = [from |-> r, v |-> v]] ELSE answer

\* Mutation: the id is marked when the command is answered.
ForwardUnmarked(r, c) ==
    /\ c \notin marked[r]
    /\ Call(r, "cmd", c)
    /\ UNCHANGED <<subscribed, answers, events, ran, now, marked, answer, feedVars>>

Forward(r, c) ==
    /\ c \notin marked[r]
    /\ marked' = [marked EXCEPT ![r] = @ \cup {c}]
    /\ Call(r, "cmd", c)
    /\ UNCHANGED <<subscribed, answers, events, ran, now, answer, feedVars>>

\* The same command over another socket is acked at once.
Duplicate(r, c) ==
    /\ c \in marked[r]
    /\ Ack(r, c, "duplicate")
    /\ UNCHANGED <<bridgeVars, now, seq, marked, issued, pending, feedVars>>

\* An event of the host takes an id, too, though nobody waits for an answer.
ForwardEvent(r) ==
    /\ Call(r, "event", "unnamed")
    /\ UNCHANGED <<subscribed, answers, events, ran, now, marked, answer, feedVars>>

\* The timer fires, or the CommBus call is rejected.
GiveUp(q) ==
    /\ q \in pending
    /\ pending' = pending \ {q}
    /\ Ack(q.from, q.cmd, "gave_up")
    /\ UNCHANGED <<bridgeVars, now, seq, marked, issued, feedVars>>

\* Mutation: what answers no request is taken to answer one of them.
AnyPending(r, id) == {q \in pending : q.from = r}

Pending(r, id) == {q \in pending : q.from = r /\ q.id = id}

\* A response settles the request of that id, whoever made it; other ids are ignored.
OnResponse(r, m) ==
    /\ m \in answers
    /\ \E q \in Pending(r, m.id) : pending' = pending \ {q} /\ Ack(r, q.cmd, m.result)
    /\ UNCHANGED <<bridgeVars, now, seq, marked, issued, feedVars>>

----------------------------------------------------------------------------
(* Events of the module, on their way to the subscriber.                   *)

\* The relay forwards it and the Hub dispatches it, as often as relays heard it.
OnEvent(r) ==
    /\ events[r] > 0
    /\ events' = [events EXCEPT ![r] = @ - 1]
    /\ sent < MaxEvents
    /\ sent' = sent + 1
    /\ UNCHANGED <<subscribed, calls, answers, ran, relayVars, place, heard, listening>>

Hear ==
    /\ listening /\ place < sent /\ sent - place <= Capacity
    /\ place' = place + 1 /\ heard' = heard + 1
    /\ UNCHANGED <<bridgeVars, relayVars, sent, listening>>

\* Mutation: the loop skips errors.
LaggedSkips ==
    /\ listening /\ sent - place > Capacity
    /\ place' = sent - Capacity
    /\ UNCHANGED <<bridgeVars, relayVars, sent, heard, listening>>

\* The channel dropped what the subscriber had not taken: recv fails with Lagged,
\* and `while let Ok(..)` ends.
Lagged ==
    /\ listening /\ sent - place > Capacity
    /\ place' = sent - Capacity
    /\ listening' = FALSE
    /\ UNCHANGED <<bridgeVars, relayVars, sent, heard>>

----------------------------------------------------------------------------
Module ==
    /\ New \/ Drop \/ Emit \/ \E e \in calls : Dispatch(e)
    /\ UNCHANGED <<relayVars, feedVars>>

Steps(r) ==
    \/ ForwardEvent(r) \/ OnEvent(r)
    \/ \E c \in Cmds : Forward(r, c) \/ Duplicate(r, c)
    \/ \E m \in answers : OnResponse(r, m)

PipelineNext ==
    \/ Module \/ Millisecond \/ Hear \/ Lagged
    \/ \E r \in Relays : Steps(r)
    \/ \E q \in pending : GiveUp(q)

PipelineSpec == PipelineInit /\ [][PipelineNext]_pipelineVars

----------------------------------------------------------------------------
(* Properties                                                              *)

\* What is executed was sent by a relay that had not sent it before: a command reaches
\* the handlers once per relay at most, over however many sockets the relay got it
\* (relay.ts:377, README.md:241).
RunsOncePerRelay ==
    \A x, y \in ran : x.from = y.from /\ x.cmd = y.cmd => x = y

\* No two relays have made a request with the same id.
IdsApart == \A p, q \in issued : p.id = q.id => p.from = q.from

\* As long as the ids of different relays differ, the ack that becomes the result of a
\* command says what became of the request of the relay it comes from: handlers ran
\* it and it ended so - or the relay gave up, or saw the command twice, whose ack says
\* ok of a command that may never run (relay.ts:211, 377).
AnswersAreOwn ==
    IdsApart =>
      \A c \in Cmds : answer[c].v \in {"ok", "err"} =>
         \E x \in ran : x.from = answer[c].from /\ x.cmd = c /\ x.result = answer[c].v

\* A subscriber that listens has handled every event up to its place, and one that does
\* not ended at a loss, having been more than the capacity behind: it never goes on past
\* a gap, and who keeps up is never cut off (main.rs:78, server.rs:140).
HeardWithoutGap ==
    IF listening THEN heard = place ELSE heard < place /\ sent - heard > Capacity

\* The commands of a relay, as the promise of Exchange has them.
Phase(r, c) ==
    IF \E q \in pending : q.from = r /\ q.cmd = c THEN "pending"
    ELSE IF c \in marked[r] THEN "settled" ELSE "new"

Phases(r) == [c \in Cmds |-> Phase(r, c)]

Promise(r) == INSTANCE Exchange WITH phase <- Phases(r)

\* Each relay keeps, of the commands it sees, the promise that Relay keeps with its
\* whole life around it: one request at most for a command, whoever answers it
\* (relay.ts:373-468).
ImplementsExchange ==
    /\ \A r \in Relays : Promise(r)!Init
    /\ [][\A r \in Relays : UNCHANGED Phases(r) \/ Promise(r)!Next]_<<pending, marked>>

----------------------------------------------------------------------------
(* What the source says and the model refutes                              *)

\* Wire.res:43, the envelope "is what the relay uses to correlate WASM responses with
\* host commands": what a relay acks of a command, apart from duplicates and its own
\* giving up, is what became of that command.  Refuted: relays that count alike make
\* equal ids in the same millisecond, and each takes the other's response for its own.
AnswersItsCommand ==
    \A c \in Cmds : answer[c].v \in {"ok", "err"} =>
       \E x \in ran : x.cmd = c /\ x.result = answer[c].v
============================================================================
