------------------------------- MODULE Bridge -------------------------------
(***************************************************************************)
(* The WASM module's end of the bridge (crates/infinity-bridge-wasm/src/   *)
(* bridge.rs): Bridge subscribes to the call event and answers envelopes,  *)
(* Router chooses the handler.  Everything runs inside the simulator's     *)
(* callback, so one envelope is one action.                                *)
(*                                                                         *)
(* The CommBus is external.  A call reaches the module at some time while  *)
(* it is subscribed, in no particular order, or never.  What the module    *)
(* publishes on the response event each relay hears at once, late or       *)
(* never; nothing leaves `answers`, since a relay that has taken a response*)
(* ignores it from then on.                                                *)
(***************************************************************************)
EXTENDS Naturals

CONSTANTS
    Relays,      \* the relays that listen to the response event
    Routes,      \* command names that Router::command gave a handler
    Fallback,    \* whether Router::fallback was called
    MaxUnderWay  \* bound: events under way to one relay

ASSUME FallbackAssumption == Fallback \in BOOLEAN

VARIABLES
    subscribed,  \* whether a Bridge exists
    calls,       \* envelopes on the call event, with a command or an event
    answers,     \* responses that were published
    events,      \* events under way to each relay
    ran          \* the commands that were executed, and how each ended

bridgeVars == <<subscribed, calls, answers, events, ran>>

\* Bridge::new, when the subscription succeeds; without one there is no Bridge.
New ==
    /\ ~ subscribed
    /\ subscribed' = TRUE
    /\ UNCHANGED <<calls, answers, events, ran>>

\* The module is unloaded, and the subscription dropped with it.
Drop ==
    /\ subscribed
    /\ subscribed' = FALSE
    /\ UNCHANGED <<calls, answers, events, ran>>

\* How Router::on_command may end: handlers and fallback are the author's.
Results(name) == IF name \in Routes \/ Fallback THEN {"ok", "err"} ELSE {"err"}

Execute(e, result) ==
    /\ ran' = ran \cup {[from |-> e.from, id |-> e.id, cmd |-> e.cmd, result |-> result]}
    /\ answers' = answers \cup {[id |-> e.id, result |-> result]}

\* dispatch.  An event gets no answer.  A payload that is no wire message is handled
\* like a command without a name, and no relay sends one.
Dispatch(e) ==
    /\ subscribed /\ e \in calls
    /\ calls' = calls \ {e}
    /\ IF e.t = "cmd" THEN \E result \in Results(e.cmd) : Execute(e, result)
                      ELSE UNCHANGED <<answers, ran>>
    /\ UNCHANGED <<subscribed, events>>

\* Bridge::emit: no request, and every relay may forward it.
Emit ==
    /\ subscribed
    /\ \A r \in Relays : events[r] < MaxUnderWay
    /\ events' = [r \in Relays |-> events[r] + 1]
    /\ UNCHANGED <<subscribed, calls, answers, ran>>
============================================================================
