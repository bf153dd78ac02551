-------------------------------- MODULE Rpc --------------------------------
(***************************************************************************)
(* What BridgeServer::command promises its callers, whatever the number of *)
(* gauges, their connections and the interleaving of the tasks inside:     *)
(*                                                                         *)
(*   - a call is refused only before anything of it was sent;              *)
(*   - the first answer that reaches an accepted call is its result, and   *)
(*     a call that was answered never reports a timeout;                   *)
(*   - every call settles, unless its caller drops it first, and then      *)
(*     nothing changes its outcome any more.                               *)
(***************************************************************************)

CONSTANT Cmds    \* the calls made, one identifier (UUID) each

VARIABLES
    outcome,     \* what the caller of each command knows of it
    answer       \* the first answer that reached the call, "none" before

vars == <<outcome, answer>>

Answers  == {"ok", "err"}
Refusals == {"no_clients", "transport"}
Live     == {"calling", "open"}

\* The ErrorKind or value an answer turns into.
Outcome(a) == IF a = "ok" THEN "ok" ELSE "application"

TypeOK ==
    /\ outcome \in [Cmds -> {"idle", "ok", "application", "timeout", "cancelled"}
                              \cup Live \cup Refusals]
    /\ answer \in [Cmds -> Answers \cup {"none"}]

Init ==
    /\ outcome = [c \in Cmds |-> "idle"]
    /\ answer = [c \in Cmds |-> "none"]

Call(c) ==
    /\ outcome[c] = "idle"
    /\ outcome' = [outcome EXCEPT ![c] = "calling"]
    /\ UNCHANGED answer

Refuse(c) ==
    /\ outcome[c] = "calling"
    /\ \E r \in Refusals : outcome' = [outcome EXCEPT ![c] = r]
    /\ UNCHANGED answer

Accept(c) ==
    /\ outcome[c] = "calling"
    /\ outcome' = [outcome EXCEPT ![c] = "open"]
    /\ UNCHANGED answer

Answer(c) ==
    /\ outcome[c] = "open"
    /\ answer[c] = "none"
    /\ \E a \in Answers : answer' = [answer EXCEPT ![c] = a]
    /\ UNCHANGED outcome

Return(c) ==
    /\ outcome[c] = "open"
    /\ answer[c] # "none"
    /\ outcome' = [outcome EXCEPT ![c] = Outcome(answer[c])]
    /\ UNCHANGED answer

TimeOut(c) ==
    /\ outcome[c] = "open"
    /\ answer[c] = "none"
    /\ outcome' = [outcome EXCEPT ![c] = "timeout"]
    /\ UNCHANGED answer

Abandon(c) ==
    /\ outcome[c] \in Live
    /\ outcome' = [outcome EXCEPT ![c] = "cancelled"]
    /\ UNCHANGED answer

Settle(c) == Refuse(c) \/ Accept(c) \/ Return(c) \/ TimeOut(c)

Next == \E c \in Cmds : Call(c) \/ Settle(c) \/ Answer(c) \/ Abandon(c)

Spec == Init /\ [][Next]_vars

FairSpec == Spec /\ \A c \in Cmds : WF_vars(Settle(c))
============================================================================
