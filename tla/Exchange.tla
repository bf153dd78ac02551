------------------------------ MODULE Exchange ------------------------------
(***************************************************************************)
(* What a relay promises the host of each command that reaches it, however *)
(* many sockets it comes over and whatever becomes of the request:         *)
(*                                                                         *)
(*   - the module is asked for it once, or never;                          *)
(*   - a command that was refused was not asked for, and will not be;      *)
(*   - a request that was settled stays settled, and does not come back.   *)
(*                                                                         *)
(* Relay implements this with all of a relay's life around it, and each    *)
(* relay of Pipeline with the module behind it.                            *)
(***************************************************************************)

CONSTANT Cmds    \* the host's commands

VARIABLE phase   \* how far each command has come: "new", "pending", "settled" or "refused"

Init == phase = [c \in Cmds |-> "new"]

Take(c) ==
    /\ phase[c] = "new"
    /\ phase' = [phase EXCEPT ![c] = "pending"]

Refuse(c) ==
    /\ phase[c] = "new"
    /\ phase' = [phase EXCEPT ![c] = "refused"]

Settle(c) ==
    /\ phase[c] = "pending"
    /\ phase' = [phase EXCEPT ![c] = "settled"]

\* The relay goes, and settles whatever is pending.
Retire == phase' = [c \in Cmds |-> IF phase[c] = "pending" THEN "settled" ELSE phase[c]]

Next == Retire \/ \E c \in Cmds : Take(c) \/ Refuse(c) \/ Settle(c)

Spec == Init /\ [][Next]_phase
============================================================================
