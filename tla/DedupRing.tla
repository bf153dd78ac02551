----------------------------- MODULE DedupRing -----------------------------
(***************************************************************************)
(* The relay's ring of command ids (ts/infinity-bridge-relay/src/dedup.ts, *)
(* rescript/infinity-bridge-relay/src/Dedup.res) under the only use the    *)
(* relays make of it: a command whose id the ring has is acked at once, a  *)
(* new one is marked and executed (forwarded to the WASM module).          *)
(*                                                                         *)
(* A duplicate does not refresh its id: the ring evicts in order of first  *)
(* arrival.  `executed` is a history; the ring never reads it.             *)
(***************************************************************************)
EXTENDS Naturals, Sequences, FiniteSets

CONSTANTS
    Ids,            \* command ids
    Capacity,       \* ids the ring keeps (128 by default)
    MaxExecuted     \* bound on the commands executed in a behaviour

ASSUME CapacityAssumption == Capacity \in Nat

VARIABLES
    set,            \* what `has` answers from
    order,          \* the same ids, oldest mark first
    executed        \* commands executed since the ring was last cleared

vars == <<set, order, executed>>

Elements(s) == {s[i] : i \in DOMAIN s}

\* The two containers hold the same ids, none twice, never more than fit.
TypeOK ==
    /\ set \subseteq Ids
    /\ order \in Seq(Ids)
    /\ executed \in Seq(Ids)
    /\ Len(order) <= Capacity
    /\ set = Elements(order)
    /\ \A i, j \in DOMAIN order : order[i] = order[j] => i = j

Init == set = {} /\ order = <<>> /\ executed = <<>>

\* What the loop at the end of mark shifts out of a full ring.
Excess(s) == IF Len(s) > Capacity THEN Len(s) - Capacity ELSE 0

\* Mutation: one id too many is evicted.
MarkEvictsEarly(id) ==
    LET longer == Append(order, id)
        excess == IF Len(longer) >= Capacity THEN Len(longer) - Capacity + 1 ELSE 0
    IN  /\ order' = SubSeq(longer, excess + 1, Len(longer))
        /\ set' = (set \cup {id}) \ {longer[i] : i \in 1 .. excess}

\* Mutation: ids leave the queue but not the set.
MarkForgetsToDelete(id) ==
    LET longer == Append(order, id) IN
        /\ order' = SubSeq(longer, Excess(longer) + 1, Len(longer))
        /\ set' = set \cup {id}

Mark(id) ==
    LET longer == Append(order, id) IN
        /\ order' = SubSeq(longer, Excess(longer) + 1, Len(longer))
        /\ set' = (set \cup {id}) \ {longer[i] : i \in 1 .. Excess(longer)}

Duplicate(id) == id \in set /\ UNCHANGED vars

Execute(id) ==
    /\ id \notin set
    /\ Len(executed) < MaxExecuted
    /\ Mark(id)
    /\ executed' = Append(executed, id)

Clear ==
    /\ set' = {} /\ order' = <<>> /\ executed' = <<>>

Next == Clear \/ \E id \in Ids : Duplicate(id) \/ Execute(id)

Spec == Init /\ [][Next]_vars

----------------------------------------------------------------------------
\* A command sent again is not executed again before Capacity other commands were:
\* the promise the relay's callers rely on when they retry (relay.ts:377-389).
ExecutedApart ==
    \A i, j \in DOMAIN executed : i < j /\ executed[i] = executed[j] => j - i > Capacity

\* Of commands that fit in it, the ring knows every one that was executed since it was
\* last cleared: eviction starts with the first command too many, not before.  So long
\* the ring is the plain set that relays of this size may be thought to have
\* (relay.ts:377, dedup.ts:22-29).
RemembersFew ==
    Cardinality(Elements(executed)) <= Capacity => set = Elements(executed)
============================================================================
