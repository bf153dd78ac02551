--------------------------- MODULE PipelineProofs ---------------------------
(***************************************************************************)
(* Theorems about Pipeline, for any number of relays, requests and events, *)
(* every capacity of the event channel, and as many commands as the relays'*)
(* rings keep: Pipeline has a set in a ring's place, which                 *)
(* DedupProofs!PlainSetOfFew justifies while no id is evicted.             *)
(*                                                                         *)
(* What an answer tells is traced back: to what was run (Traced), from     *)
(* there to the request that asked for it (Asked), which is the only one   *)
(* of its relay under that id and for that command (OneRequest).           *)
(***************************************************************************)
EXTENDS Pipeline, TLAPS

\* What requests are, and how far the two clocks they take their ids from have come.
Requests ==
    /\ now \in Nat /\ seq \in [Relays -> Nat] /\ DOMAIN marked = Relays /\ DOMAIN answer = Cmds
    /\ \A q \in issued : q.t = "cmd" /\ q.from \in Relays /\ q.cmd \in Cmds

OneRequest ==
    \A p, q \in issued : p.from = q.from /\ (p.id = q.id \/ p.cmd = q.cmd) => p = q

\* What ran was asked for, and will not run again.
Asked ==
    \A x \in ran : \E q \in issued \ calls : q.from = x.from /\ q.id = x.id /\ q.cmd = x.cmd

Traced == \A m \in answers : \E x \in ran : x.id = m.id /\ x.result = m.result

Feed ==
    /\ sent \in Nat /\ place \in Nat /\ heard \in Nat
    /\ heard <= place /\ place <= sent /\ HeardWithoutGap

PipelineInv ==
    /\ PipelineTypeOK /\ Requests /\ OneRequest /\ Asked /\ Traced
    /\ RunsOncePerRelay /\ AnswersAreOwn /\ Feed

\* What the proofs about requests and answers are about; the feed is apart.
Core == <<calls, answers, ran, now, seq, marked, issued, pending, answer>>
CoreInv ==
    /\ {e \in calls : e.t = "cmd"} \subseteq issued /\ pending \subseteq issued
    /\ \A q \in issued :
          q.cmd \in marked[q.from] /\ q.id[1] \in 0 .. now /\ q.id[2] \in 1 .. seq[q.from]
    /\ Requests /\ OneRequest /\ Asked /\ Traced /\ RunsOncePerRelay /\ AnswersAreOwn

LEMMA InvParts == PipelineInv <=> CoreInv /\ Feed
  BY DEF PipelineInv, CoreInv, PipelineTypeOK, Feed

----------------------------------------------------------------------------
LEMMA InitialInv == PipelineInit => PipelineInv
  BY DEF PipelineInit, PipelineInv, PipelineTypeOK, Requests, OneRequest, Asked, Traced,
         RunsOncePerRelay, AnswersAreOwn, Feed, HeardWithoutGap, NoAnswer

LEMMA FeedStep == ASSUME Feed, [PipelineNext]_pipelineVars PROVE Feed'
<1> USE CapacityAssumption DEF Feed, HeardWithoutGap
<1>1. CASE Hear \/ Lagged
  BY <1>1 DEF Hear, Lagged
<1>2. CASE \E r \in Relays : OnEvent(r)
  BY <1>2 DEF OnEvent
<1>3. CASE UNCHANGED feedVars
  BY <1>3 DEF feedVars
<1>4. Hear \/ Lagged \/ (\E r \in Relays : OnEvent(r)) \/ UNCHANGED feedVars
  BY DEF PipelineNext, Module, Millisecond, Steps, ForwardEvent, Forward, Duplicate, OnResponse,
         GiveUp, pipelineVars
<1> QED
  BY <1>1, <1>2, <1>3, <1>4

\* A request gets an id that its relay has not used, and so is no request there was.
LEMMA CallStep ==
    ASSUME CoreInv, NEW r \in Relays, NEW c \in Cmds, Forward(r, c)
    PROVE  CoreInv'
<1> DEFINE q == [t |-> "cmd", from |-> r, id |-> <<now, seq[r] + 1>>, cmd |-> c]
<1>1. /\ issued' = issued \cup {q} /\ pending' = pending \cup {q} /\ calls' = calls \cup {q}
      /\ seq' = [seq EXCEPT ![r] = seq[r] + 1] /\ now' = now
      /\ marked' = [marked EXCEPT ![r] = marked[r] \cup {c}] /\ c \notin marked[r]
      /\ UNCHANGED <<answers, ran, answer>>
  BY DEF Forward, Call
<1>2. Requests /\ Requests'
  BY <1>1 DEF CoreInv, Requests
<1>3. \A p \in issued : p.from = r => p.cmd # c /\ p.id # q.id
  <2> SUFFICES ASSUME NEW p \in issued, p.from = r PROVE p.cmd # c /\ p.id # q.id
    OBVIOUS
  <2>1. p.cmd \in marked[r] /\ p.id[2] <= seq[r] /\ seq[r] \in Nat /\ p.id[2] \in Nat
    BY <1>2 DEF CoreInv, Requests
  <2>2. q.id[2] = seq[r] + 1
    OBVIOUS
  <2> QED
    BY <1>1, <2>1, <2>2
<1>4. OneRequest'
  BY <1>1, <1>3 DEF CoreInv, OneRequest
<1>5. q \notin issued
  BY <1>3
<1>6. Asked'
  BY <1>1, <1>5 DEF CoreInv, Asked
<1>7. Traced' /\ RunsOncePerRelay'
  BY <1>1 DEF CoreInv, Traced, RunsOncePerRelay
<1>8. AnswersAreOwn'
  BY <1>1 DEF CoreInv, AnswersAreOwn, IdsApart
<1>9. {e \in calls' : e.t = "cmd"} \subseteq issued' /\ pending' \subseteq issued'
  BY <1>1 DEF CoreInv
<1>10. \A p \in issued' : p.cmd \in marked'[p.from] /\ p.id[1] \in 0 .. now'
                            /\ p.id[2] \in 1 .. seq'[p.from]
  <2>1. q.cmd \in marked'[q.from] /\ q.id[1] \in 0 .. now' /\ q.id[2] \in 1 .. seq'[q.from]
    BY <1>1, <1>2 DEF Requests
  <2>2. \A p \in issued : p.cmd \in marked'[p.from] /\ p.id[1] \in 0 .. now'
                            /\ p.id[2] \in 1 .. seq'[p.from]
    BY <1>1, <1>2 DEF CoreInv, Requests
  <2> QED
    BY <1>1, <2>1, <2>2
<1> QED
  BY <1>2, <1>4, <1>6, <1>7, <1>8, <1>9, <1>10 DEF CoreInv

LEMMA EventStep ==
    ASSUME CoreInv, NEW r \in Relays, ForwardEvent(r)
    PROVE  CoreInv'
<1>1. \E id : calls' = calls \cup {[t |-> "event", from |-> r, id |-> id, cmd |-> "unnamed"]}
  BY DEF ForwardEvent, Call
<1>2. /\ seq' = [seq EXCEPT ![r] = seq[r] + 1]
      /\ UNCHANGED <<answers, ran, now, marked, issued, pending, answer>>
  BY DEF ForwardEvent, Call
<1>3. \A q \in issued \ calls : q \notin calls'
  BY <1>1 DEF CoreInv, Requests
<1>4. Requests' /\ Asked'
  BY <1>2, <1>3 DEF CoreInv, Requests, Asked
<1>5. {e \in calls' : e.t = "cmd"} \subseteq issued' /\ pending' \subseteq issued'
  BY <1>1, <1>2 DEF CoreInv
<1>6. \A q \in issued' : q.cmd \in marked'[q.from] /\ q.id[1] \in 0 .. now'
                            /\ q.id[2] \in 1 .. seq'[q.from]
  BY <1>2 DEF CoreInv, Requests
<1>7. OneRequest' /\ Traced' /\ RunsOncePerRelay' /\ AnswersAreOwn'
  BY <1>2 DEF CoreInv, OneRequest, Traced, RunsOncePerRelay, AnswersAreOwn, IdsApart
<1> QED
  BY <1>4, <1>5, <1>6, <1>7 DEF CoreInv

\* Acks that tell nothing of a run leave the rest as it was.
LEMMA BareAckStep ==
    ASSUME CoreInv, NEW r, NEW c, NEW v, v \notin {"ok", "err"}, Ack(r, c, v),
           pending' \subseteq pending, UNCHANGED <<calls, answers, ran, now, seq, marked, issued>>
    PROVE  CoreInv'
<1>1. /\ DOMAIN answer' = Cmds
      /\ \A d \in Cmds : answer'[d].v \in {"ok", "err"} => answer'[d] = answer[d]
  BY DEF Ack, CoreInv, Requests
<1>2. AnswersAreOwn'
  BY <1>1 DEF CoreInv, AnswersAreOwn, IdsApart
<1>3. Requests' /\ OneRequest' /\ Asked' /\ Traced' /\ RunsOncePerRelay'
  BY <1>1 DEF CoreInv, Requests, OneRequest, Asked, Traced, RunsOncePerRelay
<1> QED
  BY <1>2, <1>3 DEF CoreInv

\* A response is of the relay's own request, if no other relay has one of that id.
LEMMA ResponseStep ==
    ASSUME CoreInv, NEW r \in Relays, NEW m \in answers, OnResponse(r, m)
    PROVE  CoreInv'
<1> PICK q \in Pending(r, m.id) : pending' = pending \ {q} /\ Ack(r, q.cmd, m.result)
  BY DEF OnResponse
<1>1. q \in issued /\ q.from = r /\ q.id = m.id
  BY DEF Pending, CoreInv
<1>2. UNCHANGED <<calls, answers, ran, now, seq, marked, issued>>
  BY DEF OnResponse, bridgeVars
<1>3. /\ DOMAIN answer' = Cmds
      /\ \A d \in Cmds : \/ answer'[d] = answer[d]
                         \/ d = q.cmd /\ answer'[d] = [from |-> r, v |-> m.result]
  BY DEF Ack, CoreInv, Requests
<1>4. ASSUME IdsApart
      PROVE  \E x \in ran : x.from = r /\ x.cmd = q.cmd /\ x.result = m.result
  <2> PICK x \in ran : x.id = m.id /\ x.result = m.result
    BY DEF CoreInv, Traced
  <2> PICK p \in issued : p.from = x.from /\ p.id = x.id /\ p.cmd = x.cmd
    BY DEF CoreInv, Asked
  <2>1. p = q
    BY <1>1, <1>4 DEF IdsApart, CoreInv, OneRequest
  <2> QED
    BY <1>1, <2>1
<1>5. AnswersAreOwn'
  <2> SUFFICES ASSUME IdsApart, NEW d \in Cmds, answer'[d].v \in {"ok", "err"}
               PROVE  \E x \in ran : /\ x.from = answer'[d].from /\ x.cmd = d
                                     /\ x.result = answer'[d].v
    BY <1>2 DEF AnswersAreOwn, IdsApart
  <2>1. CASE answer'[d] = answer[d]
    BY <2>1 DEF CoreInv, AnswersAreOwn
  <2>2. CASE d = q.cmd /\ answer'[d] = [from |-> r, v |-> m.result]
    BY <1>4, <2>2
  <2> QED
    BY <1>3, <2>1, <2>2
<1>6. Requests' /\ OneRequest' /\ Asked' /\ Traced' /\ RunsOncePerRelay'
  BY <1>2, <1>3 DEF CoreInv, Requests, OneRequest, Asked, Traced, RunsOncePerRelay
<1> QED
  BY <1>2, <1>5, <1>6 DEF CoreInv

\* What runs is on the call event, where nothing is that has run before.
LEMMA DispatchStep ==
    ASSUME CoreInv, NEW e \in calls, Dispatch(e), UNCHANGED relayVars
    PROVE  CoreInv'
<1>1. calls' = calls \ {e} /\ UNCHANGED <<now, seq, marked, issued, pending, answer>>
  BY DEF Dispatch, relayVars
<1>2. Requests' /\ OneRequest' /\ \A q \in issued \ calls : q \in issued' \ calls'
  BY <1>1 DEF CoreInv, Requests, OneRequest
<1>3. CASE UNCHANGED <<answers, ran>>
  <2>1. Asked' /\ Traced' /\ RunsOncePerRelay' /\ AnswersAreOwn'
    BY <1>1, <1>2, <1>3 DEF CoreInv, Asked, Traced, RunsOncePerRelay, AnswersAreOwn, IdsApart
  <2> QED
    BY <1>1, <1>2, <2>1 DEF CoreInv
<1>4. ASSUME NEW result, Execute(e, result), e.t = "cmd"
      PROVE  CoreInv'
  <2> DEFINE x == [from |-> e.from, id |-> e.id, cmd |-> e.cmd, result |-> result]
  <2>1. ran' = ran \cup {x} /\ answers' = answers \cup {[id |-> e.id, result |-> result]}
    BY <1>4 DEF Execute
  <2>2. e \in issued /\ e \notin calls'
    BY <1>1, <1>4 DEF CoreInv
  <2>3. Asked'
    BY <1>1, <1>2, <2>1, <2>2 DEF CoreInv, Asked
  <2>4. Traced'
    <3>1. x \in ran' /\ x.id = e.id /\ x.result = result /\ ran \subseteq ran'
      BY <2>1
    <3>2. \A m \in answers : \E y \in ran' : y.id = m.id /\ y.result = m.result
      BY <3>1 DEF CoreInv, Traced
    <3>3. \A m \in answers' : m \in answers \/ (m.id = e.id /\ m.result = result)
      BY <2>1
    <3> HIDE DEF x
    <3> QED
      BY <3>1, <3>2, <3>3 DEF Traced
  <2>5. \A y \in ran : ~ (y.from = e.from /\ y.cmd = e.cmd)
    BY <2>2 DEF CoreInv, Asked, OneRequest
  <2>6. RunsOncePerRelay'
    BY <2>1, <2>5 DEF CoreInv, RunsOncePerRelay
  <2>7. AnswersAreOwn'
    BY <1>1, <2>1 DEF CoreInv, AnswersAreOwn, IdsApart
  <2> QED
    BY <1>1, <1>2, <2>3, <2>4, <2>6, <2>7 DEF CoreInv
<1> QED
  BY <1>3, <1>4 DEF Dispatch

LEMMA CoreStep == ASSUME CoreInv, [PipelineNext]_pipelineVars PROVE CoreInv'
<1>1. CASE UNCHANGED Core
  BY <1>1 DEF Core, CoreInv, Requests, OneRequest, Asked, Traced, RunsOncePerRelay, AnswersAreOwn,
              IdsApart
<1>2. CASE Millisecond
  <2>1. now' = now + 1 /\ UNCHANGED <<calls, answers, ran, seq, marked, issued, pending, answer>>
    BY <1>2 DEF Millisecond, bridgeVars
  <2>2. Requests' /\ \A q \in issued : q.id[1] \in 0 .. now'
    BY <2>1 DEF CoreInv, Requests
  <2> QED
    BY <2>1, <2>2 DEF CoreInv, OneRequest, Asked, Traced, RunsOncePerRelay, AnswersAreOwn, IdsApart
<1>3. CASE \E e \in calls : Dispatch(e) /\ UNCHANGED relayVars
  BY <1>3, DispatchStep
<1>4. CASE \E r \in Relays : ForwardEvent(r) \/ \E c \in Cmds : Forward(r, c)
  BY <1>4, EventStep, CallStep
<1>5. ASSUME NEW r \in Relays, NEW c \in Cmds, Duplicate(r, c)
      PROVE  CoreInv'
  BY <1>5, BareAckStep DEF Duplicate, bridgeVars
<1>6. ASSUME NEW q \in pending, GiveUp(q)
      PROVE  CoreInv'
  BY <1>6, BareAckStep DEF GiveUp, bridgeVars
<1>7. CASE \E r \in Relays : \E m \in answers : OnResponse(r, m)
  BY <1>7, ResponseStep
<1>8. \A r \in Relays : OnEvent(r) => UNCHANGED Core
  BY DEF OnEvent, relayVars, Core
<1>9. Hear \/ Lagged \/ UNCHANGED pipelineVars => UNCHANGED Core
  BY DEF Hear, Lagged, pipelineVars, bridgeVars, relayVars, Core
<1>10. (New \/ Drop \/ Emit) /\ UNCHANGED <<relayVars, feedVars>> => UNCHANGED Core
  BY DEF New, Drop, Emit, relayVars, Core
<1> QED
  BY <1>1, <1>2, <1>3, <1>4, <1>5, <1>6, <1>7, <1>8, <1>9, <1>10 DEF PipelineNext, Module, Steps

LEMMA PipelineInvariant == PipelineSpec => []PipelineInv
<1>1. PipelineInv /\ [PipelineNext]_pipelineVars => PipelineInv'
  <2> SUFFICES ASSUME PipelineInv, [PipelineNext]_pipelineVars PROVE PipelineInv'
    OBVIOUS
  <2>1. CoreInv' /\ Feed'
    BY InvParts, CoreStep, FeedStep
  <2> QED
    BY <2>1 DEF PipelineInv, CoreInv, PipelineTypeOK, Feed
<1> QED
  BY <1>1, InitialInv, PTL DEF PipelineSpec

----------------------------------------------------------------------------
(* The promise of Exchange, of each relay.                                 *)

\* A request that goes settles its command, of which there is no other, for its relay.
LEMMA SettlesOne ==
    ASSUME PipelineInv, NEW q \in pending, pending' = pending \ {q}, marked' = marked,
           NEW r \in Relays
    PROVE  UNCHANGED Phases(r) \/ Promise(r)!Next
<1> USE DEF Phase, Phases
<1>1. /\ q \in issued /\ pending \subseteq issued /\ q.cmd \in Cmds /\ q.cmd \in marked[q.from]
      /\ \A p \in pending : p.from = q.from /\ p.cmd = q.cmd => p = q
  BY DEF PipelineInv, PipelineTypeOK, Requests, OneRequest
<1>2. CASE q.from = r
  <2>1. Phase(r, q.cmd) = "pending" /\ Phase(r, q.cmd)' = "settled"
    BY <1>1, <1>2
  <2>2. \A d \in Cmds \ {q.cmd} : Phase(r, d)' = Phase(r, d)
    OBVIOUS
  <2>3. Promise(r)!Settle(q.cmd)
    BY <1>1, <2>1, <2>2 DEF Promise!Settle
  <2> QED
    BY <1>1, <2>3 DEF Promise!Next
<1>3. CASE q.from # r
  BY <1>3
<1> QED
  BY <1>2, <1>3

\* A relay asks only for what it has not seen, and one relay's request is no other's.
LEMMA TakesOne ==
    ASSUME PipelineInv, NEW s \in Relays, NEW c \in Cmds, Forward(s, c), NEW r \in Relays
    PROVE  UNCHANGED Phases(r) \/ Promise(r)!Next
<1> USE DEF Phase, Phases
<1> DEFINE q == [t |-> "cmd", from |-> s, id |-> <<now, seq[s] + 1>>, cmd |-> c]
<1>1. /\ pending' = pending \cup {q} /\ c \notin marked[s]
      /\ marked' = [marked EXCEPT ![s] = marked[s] \cup {c}]
  BY DEF Forward, Call
<1>2. DOMAIN marked = Relays /\ \A p \in pending : p.cmd \in marked[p.from]
  BY DEF PipelineInv, PipelineTypeOK, Requests
<1>3. q.from = s /\ q.cmd = c
  OBVIOUS
<1> HIDE DEF q
<1>4. CASE s = r
  <2>1. Phase(r, c) = "new" /\ Phase(r, c)' = "pending"
    BY <1>1, <1>2, <1>3, <1>4
  <2>2. \A d \in Cmds \ {c} : Phase(r, d)' = Phase(r, d)
    BY <1>1, <1>2, <1>3, <1>4
  <2>3. Promise(r)!Take(c)
    BY <2>1, <2>2 DEF Promise!Take
  <2> QED
    BY <2>3 DEF Promise!Next
<1>5. CASE s # r
  <2>1. \A d \in Cmds : Phase(r, d)' = Phase(r, d)
    BY <1>1, <1>2, <1>3, <1>5
  <2> QED
    BY <2>1
<1> QED
  BY <1>4, <1>5

LEMMA ExchangeStep ==
    ASSUME PipelineInv, [PipelineNext]_pipelineVars, NEW r \in Relays
    PROVE  UNCHANGED Phases(r) \/ Promise(r)!Next
<1>1. CASE UNCHANGED <<pending, marked>>
  BY <1>1 DEF Phase, Phases
<1>2. ASSUME NEW s \in Relays, NEW c \in Cmds, Forward(s, c)
      PROVE  UNCHANGED Phases(r) \/ Promise(r)!Next
  BY <1>2, TakesOne
<1>3. ASSUME NEW s \in Relays, NEW m \in answers, OnResponse(s, m)
      PROVE  UNCHANGED Phases(r) \/ Promise(r)!Next
  BY <1>3, SettlesOne DEF OnResponse, Pending
<1>4. ASSUME NEW q \in pending, GiveUp(q)
      PROVE  UNCHANGED Phases(r) \/ Promise(r)!Next
  BY <1>4, SettlesOne DEF GiveUp
<1>5. \A s \in Relays : ForwardEvent(s) \/ OnEvent(s) \/ (\E c \in Cmds : Duplicate(s, c))
                          => UNCHANGED <<pending, marked>>
  BY DEF ForwardEvent, Call, OnEvent, Duplicate, relayVars
<1>6. Module \/ Millisecond \/ Hear \/ Lagged \/ UNCHANGED pipelineVars
        => UNCHANGED <<pending, marked>>
  BY DEF Module, Millisecond, Hear, Lagged, pipelineVars, relayVars
<1> QED
  BY <1>1, <1>2, <1>3, <1>4, <1>5, <1>6 DEF PipelineNext, Steps

----------------------------------------------------------------------------
(* The theorems.                                                           *)

\* Every request that is pending, or on the call event, was made by the relay it names,
\* under an id that this relay's counter had come to.
THEOREM PipelineTypeCorrect == PipelineSpec => []PipelineTypeOK
  BY PipelineInvariant, PTL DEF PipelineInv

\* No relay has a command executed twice, however often the host's sockets bring it.  The
\* relay's ring is a set here: true while it evicts none (DedupProofs!PlainSetOfFew),
\* which is so for as many commands as it keeps.
THEOREM RunsOnceCorrect == PipelineSpec => []RunsOncePerRelay
  BY PipelineInvariant, PTL DEF PipelineInv

\* A relay whose ids are its own reports of a command what its own request came to.
THEOREM AnswersCorrect == PipelineSpec => []AnswersAreOwn
  BY PipelineInvariant, PTL DEF PipelineInv

\* A subscriber that listens has missed nothing, and one that ended had fallen behind by
\* more than the channel holds, for every capacity of it.
THEOREM FeedCorrect == PipelineSpec => []HeardWithoutGap
  BY PipelineInvariant, PTL DEF PipelineInv, Feed

\* Every relay asks the module for a command at most once, and settles it at most once,
\* for any number of relays among which answers may go astray, while no ring evicts.
THEOREM ExchangesKept == PipelineSpec => ImplementsExchange
<1>1. PipelineInit => \A r \in Relays : Promise(r)!Init
  BY DEF PipelineInit, Phase, Phases, Promise!Init
<1>2. PipelineInv /\ [PipelineNext]_pipelineVars
        => [\A r \in Relays : UNCHANGED Phases(r) \/ Promise(r)!Next]_<<pending, marked>>
  BY ExchangeStep
<1> QED
  BY <1>1, <1>2, PipelineInvariant, PTL DEF PipelineSpec, ImplementsExchange

\* What Wire.res:43 says is true of a relay that is alone: for any number of requests, what the caller of a command is told is what became of that command.
\* pipeline_ids shows that a second relay is enough to refute it.
THEOREM LoneRelayAnswersRight ==
    ASSUME \A r, s \in Relays : r = s
    PROVE  PipelineSpec => []AnswersItsCommand
<1>1. PipelineInv => AnswersItsCommand
  <2> SUFFICES ASSUME PipelineInv PROVE AnswersItsCommand
    OBVIOUS
  <2>1. IdsApart
    BY DEF PipelineInv, Requests, IdsApart
  <2> QED
    BY <2>1 DEF PipelineInv, AnswersAreOwn, AnswersItsCommand
<1> QED
  BY <1>1, PipelineInvariant, PTL
============================================================================
