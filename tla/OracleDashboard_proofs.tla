----------------------- MODULE OracleDashboard_proofs -----------------------
(***************************************************************************)
(* What five reads that are not synchronized can be told apart, for any    *)
(* contract history between them.                                          *)
(***************************************************************************)
EXTENDS OracleDashboard, SignedEthUsdOracle_proofs

Timestamps == {"sourceTimestamp", "recordedAt"}

(* Updates only move the feed forward.                                     *)
LEMMA FeedGrows ==
  ASSUME TypeOK, RecordedInThePast, [Next]_vars
  PROVE  \/ feed' = feed
         \/ /\ feed'["sourceTimestamp"] > feed["sourceTimestamp"]
            /\ feed'["recordedAt"] >= feed["recordedAt"]
<1>1. feed' = feed \/ Feed!Next
  BY NextIsDataStep, FeedStep
<1>2. Feed!Next => /\ feed'.sourceTimestamp > feed.sourceTimestamp
                   /\ feed'.recordedAt >= feed.recordedAt
  BY DEF Feed!Next, Feed!Publish
<1> QED  BY <1>1, <1>2

(* The strengthening of NeverBehind: a slot that has been read holds what  *)
(* the feed held at some moment of the request.                            *)
ReadDuringRequest ==
  /\ before = [s \in Slot |-> before[s]]
  /\ answers = [s \in Slot |-> answers[s]]
  /\ response = None =>
       /\ \A s \in Timestamps : before[s] \in Nat /\ before[s] <= feed[s]
       /\ \A s \in Timestamps \ unread :
            answers[s] \in Nat /\ before[s] <= answers[s] /\ answers[s] <= feed[s]
       /\ before = OfSlots(feed) => \A s \in Slot \ unread : answers[s] = feed[s]

LEMMA TimestampTypes ==
  ASSUME TypeOK
  PROVE  \A s \in Timestamps : feed[s] \in Nat
BY DEF TypeOK, Slots, Timestamps

LEMMA ContractMoves ==
  ASSUME TypeOK, TypeOK', RecordedInThePast, ReadDuringRequest, [Next]_vars,
         UNCHANGED <<unread, answers, before, response>>
  PROVE  ReadDuringRequest'
<1>1. CASE feed' = feed
  BY <1>1 DEF ReadDuringRequest, OfSlots
<1>2. CASE feed' # feed
  <2>1. /\ \A s \in Timestamps : feed[s] \in Nat /\ feed'[s] \in Nat /\ feed[s] <= feed'[s]
        /\ feed["sourceTimestamp"] < feed'["sourceTimestamp"]
    <3>1. \A s \in Timestamps : feed[s] \in Nat
      BY TimestampTypes
    <3>2. feed'["sourceTimestamp"] \in Nat /\ feed'["recordedAt"] \in Nat
      BY DEF TypeOK, Slots
    <3>3. /\ feed'["sourceTimestamp"] > feed["sourceTimestamp"]
          /\ feed'["recordedAt"] >= feed["recordedAt"]
      BY <1>2, FeedGrows
    <3> QED  BY <3>1, <3>2, <3>3 DEF Timestamps
  <2>2. ASSUME response = None, before = OfSlots(feed') PROVE FALSE
    <3>1. before["sourceTimestamp"] = feed'["sourceTimestamp"]
      BY <2>2 DEF OfSlots, Slot
    <3>2. before["sourceTimestamp"] <= feed["sourceTimestamp"]
          /\ before["sourceTimestamp"] \in Nat
      BY <2>2 DEF ReadDuringRequest, Timestamps
    <3> QED  BY <2>1, <3>1, <3>2 DEF Timestamps
  <2>3. ASSUME response = None, NEW s \in Timestamps
        PROVE  /\ before[s] \in Nat /\ before[s] <= feed'[s]
               /\ s \notin unread => /\ answers[s] \in Nat /\ before[s] <= answers[s]
                                     /\ answers[s] <= feed'[s]
    BY <2>1, <2>3 DEF ReadDuringRequest
  <2> QED  BY <2>2, <2>3 DEF ReadDuringRequest, OfSlots
<1> QED  BY <1>1, <1>2

LEMMA EthCallOK ==
  ASSUME TypeOK, ReadDuringRequest, NEW slot \in Slot, EthCall(slot)
  PROVE  ReadDuringRequest'
<1>1. /\ unread' = unread \ {slot}
      /\ \A s \in Slot : answers'[s] = IF s = slot THEN feed[slot] ELSE answers[s]
      /\ answers' = [s \in Slot |-> answers'[s]]
      /\ UNCHANGED <<feed, before, response>>
  BY DEF EthCall, ReadDuringRequest, vars, contractVars
<1>2. Timestamps \subseteq Slot
  BY DEF Timestamps, Slot
<1>3. ASSUME response = None
      PROVE  /\ \A s \in Timestamps : before[s] \in Nat /\ before[s] <= feed[s]
             /\ \A s \in Timestamps \ unread' :
                  answers'[s] \in Nat /\ before[s] <= answers'[s] /\ answers'[s] <= feed[s]
             /\ before = OfSlots(feed) => \A s \in Slot \ unread' : answers'[s] = feed[s]
  <2>1. \A s \in Timestamps : before[s] \in Nat /\ before[s] <= feed[s] /\ feed[s] \in Nat
    BY <1>3, TimestampTypes DEF ReadDuringRequest
  <2> QED  BY <1>1, <1>2, <1>3, <2>1 DEF ReadDuringRequest
<1> QED  BY <1>1, <1>3 DEF ReadDuringRequest, OfSlots

LEMMA ReadsPreserved ==
  ASSUME TypeOK, TypeOK', RecordedInThePast, ReadDuringRequest, [DNext]_dashboardVars
  PROVE  ReadDuringRequest'
<1>1. CASE Next /\ UNCHANGED <<unread, answers, before, response>>
  BY <1>1, ContractMoves
<1>2. CASE Request
  <2>1. /\ unread' = Slot /\ before' = OfSlots(feed) /\ response' = None
        /\ UNCHANGED <<feed, answers>>
    BY <1>2 DEF Request, vars, contractVars
  <2>2. \A s \in Timestamps : before'[s] = feed[s] /\ feed[s] \in Nat /\ s \in Slot
    BY <2>1, TimestampTypes DEF OfSlots, Timestamps, Slot
  <2> QED  BY <2>1, <2>2 DEF ReadDuringRequest, OfSlots
<1>3. CASE \E slot \in Slot : EthCall(slot)
  BY <1>3, EthCallOK
<1>4. CASE BadGateway
  <2>1. response' # None
    BY <1>4, DashboardConstants DEF BadGateway
  <2> QED  BY <1>4, <2>1 DEF BadGateway, ReadDuringRequest
<1>5. CASE Answer
  <2>1. response' = answers /\ UNCHANGED <<feed, unread, answers, before>>
    BY <1>5 DEF Answer, vars, contractVars
  <2> QED  BY <1>5, <2>1 DEF Answer, ReadDuringRequest, OfSlots
<1>6. CASE UNCHANGED dashboardVars
  BY <1>6 DEF dashboardVars, vars, contractVars, ReadDuringRequest, OfSlots
<1> QED  BY <1>1, <1>2, <1>3, <1>4, <1>5, <1>6 DEF DNext

(* The dashboard only reads: to the contract every step is one of its own, *)
(* or none.                                                                *)
LEMMA DashboardOnlyReads == DSpec => Spec
<1>1. DInit => Init
  BY DEF DInit
<1>2. [DNext]_dashboardVars => [Next]_vars
  BY DEF DNext, Request, EthCall, BadGateway, Answer, dashboardVars, vars, contractVars
<1> QED  BY <1>1, <1>2, PTL DEF DSpec, Spec

LEMMA AnswerIsConsistent ==
  ASSUME TypeOK, ReadDuringRequest, Answer
  PROVE  /\ \A slot \in {"sourceTimestamp", "recordedAt"} :
              before[slot] <= response'[slot] /\ response'[slot] <= feed[slot]
         /\ before = OfSlots(feed) => response' = before
<1>1. response = None /\ unread = {} /\ response' = answers
  BY DEF Answer
<1>2. \A s \in Timestamps : before[s] <= answers[s] /\ answers[s] <= feed[s]
  BY <1>1 DEF ReadDuringRequest
<1>3. ASSUME before = OfSlots(feed) PROVE answers = before
  <2>1. \A s \in Slot : answers[s] = feed[s]
    BY <1>1, <1>3 DEF ReadDuringRequest
  <2>2. answers = [s \in Slot |-> answers[s]]
    BY DEF ReadDuringRequest
  <2> QED  BY <1>3, <2>1, <2>2 DEF OfSlots
<1> QED  BY <1>1, <1>2, <1>3 DEF Timestamps

(* A status response never goes back in time, and is a single update when  *)
(* none has landed meanwhile (fetch_contract_status).                      *)
THEOREM ResponsesAreConsistent == DSpec => NeverBehind
<1>1. DSpec => []TypeOK
  BY DashboardOnlyReads, TypeCorrect, PTL
<1>2. DInit => ReadDuringRequest /\ RecordedInThePast
  <2> SUFFICES ASSUME DInit PROVE ReadDuringRequest /\ RecordedInThePast
    OBVIOUS
  <2>1. Init
    BY DEF DInit
  <2>2. RecordedInThePast
    BY <2>1 DEF Init, NoFeed, RecordedInThePast
  <2>3. ReadDuringRequest
    <3>1. response # None
      BY DashboardConstants DEF DInit
    <3>2. before = OfSlots(NoFeed) /\ answers = OfSlots(NoFeed)
      BY DEF DInit
    <3> QED  BY <3>1, <3>2 DEF OfSlots, ReadDuringRequest
  <2> QED  BY <2>2, <2>3
<1>3. TypeOK /\ TypeOK' /\ RecordedInThePast /\ ReadDuringRequest /\ [DNext]_dashboardVars
        => RecordedInThePast' /\ ReadDuringRequest'
  <2>1. [DNext]_dashboardVars => [Next]_vars
    BY DEF DNext, Request, EthCall, BadGateway, Answer, dashboardVars, vars, contractVars
  <2> QED  BY <2>1, ReadsPreserved, NextIsDataStep, FeedStep
<1>4. TypeOK /\ ReadDuringRequest =>
        [Answer =>
           /\ \A slot \in {"sourceTimestamp", "recordedAt"} :
                before[slot] <= response'[slot] /\ response'[slot] <= feed[slot]
           /\ before = OfSlots(feed) => response' = before]_dashboardVars
  BY AnswerIsConsistent
<1> QED  BY <1>1, <1>2, <1>3, <1>4, PTL DEF DSpec, NeverBehind
=============================================================================
