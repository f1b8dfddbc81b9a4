------------------------ MODULE PolicySidecar_proofs ------------------------
(***************************************************************************)
(* Why every vote of the sidecar follows its policy, and why its answers   *)
(* tell what became of the vote, for any requests, keys and activities.    *)
(***************************************************************************)
EXTENDS PolicySidecar, PolicyEvaluation, WebhookVerifier_proofs

VoteSet == [activity : ActivityId, vote : {"approve", "reject"}]
Request ==
  [from : Handler \cup {NoHandler}, activity : ActivityId, vote : {"approve", "reject"}]
Delivery ==
  [headersOk : BOOLEAN, organization : Organization, activityUpdates : BOOLEAN,
   keyId : Key \cup {NoKey}, timestamp : Nat, body : Body,
   signature : [key : Key \cup {NoKey}, timestamp : Nat, body : Body]]
Task ==
  [pc : {"idle", "verifying", "voting"}, delivery : Delivery \cup {Missing},
   vote : {"none", "approve", "reject"}, result : {"none", "taken", "refused"}]

(* What Turnkey signs: an activity as its initiator created it, but for    *)
(* whether it still awaits consensus.                                      *)
Update(a, awaiting, parses) ==
  [parses |-> parses, fingerprint |-> a,
   activity |-> [Content[a] EXCEPT !.consensusNeeded = awaiting]]
TurnkeySigned(signature) ==
  \E k \in Key, t \in Nat, a \in ActivityId, awaiting, parses \in BOOLEAN :
    signature = Signed(k, t, Update(a, awaiting, parses))

(* A signature is Turnkey's, of whatever bytes, or one of no key of its.   *)
SignedOrForged(signature) == TurnkeySigned(signature) \/ signature.key = NoKey

SideTypes ==
  /\ status \in [ActivityId -> {"awaiting", "completed"}]
  /\ sent \subseteq Delivery
  /\ task \in [Handler -> Task]
  /\ answer \in [Handler -> {0, 204, 400, 401, 503}]
  /\ requests \subseteq Request
  /\ votes \subseteq VoteSet

SentSigned == \A d \in sent : TurnkeySigned(d.signature)

LookupsFit == \A h \in Handler : task[h].pc = "verifying" <=> lookup[h].pc # "idle"

(* A delivery being verified carries a signature Turnkey made, if not of   *)
(* its own bytes, or a forged one; a handler that votes knows on what.     *)
TaskFits(h) ==
  LET fingerprint == task[h].delivery.body.fingerprint
      activity    == task[h].delivery.body.activity
  IN  /\ task[h].pc = "verifying" => /\ task[h].delivery \in Delivery
                                     /\ SignedOrForged(task[h].delivery.signature)
                                     /\ task[h].result = "none"
      /\ task[h].pc = "voting" =>
           /\ fingerprint \in ActivityId
           /\ task[h].vote = EvaluateActivity(activity)
           /\ task[h].vote \in {"approve", "reject"}
           /\ task[h].result = "taken" => Vote(fingerprint, task[h].vote) \in votes
TasksFit == \A h \in Handler : TaskFits(h)

(* A vote under way is the one its handler still waits for.                *)
RequestFits(request) ==
  request.from # NoHandler =>
    /\ task[request.from].pc = "voting"
    /\ task[request.from].result = "none"
    /\ request.activity = task[request.from].delivery.body.fingerprint
    /\ request.vote = task[request.from].vote
RequestsFit == \A request \in requests : RequestFits(request)

FollowsPolicy(a, vote) ==
  /\ Content[a].organization = OurOrganization
  /\ vote = PolicyVote(a)
VotesFit == /\ \A v \in votes : FollowsPolicy(v.activity, v.vote)
            /\ \A request \in requests : FollowsPolicy(request.activity, request.vote)

Deliveries == SideTypes /\ SentSigned
Voting == TasksFit /\ RequestsFit /\ VotesFit
SInv == VInv /\ Deliveries /\ LookupsFit /\ Voting

-----------------------------------------------------------------------------
(* The decision                                                            *)

LEMMA Products == \A a, b \in Nat : a * b \in Nat
  OBVIOUS

(* Checked arithmetic either is exact or refuses, and what it refuses is   *)
(* above any limit a u64 can hold.                                         *)
LEMMA CheckedIsExact ==
  ASSUME NEW tx \in Transaction
  PROVE  TotalOctas(tx) # Overflow /\ TotalOctas(tx) <= MAX_TOTAL_OCTAS
           <=> Cost(tx) <= MAX_TOTAL_OCTAS
  <1> DEFINE gas == tx.maxGasAmount * tx.gasUnitPrice
  <1>1. tx.amount \in Nat /\ tx.maxGasAmount \in Nat /\ tx.gasUnitPrice \in Nat
    BY PolicyConstants DEF Transaction, Octas
  <1>2. gas \in Nat
    BY <1>1, Products
  <1>3. Cost(tx) = tx.amount + gas
    BY DEF Cost
  <1>4. MaximumGasCost(tx) = IF gas < U64 THEN gas ELSE Overflow
    BY DEF MaximumGasCost, CheckedMul
  <1> HIDE DEF gas
  <1>5. CASE gas < U64
    <2>1. TotalOctas(tx) = IF tx.amount + gas < U64 THEN tx.amount + gas ELSE Overflow
      BY <1>2, <1>4, <1>5, PolicyConstants DEF TotalOctas, CheckedAdd
    <2> QED
      BY <1>1, <1>2, <1>3, <2>1, PolicyConstants
  <1>6. CASE ~(gas < U64)
    <2>1. TotalOctas(tx) = Overflow
      BY <1>4, <1>6 DEF TotalOctas
    <2> QED
      BY <1>1, <1>2, <1>3, <1>6, <2>1, PolicyConstants
  <1> QED
    BY <1>5, <1>6

(* At any width of the u64 the code approves exactly what the README lists *)
(* and votes exactly on what it is meant to decide (evaluate_activity).    *)
THEOREM DecisionIsThePolicy ==
  ASSUME NEW activity \in Activity
  PROVE  /\ EvaluateActivity(activity) = "approve" <=> MayApprove(activity)
         /\ EvaluateActivity(activity) \in {"approve", "reject"} <=> Applicable(activity)
  <1>1. CASE Applicable(activity)
    <2> DEFINE intent == activity.intent
    <2>1. intent \in Intent
      BY <1>1 DEF Applicable, Activity
    <2>2. intent.transaction \in Transaction
      BY <2>1 DEF Intent
    <2>3. Acceptable(intent) <=> MayApprove(activity)
      BY <1>1, <2>2, CheckedIsExact
         DEF Applicable, Acceptable, ValidTransaction, WithinTransferPolicy, MayApprove
    <2>4. EvaluateActivity(activity) = IF Acceptable(intent) THEN "approve" ELSE "reject"
      BY <1>1 DEF Applicable, EvaluateActivity
    <2> QED
      BY <1>1, <2>3, <2>4
  <1>2. CASE ~Applicable(activity)
    BY <1>2 DEF Applicable, MayApprove, EvaluateActivity
  <1> QED
    BY <1>1, <1>2

(* The same as an invariant, of every activity that is ever looked at.     *)
THEOREM EveryDecisionIsThePolicy == EvaluationSpec => []DecidesByThePolicy
  <1> DEFINE EInv == /\ submitted \in Submitted
                     /\ judgement # "none" => judgement = EvaluateActivity(submitted)
  <1>1. EvaluationInit => EInv
    BY DEF EvaluationInit
  <1>2. EInv /\ [Evaluate]_<<submitted, judgement>> => EInv'
    BY DEF Evaluate
  <1>3. EInv => DecidesByThePolicy
    BY PolicyEvaluationConstants, DecisionIsThePolicy DEF DecidesByThePolicy
  <1> QED
    BY <1>1, <1>2, <1>3, PTL DEF EvaluationSpec

-----------------------------------------------------------------------------
(* What arrives                                                            *)

LEMMA UpdateIsBody ==
  ASSUME NEW a \in ActivityId, NEW awaiting \in BOOLEAN, NEW parses \in BOOLEAN
  PROVE  /\ Update(a, awaiting, parses) \in Body
         /\ Update(a, awaiting, parses).activity \in Activity
  <1>1. Content[a] \in Activity
    BY SidecarConstants
  <1>2. [Content[a] EXCEPT !.consensusNeeded = awaiting] \in Activity
    BY <1>1 DEF Activity
  <1> QED
    BY <1>2 DEF Update, Body

(* A signature holds only for the bytes it was made for, so a verified     *)
(* activity that calls for a vote is the one that was created.             *)
LEMMA VerifiedIsGenuine ==
  ASSUME NEW delivery, NEW k \in Key,
         SignedOrForged(delivery.signature), ValidSignature(delivery, k),
         EvaluateActivity(delivery.body.activity) # "ignore"
  PROVE  /\ delivery.body.fingerprint \in ActivityId
         /\ EvaluateActivity(delivery.body.activity) = PolicyVote(delivery.body.fingerprint)
         /\ delivery.body.activity.organization
              = Content[delivery.body.fingerprint].organization
  <1>0. TurnkeySigned(delivery.signature)
    BY VerifierConstants DEF SignedOrForged, ValidSignature, Signed
  <1>1. PICK j \in Key, t \in Nat, a \in ActivityId, awaiting \in BOOLEAN, parses \in BOOLEAN :
          delivery.signature = Signed(j, t, Update(a, awaiting, parses))
    BY <1>0 DEF TurnkeySigned
  <1>2. delivery.body = Update(a, awaiting, parses)
    BY <1>1 DEF ValidSignature, Signed
  <1> DEFINE activity == [Content[a] EXCEPT !.consensusNeeded = awaiting]
  <1>3. delivery.body.fingerprint = a /\ delivery.body.activity = activity
    BY <1>2 DEF Update
  <1>4. Content[a] \in Activity /\ Content[a].consensusNeeded
    BY SidecarConstants
  <1>5. /\ activity.consensusNeeded = awaiting
        /\ activity.signRawPayloadV2 = Content[a].signRawPayloadV2
        /\ activity.intent = Content[a].intent
        /\ activity.organization = Content[a].organization
    BY <1>4 DEF Activity
  <1> HIDE DEF activity
  <1>6. awaiting
    BY <1>3, <1>5 DEF EvaluateActivity
  <1>7. EvaluateActivity(activity) = EvaluateActivity(Content[a])
    BY <1>4, <1>5, <1>6 DEF EvaluateActivity
  <1> QED
    BY <1>3, <1>5, <1>7 DEF PolicyVote

(* What anybody posts carries a signature of no key of Turnkey's.          *)
LEMMA ForgedSignature ==
  ASSUME VTypeOK, NEW delivery \in Forged
  PROVE  delivery \in Delivery /\ delivery.signature.key = NoKey
  <1>1. PICK k \in Key \cup {NoKey}, a \in ForgedAbout : delivery = ForgedPost(k, a)
    BY DEF Forged
  <1> DEFINE body == [parses |-> TRUE, fingerprint |-> a, activity |-> Content[a]]
  <1>2. body \in Body /\ body.activity.organization \in Organization
    <2>1. a \in ActivityId /\ Content[a] \in Activity
      BY SidecarConstants
    <2>2. Content[a].organization \in Organization
      BY <2>1 DEF Activity
    <2> QED
      BY <2>1, <2>2 DEF Body
  <1>3. clock \in Nat
    BY DEF VTypeOK
  <1>4. delivery = [GenuineDelivery(k, clock, body) EXCEPT !.signature = Signed(NoKey, clock, body)]
    BY <1>1 DEF ForgedPost
  <1> HIDE DEF body
  <1> QED
    BY <1>2, <1>3, <1>4 DEF GenuineDelivery, Signed, Delivery

(* Whatever is altered on the way, the signature is one Turnkey made.      *)
LEMMA IncomingSigned ==
  ASSUME VTypeOK, Deliveries, NEW delivery \in Incoming
  PROVE  delivery \in Delivery /\ SignedOrForged(delivery.signature)
  <1>1. CASE delivery \in sent
    BY <1>1 DEF Deliveries, SideTypes, SentSigned, SignedOrForged
  <1>2. ASSUME NEW d \in sent, delivery \in Altered(d)
        PROVE  delivery \in Delivery /\ delivery.signature = d.signature
    <2>1. d \in Delivery /\ clock \in Nat
      BY DEF Deliveries, SideTypes, VTypeOK
    <2>2. [d EXCEPT !.headersOk = FALSE] \in Delivery
          /\ [d EXCEPT !.headersOk = FALSE].signature = d.signature
      BY <2>1 DEF Delivery
    <2>3. [d EXCEPT !.activityUpdates = FALSE] \in Delivery
          /\ [d EXCEPT !.activityUpdates = FALSE].signature = d.signature
      BY <2>1 DEF Delivery
    <2>4. [d EXCEPT !.timestamp = clock] \in Delivery
          /\ [d EXCEPT !.timestamp = clock].signature = d.signature
      BY <2>1 DEF Delivery
    <2>5. [d EXCEPT !.body.fingerprint = Missing] \in Delivery
          /\ [d EXCEPT !.body.fingerprint = Missing].signature = d.signature
      BY <2>1 DEF Delivery, Body
    <2>8. \A k \in Key \cup {NoKey} : [d EXCEPT !.keyId = k] \in Delivery
                                    /\ [d EXCEPT !.keyId = k].signature = d.signature
      BY <2>1 DEF Delivery
    <2>6. \A o \in Organization : [d EXCEPT !.organization = o] \in Delivery
                                  /\ [d EXCEPT !.organization = o].signature = d.signature
      BY <2>1 DEF Delivery
    <2>7. \A a \in ActivityId : [d EXCEPT !.body.activity = Content[a]] \in Delivery
                                /\ [d EXCEPT !.body.activity = Content[a]].signature = d.signature
      <3> TAKE a \in ActivityId
      <3>1. Content[a] \in Activity
        BY SidecarConstants
      <3> QED
        BY <2>1, <3>1 DEF Delivery, Body
    <2> QED
      BY <1>2, <2>2, <2>3, <2>4, <2>5, <2>6, <2>7, <2>8 DEF Altered
  <1>3. CASE \E d \in sent : delivery \in Altered(d)
    <2>1. PICK d \in sent : delivery \in Altered(d)
      BY <1>3
    <2>2. TurnkeySigned(d.signature)
      BY DEF Deliveries, SentSigned
    <2> QED
      BY <1>2, <2>1, <2>2 DEF SignedOrForged
  <1>4. CASE delivery \in Forged
    BY <1>4, ForgedSignature DEF SignedOrForged
  <1> QED
    BY <1>1, <1>3, <1>4 DEF Incoming

-----------------------------------------------------------------------------
(* Steps of the verifier                                                   *)

(* Every step of the sidecar is a step of its key cache, or none.          *)
LEMMA StepIsVerifierStep ==
  ASSUME VTypeOK, Deliveries, [SNext]_sidecarVars PROVE [VNext]_verifierVars
  <1>1. ASSUME NEW h \in Handler, Handle(h) PROVE [VNext]_verifierVars
    <2>1. CASE Verify(h)
      BY <2>1 DEF VNext
    <2>2. CASE Judge(h)
      <3>1. Done(h)
        BY <2>2 DEF Judge, Done
      <3> QED
        BY <3>1 DEF VNext
    <2> QED
      BY <1>1, <2>1, <2>2 DEF Handle, VoteAnswered, VoteUnsent, VoteUncertain
  <1>2. ASSUME NEW h \in Handler, NEW d \in Incoming, Receive(h, d) PROVE [VNext]_verifierVars
    <2>1. d.keyId \in Key \cup {NoKey}
      BY IncomingSigned DEF Delivery
    <2> QED
      BY <1>2, <2>1 DEF Receive, VNext
  <1>3. CASE Turnkey
    BY <1>3 DEF Turnkey, SendUpdate, TakeVote, RefuseVote, LoseVote, CompleteActivity, VNext
  <1>4. CASE UNCHANGED sidecarVars
    BY <1>4 DEF sidecarVars
  <1> QED
    BY <1>1, <1>2, <1>3, <1>4 DEF SNext

(* A lookup that goes on leaves everything else alone.                     *)
LEMMA VerifyOK ==
  ASSUME SInv, NEW h \in Handler, Verify(h), UNCHANGED <<turnkeyVars, task, answer, requests>>
  PROVE  Deliveries' /\ LookupsFit' /\ Voting'
  <1>1. lookup[h].pc # "idle" /\ lookup'[h].pc # "idle"
        /\ \A g \in Handler \ {h} : lookup'[g] = lookup[g]
    <2> USE DEF SInv, VInv, VTypeOK, LookupAt, NotLooking
    <2>1. CASE JwksAnswer(h)
      BY <2>1 DEF JwksAnswer
    <2>2. CASE DiscoveryFails(h)
      BY <2>2 DEF DiscoveryFails
    <2>3. CASE StoreKeys(h)
      BY <2>3 DEF StoreKeys
    <2>4. CASE ReadBack(h)
      BY <2>4 DEF ReadBack
    <2> QED
      BY <2>1, <2>2, <2>3, <2>4 DEF Verify
  <1>2. LookupsFit'
    BY <1>1 DEF SInv, LookupsFit
  <1> QED
    BY <1>2 DEF SInv, Deliveries, SideTypes, SentSigned, Voting, TasksFit, TaskFits,
                RequestsFit, RequestFits, VotesFit, turnkeyVars

LEMMA EnvironmentOK ==
  ASSUME SInv, UNCHANGED <<lookup, turnkeyVars, task, answer, requests>>
  PROVE  Deliveries' /\ LookupsFit' /\ Voting'
  BY DEF SInv, Deliveries, SideTypes, SentSigned, LookupsFit, Voting, TasksFit, TaskFits,
         RequestsFit, RequestFits, VotesFit, turnkeyVars

-----------------------------------------------------------------------------
(* Steps of Turnkey                                                        *)

LEMMA SendUpdateOK == ASSUME SInv, SendUpdate PROVE Deliveries' /\ LookupsFit' /\ Voting'
  <1>1. PICK k \in published, a \in ActivityId, awaiting \in BOOLEAN, parses \in BOOLEAN :
          sent' = sent \cup {GenuineDelivery(k, clock, Update(a, awaiting, parses))}
    BY DEF SendUpdate, Update
  <1>2. k \in Key /\ clock \in Nat
    BY DEF SInv, VInv, VTypeOK
  <1> DEFINE body == Update(a, awaiting, parses)
             d    == GenuineDelivery(k, clock, body)
  <1>3. body \in Body /\ body.activity.organization \in Organization
    <2>1. body \in Body /\ body.activity \in Activity
      BY UpdateIsBody
    <2> HIDE DEF body
    <2> QED
      BY <2>1 DEF Activity
  <1>4. TurnkeySigned(d.signature)
    BY <1>2 DEF GenuineDelivery, TurnkeySigned
  <1>5. d \in Delivery
    <2> HIDE DEF body
    <2> QED
      BY <1>2, <1>3 DEF GenuineDelivery, Signed, Delivery
  <1>6. sent' = sent \cup {d} /\ UNCHANGED <<status, votes, task, answer, requests>>
    BY <1>1 DEF SendUpdate
  <1> HIDE DEF d
  <1>7. Deliveries'
    <2>1. sent' \subseteq Delivery
      BY <1>5, <1>6 DEF SInv, Deliveries, SideTypes
    <2>2. SentSigned'
      BY <1>4, <1>6 DEF SInv, Deliveries, SentSigned
    <2> QED
      BY <1>6, <2>1, <2>2 DEF SInv, Deliveries, SideTypes
  <1> QED
    BY <1>7 DEF SInv, LookupsFit, Voting, TasksFit, TaskFits, RequestsFit, RequestFits,
                VotesFit, SendUpdate, verifierVars

LEMMA CompleteActivityOK ==
  ASSUME SInv, NEW a \in ActivityId, CompleteActivity(a)
  PROVE  Deliveries' /\ LookupsFit' /\ Voting'
  <1>1. Deliveries'
    BY DEF SInv, Deliveries, SideTypes, SentSigned, CompleteActivity
  <1>2. TasksFit'
    BY DEF SInv, Voting, TasksFit, TaskFits, CompleteActivity
  <1> QED
    BY <1>1, <1>2 DEF SInv, LookupsFit, Voting, RequestsFit, RequestFits, VotesFit,
                      CompleteActivity, verifierVars

LEMMA LoseVoteOK ==
  ASSUME SInv, NEW request \in requests, LoseVote(request)
  PROVE  Deliveries' /\ LookupsFit' /\ Voting'
  <1>1. Deliveries'
    BY DEF SInv, Deliveries, SideTypes, SentSigned, LoseVote, turnkeyVars
  <1> QED
    BY <1>1 DEF SInv, LookupsFit, Voting, TasksFit, TaskFits, RequestsFit, RequestFits,
                VotesFit, LoseVote, turnkeyVars, verifierVars

(* One handler has one vote under way.                                     *)
LEMMA OneRequest ==
  ASSUME SInv, NEW r \in requests, NEW q \in requests, r.from = q.from, r.from # NoHandler
  PROVE  r = q
  BY DEF SInv, Deliveries, SideTypes, Voting, RequestsFit, RequestFits, Request

(* Turnkey answers a vote: the handler that waits for it learns so, and a  *)
(* vote it keeps is nobody's any more.                                     *)
LEMMA ToldOK ==
  ASSUME SInv, NEW request \in requests, NEW result \in {"taken", "refused"},
         Tell(request, result),
         requests' \in {requests \ {request}, (requests \ {request}) \cup {Orphan(request)}},
         votes \subseteq votes', votes' \subseteq votes \cup {Vote(request.activity, request.vote)},
         result = "taken" => Vote(request.activity, request.vote) \in votes',
         status' \in [ActivityId -> {"awaiting", "completed"}],
         UNCHANGED <<verifierVars, sent, answer>>
  PROVE  Deliveries' /\ LookupsFit' /\ Voting'
  <1> DEFINE a == request.activity
  <1>1. /\ a \in ActivityId
        /\ request.vote \in {"approve", "reject"}
        /\ Vote(a, request.vote) \in VoteSet
        /\ Orphan(request) \in Request
        /\ Orphan(request).from = NoHandler
        /\ Orphan(request).activity = a
        /\ Orphan(request).vote = request.vote
    BY DEF SInv, Deliveries, SideTypes, Request, Vote, VoteSet, Orphan
  <1>2. /\ requests' \subseteq (requests \ {request}) \cup {Orphan(request)}
        /\ task' = [h \in Handler |-> IF h = request.from
                                      THEN [task[h] EXCEPT !.result = result] ELSE task[h]]
    BY DEF Tell
  <1>4. \A h \in Handler :
          /\ task[h] \in Task
          /\ task'[h] \in Task
          /\ task'[h].pc = task[h].pc
          /\ task'[h].delivery = task[h].delivery
          /\ task'[h].vote = task[h].vote
          /\ task'[h].result = IF h = request.from THEN result ELSE task[h].result
    BY <1>2 DEF SInv, Deliveries, SideTypes, Task
  <1>5. Deliveries'
    <2>1. task' \in [Handler -> Task]
      BY <1>2, <1>4
    <2>2. votes' \subseteq VoteSet
      BY <1>1 DEF SInv, Deliveries, SideTypes
    <2>3. requests' \subseteq Request
      BY <1>1, <1>2 DEF SInv, Deliveries, SideTypes
    <2> QED
      BY <2>1, <2>2, <2>3 DEF SInv, Deliveries, SideTypes, SentSigned
  <1>6. LookupsFit'
    BY <1>4 DEF SInv, LookupsFit, verifierVars
  <1>7. TasksFit'
    <2> SUFFICES ASSUME NEW h \in Handler PROVE TaskFits(h)'
      BY DEF TasksFit
    <2>1. TaskFits(h)
      BY DEF SInv, Voting, TasksFit
    <2>2. CASE h = request.from
      <3>1. /\ task[h].pc = "voting"
            /\ a = task[h].delivery.body.fingerprint
            /\ request.vote = task[h].vote
        BY <2>2, SidecarConstants DEF SInv, Voting, RequestsFit, RequestFits
      <3> QED
        BY <1>1, <1>4, <2>1, <2>2, <3>1 DEF TaskFits
    <2>3. CASE h # request.from
      BY <1>4, <2>1, <2>3 DEF TaskFits
    <2> QED
      BY <2>2, <2>3
  <1>8. RequestsFit'
    <2> SUFFICES ASSUME NEW r \in requests, r # request, r.from # NoHandler
                 PROVE  RequestFits(r)'
      BY <1>1, <1>2 DEF RequestsFit, RequestFits
    <2>1. r.from # request.from
      BY OneRequest
    <2>2. r.from \in Handler
      BY DEF SInv, Deliveries, SideTypes, Request
    <2> QED
      BY <1>4, <2>1, <2>2 DEF SInv, Voting, RequestsFit, RequestFits
  <1>9. VotesFit'
    <2>1. FollowsPolicy(a, request.vote)
      BY DEF SInv, Voting, VotesFit
    <2>2. Vote(a, request.vote).activity = a /\ Vote(a, request.vote).vote = request.vote
      BY DEF Vote
    <2>3. \A v \in votes' : FollowsPolicy(v.activity, v.vote)
      BY <2>1, <2>2 DEF SInv, Voting, VotesFit
    <2>4. \A r \in requests' : FollowsPolicy(r.activity, r.vote)
      BY <1>1, <1>2, <2>1 DEF SInv, Voting, VotesFit
    <2> QED
      BY <2>3, <2>4 DEF VotesFit, FollowsPolicy
  <1> QED
    BY <1>5, <1>6, <1>7, <1>8, <1>9 DEF Voting

LEMMA TakeVoteOK ==
  ASSUME SInv, NEW request \in requests, TakeVote(request)
  PROVE  Deliveries' /\ LookupsFit' /\ Voting'
  <1>1. /\ Tell(request, "taken")
        /\ requests' = requests \ {request}
        /\ votes' = votes \cup {Vote(request.activity, request.vote)}
        /\ UNCHANGED <<verifierVars, sent, answer>>
    BY DEF TakeVote, Vote
  <1>2. status' \in [ActivityId -> {"awaiting", "completed"}]
    <2>1. PICK s \in {"awaiting", "completed"} :
            status' = [status EXCEPT ![request.activity] = s]
      BY DEF TakeVote
    <2>2. status \in [ActivityId -> {"awaiting", "completed"}]
      BY DEF SInv, Deliveries, SideTypes
    <2> QED
      BY <2>1, <2>2
  <1>3. /\ votes \subseteq votes'
        /\ votes' \subseteq votes \cup {Vote(request.activity, request.vote)}
        /\ Vote(request.activity, request.vote) \in votes'
    BY <1>1
  <1>4. "taken" \in {"taken", "refused"}
    OBVIOUS
  <1>5. requests' \in {requests \ {request}, (requests \ {request}) \cup {Orphan(request)}}
    BY <1>1
  <1> QED
    BY <1>1, <1>2, <1>3, <1>4, <1>5, ToldOK

LEMMA RefuseVoteOK ==
  ASSUME SInv, NEW request \in requests, RefuseVote(request)
  PROVE  Deliveries' /\ LookupsFit' /\ Voting'
  <1>1. /\ Tell(request, "refused")
        /\ requests' \in {requests \ {request}, (requests \ {request}) \cup {Orphan(request)}}
        /\ UNCHANGED <<verifierVars, sent, answer>>
        /\ votes' = votes
    BY DEF RefuseVote, turnkeyVars
  <1>2. status' \in [ActivityId -> {"awaiting", "completed"}]
    BY DEF RefuseVote, turnkeyVars, SInv, Deliveries, SideTypes
  <1> QED
    BY <1>1, <1>2, ToldOK

-----------------------------------------------------------------------------
(* Steps of the handler                                                    *)

(* No vote is added, and none of those under way is h's.                   *)
LeavesRequests(h) ==
  /\ requests' \subseteq Request
  /\ \A r \in requests' : \E q \in requests :
       /\ r.activity = q.activity /\ r.vote = q.vote
       /\ r.from = NoHandler \/ r = q
       /\ r.from # h

(* A step of one handler that sends no vote: the task it is left with      *)
(* fits, and no vote under way is its own.                                 *)
LEMMA OneTask ==
  ASSUME SInv, NEW h \in Handler, NEW t \in Task,
         task' = [task EXCEPT ![h] = t],
         answer' \in [Handler -> {0, 204, 400, 401, 503}],
         UNCHANGED turnkeyVars,
         t.pc \in {"idle", "verifying"},
         t.pc = "verifying" => /\ t.delivery \in Delivery
                               /\ SignedOrForged(t.delivery.signature)
                               /\ t.result = "none",
         t.pc = "verifying" <=> lookup'[h].pc # "idle",
         \A g \in Handler \ {h} : lookup'[g] = lookup[g],
         LeavesRequests(h)
  PROVE  Deliveries' /\ LookupsFit' /\ Voting'
  <1>0. /\ requests' \subseteq Request
        /\ \A r \in requests' : \E q \in requests :
             /\ r.activity = q.activity /\ r.vote = q.vote
             /\ r.from = NoHandler \/ r = q
             /\ r.from # h
    BY DEF LeavesRequests
  <1>1. \A g \in Handler : task'[g] = IF g = h THEN t ELSE task[g]
    BY DEF SInv, Deliveries, SideTypes
  <1>2. Deliveries'
    BY <1>0 DEF SInv, Deliveries, SideTypes, SentSigned, turnkeyVars
  <1>3. LookupsFit'
    BY <1>1 DEF SInv, LookupsFit
  <1>4. TasksFit'
    <2> SUFFICES ASSUME NEW g \in Handler PROVE TaskFits(g)'
      BY DEF TasksFit
    <2>1. CASE g = h
      BY <1>1, <2>1 DEF TaskFits
    <2>2. CASE g # h
      BY <1>1, <2>2 DEF SInv, Voting, TasksFit, TaskFits, turnkeyVars
    <2> QED
      BY <2>1, <2>2
  <1>5. RequestsFit'
    <2> SUFFICES ASSUME NEW r \in requests', r.from # NoHandler PROVE RequestFits(r)'
      BY DEF RequestsFit, RequestFits
    <2>1. r \in requests /\ r.from \in Handler \ {h}
      BY <1>0 DEF Request
    <2> QED
      BY <1>1, <2>1 DEF SInv, Voting, RequestsFit, RequestFits
  <1>6. VotesFit'
    BY <1>0 DEF SInv, Voting, VotesFit, FollowsPolicy, turnkeyVars
  <1> QED
    BY <1>2, <1>3, <1>4, <1>5, <1>6 DEF Voting

(* A handler that answers and has no vote under way.                       *)
LEMMA AnsweredOK ==
  ASSUME SInv, NEW h \in Handler,
         \E code \in {204, 400, 401, 503} : Respond(h, code),
         lookup'[h].pc = "idle",
         \A g \in Handler \ {h} : lookup'[g] = lookup[g],
         UNCHANGED turnkeyVars,
         LeavesRequests(h)
  PROVE  Deliveries' /\ LookupsFit' /\ Voting'
  <1>1. NoTask \in Task /\ NoTask.pc = "idle"
    BY DEF NoTask, Task
  <1>2. task' = [task EXCEPT ![h] = NoTask]
    BY DEF Respond
  <1>3. answer' \in [Handler -> {0, 204, 400, 401, 503}]
    BY DEF Respond, SInv, Deliveries, SideTypes
  <1>4. NoTask.pc # "verifying"
    BY <1>1
  <1> QED
    BY <1>1, <1>2, <1>3, <1>4, OneTask

LEMMA SameRequests ==
  ASSUME SInv, NEW h \in Handler, UNCHANGED requests,
         \A request \in requests : request.from # h
  PROVE  LeavesRequests(h)
  BY DEF SInv, Deliveries, SideTypes, LeavesRequests

LEMMA NoTaskIsTask == NoTask \in Task
  BY DEF NoTask, Task

LEMMA NoVoteUnderWay ==
  ASSUME SInv, NEW h \in Handler, task[h].pc # "voting" \/ task[h].result # "none"
  PROVE  \A request \in requests : request.from # h
  BY SidecarConstants DEF SInv, Voting, RequestsFit, RequestFits

LEMMA ReceiveOK ==
  ASSUME SInv, NEW h \in Handler, NEW delivery \in Incoming, Receive(h, delivery)
  PROVE  Deliveries' /\ LookupsFit' /\ Voting'
  <1>1. \A request \in requests : request.from # h
    BY NoVoteUnderWay DEF Receive
  <1>2. delivery \in Delivery /\ SignedOrForged(delivery.signature)
    BY IncomingSigned DEF SInv, VInv
  <1>3. CASE Plausible(delivery)
    <2> DEFINE t == [NoTask EXCEPT !.pc = "verifying", !.delivery = delivery]
    <2>1. \A u \in Task : [u EXCEPT !.pc = "verifying", !.delivery = delivery] \in Task
      BY <1>2 DEF Task
    <2>2. t \in Task
      BY <2>1, NoTaskIsTask
    <2>3. t.pc = "verifying" /\ t.delivery = delivery /\ t.result = "none"
      BY DEF NoTask
    <2>4. LookUp(h, delivery.keyId) /\ task' = [task EXCEPT ![h] = t]
          /\ answer' = [answer EXCEPT ![h] = 0]
          /\ UNCHANGED <<turnkeyVars, requests>>
      BY <1>3 DEF Receive
    <2> HIDE DEF t
    <2>5. answer' \in [Handler -> {0, 204, 400, 401, 503}]
      BY <2>4 DEF SInv, Deliveries, SideTypes
    <2>6. lookup'[h].pc # "idle" /\ \A g \in Handler \ {h} : lookup'[g] = lookup[g]
      BY <2>4 DEF LookUp, NotLooking, SInv, VInv, VTypeOK
    <2>7. LeavesRequests(h) /\ UNCHANGED turnkeyVars
      BY <1>1, <2>4, SameRequests
    <2>8. task' = [task EXCEPT ![h] = t]
      BY <2>4
    <2> QED
      BY <1>2, <2>2, <2>3, <2>5, <2>6, <2>7, <2>8, OneTask
  <1>4. CASE ~Plausible(delivery)
    <2>1. Respond(h, 401) /\ UNCHANGED verifierVars /\ UNCHANGED <<turnkeyVars, requests>>
      BY <1>4 DEF Receive
    <2>2. lookup'[h].pc = "idle" /\ lookup' = lookup
      BY <2>1 DEF Receive, SInv, LookupsFit, verifierVars
    <2>3. LeavesRequests(h) /\ UNCHANGED turnkeyVars
      BY <1>1, <2>1, SameRequests
    <2>4. \E code \in {204, 400, 401, 503} : Respond(h, code)
      BY <2>1
    <2> QED
      BY <2>2, <2>3, <2>4, AnsweredOK
  <1> QED
    BY <1>3, <1>4

LEMMA VoteAnsweredOK ==
  ASSUME SInv, NEW h \in Handler, VoteAnswered(h)
  PROVE  Deliveries' /\ LookupsFit' /\ Voting'
  <1>1. LeavesRequests(h) /\ UNCHANGED turnkeyVars
    <2>1. \A request \in requests : request.from # h
      BY NoVoteUnderWay DEF VoteAnswered
    <2>2. UNCHANGED requests /\ UNCHANGED turnkeyVars
      BY DEF VoteAnswered
    <2> QED
      BY <2>1, <2>2, SameRequests
  <1>2. \E code \in {204, 400, 401, 503} : Respond(h, code)
    BY DEF VoteAnswered
  <1>3. lookup'[h].pc = "idle" /\ lookup' = lookup
    BY DEF VoteAnswered, SInv, LookupsFit, verifierVars
  <1> QED
    BY <1>1, <1>2, <1>3, AnsweredOK

(* A vote that has not been sent is under way no more.                     *)
LEMMA VoteUnsentOK ==
  ASSUME SInv, NEW h \in Handler, VoteUnsent(h)
  PROVE  Deliveries' /\ LookupsFit' /\ Voting'
  <1>1. PICK request \in requests : request.from = h /\ requests' = requests \ {request}
    BY DEF VoteUnsent
  <1>2. \A r \in requests \ {request} : r.from # h
    BY <1>1, OneRequest, SidecarConstants
  <1>3. LeavesRequests(h)
    BY <1>1, <1>2 DEF SInv, Deliveries, SideTypes, LeavesRequests
  <1>4. (\E code \in {204, 400, 401, 503} : Respond(h, code)) /\ UNCHANGED turnkeyVars
    BY DEF VoteUnsent
  <1>5. lookup'[h].pc = "idle" /\ lookup' = lookup
    BY DEF VoteUnsent, SInv, LookupsFit, verifierVars
  <1> QED
    BY <1>3, <1>4, <1>5, AnsweredOK

(* A vote given up on may still arrive; nobody waits for it.               *)
LEMMA VoteUncertainOK ==
  ASSUME SInv, NEW h \in Handler, VoteUncertain(h)
  PROVE  Deliveries' /\ LookupsFit' /\ Voting'
  <1>1. UNCHANGED turnkeyVars
    BY DEF VoteUncertain
  <1>2. \E code \in {204, 400, 401, 503} : Respond(h, code)
    BY DEF VoteUncertain
  <1>3. lookup'[h].pc = "idle" /\ lookup' = lookup
    BY DEF VoteUncertain, SInv, LookupsFit, verifierVars
  <1>4. \A q \in Request : /\ Orphan(q) \in Request
                           /\ Orphan(q).from = NoHandler
                           /\ Orphan(q).activity = q.activity
                           /\ Orphan(q).vote = q.vote
    BY DEF Request, Orphan
  <1>5. requests' = {IF q.from = h THEN Orphan(q) ELSE q : q \in requests}
        /\ requests \subseteq Request
    BY DEF VoteUncertain, SInv, Deliveries, SideTypes
  <1>6. LeavesRequests(h)
    <2> SUFFICES ASSUME NEW r \in requests'
                 PROVE  /\ r \in Request
                        /\ \E q \in requests : /\ r.activity = q.activity /\ r.vote = q.vote
                                               /\ r.from = NoHandler \/ r = q
                                               /\ r.from # h
      BY DEF LeavesRequests
    <2>1. PICK q \in requests : r = IF q.from = h THEN Orphan(q) ELSE q
      BY <1>5
    <2> QED
      BY <1>4, <1>5, <2>1, SidecarConstants
  <1> QED
    BY <1>1, <1>2, <1>3, <1>6, AnsweredOK

(* The handler that has judged a delivery worth no vote.                   *)
LEMMA JudgedOK ==
  ASSUME SInv, NEW h \in Handler, task[h].pc = "verifying",
         \E code \in {204, 400, 401, 503} : Respond(h, code),
         lookup' = [lookup EXCEPT ![h] = NotLooking],
         UNCHANGED turnkeyVars, UNCHANGED requests
  PROVE  Deliveries' /\ LookupsFit' /\ Voting'
  <1>1. \A request \in requests : request.from # h
    BY NoVoteUnderWay
  <1>2. LeavesRequests(h)
    BY <1>1, SameRequests
  <1>3. lookup'[h].pc = "idle" /\ \A g \in Handler \ {h} : lookup'[g] = lookup[g]
    BY DEF NotLooking, SInv, VInv, VTypeOK
  <1> QED
    BY <1>2, <1>3, AnsweredOK

(* A vote goes out: it is the policy's on the activity as created.         *)
VotesOn(h) ==
  LET delivery == task[h].delivery
      decision == EvaluateActivity(delivery.body.activity)
  IN  /\ ForUs(delivery)
      /\ LookupAt(h, "found") /\ ValidSignature(delivery, lookup[h].key)
      /\ decision \in {"approve", "reject"}
      /\ task' = [task EXCEPT ![h].pc = "voting", ![h].vote = decision]
      /\ requests' = requests \cup
           {[from |-> h, activity |-> delivery.body.fingerprint, vote |-> decision]}
      /\ UNCHANGED answer

LEMMA VotesOnOK ==
  ASSUME SInv, NEW h \in Handler, task[h].pc = "verifying", VotesOn(h),
         lookup' = [lookup EXCEPT ![h] = NotLooking], UNCHANGED turnkeyVars
  PROVE  Deliveries' /\ LookupsFit' /\ Voting'
  <1>0. PICK delivery \in Delivery : delivery = task[h].delivery
    BY DEF SInv, Voting, TasksFit, TaskFits
  <1> DEFINE a        == delivery.body.fingerprint
             decision == EvaluateActivity(delivery.body.activity)
             new      == [from |-> h, activity |-> a, vote |-> decision]
  <1>1. SignedOrForged(delivery.signature) /\ task[h].result = "none"
    BY <1>0 DEF SInv, Voting, TasksFit, TaskFits
  <1>2. a \in ActivityId /\ decision \in {"approve", "reject"} /\ FollowsPolicy(a, decision)
    <2>1. decision \in {"approve", "reject"} /\ ValidSignature(delivery, lookup[h].key)
          /\ delivery.body.activity.organization = OurOrganization
      BY <1>0 DEF VotesOn, ForUs
    <2>2. lookup[h].key \in Key
      BY DEF VotesOn, SInv, VInv, AnswersFit
    <2> QED
      BY <1>1, <2>1, <2>2, VerifiedIsGenuine DEF FollowsPolicy
  <1>3. new \in Request
    BY <1>2 DEF Request
  <1>4. requests' = requests \cup {new} /\ answer' = answer
        /\ task' = [task EXCEPT ![h] = [task[h] EXCEPT !.pc = "voting", !.vote = decision]]
    BY <1>0 DEF VotesOn
  <1>5. \A g \in Handler : task[g] \in Task /\ task'[g] \in Task
    <2>1. \A u \in Task : [u EXCEPT !.pc = "voting", !.vote = decision] \in Task
      BY <1>2 DEF Task
    <2>2. \A g \in Handler : task[g] \in Task
      BY DEF SInv, Deliveries, SideTypes
    <2> DEFINE voting == [task[h] EXCEPT !.pc = "voting", !.vote = decision]
    <2>3. voting \in Task /\ task' = [task EXCEPT ![h] = voting] /\ task \in [Handler -> Task]
      BY <1>4, <2>1, <2>2 DEF SInv, Deliveries, SideTypes
    <2> HIDE DEF voting
    <2> QED
      BY <2>2, <2>3
  <1>6. /\ \A g \in Handler \ {h} : task'[g] = task[g]
        /\ task'[h].pc = "voting"
        /\ task'[h].vote = decision
        /\ task'[h].delivery = delivery
        /\ task'[h].result = "none"
    <2>1. task \in [Handler -> Task] /\ task[h] \in Task
      BY DEF SInv, Deliveries, SideTypes
    <2>2. \A u \in Task : LET v == [u EXCEPT !.pc = "voting", !.vote = decision]
                        IN  /\ v.pc = "voting" /\ v.vote = decision
                            /\ v.delivery = u.delivery /\ v.result = u.result
      BY DEF Task
    <2> HIDE DEF decision
    <2> QED
      BY <1>0, <1>1, <1>4, <2>1, <2>2
  <1>7. Deliveries'
    <2>1. task' \in [Handler -> Task]
      BY <1>4, <1>5 DEF SInv, Deliveries, SideTypes
    <2> HIDE DEF new
    <2> QED
      BY <1>3, <1>4, <2>1 DEF SInv, Deliveries, SideTypes, SentSigned, turnkeyVars
  <1>8. LookupsFit'
    <2>1. lookup'[h].pc = "idle" /\ \A g \in Handler \ {h} : lookup'[g] = lookup[g]
      BY DEF NotLooking, SInv, VInv, VTypeOK
    <2> QED
      BY <1>6, <2>1 DEF SInv, LookupsFit
  <1> HIDE DEF decision
  <1>9. TasksFit'
    <2> SUFFICES ASSUME NEW g \in Handler PROVE TaskFits(g)'
      BY DEF TasksFit
    <2>1. CASE g = h
      BY <1>2, <1>6, <2>1 DEF TaskFits, decision
    <2>2. CASE g # h
      BY <1>6, <2>2 DEF SInv, Voting, TasksFit, TaskFits, turnkeyVars
    <2> QED
      BY <2>1, <2>2
  <1>10. RequestsFit'
    <2>1. RequestFits(new)'
      BY <1>6 DEF RequestFits
    <2>2. ASSUME NEW r \in requests, r.from # NoHandler PROVE RequestFits(r)'
      <3>1. r.from \in Handler \ {h}
        BY <2>2, NoVoteUnderWay DEF SInv, Deliveries, SideTypes, Request
      <3> QED
        BY <1>6, <2>2, <3>1 DEF SInv, Voting, RequestsFit, RequestFits
    <2>3. \A r \in requests : RequestFits(r)'
      BY <2>2 DEF RequestFits
    <2> HIDE DEF new
    <2> QED
      BY <1>4, <2>1, <2>3 DEF RequestsFit
  <1>11. VotesFit'
    <2>1. new.activity = a /\ new.vote = decision
      OBVIOUS
    <2> HIDE DEF new
    <2> QED
      BY <1>2, <1>4, <2>1 DEF SInv, Voting, VotesFit, FollowsPolicy, turnkeyVars
  <1> QED
    BY <1>7, <1>8, <1>9, <1>10, <1>11 DEF Voting

LEMMA JudgeOK ==
  ASSUME SInv, NEW h \in Handler, Judge(h)
  PROVE  Deliveries' /\ LookupsFit' /\ Voting'
  <1> DEFINE delivery == task[h].delivery
             decision == EvaluateActivity(delivery.body.activity)
  <1>1. /\ task[h].pc = "verifying"
        /\ lookup' = [lookup EXCEPT ![h] = NotLooking]
        /\ UNCHANGED turnkeyVars
    BY DEF Judge
  <1>2. CASE \E code \in {204, 400, 401, 503} : Respond(h, code) /\ UNCHANGED requests
    <2>1. UNCHANGED requests /\ \E code \in {204, 400, 401, 503} : Respond(h, code)
      BY <1>2
    <2> QED
      BY <1>1, <2>1, JudgedOK
  <1>3. CASE VotesOn(h)
    BY <1>1, <1>3, VotesOnOK
  <1>4. VotesOn(h) \/ \E code \in {204, 400, 401, 503} : Respond(h, code) /\ UNCHANGED requests
    <2>1. decision \in {"approve", "reject", "ignore", "malformed"}
      BY DEF EvaluateActivity
    <2> QED
      BY <2>1 DEF Judge, VotesOn
  <1> QED
    BY <1>2, <1>3, <1>4

LEMMA SInitOK == SInit => SInv
  <1> SUFFICES ASSUME SInit PROVE SInv
    OBVIOUS
  <1>1. VInv
    BY VInitOK DEF SInit
  <1>2. Deliveries
    BY NoTaskIsTask DEF SInit, Deliveries, SideTypes, SentSigned
  <1>3. LookupsFit /\ Voting
    BY DEF SInit, VInit, NotLooking, NoTask, LookupsFit, Voting, TasksFit, TaskFits,
           RequestsFit, VotesFit
  <1> QED
    BY <1>1, <1>2, <1>3 DEF SInv

LEMMA SStepOK == ASSUME SInv, [SNext]_sidecarVars PROVE SInv'
  <1>1. VInv'
    BY StepIsVerifierStep, VStepOK DEF SInv, VInv
  <1>2. Deliveries' /\ LookupsFit' /\ Voting'
    <2>1. ASSUME NEW h \in Handler, Handle(h) PROVE Deliveries' /\ LookupsFit' /\ Voting'
      BY <2>1, VerifyOK, JudgeOK, VoteAnsweredOK, VoteUnsentOK, VoteUncertainOK DEF Handle
    <2>2. CASE Turnkey
      <3>1. CASE Rotate /\ UNCHANGED <<turnkeyVars, task, answer, requests>>
        BY <3>1, EnvironmentOK DEF Rotate
      <3>2. CASE Tick /\ UNCHANGED <<turnkeyVars, task, answer, requests>>
        BY <3>2, EnvironmentOK DEF Tick
      <3> QED
        BY <2>2, <3>1, <3>2, SendUpdateOK, TakeVoteOK, RefuseVoteOK, LoseVoteOK, CompleteActivityOK
           DEF Turnkey
    <2>3. CASE UNCHANGED sidecarVars
      BY <2>3, EnvironmentOK DEF sidecarVars, verifierVars
    <2> QED
      BY <2>1, <2>2, <2>3, ReceiveOK DEF SNext
  <1> QED
    BY <1>1, <1>2 DEF SInv

(* The invariant of the sidecar.                                           *)
THEOREM SidecarInvariant == SSpec => []SInv
  BY SInitOK, SStepOK, PTL DEF SSpec

(* Requests, lookups and votes under way belong together (webhook.rs).     *)
THEOREM SidecarTypeCorrect == SSpec => []STypeOK
  <1>1. SInv => STypeOK
    <2> SUFFICES ASSUME SInv PROVE STypeOK
      OBVIOUS
    <2>1. VTypeOK
      BY DEF SInv, VInv
    <2>2. \A request \in requests :
            request.from # NoHandler => /\ task[request.from].pc = "voting"
                                       /\ task[request.from].result = "none"
      BY DEF SInv, Voting, RequestsFit, RequestFits
    <2> QED
      BY <2>1, <2>2 DEF SInv, Deliveries, SideTypes, LookupsFit, VoteSet, STypeOK
  <1> QED
    BY <1>1, SidecarInvariant, PTL

(* Whatever is altered, delayed or repeated on the way, the sidecar only   *)
(* sends the vote its policy gives to what the initiator asked for, and    *)
(* only for its own organization (turnkey_activity_webhook).               *)
THEOREM VotesAreThePolicys == SSpec => []VotesFollowPolicy
  <1>1. SInv => VotesFollowPolicy
    BY DEF SInv, Voting, VotesFit, FollowsPolicy, VotesFollowPolicy, Vote
  <1> QED
    BY <1>1, SidecarInvariant, PTL

(* The sidecar uses its key cache as the verifier allows, so that a key it *)
(* accepts has been published lately.                                      *)
THEOREM SidecarTrustEnds == SSpec => TrustIsRecent
  <1>1. SInv /\ [SNext]_sidecarVars => VInv /\ [VNext]_verifierVars
    BY StepIsVerifierStep DEF SInv, VInv
  <1>2. VInv /\ [VNext]_verifierVars =>
          [\A h \in Handler :
             ~LookupAt(h, "found") /\ lookup'[h].pc = "found" =>
               clock - lastPublished[lookup'[h].key] <= LONGEST_AGE + REQUEST_TIMEOUT]_verifierVars
    BY FoundIsRecent
  <1> QED
    BY <1>1, <1>2, SidecarInvariant, PTL DEF SSpec, TrustIsRecent

-----------------------------------------------------------------------------
(* What the answers mean                                                   *)

(* A handler answers what it has judged, or what became of its vote.       *)
LEMMA AnswersBy ==
  ASSUME SInv, [SNext]_sidecarVars, NEW h \in Handler, Answers(h)
  PROVE  Judge(h) \/ VoteAnswered(h) \/ VoteUnsent(h) \/ VoteUncertain(h)
  <1>1. task \in [Handler -> Task]
    BY DEF SInv, Deliveries, SideTypes
  <1>2. task'[h].pc # task[h].pc
    BY DEF Answers
  <1>3. ASSUME NEW g \in Handler, g # h, Handle(g) PROVE FALSE
    BY <1>1, <1>2, <1>3 DEF Handle, Judge, VoteAnswered, VoteUnsent, VoteUncertain, Respond
  <1>4. ASSUME NEW g \in Handler, NEW d \in Incoming, Receive(g, d) PROVE FALSE
    BY <1>1, <1>2, <1>4 DEF Receive, Respond, Answers
  <1>5. ASSUME NEW request \in requests, TakeVote(request) \/ RefuseVote(request) PROVE FALSE
    <2>1. task'[h].pc = task[h].pc
      BY <1>1, <1>5 DEF TakeVote, RefuseVote, Tell, Task
    <2> QED
      BY <1>2, <2>1
  <1> QED
    BY <1>2, <1>3, <1>4, <1>5
       DEF SNext, Handle, Turnkey, SendUpdate, LoseVote, CompleteActivity, sidecarVars

(* A 204 for an activity that calls for a vote follows Turnkey's taking it *)
(* (turnkey_activity_webhook): no vote is promised and then lost.          *)
THEOREM SuccessIsVoted == SSpec => SuccessMeansVoted
  <1>1. ASSUME SInv, [SNext]_sidecarVars, NEW h \in Handler, Answers(h), answer'[h] = 204
        PROVE  LET body == task[h].delivery.body
               IN  \/ EvaluateActivity(body.activity) = "ignore"
                   \/ Vote(body.fingerprint, EvaluateActivity(body.activity)) \in votes
    <2>1. answer \in [Handler -> {0, 204, 400, 401, 503}]
      BY <1>1 DEF SInv, Deliveries, SideTypes
    <2>2. CASE Judge(h)
      <3> DEFINE activity == task[h].delivery.body.activity
      <3>1. \A code : Respond(h, code) => code = 204
        BY <1>1, <2>1 DEF Respond
      <3>2. ~VotesOn(h)
        <4>1. task \in [Handler -> Task]
          BY <1>1 DEF SInv, Deliveries, SideTypes
        <4> QED
          BY <1>1, <4>1 DEF VotesOn, Answers, Task
      <3>3. EvaluateActivity(activity) \in {"approve", "reject", "ignore", "malformed"}
        BY DEF EvaluateActivity
      <3>4. EvaluateActivity(activity) = "ignore"
        BY <2>2, <3>1, <3>2, <3>3 DEF Judge, VotesOn
      <3> QED
        BY <3>4
    <2>3. CASE VoteAnswered(h)
      <3>1. task[h].pc = "voting" /\ task[h].result = "taken"
        BY <1>1, <2>1, <2>3 DEF VoteAnswered, Respond
      <3> QED
        BY <1>1, <3>1 DEF SInv, Voting, TasksFit, TaskFits
    <2>4. ~VoteUncertain(h) /\ ~VoteUnsent(h)
      BY <1>1, <2>1 DEF VoteUncertain, VoteUnsent, Respond
    <2> QED
      BY <1>1, <2>2, <2>3, <2>4, AnswersBy
  <1>2. SInv /\ [SNext]_sidecarVars =>
          [\A h \in Handler :
             Answers(h) /\ answer'[h] = 204 =>
               LET body == task[h].delivery.body
               IN  \/ EvaluateActivity(body.activity) = "ignore"
                   \/ Vote(body.fingerprint, EvaluateActivity(body.activity)) \in votes]_sidecarVars
    BY <1>1
  <1> QED
    BY <1>2, SidecarInvariant, PTL DEF SSpec, SuccessMeansVoted

(* Unless Turnkey has taken the vote or has told this handler that it      *)
(* turns it down, or nothing was sent, the answer asks for another         *)
(* delivery (turnkey_activity_webhook, VoteError::is_retryable).           *)
THEOREM UncertainIsAskedAgain == SSpec => UncertainIsRetried
  <1>1. ASSUME SInv, [SNext]_sidecarVars, NEW h \in Handler,
               Answers(h), task[h].pc = "voting", answer'[h] # 503
        PROVE  \/ Vote(task[h].delivery.body.fingerprint, task[h].vote) \in votes
               \/ task[h].result = "refused"
               \/ \E request \in requests : /\ request.from = h
                                           /\ requests' = requests \ {request}
    <2>1. answer \in [Handler -> {0, 204, 400, 401, 503}] /\ task[h] \in Task
      BY <1>1 DEF SInv, Deliveries, SideTypes
    <2>2. VoteAnswered(h) \/ VoteUnsent(h)
      <3>1. ~Judge(h)
        BY <1>1 DEF Judge
      <3>2. ~VoteUncertain(h)
        BY <1>1, <2>1 DEF VoteUncertain, Respond
      <3> QED
        BY <1>1, <3>1, <3>2, AnswersBy
    <2>3. CASE VoteAnswered(h)
      <3>1. task[h].result \in {"taken", "refused"}
        BY <2>1, <2>3 DEF VoteAnswered, Task
      <3> QED
        BY <1>1, <3>1 DEF SInv, Voting, TasksFit, TaskFits
    <2>4. CASE VoteUnsent(h)
      BY <2>4 DEF VoteUnsent
    <2> QED
      BY <2>2, <2>3, <2>4
  <1>2. SInv /\ [SNext]_sidecarVars =>
          [\A h \in Handler :
             Answers(h) /\ task[h].pc = "voting" /\ answer'[h] # 503 =>
               \/ Vote(task[h].delivery.body.fingerprint, task[h].vote) \in votes
               \/ task[h].result = "refused"
               \/ \E request \in requests : /\ request.from = h
                                           /\ requests' = requests \ {request}]_sidecarVars
    BY <1>1
  <1> QED
    BY <1>2, SidecarInvariant, PTL DEF SSpec, UncertainIsRetried

-----------------------------------------------------------------------------
(* Deliveries that nobody votes on                                         *)

(* A slow answer replaces a newer one and takes a key from the cache that  *)
(* the endpoint still publishes (refresh_keys).                            *)
DropsKey ==
  \E h \in Handler :
    StoreKeys(h) /\ \E k \in cache.keys \cap published : k \notin lookup[h].keys

(* The request looks for the key its delivery has been signed with, which  *)
(* is neither altered nor made up.                                         *)
Sought(h) ==
  /\ task[h].pc = "verifying"
  /\ lookup[h].key = task[h].delivery.signature.key
  /\ lookup[h].key \in Key

(* Such a key has been published, so that it is never published anew: if   *)
(* it still is in the document, it has been there since the request began, *)
(* and no answer the request gets can lack it.                             *)
KeyFetched(h) ==
  Sought(h) /\ lookup[h].pc \in {"fetching", "answered", "stored", "unknown"} =>
    /\ lastPublished[lookup[h].key] >= 1
    /\ lookup[h].key \in published /\ lookup[h].pc # "fetching" =>
         lookup[h].key \in lookup[h].keys

(* While no answer takes a published key away, it is read back too.        *)
KeyRead(h) ==
  Sought(h) /\ lookup[h].key \in published =>
    /\ LookupAt(h, "stored") => lookup[h].key \in cache.keys
    /\ ~LookupAt(h, "unknown")
KeysRead == \A h \in Handler : KeyRead(h)

(* The key looked for is that of the delivery, and what Turnkey has sent   *)
(* is as it makes deliveries.                                              *)
LooksUpItsKey ==
  \A h \in Handler : task[h].pc = "verifying" /\ ~LookupAt(h, "failed") =>
                       lookup[h].key = task[h].delivery.keyId
SentIsGenuine ==
  \A d \in sent : \E k \in Key, t \in Nat, a \in ActivityId, awaiting, parses \in BOOLEAN :
    d = GenuineDelivery(k, t, Update(a, awaiting, parses)) /\ lastPublished[k] >= 1

EInv ==
  /\ clock >= 1
  /\ \A h \in Handler : KeyFetched(h)
  /\ LooksUpItsKey
  /\ SentIsGenuine

(* The history only grows, and what enters the document is new.            *)
LEMMA DocumentGrows ==
  ASSUME SInv, EInv, [SNext]_sidecarVars
  PROVE  /\ clock' >= 1
         /\ \A k \in Key : /\ lastPublished[k] \in Nat /\ lastPublished'[k] \in Nat
                           /\ lastPublished'[k] >= lastPublished[k]
                           /\ k \in published' => k \in published \/ lastPublished[k] = 0
  <1>1. CASE Rotate \/ Tick
    BY <1>1, HistoryGrows DEF SInv, VInv, VTypeOK, EInv, Rotate, Tick
  <1>2. CASE UNCHANGED <<clock, published, lastPublished>>
    BY <1>2 DEF SInv, VInv, VTypeOK, EInv
  <1>3. [VNext]_verifierVars
    BY StepIsVerifierStep DEF SInv, VInv
  <1> QED
    BY <1>1, <1>2, <1>3
       DEF VNext, Verify, Done, LookUp, JwksAnswer, DiscoveryFails, StoreKeys, ReadBack,
           verifierVars

SameDelivery(h) ==
  /\ task[h].pc = "verifying" <=> task'[h].pc = "verifying"
  /\ task'[h].delivery = task[h].delivery

(* What a step can do to the lookup of one request: one of its own steps,  *)
(* its beginning or its end, or at most a change of what is cached.        *)
LEMMA LookupSteps ==
  ASSUME SInv, [SNext]_sidecarVars, NEW h \in Handler
  PROVE  \/ SameDelivery(h) /\ (JwksAnswer(h) \/ StoreKeys(h) \/ ReadBack(h))
         \/ task'[h].pc # "verifying" \/ lookup'[h].pc = "failed"
         \/ \E d \in Incoming : /\ LookUp(h, d.keyId)
                                /\ task'[h].delivery = d
         \/ /\ SameDelivery(h)
            /\ lookup'[h] = lookup[h]
            /\ UNCHANGED cache \/ \E g \in Handler : StoreKeys(g)
  <1>0. task \in [Handler -> Task] /\ VTypeOK
    BY DEF SInv, VInv, Deliveries, SideTypes
  <1>1. ASSUME NEW g \in Handler, Verify(g), UNCHANGED task
        PROVE  \/ SameDelivery(h) /\ (JwksAnswer(h) \/ StoreKeys(h) \/ ReadBack(h))
               \/ lookup'[h].pc = "failed"
               \/ /\ SameDelivery(h)
                  /\ lookup'[h] = lookup[h]
                  /\ UNCHANGED cache \/ \E f \in Handler : StoreKeys(f)
    <2>0. SameDelivery(h)
      BY <1>1 DEF SameDelivery
    <2>1. CASE g = h
      <3>1. DiscoveryFails(h) => lookup'[h].pc = "failed"
        BY <1>0 DEF DiscoveryFails, VTypeOK, NotLooking
      <3> QED
        BY <1>1, <2>0, <2>1, <3>1 DEF Verify
    <2>2. CASE g # h
      <3>1. lookup'[h] = lookup[h]
        BY <1>0, <1>1, <2>2
           DEF Verify, JwksAnswer, DiscoveryFails, StoreKeys, ReadBack, VTypeOK
      <3>2. UNCHANGED cache \/ StoreKeys(g)
        BY <1>1 DEF Verify, JwksAnswer, DiscoveryFails, ReadBack
      <3> QED
        BY <2>0, <3>1, <3>2
    <2> QED
      BY <2>1, <2>2
  <1>2. ASSUME NEW g \in Handler, Judge(g) \/ VoteAnswered(g) \/ VoteUnsent(g) \/ VoteUncertain(g)
        PROVE  \/ task'[h].pc # "verifying"
               \/ SameDelivery(h) /\ lookup'[h] = lookup[h] /\ UNCHANGED cache
    <2>1. UNCHANGED cache
      BY <1>2 DEF Judge, VoteAnswered, VoteUnsent, VoteUncertain, verifierVars
    <2>2. CASE g = h
      BY <1>0, <1>2, <2>2
         DEF Judge, VoteAnswered, VoteUnsent, VoteUncertain, Respond, NoTask, Task
    <2>3. CASE g # h
      <3>1. task'[h] = task[h]
        BY <1>0, <1>2, <2>3 DEF Judge, VoteAnswered, VoteUnsent, VoteUncertain, Respond
      <3>2. lookup'[h] = lookup[h]
        BY <1>0, <1>2, <2>3
           DEF Judge, VoteAnswered, VoteUnsent, VoteUncertain, verifierVars, VTypeOK
      <3> QED
        BY <2>1, <3>1, <3>2 DEF SameDelivery
    <2> QED
      BY <2>2, <2>3
  <1>3. ASSUME NEW g \in Handler, NEW d \in Incoming, Receive(g, d)
        PROVE  \/ task'[h].pc # "verifying"
               \/ LookUp(h, d.keyId) /\ task'[h].delivery = d
               \/ SameDelivery(h) /\ lookup'[h] = lookup[h] /\ UNCHANGED cache
    <2>1. CASE Plausible(d)
      <3> DEFINE t == [NoTask EXCEPT !.pc = "verifying", !.delivery = d]
      <3>1. t.delivery = d
        BY DEF NoTask
      <3>2. task' = [task EXCEPT ![g] = t] /\ LookUp(g, d.keyId)
        BY <1>3, <2>1 DEF Receive
      <3> HIDE DEF t
      <3>3. CASE g = h
        BY <1>0, <3>1, <3>2, <3>3
      <3>4. CASE g # h
        BY <1>0, <3>2, <3>4 DEF LookUp, VTypeOK, SameDelivery
      <3> QED
        BY <3>3, <3>4
    <2>2. CASE ~Plausible(d)
      BY <1>0, <1>3, <2>2 DEF Receive, Respond, NoTask, SameDelivery, verifierVars
    <2> QED
      BY <2>1, <2>2
  <1>4. ASSUME NEW request \in requests, TakeVote(request) \/ RefuseVote(request)
        PROVE  SameDelivery(h) /\ lookup'[h] = lookup[h] /\ UNCHANGED cache
    <2>1. task'[h].pc = task[h].pc /\ task'[h].delivery = task[h].delivery
      BY <1>0, <1>4 DEF TakeVote, RefuseVote, Tell, Task
    <2> QED
      BY <1>4, <2>1 DEF TakeVote, RefuseVote, SameDelivery, verifierVars
  <1>5. CASE UNCHANGED <<task, lookup, cache>>
    BY <1>5 DEF SameDelivery
  <1>6. CASE \E g \in Handler : Handle(g)
    <2>1. PICK g \in Handler : Handle(g)
      BY <1>6
    <2> QED
      BY <1>1, <1>2, <2>1 DEF Handle
  <1>7. CASE \E g \in Handler : \E d \in Incoming : Receive(g, d)
    BY <1>3, <1>7
  <1>8. CASE Turnkey \/ UNCHANGED sidecarVars
    BY <1>4, <1>5, <1>8
       DEF Turnkey, SendUpdate, LoseVote, CompleteActivity, Rotate, Tick, sidecarVars,
           verifierVars
  <1> QED
    BY <1>6, <1>7, <1>8 DEF SNext

(* What Turnkey has signed was signed with a key it had published; what    *)
(* it has not signed carries the key of nobody.                            *)
LEMMA IncomingKey ==
  ASSUME SInv, EInv, NEW delivery \in Incoming, delivery.signature.key \in Key
  PROVE  lastPublished[delivery.signature.key] >= 1
  <1>1. \A d \in sent : lastPublished[d.signature.key] >= 1
    BY DEF EInv, SentIsGenuine, GenuineDelivery, Signed
  <1>2. ASSUME NEW d \in sent, delivery \in Altered(d) PROVE delivery.signature = d.signature
    <2>1. d \in Delivery
      BY DEF SInv, Deliveries, SideTypes
    <2>2. /\ [d EXCEPT !.headersOk = FALSE].signature = d.signature
          /\ [d EXCEPT !.activityUpdates = FALSE].signature = d.signature
          /\ [d EXCEPT !.timestamp = clock].signature = d.signature
          /\ [d EXCEPT !.body.fingerprint = Missing].signature = d.signature
          /\ \A k : [d EXCEPT !.keyId = k].signature = d.signature
          /\ \A o : [d EXCEPT !.organization = o].signature = d.signature
          /\ \A a : [d EXCEPT !.body.activity = Content[a]].signature = d.signature
      BY <2>1 DEF Delivery
    <2> QED
      BY <1>2, <2>2 DEF Altered
  <1>3. delivery \notin Forged
    BY ForgedSignature, VerifierConstants DEF SInv, VInv
  <1> QED
    BY <1>1, <1>2, <1>3 DEF Incoming

LEMMA KeyFetchedOK ==
  ASSUME SInv, EInv, [SNext]_sidecarVars, NEW h \in Handler PROVE KeyFetched(h)'
  <1> DEFINE k == lookup'[h].key
  <1> SUFFICES ASSUME Sought(h)', lookup'[h].pc \in {"fetching", "answered", "stored", "unknown"}
               PROVE  /\ lastPublished'[k] >= 1
                      /\ k \in published' /\ lookup'[h].pc # "fetching" => k \in lookup'[h].keys
    BY DEF KeyFetched
  <1>0. k \in Key /\ task'[h].pc = "verifying" /\ k = task'[h].delivery.signature.key
    BY DEF Sought
  <1>1. KeyFetched(h) /\ lookup \in [Handler -> LookupState]
    BY DEF SInv, VInv, VTypeOK, LookupState, EInv
  <1> HIDE DEF k
  <1>2. CASE SameDelivery(h) /\ JwksAnswer(h)
    <2>1. PICK maxAge \in MaxAge :
            lookup' = [lookup EXCEPT ![h].pc = "answered", ![h].keys = published,
                                     ![h].maxAge = maxAge]
      BY <1>2 DEF JwksAnswer
    <2>2. /\ lookup'[h].keys = published
          /\ lookup'[h].key = lookup[h].key
          /\ lookup[h].pc = "fetching"
          /\ UNCHANGED <<published, lastPublished>>
      BY <1>1, <1>2, <2>1 DEF JwksAnswer, LookupState, LookupAt
    <2>3. Sought(h)
      BY <1>0, <1>2, <2>2 DEF Sought, SameDelivery, k
    <2> QED
      BY <1>1, <2>2, <2>3 DEF KeyFetched, k
  <1>3. CASE SameDelivery(h) /\ (StoreKeys(h) \/ ReadBack(h))
    <2>1. /\ lookup'[h].keys = lookup[h].keys
          /\ lookup'[h].key = lookup[h].key
          /\ lookup[h].pc \in {"answered", "stored"}
          /\ UNCHANGED <<published, lastPublished>>
      BY <1>1, <1>3 DEF StoreKeys, ReadBack, LookupState, LookupAt
    <2>2. Sought(h)
      BY <1>0, <1>3, <2>1 DEF Sought, SameDelivery, k
    <2> QED
      BY <1>1, <2>1, <2>2 DEF KeyFetched, k
  <1>4. CASE \E d \in Incoming : LookUp(h, d.keyId) /\ task'[h].delivery = d
    <2>1. PICK d \in Incoming : LookUp(h, d.keyId) /\ task'[h].delivery = d
      BY <1>4
    <2>2. lastPublished[k] >= 1
      BY <1>0, <2>1, IncomingKey
    <2>3. lookup'[h].pc \in {"found", "fetching"} /\ UNCHANGED lastPublished
      BY <1>1, <2>1 DEF LookUp, NotLooking
    <2> QED
      BY <2>2, <2>3
  <1>5. CASE SameDelivery(h) /\ lookup'[h] = lookup[h]
    <2>1. Sought(h)
      BY <1>0, <1>5 DEF Sought, SameDelivery, k
    <2>2. lastPublished[k] >= 1
      BY <1>1, <1>5, <2>1 DEF KeyFetched, k
    <2>3. /\ lastPublished[k] \in Nat /\ lastPublished'[k] \in Nat
          /\ lastPublished'[k] >= lastPublished[k]
          /\ k \in published' => k \in published
      BY <1>0, <2>2, DocumentGrows
    <2> QED
      BY <1>1, <1>5, <2>1, <2>2, <2>3 DEF KeyFetched, k
  <1> QED
    BY <1>0, <1>2, <1>3, <1>4, <1>5, LookupSteps

LEMMA KeyReadOK ==
  ASSUME SInv, EInv, KeysRead, [SNext]_sidecarVars, ~DropsKey, NEW h \in Handler
  PROVE  KeyRead(h)'
  <1> DEFINE k == lookup'[h].key
  <1> SUFFICES ASSUME Sought(h)', k \in published', lookup'[h].pc \in {"stored", "unknown"}
               PROVE  lookup'[h].pc = "stored" /\ k \in cache'.keys
    BY DEF KeyRead, LookupAt
  <1>0. k \in Key /\ task'[h].pc = "verifying" /\ k = task'[h].delivery.signature.key
    BY DEF Sought
  <1>1. KeyRead(h) /\ KeyFetched(h) /\ lookup \in [Handler -> LookupState]
    BY DEF SInv, VInv, VTypeOK, LookupState, EInv, KeysRead
  <1> HIDE DEF k
  <1>2. ASSUME SameDelivery(h), lookup'[h].key = lookup[h].key PROVE Sought(h)
    BY <1>0, <1>2 DEF Sought, SameDelivery, k
  <1>3. CASE SameDelivery(h) /\ JwksAnswer(h)
    BY <1>1, <1>3 DEF JwksAnswer, LookupState
  <1>4. CASE SameDelivery(h) /\ StoreKeys(h)
    <2>1. /\ cache'.keys = lookup[h].keys
          /\ lookup'[h].key = lookup[h].key
          /\ lookup'[h].pc = "stored"
          /\ lookup[h].pc = "answered"
          /\ UNCHANGED published
      BY <1>1, <1>4 DEF StoreKeys, LookupState, LookupAt
    <2> QED
      BY <1>1, <1>2, <1>4, <2>1 DEF KeyFetched, k
  <1>5. CASE SameDelivery(h) /\ ReadBack(h)
    <2>1. /\ lookup'[h].key = lookup[h].key
          /\ lookup'[h].pc = "unknown" => lookup[h].key \notin cache.keys
          /\ lookup'[h].pc # "stored"
          /\ LookupAt(h, "stored")
          /\ UNCHANGED <<published, cache>>
      BY <1>1, <1>5 DEF ReadBack, LookupState
    <2> QED
      BY <1>1, <1>2, <1>5, <2>1 DEF KeyRead, k
  <1>6. CASE \E d \in Incoming : LookUp(h, d.keyId) /\ task'[h].delivery = d
    BY <1>1, <1>6 DEF LookUp, NotLooking
  <1>7. CASE /\ SameDelivery(h)
             /\ lookup'[h] = lookup[h]
             /\ UNCHANGED cache \/ \E g \in Handler : StoreKeys(g)
    <2>1. Sought(h) /\ k = lookup[h].key
      BY <1>2, <1>7 DEF k
    <2>2. lastPublished[k] >= 1
      BY <1>1, <1>7, <2>1 DEF KeyFetched
    <2>3. k \in published
      BY <1>0, <2>2, DocumentGrows
    <2>4. lookup'[h].pc = "stored" /\ k \in cache.keys
      BY <1>1, <1>7, <2>1, <2>3 DEF KeyRead, LookupAt
    <2>5. ASSUME NEW g \in Handler, StoreKeys(g) PROVE k \in cache'.keys
      BY <2>3, <2>4, <2>5 DEF DropsKey, StoreKeys
    <2> QED
      BY <1>7, <2>4, <2>5
  <1> QED
    BY <1>0, <1>3, <1>4, <1>5, <1>6, <1>7, LookupSteps

LEMMA SentIsGenuineOK ==
  ASSUME SInv, EInv, [SNext]_sidecarVars PROVE SentIsGenuine'
  <1>1. \A k \in Key : /\ lastPublished[k] \in Nat /\ lastPublished'[k] \in Nat
                       /\ lastPublished'[k] >= lastPublished[k]
    BY DocumentGrows
  <1>2. CASE UNCHANGED sent
    BY <1>1, <1>2 DEF EInv, SentIsGenuine
  <1>3. CASE SendUpdate
    <2>1. PICK k \in published, a \in ActivityId, awaiting \in BOOLEAN, parses \in BOOLEAN :
            sent' = sent \cup {GenuineDelivery(k, clock, Update(a, awaiting, parses))}
      BY <1>3 DEF SendUpdate, Update
    <2>2. k \in Key /\ clock \in Nat /\ lastPublished[k] = clock
      BY DEF SInv, VInv, VTypeOK, HistoryFits
    <2>3. lastPublished'[k] >= 1
      BY <1>3, <2>2 DEF SendUpdate, verifierVars, EInv
    <2> DEFINE new == GenuineDelivery(k, clock, Update(a, awaiting, parses))
    <2>4. \E j \in Key, t \in Nat, b \in ActivityId, w \in BOOLEAN, p \in BOOLEAN :
            new = GenuineDelivery(j, t, Update(b, w, p)) /\ lastPublished'[j] >= 1
      BY <2>2, <2>3
    <2> HIDE DEF new
    <2> QED
      BY <1>1, <2>1, <2>4 DEF EInv, SentIsGenuine, new
  <1> QED
    BY <1>2, <1>3
       DEF SNext, Handle, Judge, VoteAnswered, VoteUnsent, VoteUncertain, Receive, Turnkey,
           TakeVote, RefuseVote, LoseVote, CompleteActivity, turnkeyVars, sidecarVars

LEMMA LooksUpOK == ASSUME SInv, EInv, [SNext]_sidecarVars PROVE LooksUpItsKey'
  <1> SUFFICES ASSUME NEW h \in Handler, task'[h].pc = "verifying", lookup'[h].pc # "failed"
               PROVE  lookup'[h].key = task'[h].delivery.keyId
    BY DEF LooksUpItsKey, LookupAt
  <1>0. lookup \in [Handler -> LookupState]
    BY DEF SInv, VInv, VTypeOK, LookupState
  <1>1. ASSUME SameDelivery(h), lookup'[h].key = lookup[h].key, lookup[h].pc # "failed"
        PROVE  lookup'[h].key = task'[h].delivery.keyId
    BY <1>1 DEF EInv, LooksUpItsKey, LookupAt, SameDelivery
  <1>2. CASE SameDelivery(h) /\ (JwksAnswer(h) \/ StoreKeys(h) \/ ReadBack(h))
    <2>1. lookup'[h].key = lookup[h].key /\ lookup[h].pc # "failed"
      BY <1>0, <1>2 DEF JwksAnswer, StoreKeys, ReadBack, LookupState, LookupAt
    <2> QED
      BY <1>1, <1>2, <2>1
  <1>3. CASE \E d \in Incoming : LookUp(h, d.keyId) /\ task'[h].delivery = d
    BY <1>0, <1>3 DEF LookUp, NotLooking
  <1>4. CASE SameDelivery(h) /\ lookup'[h] = lookup[h]
    BY <1>1, <1>4
  <1> QED
    BY <1>2, <1>3, <1>4, LookupSteps

LEMMA EInitOK == SInit => EInv /\ KeysRead
  BY DEF SInit, VInit, NoTask, EInv, KeyFetched, KeysRead, KeyRead, Sought, LooksUpItsKey,
         SentIsGenuine

LEMMA EStepOK == ASSUME SInv, EInv, [SNext]_sidecarVars PROVE EInv'
  BY DocumentGrows, KeyFetchedOK, LooksUpOK, SentIsGenuineOK DEF EInv

(* An eligible delivery that is sent away: its own answer had the key, and *)
(* with the key found it would have been voted on.                         *)
LEMMA DismissedIsOvertaken ==
  ASSUME SInv, EInv, [SNext]_sidecarVars, NEW h \in Handler, Dismissed(h)
  PROVE  /\ LookupAt(h, "unknown")
         /\ task[h].delivery.keyId \in lookup[h].keys
         /\ Sought(h) /\ lookup[h].key \in published
  <1> DEFINE d == task[h].delivery
  <1>0. Answers(h) /\ task[h].pc = "verifying" /\ Eligible(d) /\ answer'[h] # 503
    BY DEF Dismissed
  <1>1. Judge(h)
    BY <1>0, AnswersBy DEF VoteAnswered, VoteUnsent, VoteUncertain
  <1>2. answer \in [Handler -> {0, 204, 400, 401, 503}] /\ task \in [Handler -> Task]
    BY DEF SInv, Deliveries, SideTypes
  <1>3. ~LookupAt(h, "failed")
    BY <1>0, <1>1, <1>2 DEF Judge, Respond, LookupAt
  <1>4. PICK k \in Key, t \in Nat, a \in ActivityId, awaiting \in BOOLEAN, parses \in BOOLEAN :
          d = GenuineDelivery(k, t, Update(a, awaiting, parses))
    <2>1. d \in sent /\ SentIsGenuine
      BY <1>0 DEF Eligible, EInv
    <2> HIDE DEF d
    <2> QED
      BY <2>1 DEF SentIsGenuine
  <1>5. lookup[h].key = d.keyId /\ d.keyId \in published
    BY <1>0, <1>3 DEF Eligible, EInv, LooksUpItsKey
  <1>6. d.keyId = k /\ d.signature.key = k
    BY <1>4 DEF GenuineDelivery, Signed
  <1>7. Sought(h) /\ lookup[h].key \in published
    BY <1>0, <1>5, <1>6 DEF Sought
  <1>8. ~LookupAt(h, "found")
    <2> SUFFICES ASSUME LookupAt(h, "found") PROVE FALSE
      OBVIOUS
    <2>1. /\ ValidSignature(d, lookup[h].key)
          /\ d.activityUpdates
          /\ d.organization = d.body.activity.organization
          /\ d.body.fingerprint = a
      BY <1>4, <1>5, <1>6 DEF GenuineDelivery, ValidSignature, Update
    <2>2. /\ ForUs(d) /\ d.body.fingerprint # Missing /\ d.body.parses
          /\ EvaluateActivity(d.body.activity) \in {"approve", "reject"}
      BY <1>0, <2>1, SidecarConstants DEF Eligible, ForUs
    <2> HIDE DEF d
    <2>3. task'[h].pc = "voting"
      BY <1>1, <1>2, <1>3, <2>1, <2>2 DEF Judge, Task, d
    <2> QED
      BY <1>0, <2>3 DEF Answers
  <1>9. LookupAt(h, "unknown")
    BY <1>1, <1>3, <1>8 DEF Judge, LookupAt
  <1> QED
    BY <1>5, <1>7, <1>9 DEF EInv, KeyFetched, LookupAt

(* Only a request whose own answer had the key, and was replaced by an     *)
(* older one before it was read back, sends an eligible delivery away      *)
(* (verification_key, refresh_keys): with any keys, whatever is forged.    *)
THEOREM DismissalMeansOvertaken == SSpec => RefusedOnlyIfOvertaken
  <1>1. SInit => SInv /\ EInv
    BY SInitOK, EInitOK
  <1>2. SInv /\ EInv /\ [SNext]_sidecarVars => SInv' /\ EInv'
    BY SStepOK, EStepOK
  <1>3. SInv /\ EInv /\ [SNext]_sidecarVars =>
          [\A h \in Handler : Dismissed(h) =>
             /\ LookupAt(h, "unknown")
             /\ task[h].delivery.keyId \in lookup[h].keys]_sidecarVars
    BY DismissedIsOvertaken
  <1> QED
    BY <1>1, <1>2, <1>3, PTL DEF SSpec, RefusedOnlyIfOvertaken

(* README.md, "Every eligible webhook delivery submits a vote": it does,   *)
(* with any number of keys, unless a slow JWKS answer takes a published    *)
(* key out of the cache; nothing else can break the sentence.              *)
THEOREM EligibleUnlessOvertaken ==
  SSpec /\ [][~DropsKey]_sidecarVars => EligibleDeliveryVotes
  <1>1. SInit => SInv /\ EInv /\ KeysRead
    BY SInitOK, EInitOK
  <1>2. ASSUME SInv, EInv, KeysRead, [SNext]_sidecarVars, [~DropsKey]_sidecarVars
        PROVE  SInv' /\ EInv' /\ KeysRead'
    <2>1. CASE UNCHANGED sidecarVars
      <3>1. KeysRead'
        BY <1>2, <2>1 DEF sidecarVars, verifierVars, KeysRead, KeyRead, Sought, LookupAt
      <3> QED
        BY <1>2, <3>1, SStepOK, EStepOK
    <2>2. CASE ~DropsKey
      BY <1>2, <2>2, SStepOK, EStepOK, KeyReadOK DEF KeysRead
    <2> QED
      BY <1>2, <2>1, <2>2
  <1>3. SInv /\ EInv /\ KeysRead /\ [SNext]_sidecarVars =>
          [\A h \in Handler : ~Dismissed(h)]_sidecarVars
    BY DismissedIsOvertaken DEF KeysRead, KeyRead
  <1> QED
    BY <1>1, <1>2, <1>3, PTL DEF SSpec, EligibleDeliveryVotes
=============================================================================
