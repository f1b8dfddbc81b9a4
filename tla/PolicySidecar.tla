---------------------------- MODULE PolicySidecar ----------------------------
(***************************************************************************)
(* The Turnkey policy sidecar: turnkey_activity_webhook of                 *)
(* crates/policy-sidecar/src/webhook.rs over the key cache and the policy, *)
(* and the votes it sends (turnkey_voter.rs).                              *)
(*                                                                         *)
(* Between receiving a delivery and answering it a handler awaits twice:   *)
(* for the verification key and for Turnkey's answer to its vote.  Other   *)
(* handlers run in between, deliveries are duplicated and delayed, and a   *)
(* vote may reach Turnkey although the handler has given up on it.         *)
(*                                                                         *)
(* Turnkey is outside src/ and is modelled by the deliveries it signs and  *)
(* the way it takes votes.                                                 *)
(***************************************************************************)
EXTENDS WebhookVerifier, AptosPolicy, FiniteSets

CONSTANTS
  ActivityId,        \* activities known to Turnkey, named by fingerprint
  Content,           \* what each of them asks for, as created
  Unreadable,        \* those whose update may be no ActivityWebhookPayload
  OurOrganization,   \* --turnkey-organization-id
  MAX_TIMESTAMP_AGE,
  NoHandler,
  MaxSent,           \* bound: distinct deliveries Turnkey signs
  ForgedAbout        \* bound: the activities that forged posts name

ASSUME SidecarConstants ==
  /\ Content \in [ActivityId -> Activity]
  /\ \A a \in ActivityId : Content[a].consensusNeeded
  /\ Unreadable \subseteq ActivityId
  /\ OurOrganization \in Organization
  /\ MAX_TIMESTAMP_AGE \in Nat
  /\ NoHandler \notin Handler
  /\ MaxSent \in Nat
  /\ ForgedAbout \subseteq ActivityId
  /\ Missing \notin ActivityId

VARIABLES
  status,            \* each activity's status at Turnkey
  sent,              \* deliveries Turnkey has signed so far
  task,              \* task[h]: the delivery h handles and how far it is
  answer,            \* answer[h]: the status code of h's last response
  requests,          \* votes on their way to Turnkey
  votes              \* votes Turnkey has taken

turnkeyVars == <<status, sent, votes>>
sidecarVars == <<verifierVars, turnkeyVars, task, answer, requests>>

(* A delivery: the signed bytes are its timestamp and its body (the event  *)
(* id adds nothing here); the other headers are not covered.  A body that  *)
(* is no ActivityWebhookPayload does not parse.                            *)
Body == [parses : BOOLEAN, fingerprint : ActivityId \cup {Missing}, activity : Activity]
Signed(k, timestamp, body) == [key |-> k, timestamp |-> timestamp, body |-> body]

GenuineDelivery(k, timestamp, body) ==
  [headersOk       |-> TRUE,   \* all present, versions and algorithm right
   organization    |-> body.activity.organization,
   activityUpdates |-> TRUE,
   keyId           |-> k,
   timestamp       |-> timestamp,
   body            |-> body,
   signature       |-> Signed(k, timestamp, body)]

NoTask == [pc |-> "idle", delivery |-> Missing, vote |-> "none", result |-> "none"]

SInit ==
  /\ VInit
  /\ status = [a \in ActivityId |-> "awaiting"]
  /\ sent = {}
  /\ task = [h \in Handler |-> NoTask]
  /\ answer = [h \in Handler |-> 0]
  /\ requests = {}
  /\ votes = {}

-----------------------------------------------------------------------------
(* Turnkey                                                                 *)

(* A signed activity update with the status of the moment.                 *)
SendUpdate ==
  /\ Cardinality(sent) < MaxSent
  /\ \E k \in published, a \in ActivityId, parses \in BOOLEAN :
       /\ ~parses => a \in Unreadable
       /\ LET body == [parses      |-> parses,
                       fingerprint |-> a,
                       activity    |-> [Content[a] EXCEPT !.consensusNeeded =
                                          (status[a] = "awaiting")]]
          IN  sent' = sent \cup {GenuineDelivery(k, clock, body)}
  /\ UNCHANGED <<verifierVars, status, votes, task, answer, requests>>

Tell(request, result) ==
  task' = [h \in Handler |-> IF h = request.from THEN [task[h] EXCEPT !.result = result]
                                                 ELSE task[h]]

(* A vote arrives.  It counts while the activity awaits consensus, which   *)
(* it may or may not complete.                                             *)
TakeVote(request) ==
  /\ request \in requests
  /\ requests' = requests \ {request}
  /\ status[request.activity] = "awaiting"
  /\ votes' = votes \cup {[activity |-> request.activity, vote |-> request.vote]}
  /\ \E s \in {"awaiting", "completed"} :
       status' = [status EXCEPT ![request.activity] = s]
  /\ Tell(request, "taken")
  /\ UNCHANGED <<verifierVars, sent, answer>>

Orphan(request) == [request EXCEPT !.from = NoHandler]

(* Turnkey turns a vote down, as it must once the activity is decided: a   *)
(* 4xx other than 408 and 429, or an activity that failed, was rejected,   *)
(* or needs the approval of others, which may yet make the vote count.     *)
RefuseVote(request) ==
  /\ request \in requests
  /\ \/ requests' = requests \ {request}
     \/ requests' = (requests \ {request}) \cup {Orphan(request)}
  /\ Tell(request, "refused")
  /\ UNCHANGED <<verifierVars, turnkeyVars, answer>>

(* A vote that never arrives, or that Turnkey answers with 5xx, 408 or 429.*)
LoseVote(request) ==
  /\ request \in requests
  /\ requests' = requests \ {request}
  /\ UNCHANGED <<verifierVars, turnkeyVars, task, answer>>

(* The activity is decided without the sidecar.                            *)
CompleteActivity(a) ==
  /\ status[a] = "awaiting"
  /\ status' = [status EXCEPT ![a] = "completed"]
  /\ UNCHANGED <<verifierVars, sent, votes, task, answer, requests>>

-----------------------------------------------------------------------------
(* The handler                                                             *)

Respond(h, code) ==
  /\ answer' = [answer EXCEPT ![h] = code]
  /\ task' = [task EXCEPT ![h] = NoTask]

(* What may arrive of a delivery Turnkey signed, as often as it is         *)
(* repeated: anything between may have changed it.                         *)
Altered(delivery) ==
  {[delivery EXCEPT !.headersOk = FALSE],
   [delivery EXCEPT !.activityUpdates = FALSE],
   [delivery EXCEPT !.timestamp = clock],
   [delivery EXCEPT !.body.fingerprint = Missing]}
    \cup {[delivery EXCEPT !.keyId = k] : k \in Key \cup {NoKey}}
    \cup {[delivery EXCEPT !.organization = o] : o \in Organization}
    \cup {[delivery EXCEPT !.body.activity = Content[a]] : a \in ActivityId}

(* What anybody may post at any time, under any key id: its signature is   *)
(* that of none of Turnkey's keys.                                         *)
ForgedPost(k, a) ==
  LET body == [parses |-> TRUE, fingerprint |-> a, activity |-> Content[a]]
  IN  [GenuineDelivery(k, clock, body) EXCEPT !.signature = Signed(NoKey, clock, body)]
Forged == {ForgedPost(k, a) : k \in Key \cup {NoKey}, a \in ForgedAbout}

Incoming == sent \cup Forged \cup UNION {Altered(delivery) : delivery \in sent}

Distance(a, b) == IF a >= b THEN a - b ELSE b - a

(* The checks of verify_at that precede the key lookup.                    *)
Plausible(delivery) ==
  /\ delivery.headersOk
  /\ Distance(clock, delivery.timestamp) <= MAX_TIMESTAMP_AGE

Receive(h, delivery) ==
  /\ task[h].pc = "idle"
  /\ IF Plausible(delivery)
     THEN /\ LookUp(h, delivery.keyId)
          /\ task' = [task EXCEPT ![h] =
                        [NoTask EXCEPT !.pc = "verifying", !.delivery = delivery]]
          /\ answer' = [answer EXCEPT ![h] = 0]
     ELSE /\ Respond(h, 401)
          /\ UNCHANGED verifierVars
  /\ UNCHANGED <<turnkeyVars, requests>>

(* Ed25519 verification of the signed bytes under a key.                   *)
ValidSignature(delivery, k) ==
  delivery.signature = Signed(k, delivery.timestamp, delivery.body)

(* Wrong variant: only the organization header is compared.                *)
HeaderForUs(delivery) == delivery.organization = OurOrganization

ForUs(delivery) ==
  /\ delivery.organization = OurOrganization
  /\ delivery.body.activity.organization = OurOrganization

(* From the end of the key lookup to the vote, without awaiting anything.  *)
Judge(h) ==
  LET delivery == task[h].delivery
      decision == EvaluateActivity(delivery.body.activity)
      verified == LookupAt(h, "found") /\ ValidSignature(delivery, lookup[h].key)
  IN  /\ task[h].pc = "verifying"
      /\ lookup[h].pc \in {"found", "unknown", "failed"}
      /\ lookup' = [lookup EXCEPT ![h] = NotLooking]
      /\ \/ /\ LookupAt(h, "failed")
            /\ Respond(h, 503)
            /\ UNCHANGED requests
         \/ /\ ~LookupAt(h, "failed")
            /\ ~verified
            /\ Respond(h, 401)
            /\ UNCHANGED requests
         \/ /\ verified
            /\ ~delivery.activityUpdates
            /\ Respond(h, 400)
            /\ UNCHANGED requests
         \/ /\ verified
            /\ delivery.activityUpdates
            /\ ~delivery.body.parses
            /\ Respond(h, 400)
            /\ UNCHANGED requests
         \/ /\ verified
            /\ delivery.activityUpdates
            /\ delivery.body.parses
            /\ ~ForUs(delivery)
            /\ Respond(h, 401)
            /\ UNCHANGED requests
         \/ /\ verified
            /\ delivery.activityUpdates
            /\ delivery.body.parses
            /\ ForUs(delivery)
            /\ CASE decision = "ignore" -> Respond(h, 204) /\ UNCHANGED requests
                 [] \/ decision = "malformed"
                    \/ decision # "ignore" /\ delivery.body.fingerprint = Missing ->
                      Respond(h, 400) /\ UNCHANGED requests
                 [] OTHER ->
                      /\ task' = [task EXCEPT ![h].pc = "voting", ![h].vote = decision]
                      /\ requests' = requests \cup
                           {[from     |-> h,
                             activity |-> delivery.body.fingerprint,
                             vote     |-> decision]}
                      /\ UNCHANGED answer
      /\ UNCHANGED <<clock, published, lastPublished, cache, turnkeyVars>>

(* Turnkey's answer to the vote arrives in time.                           *)
VoteAnswered(h) ==
  /\ task[h].pc = "voting"
  /\ task[h].result # "none"
  /\ Respond(h, IF task[h].result = "taken" THEN 204 ELSE 400)
  /\ UNCHANGED <<verifierVars, turnkeyVars, requests>>

(* Wrong variants: an uncertain vote counts as cast, or as refused.         *)
VoteAssumed(h) ==
  /\ task[h].pc = "voting"
  /\ Respond(h, 204)
  /\ requests' = {IF request.from = h THEN Orphan(request) ELSE request : request \in requests}
  /\ UNCHANGED <<verifierVars, turnkeyVars>>

VoteGivenUp(h) ==
  /\ task[h].pc = "voting"
  /\ Respond(h, 400)
  /\ requests' = {IF request.from = h THEN Orphan(request) ELSE request : request \in requests}
  /\ UNCHANGED <<verifierVars, turnkeyVars>>

(* The vote cannot be built or stamped, and nothing is sent.               *)
VoteUnsent(h) ==
  /\ task[h].pc = "voting"
  /\ \E request \in requests : /\ request.from = h
                              /\ requests' = requests \ {request}
  /\ Respond(h, 400)
  /\ UNCHANGED <<verifierVars, turnkeyVars>>

(* The request times out, fails, or is answered by something unusable: the *)
(* vote may be lost, still under way, or taken already.                    *)
VoteUncertain(h) ==
  /\ task[h].pc = "voting"
  /\ Respond(h, 503)
  /\ requests' = {IF request.from = h THEN Orphan(request) ELSE request : request \in requests}
  /\ UNCHANGED <<verifierVars, turnkeyVars>>

-----------------------------------------------------------------------------

Handle(h) ==
  \/ Verify(h) /\ UNCHANGED <<turnkeyVars, task, answer, requests>>
  \/ Judge(h)
  \/ VoteAnswered(h)
  \/ VoteUnsent(h)
  \/ VoteUncertain(h)

Turnkey ==
  \/ SendUpdate
  \/ \E request \in requests : TakeVote(request) \/ RefuseVote(request) \/ LoseVote(request)
  \/ \E a \in ActivityId : CompleteActivity(a)
  \/ Rotate /\ UNCHANGED <<turnkeyVars, task, answer, requests>>
  \/ Tick /\ UNCHANGED <<turnkeyVars, task, answer, requests>>

SNext ==
  \/ \E h \in Handler : Handle(h) \/ \E delivery \in Incoming : Receive(h, delivery)
  \/ Turnkey

(* A request in progress is polled until it is done: each of its awaits    *)
(* ends, by the client's four-second timeouts at the latest.               *)
SFairness == \A h \in Handler : WF_sidecarVars(Handle(h))

SSpec == SInit /\ [][SNext]_sidecarVars /\ SFairness

-----------------------------------------------------------------------------
(* Properties                                                              *)

Vote(a, decision) == [activity |-> a, vote |-> decision]
PolicyVote(a) == EvaluateActivity(Content[a])

(* A request knows what it handles, and one handler has at most one vote   *)
(* under way whose answer it still waits for.                              *)
STypeOK ==
  /\ VTypeOK
  /\ status \in [ActivityId -> {"awaiting", "completed"}]
  /\ answer \in [Handler -> {0, 204, 400, 401, 503}]
  /\ votes \subseteq [activity : ActivityId, vote : {"approve", "reject"}]
  /\ \A request \in requests :
       request.from # NoHandler => /\ task[request.from].pc = "voting"
                                  /\ task[request.from].result = "none"
  /\ \A h \in Handler : task[h].pc = "verifying" <=> lookup[h].pc # "idle"

(* Whatever is delivered, however altered, late or often, the sidecar only *)
(* ever sends the vote that its policy gives to what the initiator really  *)
(* asked for, and only on activities of its own organization.              *)
VotesFollowPolicy ==
  \A v \in votes \cup {Vote(request.activity, request.vote) : request \in requests} :
    /\ Content[v.activity].organization = OurOrganization
    /\ v.vote = PolicyVote(v.activity)

Answers(h) == task[h].pc # "idle" /\ task'[h].pc = "idle"

(* A 204 for an activity that calls for a vote is sent only once Turnkey   *)
(* has taken that vote: there is no background queue to lose it from.      *)
SuccessMeansVoted ==
  [][\A h \in Handler :
       Answers(h) /\ answer'[h] = 204 =>
         LET body == task[h].delivery.body
         IN  \/ EvaluateActivity(body.activity) = "ignore"
             \/ Vote(body.fingerprint, EvaluateActivity(body.activity)) \in votes]_sidecarVars

(* A vote whose fate is unknown is never given up on: the answer asks for  *)
(* another delivery unless Turnkey has taken the vote, has told this very  *)
(* handler that it turns it down, or has never been sent it.               *)
UncertainIsRetried ==
  [][\A h \in Handler :
       Answers(h) /\ task[h].pc = "voting" /\ answer'[h] # 503 =>
         \/ Vote(task[h].delivery.body.fingerprint, task[h].vote) \in votes
         \/ task[h].result = "refused"
         \/ \E request \in requests : /\ request.from = h
                                     /\ requests' = requests \ {request}]_sidecarVars

(* A delivery as Turnkey made it, signed with a key it still publishes,    *)
(* for an activity of this organization that calls for a vote.             *)
Eligible(delivery) ==
  /\ delivery \in sent
  /\ delivery.keyId \in published
  /\ delivery.body.parses
  /\ delivery.organization = OurOrganization
  /\ EvaluateActivity(delivery.body.activity) \in {"approve", "reject"}

Dismissed(h) ==
  /\ Answers(h)
  /\ task[h].pc = "verifying"
  /\ Eligible(task[h].delivery)
  /\ answer'[h] # 503

(* Such a delivery, once past the freshness check, is sent away for good   *)
(* in one way only: the handler was told of the key by its own answer from *)
(* the endpoint, and an older answer to another request has replaced that  *)
(* one before the handler reads it back.  Otherwise it goes on to vote, or *)
(* its 503 asks for another delivery; a failed discovery never counts as   *)
(* the lack of the key.                                                    *)
RefusedOnlyIfOvertaken ==
  [][\A h \in Handler : Dismissed(h) =>
       /\ LookupAt(h, "unknown")
       /\ task[h].delivery.keyId \in lookup[h].keys]_sidecarVars

(* README.md, "Every eligible webhook delivery submits a vote": once such  *)
(* a delivery is past the freshness check, the handler submits a vote, or  *)
(* answers 503 so that the delivery is repeated.                           *)
EligibleDeliveryVotes == [][\A h \in Handler : ~Dismissed(h)]_sidecarVars
=============================================================================
