------------------------------- MODULE Cosign -------------------------------
(***************************************************************************)
(* tvc-cosign from boot to signature: enclave replicas that derive their   *)
(* keys and answer /cosign (main.rs, keys.rs, stamp.rs, proof.rs), new     *)
(* deployments with other rulesets under the same quorum key, a customer   *)
(* who forwards what it likes, and Turnkey, which knows the two API users  *)
(* and their policies.                                                     *)
(*                                                                         *)
(* Turnkey, QOS and the operators are outside src/.  A signature is the    *)
(* pair of its key and what it signs; a hash stands for what it hashes.    *)
(***************************************************************************)
EXTENDS CosignRules

CONSTANTS
  Replica,
  Ephemeral,         \* master seeds QOS makes, one for each boot
  DevSeed,           \* DEV_SEED and DEV_EPHEMERAL_SEED
  QuorumSeed,
  Ruleset,           \* the rulesets that get deployed
  Request,           \* [signer, tx] as posted to /cosign
  Forgery,           \* those whose bodies anybody stamps with DEV_SEED
  Human              \* the approvers of the admin policy

ASSUME CosignConstants ==
  /\ DevSeed # QuorumSeed
  /\ DevSeed \notin Ephemeral
  /\ Missing \notin Ephemeral \cup {DevSeed, QuorumSeed}
  /\ Forgery \subseteq Request
  /\ \A request \in Request : request.tx \in UnsignedTransaction

VARIABLES
  approved,          \* rulesets of the manifests approved so far
  files,             \* files[r]: what reading the two key files gives r
  enclave,           \* enclave[r]: the AppState of replica r
  bootProof,         \* [ephemeral, rules]: what QOS has attested
  registered,        \* the seed whose public keys are registered
  responses,         \* answers of /cosign
  activities         \* activities Turnkey has taken

vars == <<approved, files, enclave, bootProof, registered, responses, activities>>

NotRunning == [up |-> FALSE, rules |-> Missing, seed |-> Missing, ephemeral |-> Missing]
Read == {"seed", "missing", "malformed"}

Init ==
  /\ approved \in {{rules} : rules \in Ruleset}
  /\ files = [r \in Replica |-> [quorum |-> "seed", ephemeral |-> "seed"]]
  /\ enclave = [r \in Replica |-> NotRunning]
  /\ bootProof = {}
  /\ registered = Missing
  /\ responses = {}
  /\ activities = {}

-----------------------------------------------------------------------------
(* Boot                                                                    *)

(* Wrong variant: what is in a malformed file is taken for a seed.         *)
LoadUnchecked(read, seed) ==
  CASE read = "seed"    -> seed
    [] read = "missing" -> DevSeed
    [] OTHER            -> Missing

(* read_hex_seed is None for a missing and for a malformed file, and both  *)
(* keys then come from a seed everybody knows.                             *)
LoadSeed(read, seed) == IF read = "seed" THEN seed ELSE DevSeed

(* A replica boots, or is replaced, with a ruleset that has been approved. *)
(* QOS attests the ephemeral key it has made, whatever the pivot reads.    *)
Boot(r) ==
  \E rules \in approved, fresh \in Ephemeral \ {proof.ephemeral : proof \in bootProof},
     quorum, ephemeral \in Read :
    /\ files' = [files EXCEPT ![r] = [quorum |-> quorum, ephemeral |-> ephemeral]]
    /\ enclave' = [enclave EXCEPT ![r] =
         [up |-> TRUE, rules |-> rules, seed |-> LoadSeed(quorum, QuorumSeed),
          ephemeral |-> LoadSeed(ephemeral, fresh)]]
    /\ bootProof' = bootProof \cup {[ephemeral |-> fresh, rules |-> rules]}
    /\ UNCHANGED <<approved, registered, responses, activities>>

(* A manifest with another ruleset; running replicas stay as they are.     *)
Approve(rules) ==
  /\ rules \in Ruleset \ approved
  /\ approved' = approved \cup {rules}
  /\ UNCHANGED <<files, enclave, bootProof, registered, responses, activities>>

(* The operator registers the keys a replica serves at /pubkeys, once.     *)
Register(r) ==
  /\ enclave[r].up
  /\ registered = Missing
  /\ registered' = enclave[r].seed
  /\ UNCHANGED <<approved, files, enclave, bootProof, responses, activities>>

-----------------------------------------------------------------------------
(* /cosign                                                                 *)

(* derive_key: HKDF of the seed with the salt of the role.                 *)
ApiKey(seed, role) == [seed |-> seed, role |-> role]

(* Wrong variants: one role for both.                                      *)
OnlyProgrammatic(class) == "programmatic"
OnlyAdmin(class) == "admin"

(* The key of KeySet a classification is stamped with.                     *)
Role(class) == IF class = "PROGRAMMATIC" THEN "programmatic" ELSE "admin"

(* Wrong variant: a proof names the transaction but not the stamped bytes. *)
UnboundProof(ephemeral, body, class, key) ==
  [key |-> ephemeral, classification |-> class, stampedWith |-> key,
   activityBody |-> Missing]

(* app_proof: the decision, the stamping key and the digest of the body,   *)
(* signed with the ephemeral key.                                          *)
AppProof(ephemeral, body, class, key) ==
  [key |-> ephemeral, classification |-> class, stampedWith |-> key,
   activityBody |-> body]

(* stamp                                                                   *)
Stamp(key, body) == [key |-> key, body |-> body]

(* build_sign_transaction.  The timestamp adds nothing: two requests of    *)
(* the same millisecond have the same body.                                *)
ActivityBody(request) == [signWith |-> request.signer, unsignedTransaction |-> request.tx]

Bodies == {ActivityBody(request) : request \in Request}

(* Wrong variant: the classification of an earlier request is used again.  *)
CosignFromCache(r, request) ==
  LET body == ActivityBody(request)
      class == IF \E response \in responses : response.activityBody = body
               THEN (CHOOSE response \in responses :
                       response.activityBody = body).classification
               ELSE Classify(request.signer, ParsedTx(request.tx), enclave[r].rules)
      key == ApiKey(enclave[r].seed, Role(class))
  IN  /\ enclave[r].up
      /\ Parses(request.tx)
      /\ request.signer \in Address
      /\ class # "REJECT"
      /\ responses' = responses \cup
           {[activityBody     |-> body,
             xStamp           |-> Stamp(key, body),
             classification   |-> class,
             appProof         |-> AppProof(enclave[r].ephemeral, body, class, key),
             bootEphemeralKey |-> enclave[r].ephemeral]}
      /\ UNCHANGED <<approved, files, enclave, bootProof, registered, activities>>

(* Wrong variant: a rejected request is left to the approvers.             *)
CosignRejected(r, request) ==
  LET class == Classify(request.signer, ParsedTx(request.tx), enclave[r].rules)
      key == ApiKey(enclave[r].seed, Role(class))
      body == ActivityBody(request)
  IN  /\ enclave[r].up
      /\ Parses(request.tx)
      /\ request.signer \in Address
      /\ responses' = responses \cup
           {[activityBody     |-> body,
             xStamp           |-> Stamp(key, body),
             classification   |-> class,
             appProof         |-> AppProof(enclave[r].ephemeral, body, class, key),
             bootEphemeralKey |-> enclave[r].ephemeral]}
      /\ UNCHANGED <<approved, files, enclave, bootProof, registered, activities>>

(* A request that is neither malformed nor rejected; the 400s change       *)
(* nothing.                                                                *)
CosignRequest(r, request) ==
  LET class == Classify(request.signer, ParsedTx(request.tx), enclave[r].rules)
      key == ApiKey(enclave[r].seed, Role(class))
      body == ActivityBody(request)
  IN  /\ enclave[r].up
      /\ Parses(request.tx)
      /\ request.signer \in Address
      /\ class # "REJECT"
      /\ responses' = responses \cup
           {[activityBody     |-> body,
             xStamp           |-> Stamp(key, body),
             classification   |-> class,
             appProof         |-> AppProof(enclave[r].ephemeral, body, class, key),
             bootEphemeralKey |-> enclave[r].ephemeral]}
      /\ UNCHANGED <<approved, files, enclave, bootProof, registered, activities>>

-----------------------------------------------------------------------------
(* Turnkey                                                                 *)

Activity(body, key, approvals, completed) ==
  [body |-> body, key |-> key, approvals |-> approvals, completed |-> completed]

(* The stamps a customer can lay hands on: those of the answers, and any   *)
(* at all with the keys of DEV_SEED, which "are NOT secret".               *)
ForgedStamps ==
  {Stamp(ApiKey(DevSeed, role), ActivityBody(request)) :
     role \in {"programmatic", "admin"}, request \in Forgery}
Stamps == {response.xStamp : response \in responses} \cup ForgedStamps

(* The customer submits any body with any such stamp.  Turnkey takes what  *)
(* one of the two API users has stamped, and the policy of that user       *)
(* either completes it at once or waits for all human approvers.           *)
Submit(body, xStamp) ==
  /\ xStamp.body = body
  /\ xStamp.key.seed = registered
  /\ ~\E activity \in activities : activity.body = body /\ activity.key = xStamp.key
  /\ activities' = activities \cup
       {Activity(body, xStamp.key, {}, xStamp.key.role = "programmatic")}
  /\ UNCHANGED <<approved, files, enclave, bootProof, registered, responses>>

HumanApproves(human, activity) ==
  /\ ~activity.completed
  /\ LET approvals == activity.approvals \cup {human}
     IN  activities' = (activities \ {activity}) \cup
           {Activity(activity.body, activity.key, approvals, approvals = Human)}
  /\ UNCHANGED <<approved, files, enclave, bootProof, registered, responses>>

Next ==
  \/ \E r \in Replica : Boot(r) \/ Register(r)
                          \/ \E request \in Request : CosignRequest(r, request)
  \/ \E rules \in Ruleset : Approve(rules)
  \/ \E body \in Bodies, xStamp \in Stamps : Submit(body, xStamp)
  \/ \E human \in Human, activity \in activities : HumanApproves(human, activity)

Spec == Init /\ [][Next]_vars

-----------------------------------------------------------------------------
(* Properties                                                              *)

(* Every running replica runs an approved ruleset and, when it has read    *)
(* its ephemeral key, the boot proof of that key names that ruleset.       *)
TypeOK ==
  /\ approved \subseteq Ruleset
  /\ registered \in {Missing, QuorumSeed, DevSeed}
  /\ files \in [Replica -> [quorum : Read, ephemeral : Read]]
  /\ \A r \in Replica :
       \/ enclave[r] = NotRunning
       \/ /\ enclave[r].rules \in approved
          /\ enclave[r].seed \in {QuorumSeed, DevSeed}
          /\ \/ enclave[r].ephemeral = DevSeed
             \/ [ephemeral |-> enclave[r].ephemeral, rules |-> enclave[r].rules] \in bootProof
  /\ \A activity \in activities :
       /\ activity.key.seed = registered
       /\ activity.approvals \subseteq Human

(* The activities for which the enclave can answer.  Once the keys of      *)
(* DEV_SEED are registered Turnkey takes whatever anybody makes up, and    *)
(* the rules protect nothing.                                              *)
Guarded == {activity \in activities : activity.key.seed # DevSeed}

(* With the keys of the quorum registered, what Turnkey signs without      *)
(* asking anyone is a transfer that some approved ruleset lets through:    *)
(* whatever the customer combines, over all replicas, boots and            *)
(* deployments, those that run on the known keys included.                 *)
UnattendedWithinRules ==
  \A activity \in Guarded :
    activity.completed /\ activity.approvals # Human =>
      \E rules \in approved :
        WithinRules(activity.body.signWith, activity.body.unsignedTransaction, rules)

(* With the keys of the quorum registered, what waits for the approvers is *)
(* a privileged call of an approved ruleset: the admin key is no way       *)
(* around the rules either.                                                *)
AttendedIsPrivileged ==
  \A activity \in Guarded :
    activity.key.role = "admin" =>
      \E rules \in approved :
        Privileged(activity.body.signWith, activity.body.unsignedTransaction, rules)

(* A verifier's check of a response against an activity: the signature key *)
(* is one of a boot proof, the digest is the activity's, and so is the     *)
(* stamping key.                                                           *)
Verified(response, activity, proof) ==
  /\ response.appProof.key = proof.ephemeral
  /\ response.appProof.activityBody = activity.body
  /\ response.appProof.stampedWith = activity.key

(* A verified proof tells the truth about an activity: the attested        *)
(* ruleset gives the classification it names, and the activity takes the   *)
(* path of that classification, even if other deployments have decided the *)
(* same transaction otherwise.                                             *)
VerifiedProofIsTrue ==
  \A response \in responses, activity \in activities, proof \in bootProof :
    Verified(response, activity, proof) =>
      /\ response.appProof.classification =
           Classify(activity.body.signWith, ParsedTx(activity.body.unsignedTransaction),
                    proof.rules)
      /\ activity.key.role = Role(response.appProof.classification)

(* Every answer of a replica that has found its keys can be verified once  *)
(* Turnkey has taken its activity.                                         *)
AnswersAreVerifiable ==
  \A response \in responses, activity \in activities :
    /\ response.bootEphemeralKey # DevSeed
    /\ response.xStamp = Stamp(activity.key, activity.body)
    => \E proof \in bootProof : /\ proof.ephemeral = response.bootEphemeralKey
                                /\ Verified(response, activity, proof)

(* As far as the keys of the quorum go, replicas, deployments, stamps and  *)
(* the customer implement the abstract gate: each step lets through a body *)
(* that an approved ruleset lets through, or counts one consent of an      *)
(* approver who had to be asked, or changes nothing the owners would       *)
(* notice (main.rs cosign, stamp.rs).                                      *)
Gate == INSTANCE SigningGate WITH
  Unattended <- [rules \in Ruleset |->
    {body \in Bodies : WithinRules(body.signWith, body.unsignedTransaction, rules)}],
  Attended <- [rules \in Ruleset |->
    {body \in Bodies : Privileged(body.signWith, body.unsignedTransaction, rules)}],
  consents <- UNION {activity.approvals \X {activity.body} : activity \in Guarded},
  signed <- {activity.body : activity \in {a \in Guarded : a.completed}}
ImplementsGate == Gate!Spec

(* keys.rs, on DEV_SEED: "used only when QUORUM_KEY_PATH is absent".       *)
DevKeysOnlyWithoutFile ==
  \A r \in Replica : enclave[r].up /\ enclave[r].seed = DevSeed => files[r].quorum = "missing"
=============================================================================
