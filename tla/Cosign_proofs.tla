---------------------------- MODULE Cosign_proofs ----------------------------
(***************************************************************************)
(* Theorems about tvc-cosign, for every set of replicas, rulesets, key     *)
(* seeds, requests and approvers.                                          *)
(***************************************************************************)
EXTENDS Cosign, CosignRouting, TLAPS

-----------------------------------------------------------------------------
(* The routing                                                             *)

(* What is routed to the programmatic key is within the rules.             *)
LEMMA ProgrammaticRouting ==
  ASSUME NEW signer, NEW raw \in UnsignedTransaction, NEW rules, Parses(raw),
         Classify(signer, ParsedTx(raw), rules) = "PROGRAMMATIC"
  PROVE  WithinRules(signer, raw, rules)
<1> DEFINE tx == ParsedTx(raw)
<1>1. tx.to = raw.to /\ tx.value = raw.value /\ tx.input = raw.input
  BY DEF ParsedTx
<1>2. /\ signer \in rules.allowedSigners
      /\ tx.input.selector = TransferSelector
      /\ ClassifyTransfer(tx, rules) = "PROGRAMMATIC"
  BY DEF Classify
<1>3. /\ tx.value = 0
      /\ tx.to \in rules.allowedTokens
      /\ TransferArgs(tx.input) # Missing
      /\ TransferArgs(tx.input).recipient \in rules.allowedRecipients
      /\ TransferArgs(tx.input).amount <= rules.maxAmount
  BY <1>2 DEF ClassifyTransfer
<1>4. /\ raw.input.standardLength
      /\ raw.input.padded
      /\ TransferArgs(raw.input) =
           [recipient |-> raw.input.recipient, amount |-> raw.input.amount]
  BY <1>1, <1>3 DEF TransferArgs
<1> QED  BY <1>1, <1>2, <1>3, <1>4 DEF WithinRules, IsTransfer

(* What is routed to the admin key is a privileged call.                   *)
LEMMA AdminRouting ==
  ASSUME NEW signer, NEW raw \in UnsignedTransaction, NEW rules, Parses(raw),
         Classify(signer, ParsedTx(raw), rules) = "ADMIN"
  PROVE  Privileged(signer, raw, rules)
<1>1. /\ ParsedTx(raw).to = raw.to
      /\ ParsedTx(raw).input = raw.input
  BY DEF ParsedTx
<1>2. ClassifyTransfer(ParsedTx(raw), rules) # "ADMIN"
  BY DEF ClassifyTransfer
<1>3. /\ signer \in rules.allowedSigners
      /\ raw.to # Missing
      /\ raw.input.selector \in rules.adminSelectors
  BY <1>1, <1>2 DEF Classify
<1>4. raw.to \in Address
  BY <1>3 DEF UnsignedTransaction
<1> QED  BY <1>3, <1>4 DEF Privileged

(* Whatever was in the file, the ruleset in force lists addresses only.    *)
LEMMA LoadedRuleset ==
  ASSUME NEW override, NEW rules, rules = LoadRules(override, Embedded)
  PROVE  /\ rules.allowedSigners \subseteq Address
         /\ rules.allowedTokens \subseteq Address
         /\ rules.adminSelectors \subseteq Selector
<1>1. PICK raw : rules = IntoRuleset(raw) /\ IntoRuleset(raw) # Missing
  BY CosignRoutingConstants DEF LoadRules
<1>2. /\ raw.signers \cup raw.tokens \cup raw.recipients \subseteq Address
      /\ raw.selectors \subseteq Selector
      /\ rules.adminSelectors = raw.selectors
      /\ rules.allowedSigners = raw.signers
      /\ rules.allowedTokens = raw.tokens
  BY <1>1 DEF IntoRuleset
<1> QED  BY <1>2

(* Nothing that is within the rules is refused or left to the approvers.   *)
LEMMA WithinRulesIsRouted ==
  ASSUME NEW signer, NEW raw \in UnsignedTransaction, NEW rules,
         rules.allowedTokens \subseteq Address, WithinRules(signer, raw, rules)
  PROVE  Classify(signer, ParsedTx(raw), rules) = "PROGRAMMATIC"
<1>1. /\ ParsedTx(raw).to = raw.to
      /\ ParsedTx(raw).value = raw.value
      /\ ParsedTx(raw).input = raw.input
  BY DEF ParsedTx
<1>2. /\ signer \in rules.allowedSigners
      /\ raw.to \in rules.allowedTokens
      /\ raw.to # Missing
      /\ raw.input.selector = TransferSelector
      /\ raw.input.selector # Missing
  BY CosignRulesConstants DEF WithinRules, IsTransfer
<1>3. TransferArgs(raw.input) =
        [recipient |-> raw.input.recipient, amount |-> raw.input.amount]
  BY DEF TransferArgs, WithinRules, IsTransfer
<1>4. [recipient |-> raw.input.recipient, amount |-> raw.input.amount] # Missing
  BY CosignRulesConstants DEF UnsignedTransaction, Calldata
<1>5. ClassifyTransfer(ParsedTx(raw), rules) = "PROGRAMMATIC"
  BY <1>1, <1>2, <1>3, <1>4 DEF ClassifyTransfer, WithinRules, IsTransfer
<1> QED  BY <1>1, <1>2, <1>5 DEF Classify

(* Nor is a privileged call, unless its selector is that of a transfer.    *)
LEMMA PrivilegedIsRouted ==
  ASSUME NEW signer, NEW raw \in UnsignedTransaction, NEW rules, Parses(raw)
  PROVE  Classify(signer, ParsedTx(raw), rules) = "ADMIN"
           <=> /\ Privileged(signer, raw, rules)
               /\ raw.input.selector # TransferSelector
               /\ raw.input.selector # Missing
<1>1. ParsedTx(raw).to = raw.to /\ ParsedTx(raw).input = raw.input
  BY DEF ParsedTx
<1>2. ClassifyTransfer(ParsedTx(raw), rules) # "ADMIN"
  BY DEF ClassifyTransfer
<1>3. raw.to # Missing <=> raw.to \in Address
  BY CosignRulesConstants DEF UnsignedTransaction
<1> QED  BY <1>1, <1>2, <1>3 DEF Classify, Privileged

(* The decision is taken once, with a ruleset that was loaded.             *)
RoutingInv ==
  /\ inForce \in {LoadRules(override, Embedded) : override \in Overrides}
  /\ asked \in Posted
  /\ routed # "none" =>
       routed = IF Parses(asked.tx) /\ asked.signer \in Address
                THEN Classify(asked.signer, ParsedTx(asked.tx), inForce)
                ELSE "error"

(* For every file and every transaction the bot key gets exactly the       *)
(* transfers within the ruleset in force, and the admin key exactly the    *)
(* calls of its listed operations (config.rs, rules.rs, tx.rs, cosign).    *)
THEOREM RoutingIsExact == RoutingSpec => []RoutedByTheRules
<1>1. RoutingInit => RoutingInv
  BY DEF RoutingInit, RoutingInv
<1>2. RoutingInv /\ [Route]_Deciding => RoutingInv'
  BY DEF RoutingInv, Route, Deciding
<1>3. RoutingInv => RoutedByTheRules
  <2> SUFFICES ASSUME RoutingInv, routed # "none" PROVE RoutedByTheRules
    BY DEF RoutedByTheRules
  <2>1. PICK override : inForce = LoadRules(override, Embedded)
    BY DEF RoutingInv
  <2>2. /\ inForce.allowedSigners \subseteq Address
        /\ inForce.allowedTokens \subseteq Address
        /\ inForce.adminSelectors \subseteq Selector
    BY <2>1, LoadedRuleset
  <2>3. asked.tx \in UnsignedTransaction
    BY CosignRoutingConstants DEF RoutingInv
  <2>4. CASE Parses(asked.tx) /\ asked.signer \in Address
    <3>1. routed = Classify(asked.signer, ParsedTx(asked.tx), inForce)
      BY <2>4 DEF RoutingInv
    <3>2. routed = "PROGRAMMATIC" <=> WithinRules(asked.signer, asked.tx, inForce)
      BY <2>2, <2>3, <2>4, <3>1, ProgrammaticRouting, WithinRulesIsRouted
    <3>3. Privileged(asked.signer, asked.tx, inForce) =>
            asked.tx.input.selector # Missing
      BY <2>2, CosignRulesConstants DEF Privileged
    <3>4. routed = "ADMIN" <=> /\ Privileged(asked.signer, asked.tx, inForce)
                               /\ asked.tx.input.selector # TransferSelector
      BY <2>3, <2>4, <3>1, <3>3, PrivilegedIsRouted
    <3> QED  BY <3>2, <3>4 DEF RoutedByTheRules
  <2>5. CASE ~(Parses(asked.tx) /\ asked.signer \in Address)
    <3>1. routed = "error"
      BY <2>5 DEF RoutingInv
    <3>2. /\ ~WithinRules(asked.signer, asked.tx, inForce)
          /\ ~Privileged(asked.signer, asked.tx, inForce)
      BY <2>2, <2>5 DEF WithinRules, IsTransfer, Privileged
    <3> QED  BY <3>1, <3>2 DEF RoutedByTheRules
  <2> QED  BY <2>4, <2>5
<1> QED  BY <1>1, <1>2, <1>3, PTL DEF RoutingSpec

-----------------------------------------------------------------------------
(* The inductive invariant                                                 *)

AppState ==
  [up : BOOLEAN, rules : Ruleset \cup {Missing}, seed : {QuorumSeed, DevSeed, Missing},
   ephemeral : Ephemeral \cup {DevSeed, Missing}]

(* A replica decides by an approved ruleset.                               *)
RunsApproved ==
  /\ approved \subseteq Ruleset
  /\ enclave \in [Replica -> AppState]
  /\ \A r \in Replica : enclave[r].up => enclave[r].rules \in approved

(* A body that may carry a stamp of a role: some approved ruleset routes   *)
(* it there.  Rulesets are only ever added, so it may for good.            *)
Stampable(body, role) ==
  /\ role \in {"programmatic", "admin"}
  /\ role = "programmatic" =>
       \E rules \in approved : WithinRules(body.signWith, body.unsignedTransaction, rules)
  /\ role = "admin" =>
       \E rules \in approved : Privileged(body.signWith, body.unsignedTransaction, rules)

StampsFollowRules ==
  \A response \in responses :
    Stampable(response.xStamp.body, response.xStamp.key.role)

(* What Turnkey takes with a quorum key an enclave has stamped, and what   *)
(* the admin user brings is complete only with every approval.             *)
ActivitiesFollowRules ==
  \A activity \in activities :
    /\ activity = Activity(activity.body, activity.key, activity.approvals,
                           activity.completed)
    /\ activity.key.role \in {"programmatic", "admin"}
    /\ activity.key.seed # DevSeed => Stampable(activity.body, activity.key.role)
    /\ activity.completed /\ activity.key.role = "admin" => activity.approvals = Human

Inv == RunsApproved /\ StampsFollowRules /\ ActivitiesFollowRules

(* A step that only adds rulesets leaves what may be stamped so.           *)
LEMMA StampableGrows ==
  ASSUME approved \subseteq approved', NEW body, NEW role, Stampable(body, role)
  PROVE  Stampable(body, role)'
BY DEF Stampable, WithinRules, Privileged, IsTransfer, Parses

-----------------------------------------------------------------------------

(* The history of stamps and activities is only extended by what an action *)
(* adds.                                                                   *)
LEMMA OldStampsStay ==
  ASSUME Inv, approved \subseteq approved'
  PROVE  /\ \A response \in responses :
              Stampable(response.xStamp.body, response.xStamp.key.role)'
         /\ \A activity \in activities :
              activity.key.seed # DevSeed => Stampable(activity.body, activity.key.role)'
BY StampableGrows DEF Inv, StampsFollowRules, ActivitiesFollowRules

LEMMA BootKeepsInv ==
  ASSUME Inv, NEW r \in Replica, Boot(r) PROVE Inv'
<1>1. PICK rules \in approved, fresh \in Ephemeral \ {proof.ephemeral : proof \in bootProof},
           quorum \in Read, ephemeral \in Read :
        /\ enclave' = [enclave EXCEPT ![r] =
             [up |-> TRUE, rules |-> rules, seed |-> LoadSeed(quorum, QuorumSeed),
              ephemeral |-> LoadSeed(ephemeral, fresh)]]
        /\ UNCHANGED <<approved, responses, activities>>
  BY DEF Boot
<1>2. [up |-> TRUE, rules |-> rules, seed |-> LoadSeed(quorum, QuorumSeed),
       ephemeral |-> LoadSeed(ephemeral, fresh)] \in AppState
  BY <1>1 DEF AppState, LoadSeed, Inv, RunsApproved
<1>3. RunsApproved'
  BY <1>1, <1>2 DEF Inv, RunsApproved
<1>4. StampsFollowRules' /\ ActivitiesFollowRules'
  BY <1>1, OldStampsStay DEF Inv, StampsFollowRules, ActivitiesFollowRules
<1> QED  BY <1>3, <1>4 DEF Inv

LEMMA ApproveKeepsInv ==
  ASSUME Inv, NEW rules, Approve(rules) PROVE Inv'
<1>1. /\ approved \subseteq approved' /\ approved' \subseteq Ruleset
      /\ UNCHANGED <<enclave, responses, activities>>
  BY DEF Approve, Inv, RunsApproved
<1>2. RunsApproved'
  BY <1>1 DEF Inv, RunsApproved
<1>3. StampsFollowRules' /\ ActivitiesFollowRules'
  BY <1>1, OldStampsStay DEF Inv, StampsFollowRules, ActivitiesFollowRules
<1> QED  BY <1>2, <1>3 DEF Inv

LEMMA RegisterKeepsInv ==
  ASSUME Inv, NEW r \in Replica, Register(r) PROVE Inv'
<1>1. UNCHANGED <<approved, enclave, responses, activities>>
  BY DEF Register
<1> QED  BY <1>1, OldStampsStay
         DEF Inv, RunsApproved, StampsFollowRules, ActivitiesFollowRules

(* The enclave stamps only what its ruleset lets through, with the key of  *)
(* the class it gives.                                                     *)
LEMMA CosignKeepsInv ==
  ASSUME Inv, NEW r \in Replica, NEW request \in Request, CosignRequest(r, request)
  PROVE  Inv'
<1> DEFINE rules == enclave[r].rules
           class == Classify(request.signer, ParsedTx(request.tx), rules)
           key == ApiKey(enclave[r].seed, Role(class))
           body == ActivityBody(request)
           answer == [activityBody     |-> body,
                      xStamp           |-> Stamp(key, body),
                      classification   |-> class,
                      appProof         |-> AppProof(enclave[r].ephemeral, body, class, key),
                      bootEphemeralKey |-> enclave[r].ephemeral]
<1>1. /\ enclave[r].up /\ Parses(request.tx) /\ class # "REJECT"
      /\ responses' = responses \cup {answer}
      /\ UNCHANGED <<approved, enclave, activities>>
  BY DEF CosignRequest
<1>2. rules \in approved /\ request.tx \in UnsignedTransaction
  BY <1>1, CosignConstants DEF Inv, RunsApproved
<1>3. class \in {"PROGRAMMATIC", "ADMIN"}
  BY <1>1 DEF Classify, ClassifyTransfer
<1>4. /\ answer.xStamp.body = body
      /\ answer.xStamp.key.role = Role(class)
      /\ body.signWith = request.signer
      /\ body.unsignedTransaction = request.tx
  BY DEF Stamp, ApiKey, ActivityBody
<1>5. Stampable(body, Role(class))
  <2>1. CASE class = "PROGRAMMATIC"
    BY <1>1, <1>2, <1>4, <2>1, ProgrammaticRouting DEF Stampable, Role
  <2>2. CASE class = "ADMIN"
    BY <1>1, <1>2, <1>4, <2>2, AdminRouting DEF Stampable, Role
  <2> QED  BY <1>3, <2>1, <2>2
<1>6. Stampable(answer.xStamp.body, answer.xStamp.key.role)'
  <2>1. approved' = approved /\ Stampable(answer.xStamp.body, answer.xStamp.key.role)
    BY <1>1, <1>4, <1>5
  <2> HIDE DEF answer
  <2>2. answer' = answer
    BY <1>1 DEF answer
  <2> QED  BY <2>1, <2>2, StampableGrows
<1>7. RunsApproved'
  BY <1>1 DEF Inv, RunsApproved
<1>8. StampsFollowRules'
  <2>1. ASSUME NEW response \in responses'
        PROVE  Stampable(response.xStamp.body, response.xStamp.key.role)'
    <3>1. CASE response \in responses
      BY <1>1, <3>1, OldStampsStay
    <3>2. CASE response = answer
      BY <1>6, <1>1, <3>2
    <3> QED  BY <1>1, <3>1, <3>2
  <2> QED  BY <2>1 DEF StampsFollowRules
<1>9. ActivitiesFollowRules'
  BY <1>1, OldStampsStay DEF Inv, ActivitiesFollowRules
<1> QED  BY <1>7, <1>8, <1>9 DEF Inv

(* A stamp that is not of a known key is one of an answer.                 *)
LEMMA StampsAreGiven ==
  ASSUME NEW xStamp \in Stamps
  PROVE  \/ \E response \in responses : xStamp = response.xStamp
         \/ /\ xStamp.key.seed = DevSeed
            /\ xStamp.key.role \in {"programmatic", "admin"}
            /\ xStamp.key = ApiKey(xStamp.key.seed, xStamp.key.role)
<1>1. CASE xStamp \in ForgedStamps
  <2>1. PICK role \in {"programmatic", "admin"}, request \in Forgery :
          xStamp = Stamp(ApiKey(DevSeed, role), ActivityBody(request))
    BY <1>1 DEF ForgedStamps
  <2>2. xStamp.key = ApiKey(DevSeed, role)
    BY <2>1 DEF Stamp
  <2> QED  BY <2>2 DEF ApiKey
<1> QED  BY <1>1 DEF Stamps

(* Turnkey takes only bodies that carry a stamp on them.                   *)
LEMMA SubmitKeepsInv ==
  ASSUME Inv, NEW body, NEW xStamp \in Stamps, Submit(body, xStamp)
  PROVE  Inv'
<1> DEFINE taken == Activity(body, xStamp.key, {}, xStamp.key.role = "programmatic")
<1>1. /\ xStamp.body = body
      /\ activities' = activities \cup {taken}
      /\ UNCHANGED <<approved, enclave, responses>>
  BY DEF Submit
<1>2. /\ taken.key.role \in {"programmatic", "admin"}
      /\ taken.key.seed # DevSeed => Stampable(taken.body, taken.key.role)'
  <2>1. /\ xStamp.key.role \in {"programmatic", "admin"}
        /\ xStamp.key.seed # DevSeed => Stampable(body, xStamp.key.role)'
    BY <1>1, StampsAreGiven, OldStampsStay DEF Inv, StampsFollowRules, Stampable
  <2>2. taken.body = body /\ taken.key = xStamp.key
    BY DEF Activity
  <2>3. taken' = taken
    BY <1>1
  <2> HIDE DEF taken
  <2> QED  BY <2>1, <2>2, <2>3
<1>3. /\ taken = Activity(taken.body, taken.key, taken.approvals, taken.completed)
      /\ taken.completed /\ taken.key.role = "admin" => taken.approvals = Human
  BY DEF Activity
<1>4. ActivitiesFollowRules'
  <2>1. ASSUME NEW activity \in activities'
        PROVE  /\ activity = Activity(activity.body, activity.key, activity.approvals,
                                      activity.completed)
               /\ activity.key.role \in {"programmatic", "admin"}
               /\ activity.key.seed # DevSeed => Stampable(activity.body, activity.key.role)'
               /\ activity.completed /\ activity.key.role = "admin"
                    => activity.approvals = Human
    <3>1. CASE activity \in activities
      BY <1>1, <3>1, OldStampsStay DEF Inv, ActivitiesFollowRules
    <3>2. CASE activity = taken
      BY <1>2, <1>3, <3>2
    <3> QED  BY <1>1, <3>1, <3>2
  <2> QED  BY <2>1 DEF ActivitiesFollowRules
<1>5. RunsApproved' /\ StampsFollowRules'
  BY <1>1, OldStampsStay DEF Inv, RunsApproved, StampsFollowRules
<1> QED  BY <1>4, <1>5 DEF Inv

(* An approval completes an activity only as the last one.                 *)
LEMMA ApprovalKeepsInv ==
  ASSUME Inv, NEW human, NEW activity \in activities, HumanApproves(human, activity)
  PROVE  Inv'
<1> DEFINE approvals == activity.approvals \cup {human}
           updated == Activity(activity.body, activity.key, approvals, approvals = Human)
<1>1. /\ activities' = (activities \ {activity}) \cup {updated}
      /\ UNCHANGED <<approved, enclave, responses>>
  BY DEF HumanApproves
<1>3. /\ updated.body = activity.body /\ updated.key = activity.key
      /\ updated.approvals = approvals /\ updated.completed = (approvals = Human)
  BY DEF Activity
<1>4. updated = Activity(updated.body, updated.key, updated.approvals, updated.completed)
  BY DEF Activity
<1>5. updated.key.seed # DevSeed => Stampable(updated.body, updated.key.role)'
  <2>1. updated.key.seed # DevSeed => Stampable(updated.body, updated.key.role)
    BY <1>3 DEF Inv, ActivitiesFollowRules
  <2> HIDE DEF updated
  <2>2. updated' = updated
    BY DEF updated
  <2> QED  BY <1>1, <2>1, <2>2, StampableGrows
<1>6. updated.completed => updated.approvals = Human
  BY <1>3
<1>7. ActivitiesFollowRules'
  <2>1. ASSUME NEW other \in activities'
        PROVE  /\ other = Activity(other.body, other.key, other.approvals,
                                   other.completed)
               /\ other.key.role \in {"programmatic", "admin"}
               /\ other.key.seed # DevSeed => Stampable(other.body, other.key.role)'
               /\ other.completed /\ other.key.role = "admin" => other.approvals = Human
    <3>1. CASE other \in activities
      BY <1>1, <3>1, OldStampsStay DEF Inv, ActivitiesFollowRules
    <3>2. CASE other = updated
      BY <1>3, <1>4, <1>5, <1>6, <3>2 DEF Inv, ActivitiesFollowRules
    <3> QED  BY <1>1, <3>1, <3>2
  <2> QED  BY <2>1 DEF ActivitiesFollowRules
<1>8. RunsApproved' /\ StampsFollowRules'
  BY <1>1, OldStampsStay DEF Inv, RunsApproved, StampsFollowRules
<1> QED  BY <1>7, <1>8 DEF Inv

-----------------------------------------------------------------------------

(* The stamps of the replicas, and what Turnkey takes with a quorum key,   *)
(* follow the approved rulesets in every reachable state.                  *)
THEOREM RulesAreFollowed == Spec => []Inv
<1>1. Init => Inv
  <2> SUFFICES ASSUME Init PROVE Inv
    OBVIOUS
  <2>1. PICK first \in Ruleset : approved = {first}
    BY DEF Init
  <2>2. NotRunning \in AppState /\ ~NotRunning.up
    BY DEF NotRunning, AppState
  <2> QED  BY <2>1, <2>2
           DEF Init, Inv, RunsApproved, StampsFollowRules, ActivitiesFollowRules
<1>2. Inv /\ [Next]_vars => Inv'
  <2> SUFFICES ASSUME Inv, [Next]_vars PROVE Inv'
    OBVIOUS
  <2>1. ASSUME NEW r \in Replica, Boot(r) PROVE Inv'
    BY <2>1, BootKeepsInv
  <2>2. ASSUME NEW r \in Replica, Register(r) PROVE Inv'
    BY <2>2, RegisterKeepsInv
  <2>3. ASSUME NEW r \in Replica, NEW request \in Request, CosignRequest(r, request)
        PROVE  Inv'
    BY <2>3, CosignKeepsInv
  <2>4. ASSUME NEW rules \in Ruleset, Approve(rules) PROVE Inv'
    BY <2>4, ApproveKeepsInv
  <2>5. ASSUME NEW body, NEW xStamp \in Stamps, Submit(body, xStamp)
        PROVE  Inv'
    BY <2>5, SubmitKeepsInv
  <2>6. ASSUME NEW human, NEW activity \in activities, HumanApproves(human, activity)
        PROVE  Inv'
    BY <2>6, ApprovalKeepsInv
  <2>7. CASE UNCHANGED vars
    BY <2>7, OldStampsStay
       DEF vars, Inv, RunsApproved, StampsFollowRules, ActivitiesFollowRules
  <2> QED  BY <2>1, <2>2, <2>3, <2>4, <2>5, <2>6, <2>7 DEF Next
<1> QED  BY <1>1, <1>2, PTL DEF Spec

(* Whatever customers combine or forge, over all replicas and deployments, *)
(* with a quorum key registered Turnkey signs without the approvers only   *)
(* what an approved ruleset lets through.                                  *)
THEOREM UnattendedIsSafe == Spec => []UnattendedWithinRules
<1>1. Inv => UnattendedWithinRules
  <2> SUFFICES ASSUME Inv, NEW activity \in Guarded, activity.completed,
                      activity.approvals # Human
               PROVE  \E rules \in approved :
                        WithinRules(activity.body.signWith,
                                    activity.body.unsignedTransaction, rules)
    BY DEF UnattendedWithinRules
  <2>1. activity.key.role = "programmatic"
    BY DEF Inv, ActivitiesFollowRules, Guarded
  <2> QED  BY <2>1 DEF Inv, ActivitiesFollowRules, Stampable, Guarded
<1> QED  BY <1>1, RulesAreFollowed, PTL

(* Nor is an admin stamp of the quorum a way around the rules.             *)
THEOREM AttendedIsSafe == Spec => []AttendedIsPrivileged
<1>1. Inv => AttendedIsPrivileged
  BY DEF Inv, ActivitiesFollowRules, Stampable, AttendedIsPrivileged, Guarded
<1> QED  BY <1>1, RulesAreFollowed, PTL

-----------------------------------------------------------------------------
(* Proofs of decisions                                                     *)

(* QOS attests each ephemeral key once, with one ruleset, and a replica    *)
(* that found its key runs the ruleset attested with it.                   *)
BootProofsFit ==
  /\ \A proof \in bootProof : proof.ephemeral # DevSeed
  /\ \A p, q \in bootProof : p.ephemeral = q.ephemeral => p = q
  /\ \A r \in Replica : enclave[r].up /\ enclave[r].ephemeral # DevSeed =>
       [ephemeral |-> enclave[r].ephemeral, rules |-> enclave[r].rules] \in bootProof

(* Rules that may have led to an answer signed with an ephemeral key.      *)
DecidedBy(ephemeral, rules) ==
  ephemeral # DevSeed => [ephemeral |-> ephemeral, rules |-> rules] \in bootProof

(* The parts of an answer fit together: the proof names the stamped bytes, *)
(* the stamping key, and what the attested rules say of the transaction.   *)
Coherent(response) ==
  LET body == response.xStamp.body
      class == response.appProof.classification
  IN  /\ response.xStamp = Stamp(response.xStamp.key, body)
      /\ response.appProof =
           AppProof(response.bootEphemeralKey, body, class, response.xStamp.key)
      /\ response.xStamp.key.role = Role(class)
      /\ \E rules :
           /\ DecidedBy(response.bootEphemeralKey, rules)
           /\ class = Classify(body.signWith, ParsedTx(body.unsignedTransaction), rules)

ProofInv ==
  /\ enclave \in [Replica -> AppState]
  /\ BootProofsFit
  /\ \A response \in responses : Coherent(response)

LEMMA CoherentStays ==
  ASSUME bootProof \subseteq bootProof', NEW response, Coherent(response)
  PROVE  Coherent(response)'
<1>1. PICK rules :
        /\ DecidedBy(response.bootEphemeralKey, rules)
        /\ response.appProof.classification =
             Classify(response.xStamp.body.signWith,
                      ParsedTx(response.xStamp.body.unsignedTransaction), rules)
  BY DEF Coherent
<1>2. DecidedBy(response.bootEphemeralKey, rules)'
  BY <1>1 DEF DecidedBy
<1> QED  BY <1>1, <1>2 DEF Coherent

LEMMA BootKeepsProofs ==
  ASSUME ProofInv, Inv, NEW r \in Replica, Boot(r) PROVE ProofInv'
<1>1. PICK rules \in approved, fresh \in Ephemeral \ {proof.ephemeral : proof \in bootProof},
           quorum \in Read, ephemeral \in Read :
        /\ enclave' = [enclave EXCEPT ![r] =
             [up |-> TRUE, rules |-> rules, seed |-> LoadSeed(quorum, QuorumSeed),
              ephemeral |-> LoadSeed(ephemeral, fresh)]]
        /\ bootProof' = bootProof \cup {[ephemeral |-> fresh, rules |-> rules]}
        /\ UNCHANGED <<approved, responses, activities>>
  BY DEF Boot
<1>2. enclave' \in [Replica -> AppState]
  BY BootKeepsInv DEF Inv, RunsApproved
<1>3. fresh # DevSeed /\ \A proof \in bootProof : proof.ephemeral # fresh
  BY CosignConstants
<1>4. BootProofsFit'
  <2>1. \A proof \in bootProof' : proof.ephemeral # DevSeed
    BY <1>1, <1>3 DEF ProofInv, BootProofsFit
  <2>2. \A p, q \in bootProof' : p.ephemeral = q.ephemeral => p = q
    BY <1>1, <1>3 DEF ProofInv, BootProofsFit
  <2>3. ASSUME NEW q \in Replica, enclave'[q].up, enclave'[q].ephemeral # DevSeed
        PROVE  [ephemeral |-> enclave'[q].ephemeral, rules |-> enclave'[q].rules] \in bootProof'
    <3>1. CASE q = r
      BY <1>1, <2>3, <3>1 DEF ProofInv, LoadSeed
    <3>2. CASE q # r
      BY <1>1, <2>3, <3>2 DEF ProofInv, BootProofsFit
    <3> QED  BY <3>1, <3>2
  <2> QED  BY <2>1, <2>2, <2>3 DEF BootProofsFit
<1> QED  BY <1>1, <1>2, <1>4, CoherentStays DEF ProofInv

LEMMA CosignKeepsProofs ==
  ASSUME ProofInv, NEW r \in Replica, NEW request \in Request, CosignRequest(r, request)
  PROVE  ProofInv'
<1> DEFINE rules == enclave[r].rules
           class == Classify(request.signer, ParsedTx(request.tx), rules)
           key == ApiKey(enclave[r].seed, Role(class))
           body == ActivityBody(request)
           answer == [activityBody     |-> body,
                      xStamp           |-> Stamp(key, body),
                      classification   |-> class,
                      appProof         |-> AppProof(enclave[r].ephemeral, body, class, key),
                      bootEphemeralKey |-> enclave[r].ephemeral]
<1>1. /\ enclave[r].up
      /\ responses' = responses \cup {answer}
      /\ UNCHANGED <<enclave, bootProof>>
  BY DEF CosignRequest
<1>2. DecidedBy(enclave[r].ephemeral, rules)
  BY <1>1 DEF ProofInv, BootProofsFit, DecidedBy
<1>3. /\ body.signWith = request.signer
      /\ body.unsignedTransaction = request.tx
  BY DEF ActivityBody
<1>4. key.role = Role(class)
  BY DEF ApiKey
<1>5. Coherent(answer)
  <2> HIDE DEF body, class, key, rules
  <2>1. /\ answer.xStamp = Stamp(key, body) /\ answer.xStamp.body = body
        /\ answer.xStamp.key = key /\ answer.bootEphemeralKey = enclave[r].ephemeral
        /\ answer.appProof = AppProof(enclave[r].ephemeral, body, class, key)
        /\ answer.appProof.classification = class
    BY DEF Stamp, AppProof
  <2>2. class = Classify(body.signWith, ParsedTx(body.unsignedTransaction), rules)
    BY <1>3 DEF class
  <2> HIDE DEF answer
  <2> QED  BY <1>2, <1>4, <2>1, <2>2 DEF Coherent
<1> HIDE DEF answer
<1>6. \A response \in responses' : Coherent(response)'
  BY <1>1, <1>5, CoherentStays DEF ProofInv
<1> QED  BY <1>1, <1>6 DEF ProofInv, BootProofsFit

LEMMA OthersKeepProofs ==
  ASSUME ProofInv, UNCHANGED <<enclave, bootProof, responses>> PROVE ProofInv'
BY CoherentStays DEF ProofInv, BootProofsFit

(* Every answer ever given is coherent.                                    *)
LEMMA ProofsAlwaysFit == Spec => []ProofInv
<1>1. Init => ProofInv
  <2>1. NotRunning \in AppState /\ ~NotRunning.up
    BY DEF NotRunning, AppState
  <2> QED  BY <2>1 DEF Init, ProofInv, BootProofsFit
<1>2. Inv /\ ProofInv /\ [Next]_vars => ProofInv'
  <2> SUFFICES ASSUME Inv, ProofInv, [Next]_vars PROVE ProofInv'
    OBVIOUS
  <2>1. ASSUME NEW r \in Replica, Boot(r) PROVE ProofInv'
    BY <2>1, BootKeepsProofs
  <2>2. ASSUME NEW r \in Replica, NEW request \in Request, CosignRequest(r, request)
        PROVE  ProofInv'
    BY <2>2, CosignKeepsProofs
  <2>3. ASSUME NEW r \in Replica, Register(r) PROVE ProofInv'
    BY <2>3, OthersKeepProofs DEF Register
  <2>4. ASSUME NEW rules \in Ruleset, Approve(rules) PROVE ProofInv'
    BY <2>4, OthersKeepProofs DEF Approve
  <2>5. ASSUME NEW body, NEW xStamp, Submit(body, xStamp) PROVE ProofInv'
    BY <2>5, OthersKeepProofs DEF Submit
  <2>6. ASSUME NEW human, NEW activity \in activities, HumanApproves(human, activity)
        PROVE  ProofInv'
    BY <2>6, OthersKeepProofs DEF HumanApproves
  <2>7. CASE UNCHANGED vars
    BY <2>7, OthersKeepProofs DEF vars
  <2> QED  BY <2>1, <2>2, <2>3, <2>4, <2>5, <2>6, <2>7 DEF Next
<1> QED  BY <1>1, <1>2, RulesAreFollowed, PTL DEF Spec

(* A proof that verifies against an activity tells the truth about it,     *)
(* over any number of replicas and deployments that disagree.              *)
THEOREM ProofsAreTrue == Spec => []VerifiedProofIsTrue
<1>1. ProofInv => VerifiedProofIsTrue
  <2> SUFFICES ASSUME ProofInv, NEW response \in responses, NEW activity \in activities,
                      NEW proof \in bootProof, Verified(response, activity, proof)
               PROVE  /\ response.appProof.classification =
                           Classify(activity.body.signWith,
                                    ParsedTx(activity.body.unsignedTransaction), proof.rules)
                      /\ activity.key.role = Role(response.appProof.classification)
    BY DEF VerifiedProofIsTrue
  <2>1. Coherent(response)
    BY DEF ProofInv
  <2>2. /\ response.bootEphemeralKey = proof.ephemeral
        /\ response.xStamp.body = activity.body
        /\ response.xStamp.key = activity.key
    BY <2>1 DEF Coherent, AppProof, Verified
  <2>3. PICK rules :
          /\ DecidedBy(proof.ephemeral, rules)
          /\ response.appProof.classification =
               Classify(activity.body.signWith, ParsedTx(activity.body.unsignedTransaction), rules)
    BY <2>1, <2>2 DEF Coherent
  <2>4. [ephemeral |-> proof.ephemeral, rules |-> rules] \in bootProof
    BY <2>3 DEF DecidedBy, ProofInv, BootProofsFit
  <2>5. proof.rules = rules
    BY <2>4 DEF ProofInv, BootProofsFit
  <2> QED  BY <2>1, <2>2, <2>3, <2>5 DEF Coherent
<1> QED  BY <1>1, ProofsAlwaysFit, PTL

(* Whatever a replica with its own keys has answered can be verified.      *)
THEOREM AnswersVerify == Spec => []AnswersAreVerifiable
<1>1. ProofInv => AnswersAreVerifiable
  <2> SUFFICES ASSUME ProofInv, NEW response \in responses, NEW activity \in activities,
                      response.bootEphemeralKey # DevSeed,
                      response.xStamp = Stamp(activity.key, activity.body)
               PROVE  \E proof \in bootProof :
                        /\ proof.ephemeral = response.bootEphemeralKey
                        /\ Verified(response, activity, proof)
    BY DEF AnswersAreVerifiable
  <2>1. Coherent(response)
    BY DEF ProofInv
  <2>2. PICK rules : DecidedBy(response.bootEphemeralKey, rules)
    BY <2>1 DEF Coherent
  <2>3. [ephemeral |-> response.bootEphemeralKey, rules |-> rules] \in bootProof
    BY <2>2 DEF DecidedBy
  <2>4. response.xStamp.key = activity.key /\ response.xStamp.body = activity.body
    BY DEF Stamp
  <2>5. /\ response.appProof.key = response.bootEphemeralKey
        /\ response.appProof.activityBody = activity.body
        /\ response.appProof.stampedWith = activity.key
    BY <2>1, <2>4 DEF Coherent, AppProof
  <2> QED  BY <2>3, <2>5 DEF Verified
<1> QED  BY <1>1, ProofsAlwaysFit, PTL
-----------------------------------------------------------------------------
(* Types                                                                   *)

(* A replica as main() leaves it: with a ruleset that is attested together *)
(* with the ephemeral key it has read, and with a seed, be it the known    *)
(* one.                                                                    *)
Booted(app) ==
  /\ app.rules \in approved
  /\ app.seed \in {QuorumSeed, DevSeed}
  /\ \/ app.ephemeral = DevSeed
     \/ [ephemeral |-> app.ephemeral, rules |-> app.rules] \in bootProof

(* Every stamp is of such a seed, so Turnkey takes nothing before a key is *)
(* registered and afterwards only what that key has stamped.               *)
TypeInv ==
  /\ approved \subseteq Ruleset
  /\ registered \in {Missing, QuorumSeed, DevSeed}
  /\ files \in [Replica -> [quorum : Read, ephemeral : Read]]
  /\ enclave \in [Replica -> AppState]
  /\ \A r \in Replica : enclave[r] = NotRunning \/ Booted(enclave[r])
  /\ \A response \in responses : response.xStamp.key.seed \in {QuorumSeed, DevSeed}
  /\ \A activity \in activities :
       /\ activity.key.seed \in {QuorumSeed, DevSeed}
       /\ activity.key.seed = registered
       /\ activity.approvals \subseteq Human

LEMMA BootedStays ==
  ASSUME approved \subseteq approved', bootProof \subseteq bootProof', NEW app, Booted(app)
  PROVE  Booted(app)'
BY DEF Booted

LEMMA BootKeepsTypes ==
  ASSUME TypeInv, NEW r \in Replica, Boot(r) PROVE TypeInv'
<1>1. PICK rules \in approved, fresh \in Ephemeral \ {proof.ephemeral : proof \in bootProof},
           quorum \in Read, ephemeral \in Read :
        /\ files' = [files EXCEPT ![r] = [quorum |-> quorum, ephemeral |-> ephemeral]]
        /\ enclave' = [enclave EXCEPT ![r] =
             [up |-> TRUE, rules |-> rules, seed |-> LoadSeed(quorum, QuorumSeed),
              ephemeral |-> LoadSeed(ephemeral, fresh)]]
        /\ bootProof' = bootProof \cup {[ephemeral |-> fresh, rules |-> rules]}
        /\ UNCHANGED <<approved, registered, responses, activities>>
  BY DEF Boot
<1> DEFINE app == [up |-> TRUE, rules |-> rules, seed |-> LoadSeed(quorum, QuorumSeed),
                   ephemeral |-> LoadSeed(ephemeral, fresh)]
<1>2. app \in AppState
  BY DEF AppState, LoadSeed, TypeInv
<1>3. Booted(app)'
  <2>1. /\ app.rules = rules
        /\ app.seed \in {QuorumSeed, DevSeed}
        /\ app.ephemeral = fresh \/ app.ephemeral = DevSeed
    BY DEF LoadSeed
  <2> HIDE DEF app
  <2>2. app' = app
    BY <1>1 DEF app
  <2> QED  BY <1>1, <2>1, <2>2 DEF Booted
<1>4. files' \in [Replica -> [quorum : Read, ephemeral : Read]]
  BY <1>1 DEF TypeInv
<1>5. enclave' = [enclave EXCEPT ![r] = app]
  BY <1>1
<1>6. app' = app
  BY <1>1
<1> HIDE DEF app
<1>7. \A q \in Replica : enclave'[q] = NotRunning \/ Booted(enclave[q])'
  <2> TAKE q \in Replica
  <2>1. CASE q = r
    <3>1. enclave'[q] = app
      BY <1>5, <2>1 DEF TypeInv
    <3> QED  BY <1>3, <1>6, <3>1 DEF Booted
  <2>2. CASE q # r
    <3>1. enclave'[q] = enclave[q]
      BY <1>5, <2>2 DEF TypeInv
    <3>2. enclave[q] = NotRunning \/ Booted(enclave[q])
      BY DEF TypeInv
    <3> QED  BY <1>1, <3>1, <3>2 DEF Booted
  <2> QED  BY <2>1, <2>2
<1> QED  BY <1>1, <1>2, <1>4, <1>5, <1>7 DEF TypeInv

(* Only the first registration counts, and no activity is older.           *)
LEMMA RegisterKeepsTypes ==
  ASSUME TypeInv, NEW r \in Replica, Register(r) PROVE TypeInv'
<1>1. /\ enclave[r].up /\ registered = Missing /\ registered' = enclave[r].seed
      /\ UNCHANGED <<approved, files, enclave, bootProof, responses, activities>>
  BY DEF Register
<1>2. enclave[r].seed \in {QuorumSeed, DevSeed}
  <2>1. enclave[r] # NotRunning
    BY <1>1 DEF NotRunning
  <2> QED  BY <2>1 DEF TypeInv, Booted
<1>3. activities = {}
  BY <1>1, CosignConstants DEF TypeInv
<1> QED  BY <1>1, <1>2, <1>3 DEF TypeInv, Booted

LEMMA CosignKeepsTypes ==
  ASSUME TypeInv, NEW r \in Replica, NEW request \in Request, CosignRequest(r, request)
  PROVE  TypeInv'
<1>1. /\ enclave[r].up
      /\ UNCHANGED <<approved, files, enclave, bootProof, registered, activities>>
  BY DEF CosignRequest
<1>2. enclave[r].seed \in {QuorumSeed, DevSeed}
  <2>1. enclave[r] # NotRunning
    BY <1>1 DEF NotRunning
  <2> QED  BY <2>1 DEF TypeInv, Booted
<1> DEFINE body == ActivityBody(request)
           class == Classify(request.signer, ParsedTx(request.tx), enclave[r].rules)
           key == ApiKey(enclave[r].seed, Role(class))
           answer == [activityBody     |-> body,
                      xStamp           |-> Stamp(key, body),
                      classification   |-> class,
                      appProof         |-> AppProof(enclave[r].ephemeral, body, class, key),
                      bootEphemeralKey |-> enclave[r].ephemeral]
<1>3. /\ responses' = responses \cup {answer}
      /\ answer.xStamp.key.seed = enclave[r].seed
  <2>1. responses' = responses \cup {answer}
    BY DEF CosignRequest
  <2>2. answer.xStamp.key.seed = enclave[r].seed
    BY DEF Stamp, ApiKey
  <2> QED  BY <2>1, <2>2
<1> HIDE DEF answer
<1> QED  BY <1>1, <1>2, <1>3 DEF TypeInv, Booted

LEMMA SubmitKeepsTypes ==
  ASSUME TypeInv, NEW body, NEW xStamp \in Stamps, Submit(body, xStamp)
  PROVE  TypeInv'
<1> DEFINE taken == Activity(body, xStamp.key, {}, xStamp.key.role = "programmatic")
<1>1. /\ activities' = activities \cup {taken}
      /\ xStamp.key.seed = registered
      /\ UNCHANGED <<approved, files, enclave, bootProof, registered, responses>>
  BY DEF Submit
<1>2. taken.key = xStamp.key /\ taken.approvals = {}
  BY DEF Activity
<1>3. xStamp.key.seed \in {QuorumSeed, DevSeed}
  BY StampsAreGiven DEF TypeInv
<1> HIDE DEF taken
<1> QED  BY <1>1, <1>2, <1>3 DEF TypeInv, Booted

LEMMA HumanKeepsTypes ==
  ASSUME TypeInv, NEW human \in Human, NEW activity \in activities,
         HumanApproves(human, activity)
  PROVE  TypeInv'
<1> DEFINE approvals == activity.approvals \cup {human}
           updated == Activity(activity.body, activity.key, approvals, approvals = Human)
<1>1. /\ activities' = (activities \ {activity}) \cup {updated}
      /\ UNCHANGED <<approved, files, enclave, bootProof, registered, responses>>
  BY DEF HumanApproves
<1>2. updated.key = activity.key /\ updated.approvals = approvals
  BY DEF Activity
<1> HIDE DEF updated
<1> QED  BY <1>1, <1>2 DEF TypeInv, Booted

LEMMA ApproveKeepsTypes ==
  ASSUME TypeInv, NEW rules, Approve(rules) PROVE TypeInv'
BY DEF Approve, TypeInv, Booted

LEMMA TypesAlways == Spec => []TypeInv
<1>1. Init => TypeInv
  <2>1. NotRunning \in AppState
    BY DEF NotRunning, AppState
  <2>2. \A rules \in Ruleset : {rules} \subseteq Ruleset
    OBVIOUS
  <2> QED  BY <2>1, <2>2 DEF Init, TypeInv, Read
<1>2. TypeInv /\ [Next]_vars => TypeInv'
  <2> SUFFICES ASSUME TypeInv, [Next]_vars PROVE TypeInv'
    OBVIOUS
  <2>1. CASE UNCHANGED vars
    BY <2>1 DEF vars, TypeInv, Booted
  <2>2. ASSUME NEW r \in Replica, Boot(r) \/ Register(r) PROVE TypeInv'
    BY <2>2, BootKeepsTypes, RegisterKeepsTypes
  <2>3. ASSUME NEW r \in Replica, NEW request \in Request, CosignRequest(r, request)
        PROVE  TypeInv'
    BY <2>3, CosignKeepsTypes
  <2>4. ASSUME NEW rules \in Ruleset, Approve(rules) PROVE TypeInv'
    BY <2>4, ApproveKeepsTypes
  <2>5. ASSUME NEW body, NEW xStamp \in Stamps, Submit(body, xStamp)
        PROVE  TypeInv'
    BY <2>5, SubmitKeepsTypes
  <2>6. ASSUME NEW human \in Human, NEW activity \in activities,
               HumanApproves(human, activity)
        PROVE  TypeInv'
    BY <2>6, HumanKeepsTypes
  <2> QED  BY <2>1, <2>2, <2>3, <2>4, <2>5, <2>6 DEF Next
<1> QED  BY <1>1, <1>2, PTL DEF Spec

(* Every running replica runs an approved ruleset, attested with the       *)
(* ephemeral key it has read, and Turnkey's activities are stamped with    *)
(* the registered key (main.rs, keys.rs).                                  *)
THEOREM CosignTypeCorrect == Spec => []TypeOK
<1>1. TypeInv => TypeOK
  BY DEF TypeInv, TypeOK, Booted
<1> QED  BY <1>1, TypesAlways, PTL

-----------------------------------------------------------------------------
(* Refinement                                                              *)

(* The strengthening the refinement needs: there is one activity for each  *)
(* body and role, nobody is asked about what is stamped as programmatic,   *)
(* and only bodies of requests get there.                                  *)
ActivitiesDistinct ==
  /\ \A response \in responses :
       response.xStamp.key = ApiKey(response.xStamp.key.seed, response.xStamp.key.role)
  /\ \A activity \in activities :
       /\ activity.body \in Bodies
       /\ activity.key = ApiKey(activity.key.seed, activity.key.role)
       /\ activity.key.role = "programmatic" => activity.completed /\ activity.approvals = {}
  /\ \A a, b \in activities : a.body = b.body /\ a.key = b.key => a = b

(* A stamp belongs to a request, and no role gets two of its activities.   *)
LEMMA CosignKeepsDistinct ==
  ASSUME ActivitiesDistinct, NEW r \in Replica, NEW request \in Request,
         CosignRequest(r, request)
  PROVE  ActivitiesDistinct'
<1> DEFINE body == ActivityBody(request)
           class == Classify(request.signer, ParsedTx(request.tx), enclave[r].rules)
           key == ApiKey(enclave[r].seed, Role(class))
           answer == [activityBody     |-> body,
                      xStamp           |-> Stamp(key, body),
                      classification   |-> class,
                      appProof         |-> AppProof(enclave[r].ephemeral, body, class, key),
                      bootEphemeralKey |-> enclave[r].ephemeral]
<1>1. responses' = responses \cup {answer} /\ UNCHANGED activities
  BY DEF CosignRequest
<1>2. answer.xStamp.key = ApiKey(answer.xStamp.key.seed, answer.xStamp.key.role)
  BY DEF Stamp, ApiKey
<1> HIDE DEF answer
<1> QED  BY <1>1, <1>2 DEF ActivitiesDistinct

LEMMA SubmitKeepsDistinct ==
  ASSUME ActivitiesDistinct, NEW body \in Bodies, NEW xStamp \in Stamps,
         Submit(body, xStamp)
  PROVE  ActivitiesDistinct'
<1> DEFINE taken == Activity(body, xStamp.key, {}, xStamp.key.role = "programmatic")
<1>1. /\ activities' = activities \cup {taken} /\ UNCHANGED responses
      /\ ~\E a \in activities : a.body = body /\ a.key = xStamp.key
  BY DEF Submit
<1>2. /\ taken.body = body /\ taken.key = xStamp.key /\ taken.approvals = {}
      /\ taken.completed = (xStamp.key.role = "programmatic")
  BY DEF Activity
<1> HIDE DEF taken
<1>3. taken.key = ApiKey(taken.key.seed, taken.key.role)
  BY <1>2, StampsAreGiven DEF ActivitiesDistinct
<1>4. taken.key.role = "programmatic" => taken.completed
  BY <1>2
<1>5. \A a \in activities' :
        /\ a.body \in Bodies
        /\ a.key = ApiKey(a.key.seed, a.key.role)
        /\ a.key.role = "programmatic" => a.completed /\ a.approvals = {}
  BY <1>1, <1>2, <1>3, <1>4 DEF ActivitiesDistinct
<1>6. \A a, b \in activities' : a.body = b.body /\ a.key = b.key => a = b
  BY <1>1, <1>2 DEF ActivitiesDistinct
<1> QED  BY <1>1, <1>5, <1>6 DEF ActivitiesDistinct

LEMMA HumanKeepsDistinct ==
  ASSUME ActivitiesDistinct, NEW human, NEW activity \in activities,
         HumanApproves(human, activity)
  PROVE  ActivitiesDistinct'
<1> DEFINE approvals == activity.approvals \cup {human}
           updated == Activity(activity.body, activity.key, approvals, approvals = Human)
<1>1. /\ activities' = (activities \ {activity}) \cup {updated} /\ UNCHANGED responses
      /\ ~activity.completed
  BY DEF HumanApproves
<1>2. updated.body = activity.body /\ updated.key = activity.key
  BY DEF Activity
<1> HIDE DEF updated
<1>3. \A a \in activities' : a = updated \/ (a \in activities /\ a # activity)
  BY <1>1
<1>4. \A a \in activities' :
        /\ a.body \in Bodies
        /\ a.key = ApiKey(a.key.seed, a.key.role)
        /\ a.key.role = "programmatic" => a.completed /\ a.approvals = {}
  <2>1. activity.key.role # "programmatic"
    BY <1>1 DEF ActivitiesDistinct
  <2> QED  BY <1>2, <1>3, <2>1 DEF ActivitiesDistinct
<1>5. \A a \in activities : a # activity => ~(a.body = updated.body /\ a.key = updated.key)
  BY <1>2 DEF ActivitiesDistinct
<1>6. \A a, b \in activities' : a.body = b.body /\ a.key = b.key => a = b
  BY <1>3, <1>5 DEF ActivitiesDistinct
<1> QED  BY <1>1, <1>4, <1>6 DEF ActivitiesDistinct

LEMMA AlwaysDistinct == Spec => []ActivitiesDistinct
<1>1. Init => ActivitiesDistinct
  BY DEF Init, ActivitiesDistinct
<1>2. ActivitiesDistinct /\ [Next]_vars => ActivitiesDistinct'
  <2> SUFFICES ASSUME ActivitiesDistinct, [Next]_vars PROVE ActivitiesDistinct'
    OBVIOUS
  <2>1. CASE UNCHANGED <<responses, activities>>
    BY <2>1 DEF ActivitiesDistinct
  <2>2. ASSUME NEW r \in Replica, Boot(r) \/ Register(r) PROVE ActivitiesDistinct'
    BY <2>1, <2>2 DEF Boot, Register
  <2>3. ASSUME NEW rules \in Ruleset, Approve(rules) PROVE ActivitiesDistinct'
    BY <2>1, <2>3 DEF Approve
  <2> QED  BY <2>1, <2>2, <2>3, CosignKeepsDistinct, SubmitKeepsDistinct, HumanKeepsDistinct
           DEF Next, vars
<1> QED  BY <1>1, <1>2, PTL DEF Spec

(* The abstract variables                                                  *)
Consents == UNION {activity.approvals \X {activity.body} : activity \in Guarded}
Signed == {activity.body : activity \in {a \in Guarded : a.completed}}

(* What is taken with a programmatic stamp of the quorum is signed at      *)
(* once; what is taken with any other stamp is neither signed nor          *)
(* consented to.                                                           *)
LEMMA SubmitStep ==
  ASSUME Inv, ActivitiesDistinct, NEW body \in Bodies, NEW xStamp \in Stamps,
         Submit(body, xStamp)
  PROVE  Gate!SignUnattended \/ UNCHANGED Gate!gateVars
<1> DEFINE taken == Activity(body, xStamp.key, {}, xStamp.key.role = "programmatic")
<1>1. /\ activities' = activities \cup {taken} /\ UNCHANGED approved
      /\ xStamp.body = body
  BY DEF Submit
<1>2. /\ taken.body = body /\ taken.approvals = {} /\ taken.key = xStamp.key
      /\ taken.completed = (xStamp.key.role = "programmatic")
  BY DEF Activity
<1> HIDE DEF taken
<1>3. Consents' = Consents
  BY <1>1, <1>2 DEF Consents, Guarded
<1>4. CASE xStamp.key.role = "programmatic" /\ xStamp.key.seed # DevSeed
  <2>1. Signed' = Signed \cup {body}
    <3>1. taken.completed
      BY <1>2, <1>4
    <3>2. Signed' \subseteq Signed \cup {body}
      BY <1>1, <1>2 DEF Signed, Guarded
    <3>3. Signed \subseteq Signed' /\ body \in Signed'
      BY <1>1, <1>2, <1>4, <3>1 DEF Signed, Guarded
    <3> QED  BY <3>2, <3>3
  <2>2. PICK rules \in approved :
          rules \in Ruleset /\ WithinRules(body.signWith, body.unsignedTransaction, rules)
    BY <1>1, <1>4, StampsAreGiven DEF Inv, StampsFollowRules, Stampable, RunsApproved
  <2> QED  BY <1>1, <1>3, <2>1, <2>2 DEF Gate!SignUnattended, Consents, Signed
<1>5. CASE xStamp.key.role # "programmatic" \/ xStamp.key.seed = DevSeed
  <2>1. ~taken.completed \/ taken \notin Guarded'
    BY <1>2, <1>5 DEF Guarded
  <2>2. {a \in Guarded' : a.completed} = {a \in Guarded : a.completed}
    BY <1>1, <2>1 DEF Guarded
  <2>3. Signed' = Signed
    BY <2>2 DEF Signed
  <2> QED  BY <1>1, <1>3, <2>3 DEF Gate!gateVars, Consents, Signed
<1> QED  BY <1>4, <1>5

(* An approval of what has a known key's stamp counts for nothing.         *)
LEMMA UnguardedApprovalStep ==
  ASSUME NEW human \in Human, NEW activity \in activities \ Guarded,
         HumanApproves(human, activity)
  PROVE  UNCHANGED Gate!gateVars
<1> DEFINE approvals == activity.approvals \cup {human}
           updated == Activity(activity.body, activity.key, approvals, approvals = Human)
<1>1. /\ activities' = (activities \ {activity}) \cup {updated}
      /\ UNCHANGED approved
  BY DEF HumanApproves
<1>2. updated.key = activity.key
  BY DEF Activity
<1> HIDE DEF updated
<1>3. Guarded' = Guarded
  BY <1>1, <1>2 DEF Guarded
<1> QED  BY <1>1, <1>3 DEF Gate!gateVars

(* An approval counts for its body alone, because the approvers are asked  *)
(* about a body once, and the last one signs it.                           *)
LEMMA ApprovalStep ==
  ASSUME Inv, TypeInv, ActivitiesDistinct, ActivitiesDistinct', TypeInv',
         NEW human \in Human, NEW activity \in Guarded, HumanApproves(human, activity)
  PROVE  Gate!Consent(human)
<1> DEFINE body == activity.body
           approvals == activity.approvals \cup {human}
           updated == Activity(body, activity.key, approvals, approvals = Human)
<1>0. activity \in activities /\ activity.key.seed # DevSeed
  BY DEF Guarded
<1>1. /\ activities' = (activities \ {activity}) \cup {updated}
      /\ UNCHANGED <<approved, registered>>
      /\ ~activity.completed
  BY DEF HumanApproves
<1>2. /\ updated.body = body /\ updated.key = activity.key
      /\ updated.approvals = approvals /\ updated.completed = (approvals = Human)
  BY DEF Activity
<1> HIDE DEF updated
<1>3. activity.key.role = "admin" /\ body \in Bodies
  BY <1>0, <1>1 DEF ActivitiesDistinct, Inv, ActivitiesFollowRules
<1>4. PICK rules \in approved :
        rules \in Ruleset /\ Privileged(body.signWith, body.unsignedTransaction, rules)
  BY <1>0, <1>3 DEF Inv, ActivitiesFollowRules, Stampable, RunsApproved
<1>5. Consents' = Consents \cup {<<human, body>>}
  <2>1. Consents' \subseteq Consents \cup {<<human, body>>}
    BY <1>0, <1>1, <1>2 DEF Consents, Guarded
  <2>2. Consents \subseteq Consents'
    BY <1>0, <1>1, <1>2 DEF Consents, Guarded
  <2>3. <<human, body>> \in Consents'
    BY <1>0, <1>1, <1>2 DEF Consents, Guarded
  <2> QED  BY <2>1, <2>2, <2>3
<1>6. Human \X {body} \subseteq Consents' <=> approvals = Human
  <2>1. ASSUME approvals = Human PROVE Human \X {body} \subseteq Consents'
    BY <1>0, <1>1, <1>2, <2>1 DEF Consents, Guarded
  <2>2. ASSUME NEW h \in Human, <<h, body>> \in Consents' PROVE h \in approvals
    <3>1. PICK b \in Guarded' : h \in b.approvals /\ b.body = body
      BY <2>2 DEF Consents
    <3>2. b.key.role = "admin"
      BY <1>0, <1>1, <1>2, <1>3, <3>1 DEF ActivitiesDistinct, Inv, ActivitiesFollowRules, Guarded
    <3>3. b.key = ApiKey(registered, "admin") /\ updated.key = ApiKey(registered, "admin")
      BY <1>0, <1>1, <1>2, <1>3, <3>1, <3>2 DEF ActivitiesDistinct, TypeInv, Guarded
    <3>4. b = updated
      BY <1>1, <1>2, <3>1, <3>3 DEF ActivitiesDistinct, Guarded
    <3> QED  BY <1>2, <3>1, <3>4
  <2>3. approvals \subseteq Human
    BY <1>0 DEF TypeInv
  <2> QED  BY <2>1, <2>2, <2>3
<1>7. Signed' = IF approvals = Human THEN Signed \cup {body} ELSE Signed
  <2>1. CASE approvals = Human
    <3>1. updated.completed
      BY <1>2, <2>1
    <3>2. Signed' \subseteq Signed \cup {body}
      BY <1>0, <1>1, <1>2 DEF Signed, Guarded
    <3>3. Signed \subseteq Signed' /\ body \in Signed'
      BY <1>0, <1>1, <1>2, <3>1 DEF Signed, Guarded
    <3> QED  BY <2>1, <3>2, <3>3
  <2>2. CASE approvals # Human
    BY <1>0, <1>1, <1>2, <2>2 DEF Signed, Guarded
  <2> QED  BY <2>1, <2>2
<1> QED  BY <1>1, <1>3, <1>4, <1>5, <1>6, <1>7 DEF Gate!Consent, Consents, Signed

(* As far as the keys of the quorum go, replicas, stamps, the customer and *)
(* Turnkey together implement the abstract gate, for any number of         *)
(* replicas, deployments, requests and approvers, whatever is forged with  *)
(* the known keys.                                                         *)
THEOREM CosignImplementsGate == Spec => ImplementsGate
<1>1. Init => Gate!Init
  BY DEF Init, Gate!Init, Guarded
<1>2. /\ Inv /\ TypeInv /\ ActivitiesDistinct /\ Inv' /\ TypeInv' /\ ActivitiesDistinct'
      /\ [Next]_vars
      => [Gate!Next]_Gate!gateVars
  <2> SUFFICES ASSUME Inv, TypeInv, ActivitiesDistinct, TypeInv', ActivitiesDistinct',
                      [Next]_vars
               PROVE  Gate!Next \/ UNCHANGED Gate!gateVars
    OBVIOUS
  <2>1. CASE UNCHANGED <<approved, activities>>
    BY <2>1 DEF Gate!gateVars, Guarded
  <2>2. ASSUME NEW r \in Replica,
               \/ Boot(r) \/ Register(r)
               \/ \E request \in Request : CosignRequest(r, request)
        PROVE  Gate!Next \/ UNCHANGED Gate!gateVars
    <3>1. UNCHANGED <<approved, activities>>
      BY <2>2 DEF Boot, Register, CosignRequest
    <3> QED  BY <2>1, <3>1
  <2>3. ASSUME NEW rules \in Ruleset, Approve(rules) PROVE Gate!Next
    <3>1. approved' = approved \cup {rules} /\ UNCHANGED activities
      BY <2>3 DEF Approve
    <3>2. Gate!Approve(rules)
      BY <3>1 DEF Gate!Approve, Guarded
    <3> QED  BY <3>2 DEF Gate!Next
  <2>4. ASSUME NEW body \in Bodies, NEW xStamp \in Stamps, Submit(body, xStamp)
        PROVE  Gate!Next \/ UNCHANGED Gate!gateVars
    BY <2>4, SubmitStep DEF Gate!Next
  <2>5. ASSUME NEW human \in Human, NEW activity \in activities,
               HumanApproves(human, activity)
        PROVE  Gate!Next \/ UNCHANGED Gate!gateVars
    BY <2>5, ApprovalStep, UnguardedApprovalStep DEF Gate!Next
  <2>6. CASE UNCHANGED vars
    BY <2>1, <2>6 DEF vars
  <2> QED  BY <2>2, <2>3, <2>4, <2>5, <2>6 DEF Next
<1> QED  BY <1>1, <1>2, RulesAreFollowed, TypesAlways, AlwaysDistinct, PTL
         DEF Spec, ImplementsGate, Gate!Spec
=============================================================================
