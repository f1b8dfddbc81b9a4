---------------------------- MODULE Services_proofs ----------------------------
(***************************************************************************)
(* Proofs about the start of the oracle server: what it knows of the       *)
(* Turnkey policy when its updater runs, for every set of policies and     *)
(* every set of transactions.                                              *)
(***************************************************************************)
EXTENDS Services, FiniteSetTheorems, TLAPS

(* The verdict the preflight wants of case k is what the policy says.      *)
Judged(k) == Permits(policy, Cases[k].transaction) <=> Cases[k].shouldSign

Trusted == stable /\ ~spurious

StartTyped ==
  /\ policy \in Policy
  /\ phase \in {"down", "loading", "preflight", "binding", "serving"}
  /\ options \in Options
  /\ nextCase \in 1..(Len(Cases) + 1)
  /\ updating \in BOOLEAN
  /\ stable \in BOOLEAN
  /\ spurious \in BOOLEAN
  /\ defectSigned \in BOOLEAN
  /\ binary = "sidecar" => ~options.policyPreflight

StartOrdered ==
  /\ phase = "loading" => nextCase = 1
  /\ phase = "preflight" => nextCase <= Len(Cases)
  /\ updating => phase \in {"binding", "serving"}
  /\ defectSigned => phase = "down"

(* The cases behind the process have been judged by the policy in force,   *)
(* and a process past the preflight has all of them behind it.             *)
CasesJudged ==
  /\ Trusted /\ phase = "preflight" => \A k \in 1..(nextCase - 1) : Judged(k)
  /\ Trusted /\ options.policyPreflight /\ phase \in {"binding", "serving"} =>
       \A k \in 1..Len(Cases) : Judged(k)

StartInv == StartTyped /\ StartOrdered /\ CasesJudged

-----------------------------------------------------------------------------

LEMMA EightCases == Len(Cases) = 8
BY DEF Cases

(* A lost answer, a refusal that is not the policy engine's and a failure  *)
(* of Turnkey's are not taken for denials.                                 *)
LEMMA OthersAreNoDenials ==
  ASSUME NEW error \in OtherErrors
  PROVE  ~IsPolicyDenial(error)
<1>1. CASE error = Error("Http", 0, {})
  <2>1. error.kind = "Http"
    BY <1>1 DEF Error
  <2> QED BY <2>1 DEF IsPolicyDenial
<1>2. CASE error = Error("UnexpectedHttpStatus", 403, {})
  <2>1. error.kind = "UnexpectedHttpStatus" /\ error.details = {}
    BY <1>2 DEF Error
  <2> QED BY <2>1 DEF IsPolicyDenial, IsPolicyEnginePermissionError
<1>3. CASE error = Error("UnexpectedHttpStatus", 500, {PolicyEnginePermissionError})
  <2>1. error.kind = "UnexpectedHttpStatus" /\ error.status = 500
    BY <1>3 DEF Error
  <2> QED BY <2>1 DEF IsPolicyDenial
<1> QED BY <1>1, <1>2, <1>3 DEF OtherErrors

(* What one case tells in the preflight: a process that goes on had the    *)
(* case judged as it should be, and nothing signed that must be denied.    *)
LEMMA CaseTells ==
  ASSUME StartInv, CaseSigned \/ CaseRefused \/ CaseFailed
  PROVE  /\ phase = "preflight"
         /\ UNCHANGED <<policy, stable, options>>
         /\ phase' # "down" => /\ CaseHolds
                               /\ ~spurious' => Judged(nextCase) /\ ~spurious
                               /\ ~defectSigned'
         /\ phase' = "down" => updating' = FALSE /\ nextCase' = nextCase
<1>1. \A error \in OtherErrors : ~IsPolicyDenial(error)
  BY OthersAreNoDenials
<1>2. CASE CaseSigned
  BY <1>1, <1>2 DEF CaseSigned, CaseHolds, Exit, SpawnUpdater, StartInv, StartTyped,
         StartOrdered, Judged, policyVars
<1>3. CASE CaseRefused
  BY <1>3 DEF CaseRefused, CaseHolds, Exit, SpawnUpdater, StartInv, StartTyped,
         StartOrdered, Judged, policyVars
<1>4. CASE CaseFailed
  BY <1>4 DEF CaseFailed, CaseHolds, Exit, SpawnUpdater, StartInv, StartTyped,
         StartOrdered, Judged, policyVars
<1> QED BY <1>2, <1>3, <1>4

LEMMA CaseKeepsInv ==
  ASSUME StartInv, CaseSigned \/ CaseRefused \/ CaseFailed, UNCHANGED binary
  PROVE  StartInv'
<1>0. /\ spurious' \in BOOLEAN
      /\ defectSigned' \in BOOLEAN
  BY DEF CaseSigned, CaseRefused, CaseFailed, StartInv, StartTyped
<1>1. CASE phase' = "down"
  <2>1. updating' = FALSE /\ UNCHANGED <<policy, stable, options, nextCase, binary>>
    BY <1>1, CaseTells
  <2> QED BY <1>0, <1>1, <2>1 DEF StartInv, StartTyped, StartOrdered, CasesJudged
<1>2. CASE phase' # "down"
  <2>1. /\ CaseHolds
        /\ ~spurious' => Judged(nextCase) /\ ~spurious
        /\ ~defectSigned'
        /\ phase = "preflight"
        /\ UNCHANGED <<policy, stable, options>>
    BY <1>2, CaseTells
  <2>2. nextCase \in 1..Len(Cases) /\ nextCase' = nextCase + 1
    BY <2>1, EightCases DEF CaseHolds, StartInv, StartTyped, StartOrdered
  <2>3. Trusted' => \A k \in 1..nextCase : Judged(k)'
    <3>1. \A k : Judged(k)' <=> Judged(k)
      BY <2>1 DEF Judged
    <3>2. Trusted' => \A k \in 1..(nextCase - 1) : Judged(k)
      BY <2>1 DEF Trusted, StartInv, CasesJudged
    <3>3. \A k \in 1..nextCase : k \in 1..(nextCase - 1) \/ k = nextCase
      BY <2>2, EightCases
    <3> QED BY <2>1, <3>1, <3>2, <3>3 DEF Trusted
  <2>4. CASE nextCase = Len(Cases)
    <3>1. phase' = "binding" /\ updating' = options.oracleUpdates
      BY <2>1, <2>4 DEF CaseHolds, SpawnUpdater
    <3>2. updating' \in BOOLEAN
      BY <3>1 DEF StartInv, StartTyped, Options
    <3> QED BY <1>0, <2>1, <2>2, <2>3, <2>4, <3>1, <3>2, EightCases
            DEF StartInv, StartTyped, StartOrdered, CasesJudged
  <2>5. CASE nextCase # Len(Cases)
    <3>1. UNCHANGED <<phase, updating>>
      BY <2>1, <2>5 DEF CaseHolds
    <3>2. nextCase' - 1 = nextCase /\ nextCase' <= Len(Cases)
      BY <2>2, <2>5, EightCases
    <3> QED BY <1>0, <2>1, <2>2, <2>3, <3>1, <3>2, EightCases
            DEF StartInv, StartTyped, StartOrdered, CasesJudged
  <2> QED BY <2>4, <2>5
<1> QED BY <1>1, <1>2

(* Every other step keeps what has been judged, or forgets it.             *)
LEMMA StepKeepsInv ==
  ASSUME StartInv, [SNext]_serviceVars
  PROVE  StartInv'
<1>1. CASE Main /\ Start
  <2>1. StartTyped'
    <3>1. binary' = "sidecar" => ~options'.policyPreflight
      BY <1>1 DEF Main, SidecarOptions
    <3>2. 1 \in 1..(Len(Cases) + 1)
      BY EightCases
    <3> QED BY <1>1, <3>1, <3>2 DEF Main, Start, StartInv, StartTyped
  <2>2. StartOrdered'
    BY <1>1, EightCases DEF Main, Start, SidecarOptions, StartInv, StartTyped, StartOrdered
  <2>3. CasesJudged'
    BY <1>1, EightCases DEF Main, Start, SidecarOptions, StartInv, StartTyped, StartOrdered, CasesJudged
  <2> QED BY <2>1, <2>2, <2>3 DEF StartInv
<1>2. CASE Main /\ LoadSidecar
  <2>1. StartTyped'
    BY <1>2, EightCases DEF Main, LoadSidecar, Exit, policyVars, StartInv, StartTyped
  <2>2. StartOrdered'
    BY <1>2, EightCases DEF Main, LoadSidecar, Exit, policyVars, StartInv, StartTyped, StartOrdered
  <2>3. CasesJudged'
    BY <1>2, EightCases DEF Main, LoadSidecar, Exit, policyVars, StartInv, StartTyped, StartOrdered, CasesJudged
  <2> QED BY <2>1, <2>2, <2>3 DEF StartInv
<1>3. CASE Main /\ OracleMain /\ LoadConfiguration
  <2>1. UNCHANGED <<policy, options, nextCase, stable, spurious, defectSigned, binary>>
    BY <1>3 DEF Main, LoadConfiguration, policyVars
  <2>2. /\ phase = "loading"
        /\ \/ phase' = "down" /\ updating' = FALSE
           \/ options.policyPreflight /\ phase' = "preflight" /\ updating' = updating
           \/ ~options.policyPreflight /\ phase' = "binding" /\ updating' = options.oracleUpdates
    BY <1>3 DEF LoadConfiguration, Exit, SpawnUpdater
  <2>3. nextCase = 1 /\ ~defectSigned /\ ~updating
    BY <2>2 DEF StartInv, StartOrdered
  <2>4. options.oracleUpdates \in BOOLEAN
    BY DEF StartInv, StartTyped, Options
  <2>5. StartTyped'
    BY <2>1, <2>2, <2>4 DEF StartInv, StartTyped
  <2>6. StartOrdered'
    BY <2>1, <2>2, <2>3, EightCases DEF StartOrdered
  <2>7. CasesJudged'
    BY <2>1, <2>2, <2>3 DEF CasesJudged
  <2> QED BY <2>5, <2>6, <2>7 DEF StartInv
<1>4. CASE Main /\ OracleMain /\ (CaseSigned \/ CaseRefused \/ CaseFailed)
  BY <1>4, CaseKeepsInv DEF Main
<1>5. CASE Main /\ Bind
  <2>1. UNCHANGED <<policy, options, nextCase, stable, spurious, defectSigned, binary>>
    BY <1>5 DEF Main, Bind, policyVars
  <2>2. \A k : Judged(k)' <=> Judged(k)
    BY <2>1 DEF Judged
  <2>3. Trusted' <=> Trusted
    BY <2>1 DEF Trusted
  <2>4. /\ phase = "binding"
        /\ \/ phase' = "serving" /\ updating' = updating
           \/ phase' = "down" /\ updating' = FALSE
    BY <1>5 DEF Bind, Exit
  <2>5. StartTyped'
    BY <2>1, <2>4 DEF StartInv, StartTyped
  <2>6. StartOrdered'
    BY <2>1, <2>4 DEF StartInv, StartOrdered
  <2>7. CasesJudged'
    BY <2>1, <2>2, <2>3, <2>4 DEF StartInv, CasesJudged
  <2> QED BY <2>5, <2>6, <2>7 DEF StartInv
<1>6. CASE Serving \/ UNCHANGED serviceVars
  <2>1. UNCHANGED <<startVars, binary>>
    BY <1>6 DEF Serving, Serve, Call, Respond, Abandon, serviceVars
  <2>2. UNCHANGED <<policy, phase, options, nextCase, updating, stable, spurious,
                    defectSigned, binary>>
    BY <2>1 DEF startVars
  <2>3. \A k : Judged(k)' <=> Judged(k)
    BY <2>2 DEF Judged
  <2>4. Trusted' <=> Trusted
    BY <2>2 DEF Trusted
  <2> QED BY <2>2, <2>3, <2>4 DEF StartInv, StartTyped, StartOrdered, CasesJudged
<1>7. CASE ProcessEnds
  BY <1>7 DEF ProcessEnds, Crash, Exit, policyVars, StartInv, StartTyped, StartOrdered,
         CasesJudged
<1>8. CASE PolicyChanges
  BY <1>8 DEF PolicyChanges, ChangePolicy, StartInv, StartTyped, StartOrdered, CasesJudged,
         Trusted
<1> QED BY <1>1, <1>2, <1>3, <1>4, <1>5, <1>6, <1>7, <1>8 DEF SNext, Main, OracleMain

LEMMA StartInvHolds == SSpec => []StartInv
<1>1. SInit => StartInv
  <2> SUFFICES ASSUME SInit PROVE StartInv
    OBVIOUS
  <2>1. StartTyped
    <3>1. binary = "sidecar" => ~options.policyPreflight
      BY DEF SInit, SidecarOptions
    <3>2. 1 \in 1..(Len(Cases) + 1)
      BY EightCases
    <3> QED BY <3>1, <3>2 DEF SInit, PInit, StartTyped
  <2>2. StartOrdered /\ CasesJudged
    BY EightCases DEF SInit, PInit, StartOrdered, CasesJudged
  <2> QED BY <2>1, <2>2 DEF StartInv
<1>2. StartInv /\ [SNext]_serviceVars => StartInv'
  BY StepKeepsInv
<1> QED BY <1>1, <1>2, PTL DEF SSpec

-----------------------------------------------------------------------------

(* The eight verdicts are enough: the first shows that the caps and pins   *)
(* leave room for the update, so each other refusal can only be due to the *)
(* field in which its transaction differs.                                 *)
LEMMA JudgedPolicyIsVetted ==
  ASSUME policy \in Policy, \A k \in 1..Len(Cases) : Judged(k)
  PROVE  Vetted(policy)
<1>1. IsPolicy(policy)
  BY PreflightConstants
<1>2. Permits(policy, VALID)
  <2>1. Judged(1)
    BY EightCases
  <2> QED BY <2>1 DEF Judged, Cases, Allowed
<1>3. /\ ~Permits(policy, [VALID EXCEPT !.to = OtherAddress])
      /\ ~Permits(policy, [VALID EXCEPT !.template = OtherTemplate])
      /\ ~Permits(policy, [VALID EXCEPT !.value = 1])
      /\ ~Permits(policy, [VALID EXCEPT !.gas = 250001])
      /\ ~Permits(policy, [VALID EXCEPT !.maxFee = 11])
      /\ ~Permits(policy, WRONG_CHAIN)
  <2>1. Judged(2) /\ Judged(4) /\ Judged(5) /\ Judged(6) /\ Judged(7) /\ Judged(8)
    BY EightCases
  <2>2. /\ Cases[2] = Denied([VALID EXCEPT !.to = OtherAddress])
        /\ Cases[4] = Denied([VALID EXCEPT !.template = OtherTemplate])
        /\ Cases[5] = Denied([VALID EXCEPT !.value = 1])
        /\ Cases[6] = Denied([VALID EXCEPT !.gas = 250001])
        /\ Cases[7] = Denied([VALID EXCEPT !.maxFee = 11])
        /\ Cases[8] = Denied(WRONG_CHAIN)
    BY DEF Cases
  <2>3. \A tx : Denied(tx).transaction = tx /\ ~Denied(tx).shouldSign
    BY DEF Denied
  <2> QED BY <2>1, <2>2, <2>3 DEF Judged
<1>4. /\ "to" \in policy.pins
      /\ "template" \in policy.pins
      /\ "value" \in policy.pins
      /\ "chain" \in policy.pins
  BY <1>1, <1>2, <1>3 DEF Permits, IsPolicy, Pinned, VALID, WRONG_CHAIN, UpdateTransaction
<1>5. policy.gasCap < 250001 /\ policy.feeCap < 11
  BY <1>1, <1>2, <1>3 DEF Permits, IsPolicy, Pinned, VALID, UpdateTransaction
<1>6. ASSUME NEW tx \in Transaction, Permits(policy, tx)
      PROVE  /\ tx.chain = SEPOLIA
             /\ tx.to = ORACLE_ADDRESS
             /\ tx.template = ETH_USD_TEMPLATE_ID
             /\ tx.value = 0
             /\ tx.gas <= 250000
             /\ tx.maxFee <= 10
  <2>1. tx.gas \in Nat /\ tx.maxFee \in Nat
    <3>1. tx.gas \in Gas /\ tx.maxFee \in Fee
      BY <1>6 DEF Transaction
    <3>2. Gas \subseteq Nat /\ Fee \subseteq Nat
      BY PreflightConstants
    <3> QED BY <3>1, <3>2
  <2>2. \A f \in policy.pins : tx[f] = UpdateTransaction[f]
    BY <1>6 DEF Permits
  <2>3. tx.gas <= 250000 /\ tx.maxFee <= 10
    BY <1>1, <1>5, <1>6, <2>1 DEF Permits, IsPolicy
  <2>4. /\ tx["chain"] = UpdateTransaction["chain"]
        /\ tx["to"] = UpdateTransaction["to"]
        /\ tx["template"] = UpdateTransaction["template"]
        /\ tx["value"] = UpdateTransaction["value"]
    BY <1>4, <2>2
  <2> QED BY <2>3, <2>4 DEF UpdateTransaction
<1> QED BY <1>2, <1>6 DEF Vetted, VALID

(* An updater that runs behind a preflight does so under a policy that     *)
(* permits updates and, but for the function, nothing else, whatever       *)
(* Turnkey answers: of all policies that pin fields one by one and cap gas *)
(* and fee, as PreflightConstants says.  Of a policy that ties fields      *)
(* together eight cases tell less (policy_preflight.rs, main.rs).          *)
THEOREM PreflightIsEnough == SSpec => []PreflightHolds
<1>1. StartInv => PreflightHolds
  BY JudgedPolicyIsVetted DEF StartInv, StartTyped, StartOrdered, CasesJudged, PreflightHolds,
         Trusted
<1> QED BY <1>1, StartInvHolds, PTL

(* A process for which Turnkey signed a transaction that had to be denied  *)
(* ends, also when the signature never reaches it (is_policy_denial).      *)
THEOREM SignedDefectStops == SSpec => []UnattendedSignatureStops
<1>1. StartInv => UnattendedSignatureStops
  BY DEF StartInv, StartOrdered, UnattendedSignatureStops
<1> QED BY <1>1, StartInvHolds, PTL

-----------------------------------------------------------------------------
(* The metrics layer                                                       *)

Paths == RoutePaths("oracle") \cup RoutePaths("sidecar") \cup OtherPath
           \cup {"/metrics", Unmatched}
Requested == [method : Method, path : Paths, label : Paths]
Labels == [method : Method, path : Paths, status : Nat]

(* A sample of the sidecar belongs to a route and one of its answers, or   *)
(* to all the paths that are no route's.                                   *)
OfRoutes(labels) ==
  \/ /\ labels.path \in RoutePaths("sidecar")
     /\ labels.status \in Answers("sidecar", labels.method, labels.path)
  \/ labels.path = Unmatched /\ labels.status = 404

NthAnswers(labels) == {n \in 1..Len(answered) : answered[n] = labels}

Counted ==
  /\ answered \in Seq(Labels)
  /\ Len(answered) <= MaxAnswers
  /\ DOMAIN series = {answered[n] : n \in 1..Len(answered)}
  /\ \A labels \in DOMAIN series : series[labels] = Cardinality(NthAnswers(labels))

MetricsInv ==
  /\ binary \in Binary
  /\ inflight \in [Client -> Requested \cup {Idle}]
  /\ \A c \in Client : inflight[c] # Idle =>
                         inflight[c].label = PathLabel(binary, inflight[c].path)
  /\ Counted
  /\ binary = "sidecar" => \A n \in 1..Len(answered) : OfRoutes(answered[n])

LEMMA AnswersAreStatuses ==
  ASSUME NEW b \in Binary, NEW method, NEW path PROVE Answers(b, method, path) \subseteq Nat
<1>1. \A r \in Routes(b) : r.answers \subseteq Nat
  BY DEF Routes, OracleRoutes, SidecarRoutes, Route, Health, Dashboard,
         SignedEthUsdObservation, OracleStatus, RandomAppProof, HelloWorld, Time,
         TurnkeyApiPublicKey, TurnkeyActivityWebhook
<1>2. CASE path \in RoutePaths(b)
  <2> DEFINE route == CHOOSE r \in Routes(b) : r.path = path
  <2>1. route \in Routes(b)
    BY <1>2 DEF RoutePaths
  <2>2. route.answers \subseteq Nat
    BY <1>1, <2>1
  <2> HIDE DEF route
  <2>3. Answers(b, method, path) = IF method \in route.methods THEN route.answers ELSE {405}
    BY <1>2 DEF Answers, route
  <2> QED  BY <2>2, <2>3
<1>3. CASE path \notin RoutePaths(b)
  BY <1>3 DEF Answers
<1> QED  BY <1>2, <1>3

(* One more answer adds one to the number of answers with its labels, and  *)
(* to no other.                                                            *)
LEMMA OneMoreAnswer ==
  ASSUME Counted, Len(answered) < MaxAnswers, NEW labels \in Labels,
         answered' = Append(answered, labels),
         series' = [l \in DOMAIN series \cup {labels} |->
                      IF l = labels THEN Samples(l) + 1 ELSE series[l]]
  PROVE  Counted'
<1>1. /\ answered' \in Seq(Labels)
      /\ Len(answered') = Len(answered) + 1
      /\ answered'[Len(answered) + 1] = labels
      /\ \A n \in 1..Len(answered) : answered'[n] = answered[n]
  BY DEF Counted
<1>2. Len(answered) \in Nat
  BY DEF Counted
<1>3. DOMAIN series' = {answered'[n] : n \in 1..Len(answered')}
  <2>1. 1..Len(answered') = 1..Len(answered) \cup {Len(answered) + 1}
    BY <1>1, <1>2
  <2>2. DOMAIN series' = DOMAIN series \cup {labels}
    OBVIOUS
  <2> QED  BY <1>1, <2>1, <2>2 DEF Counted
<1>4. \A l : IsFiniteSet(NthAnswers(l)) /\ Len(answered) + 1 \notin NthAnswers(l)
  <2> TAKE l
  <2>1. IsFiniteSet(1..Len(answered))
    BY <1>2, FS_Interval
  <2>2. NthAnswers(l) \in SUBSET (1..Len(answered))
    BY DEF NthAnswers
  <2>3. Len(answered) + 1 \notin 1..Len(answered)
    BY <1>2
  <2> QED  BY <2>1, <2>2, <2>3, FS_Subset
<1>5. NthAnswers(labels)' = NthAnswers(labels) \cup {Len(answered) + 1}
  BY <1>1, <1>2 DEF NthAnswers
<1>6. \A l : l # labels => NthAnswers(l)' = NthAnswers(l)
  BY <1>1, <1>2 DEF NthAnswers
<1>7. Samples(labels) = Cardinality(NthAnswers(labels))
  <2>1. CASE labels \in DOMAIN series
    BY <2>1 DEF Samples, Counted
  <2>2. CASE labels \notin DOMAIN series
    <3>1. NthAnswers(labels) = {}
      BY <2>2 DEF Counted, NthAnswers
    <3> QED  BY <2>2, <3>1, FS_EmptySet DEF Samples
  <2> QED  BY <2>1, <2>2
<1>8. Cardinality(NthAnswers(labels) \cup {Len(answered) + 1})
        = Cardinality(NthAnswers(labels)) + 1
  BY <1>4, FS_AddElement
<1>9. \A l \in DOMAIN series' : series'[l] = Cardinality(NthAnswers(l)')
  <2> TAKE l \in DOMAIN series'
  <2>1. CASE l = labels
    BY <1>5, <1>7, <1>8, <2>1
  <2>2. CASE l # labels
    <3>1. l \in DOMAIN series /\ series'[l] = series[l]
      BY <2>2
    <3> QED  BY <1>6, <2>2, <3>1 DEF Counted
  <2> QED  BY <2>1, <2>2
<1>10. Len(answered') <= MaxAnswers
  BY <1>1, <1>2, MetricsConstants
<1> QED  BY <1>1, <1>3, <1>9, <1>10 DEF Counted

LEMMA NothingCounted ==
  ASSUME answered = <<>>, series = NoSeries, inflight = NoRequests, binary \in Binary
  PROVE  MetricsInv
<1>1. MaxAnswers \in Nat
  BY MetricsConstants
<1>2. DOMAIN series = {}
  BY DEF NoSeries
<1> QED  BY <1>1, <1>2 DEF MetricsInv, Counted, NoRequests

LEMMA CallKeepsMetrics ==
  ASSUME MetricsInv, NEW c \in Client, Call(c) PROVE MetricsInv'
<1>1. PICK method \in Method, path \in RoutePaths(binary) \cup OtherPath \cup {"/metrics"} :
        inflight' = [inflight EXCEPT ![c] =
          [method |-> method, path |-> path, label |-> PathLabel(binary, path)]]
  BY DEF Call
<1> DEFINE request == [method |-> method, path |-> path, label |-> PathLabel(binary, path)]
<1>2. request \in Requested
  <2>1. path \in Paths /\ PathLabel(binary, path) \in Paths
    BY DEF Paths, PathLabel, MetricsInv, Binary
  <2> QED  BY <2>1 DEF Requested
<1>3. request.label = PathLabel(binary, request.path)
  OBVIOUS
<1>4. inflight' = [inflight EXCEPT ![c] = request]
  BY <1>1
<1>5. UNCHANGED <<binary, series, answered>>
  BY DEF Call
<1> HIDE DEF request
<1> QED  BY <1>2, <1>3, <1>4, <1>5 DEF MetricsInv, Counted, NthAnswers

LEMMA RespondKeepsMetrics ==
  ASSUME MetricsInv, NEW c \in Client, Respond(c) PROVE MetricsInv'
<1> DEFINE request == inflight[c]
<1>1. /\ request \in Requested
      /\ request.label = PathLabel(binary, request.path)
      /\ inflight' = [inflight EXCEPT ![c] = Idle]
      /\ binary' = binary
      /\ Len(answered) < MaxAnswers
  BY DEF Respond, MetricsInv
<1>2. CASE ~Layered(request.path)
  <2>1. UNCHANGED <<series, answered>>
    BY <1>2 DEF Respond
  <2> QED  BY <1>1, <2>1 DEF MetricsInv, Counted, NthAnswers
<1>3. CASE Layered(request.path)
  <2>1. PICK status \in Answers(binary, request.method, request.path) :
          LET labels == [method |-> request.method, path |-> request.label,
                         status |-> status]
          IN  /\ answered' = Append(answered, labels)
              /\ series' = [l \in DOMAIN series \cup {labels} |->
                              IF l = labels THEN Samples(l) + 1 ELSE series[l]]
    BY <1>3 DEF Respond
  <2> DEFINE labels == [method |-> request.method, path |-> request.label, status |-> status]
  <2>2. status \in Nat
    BY AnswersAreStatuses DEF MetricsInv
  <2>3. labels \in Labels
    BY <1>1, <2>2 DEF Requested, Labels
  <2>4. binary = "sidecar" => OfRoutes(labels)
    <3>1. CASE binary = "sidecar" /\ request.path \in RoutePaths("sidecar")
      <4>1. request.label = request.path
        BY <1>1, <3>1 DEF PathLabel
      <4> QED  BY <3>1, <4>1 DEF OfRoutes
    <3>2. CASE binary = "sidecar" /\ request.path \notin RoutePaths("sidecar")
      <4>1. request.label = Unmatched /\ status = 404
        BY <1>1, <3>2 DEF PathLabel, Answers
      <4> QED  BY <4>1 DEF OfRoutes
    <3> QED  BY <3>1, <3>2
  <2>5. /\ answered' = Append(answered, labels)
        /\ series' = [l \in DOMAIN series \cup {labels} |->
                        IF l = labels THEN Samples(l) + 1 ELSE series[l]]
    BY <2>1
  <2> HIDE DEF labels
  <2>6. Counted'
    BY <1>1, <2>3, <2>5, OneMoreAnswer DEF MetricsInv
  <2>7. binary = "sidecar" => \A n \in 1..Len(answered') : OfRoutes(answered'[n])
    <3>1. answered \in Seq(Labels) /\ Len(answered) \in Nat
      BY DEF MetricsInv, Counted
    <3>2. \A n \in 1..Len(answered') :
            \/ n \in 1..Len(answered) /\ answered'[n] = answered[n]
            \/ answered'[n] = labels
      BY <2>3, <2>5, <3>1
    <3> QED  BY <2>4, <3>2 DEF MetricsInv
  <2> QED  BY <1>1, <2>6, <2>7 DEF MetricsInv, OfRoutes
<1> QED  BY <1>2, <1>3

LEMMA StepKeepsMetrics ==
  ASSUME MetricsInv, [SNext]_serviceVars PROVE MetricsInv'
<1>1. CASE UNCHANGED <<binary, metricsVars>>
  BY <1>1 DEF metricsVars, MetricsInv, Counted, NthAnswers, OfRoutes
<1>2. CASE ProcessEnds
  <2>1. answered' = <<>> /\ series' = NoSeries /\ inflight' = NoRequests /\ binary' \in Binary
    BY <1>2 DEF ProcessEnds, MetricsLost, MetricsInv
  <2>2. DOMAIN series' = {} /\ MaxAnswers \in Nat
    BY <2>1, MetricsConstants DEF NoSeries
  <2> QED  BY <2>1, <2>2 DEF MetricsInv, Counted, NoRequests
<1>3. ASSUME NEW c \in Client, Abandon(c) PROVE MetricsInv'
  BY <1>3 DEF Abandon, MetricsInv, Counted, NthAnswers, OfRoutes
<1> QED  BY <1>1, <1>2, <1>3, CallKeepsMetrics, RespondKeepsMetrics
         DEF SNext, Main, Serving, Serve, PolicyChanges, serviceVars

LEMMA MetricsInvHolds == SSpec => []MetricsInv
<1>1. SInit => MetricsInv
  BY NothingCounted DEF SInit, MInit
<1>2. MetricsInv /\ [SNext]_serviceVars => MetricsInv'
  BY StepKeepsMetrics
<1> QED  BY <1>1, <1>2, PTL DEF SSpec

(* Clients cannot grow the sidecar's registry by what they write into      *)
(* their URLs (MatchedPath in the layer of the sidecar's metrics crate).   *)
THEOREM SeriesStayBounded == SSpec => []SeriesBounded
<1>1. MetricsInv => SeriesBounded
  <2> SUFFICES ASSUME MetricsInv, binary = "sidecar", NEW method \in Method
               PROVE
      LET ofMethod == {labels \in DOMAIN series : labels.method = method}
          possible == UNION {{[method |-> method, path |-> path, status |-> status] :
                                status \in Answers("sidecar", method, path)} :
                             path \in RoutePaths("sidecar")}
      IN  Cardinality(ofMethod \ possible) <= 1
    BY DEF SeriesBounded
  <2> DEFINE ofMethod == {labels \in DOMAIN series : labels.method = method}
             possible == UNION {{[method |-> method, path |-> path, status |-> status] :
                                   status \in Answers("sidecar", method, path)} :
                                path \in RoutePaths("sidecar")}
             others == [method |-> method, path |-> Unmatched, status |-> 404]
  <2>1. ASSUME NEW labels \in ofMethod, labels \notin possible PROVE labels = others
    <3>1. labels \in Labels /\ OfRoutes(labels) /\ labels.method = method
      BY DEF MetricsInv, Counted
    <3>2. labels = [method |-> method, path |-> labels.path, status |-> labels.status]
      BY <3>1 DEF Labels
    <3>3. CASE labels.path = Unmatched /\ labels.status = 404
      BY <3>2, <3>3
    <3>4. CASE /\ labels.path \in RoutePaths("sidecar")
               /\ labels.status \in Answers("sidecar", labels.method, labels.path)
      <4>1. labels \in possible
        BY <3>1, <3>2, <3>4
      <4> QED  BY <2>1, <4>1
    <3> QED  BY <3>1, <3>3, <3>4 DEF OfRoutes
  <2>2. ofMethod \ possible \in SUBSET {others}
    BY <2>1
  <2>3. IsFiniteSet({others}) /\ Cardinality({others}) = 1
    BY FS_Singleton
  <2> HIDE DEF ofMethod, possible, others
  <2>4. /\ IsFiniteSet(ofMethod \ possible)
        /\ Cardinality(ofMethod \ possible) <= Cardinality({others})
    BY <2>2, <2>3, FS_Subset
  <2> QED  BY <2>3, <2>4 DEF ofMethod, possible
<1> QED  BY <1>1, MetricsInvHolds, PTL

(* Only the oracle has a preflight and an updater, and only a process that *)
(* serves holds requests and samples.                                      *)
ProcessFits ==
  /\ binary = "sidecar" => phase # "preflight" /\ ~updating
  /\ phase # "serving" => inflight = NoRequests /\ series = NoSeries

LEMMA ProcessFitsHolds == SSpec => []ProcessFits
<1>1. SInit => ProcessFits
  BY DEF SInit, PInit, MInit, ProcessFits
<1>2. StartInv /\ ProcessFits /\ [SNext]_serviceVars => ProcessFits'
  <2> SUFFICES ASSUME StartInv, ProcessFits, [SNext]_serviceVars PROVE ProcessFits'
    OBVIOUS
  <2>1. CASE Main
    <3>1. phase # "serving" /\ UNCHANGED <<binary, metricsVars>>
      BY <2>1 DEF Main, Start, LoadSidecar, OracleMain, LoadConfiguration, CaseSigned,
             CaseRefused, CaseFailed, Bind
    <3>2. binary = "sidecar" => phase' # "preflight" /\ ~updating'
      BY <2>1 DEF Main, Start, LoadSidecar, OracleMain, Bind, Exit, ProcessFits
    <3> QED  BY <3>1, <3>2 DEF ProcessFits, metricsVars
  <2>2. CASE Serving
    BY <2>2 DEF Serving, Serve, Call, Respond, Abandon, startVars, ProcessFits
  <2>3. CASE ProcessEnds
    BY <2>3 DEF ProcessEnds, Crash, Exit, MetricsLost, ProcessFits
  <2>4. CASE PolicyChanges
    BY <2>4 DEF PolicyChanges, ChangePolicy, metricsVars, ProcessFits
  <2>5. CASE UNCHANGED serviceVars
    BY <2>5 DEF serviceVars, startVars, metricsVars, ProcessFits
  <2> QED  BY <2>1, <2>2, <2>3, <2>4, <2>5 DEF SNext
<1> QED  BY <1>1, <1>2, StartInvHolds, PTL DEF SSpec

(* Every answer is counted once, in the series of its labels, and a        *)
(* process holds nothing of an earlier one (layer.rs, main.rs).            *)
THEOREM ServicesTypeCorrect == SSpec => []ServicesTypeOK
<1>1. StartInv /\ MetricsInv /\ ProcessFits => ServicesTypeOK
  <2> SUFFICES ASSUME StartInv, MetricsInv, ProcessFits PROVE ServicesTypeOK
    OBVIOUS
  <2>1. PTypeOK
    BY DEF StartInv, StartTyped, StartOrdered, PTypeOK
  <2>2. MTypeOK
    BY DEF MetricsInv, Counted, NthAnswers, Requested, MTypeOK
  <2> QED  BY <2>1, <2>2 DEF ProcessFits, ServicesTypeOK
<1> QED  BY <1>1, StartInvHolds, MetricsInvHolds, ProcessFitsHolds, PTL
=============================================================================
