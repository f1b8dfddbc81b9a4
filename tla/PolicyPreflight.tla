---------------------------- MODULE PolicyPreflight ----------------------------
(***************************************************************************)
(* How the oracle's process starts (crates/tvc-oracle-demo/src/main.rs)    *)
(* and the check of the Turnkey policy it may run before it serves         *)
(* (policy_preflight.rs).                                                  *)
(*                                                                         *)
(* The preflight has Turnkey sign one transaction like the updater's and   *)
(* seven with something wrong, discards the signatures, and ends the       *)
(* process unless the first is signed and each of the others is denied.    *)
(* The policy is kept by Turnkey, whose administrators may change it at    *)
(* any time; an answer may be lost after Turnkey has signed, and signing   *)
(* may fail for a reason that is no policy.                                *)
(*                                                                         *)
(* Turnkey is outside src/.  Fees are in gwei: the fixture's 10 gwei and   *)
(* 1 wei counts as the next whole one.                                     *)
(***************************************************************************)
EXTENDS Naturals, Sequences

CONSTANTS
  Policy,            \* what the organization's policy may be
  Chain, Address, Function, Word, Value, Gas, Fee,
                     \* the fields of the transactions considered
  SEPOLIA, ORACLE_ADDRESS, UPDATE_PRICE, ETH_USD_TEMPLATE_ID,
  OtherChain, OtherAddress, SET_UPDATER, AddressWord, OtherTemplate
                     \* what the fixtures put in their place

VARIABLES
  policy,            \* the policy in force at Turnkey
  phase,             \* how far main() has come
  options,           \* the command line of this process
  nextCase,          \* the case the preflight is about to try
  updating,          \* run_forever is spawned
  stable,            \* (history) the policy is the one this process started with
  spurious,          \* (history) signing failed in this process and looked like a denial
  defectSigned       \* (history) a case that must be denied was signed in this process

policyVars == <<policy, stable>>
startVars == <<policy, phase, options, nextCase, updating, stable, spurious, defectSigned>>

Transaction ==
  [chain : Chain, to : Address, function : Function, template : Word,
   value : Value, gas : Gas, maxFee : Fee]

(* The fields a policy may pin.                                            *)
Pinned == {"chain", "to", "function", "template", "value"}

(* What encode_unsigned_eip1559 builds around the calldata of updatePrice. *)
UpdateTransaction ==
  [chain |-> SEPOLIA, to |-> ORACLE_ADDRESS, function |-> UPDATE_PRICE,
   template |-> ETH_USD_TEMPLATE_ID, value |-> 0, gas |-> 200000, maxFee |-> 5]

VALID == UpdateTransaction

Allowed(tx) == [transaction |-> tx, shouldSign |-> TRUE]
Denied(tx) == [transaction |-> tx, shouldSign |-> FALSE]

(* The fixture with another function has its argument where a template     *)
(* would be.                                                               *)
WRONG_FUNCTION == [VALID EXCEPT !.function = SET_UPDATER, !.template = AddressWord]
WRONG_CHAIN == [VALID EXCEPT !.chain = OtherChain]

Cases ==
  << Allowed(VALID),
     Denied([VALID EXCEPT !.to = OtherAddress]),
     Denied(WRONG_FUNCTION),
     Denied([VALID EXCEPT !.template = OtherTemplate]),
     Denied([VALID EXCEPT !.value = 1]),
     Denied([VALID EXCEPT !.gas = 250001]),
     Denied([VALID EXCEPT !.maxFee = 11]),
     Denied(WRONG_CHAIN) >>

(* The policies considered: each pins some fields to the update's, one by  *)
(* one, caps gas and fee, and leaves the rest to a human or to nobody.     *)
IsPolicy(p) ==
  /\ p.pins \subseteq Pinned
  /\ p.gasCap \in Nat
  /\ p.feeCap \in Nat
  /\ p.otherwise \in {"reject", "consensus"}

Permits(p, tx) ==
  /\ \A f \in p.pins : tx[f] = UpdateTransaction[f]
  /\ tx.gas <= p.gasCap
  /\ tx.maxFee <= p.feeCap

ASSUME PreflightConstants ==
  /\ \A p \in Policy : IsPolicy(p)
  /\ {SEPOLIA, OtherChain} \subseteq Chain /\ SEPOLIA # OtherChain
  /\ {ORACLE_ADDRESS, OtherAddress} \subseteq Address /\ ORACLE_ADDRESS # OtherAddress
  /\ {UPDATE_PRICE, SET_UPDATER} \subseteq Function /\ UPDATE_PRICE # SET_UPDATER
  /\ {ETH_USD_TEMPLATE_ID, OtherTemplate, AddressWord} \subseteq Word
  /\ ETH_USD_TEMPLATE_ID \notin {OtherTemplate, AddressWord}
  /\ Value \subseteq Nat /\ {0, 1} \subseteq Value
  /\ Gas \subseteq Nat /\ {200000, 250001} \subseteq Gas
  /\ Fee \subseteq Nat /\ {5, 11} \subseteq Fee

-----------------------------------------------------------------------------
(* What sign_transaction may return: the client's errors, as far as        *)
(* is_policy_denial looks at them.  details are the "@type"s in the body.  *)

Error(kind, status, details) == [kind |-> kind, status |-> status, details |-> details]
PolicyEnginePermissionError == "type.googleapis.com/errors.v1.PolicyEnginePermissionError"

NoResultErrors ==
  {Error("ActivityFailed", 200, {}), Error("MissingResult", 200, {}),
   Error("MissingInnerResult", 200, {})}
ApprovalError == Error("ActivityRequiresApproval", 200, {})
RejectionErrors ==
  {Error("UnexpectedActivityStatus: ACTIVITY_STATUS_REJECTED", 200, {}),
   Error("UnexpectedHttpStatus", 403, {PolicyEnginePermissionError})}
OtherErrors ==
  {Error("Http", 0, {}), Error("UnexpectedHttpStatus", 403, {}),
   Error("UnexpectedHttpStatus", 500, {PolicyEnginePermissionError})}
Errors == NoResultErrors \cup {ApprovalError} \cup RejectionErrors \cup OtherErrors

IsPolicyEnginePermissionError(details) == PolicyEnginePermissionError \in details

(* Wrong variant: every error is taken for a denial.                       *)
AnyErrorIsDenial(error) == error \in Errors

IsPolicyDenial(error) ==
  \/ error.kind \in {"ActivityFailed", "ActivityRequiresApproval", "MissingResult",
                     "MissingInnerResult",
                     "UnexpectedActivityStatus: ACTIVITY_STATUS_REJECTED"}
  \/ /\ error.kind = "UnexpectedHttpStatus"
     /\ error.status = 403
     /\ IsPolicyEnginePermissionError(error.details)

(* The errors of a call that Turnkey refuses by its policy.                *)
RefusalErrors(p) ==
  OtherErrors \cup NoResultErrors \cup
    (IF p.otherwise = "consensus" THEN {ApprovalError} ELSE RejectionErrors)

-----------------------------------------------------------------------------
(* main()                                                                  *)

Options ==
  [policyPreflight : BOOLEAN, oracleUpdates : BOOLEAN, interval : 0..1,
   organization : {"", "given"}]

Exit ==
  /\ phase' = "down"
  /\ updating' = FALSE

(* From the end of the preflight to the bind there is no suspension.       *)
SpawnUpdater ==
  /\ phase' = "binding"
  /\ updating' = options.oracleUpdates

PInit ==
  /\ policy \in Policy
  /\ phase = "down"
  /\ options \in Options
  /\ nextCase = 1
  /\ updating = FALSE
  /\ stable = TRUE
  /\ spurious = FALSE
  /\ defectSigned = FALSE

Start ==
  /\ phase = "down"
  /\ phase' = "loading"
  /\ options' \in Options
  /\ nextCase' = 1
  /\ stable' = TRUE
  /\ spurious' = FALSE
  /\ defectSigned' = FALSE
  /\ UNCHANGED <<policy, updating>>

(* Wrong variant: the updater is spawned before the preflight.             *)
SpawnFirst ==
  /\ phase = "loading"
  /\ \/ Exit
     \/ /\ options.organization # ""
        /\ options.interval # 0
        /\ phase' = IF options.policyPreflight THEN "preflight" ELSE "binding"
        /\ updating' = options.oracleUpdates
  /\ UNCHANGED <<policyVars, options, nextCase, spurious, defectSigned>>

(* The keys, the state and the interval; a key file may be unreadable.     *)
(* Without updates the interval is checked all the same.                   *)
LoadConfiguration ==
  /\ phase = "loading"
  /\ \/ Exit
     \/ /\ options.organization # ""
        /\ options.interval # 0
        /\ IF options.policyPreflight
           THEN phase' = "preflight" /\ UNCHANGED updating
           ELSE SpawnUpdater
  /\ UNCHANGED <<policyVars, options, nextCase, spurious, defectSigned>>

CaseHolds ==
  /\ nextCase' = nextCase + 1
  /\ IF nextCase = Len(Cases) THEN SpawnUpdater ELSE UNCHANGED <<phase, updating>>

(* Turnkey signs what the policy permits; the answer may be lost.          *)
CaseSigned ==
  /\ phase = "preflight"
  /\ Permits(policy, Cases[nextCase].transaction)
  /\ defectSigned' = (defectSigned \/ ~Cases[nextCase].shouldSign)
  /\ \/ IF Cases[nextCase].shouldSign THEN CaseHolds ELSE Exit /\ UNCHANGED nextCase
     \/ \E error \in OtherErrors :
          IF ~Cases[nextCase].shouldSign /\ IsPolicyDenial(error)
          THEN CaseHolds
          ELSE Exit /\ UNCHANGED nextCase
  /\ UNCHANGED <<policyVars, options, spurious>>

(* Turnkey refuses what the policy does not permit.                        *)
CaseRefused ==
  /\ phase = "preflight"
  /\ ~Permits(policy, Cases[nextCase].transaction)
  /\ \E error \in RefusalErrors(policy) :
       IF ~Cases[nextCase].shouldSign /\ IsPolicyDenial(error)
       THEN CaseHolds
       ELSE Exit /\ UNCHANGED nextCase
  /\ UNCHANGED <<policyVars, options, spurious, defectSigned>>

(* Turnkey fails to sign what the policy permits.                          *)
CaseFailed ==
  /\ phase = "preflight"
  /\ Permits(policy, Cases[nextCase].transaction)
  /\ \E error \in NoResultErrors \cup OtherErrors :
       /\ spurious' = (spurious \/ IsPolicyDenial(error))
       /\ IF ~Cases[nextCase].shouldSign /\ IsPolicyDenial(error)
          THEN CaseHolds
          ELSE Exit /\ UNCHANGED nextCase
  /\ UNCHANGED <<policyVars, options, defectSigned>>

(* The updater is running already; if the port is taken it ends with the   *)
(* process, wherever its cycle is.                                         *)
Bind ==
  /\ phase = "binding"
  /\ \/ phase' = "serving" /\ UNCHANGED updating
     \/ Exit
  /\ UNCHANGED <<policyVars, options, nextCase, spurious, defectSigned>>

Crash ==
  /\ phase # "down"
  /\ Exit
  /\ UNCHANGED <<policyVars, options, nextCase, spurious, defectSigned>>

(* An administrator of the organization changes the policy.                *)
ChangePolicy ==
  /\ \E p \in Policy : p # policy /\ policy' = p
  /\ stable' = FALSE
  /\ UNCHANGED <<phase, options, nextCase, updating, spurious, defectSigned>>

StartUp ==
  \/ Start
  \/ LoadConfiguration
  \/ CaseSigned
  \/ CaseRefused
  \/ CaseFailed
  \/ Bind

PNext == StartUp \/ Crash \/ ChangePolicy

PSpec == PInit /\ [][PNext]_startVars

-----------------------------------------------------------------------------
(* Properties                                                              *)

PTypeOK ==
  /\ policy \in Policy
  /\ phase \in {"down", "loading", "preflight", "binding", "serving"}
  /\ options \in Options
  /\ nextCase \in 1..(Len(Cases) + 1)
  /\ updating \in BOOLEAN
  /\ stable \in BOOLEAN
  /\ spurious \in BOOLEAN
  /\ defectSigned \in BOOLEAN
  /\ phase = "preflight" => nextCase <= Len(Cases)

(* A policy under which the updater can work and, but for the function,    *)
(* can sign nothing else than an update.                                   *)
Vetted(p) ==
  /\ Permits(p, UpdateTransaction)
  /\ \A tx \in Transaction :
       Permits(p, tx) =>
         /\ tx.chain = SEPOLIA
         /\ tx.to = ORACLE_ADDRESS
         /\ tx.template = ETH_USD_TEMPLATE_ID
         /\ tx.value = 0
         /\ tx.gas <= 250000
         /\ tx.maxFee <= 10

(* An updater that runs, or a server that answers, behind a preflight      *)
(* does so under a policy that lets updates through and nothing with       *)
(* another destination, chain, template or value or beyond the caps,       *)
(* unless the policy has changed since the start or a failure of Turnkey's *)
(* passed for a denial.  The eight cases are enough to know that for every *)
(* transaction, if the policy pins its fields independently.               *)
PreflightHolds ==
  options.policyPreflight /\ (updating \/ phase = "serving") /\ stable /\ ~spurious
    => Vetted(policy)

(* A process to which Turnkey has signed away a transaction that had to be *)
(* denied goes no further, even if it never learns of the signature.       *)
UnattendedSignatureStops == defectSigned => phase = "down"
=============================================================================
