----------------------------- MODULE AptosPolicy -----------------------------
(***************************************************************************)
(* How the policy sidecar judges one Turnkey activity                      *)
(* (crates/policy-sidecar/src/webhook/activity.rs and aptos_policy.rs).    *)
(*                                                                         *)
(* The judgement is pure.  Signing bytes are represented by what parsing   *)
(* them yields: whether the domain prefix and the BCS encoding of an       *)
(* entry-function transaction are right, and the decoded fields.  The      *)
(* reason that accompanies a decision is only logged and is left out;      *)
(* amounts keep the width of a u64.                                        *)
(***************************************************************************)
EXTENDS Integers

CONSTANTS
  Organization,
  Address,             \* 32-byte Aptos addresses
  NotCanonical,        \* a signWith that is not 0x and 64 lower-case digits
  ALLOWED_RECIPIENT,
  MAX_TOTAL_OCTAS,
  U64,                 \* the number of values of a u64
  Overflow,            \* what a checked operation yields past the width
  Missing              \* an absent intent or fingerprint

ASSUME PolicyConstants ==
  /\ ALLOWED_RECIPIENT \in Address
  /\ NotCanonical \notin Address
  /\ U64 \in Nat \ {0}
  /\ MAX_TOTAL_OCTAS \in 0..(U64 - 1)
  /\ Overflow \notin Nat

Octas == 0..(U64 - 1)

(* What parsing the signing bytes of an intent yields.                     *)
Transaction ==
  [signingPrefix : BOOLEAN,    \* SHA3-256("APTOS::RawTransaction")
   bcs           : BOOLEAN,    \* one entry-function transaction, no type
                               \* arguments, nothing after it
   sender        : Address,
   transfer      : BOOLEAN,    \* 0x1::aptos_account::transfer
   arguments     : BOOLEAN,    \* exactly an address and a u64
   recipient     : Address,
   amount        : Octas,
   maxGasAmount  : Octas,
   gasUnitPrice  : Octas]

Intent ==
  [signWith     : Address \cup {NotCanonical},
   payloadText  : BOOLEAN,     \* a nonempty string
   hexEncoding  : BOOLEAN,     \* PAYLOAD_ENCODING_HEXADECIMAL
   noHash       : BOOLEAN,     \* HASH_FUNCTION_NOT_APPLICABLE
   hexDigits    : BOOLEAN,     \* an even number of them and nothing else
   transaction  : Transaction]

(* ActivityWebhookPayload without the fields nothing decides on.           *)
Activity ==
  [organization : Organization,
   consensusNeeded  : BOOLEAN,     \* ACTIVITY_STATUS_CONSENSUS_NEEDED
   signRawPayloadV2 : BOOLEAN,     \* ACTIVITY_TYPE_SIGN_RAW_PAYLOAD_V2
   intent           : Intent \cup {Missing}]

Decision == {"approve", "reject", "ignore", "malformed"}

-----------------------------------------------------------------------------
(* u64::checked_mul and u64::checked_add                                   *)

(* Wrong variant: the product wraps around.                                *)
WrappingMul(a, b) == (a * b) % U64

CheckedMul(a, b) == IF a * b < U64 THEN a * b ELSE Overflow
CheckedAdd(a, b) == IF a + b < U64 THEN a + b ELSE Overflow

MaximumGasCost(tx) == CheckedMul(tx.maxGasAmount, tx.gasUnitPrice)
TotalOctas(tx) ==
  IF MaximumGasCost(tx) = Overflow
  THEN Overflow
  ELSE CheckedAdd(tx.amount, MaximumGasCost(tx))

(* parse_and_validate_aptos_transaction                                    *)
ValidTransaction(tx, sender) ==
  /\ tx.signingPrefix
  /\ tx.bcs
  /\ tx.sender = sender
  /\ tx.transfer
  /\ tx.arguments
  /\ TotalOctas(tx) # Overflow

(* evaluate_aptos_transfer_policy                                          *)
WithinTransferPolicy(tx) ==
  /\ tx.recipient = ALLOWED_RECIPIENT
  /\ TotalOctas(tx) <= MAX_TOTAL_OCTAS

(* evaluate_aptos_raw_payload, for a canonical signer                      *)
Acceptable(intent) ==
  /\ intent.payloadText
  /\ intent.hexEncoding
  /\ intent.noHash
  /\ intent.hexDigits
  /\ ValidTransaction(intent.transaction, intent.signWith)
  /\ WithinTransferPolicy(intent.transaction)

(* Wrong variant: an unacceptable request is left without a vote.          *)
EvaluateWithoutRejecting(activity) ==
  IF activity.consensusNeeded /\ activity.signRawPayloadV2 /\ activity.intent # Missing
  THEN IF activity.intent.signWith # NotCanonical /\ Acceptable(activity.intent)
       THEN "approve" ELSE "ignore"
  ELSE "ignore"

(* evaluate_activity                                                       *)
EvaluateActivity(activity) ==
  IF ~activity.consensusNeeded \/ ~activity.signRawPayloadV2 THEN "ignore"
  ELSE IF activity.intent = Missing THEN "malformed"
  ELSE IF activity.intent.signWith = NotCanonical THEN "ignore"
  ELSE IF Acceptable(activity.intent) THEN "approve"
  ELSE "reject"

-----------------------------------------------------------------------------
(* Reference                                                               *)

(* What the README lists as required for an approval, with the cost        *)
(* counted in integers that cannot overflow.                               *)
Cost(tx) == tx.amount + tx.maxGasAmount * tx.gasUnitPrice

MayApprove(activity) ==
  /\ activity.consensusNeeded
  /\ activity.signRawPayloadV2
  /\ activity.intent # Missing
  /\ activity.intent.signWith # NotCanonical
  /\ activity.intent.payloadText
  /\ activity.intent.hexEncoding
  /\ activity.intent.noHash
  /\ activity.intent.hexDigits
  /\ LET tx == activity.intent.transaction
     IN  /\ tx.signingPrefix /\ tx.bcs /\ tx.transfer /\ tx.arguments
         /\ tx.sender = activity.intent.signWith
         /\ tx.recipient = ALLOWED_RECIPIENT
         /\ Cost(tx) <= MAX_TOTAL_OCTAS

(* A request the sidecar is meant to decide on, one way or the other.      *)
Applicable(activity) ==
  /\ activity.consensusNeeded
  /\ activity.signRawPayloadV2
  /\ activity.intent # Missing
  /\ activity.intent.signWith # NotCanonical
=============================================================================
