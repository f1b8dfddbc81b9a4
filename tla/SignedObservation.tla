--------------------------- MODULE SignedObservation ---------------------------
(***************************************************************************)
(* What CoinGecko's signed API may answer the enclave, and what the        *)
(* enclave lets through (crates/tvc-oracle-demo/src/handlers/oracle.rs).   *)
(*                                                                         *)
(* The API is outside src/: it may serve any observation, of any age,      *)
(* airnode, template and value, under a signature made over something      *)
(* else.  Hex, the digest and the fixed-point notation are abstracted to   *)
(* what decoding yields.                                                   *)
(***************************************************************************)
EXTENDS SignedEthUsdOracle

CONSTANTS
  SOURCE_AIRNODE,    \* compiled into the enclave
  U128               \* 2^128

ASSUME ObservationConstants ==
  /\ SOURCE_AIRNODE \in Airnode
  /\ U128 \in Nat \ {0}

(* SignedApiObservation: the entry filed under the beacon id of            *)
(* SOURCE_AIRNODE and the ETH/USD template, with timestamps up to t.       *)
OfferedPayloads(t) ==
  [template : Template, timestamp : 0..t, value : Price \cup {BadLength}]
SignedApiObservations(t) ==
  UNION {[airnode : Airnode, payload : {payload}, signature : OfferedSignature(payload)] :
           payload \in OfferedPayloads(t)}

(* Wrong variant: the upper half of the word is not looked at.             *)
DecodesToPositive(value) == value # BadLength /\ value > 0

(* decode_fixed::<32> and decode_positive_int256_as_u128                   *)
DecodesToPositiveU128(value) == value # BadLength /\ value > 0 /\ value < U128

(* The address recovered from the signature over exactly these fields.     *)
SignedBySource(observation) ==
  Recover(observation.payload, observation.signature) = SOURCE_AIRNODE

VerifyObservation(observation) ==
  /\ observation.airnode = SOURCE_AIRNODE
  /\ observation.payload.template = templateId
  /\ SignedBySource(observation)
  /\ DecodesToPositiveU128(observation.payload.value)
=============================================================================
