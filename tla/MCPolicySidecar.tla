--------------------------- MODULE MCPolicySidecar ---------------------------
(***************************************************************************)
(* Instances of the sidecar: a transfer within the policy, and one above   *)
(* the limit of another organization, whose deliveries Turnkey signs with  *)
(* the same keys.                                                          *)
(***************************************************************************)
EXTENDS PolicySidecar, TLC

Transfer(organization, amount) ==
  [organization |-> organization, consensusNeeded |-> TRUE, signRawPayloadV2 |-> TRUE,
   intent |->
     [signWith |-> "sender", payloadText |-> TRUE, hexEncoding |-> TRUE,
      noHash |-> TRUE, hexDigits |-> TRUE,
      transaction |->
        [signingPrefix |-> TRUE, bcs |-> TRUE, sender |-> "sender", transfer |-> TRUE,
         arguments |-> TRUE, recipient |-> ALLOWED_RECIPIENT, amount |-> amount,
         maxGasAmount |-> 1, gasUnitPrice |-> 1]]]

Contents ==
  [a \in ActivityId |-> IF a = "small" THEN Transfer("ours", 1)
                                       ELSE Transfer("theirs", MAX_TOTAL_OCTAS)]

Interchangeable == Permutations(Handler) \cup Permutations(Key)
=============================================================================
