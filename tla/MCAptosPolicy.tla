---------------------------- MODULE MCAptosPolicy ----------------------------
(***************************************************************************)
(* Evaluates every transaction of a 4-bit u64 against the reference: all   *)
(* amounts, gas limits and gas prices, with at most one thing wrong with   *)
(* the request around them.                                                *)
(***************************************************************************)
EXTENDS PolicyEvaluation

Priced(amount, gas, price) ==
  [signingPrefix |-> TRUE, bcs |-> TRUE, sender |-> "sender", transfer |-> TRUE,
   arguments |-> TRUE, recipient |-> ALLOWED_RECIPIENT, amount |-> amount,
   maxGasAmount |-> gas, gasUnitPrice |-> price]

Request(tx) ==
  [organization |-> "ours", consensusNeeded |-> TRUE, signRawPayloadV2 |-> TRUE,
   intent |-> [signWith |-> "sender", payloadText |-> TRUE, hexEncoding |-> TRUE,
               noHash |-> TRUE, hexDigits |-> TRUE, transaction |-> tx]]

(* The request as it should be, then with one thing wrong.                 *)
Spoiled(request) ==
  <<request,
    [request EXCEPT !.consensusNeeded = FALSE],
    [request EXCEPT !.signRawPayloadV2 = FALSE],
    [request EXCEPT !.intent = Missing],
    [request EXCEPT !.intent.payloadText = FALSE],
    [request EXCEPT !.intent.hexEncoding = FALSE],
    [request EXCEPT !.intent.noHash = FALSE],
    [request EXCEPT !.intent.hexDigits = FALSE],
    [request EXCEPT !.intent.signWith = "other"],
    [request EXCEPT !.intent.signWith = NotCanonical],
    [request EXCEPT !.intent.transaction.signingPrefix = FALSE],
    [request EXCEPT !.intent.transaction.bcs = FALSE],
    [request EXCEPT !.intent.transaction.transfer = FALSE],
    [request EXCEPT !.intent.transaction.arguments = FALSE],
    [request EXCEPT !.intent.transaction.sender = "other"],
    [request EXCEPT !.intent.transaction.recipient = "other"]>>

Requests ==
  {Spoiled(Request(Priced(amount, gas, price)))[n] :
     amount \in Octas, gas \in Octas, price \in Octas, n \in 1..16}
=============================================================================
