------------------------------ MODULE MCCosign ------------------------------
(***************************************************************************)
(* Two deployments that disagree: the second one takes transfers off the   *)
(* programmatic path and makes the selector of another call a privileged   *)
(* one, and the other way round.                                           *)
(***************************************************************************)
EXTENDS Cosign, TLC

Rules(recipients, selectors) ==
  [allowedSigners |-> {"treasury"}, allowedTokens |-> {"token"},
   allowedRecipients |-> recipients, maxAmount |-> 1, adminSelectors |-> selectors]

BothRulesets == {Rules({"settlement"}, {}), Rules({}, {"configure"})}

Transaction(selector, amount) ==
  [hex |-> TRUE, kind |-> "eip1559", rlp |-> TRUE, to |-> "token", value |-> 0,
   input |-> [selector |-> selector, standardLength |-> TRUE, padded |-> TRUE,
              recipient |-> "settlement", amount |-> amount]]

Requests ==
  {[signer |-> "treasury", tx |-> Transaction("transfer", 1)],
   [signer |-> "treasury", tx |-> Transaction("transfer", 2)],
   [signer |-> "treasury", tx |-> Transaction("configure", 1)]}

(* Transfers above every limit, stamped by anybody with the known keys.    *)
Forgeries == {request \in Requests : request.tx.input.amount = 2}

Interchangeable == Permutations(Replica) \cup Permutations(Ephemeral) \cup Permutations(Human)
=============================================================================
