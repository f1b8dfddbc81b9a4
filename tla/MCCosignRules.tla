---------------------------- MODULE MCCosignRules ----------------------------
(***************************************************************************)
(* Routes transactions around the boundaries of a few rulesets: every      *)
(* combination of form, contract, value, selector, arguments and wallet.   *)
(***************************************************************************)
EXTENDS CosignRouting

Transactions ==
  {[hex |-> TRUE, kind |-> kind, rlp |-> rlp, to |-> to, value |-> value,
    input |-> [selector |-> selector, standardLength |-> length, padded |-> padded,
               recipient |-> recipient, amount |-> amount]] :
     kind \in {"empty", "unsupported", "eip1559", "eip2930", "legacy"},
     rlp \in BOOLEAN, to \in Address \cup {Missing}, value \in {0, 1},
     selector \in Selector \cup {Missing}, length \in BOOLEAN, padded \in BOOLEAN,
     recipient \in Address, amount \in {1, 2, 3}}

Requests == [signer : {"treasury", "token"}, tx : Transactions]

Example == [signers |-> {"treasury"}, tokens |-> {"token"}, recipients |-> {"settlement"},
            maxAmount |-> 2, selectors |-> {"configure"}]

(* No override; one with transfers among the privileged operations; one    *)
(* that lists nothing; one whose cap and one whose wallet does not parse.  *)
Files == {Missing,
          [Example EXCEPT !.selectors = {TransferSelector}],
          [Example EXCEPT !.signers = {}, !.selectors = {}],
          [Example EXCEPT !.maxAmount = Missing, !.signers = Address],
          [Example EXCEPT !.signers = Address \cup {"nobody"}]}
=============================================================================
