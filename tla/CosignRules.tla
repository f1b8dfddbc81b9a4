----------------------------- MODULE CosignRules -----------------------------
(***************************************************************************)
(* The decision of tvc-cosign: what the parser makes of an unsigned        *)
(* transaction (tx.rs) and how the ruleset routes it (rules.rs).           *)
(*                                                                         *)
(* Transactions are records of what the parser and the rules can tell      *)
(* apart; selectors and addresses are atoms, and a U256 is compared only,  *)
(* never added to, so its width does not matter.                           *)
(***************************************************************************)
EXTENDS Integers

CONSTANTS
  Address,
  Selector,          \* four-byte function selectors
  TransferSelector,  \* TRANSFER_SELECTOR: transfer(address,uint256)
  Missing            \* None

ASSUME CosignRulesConstants ==
  /\ TransferSelector \in Selector
  /\ Missing \notin Selector \cup Address \cup [recipient : Address, amount : Nat]

Classification == {"PROGRAMMATIC", "ADMIN", "REJECT"}

(* Calldata.  selector is Missing below four bytes; standardLength says    *)
(* that it has exactly the 68 bytes of a transfer, padded that the twelve  *)
(* bytes before the address are zero.                                      *)
Calldata ==
  [selector : Selector \cup {Missing}, standardLength : BOOLEAN, padded : BOOLEAN,
   recipient : Address, amount : Nat]

(* The bytes of unsignedTransaction after decode_hex.                      *)
UnsignedTransaction ==
  [hex : BOOLEAN, kind : {"empty", "unsupported", "eip1559", "eip2930", "legacy"},
   rlp : BOOLEAN, to : Address \cup {Missing}, value : Nat, input : Calldata]

-----------------------------------------------------------------------------
(* tx.rs                                                                   *)

(* Both typed forms and the legacy signing payload are decoded to the same *)
(* three fields; nothing behind them is looked at.                         *)
Parses(raw) ==
  /\ raw.hex
  /\ raw.kind \in {"eip1559", "eip2930", "legacy"}
  /\ raw.rlp

ParsedTx(raw) == [to |-> raw.to, value |-> raw.value, input |-> raw.input]

-----------------------------------------------------------------------------
(* rules.rs                                                                *)

(* decode_transfer_args                                                    *)
TransferArgs(input) ==
  IF input.standardLength /\ input.padded
  THEN [recipient |-> input.recipient, amount |-> input.amount]
  ELSE Missing

(* Wrong variant: the ETH a transfer carries is not looked at.             *)
ClassifyTransferWithEth(tx, rules) ==
  LET args == TransferArgs(tx.input)
      allowed == /\ tx.to \in rules.allowedTokens
                 /\ args # Missing
                 /\ args.recipient \in rules.allowedRecipients
                 /\ args.amount <= rules.maxAmount
  IN  IF allowed THEN "PROGRAMMATIC" ELSE "REJECT"

(* classify_transfer                                                       *)
ClassifyTransfer(tx, rules) ==
  LET args == TransferArgs(tx.input)
      allowed == /\ tx.value = 0
                 /\ tx.to \in rules.allowedTokens
                 /\ args # Missing
                 /\ args.recipient \in rules.allowedRecipients
                 /\ args.amount <= rules.maxAmount
  IN  IF allowed THEN "PROGRAMMATIC" ELSE "REJECT"

(* Wrong variant: contract creation is not set apart.                      *)
ClassifyCreation(signer, tx, rules) ==
  CASE \/ signer \notin rules.allowedSigners
       \/ tx.input.selector = Missing              -> "REJECT"
    [] tx.input.selector = TransferSelector        -> ClassifyTransfer(tx, rules)
    [] tx.input.selector \in rules.adminSelectors  -> "ADMIN"
    [] OTHER                                       -> "REJECT"

(* classify: the first check that applies decides.                         *)
Classify(signer, tx, rules) ==
  IF \/ signer \notin rules.allowedSigners
     \/ tx.to = Missing
     \/ tx.input.selector = Missing THEN "REJECT"
  ELSE IF tx.input.selector = TransferSelector THEN ClassifyTransfer(tx, rules)
  ELSE IF tx.input.selector \in rules.adminSelectors THEN "ADMIN"
  ELSE "REJECT"

(* into_ruleset: a ruleset file with one value that does not parse is no   *)
(* ruleset at all.                                                         *)
IntoRuleset(raw) ==
  IF /\ raw.maxAmount \in Nat
     /\ raw.selectors \subseteq Selector
     /\ raw.signers \cup raw.tokens \cup raw.recipients \subseteq Address
  THEN [allowedSigners    |-> raw.signers,
        allowedTokens     |-> raw.tokens,
        allowedRecipients |-> raw.recipients,
        maxAmount         |-> raw.maxAmount,
        adminSelectors    |-> raw.selectors]
  ELSE Missing

(* Config::load: an override that cannot be loaded leaves the embedded     *)
(* ruleset in force, never none.                                           *)
LoadRules(override, embedded) ==
  IF override = Missing \/ IntoRuleset(override) = Missing
  THEN IntoRuleset(embedded)
  ELSE IntoRuleset(override)

-----------------------------------------------------------------------------
(* The classification as the README and rules.example.toml describe it.    *)

(* The bytes are those of a plain ERC-20 transfer, moving nothing else.    *)
IsTransfer(raw) ==
  /\ Parses(raw)
  /\ raw.value = 0
  /\ raw.input.selector = TransferSelector
  /\ raw.input.standardLength
  /\ raw.input.padded

(* "An ERC-20 transfer whose token, recipient, and amount all pass the     *)
(* ruleset", by a wallet that is on the list.                              *)
WithinRules(signer, raw, rules) ==
  /\ IsTransfer(raw)
  /\ signer \in rules.allowedSigners
  /\ raw.to \in rules.allowedTokens
  /\ raw.input.recipient \in rules.allowedRecipients
  /\ raw.input.amount <= rules.maxAmount

(* "A privileged selector on the admin allowlist", called by such a wallet *)
(* on some contract.                                                       *)
Privileged(signer, raw, rules) ==
  /\ Parses(raw)
  /\ signer \in rules.allowedSigners
  /\ raw.to \in Address
  /\ raw.input.selector \in rules.adminSelectors
=============================================================================
