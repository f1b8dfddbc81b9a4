---------------------------- MODULE CosignRouting ----------------------------
(***************************************************************************)
(* One request to tvc-cosign on its own: the ruleset that Config::load     *)
(* puts in force, for whatever an override file holds, and the key the     *)
(* transaction is routed to.  Module Cosign has the same decision among    *)
(* replicas, deployments and Turnkey.                                      *)
(***************************************************************************)
EXTENDS CosignRules

CONSTANTS
  Embedded,          \* rules.toml, compiled into the binary
  Overrides,         \* what --rules-path may name; Missing: no such file
  Posted             \* [signer, tx] as posted to /cosign

(* "embedded ruleset (rules.toml) is valid": main panics otherwise.        *)
ASSUME CosignRoutingConstants ==
  /\ IntoRuleset(Embedded) # Missing
  /\ \A post \in Posted : post.tx \in UnsignedTransaction

VARIABLES
  inForce,           \* the ruleset of AppState
  asked,             \* the request
  routed             \* the classification, "error" for what is malformed

Deciding == <<inForce, asked, routed>>

RoutingInit ==
  /\ inForce \in {LoadRules(override, Embedded) : override \in Overrides}
  /\ asked \in Posted
  /\ routed = "none"

(* cosign, up to the choice of the key.                                    *)
Route ==
  /\ routed = "none"
  /\ routed' = IF Parses(asked.tx) /\ asked.signer \in Address
               THEN Classify(asked.signer, ParsedTx(asked.tx), inForce)
               ELSE "error"
  /\ UNCHANGED <<inForce, asked>>

RoutingSpec == RoutingInit /\ [][Route]_Deciding

-----------------------------------------------------------------------------
(* The bot key is used for exactly the transfers the ruleset lets through, *)
(* and the admin key for exactly the calls of a listed operation by a      *)
(* listed wallet.  Initcode that starts like such a call is none, and a    *)
(* transfer is none even if the ruleset lists its selector.                *)
RoutedByTheRules ==
  routed # "none" =>
    /\ routed = "PROGRAMMATIC" <=> WithinRules(asked.signer, asked.tx, inForce)
    /\ routed = "ADMIN" <=> /\ Privileged(asked.signer, asked.tx, inForce)
                            /\ asked.tx.input.selector # TransferSelector
=============================================================================
