----------------------------- MODULE SigningGate -----------------------------
(***************************************************************************)
(* What tvc-cosign promises to the owners of the wallets, whatever the     *)
(* customer submits and however replicas and deployments come and go: a    *)
(* body is signed without anybody being asked only if a ruleset approved   *)
(* by then lets it through unattended, else only once every approver has   *)
(* consented to it, who are asked only about what such a ruleset reserves  *)
(* for them.  A signature is never taken back.  Cosign is shown to         *)
(* implement this.                                                         *)
(***************************************************************************)

CONSTANTS
  Ruleset,
  Human,             \* the approvers
  Unattended,        \* Unattended[rules]: bodies that rules let through
  Attended           \* Attended[rules]: bodies that rules leave to the approvers

VARIABLES
  approved,          \* rulesets that have been approved
  consents,          \* <<human, body>>: who has consented to what
  signed             \* bodies that are signed

gateVars == <<approved, consents, signed>>

Init ==
  /\ approved \in {{rules} : rules \in Ruleset}
  /\ consents = {}
  /\ signed = {}

Approve(rules) ==
  /\ approved' = approved \cup {rules}
  /\ UNCHANGED <<consents, signed>>

SignUnattended ==
  /\ \E rules \in approved : \E body \in Unattended[rules] : signed' = signed \cup {body}
  /\ UNCHANGED <<approved, consents>>

Consent(human) ==
  /\ \E rules \in approved : \E body \in Attended[rules] :
       /\ consents' = consents \cup {<<human, body>>}
       /\ signed' = IF Human \X {body} \subseteq consents' THEN signed \cup {body}
                                                          ELSE signed
  /\ UNCHANGED approved

Next ==
  \/ \E rules \in Ruleset : Approve(rules)
  \/ SignUnattended
  \/ \E human \in Human : Consent(human)

Spec == Init /\ [][Next]_gateVars
=============================================================================
