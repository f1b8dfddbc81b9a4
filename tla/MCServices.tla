------------------------------ MODULE MCServices ------------------------------
(***************************************************************************)
(* Policies around the complete one: at most one field unpinned or one cap *)
(* moved, and the pair that the fixture with another function has wrong.   *)
(***************************************************************************)
EXTENDS Services

Complete == [pins |-> Pinned, gasCap |-> 250000, feeCap |-> 10, otherwise |-> "reject"]

AroundComplete ==
  {Complete}
    \cup {[Complete EXCEPT !.pins = Pinned \ {f}] : f \in Pinned}
    \cup {[Complete EXCEPT !.pins = Pinned \ {"function", "template"}]}
    \cup {[Complete EXCEPT !.gasCap = g] : g \in {199999, 200000, 250001}}
    \cup {[Complete EXCEPT !.feeCap = f] : f \in {4, 5, 11}}

(* What a policy does not permit waits for a human under some of them.     *)
Policies ==
  AroundComplete
    \cup {[Complete EXCEPT !.otherwise = "consensus"],
          [Complete EXCEPT !.pins = Pinned \ {"to"}, !.otherwise = "consensus"],
          [Complete EXCEPT !.gasCap = 250001, !.otherwise = "consensus"]}

Chains == {11155111, 1}
Gases == {200000, 250000, 250001}
Fees == {5, 10, 11}
Values == {0, 1}
=============================================================================
