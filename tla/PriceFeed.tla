------------------------------ MODULE PriceFeed ------------------------------
(***************************************************************************)
(* What the oracle promises to a reader of the chain, whoever submits      *)
(* updates and however they are delayed, duplicated or reordered on their  *)
(* way: the published observation is replaced as a whole, only by a        *)
(* positive price that carries a strictly newer source timestamp, and only *)
(* while that timestamp is acceptable at the moment of recording.          *)
(* SignedEthUsdOracle and OracleUpdater are shown to implement this.       *)
(***************************************************************************)
EXTENDS Integers

CONSTANTS
  MAX_SOURCE_AGE,    \* how old an observation may be when it is recorded
  MAX_FUTURE_DRIFT   \* how far ahead of the block it may be stamped

VARIABLE current     \* the observation a reader sees

NothingPublished == [price |-> 0, sourceTimestamp |-> 0, recordedAt |-> 0]

Init == current = NothingPublished

(* A new observation replaces the current one.                             *)
Publish ==
  /\ current'.price > 0
  /\ current'.sourceTimestamp > current.sourceTimestamp
  /\ current'.recordedAt >= current.recordedAt
  /\ current'.sourceTimestamp >= current'.recordedAt - MAX_SOURCE_AGE
  /\ current'.sourceTimestamp <= current'.recordedAt + MAX_FUTURE_DRIFT

Next == Publish

Spec == Init /\ [][Next]_current
=============================================================================
