-------------------------- MODULE SignedEthUsdOracle --------------------------
(***************************************************************************)
(* The on-chain ETH/USD oracle (contracts/src/SignedEthUsdOracle.sol).     *)
(*                                                                         *)
(* A transaction either satisfies every `revert` check of its function and *)
(* performs all of its assignments and its event, or leaves no trace: a    *)
(* reverted call is a stuttering step here.  Addresses, templates and      *)
(* digests are atoms; Keccak256 is an injective constructor (no            *)
(* collisions); ECDSA recovery returns the signer when the signature       *)
(* covers the payload and an address nobody controls when it covers        *)
(* anything else.                                                          *)
(***************************************************************************)
EXTENDS Integers, Sequences

CONSTANTS
  Account,           \* addresses that send transactions
  Airnode,           \* addresses that sign observations
  ZeroAddress,       \* address(0)
  NoDigest,          \* bytes32(0)
  Nobody,            \* what recovery yields for a signature over other data
  Template,          \* endpoint templates
  templateId,        \* the immutable ETH/USD template
  Price,             \* int256 words an observation may carry
  BadLength,         \* an encodedValue that is not 32 bytes long
  MAX_SOURCE_AGE,
  MAX_FUTURE_DRIFT,
  MaxTime,           \* bound: block timestamps stay within 1..MaxTime
  MaxEvents          \* bound: length of the event log

ASSUME OracleConstants ==
  /\ ZeroAddress \notin Account \cup Airnode
  /\ Nobody \notin Airnode
  /\ templateId \in Template
  /\ Price \subseteq Int
  /\ BadLength \notin Int
  /\ MAX_SOURCE_AGE \in Nat
  /\ MAX_FUTURE_DRIFT \in Nat
  /\ MaxTime \in Nat
  /\ MaxEvents \in Nat

VARIABLES
  owner,             \* Ownable2Step
  pendingOwner,
  updater,
  sourceAirnode,
  feed,              \* the six storage slots written by updatePrice
  log,               \* events emitted so far, in order
  blockTime          \* block.timestamp of the latest block

contractVars == <<owner, pendingOwner, updater, sourceAirnode, feed, log>>
vars == <<contractVars, blockTime>>

Keccak256(x) == [digest |-> x]

Payload == [template : Template, timestamp : Nat, value : Price \cup {BadLength}]
Signature == [signer : Airnode, over : Payload]

(* The calls worth enumerating: any payload, with a signature over it or   *)
(* one lifted from the observation that followed it.                       *)
OfferedPayload ==
  [template  : Template,
   timestamp : 0..(MaxTime + MAX_FUTURE_DRIFT + 1),
   value     : Price \cup {BadLength}]
OfferedSignature(payload) ==
  [signer : Airnode, over : {payload, [payload EXCEPT !.timestamp = @ + 1]}]

(* Wrong variant: the signed hash does not cover the offered fields.        *)
RecoverUnbound(payload, signature) == signature.signer

(* ECDSA.recover over payloadHash.toEthSignedMessageHash().                *)
Recover(payload, signature) ==
  IF signature.over = payload THEN signature.signer ELSE Nobody

NoFeed == [latestPriceUsdE18   |-> 0,
           sourceTimestamp     |-> 0,
           recordedAt          |-> 0,
           latestBeaconId      |-> NoDigest,
           latestPayloadHash   |-> NoDigest,
           latestSignatureHash |-> NoDigest]

(* The constructor: no zero address, a non-empty template.                 *)
Init ==
  /\ owner \in Account
  /\ updater \in Account
  /\ sourceAirnode \in Airnode
  /\ pendingOwner = ZeroAddress
  /\ feed = NoFeed
  /\ log = <<>>
  /\ blockTime = 1

-----------------------------------------------------------------------------
(* updatePrice                                                             *)

(* Wrong variant: observations stamped in the future are let through.       *)
TimestampValidNoDrift(timestamp, t) ==
  timestamp >= IF t > MAX_SOURCE_AGE THEN t - MAX_SOURCE_AGE ELSE 0

(* _validateTimestamp at block time t.                                     *)
TimestampValid(timestamp, t) ==
  /\ timestamp <= t + MAX_FUTURE_DRIFT
  /\ timestamp >= IF t > MAX_SOURCE_AGE THEN t - MAX_SOURCE_AGE ELSE 0

(* _validateSignature against the airnode trusted now.                     *)
SignatureValid(payload, signature) == Recover(payload, signature) = sourceAirnode

(* Wrong variant: the recorded observation may be published again.          *)
NewerOrSame(timestamp) == timestamp >= feed.sourceTimestamp

(* The observation must be newer than the recorded one.                    *)
Newer(timestamp) == timestamp > feed.sourceTimestamp

(* Every revert check of updatePrice, for a call in a block stamped t.     *)
UpdateAccepted(sender, payload, signature, t) ==
  /\ sender = updater
  /\ payload.template = templateId
  /\ payload.value # BadLength
  /\ Newer(payload.timestamp)
  /\ TimestampValid(payload.timestamp, t)
  /\ SignatureValid(payload, signature)
  /\ payload.value > 0

(* The slots updatePrice assigns.                                          *)
RecordedFeed(payload, signature, t) ==
  [latestPriceUsdE18   |-> payload.value,
   sourceTimestamp     |-> payload.timestamp,
   recordedAt          |-> t,
   latestBeaconId      |-> Keccak256(<<sourceAirnode, payload.template>>),
   latestPayloadHash   |-> Keccak256(payload),
   latestSignatureHash |-> Keccak256(signature)]

PriceUpdated(payload, signature, t) ==
  [event         |-> "PriceUpdated",
   sourceAirnode |-> sourceAirnode,
   slots         |-> RecordedFeed(payload, signature, t)]

(* A successful updatePrice in a block stamped t.                          *)
UpdatePrice(sender, payload, signature, t) ==
  /\ UpdateAccepted(sender, payload, signature, t)
  /\ feed' = RecordedFeed(payload, signature, t)
  /\ log' = Append(log, PriceUpdated(payload, signature, t))
  /\ blockTime' = t
  /\ UNCHANGED <<owner, pendingOwner, updater, sourceAirnode>>

-----------------------------------------------------------------------------
(* Administration                                                          *)

(* Wrong variants of setUpdater: no zero-address check, no onlyOwner, the   *)
(* arguments of the event swapped.                                          *)
SetUpdaterUnchecked(sender, newUpdater) ==
  /\ sender = owner
  /\ updater' = newUpdater
  /\ log' = Append(log, [event |-> "UpdaterChanged",
                         from  |-> updater, to |-> newUpdater])
  /\ UNCHANGED <<owner, pendingOwner, sourceAirnode, feed, blockTime>>

SetUpdaterByAnyone(sender, newUpdater) ==
  /\ newUpdater # ZeroAddress
  /\ updater' = newUpdater
  /\ log' = Append(log, [event |-> "UpdaterChanged",
                         from  |-> updater, to |-> newUpdater])
  /\ UNCHANGED <<owner, pendingOwner, sourceAirnode, feed, blockTime>>

SetUpdaterSwapped(sender, newUpdater) ==
  /\ sender = owner
  /\ newUpdater # ZeroAddress
  /\ updater' = newUpdater
  /\ log' = Append(log, [event |-> "UpdaterChanged",
                         from  |-> newUpdater, to |-> updater])
  /\ UNCHANGED <<owner, pendingOwner, sourceAirnode, feed, blockTime>>

SetUpdater(sender, newUpdater) ==
  /\ sender = owner
  /\ newUpdater # ZeroAddress
  /\ updater' = newUpdater
  /\ log' = Append(log, [event |-> "UpdaterChanged",
                         from  |-> updater, to |-> newUpdater])
  /\ UNCHANGED <<owner, pendingOwner, sourceAirnode, feed, blockTime>>

SetSourceAirnode(sender, newSourceAirnode) ==
  /\ sender = owner
  /\ newSourceAirnode # ZeroAddress
  /\ sourceAirnode' = newSourceAirnode
  /\ log' = Append(log, [event |-> "SourceAirnodeChanged",
                         from  |-> sourceAirnode, to |-> newSourceAirnode])
  /\ UNCHANGED <<owner, pendingOwner, updater, feed, blockTime>>

(* Inherited from OpenZeppelin Ownable2Step (outside src/).                *)
TransferOwnership(sender, newOwner) ==
  /\ sender = owner
  /\ pendingOwner' = newOwner
  /\ UNCHANGED <<owner, updater, sourceAirnode, feed, log, blockTime>>

AcceptOwnership(sender) ==
  /\ sender = pendingOwner
  /\ owner' = sender
  /\ pendingOwner' = ZeroAddress
  /\ UNCHANGED <<updater, sourceAirnode, feed, log, blockTime>>

RenounceOwnership(sender) ==
  /\ sender = owner
  /\ owner' = ZeroAddress
  /\ pendingOwner' = ZeroAddress
  /\ UNCHANGED <<updater, sourceAirnode, feed, log, blockTime>>

-----------------------------------------------------------------------------
(* Anybody may call anything, with any arguments, in any block.            *)

Call(sender) ==
  \/ /\ Len(log) < MaxEvents
     /\ \E payload \in OfferedPayload, t \in blockTime..MaxTime :
          \E signature \in OfferedSignature(payload) :
            UpdatePrice(sender, payload, signature, t)
  \/ /\ Len(log) < MaxEvents
     /\ \/ \E a \in Account \cup {ZeroAddress} : SetUpdater(sender, a)
        \/ \E a \in Airnode \cup {ZeroAddress} : SetSourceAirnode(sender, a)
  \/ \E a \in Account \cup {ZeroAddress} : TransferOwnership(sender, a)
  \/ AcceptOwnership(sender)
  \/ RenounceOwnership(sender)

Next == \E sender \in Account : Call(sender)

Spec == Init /\ [][Next]_vars

-----------------------------------------------------------------------------
(* Properties                                                              *)

Slots ==
  [latestPriceUsdE18 : Nat, sourceTimestamp : Nat, recordedAt : Nat,
   latestBeaconId : [digest : Airnode \X Template] \cup {NoDigest},
   latestPayloadHash : [digest : Payload] \cup {NoDigest},
   latestSignatureHash : [digest : Signature] \cup {NoDigest}]

Event ==
  [event : {"PriceUpdated"}, sourceAirnode : Airnode, slots : Slots]
    \cup [event : {"UpdaterChanged"}, from : Account, to : Account]
    \cup [event : {"SourceAirnodeChanged"}, from : Airnode, to : Airnode]

(* The settings are always addresses the contract can trust: never         *)
(* address(0), whatever the administrator passes.                          *)
TypeOK ==
  /\ owner \in Account \cup {ZeroAddress}
  /\ pendingOwner \in Account \cup {ZeroAddress}
  /\ updater \in Account
  /\ sourceAirnode \in Airnode
  /\ feed \in Slots
  /\ log \in Seq(Event)
  /\ blockTime \in Nat

PriceEvents == {i \in DOMAIN log : log[i].event = "PriceUpdated"}
AirnodeChanges == {i \in DOMAIN log : log[i].event = "SourceAirnodeChanged"}
UpdaterChanges == {i \in DOMAIN log : log[i].event = "UpdaterChanged"}

(* i is the last of a set of log positions.                                *)
IsLast(i, S) == i \in S /\ \A j \in S : j <= i

(* The airnode the administrator trusted when event i was emitted: the one *)
(* the next rotation replaced, or today's if there has been none since.    *)
TrustedAt(i, airnode) ==
  \/ \E k \in AirnodeChanges :
       /\ i < k
       /\ \A j \in AirnodeChanges : i < j => k <= j
       /\ airnode = log[k].from
  \/ /\ \A j \in AirnodeChanges : j < i
     /\ airnode = sourceAirnode

(* Every price ever published was signed, as a whole, by the airnode the   *)
(* administrator trusted at that moment: rotations of sourceAirnode can    *)
(* neither launder an old signature nor leave the beacon id behind.        *)
EventsAuthentic ==
  \A i \in PriceEvents :
    LET slots     == log[i].slots
        payload   == slots.latestPayloadHash.digest
        signature == slots.latestSignatureHash.digest
        signer    == signature.signer
    IN  /\ signature.over = payload
        /\ TrustedAt(i, signer)
        /\ log[i].sourceAirnode = signer
        /\ slots.latestBeaconId = Keccak256(<<signer, templateId>>)
        /\ slots.latestPriceUsdE18 = payload.value
        /\ slots.sourceTimestamp = payload.timestamp
        /\ payload.template = templateId

(* Observations enter the log in strictly increasing source time, so no    *)
(* signed observation is ever published twice, whoever replays it and      *)
(* whichever airnodes have been rotated in and out since.                  *)
NeverReplayed ==
  \A i, j \in PriceEvents :
    i < j => log[i].slots.sourceTimestamp < log[j].slots.sourceTimestamp

(* Two changes of one setting with none in between: the second starts      *)
(* where the first has ended.                                              *)
Chained(S) ==
  \A i, j \in S : i < j /\ (\A k \in S : k <= i \/ j <= k) => log[j].from = log[i].to

(* An indexer that only follows the events holds the contract's state: the *)
(* last event of each kind agrees with the storage it announced, and the   *)
(* changes of a setting link up without a gap.                             *)
StorageMatchesLog ==
  /\ \A i \in DOMAIN log : IsLast(i, PriceEvents) => feed = log[i].slots
  /\ \A i \in DOMAIN log : IsLast(i, UpdaterChanges) => updater = log[i].to
  /\ \A i \in DOMAIN log : IsLast(i, AirnodeChanges) => sourceAirnode = log[i].to
  /\ Chained(UpdaterChanges)
  /\ Chained(AirnodeChanges)
  /\ PriceEvents = {} => feed = NoFeed

(* Once ownership is renounced nobody can become owner again or change a   *)
(* trust setting: no nomination made earlier survives the renunciation.    *)
RenouncedIsFinal ==
  [][owner = ZeroAddress =>
       UNCHANGED <<owner, pendingOwner, updater, sourceAirnode>>]_vars

(* The contract implements the abstract feed.                              *)
Feed == INSTANCE PriceFeed WITH
  current <- [price           |-> feed.latestPriceUsdE18,
              sourceTimestamp |-> feed.sourceTimestamp,
              recordedAt      |-> feed.recordedAt]
PublishedFeed == Feed!Spec
=============================================================================
