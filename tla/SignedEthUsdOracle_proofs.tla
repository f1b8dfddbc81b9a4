---------------------- MODULE SignedEthUsdOracle_proofs ----------------------
(***************************************************************************)
(* Theorems about the contract, for every set of accounts, airnodes and    *)
(* templates, every price word and every time window.                      *)
(***************************************************************************)
EXTENDS SignedEthUsdOracle, SequenceTheorems, TLAPS

(* The payloads and signatures a caller may offer are well-formed values.  *)
LEMMA OfferedTypes ==
  ASSUME NEW payload \in OfferedPayload, NEW signature \in OfferedSignature(payload)
  PROVE  /\ payload \in Payload
         /\ signature \in Signature
BY OracleConstants DEF OfferedPayload, OfferedSignature, Payload, Signature

(* What an accepted update writes has the type of the storage slots.       *)
LEMMA RecordedFeedType ==
  ASSUME TypeOK, NEW payload \in Payload, NEW signature \in Signature,
         NEW t \in Nat, NEW sender, UpdateAccepted(sender, payload, signature, t)
  PROVE  /\ RecordedFeed(payload, signature, t) \in Slots
         /\ PriceUpdated(payload, signature, t) \in Event
<1>1. payload.value \in Nat /\ payload.timestamp \in Nat
  <2>1. payload.value \in Price \cup {BadLength} /\ payload.timestamp \in Nat
    BY DEF Payload
  <2>2. payload.value # BadLength /\ payload.value > 0
    BY DEF UpdateAccepted
  <2>3. payload.value \in Int
    BY <2>1, <2>2, OracleConstants
  <2> QED  BY <2>1, <2>2, <2>3
<1>2. <<sourceAirnode, payload.template>> \in Airnode \X Template
  BY DEF TypeOK, Payload
<1>3. RecordedFeed(payload, signature, t) \in Slots
  BY <1>1, <1>2 DEF RecordedFeed, Slots, Keccak256
<1>4. PriceUpdated(payload, signature, t) \in Event
  BY <1>3 DEF PriceUpdated, Event, TypeOK
<1> QED  BY <1>3, <1>4

(* An accepted update, whatever block and whoever's transaction it comes   *)
(* from, keeps the types.                                                  *)
LEMMA UpdatePriceType ==
  ASSUME TypeOK, NEW payload \in Payload, NEW signature \in Signature,
         NEW t \in Nat, NEW sender, UpdatePrice(sender, payload, signature, t)
  PROVE  TypeOK'
<1>1. /\ RecordedFeed(payload, signature, t) \in Slots
      /\ PriceUpdated(payload, signature, t) \in Event
  BY RecordedFeedType DEF UpdatePrice
<1>2. log' \in Seq(Event)
  BY <1>1, AppendProperties DEF UpdatePrice, TypeOK
<1> QED  BY <1>1, <1>2 DEF UpdatePrice, TypeOK

(* So do the two setters, for any argument of the right kind.              *)
LEMMA SetUpdaterType ==
  ASSUME TypeOK, NEW sender, NEW a \in Account \cup {ZeroAddress}, SetUpdater(sender, a)
  PROVE  TypeOK'
<1>1. a \in Account /\ updater \in Account
  BY DEF SetUpdater, TypeOK
<1>2. [event |-> "UpdaterChanged", from |-> updater, to |-> a] \in Event
  BY <1>1 DEF Event
<1>3. log' \in Seq(Event)
  BY <1>2, AppendProperties DEF SetUpdater, TypeOK
<1> QED  BY <1>1, <1>3 DEF SetUpdater, TypeOK

LEMMA SetSourceAirnodeType ==
  ASSUME TypeOK, NEW sender, NEW a \in Airnode \cup {ZeroAddress},
         SetSourceAirnode(sender, a)
  PROVE  TypeOK'
<1>1. a \in Airnode /\ sourceAirnode \in Airnode
  BY DEF SetSourceAirnode, TypeOK
<1>2. [event |-> "SourceAirnodeChanged", from |-> sourceAirnode, to |-> a] \in Event
  BY <1>1 DEF Event
<1>3. log' \in Seq(Event)
  BY <1>2, AppendProperties DEF SetSourceAirnode, TypeOK
<1> QED  BY <1>1, <1>3 DEF SetSourceAirnode, TypeOK

(* The settings and slots keep their types: no call, with any argument,    *)
(* makes address(0) the updater or the trusted airnode.                    *)
THEOREM TypeCorrect == Spec => []TypeOK
<1>1. Init => TypeOK
  BY OracleConstants, EmptySeq DEF Init, TypeOK, NoFeed, Slots
<1>2. TypeOK /\ [Next]_vars => TypeOK'
  <2> SUFFICES ASSUME TypeOK, [Next]_vars PROVE TypeOK'
    OBVIOUS
  <2>1. ASSUME NEW sender \in Account, NEW payload \in OfferedPayload,
               NEW t \in blockTime..MaxTime,
               NEW signature \in OfferedSignature(payload),
               UpdatePrice(sender, payload, signature, t)
        PROVE  TypeOK'
    <3>1. t \in Nat
      BY OracleConstants DEF TypeOK
    <3> QED  BY <2>1, <3>1, OfferedTypes, UpdatePriceType
  <2>2. ASSUME NEW sender \in Account, NEW a \in Account \cup {ZeroAddress},
               SetUpdater(sender, a)
        PROVE  TypeOK'
    BY <2>2, SetUpdaterType
  <2>3. ASSUME NEW sender \in Account, NEW a \in Airnode \cup {ZeroAddress},
               SetSourceAirnode(sender, a)
        PROVE  TypeOK'
    BY <2>3, SetSourceAirnodeType
  <2>4. ASSUME NEW sender \in Account, NEW a \in Account \cup {ZeroAddress},
               TransferOwnership(sender, a)
        PROVE  TypeOK'
    BY <2>4 DEF TransferOwnership, TypeOK
  <2>5. ASSUME NEW sender \in Account, AcceptOwnership(sender)
        PROVE  TypeOK'
    BY <2>5 DEF AcceptOwnership, TypeOK
  <2>6. ASSUME NEW sender \in Account, RenounceOwnership(sender)
        PROVE  TypeOK'
    BY <2>6 DEF RenounceOwnership, TypeOK
  <2>7. CASE UNCHANGED vars
    BY <2>7 DEF vars, contractVars, TypeOK
  <2> QED  BY <2>1, <2>2, <2>3, <2>4, <2>5, <2>6, <2>7 DEF Next, Call
<1> QED  BY <1>1, <1>2, PTL DEF Spec

-----------------------------------------------------------------------------
(* The event log                                                           *)

(* Emitting an event keeps the earlier ones where they are.                *)
LEMMA EmitEvent ==
  ASSUME log \in Seq(Event), NEW e \in Event, log' = Append(log, e)
  PROVE  /\ Len(log) \in Nat
         /\ DOMAIN log = 1..Len(log)
         /\ DOMAIN log' = 1..(Len(log) + 1)
         /\ \A i \in DOMAIN log : log'[i] = log[i]
         /\ log'[Len(log) + 1] = e
BY AppendProperties, LenProperties

(* Which event an operation emits, of which kind, and that nothing else of *)
(* the kind appears.                                                       *)
LEMMA EmitKinds ==
  ASSUME log \in Seq(Event), NEW e \in Event, log' = Append(log, e)
  PROVE  /\ PriceEvents' = IF e.event = "PriceUpdated"
                           THEN PriceEvents \cup {Len(log) + 1} ELSE PriceEvents
         /\ AirnodeChanges' = IF e.event = "SourceAirnodeChanged"
                              THEN AirnodeChanges \cup {Len(log) + 1}
                              ELSE AirnodeChanges
         /\ UpdaterChanges' = IF e.event = "UpdaterChanged"
                              THEN UpdaterChanges \cup {Len(log) + 1}
                              ELSE UpdaterChanges
<1>1. /\ Len(log) \in Nat
      /\ DOMAIN log = 1..Len(log)
      /\ DOMAIN log' = 1..(Len(log) + 1)
      /\ \A i \in DOMAIN log : log'[i] = log[i]
      /\ log'[Len(log) + 1] = e
  BY EmitEvent
<1>2. DOMAIN log' = DOMAIN log \cup {Len(log) + 1}
  BY <1>1
<1>3. PriceEvents' = {i \in DOMAIN log' : log'[i].event = "PriceUpdated"}
  BY DEF PriceEvents
<1>4. AirnodeChanges' = {i \in DOMAIN log' : log'[i].event = "SourceAirnodeChanged"}
  BY DEF AirnodeChanges
<1>5. UpdaterChanges' = {i \in DOMAIN log' : log'[i].event = "UpdaterChanged"}
  BY DEF UpdaterChanges
<1>6. PriceEvents' = IF e.event = "PriceUpdated"
                     THEN PriceEvents \cup {Len(log) + 1} ELSE PriceEvents
  BY <1>1, <1>2, <1>3 DEF PriceEvents
<1>7. AirnodeChanges' = IF e.event = "SourceAirnodeChanged"
                        THEN AirnodeChanges \cup {Len(log) + 1} ELSE AirnodeChanges
  BY <1>1, <1>2, <1>4 DEF AirnodeChanges
<1>8. UpdaterChanges' = IF e.event = "UpdaterChanged"
                        THEN UpdaterChanges \cup {Len(log) + 1} ELSE UpdaterChanges
  BY <1>1, <1>2, <1>5 DEF UpdaterChanges
<1> QED  BY <1>6, <1>7, <1>8

-----------------------------------------------------------------------------
(* Steps, seen from the data                                               *)

(* What a step can do to the log, the feed and the trust settings; a       *)
(* transaction that reverts may still move block time.                     *)
DataStep ==
  \/ \E sender \in Account, payload \in Payload, signature \in Signature, t \in Nat :
       t >= blockTime /\ UpdatePrice(sender, payload, signature, t)
  \/ \E sender \in Account, a \in Account : SetUpdater(sender, a)
  \/ \E sender \in Account, a \in Airnode : SetSourceAirnode(sender, a)
  \/ /\ UNCHANGED <<updater, sourceAirnode, feed, log>>
     /\ blockTime' \in Nat
     /\ blockTime' >= blockTime

LEMMA NextIsDataStep ==
  ASSUME TypeOK, [Next]_vars
  PROVE  DataStep
<1>1. ASSUME NEW sender \in Account, NEW payload \in OfferedPayload,
             NEW t \in blockTime..MaxTime, NEW signature \in OfferedSignature(payload),
             UpdatePrice(sender, payload, signature, t)
      PROVE  DataStep
  <2>1. t \in Nat /\ t >= blockTime
    BY OracleConstants DEF TypeOK
  <2> QED  BY <1>1, <2>1, OfferedTypes DEF DataStep
<1>2. ASSUME NEW sender \in Account, NEW a \in Account \cup {ZeroAddress},
             SetUpdater(sender, a)
      PROVE  DataStep
  <2>1. a \in Account
    BY <1>2 DEF SetUpdater
  <2> QED  BY <1>2, <2>1 DEF DataStep
<1>3. ASSUME NEW sender \in Account, NEW a \in Airnode \cup {ZeroAddress},
             SetSourceAirnode(sender, a)
      PROVE  DataStep
  <2>1. a \in Airnode
    BY <1>3 DEF SetSourceAirnode
  <2> QED  BY <1>3, <2>1 DEF DataStep
<1>4. ASSUME UNCHANGED <<updater, sourceAirnode, feed, log, blockTime>>
      PROVE  DataStep
  BY <1>4 DEF DataStep, TypeOK
<1> QED  BY <1>1, <1>2, <1>3, <1>4
         DEF Next, Call, TransferOwnership, AcceptOwnership, RenounceOwnership,
             vars, contractVars

-----------------------------------------------------------------------------
(* Order                                                                   *)

(* The strengthening of NeverReplayed: storage is never behind the log.    *)
LogBehindFeed ==
  \A i \in PriceEvents : log[i].slots.sourceTimestamp <= feed.sourceTimestamp

LEMMA PriceEventTypes ==
  ASSUME TypeOK, NEW i \in PriceEvents
  PROVE  /\ i \in DOMAIN log
         /\ log[i].slots \in Slots
         /\ log[i].slots.sourceTimestamp \in Nat
<1>1. i \in DOMAIN log /\ log[i].event = "PriceUpdated"
  BY DEF PriceEvents
<1>2. log[i] \in Event
  BY <1>1, ElementOfSeq, LenProperties DEF TypeOK
<1>3. log[i].slots \in Slots
  BY <1>1, <1>2 DEF Event
<1> QED  BY <1>1, <1>3 DEF Slots

LEMMA OrderPreserved ==
  ASSUME TypeOK, TypeOK', DataStep, LogBehindFeed, NeverReplayed
  PROVE  LogBehindFeed' /\ NeverReplayed'
<1>1. ASSUME NEW sender \in Account, NEW payload \in Payload,
             NEW signature \in Signature, NEW t \in Nat,
             UpdatePrice(sender, payload, signature, t)
      PROVE  LogBehindFeed' /\ NeverReplayed'
  <2> DEFINE e == PriceUpdated(payload, signature, t)
  <2>1. e \in Event /\ e.event = "PriceUpdated" /\ log' = Append(log, e)
    BY <1>1, RecordedFeedType DEF UpdatePrice, PriceUpdated
  <2>2. e.slots = feed' /\ feed'.sourceTimestamp = payload.timestamp
    BY <1>1 DEF UpdatePrice, PriceUpdated, RecordedFeed
  <2>3. payload.timestamp > feed.sourceTimestamp
    BY <1>1 DEF UpdatePrice, UpdateAccepted, Newer
  <2>4. payload.timestamp \in Nat /\ feed.sourceTimestamp \in Nat
    BY DEF Payload, TypeOK, Slots
  <2> HIDE DEF e
  <2>5. /\ PriceEvents' = PriceEvents \cup {Len(log) + 1}
        /\ Len(log) \in Nat /\ DOMAIN log = 1..Len(log)
        /\ \A i \in DOMAIN log : log'[i] = log[i]
        /\ log'[Len(log) + 1] = e
    BY <2>1, EmitEvent, EmitKinds DEF TypeOK
  <2>6. \A i \in PriceEvents : /\ i \in 1..Len(log) /\ log'[i] = log[i]
                               /\ log[i].slots.sourceTimestamp \in Nat
                               /\ log[i].slots.sourceTimestamp <= feed.sourceTimestamp
    BY <2>5, PriceEventTypes DEF LogBehindFeed
  <2>7. LogBehindFeed'
    BY <2>2, <2>3, <2>4, <2>5, <2>6 DEF LogBehindFeed
  <2>8. ASSUME NEW i \in PriceEvents', NEW j \in PriceEvents', i < j
        PROVE  log'[i].slots.sourceTimestamp < log'[j].slots.sourceTimestamp
    <3>1. CASE j = Len(log) + 1
      <4>1. i \in PriceEvents
        BY <2>5, <2>8, <3>1
      <4> QED  BY <4>1, <3>1, <2>2, <2>3, <2>4, <2>5, <2>6
    <3>2. CASE j \in PriceEvents
      <4>1. i \in PriceEvents
        BY <2>5, <2>6, <2>8, <3>2
      <4> QED  BY <4>1, <3>2, <2>6, <2>8 DEF NeverReplayed
    <3> QED  BY <2>5, <3>1, <3>2
  <2> QED  BY <2>7, <2>8 DEF NeverReplayed
<1>2. ASSUME NEW e \in Event, log' = Append(log, e), e.event # "PriceUpdated", feed' = feed
      PROVE  LogBehindFeed' /\ NeverReplayed'
  <2>1. PriceEvents' = PriceEvents /\ \A i \in DOMAIN log : log'[i] = log[i]
    BY <1>2, EmitEvent, EmitKinds DEF TypeOK
  <2>2. \A i \in PriceEvents : log'[i] = log[i]
    BY <2>1, PriceEventTypes
  <2> QED  BY <1>2, <2>1, <2>2 DEF LogBehindFeed, NeverReplayed
<1>3. ASSUME NEW sender \in Account, NEW a \in Account, SetUpdater(sender, a)
      PROVE  LogBehindFeed' /\ NeverReplayed'
  <2>1. [event |-> "UpdaterChanged", from |-> updater, to |-> a] \in Event
    BY DEF Event, TypeOK
  <2> QED  BY <1>2, <1>3, <2>1 DEF SetUpdater
<1>4. ASSUME NEW sender \in Account, NEW a \in Airnode, SetSourceAirnode(sender, a)
      PROVE  LogBehindFeed' /\ NeverReplayed'
  <2>1. [event |-> "SourceAirnodeChanged", from |-> sourceAirnode, to |-> a] \in Event
    BY DEF Event, TypeOK
  <2> QED  BY <1>2, <1>4, <2>1 DEF SetSourceAirnode
<1>5. CASE UNCHANGED <<updater, sourceAirnode, feed, log>>
  BY <1>5 DEF LogBehindFeed, NeverReplayed, PriceEvents
<1> QED  BY <1>1, <1>3, <1>4, <1>5 DEF DataStep

(* No observation is ever published twice, for every log however long and  *)
(* however often the airnode has been rotated.                             *)
THEOREM NoReplay == Spec => []NeverReplayed
<1>1. Init => LogBehindFeed /\ NeverReplayed
  BY EmptySeq DEF Init, LogBehindFeed, NeverReplayed, PriceEvents
<1>2. TypeOK /\ TypeOK' /\ LogBehindFeed /\ NeverReplayed /\ [Next]_vars
        => LogBehindFeed' /\ NeverReplayed'
  BY NextIsDataStep, OrderPreserved
<1> QED  BY <1>1, <1>2, TypeCorrect, PTL DEF Spec

-----------------------------------------------------------------------------
(* Storage and log                                                         *)

LEMMA ChangesInLog ==
  ASSUME TypeOK
  PROVE  /\ PriceEvents \subseteq 1..Len(log)
         /\ UpdaterChanges \subseteq 1..Len(log)
         /\ AirnodeChanges \subseteq 1..Len(log)
         /\ Len(log) \in Nat
BY LenProperties DEF TypeOK, PriceEvents, UpdaterChanges, AirnodeChanges

(* An event of another kind leaves what is said of a kind as it was; one   *)
(* of the same kind, which starts at the value stored, extends the chain.  *)
LEMMA UpdaterChain ==
  ASSUME TypeOK, StorageMatchesLog, NEW e \in Event, log' = Append(log, e),
         IF e.event = "UpdaterChanged"
         THEN e.from = updater /\ updater' = e.to
         ELSE updater' = updater
  PROVE  /\ \A i \in DOMAIN log' : IsLast(i, UpdaterChanges') => updater' = log'[i].to
         /\ Chained(UpdaterChanges)'
<1> DEFINE n == Len(log)
<1>1. /\ n \in Nat /\ UpdaterChanges \subseteq 1..n
      /\ DOMAIN log = 1..n /\ DOMAIN log' = 1..(n + 1)
      /\ \A i \in 1..n : log'[i] = log[i]
      /\ log'[n + 1] = e
  BY EmitEvent, ChangesInLog DEF TypeOK
<1>2. UpdaterChanges' = IF e.event = "UpdaterChanged" THEN UpdaterChanges \cup {n + 1}
                                                     ELSE UpdaterChanges
  BY EmitKinds DEF TypeOK
<1>3. /\ \A i \in 1..n : IsLast(i, UpdaterChanges) => updater = log[i].to
      /\ \A i, j \in UpdaterChanges :
           i < j /\ (\A k \in UpdaterChanges : k <= i \/ j <= k) => log[j].from = log[i].to
  BY <1>1 DEF StorageMatchesLog, Chained
<1> HIDE DEF n
<1>4. CASE e.event # "UpdaterChanged"
  <2>1. \A i \in UpdaterChanges : log'[i] = log[i]
    BY <1>1
  <2>2. UpdaterChanges' = UpdaterChanges
    BY <1>2, <1>4
  <2>3. ASSUME NEW i \in UpdaterChanges', NEW j \in UpdaterChanges', i < j,
               \A k \in UpdaterChanges' : k <= i \/ j <= k
        PROVE  log'[j].from = log'[i].to
    BY <1>3, <2>1, <2>2, <2>3
  <2>4. Chained(UpdaterChanges)'
    BY <2>3 DEF Chained
  <2> QED  BY <1>1, <1>2, <1>3, <1>4, <2>1, <2>4 DEF IsLast
<1>5. CASE e.event = "UpdaterChanged"
  <2>1. ASSUME NEW i \in DOMAIN log', IsLast(i, UpdaterChanges')
        PROVE  updater' = log'[i].to
    <3>1. i = n + 1
      BY <1>1, <1>2, <1>5, <2>1 DEF IsLast
    <3> QED  BY <1>1, <1>5, <3>1
  <2>2. ASSUME NEW i \in UpdaterChanges', NEW j \in UpdaterChanges', i < j,
               \A k \in UpdaterChanges' : k <= i \/ j <= k
        PROVE  log'[j].from = log'[i].to
    <3>1. i \in UpdaterChanges /\ i \in 1..n
      BY <1>1, <1>2, <1>5, <2>2
    <3>2. CASE j = n + 1
      <4>1. IsLast(i, UpdaterChanges)
        BY <1>1, <1>2, <1>5, <2>2, <3>1, <3>2 DEF IsLast
      <4> QED  BY <1>1, <1>3, <1>5, <3>1, <3>2, <4>1
    <3>3. CASE j \in UpdaterChanges
      BY <1>1, <1>2, <1>3, <1>5, <2>2, <3>1, <3>3
    <3> QED  BY <1>2, <1>5, <3>2, <3>3
  <2> QED  BY <2>1, <2>2 DEF Chained
<1> QED  BY <1>4, <1>5

LEMMA AirnodeChain ==
  ASSUME TypeOK, StorageMatchesLog, NEW e \in Event, log' = Append(log, e),
         IF e.event = "SourceAirnodeChanged"
         THEN e.from = sourceAirnode /\ sourceAirnode' = e.to
         ELSE sourceAirnode' = sourceAirnode
  PROVE  /\ \A i \in DOMAIN log' : IsLast(i, AirnodeChanges') => sourceAirnode' = log'[i].to
         /\ Chained(AirnodeChanges)'
<1> DEFINE n == Len(log)
<1>1. /\ n \in Nat /\ AirnodeChanges \subseteq 1..n
      /\ DOMAIN log = 1..n /\ DOMAIN log' = 1..(n + 1)
      /\ \A i \in 1..n : log'[i] = log[i]
      /\ log'[n + 1] = e
  BY EmitEvent, ChangesInLog DEF TypeOK
<1>2. AirnodeChanges' = IF e.event = "SourceAirnodeChanged" THEN AirnodeChanges \cup {n + 1}
                                                     ELSE AirnodeChanges
  BY EmitKinds DEF TypeOK
<1>3. /\ \A i \in 1..n : IsLast(i, AirnodeChanges) => sourceAirnode = log[i].to
      /\ \A i, j \in AirnodeChanges :
           i < j /\ (\A k \in AirnodeChanges : k <= i \/ j <= k) => log[j].from = log[i].to
  BY <1>1 DEF StorageMatchesLog, Chained
<1> HIDE DEF n
<1>4. CASE e.event # "SourceAirnodeChanged"
  <2>1. \A i \in AirnodeChanges : log'[i] = log[i]
    BY <1>1
  <2>2. AirnodeChanges' = AirnodeChanges
    BY <1>2, <1>4
  <2>3. ASSUME NEW i \in AirnodeChanges', NEW j \in AirnodeChanges', i < j,
               \A k \in AirnodeChanges' : k <= i \/ j <= k
        PROVE  log'[j].from = log'[i].to
    BY <1>3, <2>1, <2>2, <2>3
  <2>4. Chained(AirnodeChanges)'
    BY <2>3 DEF Chained
  <2> QED  BY <1>1, <1>2, <1>3, <1>4, <2>1, <2>4 DEF IsLast
<1>5. CASE e.event = "SourceAirnodeChanged"
  <2>1. ASSUME NEW i \in DOMAIN log', IsLast(i, AirnodeChanges')
        PROVE  sourceAirnode' = log'[i].to
    <3>1. i = n + 1
      BY <1>1, <1>2, <1>5, <2>1 DEF IsLast
    <3> QED  BY <1>1, <1>5, <3>1
  <2>2. ASSUME NEW i \in AirnodeChanges', NEW j \in AirnodeChanges', i < j,
               \A k \in AirnodeChanges' : k <= i \/ j <= k
        PROVE  log'[j].from = log'[i].to
    <3>1. i \in AirnodeChanges /\ i \in 1..n
      BY <1>1, <1>2, <1>5, <2>2
    <3>2. CASE j = n + 1
      <4>1. IsLast(i, AirnodeChanges)
        BY <1>1, <1>2, <1>5, <2>2, <3>1, <3>2 DEF IsLast
      <4> QED  BY <1>1, <1>3, <1>5, <3>1, <3>2, <4>1
    <3>3. CASE j \in AirnodeChanges
      BY <1>1, <1>2, <1>3, <1>5, <2>2, <3>1, <3>3
    <3> QED  BY <1>2, <1>5, <3>2, <3>3
  <2> QED  BY <2>1, <2>2 DEF Chained
<1> QED  BY <1>4, <1>5

LEMMA LatestPrice ==
  ASSUME TypeOK, StorageMatchesLog, NEW e \in Event, log' = Append(log, e),
         IF e.event = "PriceUpdated" THEN feed' = e.slots ELSE feed' = feed
  PROVE  /\ \A i \in DOMAIN log' : IsLast(i, PriceEvents') => feed' = log'[i].slots
         /\ PriceEvents' = {} => feed' = NoFeed
<1> DEFINE n == Len(log)
<1>1. /\ n \in Nat /\ PriceEvents \subseteq 1..n
      /\ DOMAIN log = 1..n /\ DOMAIN log' = 1..(n + 1)
      /\ \A i \in 1..n : log'[i] = log[i]
      /\ log'[n + 1] = e
  BY EmitEvent, ChangesInLog DEF TypeOK
<1>2. PriceEvents' = IF e.event = "PriceUpdated" THEN PriceEvents \cup {n + 1}
                                                ELSE PriceEvents
  BY EmitKinds DEF TypeOK
<1>3. /\ \A i \in 1..n : IsLast(i, PriceEvents) => feed = log[i].slots
      /\ PriceEvents = {} => feed = NoFeed
  BY <1>1 DEF StorageMatchesLog
<1> HIDE DEF n
<1>4. CASE e.event # "PriceUpdated"
  BY <1>1, <1>2, <1>3, <1>4 DEF IsLast
<1>5. CASE e.event = "PriceUpdated"
  <2>1. ASSUME NEW i \in DOMAIN log', IsLast(i, PriceEvents')
        PROVE  i = n + 1
    BY <1>1, <1>2, <1>5, <2>1 DEF IsLast
  <2> QED  BY <1>1, <1>2, <1>5, <2>1
<1> QED  BY <1>4, <1>5

LEMMA StoragePreserved ==
  ASSUME TypeOK, DataStep, StorageMatchesLog
  PROVE  StorageMatchesLog'
<1>1. ASSUME NEW sender \in Account, NEW payload \in Payload,
             NEW signature \in Signature, NEW t \in Nat,
             UpdatePrice(sender, payload, signature, t)
      PROVE  StorageMatchesLog'
  <2> DEFINE e == PriceUpdated(payload, signature, t)
  <2>1. /\ e \in Event /\ e.event = "PriceUpdated" /\ e.slots = feed'
        /\ log' = Append(log, e)
        /\ updater' = updater /\ sourceAirnode' = sourceAirnode
    BY <1>1, RecordedFeedType DEF UpdatePrice, PriceUpdated
  <2> HIDE DEF e
  <2> QED  BY <2>1, UpdaterChain, AirnodeChain, LatestPrice DEF StorageMatchesLog
<1>2. ASSUME NEW sender \in Account, NEW a \in Account, SetUpdater(sender, a)
      PROVE  StorageMatchesLog'
  <2> DEFINE e == [event |-> "UpdaterChanged", from |-> updater, to |-> a]
  <2>1. /\ e \in Event /\ e.event = "UpdaterChanged" /\ e.from = updater /\ updater' = e.to
        /\ log' = Append(log, e)
        /\ sourceAirnode' = sourceAirnode /\ feed' = feed
    BY <1>2 DEF SetUpdater, Event, TypeOK
  <2> HIDE DEF e
  <2> QED  BY <2>1, UpdaterChain, AirnodeChain, LatestPrice DEF StorageMatchesLog
<1>3. ASSUME NEW sender \in Account, NEW a \in Airnode, SetSourceAirnode(sender, a)
      PROVE  StorageMatchesLog'
  <2> DEFINE e == [event |-> "SourceAirnodeChanged", from |-> sourceAirnode, to |-> a]
  <2>1. /\ e \in Event /\ e.event = "SourceAirnodeChanged" /\ e.from = sourceAirnode
        /\ sourceAirnode' = e.to
        /\ log' = Append(log, e)
        /\ updater' = updater /\ feed' = feed
    BY <1>3 DEF SetSourceAirnode, Event, TypeOK
  <2> HIDE DEF e
  <2> QED  BY <2>1, UpdaterChain, AirnodeChain, LatestPrice DEF StorageMatchesLog
<1>4. CASE UNCHANGED <<updater, sourceAirnode, feed, log>>
  BY <1>4 DEF StorageMatchesLog, Chained, PriceEvents, UpdaterChanges, AirnodeChanges
<1> QED  BY <1>1, <1>2, <1>3, <1>4 DEF DataStep

(* Whoever follows the events holds the contract's state, for logs of any  *)
(* length.                                                                 *)
THEOREM LogIsComplete == Spec => []StorageMatchesLog
<1>1. Init => StorageMatchesLog
  BY EmptySeq DEF Init, StorageMatchesLog, Chained, PriceEvents, UpdaterChanges, AirnodeChanges
<1>2. TypeOK /\ StorageMatchesLog /\ [Next]_vars => StorageMatchesLog'
  BY NextIsDataStep, StoragePreserved
<1> QED  BY <1>1, <1>2, TypeCorrect, PTL DEF Spec

-----------------------------------------------------------------------------
(* Authenticity                                                            *)

(* What EventsAuthentic says of one event.                                 *)
Authentic(i) ==
  LET slots     == log[i].slots
      payload   == slots.latestPayloadHash.digest
      signature == slots.latestSignatureHash.digest
      signer    == signature.signer
  IN  /\ signature.over = payload
      /\ TrustedAt(i, signer)
      /\ log[i].sourceAirnode = signer
      /\ slots.latestBeaconId = Keccak256(<<signer, templateId>>)
      /\ slots.latestPriceUsdE18 = payload.value
      /\ slots.sourceTimestamp = payload.timestamp
      /\ payload.template = templateId

(* Who was trusted at an earlier event stays known when another event is   *)
(* emitted: a rotation keeps the airnode it replaces.                      *)
LEMMA TrustIsRemembered ==
  ASSUME TypeOK, NEW e \in Event, log' = Append(log, e),
         IF e.event = "SourceAirnodeChanged"
         THEN e.from = sourceAirnode
         ELSE sourceAirnode' = sourceAirnode,
         NEW i \in 1..Len(log), NEW airnode, TrustedAt(i, airnode)
  PROVE  TrustedAt(i, airnode)'
<1> DEFINE n == Len(log)
<1>1. /\ n \in Nat /\ AirnodeChanges \subseteq 1..n
      /\ \A k \in 1..n : log'[k] = log[k]
      /\ log'[n + 1] = e
  BY EmitEvent, ChangesInLog DEF TypeOK
<1>2. AirnodeChanges' = IF e.event = "SourceAirnodeChanged" THEN AirnodeChanges \cup {n + 1}
                                                           ELSE AirnodeChanges
  BY EmitKinds DEF TypeOK
<1> HIDE DEF n
<1>3. i \in 1..n
  BY DEF n
<1>4. CASE \E k \in AirnodeChanges : /\ i < k
                                    /\ \A j \in AirnodeChanges : i < j => k <= j
                                    /\ airnode = log[k].from
  <2>1. PICK k \in AirnodeChanges : /\ i < k
                                    /\ \A j \in AirnodeChanges : i < j => k <= j
                                    /\ airnode = log[k].from
    BY <1>4
  <2>2. k \in AirnodeChanges' /\ \A j \in AirnodeChanges' : i < j => k <= j
    BY <1>1, <1>2, <2>1
  <2> QED  BY <1>1, <2>1, <2>2 DEF TrustedAt
<1>5. CASE (\A j \in AirnodeChanges : j < i) /\ airnode = sourceAirnode
  <2>1. CASE e.event = "SourceAirnodeChanged"
    <3>1. n + 1 \in AirnodeChanges' /\ i < n + 1
      BY <1>1, <1>2, <1>3, <2>1
    <3>2. \A j \in AirnodeChanges' : i < j => n + 1 <= j
      BY <1>1, <1>2, <1>3, <1>5, <2>1
    <3>3. airnode = log'[n + 1].from
      BY <1>1, <1>5, <2>1
    <3> QED  BY <3>1, <3>2, <3>3 DEF TrustedAt
  <2>2. CASE e.event # "SourceAirnodeChanged"
    BY <1>2, <1>5, <2>2 DEF TrustedAt
  <2> QED  BY <2>1, <2>2
<1> QED  BY <1>4, <1>5 DEF TrustedAt

LEMMA EventStaysAuthentic ==
  ASSUME TypeOK, EventsAuthentic, NEW e \in Event, log' = Append(log, e),
         IF e.event = "SourceAirnodeChanged"
         THEN e.from = sourceAirnode
         ELSE sourceAirnode' = sourceAirnode,
         NEW i \in PriceEvents
  PROVE  Authentic(i)'
<1>1. i \in 1..Len(log) /\ log'[i] = log[i]
  BY EmitEvent, ChangesInLog DEF TypeOK
<1>2. Authentic(i)
  BY DEF EventsAuthentic, Authentic
<1>3. TrustedAt(i, log[i].slots.latestSignatureHash.digest.signer)'
  <2> DEFINE signer == log[i].slots.latestSignatureHash.digest.signer
  <2>1. TrustedAt(i, signer)
    BY <1>2 DEF Authentic
  <2>2. signer' = signer
    BY <1>1
  <2> HIDE DEF signer
  <2>3. \A airnode : TrustedAt(i, airnode) => TrustedAt(i, airnode)'
    BY <1>1, TrustIsRemembered
  <2> QED  BY <2>1, <2>2, <2>3 DEF signer
<1> QED  BY <1>1, <1>2, <1>3 DEF Authentic

LEMMA AuthenticPreserved ==
  ASSUME TypeOK, DataStep, EventsAuthentic
  PROVE  EventsAuthentic'
<1>1. ASSUME NEW sender \in Account, NEW payload \in Payload,
             NEW signature \in Signature, NEW t \in Nat,
             UpdatePrice(sender, payload, signature, t)
      PROVE  \A i \in PriceEvents' : Authentic(i)'
  <2> DEFINE e == PriceUpdated(payload, signature, t)
  <2>1. /\ e \in Event /\ e.event = "PriceUpdated" /\ log' = Append(log, e)
        /\ sourceAirnode' = sourceAirnode
    BY <1>1, RecordedFeedType DEF UpdatePrice, PriceUpdated
  <2>2. /\ payload.template = templateId
        /\ Recover(payload, signature) = sourceAirnode
    BY <1>1 DEF UpdatePrice, UpdateAccepted, SignatureValid
  <2>3. signature.over = payload /\ signature.signer = sourceAirnode
    BY <2>2, OracleConstants DEF Recover, TypeOK
  <2>4. /\ e.sourceAirnode = signature.signer
        /\ e.slots.latestPayloadHash.digest = payload
        /\ e.slots.latestSignatureHash.digest = signature
        /\ e.slots.latestBeaconId = Keccak256(<<signature.signer, templateId>>)
        /\ e.slots.latestPriceUsdE18 = payload.value
        /\ e.slots.sourceTimestamp = payload.timestamp
    BY <2>2, <2>3 DEF PriceUpdated, RecordedFeed, Keccak256
  <2> HIDE DEF e
  <2>5. PICK n \in Nat : /\ PriceEvents' = PriceEvents \cup {n}
                         /\ AirnodeChanges' = AirnodeChanges
                         /\ log'[n] = e
                         /\ AirnodeChanges \subseteq 1..(n - 1)
    BY <2>1, EmitEvent, EmitKinds, ChangesInLog DEF TypeOK
  <2>6. TrustedAt(n, signature.signer)'
    <3>1. \A j \in AirnodeChanges' : j < n
      BY <2>5
    <3> QED  BY <2>1, <2>3, <3>1 DEF TrustedAt
  <2>7. Authentic(n)'
    BY <2>2, <2>3, <2>4, <2>5, <2>6 DEF Authentic
  <2>8. ASSUME NEW i \in PriceEvents
        PROVE  Authentic(i)'
    BY <2>1, EventStaysAuthentic
  <2> QED  BY <2>5, <2>7, <2>8
<1>2. ASSUME NEW e \in Event, log' = Append(log, e), e.event # "PriceUpdated",
             IF e.event = "SourceAirnodeChanged"
             THEN e.from = sourceAirnode
             ELSE sourceAirnode' = sourceAirnode
      PROVE  \A i \in PriceEvents' : Authentic(i)'
  <2>1. PriceEvents' = PriceEvents
    BY <1>2, EmitKinds DEF TypeOK
  <2> QED  BY <1>2, <2>1, EventStaysAuthentic
<1>3. ASSUME NEW sender \in Account, NEW a \in Account, SetUpdater(sender, a)
      PROVE  \A i \in PriceEvents' : Authentic(i)'
  <2>1. [event |-> "UpdaterChanged", from |-> updater, to |-> a] \in Event
    BY DEF Event, TypeOK
  <2> QED  BY <1>2, <1>3, <2>1 DEF SetUpdater
<1>4. ASSUME NEW sender \in Account, NEW a \in Airnode, SetSourceAirnode(sender, a)
      PROVE  \A i \in PriceEvents' : Authentic(i)'
  <2>1. [event |-> "SourceAirnodeChanged", from |-> sourceAirnode, to |-> a] \in Event
    BY DEF Event, TypeOK
  <2> QED  BY <1>2, <1>4, <2>1 DEF SetSourceAirnode
<1>5. CASE UNCHANGED <<updater, sourceAirnode, feed, log>>
  BY <1>5 DEF EventsAuthentic, TrustedAt, PriceEvents, AirnodeChanges
<1>6. (\A i \in PriceEvents' : Authentic(i)') => EventsAuthentic'
  BY DEF EventsAuthentic, Authentic
<1> QED  BY <1>1, <1>3, <1>4, <1>5, <1>6 DEF DataStep

(* Every price ever published was signed, as a whole, by the airnode that  *)
(* was trusted when it was, however the airnode has been rotated since.    *)
THEOREM Authenticity == Spec => []EventsAuthentic
<1>1. Init => EventsAuthentic
  BY EmptySeq DEF Init, EventsAuthentic, PriceEvents
<1>2. TypeOK /\ EventsAuthentic /\ [Next]_vars => EventsAuthentic'
  BY NextIsDataStep, AuthenticPreserved
<1> QED  BY <1>1, <1>2, TypeCorrect, PTL DEF Spec

-----------------------------------------------------------------------------
(* Ownership                                                               *)

(* A renunciation withdraws the nomination with it.                        *)
NoNomineeOfNobody == owner = ZeroAddress => pendingOwner = ZeroAddress

(* Address zero sends no transaction, so nobody acts for a contract        *)
(* without an owner.                                                       *)
LEMMA OwnerStep ==
  ASSUME TypeOK, NoNomineeOfNobody, [Next]_vars
  PROVE  /\ NoNomineeOfNobody'
         /\ owner = ZeroAddress => UNCHANGED <<owner, pendingOwner, updater, sourceAirnode>>
<1>1. CASE UNCHANGED vars
  BY <1>1 DEF vars, contractVars, NoNomineeOfNobody
<1>2. ASSUME NEW sender \in Account, Call(sender)
      PROVE  /\ NoNomineeOfNobody'
             /\ owner = ZeroAddress => UNCHANGED <<owner, pendingOwner, updater, sourceAirnode>>
  <2>1. sender # ZeroAddress
    BY OracleConstants
  <2>2. ASSUME NEW payload, NEW signature, NEW t, UpdatePrice(sender, payload, signature, t)
        PROVE  UNCHANGED <<owner, pendingOwner, updater, sourceAirnode>>
    BY <2>2 DEF UpdatePrice
  <2>3. ASSUME NEW a, SetUpdater(sender, a) \/ SetSourceAirnode(sender, a)
        PROVE  owner # ZeroAddress /\ UNCHANGED <<owner, pendingOwner>>
    BY <2>1, <2>3 DEF SetUpdater, SetSourceAirnode
  <2>4. ASSUME NEW a, TransferOwnership(sender, a)
        PROVE  owner # ZeroAddress /\ owner' = owner
    BY <2>1, <2>4 DEF TransferOwnership
  <2>5. CASE AcceptOwnership(sender)
    BY <2>1, <2>5 DEF AcceptOwnership, NoNomineeOfNobody
  <2>6. CASE RenounceOwnership(sender)
    BY <2>1, <2>6 DEF RenounceOwnership, NoNomineeOfNobody
  <2> QED  BY <1>2, <2>2, <2>3, <2>4, <2>5, <2>6 DEF Call, NoNomineeOfNobody
<1> QED  BY <1>1, <1>2 DEF Next

(* Once ownership is renounced, nobody becomes owner or changes a trust    *)
(* setting, whatever was nominated before.                                 *)
THEOREM Renouncement == Spec => RenouncedIsFinal
<1>1. Init => NoNomineeOfNobody
  BY DEF Init, NoNomineeOfNobody
<1>2. TypeOK /\ NoNomineeOfNobody /\ [Next]_vars => NoNomineeOfNobody'
  BY OwnerStep
<1>3. TypeOK /\ NoNomineeOfNobody /\ [Next]_vars =>
        [owner = ZeroAddress =>
           UNCHANGED <<owner, pendingOwner, updater, sourceAirnode>>]_vars
  BY OwnerStep
<1> QED  BY <1>1, <1>2, <1>3, TypeCorrect, PTL DEF Spec, RenouncedIsFinal

-----------------------------------------------------------------------------
(* Refinement                                                              *)

(* The strengthening the refinement needs: nothing was recorded later than *)
(* the latest block.                                                       *)
RecordedInThePast == feed.recordedAt <= blockTime

LEMMA FeedStep ==
  ASSUME TypeOK, RecordedInThePast, DataStep
  PROVE  RecordedInThePast' /\ (Feed!Next \/ feed' = feed)
<1>1. ASSUME NEW sender \in Account, NEW payload \in Payload,
             NEW signature \in Signature, NEW t \in Nat, t >= blockTime,
             UpdatePrice(sender, payload, signature, t)
      PROVE  RecordedInThePast' /\ Feed!Next
  <2>1. /\ feed'.latestPriceUsdE18 = payload.value
        /\ feed'.sourceTimestamp = payload.timestamp
        /\ feed'.recordedAt = t
        /\ blockTime' = t
    BY <1>1 DEF UpdatePrice, RecordedFeed
  <2>2. /\ payload.value > 0
        /\ payload.timestamp > feed.sourceTimestamp
        /\ payload.timestamp <= t + MAX_FUTURE_DRIFT
        /\ payload.timestamp >= IF t > MAX_SOURCE_AGE THEN t - MAX_SOURCE_AGE ELSE 0
    BY <1>1 DEF UpdatePrice, UpdateAccepted, Newer, TimestampValid
  <2>3. feed.recordedAt \in Nat /\ blockTime \in Nat /\ payload.timestamp \in Nat
    BY DEF TypeOK, Slots, Payload
  <2>4. payload.timestamp >= t - MAX_SOURCE_AGE /\ t >= feed.recordedAt
    BY <1>1, <2>2, <2>3, OracleConstants DEF RecordedInThePast
  <2>5. RecordedInThePast'
    BY <2>1 DEF RecordedInThePast
  <2> QED  BY <2>1, <2>2, <2>4, <2>5 DEF Feed!Next, Feed!Publish
<1>2. ASSUME UNCHANGED <<feed, blockTime>>
      PROVE  RecordedInThePast'
  BY <1>2 DEF RecordedInThePast
<1>3. CASE UNCHANGED <<updater, sourceAirnode, feed, log>> /\ blockTime' \in Nat
           /\ blockTime' >= blockTime
  <2>1. feed.recordedAt \in Nat /\ blockTime \in Nat
    BY DEF TypeOK, Slots
  <2> QED  BY <1>3, <2>1 DEF RecordedInThePast
<1> QED  BY <1>1, <1>2, <1>3 DEF DataStep, SetUpdater, SetSourceAirnode

(* The contract implements the abstract feed: whatever is called, a reader *)
(* sees one observation replaced as a whole by a newer one that was inside *)
(* the time window when it was recorded.                                   *)
THEOREM ContractImplementsFeed == Spec => PublishedFeed
<1>1. Init => RecordedInThePast /\ Feed!Init
  BY DEF Init, NoFeed, RecordedInThePast, Feed!Init, Feed!NothingPublished
<1>2. TypeOK /\ RecordedInThePast /\ [Next]_vars => RecordedInThePast'
  BY NextIsDataStep, FeedStep
<1>3. TypeOK /\ RecordedInThePast /\ [Next]_vars =>
        [Feed!Next]_([price           |-> feed.latestPriceUsdE18,
                      sourceTimestamp |-> feed.sourceTimestamp,
                      recordedAt      |-> feed.recordedAt])
  BY NextIsDataStep, FeedStep
<1> QED  BY <1>1, <1>2, <1>3, TypeCorrect, PTL DEF Spec, PublishedFeed, Feed!Spec
=============================================================================
