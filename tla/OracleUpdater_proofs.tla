------------------------ MODULE OracleUpdater_proofs ------------------------
(***************************************************************************)
(* Theorems about the scheduled updater against the contract, for any      *)
(* number of replicas, interval, time window, prices and restarts.         *)
(***************************************************************************)
EXTENDS OracleUpdater, SignedEthUsdOracle_proofs, FiniteSetTheorems

(* What a transaction was built from: an observation verify_observation    *)
(* lets through, newer than the one the cycle had read, at a moment when   *)
(* an update of what it had read was due.                                  *)
Justified(tx) ==
  /\ tx.payload.template = templateId
  /\ Recover(tx.payload, tx.signature) = SOURCE_AIRNODE
  /\ DecodesToPositiveU128(tx.payload.value)
  /\ tx.payload.timestamp > tx.basedOnTimestamp
  /\ tx.basedOnRecordedAt = 0 \/ now >= tx.basedOnRecordedAt + Interval

(* What a cycle knows at each of its suspension points.                    *)
Grounded(c) ==
  /\ c.recordedAt <= feed.recordedAt
  /\ c.sourceTimestamp <= feed.sourceTimestamp
  /\ c.pc \in {"certifying", "fetching", "fetched", "nonce", "signing"} =>
       c.recordedAt = 0 \/ now >= c.recordedAt + Interval
  /\ c.pc \in {"fetched", "nonce", "signing"} =>
       c.observation \in Observation /\ VerifyObservation(c.observation)
  /\ c.pc \in {"nonce", "signing"} =>
       c.observation.payload.timestamp > c.sourceTimestamp
  /\ c.pc \in {"sending", "confirming"} => c.tx \in Transaction /\ Justified(c.tx)

ChainInv ==
  /\ owner \in Account
  /\ IsFiniteSet(mempool)
  /\ RecordedInThePast
  /\ FeedStaysReadable
  /\ \A tx \in mempool : Justified(tx)
  /\ \A tx \in DOMAIN receipts :
       receipts[tx] = "success" => feed.sourceTimestamp >= tx.payload.timestamp

CycleInv ==
  \A r \in Replica :
    /\ Grounded(cycle[r])
    /\ cycle[r].pc # Asleep => status[r].phase # "waiting"

UInv == UTypeOK /\ ChainInv /\ CycleInv

-----------------------------------------------------------------------------
(* Types                                                                   *)

LEMMA OfferedObservationTypes ==
  ASSUME NEW t \in Nat, NEW o \in SignedApiObservations(t)
  PROVE  o \in Observation
<1>1. PICK payload \in OfferedPayloads(t) :
        o \in [airnode : Airnode, payload : {payload}, signature : OfferedSignature(payload)]
  BY DEF SignedApiObservations
<1>2. payload \in Payload
  BY DEF OfferedPayloads, Payload
<1>3. [payload EXCEPT !.timestamp = @ + 1] \in Payload
  BY <1>2 DEF Payload
<1>4. OfferedSignature(payload) \subseteq Signature
  BY <1>2, <1>3 DEF OfferedSignature, Signature
<1> QED  BY <1>1, <1>2, <1>4 DEF Observation

LEMMA FreshCycleType ==
  ASSUME NEW t \in Nat
  PROVE  FreshCycle(t) \in Cycle /\ (UTypeOK => Grounded(FreshCycle(t)))
<1>1. FreshCycle(t) \in Cycle
  BY UpdaterConstants DEF FreshCycle, Cycle, Asleep
<1>2. ASSUME UTypeOK PROVE Grounded(FreshCycle(t))
  BY <1>2 DEF FreshCycle, Grounded, Asleep, UTypeOK, TypeOK, Slots
<1> QED  BY <1>1, <1>2

LEMMA FreshStatusType == FreshStatus \in RuntimeStatus /\ FreshStatus.phase = "starting"
BY DEF FreshStatus, RuntimeStatus, Phase

LEMMA InitInv == UInit => UInv
<1> SUFFICES ASSUME UInit PROVE UInv
  OBVIOUS
<1> USE DEF UInit
<1>1. owner \in Account
  BY UpdaterConstants
<1>2. TypeOK
  BY OracleConstants, EmptySeq DEF Init, TypeOK, NoFeed, Slots
<1>3. \A r \in Replica : cycle[r] \in Cycle /\ status[r] \in RuntimeStatus
  BY FreshCycleType, FreshStatusType
<1>4. UTypeOK
  BY <1>2, <1>3, UpdaterConstants DEF UTypeOK
<1>5. ChainInv
  BY <1>1, FS_EmptySet, ObservationConstants
     DEF ChainInv, Init, NoFeed, RecordedInThePast, FeedStaysReadable
<1>6. CycleInv
  BY <1>4, FreshCycleType DEF CycleInv, FreshCycle
<1> QED  BY <1>4, <1>5, <1>6 DEF UInv

-----------------------------------------------------------------------------
(* Steps of a replica                                                      *)

(* Replica r goes on to a cycle and a status that the invariant allows.    *)
Moves(r) ==
  \E c \in Cycle, s \in RuntimeStatus :
    /\ cycle' = [cycle EXCEPT ![r] = c]
    /\ status' = [status EXCEPT ![r] = s]
    /\ Grounded(c)
    /\ c.pc # Asleep => s.phase # "waiting"

LEMMA MovesKeepCycles ==
  ASSUME UInv, NEW r \in Replica, Moves(r), UNCHANGED <<contractVars, now>>
  PROVE  /\ cycle' \in [Replica -> Cycle]
         /\ status' \in [Replica -> RuntimeStatus]
         /\ CycleInv'
<1>1. PICK c \in Cycle, s \in RuntimeStatus :
        /\ cycle' = [cycle EXCEPT ![r] = c]
        /\ status' = [status EXCEPT ![r] = s]
        /\ Grounded(c)
        /\ c.pc # Asleep => s.phase # "waiting"
  BY DEF Moves
<1>2. cycle' \in [Replica -> Cycle] /\ status' \in [Replica -> RuntimeStatus]
  BY <1>1 DEF UInv, UTypeOK
<1>3. \A d : Grounded(d) => Grounded(d)'
  BY DEF contractVars, Grounded, Justified, Recover, VerifyObservation, SignedBySource
<1>4. CycleInv'
  BY <1>1, <1>3 DEF UInv, UTypeOK, CycleInv
<1> QED  BY <1>2, <1>4

LEMMA MovesKeepInv ==
  ASSUME UInv, NEW r \in Replica, Moves(r), UNCHANGED <<chainVars, now>>,
         restarts' \in 0..MaxRestarts
  PROVE  UInv'
<1>1. UNCHANGED <<owner, pendingOwner, updater, sourceAirnode, feed, log, blockTime, mempool,
                  accountNonce, receipts, now>>
  BY DEF chainVars, contractVars
<1>2. /\ cycle' \in [Replica -> Cycle]
      /\ status' \in [Replica -> RuntimeStatus]
      /\ CycleInv'
  BY MovesKeepCycles DEF chainVars
<1>3. UTypeOK'
  <2>1. TypeOK'
    BY <1>1 DEF UInv, UTypeOK, TypeOK
  <2> QED  BY <1>1, <1>2, <2>1 DEF UInv, UTypeOK
<1>4. ChainInv'
  BY <1>1 DEF UInv, ChainInv, RecordedInThePast, FeedStaysReadable, Justified, Recover
<1> QED  BY <1>2, <1>3, <1>4 DEF UInv

(* The three ends of a cycle.                                              *)
LEMMA SleepMoves ==
  ASSUME UInv, NEW r \in Replica, NEW delay \in Nat, Sleep(r, delay),
         NEW s \in RuntimeStatus, status' = [status EXCEPT ![r] = s]
  PROVE  Moves(r)
<1>1. now + delay \in Nat
  BY DEF UInv, UTypeOK
<1>2. FreshCycle(now + delay) \in Cycle /\ Grounded(FreshCycle(now + delay))
  BY <1>1, FreshCycleType DEF UInv
<1>3. FreshCycle(now + delay).pc = Asleep
  BY DEF FreshCycle
<1> QED  BY <1>2, <1>3 DEF Sleep, Moves

LEMMA EndMoves ==
  ASSUME UInv, NEW r \in Replica, EndSubmitted(r) \/ EndNotDue(r) \/ EndFailed(r)
  PROVE  Moves(r)
<1>1. /\ status \in [Replica -> RuntimeStatus]
      /\ status[r] \in RuntimeStatus
      /\ cycle[r] \in Cycle
  BY DEF UInv, UTypeOK
<1>2. CASE EndSubmitted(r)
  <2>1. cycle[r].tx \in Transaction \cup {None}
    BY <1>1 DEF Cycle
  <2>2. [status[r] EXCEPT !.lastTransaction = cycle[r].tx, !.lastError = FALSE,
                          !.phase = "waiting"] \in RuntimeStatus
    BY <1>1, <2>1 DEF RuntimeStatus, Phase
  <2>3. status' = [status EXCEPT ![r] = [status[r] EXCEPT !.lastTransaction = cycle[r].tx,
                                                          !.lastError = FALSE,
                                                          !.phase = "waiting"]]
    BY <1>1, <1>2 DEF EndSubmitted, RuntimeStatus
  <2> QED  BY <1>2, <2>2, <2>3, SleepMoves, UpdaterConstants DEF EndSubmitted
<1>3. CASE EndNotDue(r)
  <2>1. [status[r] EXCEPT !.lastError = FALSE, !.phase = "waiting"] \in RuntimeStatus
    BY <1>1 DEF RuntimeStatus, Phase
  <2>2. status' = [status EXCEPT ![r] = [status[r] EXCEPT !.lastError = FALSE,
                                                          !.phase = "waiting"]]
    BY <1>1, <1>3 DEF EndNotDue, RuntimeStatus
  <2>3. Min2(Interval, RecheckCap) \in Nat
    BY UpdaterConstants DEF Min2
  <2> QED  BY <1>3, <2>1, <2>2, <2>3, SleepMoves DEF EndNotDue
<1>4. CASE EndFailed(r)
  <2>1. [status[r] EXCEPT !.lastError = TRUE, !.phase = "retrying"] \in RuntimeStatus
    BY <1>1 DEF RuntimeStatus, Phase
  <2>2. status' = [status EXCEPT ![r] = [status[r] EXCEPT !.lastError = TRUE,
                                                          !.phase = "retrying"]]
    BY <1>1, <1>4 DEF EndFailed, RuntimeStatus
  <2> QED  BY <1>4, <2>1, <2>2, SleepMoves, UpdaterConstants DEF EndFailed
<1> QED  BY <1>2, <1>3, <1>4

(* A step within a cycle: the status keeps its type and does not wait.     *)
LEMMA KeepStatusMoves ==
  ASSUME UInv, NEW r \in Replica, NEW c \in Cycle, Grounded(c),
         cycle' = [cycle EXCEPT ![r] = c], status' = status, cycle[r].pc # Asleep
  PROVE  Moves(r)
<1>1. status[r] \in RuntimeStatus /\ status' = [status EXCEPT ![r] = status[r]]
  BY DEF UInv, UTypeOK
<1>2. status[r].phase # "waiting"
  BY DEF UInv, CycleInv
<1> QED  BY <1>1, <1>2 DEF Moves

LEMMA BeginCycleMoves ==
  ASSUME UInv, NEW r \in Replica, BeginCycle(r)
  PROVE  Moves(r)
<1> DEFINE c == [cycle[r] EXCEPT !.pc = "reading", !.unread = Unread]
           s == [status[r] EXCEPT !.phase = "updating"]
<1>1. cycle[r] \in Cycle /\ status[r] \in RuntimeStatus /\ Grounded(cycle[r])
  BY DEF UInv, UTypeOK, CycleInv
<1>2. c \in Cycle
  BY <1>1 DEF Cycle
<1>3. s \in RuntimeStatus /\ s.phase # "waiting"
  BY <1>1 DEF RuntimeStatus, Phase
<1>4. Grounded(c)
  BY <1>1 DEF Grounded, Cycle
<1>5. cycle' = [cycle EXCEPT ![r] = c] /\ status' = [status EXCEPT ![r] = s]
  BY <1>1 DEF BeginCycle, UInv, UTypeOK, Cycle, RuntimeStatus
<1> HIDE DEF c, s
<1> QED  BY <1>2, <1>3, <1>4, <1>5 DEF Moves

LEMMA ReadSlotMoves ==
  ASSUME UInv, NEW r \in Replica, NEW slot \in Unread, ReadSlot(r, slot)
  PROVE  Moves(r)
<1> DEFINE c == [cycle[r] EXCEPT !.unread = @ \ {slot}, ![slot] = feed[slot]]
<1>1. /\ cycle[r] \in Cycle /\ Grounded(cycle[r]) /\ cycle[r].pc = "reading"
      /\ feed[slot] \in Nat /\ feed.recordedAt \in Nat /\ feed.sourceTimestamp \in Nat
  BY DEF UInv, UTypeOK, CycleInv, ReadSlot, At, TypeOK, Slots, Unread
<1>2. c \in Cycle
  BY <1>1 DEF Cycle, Unread
<1>3. Grounded(c)
  BY <1>1 DEF Grounded, Cycle, Unread
<1>4. cycle' = [cycle EXCEPT ![r] = c] /\ status' = status
  BY <1>1 DEF ReadSlot, UInv, UTypeOK, Cycle, Unread
<1> HIDE DEF c
<1> QED  BY <1>1, <1>2, <1>3, <1>4, KeepStatusMoves DEF Asleep

(* Moving on without touching anything but the place in the code.          *)
LEMMA GotoMoves ==
  ASSUME UInv, NEW r \in Replica, NEW pc \in {"certifying", "fetching"}, Goto(r, pc),
         status' = status, cycle[r].pc # Asleep,
         cycle[r].recordedAt = 0 \/ now >= cycle[r].recordedAt + Interval
  PROVE  Moves(r)
<1> DEFINE c == [cycle[r] EXCEPT !.pc = pc]
<1>1. cycle[r] \in Cycle /\ Grounded(cycle[r])
  BY DEF UInv, UTypeOK, CycleInv
<1>2. c \in Cycle
  BY <1>1 DEF Cycle
<1>3. Grounded(c)
  BY <1>1 DEF Grounded, Cycle
<1>4. cycle' = [cycle EXCEPT ![r] = c]
  BY <1>1 DEF Goto, UInv, UTypeOK, Cycle
<1> HIDE DEF c
<1> QED  BY <1>2, <1>3, <1>4, KeepStatusMoves

LEMMA CheckDueMoves ==
  ASSUME UInv, NEW r \in Replica, CheckDue(r)
  PROVE  Moves(r)
<1>1. CASE EndNotDue(r) \/ EndFailed(r)
  BY <1>1, EndMoves
<1>2. CASE /\ ~RecentlyRecorded(cycle[r].recordedAt, now)
           /\ Goto(r, "certifying") /\ UNCHANGED status
  <2>1. cycle[r].recordedAt \in Nat /\ now \in Nat
    BY DEF UInv, UTypeOK, Cycle
  <2>2. cycle[r].recordedAt = 0 \/ now >= cycle[r].recordedAt + Interval
    BY <1>2, <2>1, UpdaterConstants DEF RecentlyRecorded, SaturatingSub
  <2> QED  BY <1>2, <2>2, GotoMoves DEF CheckDue, At, Asleep
<1> QED  BY <1>1, <1>2 DEF CheckDue

LEMMA FetchCertificationMoves ==
  ASSUME UInv, NEW r \in Replica, FetchCertification(r)
  PROVE  Moves(r)
<1>1. CASE EndFailed(r)
  BY <1>1, EndMoves
<1>2. CASE Goto(r, "fetching") /\ UNCHANGED status
  <2>1. Grounded(cycle[r]) /\ cycle[r].pc = "certifying"
    BY DEF UInv, CycleInv, FetchCertification, At
  <2> QED  BY <1>2, <2>1, GotoMoves DEF Grounded, Asleep
<1> QED  BY <1>1, <1>2 DEF FetchCertification

LEMMA FetchObservationMoves ==
  ASSUME UInv, NEW r \in Replica, FetchObservation(r)
  PROVE  Moves(r)
<1>1. CASE EndFailed(r)
  BY <1>1, EndMoves
<1>2. ASSUME NEW offered \in SignedApiObservations(now + SourceSkew),
             VerifyObservation(offered),
             cycle' = [cycle EXCEPT ![r].pc = "fetched", ![r].observation = offered],
             UNCHANGED status
      PROVE  Moves(r)
  <2> DEFINE c == [cycle[r] EXCEPT !.pc = "fetched", !.observation = offered]
  <2>1. /\ cycle[r] \in Cycle /\ Grounded(cycle[r]) /\ cycle[r].pc = "fetching"
    BY DEF UInv, UTypeOK, CycleInv, FetchObservation, At
  <2>2. offered \in Observation
    BY OfferedObservationTypes, UpdaterConstants DEF UInv, UTypeOK
  <2>3. c \in Cycle
    BY <2>1, <2>2 DEF Cycle
  <2>4. /\ c.pc = "fetched" /\ c.observation = offered /\ c.recordedAt = cycle[r].recordedAt
        /\ c.sourceTimestamp = cycle[r].sourceTimestamp
    BY <2>1 DEF Cycle
  <2>5. cycle' = [cycle EXCEPT ![r] = c]
    BY <1>2, <2>1 DEF UInv, UTypeOK, Cycle
  <2> HIDE DEF c
  <2>6. Grounded(c)
    BY <1>2, <2>1, <2>2, <2>4 DEF Grounded
  <2> QED  BY <1>2, <2>1, <2>3, <2>5, <2>6, KeepStatusMoves DEF Asleep
<1> QED  BY <1>1, <1>2 DEF FetchObservation

LEMMA CheckNewerMoves ==
  ASSUME UInv, NEW r \in Replica, CheckNewer(r)
  PROVE  Moves(r)
<1>1. CASE EndNotDue(r)
  BY <1>1, EndMoves
<1>2. CASE /\ NewerThanRead(cycle[r].observation.payload.timestamp, cycle[r].sourceTimestamp)
           /\ Goto(r, "nonce") /\ UNCHANGED status
  <2> DEFINE c == [cycle[r] EXCEPT !.pc = "nonce"]
  <2>1. cycle[r] \in Cycle /\ Grounded(cycle[r]) /\ cycle[r].pc = "fetched"
    BY DEF UInv, UTypeOK, CycleInv, CheckNewer, At
  <2>2. c \in Cycle
    BY <2>1 DEF Cycle
  <2>3. Grounded(c)
    BY <1>2, <2>1 DEF Grounded, Cycle, NewerThanRead
  <2>4. cycle' = [cycle EXCEPT ![r] = c]
    BY <1>2, <2>1 DEF Goto, UInv, UTypeOK, Cycle
  <2> HIDE DEF c
  <2> QED  BY <1>2, <2>1, <2>2, <2>3, <2>4, KeepStatusMoves DEF Asleep
<1> QED  BY <1>1, <1>2 DEF CheckNewer

LEMMA GetNonceMoves ==
  ASSUME UInv, NEW r \in Replica, GetNonce(r)
  PROVE  Moves(r)
<1>1. PICK n \in accountNonce..(accountNonce + Cardinality(mempool)) :
        cycle' = [cycle EXCEPT ![r].pc = "signing", ![r].nonce = n]
  BY DEF GetNonce
<1>2. n \in Nat
  BY FS_CardinalityType DEF UInv, UTypeOK, ChainInv
<1> DEFINE c == [cycle[r] EXCEPT !.pc = "signing", !.nonce = n]
<1>3. cycle[r] \in Cycle /\ Grounded(cycle[r]) /\ cycle[r].pc = "nonce"
  BY DEF UInv, UTypeOK, CycleInv, GetNonce, At
<1>4. c \in Cycle
  BY <1>2, <1>3 DEF Cycle
<1>5. Grounded(c)
  BY <1>3 DEF Grounded, Cycle
<1>6. cycle' = [cycle EXCEPT ![r] = c]
  BY <1>1, <1>3 DEF UInv, UTypeOK, Cycle
<1> HIDE DEF c
<1> QED  BY <1>3, <1>4, <1>5, <1>6, KeepStatusMoves DEF GetNonce, Asleep

LEMMA SignMoves ==
  ASSUME UInv, NEW r \in Replica, Sign(r)
  PROVE  Moves(r)
<1> DEFINE u == UnsignedTransaction(cycle[r])
           c == [cycle[r] EXCEPT !.pc = "sending", !.tx = u]
<1>1. cycle[r] \in Cycle /\ Grounded(cycle[r]) /\ cycle[r].pc = "signing"
  BY DEF UInv, UTypeOK, CycleInv, Sign, At
<1>2. /\ cycle[r].observation \in Observation
      /\ VerifyObservation(cycle[r].observation)
      /\ cycle[r].observation.payload.timestamp > cycle[r].sourceTimestamp
      /\ cycle[r].recordedAt = 0 \/ now >= cycle[r].recordedAt + Interval
  BY <1>1 DEF Grounded
<1>3. u \in Transaction
  BY <1>1, <1>2 DEF UnsignedTransaction, Transaction, Observation, Cycle
<1>4. Justified(u)
  BY <1>2 DEF UnsignedTransaction, Justified, VerifyObservation, SignedBySource
<1>5. c \in Cycle
  BY <1>1, <1>3 DEF Cycle
<1>6. /\ c.pc = "sending" /\ c.tx = u /\ c.recordedAt = cycle[r].recordedAt
      /\ c.sourceTimestamp = cycle[r].sourceTimestamp
  BY <1>1 DEF Cycle
<1>7. cycle' = [cycle EXCEPT ![r] = c]
  BY <1>1 DEF Sign, UInv, UTypeOK, Cycle
<1> HIDE DEF c, u
<1>8. Grounded(c)
  BY <1>1, <1>3, <1>4, <1>6 DEF Grounded
<1> QED  BY <1>1, <1>5, <1>7, <1>8, KeepStatusMoves DEF Sign, Asleep

LEMMA PollReceiptMoves ==
  ASSUME UInv, NEW r \in Replica, PollReceipt(r)
  PROVE  Moves(r)
<1>1. CASE EndSubmitted(r) \/ EndFailed(r)
  BY <1>1, EndMoves
<1>2. CASE /\ cycle[r].attempts > 1
           /\ cycle' = [cycle EXCEPT ![r].attempts = @ - 1]
           /\ UNCHANGED status
  <2> DEFINE c == [cycle[r] EXCEPT !.attempts = @ - 1]
  <2>1. cycle[r] \in Cycle /\ Grounded(cycle[r]) /\ cycle[r].pc = "confirming"
    BY DEF UInv, UTypeOK, CycleInv, PollReceipt, At
  <2>2. cycle[r].attempts - 1 \in 0..RECEIPT_ATTEMPTS
    BY <1>2, <2>1, UpdaterConstants DEF Cycle
  <2>3. c \in Cycle
    BY <2>1, <2>2 DEF Cycle
  <2>4. Grounded(c)
    BY <2>1 DEF Grounded, Cycle
  <2>5. cycle' = [cycle EXCEPT ![r] = c]
    BY <1>2, <2>1 DEF UInv, UTypeOK, Cycle
  <2> HIDE DEF c
  <2> QED  BY <1>2, <2>1, <2>3, <2>4, <2>5, KeepStatusMoves DEF Asleep
<1> QED  BY <1>1, <1>2 DEF PollReceipt

LEMMA RestartMoves ==
  ASSUME UInv, NEW r \in Replica, Restart(r)
  PROVE  Moves(r) /\ restarts' \in 0..MaxRestarts
<1>1. now \in Nat /\ restarts \in 0..MaxRestarts
  BY DEF UInv, UTypeOK
<1>2. FreshCycle(now) \in Cycle /\ Grounded(FreshCycle(now))
  BY <1>1, FreshCycleType DEF UInv
<1>3. restarts' \in 0..MaxRestarts
  BY <1>1, UpdaterConstants DEF Restart
<1> QED  BY <1>2, <1>3, FreshStatusType DEF Restart, Moves

(* Submitting: the transaction the node takes has a nonce of its own.      *)
LEMMA SendKeepsInv ==
  ASSUME UInv, NEW r \in Replica, Send(r)
  PROVE  UInv'
<1> DEFINE tx == cycle[r].tx
<1>1. /\ cycle[r] \in Cycle /\ status[r] \in RuntimeStatus
      /\ Grounded(cycle[r]) /\ cycle[r].pc = "sending"
  BY DEF UInv, UTypeOK, CycleInv, Send, At
<1>2. tx \in Transaction /\ Justified(tx)
  BY <1>1 DEF Grounded
<1>3. UNCHANGED <<owner, pendingOwner, updater, sourceAirnode, feed, log, blockTime,
                  accountNonce, receipts, now, restarts>>
  BY DEF Send, contractVars
<1>4. Moves(r)
  <2>1. CASE EndFailed(r)
    BY <2>1, EndMoves
  <2>2. CASE /\ cycle' = [cycle EXCEPT ![r].pc = "confirming",
                                       ![r].attempts = RECEIPT_ATTEMPTS]
             /\ status' = [status EXCEPT ![r].lastTransaction = cycle[r].tx,
                                         ![r].phase = "confirming"]
    <3> DEFINE c == [cycle[r] EXCEPT !.pc = "confirming", !.attempts = RECEIPT_ATTEMPTS]
               s == [status[r] EXCEPT !.lastTransaction = tx, !.phase = "confirming"]
    <3>1. c \in Cycle
      <4>1. RECEIPT_ATTEMPTS \in 0..RECEIPT_ATTEMPTS
        BY UpdaterConstants
      <4> QED  BY <1>1, <4>1 DEF Cycle
    <3>2. s \in RuntimeStatus /\ s.phase # "waiting"
      BY <1>1, <1>2 DEF RuntimeStatus, Phase
    <3>3. /\ c.pc = "confirming" /\ c.tx = tx /\ c.recordedAt = cycle[r].recordedAt
          /\ c.sourceTimestamp = cycle[r].sourceTimestamp
      BY <1>1 DEF Cycle
    <3>4. cycle' = [cycle EXCEPT ![r] = c] /\ status' = [status EXCEPT ![r] = s]
      BY <1>1, <2>2 DEF UInv, UTypeOK, Cycle, RuntimeStatus
    <3> HIDE DEF c, s
    <3>5. Grounded(c)
      BY <1>1, <1>2, <3>3 DEF Grounded
    <3> QED  BY <3>1, <3>2, <3>4, <3>5 DEF Moves
  <2> QED  BY <2>1, <2>2 DEF Send
<1>5. /\ cycle' \in [Replica -> Cycle]
      /\ status' \in [Replica -> RuntimeStatus]
      /\ CycleInv'
  BY <1>3, <1>4, MovesKeepCycles DEF contractVars
<1> HIDE DEF tx
<1>6. \/ mempool' = mempool
      \/ mempool' = mempool \cup {tx} /\ NodeTakes(tx)
  BY DEF Send, tx
<1>7. /\ mempool' \subseteq Transaction
      /\ IsFiniteSet(mempool')
      /\ \A x \in mempool' : x.nonce >= accountNonce /\ Justified(x)
  BY <1>2, <1>6, FS_AddElement DEF UInv, UTypeOK, ChainInv, NodeTakes
<1>8. \A x, other \in mempool' : x.nonce = other.nonce => x = other
  BY <1>6 DEF UInv, UTypeOK, NodeTakes, PendingNonces
<1>9. TypeOK'
  BY <1>3 DEF UInv, UTypeOK, TypeOK
<1>10. UTypeOK'
  BY <1>3, <1>5, <1>7, <1>8, <1>9 DEF UInv, UTypeOK
<1>11. ChainInv'
  BY <1>3, <1>7 DEF UInv, ChainInv, RecordedInThePast, FeedStaysReadable, Justified, Recover
<1> QED  BY <1>5, <1>10, <1>11 DEF UInv

-----------------------------------------------------------------------------
(* Steps of the world                                                      *)

(* What justified a transaction, and what a cycle knows, stays true while  *)
(* time goes on and the contract records newer observations.               *)
LEMMA JustifiedStays ==
  ASSUME NEW tx \in Transaction, Justified(tx),
         now \in Nat, now' \in Nat, now' >= now
  PROVE  Justified(tx)'
<1>1. tx.basedOnRecordedAt \in Nat
  BY DEF Transaction
<1> QED  BY <1>1, UpdaterConstants DEF Justified, Recover

LEMMA CyclesStay ==
  ASSUME UInv, UNCHANGED <<cycle, status>>, now' \in Nat, now' >= now,
         feed'.recordedAt \in Nat, feed'.recordedAt >= feed.recordedAt,
         feed'.sourceTimestamp \in Nat, feed'.sourceTimestamp >= feed.sourceTimestamp
  PROVE  CycleInv'
<1>1. now \in Nat /\ feed.recordedAt \in Nat /\ feed.sourceTimestamp \in Nat
  BY DEF UInv, UTypeOK, TypeOK, Slots
<1>2. ASSUME NEW c \in Cycle, Grounded(c)
      PROVE  Grounded(c)'
  <2>1. c.recordedAt \in Nat /\ c.sourceTimestamp \in Nat
    BY DEF Cycle
  <2>2. c.recordedAt <= feed'.recordedAt /\ c.sourceTimestamp <= feed'.sourceTimestamp
    BY <1>1, <1>2, <2>1 DEF Grounded
  <2>3. c.pc \in {"certifying", "fetching", "fetched", "nonce", "signing"} =>
          c.recordedAt = 0 \/ now' >= c.recordedAt + Interval
    BY <1>1, <1>2, <2>1, UpdaterConstants DEF Grounded
  <2>4. c.pc \in {"sending", "confirming"} => c.tx \in Transaction /\ Justified(c.tx)'
    BY <1>1, <1>2, JustifiedStays DEF Grounded
  <2> QED  BY <1>2, <2>2, <2>3, <2>4 DEF Grounded, VerifyObservation, SignedBySource, Recover
<1> QED  BY <1>2 DEF UInv, UTypeOK, CycleInv

(* A mined transaction the contract accepts.                               *)
LEMMA MinedKeepsInv ==
  ASSUME UInv, NEW tx \in mempool, Mine(tx),
         NEW t \in now..(now + BlockSkew), t >= blockTime,
         UpdatePrice(UPDATER_ADDRESS, tx.payload, tx.signature, t),
         receipts' = [x \in DOMAIN receipts \cup {tx} |->
                        IF x = tx THEN "success" ELSE receipts[x]]
  PROVE  UInv'
<1>1. /\ tx \in Transaction /\ Justified(tx)
      /\ tx.payload \in Payload /\ tx.signature \in Signature
      /\ t \in Nat /\ now \in Nat
      /\ feed.recordedAt \in Nat /\ feed.sourceTimestamp \in Nat /\ blockTime \in Nat
  BY UpdaterConstants DEF UInv, UTypeOK, ChainInv, Transaction, TypeOK, Slots
<1>2. /\ tx.nonce = accountNonce /\ mempool' = mempool \ {tx}
      /\ accountNonce' = accountNonce + 1 /\ UNCHANGED <<now, cycle, status, restarts>>
  BY DEF Mine
<1>3. TypeOK'
  BY <1>1, UpdatePriceType DEF UInv, UTypeOK
<1>4. /\ feed'.recordedAt = t /\ blockTime' = t
      /\ feed'.sourceTimestamp = tx.payload.timestamp
      /\ feed'.latestPriceUsdE18 = tx.payload.value
      /\ tx.payload.timestamp > feed.sourceTimestamp
      /\ owner' = owner
  BY DEF UpdatePrice, RecordedFeed, UpdateAccepted, Newer
<1>5. /\ feed'.recordedAt >= feed.recordedAt
      /\ feed'.sourceTimestamp \in Nat /\ feed'.sourceTimestamp >= feed.sourceTimestamp
  BY <1>1, <1>4 DEF UInv, ChainInv, RecordedInThePast, Payload
<1>6. CycleInv'
  BY <1>1, <1>2, <1>4, <1>5, CyclesStay
<1>7. \A x \in mempool' : x.nonce >= accountNonce'
  BY <1>1, <1>2 DEF UInv, UTypeOK, Transaction
<1>8. UTypeOK'
  BY <1>1, <1>2, <1>3, <1>7 DEF UInv, UTypeOK
<1>9. \A x \in DOMAIN receipts' :
        receipts'[x] = "success" => feed'.sourceTimestamp >= x.payload.timestamp
  <2> SUFFICES ASSUME NEW x \in DOMAIN receipts', receipts'[x] = "success"
               PROVE  feed'.sourceTimestamp >= x.payload.timestamp
    OBVIOUS
  <2>1. x \in Transaction /\ x.payload.timestamp \in Nat /\ tx.payload.timestamp \in Nat
    BY <1>1 DEF UInv, UTypeOK, Transaction, Payload
  <2>2. CASE x = tx
    BY <1>4, <2>1, <2>2
  <2>3. CASE x # tx
    <3>1. feed.sourceTimestamp >= x.payload.timestamp
      BY <2>3 DEF UInv, ChainInv
    <3> QED  BY <1>1, <1>4, <2>1, <3>1
  <2> QED  BY <2>2, <2>3
<1>10. ChainInv'
  <2>1. IsFiniteSet(mempool')
    BY <1>2, FS_RemoveElement DEF UInv, ChainInv
  <2>2. RecordedInThePast'
    BY <1>1, <1>4 DEF RecordedInThePast
  <2>3. FeedStaysReadable'
    BY <1>1, <1>4 DEF FeedStaysReadable, Justified, DecodesToPositiveU128
  <2>4. \A x \in mempool' : Justified(x)'
    BY <1>1, <1>2, JustifiedStays DEF UInv, UTypeOK, ChainInv
  <2> QED  BY <1>4, <1>9, <2>1, <2>2, <2>3, <2>4 DEF UInv, ChainInv
<1> QED  BY <1>6, <1>8, <1>10 DEF UInv

(* A mined transaction the contract rejects.                               *)
LEMMA RevertedKeepsInv ==
  ASSUME UInv, NEW tx \in mempool, Mine(tx),
         NEW t \in now..(now + BlockSkew), t >= blockTime, blockTime' = t,
         receipts' = [x \in DOMAIN receipts \cup {tx} |->
                        IF x = tx THEN "reverted" ELSE receipts[x]],
         UNCHANGED contractVars
  PROVE  UInv'
<1>1. /\ tx \in Transaction /\ t \in Nat /\ now \in Nat
      /\ feed.recordedAt \in Nat /\ feed.sourceTimestamp \in Nat /\ blockTime \in Nat
  BY UpdaterConstants DEF UInv, UTypeOK, TypeOK, Slots
<1>2. /\ tx.nonce = accountNonce /\ mempool' = mempool \ {tx}
      /\ accountNonce' = accountNonce + 1 /\ UNCHANGED <<now, cycle, status, restarts>>
      /\ UNCHANGED <<owner, pendingOwner, updater, sourceAirnode, feed, log>>
  BY DEF Mine, contractVars
<1>3. TypeOK'
  BY <1>1, <1>2 DEF UInv, UTypeOK, TypeOK
<1>4. CycleInv'
  BY <1>1, <1>2, CyclesStay
<1>5. \A x \in mempool' : x.nonce >= accountNonce'
  BY <1>1, <1>2 DEF UInv, UTypeOK, Transaction
<1>6. UTypeOK'
  BY <1>1, <1>2, <1>3, <1>5 DEF UInv, UTypeOK
<1>7. ChainInv'
  <2>1. IsFiniteSet(mempool')
    BY <1>2, FS_RemoveElement DEF UInv, ChainInv
  <2>2. RecordedInThePast'
    BY <1>1, <1>2 DEF RecordedInThePast, UInv, ChainInv
  <2>3. \A x \in mempool' : Justified(x)'
    BY <1>1, <1>2, JustifiedStays DEF UInv, UTypeOK, ChainInv
  <2>4. FeedStaysReadable'
    BY <1>2 DEF FeedStaysReadable, UInv, ChainInv
  <2> QED  BY <1>2, <2>1, <2>2, <2>3, <2>4 DEF UInv, ChainInv
<1> QED  BY <1>4, <1>6, <1>7 DEF UInv

LEMMA MineKeepsInv ==
  ASSUME UInv, NEW tx \in mempool, Mine(tx)
  PROVE  UInv'
BY MinedKeepsInv, RevertedKeepsInv DEF Mine

LEMMA EvictKeepsInv ==
  ASSUME UInv, NEW tx \in mempool, Evict(tx)
  PROVE  UInv'
<1>1. /\ mempool' = mempool \ {tx}
      /\ UNCHANGED <<owner, pendingOwner, updater, sourceAirnode, feed, log, blockTime,
                     accountNonce, receipts, now, cycle, status, restarts>>
  BY DEF Evict, contractVars
<1>2. TypeOK'
  BY <1>1 DEF UInv, UTypeOK, TypeOK
<1>3. UTypeOK'
  BY <1>1, <1>2 DEF UInv, UTypeOK
<1>4. CycleInv'
  BY <1>1, CyclesStay DEF UInv, UTypeOK, TypeOK, Slots
<1>5. IsFiniteSet(mempool')
  BY <1>1, FS_RemoveElement DEF UInv, ChainInv
<1>6. ChainInv'
  BY <1>1, <1>5 DEF UInv, ChainInv, RecordedInThePast, FeedStaysReadable, Justified, Recover
<1> QED  BY <1>3, <1>4, <1>6 DEF UInv

LEMMA RotateKeepsInv ==
  ASSUME UInv, Rotate
  PROVE  UInv'
<1>1. /\ TypeOK'
      /\ UNCHANGED <<owner, feed, blockTime, mempool, accountNonce, receipts, now, cycle,
                     status, restarts>>
  <2>1. ASSUME NEW a \in Account, SetUpdater(owner, a)
        PROVE  TypeOK' /\ UNCHANGED <<owner, feed, blockTime>>
    BY <2>1, SetUpdaterType DEF UInv, UTypeOK, SetUpdater
  <2>2. ASSUME NEW a \in Airnode, SetSourceAirnode(owner, a)
        PROVE  TypeOK' /\ UNCHANGED <<owner, feed, blockTime>>
    BY <2>2, SetSourceAirnodeType DEF UInv, UTypeOK, SetSourceAirnode
  <2> QED  BY <2>1, <2>2 DEF Rotate
<1>2. UTypeOK'
  BY <1>1 DEF UInv, UTypeOK
<1>3. CycleInv'
  BY <1>1, CyclesStay DEF UInv, UTypeOK, TypeOK, Slots
<1>4. ChainInv'
  BY <1>1 DEF UInv, ChainInv, RecordedInThePast, FeedStaysReadable, Justified, Recover
<1> QED  BY <1>2, <1>3, <1>4 DEF UInv

LEMMA TickKeepsInv ==
  ASSUME UInv, Tick
  PROVE  UInv'
<1>1. /\ now \in Nat /\ now' = now + 1
      /\ UNCHANGED <<owner, pendingOwner, updater, sourceAirnode, feed, log, blockTime,
                     mempool, accountNonce, receipts, cycle, status, restarts>>
  BY DEF Tick, chainVars, contractVars, UInv, UTypeOK
<1>2. TypeOK'
  BY <1>1 DEF UInv, UTypeOK, TypeOK
<1>3. UTypeOK'
  BY <1>1, <1>2 DEF UInv, UTypeOK
<1>4. CycleInv'
  BY <1>1, CyclesStay DEF UInv, UTypeOK, TypeOK, Slots
<1>5. \A x \in mempool' : Justified(x)'
  BY <1>1, JustifiedStays DEF UInv, UTypeOK, ChainInv
<1>6. ChainInv'
  BY <1>1, <1>5 DEF UInv, ChainInv, RecordedInThePast, FeedStaysReadable
<1> QED  BY <1>3, <1>4, <1>6 DEF UInv

-----------------------------------------------------------------------------
(* The invariant                                                           *)

LEMMA StepKeepsInv ==
  ASSUME UInv, [UNext]_updaterVars
  PROVE  UInv'
<1>1. ASSUME NEW r \in Replica, Send(r)
      PROVE  UInv'
  BY <1>1, SendKeepsInv
<1>2. ASSUME NEW r \in Replica,
             \/ BeginCycle(r) \/ CheckDue(r) \/ FetchCertification(r) \/ FetchObservation(r)
             \/ CheckNewer(r) \/ GetNonce(r) \/ Sign(r) \/ PollReceipt(r) \/ FailCycle(r)
             \/ \E slot \in Unread : ReadSlot(r, slot)
      PROVE  UInv'
  <2>1. Moves(r)
    BY <1>2, BeginCycleMoves, ReadSlotMoves, CheckDueMoves, FetchCertificationMoves,
       FetchObservationMoves, CheckNewerMoves, GetNonceMoves, SignMoves, PollReceiptMoves, EndMoves
       DEF FailCycle
  <2>2. UNCHANGED <<chainVars, now, restarts>>
    BY <1>2 DEF BeginCycle, CheckDue, FetchCertification, FetchObservation, CheckNewer,
                GetNonce, Sign, PollReceipt, FailCycle, ReadSlot
  <2>3. restarts' \in 0..MaxRestarts
    BY <2>2 DEF UInv, UTypeOK
  <2> QED  BY <2>1, <2>2, <2>3, MovesKeepInv
<1>3. ASSUME NEW r \in Replica, Restart(r)
      PROVE  UInv'
  BY <1>3, RestartMoves, MovesKeepInv DEF Restart
<1>4. CASE Environment
  BY <1>4, MineKeepsInv, EvictKeepsInv, RotateKeepsInv, TickKeepsInv DEF Environment
<1>5. CASE UNCHANGED updaterVars
  <2>1. UNCHANGED <<owner, pendingOwner, updater, sourceAirnode, feed, log, blockTime, mempool,
                    accountNonce, receipts, now, cycle, status, restarts>>
    BY <1>5 DEF updaterVars, vars, contractVars
  <2>2. TypeOK'
    BY <2>1 DEF UInv, UTypeOK, TypeOK
  <2>3. UTypeOK'
    BY <2>1, <2>2 DEF UInv, UTypeOK
  <2>4. CycleInv'
    BY <2>1, CyclesStay DEF UInv, UTypeOK, TypeOK, Slots
  <2>5. ChainInv'
    BY <2>1 DEF UInv, ChainInv, RecordedInThePast, FeedStaysReadable, Justified, Recover
  <2> QED  BY <2>3, <2>4, <2>5 DEF UInv
<1> QED  BY <1>1, <1>2, <1>3, <1>4, <1>5 DEF UNext, Progress, TimedStep

(* Whatever fails, is lost, evicted or rotated: the state of every replica *)
(* and of the node keeps its shape, no nonce is used twice, and what a     *)
(* cycle relies on is true.                                                *)
THEOREM UpdaterInvariant == USpec => []UInv
<1>1. UInv /\ [UNext]_updaterVars => UInv'
  BY StepKeepsInv
<1> QED  BY <1>1, InitInv, PTL DEF USpec

(* The part of it that the run checks as the type invariant.               *)
THEOREM UpdaterTypeCorrect == USpec => []UTypeOK
BY UpdaterInvariant, PTL DEF UInv

(* No price gets on chain that the updater's own reader would refuse: an   *)
(* accepted transaction carries an observation the enclave has verified.   *)
THEOREM Readable == USpec => []FeedStaysReadable
<1>1. UInv => FeedStaysReadable
  BY DEF UInv, ChainInv
<1> QED  BY <1>1, UpdaterInvariant, PTL

-----------------------------------------------------------------------------
(* What a step may do                                                      *)

(* To the contract, a step of the composed system is one of its own.       *)
LEMMA StepIsDataStep ==
  ASSUME UInv, [UNext]_updaterVars
  PROVE  DataStep
<1>1. blockTime \in Nat /\ now \in Nat
  BY DEF UInv, UTypeOK, TypeOK
<1>2. ASSUME NEW tx \in mempool, Mine(tx)
      PROVE  DataStep
  <2>1. /\ tx.payload \in Payload /\ tx.signature \in Signature
        /\ UPDATER_ADDRESS \in Account
    BY UpdaterConstants DEF UInv, UTypeOK, Transaction
  <2>2. \A t \in now..(now + BlockSkew) : t \in Nat
    BY <1>1, UpdaterConstants
  <2> QED  BY <1>2, <2>1, <2>2 DEF Mine, DataStep, contractVars
<1>3. CASE Rotate
  <2>1. owner \in Account
    BY DEF UInv, ChainInv
  <2> QED  BY <1>3, <2>1 DEF Rotate, DataStep
<1>4. CASE UNCHANGED <<contractVars, blockTime>>
  BY <1>1, <1>4 DEF contractVars, DataStep
<1>5. ASSUME NEW r \in Replica, Progress(r) \/ FailCycle(r) \/ Restart(r)
      PROVE  UNCHANGED <<contractVars, blockTime>>
  BY <1>5 DEF Progress, TimedStep, BeginCycle, ReadSlot, CheckDue, FetchCertification,
     FetchObservation, CheckNewer, GetNonce, Sign, Send, PollReceipt, FailCycle, Restart, chainVars
<1>6. ASSUME NEW tx \in mempool, Evict(tx)
      PROVE  UNCHANGED <<contractVars, blockTime>>
  BY <1>6 DEF Evict
<1>7. CASE Tick \/ UNCHANGED updaterVars
  BY <1>4, <1>7 DEF Tick, chainVars, updaterVars, vars
<1> QED  BY <1>2, <1>3, <1>4, <1>5, <1>6, <1>7 DEF UNext, Environment

(* The feed and the receipts move only when a transaction is mined.        *)
LEMMA OnlyMining ==
  ASSUME [UNext]_updaterVars, feed' # feed \/ receipts' # receipts
  PROVE  \E tx \in mempool : Mine(tx)
<1>1. ASSUME NEW r \in Replica, Progress(r) \/ FailCycle(r) \/ Restart(r)
      PROVE  UNCHANGED <<feed, receipts>>
  BY <1>1 DEF Progress, TimedStep, BeginCycle, ReadSlot, CheckDue, FetchCertification,
     FetchObservation, CheckNewer, GetNonce, Sign, Send, PollReceipt, FailCycle, Restart, chainVars, contractVars
<1>2. ASSUME NEW tx \in mempool, Evict(tx)
      PROVE  UNCHANGED <<feed, receipts>>
  BY <1>2 DEF Evict, contractVars
<1>3. Rotate => UNCHANGED <<feed, receipts>>
  BY DEF Rotate, SetUpdater, SetSourceAirnode
<1>4. Tick \/ UNCHANGED updaterVars => UNCHANGED <<feed, receipts>>
  BY DEF Tick, chainVars, contractVars, updaterVars, vars
<1> QED  BY <1>1, <1>2, <1>3, <1>4 DEF UNext, Environment

(* Two updates are closer than the interval only if the cycle behind the   *)
(* later one had not seen the earlier one: a cycle that had, had waited.   *)
THEOREM EarlyIsUnseen == USpec => EarlyOnlyIfUnseen
<1>1. ASSUME UInv, [UNext]_updaterVars, feed' # feed, feed.recordedAt # 0
      PROVE  \E tx \in mempool \ mempool' :
               \/ feed'.recordedAt - feed.recordedAt >= Interval
               \/ tx.basedOnRecordedAt # feed.recordedAt
  <2>1. PICK tx \in mempool : Mine(tx)
    BY <1>1, OnlyMining
  <2>2. PICK t \in now..(now + BlockSkew) :
          UpdatePrice(UPDATER_ADDRESS, tx.payload, tx.signature, t)
    BY <1>1, <2>1 DEF Mine, contractVars
  <2>3. /\ tx \in mempool \ mempool' /\ Justified(tx) /\ tx.basedOnRecordedAt \in Nat
        /\ now \in Nat /\ t \in Nat /\ t >= now
    BY <1>1, <2>1, UpdaterConstants DEF Mine, UInv, UTypeOK, ChainInv, Transaction
  <2>4. feed'.recordedAt = t /\ feed.recordedAt \in Nat
    BY <1>1, <2>2 DEF UpdatePrice, RecordedFeed, UInv, UTypeOK, TypeOK, Slots
  <2>5. CASE tx.basedOnRecordedAt = feed.recordedAt
    <3>1. now >= feed.recordedAt + Interval
      BY <1>1, <2>3, <2>5 DEF Justified
    <3>2. feed'.recordedAt - feed.recordedAt >= Interval
      BY <2>3, <2>4, <3>1, UpdaterConstants
    <3> QED  BY <2>3, <3>2
  <2> QED  BY <2>3, <2>5
<1>2. UInv /\ [UNext]_updaterVars =>
        [feed' # feed /\ feed.recordedAt # 0 =>
           \E tx \in mempool \ mempool' :
             \/ feed'.recordedAt - feed.recordedAt >= Interval
             \/ tx.basedOnRecordedAt # feed.recordedAt]_updaterVars
  BY <1>1
<1> QED  BY <1>2, UpdaterInvariant, PTL DEF USpec, EarlyOnlyIfUnseen

(* A transaction of the updater reverts only for a reason its cycle could  *)
(* not know: all that it could know, it had checked.                       *)
THEOREM RevertsHaveReasons == USpec => RevertsExplained
<1>1. ASSUME UInv, [UNext]_updaterVars,
             NEW x \in DOMAIN receipts' \ DOMAIN receipts, receipts'[x] = "reverted"
      PROVE  \/ updater # UPDATER_ADDRESS
             \/ sourceAirnode # SOURCE_AIRNODE
             \/ feed.sourceTimestamp # x.basedOnTimestamp
             \/ ~TimestampValid(x.payload.timestamp, blockTime')
  <2>1. PICK tx \in mempool : Mine(tx)
    BY <1>1, OnlyMining
  <2>2. /\ x = tx
        /\ ~UpdateAccepted(UPDATER_ADDRESS, tx.payload, tx.signature, blockTime')
    BY <1>1, <2>1 DEF Mine
  <2>3. Justified(tx)
    BY <1>1 DEF UInv, ChainInv
  <2>4. /\ tx.payload.template = templateId
        /\ Recover(tx.payload, tx.signature) = SOURCE_AIRNODE
        /\ tx.payload.value # BadLength /\ tx.payload.value > 0
        /\ tx.payload.timestamp > tx.basedOnTimestamp
    BY <2>3 DEF Justified, DecodesToPositiveU128
  <2> QED  BY <2>2, <2>4 DEF UpdateAccepted, Newer, SignatureValid
<1>2. UInv /\ [UNext]_updaterVars =>
        [\A tx \in DOMAIN receipts' \ DOMAIN receipts :
           receipts'[tx] = "reverted" =>
             \/ updater # UPDATER_ADDRESS
             \/ sourceAirnode # SOURCE_AIRNODE
             \/ feed.sourceTimestamp # tx.basedOnTimestamp
             \/ ~TimestampValid(tx.payload.timestamp, blockTime')]_updaterVars
  BY <1>1
<1> QED  BY <1>2, UpdaterInvariant, PTL DEF USpec, RevertsExplained

(* A cycle that ends well leaves a feed recorded within the interval, or   *)
(* one at least as new as the observation it was offered or submitted.     *)
THEOREM SuccessIsReal == USpec => SuccessIsOnChain
<1>1. ASSUME UInv, [UNext]_updaterVars, NEW r \in Replica,
             ~At(r, Asleep), status'[r].phase = "waiting"
      PROVE  \/ At(r, "reading") /\ RecentlyRecorded(feed.recordedAt, now)
             \/ /\ At(r, "fetched")
                /\ feed.sourceTimestamp >= cycle[r].observation.payload.timestamp
             \/ /\ At(r, "confirming")
                /\ feed.sourceTimestamp >= cycle[r].tx.payload.timestamp
  <2>1. /\ cycle[r] \in Cycle /\ status \in [Replica -> RuntimeStatus]
        /\ status[r] \in RuntimeStatus
        /\ status[r].phase # "waiting" /\ Grounded(cycle[r])
    BY <1>1 DEF UInv, UTypeOK, CycleInv, At
  <2>2. ~EndFailed(r)
    BY <1>1, <2>1 DEF EndFailed, RuntimeStatus
  <2>3. ASSUME NEW q \in Replica, q # r, Progress(q) \/ FailCycle(q) \/ Restart(q)
        PROVE  status'[r] = status[r]
    BY <2>1, <2>3 DEF Progress, TimedStep, BeginCycle, ReadSlot, CheckDue, FetchCertification,
       FetchObservation, CheckNewer, GetNonce, Sign, Send, PollReceipt, FailCycle, Restart,
       EndSubmitted, EndNotDue, EndFailed
  <2>4. Environment \/ UNCHANGED updaterVars => status' = status
    BY DEF Environment, Mine, Evict, Rotate, Tick, updaterVars
  <2>5. Restart(r) => status'[r].phase = "starting"
    BY <2>1 DEF Restart, FreshStatus
  <2>6. Progress(r)
    BY <1>1, <2>1, <2>2, <2>3, <2>4, <2>5 DEF UNext, FailCycle
  <2>7. CASE CheckDue(r)
    <3>1. RecentlyRecorded(cycle[r].recordedAt, now)
      BY <2>1, <2>2, <2>7, <1>1 DEF CheckDue
    <3>2. /\ cycle[r].recordedAt \in Nat /\ feed.recordedAt \in Nat /\ now \in Nat
          /\ cycle[r].recordedAt <= feed.recordedAt
      BY <1>1, <2>1 DEF Grounded, Cycle, UInv, UTypeOK, TypeOK, Slots
    <3>3. RecentlyRecorded(feed.recordedAt, now)
      BY <3>1, <3>2, UpdaterConstants DEF RecentlyRecorded, SaturatingSub
    <3> QED  BY <2>7, <3>3 DEF CheckDue
  <2>8. CASE CheckNewer(r)
    <3>1. ~NewerThanRead(cycle[r].observation.payload.timestamp, cycle[r].sourceTimestamp)
      BY <1>1, <2>1, <2>8 DEF CheckNewer
    <3>2. /\ cycle[r].observation \in Observation
          /\ cycle[r].sourceTimestamp \in Nat /\ feed.sourceTimestamp \in Nat
          /\ cycle[r].sourceTimestamp <= feed.sourceTimestamp
      BY <1>1, <2>1, <2>8 DEF CheckNewer, At, Grounded, Cycle, UInv, UTypeOK, TypeOK, Slots
    <3>3. feed.sourceTimestamp >= cycle[r].observation.payload.timestamp
      BY <3>1, <3>2 DEF NewerThanRead, Observation, Payload
    <3> QED  BY <2>8, <3>3 DEF CheckNewer
  <2>9. CASE PollReceipt(r)
    <3>1. cycle[r].tx \in DOMAIN receipts /\ receipts[cycle[r].tx] = "success"
      BY <1>1, <2>1, <2>2, <2>9 DEF PollReceipt
    <3> QED  BY <1>1, <2>9, <3>1 DEF PollReceipt, UInv, ChainInv
  <2>10. BeginCycle(r) => FALSE
    BY <1>1 DEF BeginCycle
  <2>11. ASSUME \/ FetchCertification(r) \/ FetchObservation(r) \/ GetNonce(r)
                \/ Sign(r) \/ \E slot \in Unread : ReadSlot(r, slot)
         PROVE  FALSE
    BY <1>1, <2>1, <2>2, <2>11 DEF FetchCertification, FetchObservation, GetNonce, Sign, ReadSlot
  <2>12. Send(r) => status'[r].phase # "waiting"
    BY <2>1, <2>2 DEF Send, RuntimeStatus
  <2> QED  BY <1>1, <2>6, <2>7, <2>8, <2>9, <2>10, <2>11, <2>12
         DEF Progress, TimedStep
<1>2. UInv /\ [UNext]_updaterVars =>
        [\A r \in Replica :
           ~At(r, Asleep) /\ status'[r].phase = "waiting" =>
             \/ At(r, "reading") /\ RecentlyRecorded(feed.recordedAt, now)
             \/ /\ At(r, "fetched")
                /\ feed.sourceTimestamp >= cycle[r].observation.payload.timestamp
             \/ /\ At(r, "confirming")
                /\ feed.sourceTimestamp >= cycle[r].tx.payload.timestamp]_updaterVars
  BY <1>1
<1> QED  BY <1>2, UpdaterInvariant, PTL DEF USpec, SuccessIsOnChain

(* The contract driven by updaters whose transactions are delayed, dropped *)
(* and overtaken still implements the abstract feed.                       *)
THEOREM UpdaterImplementsFeed == USpec => PublishedFeed
<1>1. UInit => Feed!Init
  BY DEF UInit, Init, NoFeed, Feed!Init, Feed!NothingPublished
<1>2. UInv /\ [UNext]_updaterVars =>
        [Feed!Next]_([price           |-> feed.latestPriceUsdE18,
                      sourceTimestamp |-> feed.sourceTimestamp,
                      recordedAt      |-> feed.recordedAt])
  BY StepIsDataStep, FeedStep DEF UInv, UTypeOK, ChainInv
<1> QED  BY <1>1, <1>2, UpdaterInvariant, PTL DEF USpec, PublishedFeed, Feed!Spec
=============================================================================
