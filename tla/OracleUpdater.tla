---------------------------- MODULE OracleUpdater ----------------------------
(***************************************************************************)
(* The scheduled updater of the tvc-oracle enclave                         *)
(* (crates/tvc-oracle-demo/src/oracle_updater.rs) running against the      *)
(* contract, with every suspension point between.                          *)
(*                                                                         *)
(* Each replica runs run_forever: a cycle reads the contract, fetches a    *)
(* signed observation, asks for a nonce, has Turnkey sign, submits, polls  *)
(* for the receipt, then sleeps.  Each awaited call is an action of its    *)
(* own, so anything may happen between two of them: time passes, blocks    *)
(* are mined, another replica runs, the administrator rotates a key, the   *)
(* process is restarted.  Every call may also fail (FailCycle), and        *)
(* eth_sendRawTransaction may fail after the node took the transaction.    *)
(*                                                                         *)
(* Time is counted in retry delays (15 minutes).  Turnkey, the RPC node    *)
(* and the observation source are outside src/ and are modelled by what    *)
(* the updater can see of them.                                            *)
(***************************************************************************)
EXTENDS SignedObservation, FiniteSets

CONSTANTS
  Replica,           \* enclave processes running run_forever
  UPDATER_ADDRESS,   \* compiled into the enclave
  Interval,          \* --oracle-update-interval-seconds
  RecheckCap,        \* the hour that caps the delay after a NotDue cycle
  FAILURE_RETRY,     \* FAILURE_RETRY_SECONDS
  RECEIPT_ATTEMPTS,
  SourceSkew,        \* how far ahead of the clock the source may stamp
  BlockSkew,         \* how far ahead of the clock a block may be stamped
  MaxRestarts,       \* bound: process restarts over a whole run
  None               \* Option::None

ASSUME UpdaterConstants ==
  /\ UPDATER_ADDRESS \in Account
  /\ Interval \in Nat \ {0}
  /\ RecheckCap \in Nat \ {0}
  /\ FAILURE_RETRY \in Nat \ {0}
  /\ RECEIPT_ATTEMPTS \in Nat \ {0}
  /\ SourceSkew \in Nat
  /\ BlockSkew \in Nat
  /\ MaxRestarts \in Nat

VARIABLES
  now,               \* the wall clock
  mempool,           \* transactions the node holds
  accountNonce,      \* transactions of UPDATER_ADDRESS mined so far
  receipts,          \* what happened to each mined transaction
  cycle,             \* cycle[r]: the locals of replica r's run_forever
  status,            \* status[r]: its OracleRuntimeStatus
  restarts           \* restarts so far

chainVars == <<contractVars, blockTime, mempool, accountNonce, receipts>>
updaterVars == <<vars, now, mempool, accountNonce, receipts, cycle, status, restarts>>

(* A transaction is its nonce and the arguments in its calldata; the last  *)
(* two fields record the contract reading that justified it.               *)
Transaction ==
  [nonce : Nat, payload : Payload, signature : Signature, basedOnRecordedAt : Nat,
   basedOnTimestamp : Nat]

Phase == {"starting", "updating", "confirming", "waiting", "retrying"}
Asleep == "asleep"
Unread == {"latestPriceUsdE18", "sourceTimestamp", "recordedAt"}

Observation == [airnode : Airnode, payload : Payload, signature : Signature]

(* The locals of run_forever and run_once, and where they are suspended.   *)
Cycle ==
  [pc : {Asleep, "reading", "certifying", "fetching", "fetched", "nonce", "signing",
         "sending", "confirming"},
   wake : Nat, unread : SUBSET Unread,
   latestPriceUsdE18 : Nat, sourceTimestamp : Nat, recordedAt : Nat,
   observation : Observation \cup {None},
   nonce : Nat, tx : Transaction \cup {None}, attempts : 0..RECEIPT_ATTEMPTS]

RuntimeStatus ==
  [lastTransaction : Transaction \cup {None}, lastError : BOOLEAN, phase : Phase]

Min2(a, b) == IF a <= b THEN a ELSE b
SaturatingSub(a, b) == IF a >= b THEN a - b ELSE 0

(* OracleRuntimeStatus without its clock readings, which nothing reads     *)
(* back; an error is kept as the fact that there is one.                   *)
FreshStatus == [lastTransaction |-> None, lastError |-> FALSE, phase |-> "starting"]

(* A process that has just spawned run_forever and sleeps before its first *)
(* cycle.                                                                  *)
FreshCycle(t) == [pc |-> Asleep, wake |-> t, unread |-> {},
                  latestPriceUsdE18 |-> 0, sourceTimestamp |-> 0, recordedAt |-> 0,
                  observation |-> None,
                  nonce |-> 0, tx |-> None, attempts |-> 0]

UInit ==
  /\ Init
  /\ owner = CHOOSE a \in Account : TRUE
  /\ updater = UPDATER_ADDRESS
  /\ sourceAirnode = SOURCE_AIRNODE
  /\ now = 1
  /\ mempool = {}
  /\ accountNonce = 0
  /\ receipts = [tx \in {} |-> "success"]
  /\ cycle = [r \in Replica |-> FreshCycle(1)]
  /\ status = [r \in Replica |-> FreshStatus]
  /\ restarts = 0

-----------------------------------------------------------------------------
(* The three ends of a cycle                                               *)

Sleep(r, delay) ==
  cycle' = [cycle EXCEPT ![r] = FreshCycle(now + delay)]

EndSubmitted(r) ==
  /\ status' = [status EXCEPT ![r].lastTransaction = cycle[r].tx,
                              ![r].lastError = FALSE,
                              ![r].phase = "waiting"]
  /\ Sleep(r, Interval)

EndNotDue(r) ==
  /\ status' = [status EXCEPT ![r].lastError = FALSE,
                              ![r].phase = "waiting"]
  /\ Sleep(r, Min2(Interval, RecheckCap))

EndFailed(r) ==
  /\ status' = [status EXCEPT ![r].lastError = TRUE, ![r].phase = "retrying"]
  /\ Sleep(r, FAILURE_RETRY)

Goto(r, pc) == cycle' = [cycle EXCEPT ![r].pc = pc]
At(r, pc) == cycle[r].pc = pc

-----------------------------------------------------------------------------
(* run_forever and run_once, one awaited call at a time                    *)

BeginCycle(r) ==
  /\ At(r, Asleep)
  /\ now >= cycle[r].wake
  /\ status' = [status EXCEPT ![r].phase = "updating"]
  /\ cycle' = [cycle EXCEPT ![r].pc = "reading", ![r].unread = Unread]
  /\ UNCHANGED <<chainVars, now, restarts>>

(* fetch_contract_status joins five separate eth_calls, each at "latest":  *)
(* the three that matter here may see different blocks, in any order.      *)
ReadSlot(r, slot) ==
  /\ At(r, "reading")
  /\ slot \in cycle[r].unread
  /\ cycle' = [cycle EXCEPT ![r].unread = @ \ {slot}, ![r][slot] = feed[slot]]
  /\ UNCHANGED <<chainVars, now, status, restarts>>

(* Wrong variant: the interval counts one unit short.                      *)
RecordedTooRecently(recordedAt, t) ==
  recordedAt # 0 /\ SaturatingSub(t, recordedAt) < Interval - 1

(* The contract was updated less than an interval ago.                     *)
RecentlyRecorded(recordedAt, t) ==
  recordedAt # 0 /\ SaturatingSub(t, recordedAt) < Interval

(* word_to_u128 refuses a greater price, and the cycle with it.            *)
CheckDue(r) ==
  /\ At(r, "reading")
  /\ cycle[r].unread = {}
  /\ IF cycle[r].latestPriceUsdE18 >= U128 THEN EndFailed(r)
     ELSE IF RecentlyRecorded(cycle[r].recordedAt, now) THEN EndNotDue(r)
     ELSE Goto(r, "certifying") /\ UNCHANGED status
  /\ UNCHANGED <<chainVars, now, restarts>>

(* The airnodes the source certifies today.                                *)
FetchCertification(r) ==
  /\ At(r, "certifying")
  /\ \E certified \in SUBSET Airnode :
       IF SOURCE_AIRNODE \in certified
       THEN Goto(r, "fetching") /\ UNCHANGED status
       ELSE EndFailed(r)
  /\ UNCHANGED <<chainVars, now, restarts>>

(* fetch_verified_observation.  An observation's age is not looked at:     *)
(* only the contract checks that.                                          *)
FetchObservation(r) ==
  /\ At(r, "fetching")
  /\ \E offered \in SignedApiObservations(now + SourceSkew) :
       IF VerifyObservation(offered)
       THEN /\ cycle' = [cycle EXCEPT ![r].pc = "fetched", ![r].observation = offered]
            /\ UNCHANGED status
       ELSE EndFailed(r)
  /\ UNCHANGED <<chainVars, now, restarts>>

(* Wrong variants: the observation already on chain is submitted again;    *)
(* one that is newer by a single unit is taken for the one on chain.       *)
NotOlder(timestamp, onChain) == timestamp >= onChain
MuchNewer(timestamp, onChain) == timestamp > onChain + 1

(* run_once goes on only with an observation newer than the one it read.   *)
NewerThanRead(timestamp, onChain) == timestamp > onChain

CheckNewer(r) ==
  /\ At(r, "fetched")
  /\ IF NewerThanRead(cycle[r].observation.payload.timestamp, cycle[r].sourceTimestamp)
     THEN Goto(r, "nonce") /\ UNCHANGED status
     ELSE EndNotDue(r)
  /\ UNCHANGED <<chainVars, now, restarts>>

(* eth_getTransactionCount(UPDATER_ADDRESS, "pending"): the mined count    *)
(* plus the pending transactions that follow it without a gap.             *)
PendingNonces == {tx.nonce : tx \in mempool}
IsPendingCount(n) ==
  /\ n >= accountNonce
  /\ n \notin PendingNonces
  /\ \A k \in accountNonce..(n - 1) : k \in PendingNonces

GetNonce(r) ==
  /\ At(r, "nonce")
  /\ \E n \in accountNonce..(accountNonce + Cardinality(mempool)) :
       /\ IsPendingCount(n)
       /\ cycle' = [cycle EXCEPT ![r].pc = "signing", ![r].nonce = n]
  /\ UNCHANGED <<chainVars, now, status, restarts>>

(* The type-2 transaction built from the locals of a cycle: destination,   *)
(* fees, gas and value are the same in all of them.                        *)
UnsignedTransaction(c) ==
  [nonce             |-> c.nonce,
   payload           |-> c.observation.payload,
   signature         |-> c.observation.signature,
   basedOnRecordedAt |-> c.recordedAt,
   basedOnTimestamp  |-> c.sourceTimestamp]

(* Turnkey signs it.                                                       *)
Sign(r) ==
  /\ At(r, "signing")
  /\ cycle' = [cycle EXCEPT ![r].pc = "sending", ![r].tx = UnsignedTransaction(cycle[r])]
  /\ UNCHANGED <<chainVars, now, status, restarts>>

(* The node refuses a nonce that is mined or already pending: every        *)
(* transaction offers the same fees, so none can replace another.          *)
NodeTakes(tx) == tx.nonce >= accountNonce /\ tx.nonce \notin PendingNonces

Send(r) ==
  /\ At(r, "sending")
  /\ \/ /\ NodeTakes(cycle[r].tx)
        /\ mempool' = mempool \cup {cycle[r].tx}
        /\ \/ /\ cycle' = [cycle EXCEPT ![r].pc = "confirming",
                                        ![r].attempts = RECEIPT_ATTEMPTS]
              /\ status' = [status EXCEPT ![r].lastTransaction = cycle[r].tx,
                                          ![r].phase = "confirming"]
           \/ EndFailed(r)     \* accepted, but the answer never arrives
     \/ /\ ~NodeTakes(cycle[r].tx)
        /\ EndFailed(r)
        /\ UNCHANGED mempool
  /\ UNCHANGED <<contractVars, blockTime, accountNonce, receipts, now, restarts>>

(* Wrong variants of a poll: the receipt's status is ignored, the attempts  *)
(* run below zero, the attempts are never used up.                          *)
PollAnyReceipt(r) ==
  /\ At(r, "confirming")
  /\ IF cycle[r].tx \in DOMAIN receipts
     THEN EndSubmitted(r)
     ELSE IF cycle[r].attempts > 1
          THEN /\ cycle' = [cycle EXCEPT ![r].attempts = @ - 1]
               /\ UNCHANGED status
          ELSE EndFailed(r)
  /\ UNCHANGED <<chainVars, now, restarts>>

PollBelowZero(r) ==
  /\ At(r, "confirming")
  /\ cycle[r].attempts >= 0
  /\ cycle' = [cycle EXCEPT ![r].attempts = @ - 1]
  /\ UNCHANGED <<chainVars, now, status, restarts>>

PollForever(r) ==
  /\ At(r, "confirming")
  /\ IF cycle[r].tx \in DOMAIN receipts
     THEN IF receipts[cycle[r].tx] = "success" THEN EndSubmitted(r) ELSE EndFailed(r)
     ELSE UNCHANGED <<cycle, status>>
  /\ UNCHANGED <<chainVars, now, restarts>>

(* One turn of wait_for_receipt.                                           *)
PollReceipt(r) ==
  /\ At(r, "confirming")
  /\ IF cycle[r].tx \in DOMAIN receipts
     THEN IF receipts[cycle[r].tx] = "success" THEN EndSubmitted(r) ELSE EndFailed(r)
     ELSE IF cycle[r].attempts > 1
          THEN /\ cycle' = [cycle EXCEPT ![r].attempts = @ - 1]
               /\ UNCHANGED status
          ELSE EndFailed(r)
  /\ UNCHANGED <<chainVars, now, restarts>>

(* Any awaited call of the cycle may fail: an HTTP or JSON-RPC error, an   *)
(* observation that does not verify, a denied or unanswered signature, a   *)
(* refused transaction.                                                    *)
FailCycle(r) ==
  /\ cycle[r].pc \in {"reading", "certifying", "fetching", "nonce", "signing", "sending", "confirming"}
  /\ EndFailed(r)
  /\ UNCHANGED <<chainVars, now, restarts>>

(* The process stops and is started again: memory is lost, the chain and   *)
(* its pending transactions are not.                                       *)
Restart(r) ==
  /\ restarts < MaxRestarts
  /\ restarts' = restarts + 1
  /\ cycle' = [cycle EXCEPT ![r] = FreshCycle(now)]
  /\ status' = [status EXCEPT ![r] = FreshStatus]
  /\ UNCHANGED <<chainVars, now>>

-----------------------------------------------------------------------------
(* The chain and the world around the enclave                              *)

(* A block with the account's next transaction, which succeeds exactly     *)
(* when the contract accepts it.                                           *)
Mine(tx) ==
  /\ tx \in mempool
  /\ tx.nonce = accountNonce
  /\ mempool' = mempool \ {tx}
  /\ accountNonce' = accountNonce + 1
  /\ \E t \in now..(now + BlockSkew) :
       /\ t >= blockTime
       /\ \/ /\ UpdatePrice(UPDATER_ADDRESS, tx.payload, tx.signature, t)
             /\ receipts' = [x \in DOMAIN receipts \cup {tx} |->
                               IF x = tx THEN "success" ELSE receipts[x]]
          \/ /\ ~UpdateAccepted(UPDATER_ADDRESS, tx.payload, tx.signature, t)
             /\ blockTime' = t
             /\ receipts' = [x \in DOMAIN receipts \cup {tx} |->
                               IF x = tx THEN "reverted" ELSE receipts[x]]
             /\ UNCHANGED contractVars
  /\ UNCHANGED <<now, cycle, status, restarts>>

(* The node evicts a pending transaction.                                  *)
Evict(tx) ==
  /\ tx \in mempool
  /\ mempool' = mempool \ {tx}
  /\ UNCHANGED <<contractVars, blockTime, accountNonce, receipts, now, cycle, status, restarts>>

(* The administrator rotates a key the enclave has compiled in.            *)
Rotate ==
  /\ Len(log) < MaxEvents
  /\ \/ \E a \in Account : a # updater /\ SetUpdater(owner, a)
     \/ \E a \in Airnode : a # sourceAirnode /\ SetSourceAirnode(owner, a)
  /\ UNCHANGED <<mempool, accountNonce, receipts, now, cycle, status, restarts>>

Tick ==
  /\ now < MaxTime
  /\ now' = now + 1
  /\ UNCHANGED <<chainVars, cycle, status, restarts>>

-----------------------------------------------------------------------------

(* The steps that a timer, the enclave's own HTTP client or nothing at all *)
(* stands behind.                                                          *)
TimedStep(r) ==
  \/ BeginCycle(r)
  \/ \E slot \in Unread : ReadSlot(r, slot)
  \/ CheckDue(r)
  \/ FetchCertification(r)
  \/ FetchObservation(r)
  \/ CheckNewer(r)
  \/ GetNonce(r)
  \/ Send(r)
  \/ PollReceipt(r)

Progress(r) == TimedStep(r) \/ Sign(r)

Environment ==
  \/ \E tx \in mempool : Mine(tx) \/ Evict(tx)
  \/ Rotate
  \/ Tick

UNext ==
  \/ \E r \in Replica : Progress(r) \/ FailCycle(r) \/ Restart(r)
  \/ Environment

(* The runtime keeps polling the task, and a call to the RPC node or to    *)
(* the observation source ends after the 4 s of AppState.http_client at    *)
(* the latest, in FailCycle if not with an answer.  Turnkey's client has   *)
(* no such timeout: nothing is promised about Sign, nor about the chain.   *)
Fairness == \A r \in Replica : WF_updaterVars(TimedStep(r))

USpec == UInit /\ [][UNext]_updaterVars /\ Fairness

-----------------------------------------------------------------------------
(* Properties                                                              *)

(* The shape of the composed state; in particular the node never holds two *)
(* transactions with one nonce, nor one whose nonce is already used.       *)
UTypeOK ==
  /\ TypeOK
  /\ now \in Nat
  /\ mempool \subseteq Transaction
  /\ accountNonce \in Nat
  /\ DOMAIN receipts \subseteq Transaction
  /\ \A tx \in DOMAIN receipts : receipts[tx] \in {"success", "reverted"}
  /\ cycle \in [Replica -> Cycle]
  /\ status \in [Replica -> RuntimeStatus]
  /\ \A tx \in mempool : tx.nonce >= accountNonce
  /\ \A tx, other \in mempool : tx.nonce = other.nonce => tx = other
  /\ restarts \in 0..MaxRestarts

(* An update lands closer than the interval to the previous one only if    *)
(* its cycle decided without having seen that previous one: late mining of *)
(* a transaction already given up on, a torn read, another replica.        *)
EarlyOnlyIfUnseen ==
  [][feed' # feed /\ feed.recordedAt # 0 =>
       \E tx \in mempool \ mempool' :
         \/ feed'.recordedAt - feed.recordedAt >= Interval
         \/ tx.basedOnRecordedAt # feed.recordedAt]_updaterVars

(* Gas is spent in vain only for a reason the cycle could not know: a key  *)
(* was rotated, another update overtook this one, or the observation fell  *)
(* outside the contract's time window.                                     *)
RevertsExplained ==
  [][\A tx \in DOMAIN receipts' \ DOMAIN receipts :
       receipts'[tx] = "reverted" =>
         \/ updater # UPDATER_ADDRESS
         \/ sourceAirnode # SOURCE_AIRNODE
         \/ feed.sourceTimestamp # tx.basedOnTimestamp
         \/ ~TimestampValid(tx.payload.timestamp, blockTime')]_updaterVars

(* As long as the enclave is the updater, the feed never holds a price     *)
(* that a reader of 128 bits must refuse: such a reader is the updater     *)
(* itself, which could then never replace it.                              *)
FeedStaysReadable == feed.latestPriceUsdE18 < U128

(* A cycle that reports success leaves the reader a recent feed: either    *)
(* the contract really was updated within the interval, or the observation *)
(* the cycle was offered (or a newer one) is on chain, whether this cycle's *)
(* transaction carried it there or it was there before.                    *)
SuccessIsOnChain ==
  [][\A r \in Replica :
       ~At(r, Asleep) /\ status'[r].phase = "waiting" =>
         \/ At(r, "reading") /\ RecentlyRecorded(feed.recordedAt, now)
         \/ /\ At(r, "fetched")
            /\ feed.sourceTimestamp >= cycle[r].observation.payload.timestamp
         \/ /\ At(r, "confirming")
            /\ feed.sourceTimestamp >= cycle[r].tx.payload.timestamp]_updaterVars

(* No cycle gets stuck, whatever the chain does with its transaction: the  *)
(* task sleeps again and again, unless it waits for Turnkey's signature    *)
(* for ever.                                                               *)
CycleEnds ==
  \A r \in Replica : []<>At(r, Asleep) \/ <>[]At(r, "signing")
=============================================================================
