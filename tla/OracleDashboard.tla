--------------------------- MODULE OracleDashboard ---------------------------
(***************************************************************************)
(* The public status endpoint (src/dashboard.rs) reading the contract      *)
(* through fetch_contract_status: five eth_calls sent together, each       *)
(* answered from whatever block is the latest when it is served.           *)
(***************************************************************************)
EXTENDS SignedEthUsdOracle

CONSTANTS
  U128,              \* 2^128: word_to_u128 refuses prices from here on
  None

ASSUME DashboardConstants ==
  /\ U128 \in Nat
  /\ None \notin {"not asked", "bad gateway"}

VARIABLES
  unread,            \* calls of the request that have not been served
  answers,           \* what they have been answered
  before,            \* the slots when the request began (history)
  response           \* None while a request is in progress

dashboardVars == <<vars, unread, answers, before, response>>

Slot == {"latestPriceUsdE18", "sourceTimestamp", "recordedAt", "latestPayloadHash",
         "latestSignatureHash"}
OfSlots(f) == [s \in Slot |-> f[s]]

DInit ==
  /\ Init
  /\ unread = {}
  /\ answers = OfSlots(NoFeed)
  /\ before = OfSlots(NoFeed)
  /\ response = "not asked"

Request ==
  /\ response # None
  /\ unread' = Slot
  /\ before' = OfSlots(feed)
  /\ response' = None
  /\ UNCHANGED <<vars, answers>>

(* Wrong variant: a call may be served from the previous request's word.   *)
EthCallFromCache(slot) ==
  /\ slot \in unread
  /\ unread' = unread \ {slot}
  /\ \E word \in {feed[slot], answers[slot]} : answers' = [answers EXCEPT ![slot] = word]
  /\ UNCHANGED <<vars, before, response>>

(* eth_call_word at "latest"                                               *)
EthCall(slot) ==
  /\ slot \in unread
  /\ unread' = unread \ {slot}
  /\ answers' = [answers EXCEPT ![slot] = feed[slot]]
  /\ UNCHANGED <<vars, before, response>>

(* word_to_u128                                                            *)
FitsU128(word) == word < U128

(* One call that fails, or a price beyond u128, fails the whole request.   *)
BadGateway ==
  /\ response = None
  /\ unread # {} \/ ~FitsU128(answers["latestPriceUsdE18"])
  /\ unread' = {}
  /\ response' = "bad gateway"
  /\ UNCHANGED <<vars, answers, before>>

Answer ==
  /\ response = None
  /\ unread = {}
  /\ FitsU128(answers["latestPriceUsdE18"])
  /\ response' = answers
  /\ UNCHANGED <<vars, unread, answers, before>>

DNext ==
  \/ Next /\ UNCHANGED <<unread, answers, before, response>>
  \/ Request
  \/ \E slot \in Slot : EthCall(slot)
  \/ BadGateway
  \/ Answer

DSpec == DInit /\ [][DNext]_dashboardVars

-----------------------------------------------------------------------------
(* Properties                                                              *)

(* A status response never goes back in time: neither timestamp in it is   *)
(* older than the contract's when the request began, nor ahead of it now.  *)
(* And five unsynchronized reads still give one update, all of it, when    *)
(* none has landed between the request and its answer.                     *)
NeverBehind ==
  [][Answer =>
       /\ \A slot \in {"sourceTimestamp", "recordedAt"} :
            before[slot] <= response'[slot] /\ response'[slot] <= feed[slot]
       /\ before = OfSlots(feed) => response' = before]_dashboardVars
=============================================================================
