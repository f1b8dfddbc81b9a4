----------------------- MODULE WebhookVerifier_proofs -----------------------
(***************************************************************************)
(* Why a withdrawn key stops being trusted, for any number of requests,    *)
(* any keys, lifetimes and timeouts.                                       *)
(***************************************************************************)
EXTENDS WebhookVerifier, TLAPS

(* The history is that of the document: what is in it was last in it now.  *)
HistoryFits ==
  \A k \in Key : /\ lastPublished[k] <= clock
                 /\ k \in published => lastPublished[k] = clock

(* A request has not waited beyond the timeout, and every key it has been  *)
(* answered with was in the document since it began to wait; what it is    *)
(* given is a key.                                                         *)
AnswersFit ==
  \A h \in Handler :
    /\ LookupAt(h, "found") => lookup[h].key \in Key
    /\ Waiting(h) => lookup[h].since <= clock
    /\ LookupAt(h, "answered") =>
         \A k \in lookup[h].keys : lastPublished[k] >= lookup[h].since

(* By the time a cached key expires, it was in the document at most one    *)
(* timeout and one lifetime ago; while some request is about to read back, *)
(* no time has passed since the last store.                                *)
CacheFits ==
  /\ \A k \in cache.keys : lastPublished[k] + LONGEST_AGE + REQUEST_TIMEOUT >= cache.expiresAt
  /\ (\E h \in Handler : LookupAt(h, "stored")) =>
       \A k \in cache.keys : lastPublished[k] + REQUEST_TIMEOUT >= clock

VInv == VTypeOK /\ HistoryFits /\ AnswersFit /\ CacheFits

LEMMA VInitOK == VInit => VInv
  <1> SUFFICES ASSUME VInit PROVE VInv
    OBVIOUS
  <1> USE VerifierConstants DEF VInit, NotLooking, LookupAt, Waiting
  <1>1. VTypeOK
    BY DEF VTypeOK
  <1>2. HistoryFits /\ AnswersFit /\ CacheFits
    BY DEF HistoryFits, AnswersFit, CacheFits
  <1> QED
    BY <1>1, <1>2 DEF VInv

LookupState ==
  [pc : {"idle", "fetching", "answered", "stored", "found", "unknown", "failed"},
   key : Key \cup {NoKey}, since : Nat, keys : SUBSET Key, maxAge : 0..LONGEST_AGE]

(* The ways in which the actions write a lookup.                           *)
LEMMA FreshLookup ==
  ASSUME NEW pc \in {"fetching", "found", "unknown", "failed"},
         NEW k \in Key \cup {NoKey}, NEW t \in Nat
  PROVE  /\ NotLooking \in LookupState
         /\ [NotLooking EXCEPT !.pc = pc] \in LookupState
         /\ [NotLooking EXCEPT !.pc = pc, !.key = k] \in LookupState
         /\ [NotLooking EXCEPT !.pc = pc, !.key = k, !.since = t] \in LookupState
  <1>1. NotLooking \in LookupState
    BY VerifierConstants DEF NotLooking, LookupState
  <1>2. \A l \in LookupState :
          /\ [l EXCEPT !.pc = pc] \in LookupState
          /\ [l EXCEPT !.pc = pc, !.key = k] \in LookupState
          /\ [l EXCEPT !.pc = pc, !.key = k, !.since = t] \in LookupState
    BY DEF LookupState
  <1> QED
    BY <1>1, <1>2

LEMMA AnsweredLookup ==
  ASSUME NEW l \in LookupState, NEW ks \in SUBSET Key, NEW maxAge \in 0..LONGEST_AGE
  PROVE  [l EXCEPT !.pc = "answered", !.keys = ks, !.maxAge = maxAge] \in LookupState
  BY DEF LookupState

LEMMA ReadLookup ==
  ASSUME NEW l \in LookupState, NEW pc \in {"found", "unknown"}
  PROVE  /\ [l EXCEPT !.pc = pc, !.since = 0, !.maxAge = 0] \in LookupState
         /\ [l EXCEPT !.pc = pc, !.since = 0, !.maxAge = 0].pc = pc
         /\ [l EXCEPT !.pc = pc, !.since = 0, !.maxAge = 0].key = l.key
         /\ [l EXCEPT !.pc = pc, !.since = 0, !.maxAge = 0].keys = l.keys
  <1>1. 0 \in 0..LONGEST_AGE
    BY VerifierConstants
  <1> QED
    BY <1>1 DEF LookupState

LEMMA LookupOf == ASSUME VTypeOK, NEW h \in Handler PROVE lookup[h] \in LookupState
  BY DEF VTypeOK, LookupState

(* A step of one lookup that leaves clock, document and cache alone.       *)
LEMMA OneLookup ==
  ASSUME VTypeOK, NEW h \in Handler, NEW l \in LookupState,
         l.pc \in {"fetching", "answered"} => clock - l.since <= REQUEST_TIMEOUT,
         lookup' = [lookup EXCEPT ![h] = l],
         UNCHANGED <<clock, published, lastPublished, cache>>
  PROVE  VTypeOK'
  BY DEF VTypeOK, LookupState, Waiting

LEMMA LookUpOK ==
  ASSUME VInv, NEW h \in Handler, NEW k \in Key \cup {NoKey}, LookUp(h, k) PROVE VInv'
  <1> USE VerifierConstants DEF LookUp, VInv, NotLooking, LookupAt, Waiting
  <1>1. VTypeOK'
    <2> DEFINE hit  == [NotLooking EXCEPT !.pc = "found", !.key = k]
               miss == [NotLooking EXCEPT !.pc = "fetching", !.key = k, !.since = clock]
    <2>1. hit \in LookupState /\ miss \in LookupState
      <3>1. clock \in Nat
        BY DEF VTypeOK
      <3> QED
        BY <3>1, FreshLookup
    <2>2. hit.pc = "found" /\ clock - miss.since <= REQUEST_TIMEOUT
      BY DEF VTypeOK
    <2>3. CASE Cached(k)
      <3>1. lookup' = [lookup EXCEPT ![h] = hit]
        BY <2>3
      <3> HIDE DEF hit
      <3> QED
        BY <2>1, <2>2, <3>1, OneLookup
    <2>4. CASE ~Cached(k)
      <3>1. lookup' = [lookup EXCEPT ![h] = miss]
        BY <2>4
      <3> HIDE DEF miss
      <3> QED
        BY <2>1, <2>2, <3>1, OneLookup
    <2> QED
      BY <2>3, <2>4
  <1>2. HistoryFits'
    BY DEF HistoryFits
  <1>3. AnswersFit'
    BY DEF AnswersFit, Cached, VTypeOK
  <1>4. CacheFits'
    BY DEF CacheFits, VTypeOK
  <1> QED
    BY <1>1, <1>2, <1>3, <1>4

LEMMA JwksAnswerOK == ASSUME VInv, NEW h \in Handler, JwksAnswer(h) PROVE VInv'
  <1> USE VerifierConstants DEF JwksAnswer, VInv, LookupAt, Waiting
  <1>1. VTypeOK'
    <2>1. PICK maxAge \in MaxAge :
            lookup' = [lookup EXCEPT ![h].pc = "answered",
                                     ![h].keys = published,
                                     ![h].maxAge = maxAge]
      OBVIOUS
    <2> DEFINE l == [lookup[h] EXCEPT !.pc = "answered", !.keys = published, !.maxAge = maxAge]
    <2>2. lookup' = [lookup EXCEPT ![h] = l]
      BY <2>1
    <2>3. l \in LookupState
      <3>1. published \in SUBSET Key /\ maxAge \in 0..LONGEST_AGE
        BY DEF VTypeOK
      <3> QED
        BY <3>1, LookupOf, AnsweredLookup
    <2>4. clock - l.since <= REQUEST_TIMEOUT
      BY DEF VTypeOK
    <2> HIDE DEF l
    <2> QED
      BY <2>2, <2>3, <2>4, OneLookup
  <1>2. HistoryFits'
    BY DEF HistoryFits
  <1>3. AnswersFit'
    BY DEF AnswersFit, HistoryFits, VTypeOK
  <1>4. CacheFits'
    BY DEF CacheFits, VTypeOK
  <1> QED
    BY <1>1, <1>2, <1>3, <1>4

(* DiscoveryFails, ReadBack and Done end a lookup.                         *)
LEMMA EndOK ==
  ASSUME VInv, NEW h \in Handler, DiscoveryFails(h) \/ ReadBack(h) \/ Done(h) PROVE VInv'
  <1> USE VerifierConstants DEF DiscoveryFails, ReadBack, Done, VInv, NotLooking, LookupAt, Waiting
  <1>0. PICK l \in LookupState : /\ lookup' = [lookup EXCEPT ![h] = l]
                                 /\ l.pc \in {"idle", "found", "unknown", "failed"}
                                 /\ l.pc = "found" => l.key \in Key
    <2>1. CASE DiscoveryFails(h) \/ Done(h)
      <3>1. /\ NotLooking \in LookupState
            /\ [NotLooking EXCEPT !.pc = "failed"] \in LookupState
        BY FreshLookup
      <3> QED
        BY <2>1, <3>1
    <2>2. CASE ReadBack(h)
      <3> DEFINE pc == IF lookup[h].key \in cache.keys THEN "found" ELSE "unknown"
                 read == [lookup[h] EXCEPT !.pc = pc, !.since = 0, !.maxAge = 0]
      <3>1. lookup' = [lookup EXCEPT ![h] = read]
        BY <2>2
      <3>2. lookup[h] \in LookupState /\ pc \in {"found", "unknown"}
        BY LookupOf
      <3>3. pc = "found" => lookup[h].key \in Key
        BY DEF VTypeOK
      <3> HIDE DEF pc
      <3>4. read \in LookupState /\ read.pc = pc /\ read.key = lookup[h].key
        BY <3>2, ReadLookup
      <3>5. pc \in {"idle", "found", "unknown", "failed"}
        BY <3>2
      <3> HIDE DEF read
      <3> QED
        BY <3>1, <3>3, <3>4, <3>5
    <2> QED
      BY <2>1, <2>2
  <1>5. UNCHANGED <<clock, published, lastPublished, cache>>
    OBVIOUS
  <1> HIDE DEF DiscoveryFails, ReadBack, Done
  <1>1. VTypeOK'
    BY <1>0, <1>5, OneLookup
  <1>2. HistoryFits'
    BY <1>5 DEF HistoryFits
  <1>3. AnswersFit'
    <2>1. \A g \in Handler : lookup'[g] = IF g = h THEN l ELSE lookup[g]
      BY <1>0 DEF VTypeOK
    <2> QED
      BY <1>0, <1>5, <2>1 DEF AnswersFit, VTypeOK
  <1>4. CacheFits'
    <2>1. ~LookupAt(h, "stored")'
      BY <1>0 DEF VTypeOK
    <2> QED
      BY <1>0, <1>5, <2>1 DEF CacheFits, VTypeOK
  <1> QED
    BY <1>1, <1>2, <1>3, <1>4

(* What is stored is as recent as the request, and the request as the      *)
(* timeout demands.                                                        *)
LEMMA StoreKeysOK == ASSUME VInv, NEW h \in Handler, StoreKeys(h) PROVE VInv'
  <1> USE VerifierConstants DEF StoreKeys, VInv, LookupAt, Waiting
  <1>1. VTypeOK'
    BY DEF VTypeOK
  <1>2. HistoryFits'
    BY DEF HistoryFits
  <1>3. AnswersFit'
    BY DEF AnswersFit, VTypeOK
  <1>4. CacheFits'
    <2>1. /\ lookup[h].since \in Nat
          /\ lookup[h].maxAge \in 0..LONGEST_AGE
          /\ lookup[h].keys \subseteq Key
          /\ clock - lookup[h].since <= REQUEST_TIMEOUT
      BY DEF VTypeOK
    <2>2. \A k \in lookup[h].keys : lastPublished[k] >= lookup[h].since /\ lastPublished[k] \in Nat
      BY <2>1 DEF AnswersFit, VTypeOK
    <2>3. cache'.keys = lookup[h].keys /\ cache'.expiresAt = clock + lookup[h].maxAge
      OBVIOUS
    <2>4. \A k \in lookup[h].keys : lastPublished[k] + REQUEST_TIMEOUT >= clock
      BY <2>1, <2>2 DEF VTypeOK
    <2>5. \A k \in lookup[h].keys :
            lastPublished[k] + LONGEST_AGE + REQUEST_TIMEOUT >= clock + lookup[h].maxAge
      BY <2>1, <2>2, <2>4 DEF VTypeOK
    <2> QED
      BY <2>3, <2>4, <2>5 DEF CacheFits
  <1> QED
    BY <1>1, <1>2, <1>3, <1>4

(* Publishing only moves the history forward.                              *)
LEMMA HistoryGrows ==
  ASSUME VInv, Rotate \/ Tick
  PROVE  /\ lastPublished' \in [Key -> Nat]
         /\ \A k \in Key : lastPublished'[k] >= lastPublished[k]
  BY DEF VInv, VTypeOK, HistoryFits, Rotate, Tick

LEMMA RotateOK == ASSUME VInv, Rotate PROVE VInv'
  <1> USE VerifierConstants DEF VInv, LookupAt, Waiting
  <1>0. /\ UNCHANGED <<clock, cache, lookup>>
        /\ published' \subseteq Key
        /\ lastPublished' = [k \in Key |-> IF k \in published \cup published'
                                           THEN clock ELSE lastPublished[k]]
    BY DEF Rotate, VTypeOK
  <1>1. VTypeOK'
    BY <1>0, HistoryGrows DEF VTypeOK
  <1>2. HistoryFits'
    BY <1>0 DEF HistoryFits, VTypeOK
  <1>3. AnswersFit'
    <2>0. \A h \in Handler : /\ lookup[h].pc = "found" => lookup[h].key \in Key
                             /\ Waiting(h) => lookup[h].since <= clock
      BY DEF AnswersFit
    <2> SUFFICES ASSUME NEW h \in Handler, lookup[h].pc = "answered", NEW k \in lookup[h].keys
                 PROVE  lastPublished'[k] >= lookup[h].since
      BY <1>0, <2>0 DEF AnswersFit
    <2>1. k \in Key /\ lookup[h].since \in Nat /\ lastPublished[k] \in Nat
      BY DEF VTypeOK
    <2>2. lastPublished[k] >= lookup[h].since
      BY DEF AnswersFit
    <2> QED
      BY <2>1, <2>2, HistoryGrows
  <1>4. CacheFits'
    <2>1. \A k \in cache.keys : k \in Key /\ lastPublished[k] \in Nat /\ lastPublished'[k] \in Nat
                                /\ lastPublished'[k] >= lastPublished[k]
      BY HistoryGrows DEF VTypeOK
    <2>2. cache.expiresAt \in Int /\ clock \in Nat
      BY DEF VTypeOK
    <2> QED
      BY <1>0, <2>1, <2>2 DEF CacheFits
  <1> QED
    BY <1>1, <1>2, <1>3, <1>4

(* The clock stands still while a request is between store and read.       *)
LEMMA TickOK == ASSUME VInv, Tick PROVE VInv'
  <1> USE VerifierConstants DEF VInv, LookupAt, Waiting
  <1>0. /\ UNCHANGED <<published, cache, lookup>>
        /\ clock' = clock + 1
        /\ clock \in Nat
        /\ \A h \in Handler : lookup[h].pc # "stored"
        /\ lastPublished' = [k \in Key |-> IF k \in published THEN clock' ELSE lastPublished[k]]
    BY DEF Tick, VTypeOK
  <1>1. VTypeOK'
    <2>1. cache.expiresAt \in 0..(clock' + LONGEST_AGE)
      BY <1>0 DEF VTypeOK
    <2>2. \A h \in Handler : Waiting(h) => clock' - lookup[h].since <= REQUEST_TIMEOUT
      BY <1>0 DEF Tick, VTypeOK
    <2> QED
      BY <1>0, <2>1, <2>2, HistoryGrows DEF VTypeOK
  <1>2. HistoryFits'
    BY <1>0 DEF HistoryFits, VTypeOK
  <1>3. AnswersFit'
    <2> SUFFICES ASSUME NEW h \in Handler
                 PROVE  /\ lookup[h].pc = "found" => lookup[h].key \in Key
                        /\ Waiting(h) => lookup[h].since <= clock'
                        /\ lookup[h].pc = "answered" =>
                             \A k \in lookup[h].keys : lastPublished'[k] >= lookup[h].since
      BY <1>0 DEF AnswersFit
    <2>1. lookup[h].since \in Nat /\ lookup[h].keys \subseteq Key
      BY DEF VTypeOK
    <2>2. Waiting(h) => lookup[h].since <= clock'
      BY <1>0, <2>1 DEF AnswersFit
    <2>3. ASSUME lookup[h].pc = "answered", NEW k \in lookup[h].keys
          PROVE  lastPublished'[k] >= lookup[h].since
      <3>1. lastPublished[k] >= lookup[h].since /\ k \in Key /\ lastPublished[k] \in Nat
        BY <2>1, <2>3 DEF AnswersFit, VTypeOK
      <3> QED
        BY <2>1, <3>1, HistoryGrows
    <2>4. lookup[h].pc = "found" => lookup[h].key \in Key
      BY DEF AnswersFit
    <2> QED
      BY <2>2, <2>3, <2>4
  <1>4. CacheFits'
    <2>1. \A k \in cache.keys : k \in Key /\ lastPublished[k] \in Nat /\ lastPublished'[k] \in Nat
                                /\ lastPublished'[k] >= lastPublished[k]
      BY HistoryGrows DEF VTypeOK
    <2>2. cache.expiresAt \in Int
      BY DEF VTypeOK
    <2> QED
      BY <1>0, <2>1, <2>2 DEF CacheFits
  <1> QED
    BY <1>1, <1>2, <1>3, <1>4

LEMMA VStepOK == ASSUME VInv, [VNext]_verifierVars PROVE VInv'
  <1>1. CASE UNCHANGED verifierVars
    BY <1>1 DEF verifierVars, VInv, VTypeOK, HistoryFits, AnswersFit, CacheFits, LookupAt, Waiting
  <1>2. CASE VNext
    BY <1>2, LookUpOK, JwksAnswerOK, EndOK, StoreKeysOK, RotateOK, TickOK DEF VNext, Verify
  <1> QED
    BY <1>1, <1>2

(* The invariant of the key cache.                                         *)
THEOREM VerifierInvariant == VSpec => []VInv
  BY VInitOK, VStepOK, PTL DEF VSpec

(* The shape of the state: the cache outlives no announced age and no      *)
(* request its timeout (verification.rs).                                  *)
THEOREM VerifierTypeCorrect == VSpec => []VTypeOK
  <1>1. VInv => VTypeOK
    BY DEF VInv
  <1> QED
    BY <1>1, VerifierInvariant, PTL

(* A request is given a key by the cached read or by the read back.        *)
LEMMA FoundIsRecent ==
  ASSUME VInv, [VNext]_verifierVars, NEW h \in Handler,
         ~LookupAt(h, "found"), lookup'[h].pc = "found"
  PROVE  clock - lastPublished[lookup'[h].key] <= LONGEST_AGE + REQUEST_TIMEOUT
  <1> USE VerifierConstants DEF VInv
  <1>1. CASE \E k \in Key \cup {NoKey} : LookUp(h, k)
    <2>1. PICK k \in Key \cup {NoKey} : LookUp(h, k)
      BY <1>1
    <2>2. Cached(k) /\ lookup'[h].key = k
      BY <2>1 DEF LookUp, LookupAt, NotLooking, VTypeOK
    <2>5. k \in Key
      BY <2>2 DEF Cached, VTypeOK
    <2>3. lastPublished[k] + LONGEST_AGE + REQUEST_TIMEOUT >= cache.expiresAt
      BY <2>2 DEF CacheFits, Cached
    <2>4. clock < cache.expiresAt /\ cache.expiresAt \in Int /\ clock \in Nat /\ lastPublished[k] \in Nat
      BY <2>2 DEF Cached, VTypeOK
    <2> QED
      BY <2>2, <2>3, <2>4
  <1>2. CASE ReadBack(h)
    <2>1. /\ lookup[h].key \in cache.keys
          /\ lookup'[h].key = lookup[h].key
          /\ LookupAt(h, "stored")
      BY <1>2 DEF ReadBack, LookupAt, VTypeOK
    <2>2. lastPublished[lookup[h].key] + REQUEST_TIMEOUT >= clock
      BY <2>1 DEF CacheFits
    <2>3. clock \in Nat /\ lastPublished[lookup[h].key] \in Nat
      BY <2>1 DEF VTypeOK
    <2> QED
      BY <2>1, <2>2, <2>3
  <1>3. ASSUME ~(\E k \in Key \cup {NoKey} : LookUp(h, k)), ~ReadBack(h) PROVE FALSE
    <2>1. CASE UNCHANGED lookup
      BY <2>1 DEF LookupAt
    <2>2. ASSUME NEW g \in Handler, Verify(g) \/ Done(g) \/ \E k \in Key \cup {NoKey} : LookUp(g, k)
          PROVE  FALSE
      <3>1. CASE g = h
        BY <1>3, <2>2, <3>1
           DEF Verify, Done, JwksAnswer, DiscoveryFails, StoreKeys, LookupAt, NotLooking, VTypeOK
      <3>2. CASE g # h
        BY <2>2, <3>2
           DEF Verify, Done, LookUp, JwksAnswer, DiscoveryFails, StoreKeys, ReadBack,
               LookupAt, VTypeOK
      <3> QED
        BY <3>1, <3>2
    <2> QED
      BY <2>1, <2>2 DEF VNext, Rotate, Tick, verifierVars
  <1> QED
    BY <1>1, <1>2, <1>3

(* A key that a request is given was published within the longest cache    *)
(* lifetime plus one timeout (verification_key and refresh_keys).          *)
THEOREM TrustEnds == VSpec => TrustIsRecent
  <1>1. VInv /\ [VNext]_verifierVars =>
          [\A h \in Handler :
             ~LookupAt(h, "found") /\ lookup'[h].pc = "found" =>
               clock - lastPublished[lookup'[h].key] <= LONGEST_AGE + REQUEST_TIMEOUT]_verifierVars
    BY FoundIsRecent
  <1> QED
    BY <1>1, VerifierInvariant, PTL DEF VSpec, TrustIsRecent
=============================================================================
