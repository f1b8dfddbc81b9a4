--------------------------- MODULE WebhookVerifier ---------------------------
(***************************************************************************)
(* Discovery and caching of the keys Turnkey signs webhooks with           *)
(* (crates/policy-sidecar/src/webhook/verification.rs).                    *)
(*                                                                         *)
(* All requests share one cache behind a read-write lock that is not held  *)
(* while the JWKS document is fetched, so several requests may fetch at    *)
(* once and store what they got in any order.  The document is what the    *)
(* endpoint published at some moment of the request: it can be older than  *)
(* the one another request has already stored.                             *)
(*                                                                         *)
(* A key stands for its id and its bytes: an id is never reused.  A lookup *)
(* comes before anything is authenticated, so anybody can cause one, of an *)
(* id that nobody has published too: NoKey.                                *)
(***************************************************************************)
EXTENDS Integers

CONSTANTS
  Handler,           \* requests being served
  Key,               \* webhook signing keys
  NoKey,             \* an id of none of them
  MaxAge,            \* the lifetimes the endpoint may announce in max-age,
                     \* DEFAULT_JWKS_CACHE_LIFETIME for an answer without one
  LONGEST_AGE,       \* a bound on them
  REQUEST_TIMEOUT,   \* EGRESS_REQUEST_TIMEOUT
  MaxClock           \* bound: how long the clock runs

ASSUME VerifierConstants ==
  /\ NoKey \notin Key
  /\ LONGEST_AGE \in Nat
  /\ MaxAge \subseteq 0..LONGEST_AGE
  /\ REQUEST_TIMEOUT \in Nat
  /\ MaxClock \in Nat

VARIABLES
  clock,
  published,         \* the keys in the JWKS document now
  lastPublished,     \* when each key was last in it (history)
  cache,             \* CachedVerificationKeys
  lookup             \* lookup[h]: h's call of verification_key

verifierVars == <<clock, published, lastPublished, cache, lookup>>

NotLooking == [pc |-> "idle", key |-> NoKey, since |-> 0, keys |-> {}, maxAge |-> 0]

(* A verifier that has just been built against an endpoint with some keys. *)
VInit ==
  /\ clock = 1
  /\ published \in SUBSET Key
  /\ lastPublished = [k \in Key |-> IF k \in published THEN 1 ELSE 0]
  /\ cache = [keys |-> {}, expiresAt |-> 1]
  /\ lookup = [h \in Handler |-> NotLooking]

LookupAt(h, pc) == lookup[h].pc = pc

(* Wrong variant: an expired cache keeps answering.                        *)
CachedForever(k) == k \in cache.keys

(* The read of verification_key under its first lock.                      *)
Cached(k) == clock < cache.expiresAt /\ k \in cache.keys

(* verification_key called with the key id of a delivery.                  *)
LookUp(h, k) ==
  /\ LookupAt(h, "idle")
  /\ lookup' = [lookup EXCEPT ![h] =
       IF Cached(k)
       THEN [NotLooking EXCEPT !.pc = "found", !.key = k]
       ELSE [NotLooking EXCEPT !.pc = "fetching", !.key = k, !.since = clock]]
  /\ UNCHANGED <<clock, published, lastPublished, cache>>

(* The endpoint answers refresh_keys' GET with today's document.           *)
JwksAnswer(h) ==
  /\ LookupAt(h, "fetching")
  /\ \E maxAge \in MaxAge :
       lookup' = [lookup EXCEPT ![h].pc = "answered",
                                ![h].keys = published,
                                ![h].maxAge = maxAge]
  /\ UNCHANGED <<clock, published, lastPublished, cache>>

(* Wrong variant: a failed fetch is taken for the lack of the key.          *)
DiscoveryFindsNothing(h) ==
  /\ lookup[h].pc \in {"fetching", "answered"}
  /\ lookup' = [lookup EXCEPT ![h] = [NotLooking EXCEPT !.pc = "unknown"]]
  /\ UNCHANGED <<clock, published, lastPublished, cache>>

(* No answer within the timeout, an HTTP error, a body that is no JWKS, or *)
(* one key in it that parse_jwks refuses: the cache is left as it is.      *)
DiscoveryFails(h) ==
  /\ lookup[h].pc \in {"fetching", "answered"}
  /\ lookup' = [lookup EXCEPT ![h] = [NotLooking EXCEPT !.pc = "failed"]]
  /\ UNCHANGED <<clock, published, lastPublished, cache>>

(* Wrong variant: max-age is taken for a larger unit.                      *)
StoreForTooLong(h) ==
  /\ LookupAt(h, "answered")
  /\ cache' = [keys |-> lookup[h].keys, expiresAt |-> clock + 10 * lookup[h].maxAge]
  /\ lookup' = [lookup EXCEPT ![h].pc = "stored"]
  /\ UNCHANGED <<clock, published, lastPublished>>

(* refresh_keys replaces the whole cache by the answer it has received.    *)
StoreKeys(h) ==
  /\ LookupAt(h, "answered")
  /\ cache' = [keys |-> lookup[h].keys, expiresAt |-> clock + lookup[h].maxAge]
  /\ lookup' = [lookup EXCEPT ![h].pc = "stored"]
  /\ UNCHANGED <<clock, published, lastPublished>>

(* Wrong variant: a key the document lacks is asked for again.             *)
ReadBackOrRetry(h) ==
  /\ LookupAt(h, "stored")
  /\ lookup' = [lookup EXCEPT ![h].pc = IF lookup[h].key \in cache.keys
                                        THEN "found" ELSE "fetching"]
  /\ UNCHANGED <<clock, published, lastPublished, cache>>

(* The second read, under a lock of its own and whatever the expiry; what  *)
(* the request has been answered itself is kept as history.                *)
ReadBack(h) ==
  /\ LookupAt(h, "stored")
  /\ lookup' = [lookup EXCEPT
       ![h].pc     = IF lookup[h].key \in cache.keys THEN "found" ELSE "unknown",
       ![h].since  = 0,
       ![h].maxAge = 0]
  /\ UNCHANGED <<clock, published, lastPublished, cache>>

-----------------------------------------------------------------------------
(* Turnkey publishes a new key, or withdraws one for good.                 *)
Rotate ==
  /\ \/ \E k \in published : published' = published \ {k}
     \/ \E k \in Key \ published : /\ lastPublished[k] = 0
                                   /\ published' = published \cup {k}
  /\ lastPublished' = [k \in Key |-> IF k \in published \cup published'
                                     THEN clock ELSE lastPublished[k]]
  /\ UNCHANGED <<clock, cache, lookup>>

(* Time passes.  A request that has waited REQUEST_TIMEOUT fails first,    *)
(* and between its store and its second read nothing is awaited but a lock *)
(* nobody holds for long.                                                  *)
Waiting(h) == lookup[h].pc \in {"fetching", "answered"}
Tick ==
  /\ clock < MaxClock
  /\ \A h \in Handler : /\ Waiting(h) => clock - lookup[h].since < REQUEST_TIMEOUT
                        /\ ~LookupAt(h, "stored")
  /\ clock' = clock + 1
  /\ lastPublished' = [k \in Key |-> IF k \in published THEN clock' ELSE lastPublished[k]]
  /\ UNCHANGED <<published, cache, lookup>>

Verify(h) ==
  \/ JwksAnswer(h)
  \/ DiscoveryFails(h)
  \/ StoreKeys(h)
  \/ ReadBack(h)

(* The request is done with its key and the handler serves another.        *)
Done(h) ==
  /\ lookup[h].pc \in {"found", "unknown", "failed"}
  /\ lookup' = [lookup EXCEPT ![h] = NotLooking]
  /\ UNCHANGED <<clock, published, lastPublished, cache>>

VNext ==
  \/ \E h \in Handler : Verify(h) \/ Done(h) \/ \E k \in Key \cup {NoKey} : LookUp(h, k)
  \/ Rotate
  \/ Tick

VFairness == \A h \in Handler : WF_verifierVars(Verify(h))

VSpec == VInit /\ [][VNext]_verifierVars /\ VFairness

-----------------------------------------------------------------------------
(* Properties                                                              *)

(* The shape of the state; the cache never outlives the announced age, nor *)
(* a request its timeout.                                                  *)
VTypeOK ==
  /\ clock \in Nat
  /\ published \subseteq Key
  /\ lastPublished \in [Key -> Nat]
  /\ cache \in [keys : SUBSET Key, expiresAt : 0..(clock + LONGEST_AGE)]
  /\ \A h \in Handler : Waiting(h) => clock - lookup[h].since <= REQUEST_TIMEOUT
  /\ lookup \in [Handler ->
       [pc : {"idle", "fetching", "answered", "stored", "found", "unknown", "failed"},
        key : Key \cup {NoKey}, since : Nat, keys : SUBSET Key, maxAge : 0..LONGEST_AGE]]

(* A withdrawn key stops being trusted: at the moment a request is given a *)
(* key, the endpoint has published it within the longest cache lifetime    *)
(* plus one request timeout, although an answer may be slow, may overwrite *)
(* a newer one, and is read back without a look at its expiry.             *)
TrustIsRecent ==
  [][\A h \in Handler :
       ~LookupAt(h, "found") /\ lookup'[h].pc = "found" =>
         clock - lastPublished[lookup'[h].key] <= LONGEST_AGE + REQUEST_TIMEOUT]_verifierVars

(* Every request learns its key or that there is none.                     *)
LookupEnds ==
  \A h \in Handler : LookupAt(h, "fetching") ~> lookup[h].pc \in {"found", "unknown", "failed"}
=============================================================================
