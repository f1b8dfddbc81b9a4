---------------------------- MODULE RequestMetrics ----------------------------
(***************************************************************************)
(* The routers of the two enclave servers and the tower layer that counts  *)
(* their answers: crates/metrics/src/layer.rs, of which tvc-oracle and     *)
(* tvc-policy-sidecar have a copy each, and the routes they wrap.          *)
(*                                                                         *)
(* The labels of a request are fixed when the layer's call() is entered;   *)
(* its sample is recorded when the response future completes.  A client    *)
(* that goes away drops the future, and the request leaves no trace.       *)
(* Durations and their buckets are left out: a series is its labels and    *)
(* how many samples it holds.                                              *)
(***************************************************************************)
EXTENDS Naturals, Sequences, FiniteSets

CONSTANTS
  Client,            \* requests that may be under way at once
  Method,            \* methods clients use
  OtherPath,         \* paths that are no route's
  MaxAnswers,        \* bound: answers of one process
  Idle

ASSUME MetricsConstants == MaxAnswers \in Nat \ {0}

VARIABLES
  binary,            \* which of the two programs this is
  inflight,          \* the ResponseFuture of each client's request
  series,            \* the histogram: samples by labels
  answered           \* (history) the labels of each answer of this process, but
                     \* those of /metrics

metricsVars == <<inflight, series, answered>>

Binary == {"oracle", "sidecar"}

-----------------------------------------------------------------------------
(* The handlers, by the status codes they answer with                      *)

Health == {200}
Dashboard == {200}
SignedEthUsdObservation == {200, 500, 502}
OracleStatus == {200, 502}
RandomAppProof == {200, 500}
HelloWorld == {200}
Time == {200, 500}
TurnkeyApiPublicKey == {200}

(* Beyond the body limit the handler is never entered (413).               *)
TurnkeyActivityWebhook == {204, 400, 401, 413, 503}

Route(method, path, answers) ==
  [methods |-> IF method = "GET" THEN {"GET", "HEAD"} ELSE {method},
   path |-> path, answers |-> answers]

OracleRoutes ==
  { Route("GET", "/", Dashboard),
    Route("GET", "/health", Health),
    Route("GET", "/oracle/observation", SignedEthUsdObservation),
    Route("GET", "/oracle/status", OracleStatus),
    Route("GET", "/app-proof", RandomAppProof) }

SidecarRoutes ==
  { Route("GET", "/health", Health),
    Route("GET", "/hello_world", HelloWorld),
    Route("GET", "/time", Time),
    Route("GET", "/turnkey/api_public_key", TurnkeyApiPublicKey),
    Route("POST", "/webhooks/turnkey/activity", TurnkeyActivityWebhook) }

Routes(b) == IF b = "oracle" THEN OracleRoutes ELSE SidecarRoutes

RoutePaths(b) == {r.path : r \in Routes(b)}
Unmatched == "<unmatched>"

(* main() adds /metrics outside the layer.                                 *)
Layered(path) == path # "/metrics"

(* The statuses a request may be answered with: by the handler, for a      *)
(* method the route does not have, for a path without a route.             *)
Answers(b, method, path) ==
  IF path \notin RoutePaths(b) THEN {404}
  ELSE LET route == CHOOSE r \in Routes(b) : r.path = path
       IN  IF method \in route.methods THEN route.answers ELSE {405}

-----------------------------------------------------------------------------
(* The layer                                                               *)

(* Wrong variant: the path is the one the client wrote.                    *)
RawPathLabel(b, path) == path

(* The sidecar's copy labels with the matched route, the oracle's with the *)
(* request's own path.                                                     *)
PathLabel(b, path) ==
  IF b = "oracle" \/ path \in RoutePaths(b) THEN path ELSE Unmatched

(* Wrong variant: every answer starts its series anew.                     *)
SamplesForgotten(labels) == 0

Samples(labels) == IF labels \in DOMAIN series THEN series[labels] ELSE 0

NoRequests == [c \in Client |-> Idle]
NoSeries == [labels \in {} |-> 0]

MInit ==
  /\ binary \in Binary
  /\ inflight = NoRequests
  /\ series = NoSeries
  /\ answered = <<>>

(* A process that ends takes its requests and its registry with it.        *)
MetricsLost ==
  /\ inflight' = NoRequests
  /\ series' = NoSeries
  /\ answered' = <<>>

(* MetricsService::call                                                    *)
Call(c) ==
  /\ inflight[c] = Idle
  /\ \E method \in Method, path \in RoutePaths(binary) \cup OtherPath \cup {"/metrics"} :
       inflight' = [inflight EXCEPT ![c] =
         [method |-> method, path |-> path, label |-> PathLabel(binary, path)]]
  /\ UNCHANGED <<binary, series, answered>>

(* ResponseFuture::poll, when the inner future is ready.                   *)
Respond(c) ==
  LET request == inflight[c]
  IN  /\ request # Idle
      /\ Len(answered) < MaxAnswers
      /\ inflight' = [inflight EXCEPT ![c] = Idle]
      /\ IF Layered(request.path)
         THEN \E status \in Answers(binary, request.method, request.path) :
                LET labels == [method |-> request.method, path |-> request.label,
                               status |-> status]
                IN  /\ answered' = Append(answered, labels)
                    /\ series' = [l \in DOMAIN series \cup {labels} |->
                                    IF l = labels THEN Samples(l) + 1 ELSE series[l]]
         ELSE UNCHANGED <<series, answered>>
      /\ UNCHANGED binary

(* The client disconnects and the future is dropped.                       *)
Abandon(c) ==
  /\ inflight[c] # Idle
  /\ inflight' = [inflight EXCEPT ![c] = Idle]
  /\ UNCHANGED <<binary, series, answered>>

Serve == \E c \in Client : Call(c) \/ Respond(c) \/ Abandon(c)

-----------------------------------------------------------------------------
(* Properties                                                              *)

(* Every answer that passes the layer is counted in the series of its      *)
(* labels, and no other request is.                                        *)
MTypeOK ==
  /\ binary \in Binary
  /\ \A c \in Client :
       inflight[c] = Idle \/ inflight[c].method \in Method
  /\ Len(answered) <= MaxAnswers
  /\ DOMAIN series = {answered[n] : n \in 1..Len(answered)}
  /\ \A labels \in DOMAIN series :
       series[labels] = Cardinality({n \in 1..Len(answered) : answered[n] = labels})

(* What clients write into their URLs does not make the sidecar's registry *)
(* grow: for one method there are at most as many series as statuses its   *)
(* routes have, one more where the method is not allowed, and one for all  *)
(* other paths together.                                                   *)
SeriesBounded ==
  binary = "sidecar" =>
    \A method \in Method :
      LET ofMethod == {labels \in DOMAIN series : labels.method = method}
          possible == UNION {{[method |-> method, path |-> path, status |-> status] :
                                status \in Answers("sidecar", method, path)} :
                             path \in RoutePaths("sidecar")}
      IN  Cardinality(ofMethod \ possible) <= 1
=============================================================================
