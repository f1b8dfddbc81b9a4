------------------------------- MODULE Services -------------------------------
(***************************************************************************)
(* The processes of the two enclave servers from start to end: main() of   *)
(* crates/tvc-oracle-demo and of crates/policy-sidecar, each with its      *)
(* router and metrics layer.  A behaviour is that of one of the two.       *)
(***************************************************************************)
EXTENDS PolicyPreflight, RequestMetrics

serviceVars == <<startVars, binary, metricsVars>>

(* The sidecar's command line has none of the oracle's options, and has    *)
(* nothing signed: no policy concerns it.                                  *)
SidecarOptions == {o \in Options : ~o.policyPreflight /\ ~o.oracleUpdates /\ o.interval = 1}

SInit ==
  /\ PInit
  /\ MInit
  /\ binary = "sidecar" => options \in SidecarOptions /\ policy = CHOOSE p \in Policy : TRUE

(* The sidecar loads its keys and its state and binds; it has neither a    *)
(* preflight nor a background task.                                        *)
LoadSidecar ==
  /\ binary = "sidecar"
  /\ phase = "loading"
  /\ \/ Exit
     \/ /\ options.organization # ""
        /\ phase' = "binding"
        /\ UNCHANGED updating
  /\ UNCHANGED <<policyVars, options, nextCase, spurious, defectSigned>>

OracleMain ==
  /\ binary = "oracle"
  /\ LoadConfiguration \/ CaseSigned \/ CaseRefused \/ CaseFailed

Main ==
  /\ Start \/ LoadSidecar \/ OracleMain \/ Bind
  /\ binary = "sidecar" => options' \in SidecarOptions
  /\ UNCHANGED <<binary, metricsVars>>

Serving ==
  /\ phase = "serving"
  /\ Serve
  /\ UNCHANGED startVars

ProcessEnds == Crash /\ MetricsLost /\ UNCHANGED binary

PolicyChanges ==
  /\ binary = "oracle"
  /\ ChangePolicy
  /\ UNCHANGED <<binary, metricsVars>>

SNext == Main \/ Serving \/ ProcessEnds \/ PolicyChanges

SSpec == SInit /\ [][SNext]_serviceVars

-----------------------------------------------------------------------------

(* A process that is not serving holds no requests and no samples.         *)
ServicesTypeOK ==
  /\ PTypeOK
  /\ MTypeOK
  /\ phase # "serving" => inflight = NoRequests /\ series = NoSeries
  /\ binary = "sidecar" => phase # "preflight" /\ ~updating
=============================================================================
