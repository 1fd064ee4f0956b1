----------------------------- MODULE MCServices -----------------------------
(* Instances for TLC of the small services: the web front ends of the KVM   *)
(* switch, the bridges to Gotify and the state refresher of the Hermes      *)
(* gateway.  They share no state: a behaviour is one of any of them.        *)
EXTENDS KvmWeb, GotifyBridge, StateRefresher, TLC

VARIABLE service

serviceAll == <<service, kvmVars, bridgeVars, refresherVars>>

ServicesInit ==
    /\ service \in {"kvm", "bridge", "refresher"}
    /\ KvmInit /\ BridgeInit /\ RefresherInit
    /\ service # "kvm" => routed = 1 /\ beating

RunKvm(A) == service = "kvm" /\ A /\ UNCHANGED <<service, bridgeVars, refresherVars>>
RunBridge(A) == service = "bridge" /\ A /\ UNCHANGED <<service, kvmVars, refresherVars>>
RunRefresher(A) == service = "refresher" /\ A /\ UNCHANGED <<service, kvmVars, bridgeVars>>

ServicesNext == RunKvm(KvmNext) \/ RunBridge(BridgeNext) \/ RunRefresher(RefresherNext)

\* KvmFairness and BridgeFairness, of the service that runs.
ServicesFairness ==
    /\ WF_kvmVars(service = "kvm" /\ MonitorStep) /\ WF_kvmVars(service = "kvm" /\ Beat)
    /\ WF_kvmVars(service = "kvm" /\ StartStep)
    /\ \A h \in Handlers : /\ SF_kvmVars(service = "kvm" /\ TakeLine(h))
                           /\ WF_kvmVars(service = "kvm" /\ HandlerStep(h))
    /\ WF_bridgeVars(service = "bridge" /\ Notify)
    /\ WF_bridgeVars(service = "bridge" /\ ~hung /\ AlertStep)
    /\ WF_bridgeVars(service = "bridge" /\ ProbeRestart)
    /\ WF_bridgeVars(service = "bridge" /\ Post)

ServicesSpec == ServicesInit /\ [][ServicesNext]_serviceAll /\ ServicesFairness

\* The three programs keep their types.
ServicesTypeOK == KvmTypeOK /\ BridgeTypeOK /\ RefresherTypeOK
=============================================================================
