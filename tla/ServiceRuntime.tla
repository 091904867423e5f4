----------------------------- MODULE ServiceRuntime -----------------------------
(***************************************************************************)
(* checkRuntimePath of check service in a mesh: between the policy layers  *)
(* and the end of the report the source pod probes the URLs of the Service *)
(* and then the target pods, and what a probe meets decides which Istio    *)
(* objects are read.  Without a mesh a session is one of PolicyCommands.   *)
(*                                                                         *)
(* What a probe meets is not under control of the command; only an answer  *)
(* that access is denied needs a target pod whose proxy denies it.         *)
(***************************************************************************)
EXTENDS PolicyCommands, IstioEnforcement

CONSTANT MeshPaths  \* clusters and the mesh they are in

ASSUME RuntimeAssumption ==
    /\ MeshPaths \subseteq [world : Worlds, mesh : Mesh]
    /\ \A path \in MeshPaths :
          /\ HasChosen(path.world.service)
          /\ ByNamespace(path.mesh.virtualServices) /\ ByNamespace(path.mesh.destinationRules)

VARIABLES
    mesh,     \* the mesh, or None
    stage,    \* what is next in the session of a mesh
    at,       \* the URL or the pod that is probed next
    reached,  \* the URLs of the Service that were reached
    signals,  \* istioSignalsReported
    toldRoutes     \* istioIntentionalRoutesReported

runtimeVars == <<mesh, stage, at, reached, signals, toldRoutes>>
allVars == <<vars, runtimeVars>>

RuntimeInit ==
    /\ Init
    /\ mesh \in {None} \cup {path.mesh : path \in {p \in MeshPaths : p.world = world}}
    /\ stage = IF mesh = None THEN "done" ELSE "target"
    /\ at = 0
    /\ reached = {}
    /\ signals = {}
    /\ toldRoutes = {}

-------------------------------------------------------------------------------
(* The state of ServiceCheck that this one is an instance of.              *)

\* The pods that have the labels of the Service, all of them running.
PathPods ==
    [i \in DOMAIN Targets |->
        [running |-> TRUE, ready |-> Targets[i] \in mesh.ready, ip |-> TRUE, sidecar |-> Targets[i] \in mesh.sidecars,
         ports |-> [j \in DOMAIN ContainerPorts[Targets[i]] |->
                       LET c == ContainerPorts[Targets[i]][j]
                       IN  [name |-> c.name, number |-> c.number, tcp |-> c.protocol = "TCP"]]]]

PathService ==
    [type |-> IF world.service.exposed THEN "NodePort" ELSE "ClusterIP", headless |-> world.service.vip = None,
     selector |-> TRUE,
     ports |-> [i \in DOMAIN world.service.ports |->
                   LET p == world.service.ports[i]
                   IN  [port |-> p.port, target |-> p.target, tcp |-> p.protocol = "TCP", nodePort |-> p.nodePort # 0]]]

PathSource ==
    IF world.source = None THEN None ELSE [context |-> "target", sidecar |-> world.source \in mesh.sidecars]

PathOptions ==
    [sourceBy |-> "pod", otherContext |-> FALSE, otherNamespace |-> FALSE, targetSelector |-> FALSE,
     namedDeployment |-> FALSE, port |-> 0, skipNodePort |-> FALSE, failOnWarn |-> flags.failOnWarn, ignored |-> {}]

IstioRouting == {"Istio-subset", "Istio-unknown-upstream", "Istio-split"}
IstioCauses ==
    {"Istio-JWT", "Istio-deny", "Istio-default-deny", "Istio-risky-deny", "Istio-CUSTOM", "Istio-unknown-denial",
     "Istio-STRICT", "Istio-DestinationRule", "Istio-Sidecar", "Istio-direct-response", "Istio-redirect",
     "Istio-abort", "Istio-abort-risk", "Istio-delay", "Istio-delay-risk", "Istio-reset"}
PathCauses == {"targetPort-mismatch", "headless", "backend", "DNS", "HTTP", "unreachable", "pod-unreachable", "other"}

\* What hasDiagnosisContaining and its variants find in the text of a diagnosis.
KindsOf(diagnosis) ==
    CASE diagnosis = "none" -> {}
      [] diagnosis \in IstioRouting -> {"Istio-routing"}
      [] diagnosis \in IstioCauses -> {"Istio"}
      [] diagnosis \in PathCauses -> {diagnosis}
      [] diagnosis = "runtime-DNS-resolver" -> {"policy", diagnosis}
      [] OTHER -> {"policy"}

PathReport ==
    [results |-> {IF i.status = "WARN" THEN "uncategorized" ELSE i.status :
                      i \in {j \in report.service : j.status \in {"FAIL"} \cup Warnings}},
     diagnoses |-> UNION {KindsOf(i.diagnosis) : i \in report.service}]

PathLayer ==
    CASE stage = "target"   -> "pods"
      [] stage = "policies" -> "runtime"
      [] stage = "urls"     -> "urls"
      [] stage = "pods"     -> "direct"
      [] stage = "done"     -> "nodePort"

SC == INSTANCE ServiceCheck WITH
          Options <- {}, Services <- {}, PodLists <- {}, PortName <- PortNames,
          opts <- PathOptions, pc <- PathLayer, service <- PathService, deployment <- FALSE, pods <- PathPods,
          port <- Chosen(world.service).port, source <- PathSource, report <- PathReport,
          sourceSide <- {}, exit <- None

Blamed(kinds) == PathReport.diagnoses \cap kinds # {}

\* Results of checkTargetPods and checkTargetPort; what else the layers of the
\* target say depends on objects that are not part of a world.
targetLayers ==
    /\ stage = "target" /\ stage' = "policies"
    /\ LET Shifted == PathService.headless /\ SC!ResolvedTargetPort \notin {0, SC!Selected.port}
           Mismatch == SC!DeclaredPorts # {}
                       /\ \A p \in SC!DeclaredPorts : ~SC!TargetPortMatches(SC!Selected.target, p)
           Unready == \/ Targets = <<>> \/ \E i \in DOMAIN PathPods : ~PathPods[i].ready
       IN  Says("service",
                (IF Unready THEN {Insight("target-pods", "FAIL", "backend")} ELSE {})
                \cup (IF ~SC!Selected.tcp THEN {Insight("service-port", "WARN", "other")} ELSE {})
                \cup (IF Shifted THEN {Insight("service-port", "WARN", "headless")} ELSE {})
                \cup (IF Mismatch THEN {Insight("service-port", "WARN", "targetPort-mismatch")} ELSE {})
                \cup (IF Targets # <<>> /\ SC!DeclaredPorts = {} THEN {Plain("service-port", "WARN")} ELSE {}),
                pc)
    /\ UNCHANGED <<urls, answered, mesh, at, reached, signals, toldRoutes>>

policyLayers == stage = "policies" /\ (native \/ calico \/ host \/ cilium) /\ UNCHANGED runtimeVars

-------------------------------------------------------------------------------
(* What a probe meets.                                                     *)

Place(url) == <<"name", "address">>[url]

RequestTo(place) == newIstioHTTPRequest(world.service, world.source, place)

Answer(status, text) == [ok |-> TRUE, status |-> status, text |-> text]
Failure(text) == [ok |-> FALSE, status |-> 0, text |-> text]

\* The statuses that routes are told to answer.
Configured ==
    LET routes == UNION {ToSet(mesh.virtualServices[i].http) : i \in DOMAIN mesh.virtualServices}
    IN  (UNION {{route.direct, route.abort.status} : route \in routes}) \ {0}

DeniedTo(place) ==
    world.source # None
    /\ \E pod \in ToSet(Targets) \cap mesh.ready : AccessDenied(mesh, pod, world.service, world.source, place)

\* The text is kept where classifyIstioRuntime looks for it and the answer has the
\* marks of Envoy or there is a sidecar on the path.
Answers(place) ==
    {Answer(status, "") : status \in {200, 302} \cup Configured}
        \cup {Answer(401, "unauthorized"), Answer(503, "no-healthy"), Answer(503, "reset"), Answer(503, "disconnect")}
        \cup (IF DeniedTo(place) THEN {Answer(403, "rbac")} ELSE {})

Failures == {Failure(text) : text \in {"no-tool", "refused", "reset", "timeout", "other"}}

\* classifyIstioRuntime.
SignalOf(response) ==
    CASE response.text = "unauthorized" -> "jwt-denied"
      [] response.text = "rbac" -> "rbac-denied"
      [] response.text = "no-healthy" -> "no-healthy-upstream"
      [] response.text \in {"reset", "disconnect"} /\ response.ok -> "upstream-reset"
      [] OTHER -> "none"

\* inspectIstioRuntimeSignal.  An upstream reset that no DestinationRule explains is
\* a diagnosis only where there is none of Istio.
SignalInsights(response, r) ==
    LET mismatch == IF response.text = "reset"
                    THEN inspectIstioDestinationRuleMTLSMismatch(mesh, world.service, Targets, r) ELSE {}
    IN  CASE SignalOf(response) = "rbac-denied" ->
                 inspectIstioAuthorizationPolicy(mesh, world.namespace, Targets, r)
          [] SignalOf(response) = "jwt-denied" ->
                 inspectIstioRequestAuthentication(mesh, world.namespace, Targets, "FAIL").insights
          [] SignalOf(response) = "no-healthy-upstream" ->
                 IF Blamed({"backend"}) THEN {} ELSE inspectIstioTrafficRouting(mesh, world.service, Targets, r)
          [] SignalOf(response) = "upstream-reset" ->
                 IF mismatch # {} THEN mismatch
                 ELSE IF Blamed({"Istio", "Istio-routing"}) THEN {}
                 ELSE {Insight("Istio-upstream", "WARN", "Istio-reset")}

\* reportHasResult: a finding about an object is reported once, for the place that
\* met it first.
Once(place, insights) ==
    About(place, {i \in insights :
                      ~\E j \in report.service : j.check = i.check /\ j.status = i.status /\ j.diagnosis = i.diagnosis})

\* What a route is told to do is reported once for each route.
Shows(place, told) == IF told.route \in toldRoutes THEN Once(place, told.insights) ELSE About(place, told.insights)

ToldOf(place, response) ==
    inspectIstioIntentionalRouteBehavior(mesh, world.service, RequestTo(place), response)

Remembers(told) == toldRoutes' = toldRoutes \cup ({told.route} \ {None})

Probed(status) == Plain("probe", status)

\* Envoy answered in place of the target; each signal is inspected once.
SaysSignal(place, response, tool) ==
    LET signal == SignalOf(response) IN
    /\ signals' = signals \cup {signal}
    /\ Says("service",
            tool \cup {Probed("FAIL")}
                 \cup (IF signal \in signals THEN {} ELSE Once(place, SignalInsights(response, RequestTo(place)))),
            pc)
    /\ UNCHANGED toldRoutes

-------------------------------------------------------------------------------
(* checkRuntimePath.                                                       *)

checkRuntimePath ==
    /\ stage = "policies" /\ pc = "finish-service"
    /\ LET resolver == Plain("resolv.conf", IF access.resolvConf THEN "PASS" ELSE "WARN")
           split == IF Blamed({"backend"}) THEN {}
                    ELSE inspectIstioWeightedRouteRisks(mesh, world.service, Targets, RequestTo("name"))
       IN  IF SC!Probed
           THEN /\ Says("service", {resolver} \cup About("name", split), pc)
                /\ stage' = "urls" /\ at' = 1
           ELSE /\ Says("service", {Plain("service-path", "SKIP")}, pc)
                /\ stage' = "done" /\ UNCHANGED at
    /\ UNCHANGED <<urls, answered, mesh, reached, signals, toldRoutes>>

\* A response that is not Envoy's own, but may be what a route is told to do.
answeredURL(place, response, tool) ==
    LET told == ToldOf(place, response)
        status == IF told.runtime = "none" THEN "PASS" ELSE told.runtime
    IN  /\ Says("service", tool \cup {Probed(status)} \cup Shows(place, told), pc)
        /\ Remembers(told)
        /\ reached' = IF status = "FAIL" THEN reached ELSE reached \cup {at}

\* The path itself is not blamed where an earlier layer has a cause.
\* A plausible slip: the policies are not asked for.
ExcusedByBackends == Blamed({"targetPort-mismatch", "headless", "backend"})
Excused == Blamed({"policy", "targetPort-mismatch", "headless", "backend"})

\* curl failed, its text does not say why, and no route is told to do it: the first
\* cause in this order.
FailureCause(place, response) ==
    LET r == RequestTo(place)
        reset == response.text = "reset"
        strict == inspectIstioMTLSReset(mesh, world.service, Targets, world.source)
        mismatch == inspectIstioDestinationRuleMTLSMismatch(mesh, world.service, Targets, r)
        scope == inspectIstioSidecarEgressScope(mesh, world.service, world.source)
    IN  IF reset /\ strict # {} THEN strict
        ELSE IF reset /\ mismatch # {} THEN mismatch
        ELSE IF scope # {} THEN scope
        ELSE IF Excused THEN {} ELSE {Insight("none", "INFO", "unreachable")}

Explained(place, response) ==
    LET told == ToldOf(place, response)
    IN  Shows(place, told)
            \cup (IF told.runtime # "none" THEN {} ELSE Once(place, FailureCause(place, response)))

failedURL(place, response, tool) ==
    /\ Says("service",
            tool \cup (CASE response.text = "no-tool" -> {Probed("runtime-unavailable")}
                         [] response.text = "refused" -> {Insight("probe", "FAIL", "HTTP")}
                         [] OTHER -> {Probed("FAIL")} \cup Explained(place, response)),
            pc)
    /\ IF response.text \in {"no-tool", "refused"} THEN UNCHANGED toldRoutes ELSE Remembers(ToldOf(place, response))

\* A name that does not resolve is not asked; without a tool to resolve it curl is
\* tried all the same.
probeURL ==
    /\ stage = "urls" /\ at \in 1..SC!NumURLs /\ at' = at + 1
    /\ LET place == Place(at) IN
       \/ /\ place = "name" /\ UNCHANGED <<reached, signals, toldRoutes>>
          /\ Says("service", {Insight("resolve", "FAIL", IF Blamed({"runtime-DNS-resolver"}) THEN "none" ELSE "DNS")}, pc)
       \/ \E response \in Answers(place) \cup Failures, tool \in SUBSET {Plain("resolve", "runtime-unavailable")} :
             /\ tool # {} => place = "name"
             /\ \/ SignalOf(response) # "none" /\ SaysSignal(place, response, tool) /\ UNCHANGED reached
                \/ /\ SignalOf(response) = "none" /\ response.ok /\ answeredURL(place, response, tool)
                   /\ UNCHANGED signals
                \/ ~response.ok /\ failedURL(place, response, tool) /\ UNCHANGED <<reached, signals>>
    /\ UNCHANGED <<urls, answered, mesh, stage>>

\* Pods are not probed where no port of theirs is known.
endOfURLs ==
    /\ stage = "urls" /\ at > SC!NumURLs
    /\ LET skipped == SC!DirectPort = 0 \/ Targets = <<>> IN
       /\ stage' = IF skipped THEN "done" ELSE "pods"
       /\ at' = IF skipped THEN 0 ELSE 1
    /\ Says("service", IF SC!DirectPort = 0 THEN {Plain("direct-target-pod", "SKIP")} ELSE {}, pc)
    /\ UNCHANGED <<urls, answered, mesh, reached, signals, toldRoutes>>

\* Behind a sidecar a pod may well refuse what comes past the Service.
failedPod(response) ==
    LET strict == IF response.text = "reset" THEN inspectIstioMTLSReset(mesh, world.service, Targets, world.source) ELSE {}
        last == IF Blamed({"Istio", "Istio-routing", "policy", "targetPort-mismatch"}) THEN {}
                ELSE {Insight("none", "INFO", "pod-unreachable")}
    IN  CASE response.text = "no-tool" -> {Probed("runtime-unavailable")}
          [] response.text # "no-tool" /\ reached # {} /\ SC!pathHasIstioSidecar -> {Probed("INFO")}
          [] OTHER -> IF response.text = "refused" THEN {Insight("probe", "FAIL", "HTTP")}
                      ELSE {Probed("FAIL")} \cup Once("pod", IF strict # {} THEN strict ELSE last)

\* One after another, at one port for all; a pod that is not ready is left out.
probePod ==
    /\ stage = "pods"
    /\ at' = IF at < Len(Targets) THEN at + 1 ELSE 0
    /\ stage' = IF at < Len(Targets) THEN stage ELSE "done"
    /\ IF ~SC!Reachable(PathPods[at]) THEN Says("service", {}, pc) /\ UNCHANGED <<signals, toldRoutes>>
       ELSE \E response \in Answers("pod") \cup Failures :
              IF SignalOf(response) # "none" THEN SaysSignal("pod", response, {})
              ELSE /\ Says("service", IF response.ok THEN {Probed("PASS")} ELSE failedPod(response), pc)
                   /\ UNCHANGED <<signals, toldRoutes>>
    /\ UNCHANGED <<urls, answered, mesh, reached>>

finishRuntime ==
    /\ mesh # None /\ stage = "done" /\ pc = "finish-service"
    /\ Finish("service", "done")
    /\ UNCHANGED runtimeVars

MeshStep ==
    targetLayers \/ policyLayers \/ checkRuntimePath \/ probeURL \/ endOfURLs \/ probePod \/ finishRuntime

RuntimeNext == (mesh = None /\ Next /\ UNCHANGED runtimeVars) \/ (mesh # None /\ MeshStep)

\* A command is one thread of control that nothing stops.
RuntimeSpec == RuntimeInit /\ [][RuntimeNext]_allVars /\ WF_allVars(RuntimeNext)

-------------------------------------------------------------------------------
(* Properties.  Where what is listed is what Istio has, which the README   *)
(* tells apart from what it does not, each cause that is named is true.    *)

\* Conditions that the command knows, and accounts as Istio writes them.
PoliciesReadable ==
    LET Given(criteria) == UNION ({criteria.in, criteria.out} \ {None}) IN
    /\ world.source \in mesh.sidecars
    /\ \A policy \in mesh.authorization :
          /\ policy.refs = "none"
          /\ \A rule \in policy.rules :
                /\ rule.when.unknown = {}
                /\ \A from \in rule.from : \A ref \in Given(from.accounts) : ref.namespace # policy.namespace
                /\ \A ref \in Given(rule.when.accounts) : ref.namespace # None

\* An item that selects pods has a mode, one that does not has no ports.
PeersReadable ==
    \A i \in DOMAIN mesh.peers :
        IF mesh.peers[i].selects = None THEN mesh.peers[i].ports = {} ELSE mesh.peers[i].mode # "UNSET"

\* One route, to the Service alone, and one DestinationRule, in the namespaces
\* that the command asks.
RoutesReadable(place) ==
    LET service == world.service
        source == world.source
        routes == RoutesFor(Hosting(mesh, service, source), RequestTo(place))
        near == ConfigNamespaces(service, source)
    IN  /\ Len(Hosting(mesh, service, source)) <= 1 /\ Len(routes) <= 1
        /\ Len(RulesFor(mesh, service, source)) <= 1
        /\ \A vs \in ToSet(mesh.virtualServices) \cup ToSet(mesh.destinationRules) : vs.namespace \in near
        /\ \A found \in ToSet(routes) :
              /\ found.route.destinations # <<>>
              /\ \A d \in ToSet(found.route.destinations) : HostMatches(d.host, found.home, service) /\ d.weight > 0

MeshReadable ==
    /\ mesh # None /\ OnePort /\ mesh.rootRead /\ ToSet(Targets) \subseteq mesh.sidecars
    /\ \A pod \in ToSet(Targets) : TargetNumbers(Chosen(world.service).target, <<pod>>) # {}
    /\ \A kind \in MeshKinds, n \in Namespaces : mesh.lists[kind][n] = "read"
    /\ \A place \in {"name", "address"} : RoutesReadable(place)

\* The layers of a report that blame objects of Istio.
IstioLayers == {"Istio-authorization", "Istio-mTLS", "Istio-routing", "Istio-route"}

\* A FAIL that names an object of Istio is true of a target: policies on trial deny
\* nothing, the mode of the mesh holds where the namespace has none, and the subset
\* is one that requests are sent to (istio_authz.go:18-70, istio_mtls.go:20-204,
\* istio_traffic.go:20-167).
MeshBlameTrue ==
    MeshReadable =>
    \A i \in {j \in report.service : j.check \in IstioLayers} :
        LET service == world.service
            source == world.source
            taken == Taken(mesh, service, RequestTo(i.url))
            route == TakenRoute(mesh, service, RequestTo(i.url))
            StrictTarget == \E pod \in ToSet(Targets) : Strict(mesh, pod, service)
        IN  /\ i.diagnosis = "Istio-deny" /\ PoliciesReadable =>
                  \E pod \in ToSet(Targets) : Hits(mesh, "DENY", pod, service, source, i.url)
            /\ i.diagnosis = "Istio-default-deny" /\ PoliciesReadable =>
                  \E pod \in ToSet(Targets) : AllowsNothing(mesh, pod, service, source, i.url)
            /\ i.diagnosis = "Istio-STRICT" /\ PeersReadable => StrictTarget /\ source \notin mesh.sidecars
            /\ i.diagnosis = "Istio-DestinationRule" /\ i.url # "pod" /\ PeersReadable =>
                  /\ StrictTarget /\ source \in mesh.sidecars
                  /\ \E subset \in IF route = <<>> THEN {0} ELSE {d.subset : d \in taken} :
                         PlainText(mesh, subset, service, source)
            /\ i.diagnosis = "Istio-subset" /\ i.url # "pod" =>
                  \E d \in taken : Dead(mesh, d, service, Targets, source)
            /\ i.diagnosis = "Istio-direct-response" => Head(route).route.direct # 0
            /\ i.diagnosis = "Istio-abort" => Head(route).route.abort.percent > 0

\* A denial that policies explain is not called one without a cause, where all
\* targets have the same policies, and neither are missing upstreams that a subset of
\* a DestinationRule explains (istio_authz.go:48-70, istio_traffic.go:40-79).
MeshCauseNamed ==
    MeshReadable =>
    \A i \in {j \in report.service : j.check \in IstioLayers} :
        /\ i.diagnosis = "Istio-unknown-denial" /\ PoliciesReadable =>
              \E policy \in mesh.authorization :
                  policy.selects # None /\ policy.selects \cap ToSet(Targets) \notin {{}, ToSet(Targets)}
        /\ /\ i.diagnosis = "Istio-unknown-upstream" /\ i.url # "pod"
           /\ RulesFor(mesh, world.service, world.source) # <<>>
           => ~\E d \in Taken(mesh, world.service, RequestTo(i.url)) :
                     Dead(mesh, d, world.service, Targets, world.source)

\* Every step of the runtime layer is one of ServiceCheck's: of what it may find
\* after a probe the Istio objects choose, and nothing else is added or left out,
\* which is why what holds of its reports holds of these (service_runtime.go:14-172).
RuntimeRefines ==
    [][mesh # None /\ pc = "finish-service" /\ stage # "done" =>
           SC!checkRuntimePath \/ SC!probeURL \/ SC!endOfURLs \/ SC!probePod]_allVars

===============================================================================
