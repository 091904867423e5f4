----------------------------- MODULE ServiceCheck -----------------------------
(***************************************************************************)
(* RunService and the exit status of knm check service: thirteen layers    *)
(* read the cluster one after another and add to one report.  Later layers *)
(* look at the diagnoses of earlier ones before they add theirs.           *)
(*                                                                         *)
(* Every read and every probe may give any answer that the API or the      *)
(* network can give, independently of the others: the cluster changes      *)
(* while the command runs.  Of a result only what makes the exit status is *)
(* kept, of a diagnosis only what other code looks for in its text.        *)
(***************************************************************************)
EXTENDS Naturals, Sequences, FiniteSets

CONSTANTS
    Options,    \* command lines
    Services,   \* what the Service may look like
    PodLists,   \* what the list of target pods may look like
    PortName,   \* names of container ports
    None        \* no object

MaxPort == 65535

\* sourceBy: how the source is named; otherContext: --source-context is given;
\* port: --port, 0 for the first; ignored: the categories of --ignore-warn.
Option == [sourceBy : {"nothing", "debugPod", "pod", "selector", "deployment", "name"},
           otherContext : BOOLEAN, otherNamespace : BOOLEAN, targetSelector : BOOLEAN,
           namedDeployment : BOOLEAN, port : 0..MaxPort, skipNodePort : BOOLEAN, failOnWarn : BOOLEAN,
           ignored : SUBSET {"uncategorized", "policy-ambiguous", "runtime-unavailable"}]

ServicePort == [port : 1..MaxPort, target : 1..MaxPort \cup PortName, tcp : BOOLEAN, nodePort : BOOLEAN]

Service == [type : {"ClusterIP", "NodePort", "LoadBalancer", "ExternalName"}, headless : BOOLEAN,
            selector : BOOLEAN, ports : Seq(ServicePort)]

ContainerPort == [name : PortName \cup {None}, number : 1..MaxPort, tcp : BOOLEAN]

Pod == [running : BOOLEAN, ready : BOOLEAN, ip : BOOLEAN, sidecar : BOOLEAN,
        ports : Seq(ContainerPort)]

Contexts == {"target", "source"}
Source == [context : Contexts, sidecar : BOOLEAN]

ASSUME ServiceAssumption ==
    /\ PortName \cap Nat = {}
    /\ Options \subseteq Option
    /\ Services \subseteq Service
    /\ None \notin Service /\ None \notin Source /\ None \notin Nat
    /\ PodLists \subseteq Seq(Pod) \ {<<>>}

VARIABLES
    opts,         \* the command line
    pc,           \* the layer that is next
    service,      \* the Service as read, or None
    deployment,   \* the Deployment was read
    pods,         \* the target pods as listed
    port,         \* report.Target.ServicePort
    source,       \* the pod to probe from, or None
    report,       \* results that count, and diagnoses
    at,           \* the URL or the pod that is probed next
    reached,      \* the URLs of the Service that were reached
    signals,      \* istioSignalsReported
    sourceSide,  \* contexts that the source side was looked up in
    exit          \* the exit status, or None

vars == <<opts, pc, service, deployment, pods, port, source, report, at, reached,
          signals, sourceSide, exit>>

Results == {"FAIL", "uncategorized", "policy-ambiguous", "runtime-unavailable"}

\* What the text of a diagnosis lets hasDiagnosisContaining and its variants find.
Diagnoses == {"policy", "runtime-DNS-resolver", "targetPort-mismatch", "headless",
              "backend", "Istio", "Istio-routing", "DNS", "HTTP", "unreachable",
              "pod-unreachable", "ExternalName", "other"}

Signals == {"rbac-denied", "jwt-denied", "no-healthy-upstream", "upstream-reset"}
Layers == {"cluster", "service", "deployment", "pods", "endpoints", "port", "source",
           "native", "cni", "mtu", "runtime", "urls", "direct", "nodePort", "events",
           "conclude", "finish", "exited", "panicked"}

-------------------------------------------------------------------------------
(* Helpers.                                                                *)

When(condition, S) == IF condition THEN S ELSE {}

SourceContext == IF opts.otherContext THEN "source" ELSE "target"

Diagnosed(kind) == kind \in report.diagnoses

\* report.Add of FAIL and WARN results and report.Diagnose.
Report(results, diagnoses) ==
    report' = [results |-> report.results \cup results,
               diagnoses |-> report.diagnoses \cup diagnoses]

Silent == UNCHANGED report

Warn == {"uncategorized"}

\* The WARN of analyzeNativeEgress and analyzeNativeIngress.
DefaultDenyLost == {}
DefaultDenyWarn == {"policy-ambiguous"}

\* The WARN of a probe that had no tool in the source pod.
ProbeLost == {}
ProbeWarn == {"runtime-unavailable"}

hasIstioDiagnosis == Diagnosed("Istio") \/ Diagnosed("Istio-routing")

\* selectServicePort: the first port with that number, whatever its protocol.
Listed(number) ==
    IF number = 0 THEN {1} ELSE {i \in DOMAIN service.ports : service.ports[i].port = number}

\* Ports[0] of a Service that has no ports.
Panics == service # None /\ port = 0 /\ service.ports = <<>>

PortFound == service # None /\ ~Panics /\ Listed(port) # {}

Selected == service.ports[CHOOSE i \in Listed(port) : \A j \in Listed(port) : i <= j]

DeclaredPorts == UNION {{pods[i].ports[j] : j \in DOMAIN pods[i].ports} : i \in DOMAIN pods}

TargetPortMatches(target, p) == p.name = target \/ p.number = target

\* The first of S in the order of collectContainerPorts.
FirstOf(S) ==
    LET Places == UNION {{<<i, j>> : j \in {k \in DOMAIN pods[i].ports : pods[i].ports[k] \in S}} :
                             i \in DOMAIN pods}
        First == CHOOSE x \in Places : \A y \in Places :
                     x[1] < y[1] \/ (x[1] = y[1] /\ x[2] <= y[2])
    IN  pods[First[1]].ports[First[2]]

\* What the target port of the Service is, 0 if it is a name that no pod has.
ResolvedTargetPort ==
    LET target == Selected.target
        Named == {p \in DeclaredPorts : p.name = target}
    IN  IF target \notin PortName THEN target
        ELSE IF Named # {} THEN FirstOf(Named).number ELSE 0

\* The first of directPodPortCandidates, 0 if there is none.
DirectPort ==
    LET Matching == {p \in DeclaredPorts : TargetPortMatches(Selected.target, p)}
        TCP == {p \in DeclaredPorts : p.tcp}
    IN  IF Matching # {} THEN FirstOf(Matching).number
        ELSE IF Selected.target \notin PortName THEN Selected.target
        ELSE IF TCP # {} THEN FirstOf(TCP).number ELSE 0

\* BuildServiceURLs: the name, and the cluster IP where there is one.
NumURLs == IF service.headless \/ service.type = "ExternalName" THEN 1 ELSE 2

\* Only the first URL has a name to resolve.
HasName(url) == url = 1

Reachable(pod) == pod.ready /\ pod.ip

pathHasIstioSidecar == source.sidecar \/ \E i \in DOMAIN pods : pods[i].sidecar

\* The order of the layers in RunService.
Order ==
    [cluster |-> "service", service |-> "deployment", deployment |-> "pods",
     pods |-> "endpoints", endpoints |-> "port", port |-> "source", source |-> "native",
     native |-> "cni", cni |-> "mtu", mtu |-> "runtime", runtime |-> "nodePort",
     urls |-> "nodePort", direct |-> "nodePort",
     nodePort |-> "events", events |-> "conclude", conclude |-> "finish"]

\* A plausible slip: the probes run before the CNI policies are analyzed.
AfterProbesFirst(layer) ==
    CASE layer = "native" -> "runtime"
      [] Order[layer] = "nodePort" -> "cni"
      [] layer = "mtu" -> "nodePort"
      [] OTHER -> Order[layer]
After(layer) == Order[layer]

Init ==
    /\ opts \in Options
    /\ pc = "cluster"
    /\ service = None
    /\ deployment = FALSE
    /\ pods = <<>>
    /\ port = opts.port
    /\ source = None
    /\ report = [results |-> {}, diagnoses |-> {}]
    /\ at = 0
    /\ reached = {}
    /\ signals = {}
    /\ sourceSide = {}
    /\ exit = None

-------------------------------------------------------------------------------
(* The target side.                                                        *)

\* Without a client for the source context the rest of the layer is left out.
checkCluster ==
    /\ pc = "cluster" /\ pc' = After(pc)
    /\ \E target, client, namespace, nodes \in BOOLEAN, warned \in SUBSET Warn :
          LET asked == opts.otherNamespace \/ opts.otherContext
              cut == opts.otherContext /\ ~client
          IN  /\ Report(When(~target \/ cut \/ (asked /\ ~namespace) \/ ~nodes, {"FAIL"})
                            \cup When(~cut, warned),
                        When(~target \/ (~cut /\ ~nodes), {"other"}))
              /\ sourceSide' = sourceSide \cup When(asked /\ ~cut, {SourceContext})
    /\ UNCHANGED <<opts, service, deployment, pods, port, source, at, reached, signals, exit>>

checkService ==
    /\ pc = "service" /\ pc' = After(pc)
    /\ \/ service' = None /\ Report({"FAIL"}, {})
       \/ \E s \in Services :
             LET External == s.type = "ExternalName"
             IN  /\ service' = s
                 /\ Report(When(~s.selector /\ ~External, Warn),
                           When(~s.selector /\ ~External, {"other"}) \cup
                               When(External, {"ExternalName"}))
    /\ UNCHANGED <<opts, deployment, pods, port, source, at, reached, signals, sourceSide, exit>>

DeploymentSkipped ==
    /\ service # None /\ ~opts.namedDeployment
    /\ service.type = "ExternalName" \/ (~service.selector /\ ~opts.targetSelector)

checkDeployment ==
    /\ pc = "deployment" /\ pc' = After(pc)
    /\ \/ DeploymentSkipped /\ deployment' = FALSE /\ Silent
       \/ ~DeploymentSkipped /\ deployment' = FALSE /\ Report(Warn, {})
       \/ /\ ~DeploymentSkipped /\ deployment' = TRUE
          /\ Silent \/ Report({"FAIL"}, {"other"})
    /\ UNCHANGED <<opts, service, pods, port, source, at, reached, signals, sourceSide, exit>>

\* The label selector of the pods: --target-selector, else that of the Service,
\* else that of the Deployment.
PodSelector ==
    \/ opts.targetSelector
    \/ deployment
    \/ service # None /\ service.type # "ExternalName" /\ service.selector

checkTargetPods ==
    /\ pc = "pods" /\ pc' = After(pc)
    /\ \/ ~PodSelector /\ pods' = <<>> /\ Silent
       \/ PodSelector /\ pods' = <<>> /\ Report({"FAIL"}, {})
       \/ PodSelector /\ pods' = <<>> /\ Report({"FAIL"}, {"backend"})
       \/ /\ PodSelector
          /\ \E list \in PodLists, problems \in BOOLEAN :
                LET AllReady == \A i \in DOMAIN list : list[i].ready
                    AllRunning == \A i \in DOMAIN list : list[i].running
                IN  /\ pods' = list
                    /\ Report(When(~AllRunning \/ ~AllReady \/ problems, {"FAIL"}),
                              When(~AllReady, {"backend"}) \cup When(problems, {"other"}))
    /\ UNCHANGED <<opts, service, deployment, port, source, at, reached, signals, sourceSide, exit>>

\* The EndpointSlices are read after the pods: both may have changed since.
checkEndpoints ==
    /\ pc = "endpoints" /\ pc' = After(pc)
    /\ LET Sliced == service # None /\ service.type # "ExternalName"
       IN  \/ Silent
           \/ Sliced /\ Report({"FAIL"}, {})
           \/ Sliced /\ Report({"FAIL"}, {"backend"})
           \/ Sliced /\ (\E i \in DOMAIN pods : Reachable(pods[i])) /\ Report(Warn, {"backend"})
    /\ UNCHANGED <<opts, service, deployment, pods, port, source, at, reached, signals,
                   sourceSide, exit>>

checkTargetPort ==
    /\ pc = "port" /\ pc' = After(pc)
    /\ IF service = None \/ service.ports = <<>> THEN Silent /\ UNCHANGED port
       ELSE IF ~PortFound THEN Report({"FAIL"}, {"other"}) /\ UNCHANGED port
       ELSE LET Shifted == service.headless /\ ResolvedTargetPort \notin {0, Selected.port}
                Undeclared == pods # <<>> /\ DeclaredPorts = {}
                Mismatch == DeclaredPorts # {} /\
                            \A p \in DeclaredPorts : ~TargetPortMatches(Selected.target, p)
            IN  /\ port' = Selected.port
                /\ Report(When(~Selected.tcp \/ Shifted \/ Undeclared \/ Mismatch, Warn),
                          When(~Selected.tcp, {"other"}) \cup When(Shifted, {"headless"}) \cup
                              When(Mismatch, {"targetPort-mismatch"}))
    /\ UNCHANGED <<opts, service, deployment, pods, source, at, reached, signals, sourceSide, exit>>

-------------------------------------------------------------------------------
(* The source side and the policies.                                       *)

\* The debug pod is made with the client of the target.
debugSource ==
    /\ opts.sourceBy = "debugPod"
    /\ sourceSide' = sourceSide \cup {"target"}
    /\ \/ source' = None /\ Report({"FAIL"}, {"other"})
       \/ \E s \in BOOLEAN : source' = [context |-> "target", sidecar |-> s] /\ Silent

\* A Deployment or a name that does not resolve has a diagnosis of its own, an
\* unusable context, pod or selector does not.  A pod that is named may be
\* unready, one that a selector chose may not.
namedSource ==
    /\ opts.sourceBy \notin {"nothing", "debugPod"}
    /\ \/ opts.otherContext /\ source' = None /\ Report({"FAIL"}, {}) /\ UNCHANGED sourceSide
       \/ /\ sourceSide' = sourceSide \cup {SourceContext}
          /\ \/ opts.sourceBy # "name" /\ source' = None /\ Report({"FAIL"}, {})
             \/ /\ opts.sourceBy \in {"deployment", "name"}
                /\ source' = None /\ Report({"FAIL"}, {"other"})
             \/ \E s \in BOOLEAN :
                   /\ source' = [context |-> SourceContext, sidecar |-> s]
                   /\ Silent \/ (opts.sourceBy \in {"pod", "name"} /\ Report(Warn, {}))

checkSource ==
    /\ pc = "source" /\ pc' = After(pc)
    /\ \/ opts.sourceBy = "nothing" /\ Silent /\ UNCHANGED <<source, sourceSide>>
       \/ debugSource
       \/ namedSource
    /\ UNCHANGED <<opts, service, deployment, pods, port, at, reached, signals, exit>>

\* The policies and the namespace of the source are read with the client of the
\* target.  Without the source's policies its egress is not analyzed, without
\* the labels of a namespace nothing is.
checkNativeNetworkPolicies ==
    /\ pc = "native" /\ pc' = After(pc)
    /\ \/ Report(Warn, {}) /\ UNCHANGED sourceSide
       \/ /\ sourceSide' = sourceSide \cup When(source # None, {"target"})
          /\ \E warned, selected \in BOOLEAN, denied \in SUBSET {"egress", "ingress"} :
                /\ warned \/ denied # {} => source # None
                /\ warned => denied \subseteq When(opts.otherNamespace, {"ingress"})
                /\ selected => pods # <<>>
                /\ "ingress" \in denied => selected
                /\ Report(When(warned \/ selected, Warn) \cup When(denied # {}, DefaultDenyWarn),
                          When(denied # {} \/ (source = None /\ selected), {"policy"}))
    /\ UNCHANGED <<opts, service, deployment, pods, port, source, at, reached, signals, exit>>

\* Insights of the Calico and the Cilium analysis: a diagnosis comes with a
\* FAIL or a WARN.
checkCniPolicies ==
    /\ pc = "cni" /\ pc' = After(pc)
    /\ \/ pods = <<>> /\ Silent /\ UNCHANGED sourceSide
       \/ pods # <<>> /\ Report(Warn, {}) /\ UNCHANGED sourceSide
       \/ /\ pods # <<>>
          /\ sourceSide' = sourceSide \cup {"target"}
          /\ \/ Silent
             \/ \E results \in (SUBSET ({"FAIL"} \cup Warn)) \ {{}} :
                   Report(results, {"policy"})
             \/ source # None /\ Report({"FAIL"}, {"policy", "runtime-DNS-resolver"})
    /\ UNCHANGED <<opts, service, deployment, pods, port, source, at, reached, signals, exit>>

checkMTUPath ==
    /\ pc = "mtu" /\ pc' = After(pc)
    /\ \/ Silent
       \/ /\ source # None /\ service # None
          /\ \E i \in DOMAIN pods : pods[i].running /\ Reachable(pods[i])
          /\ Report(Warn, {})
    /\ UNCHANGED <<opts, service, deployment, pods, port, source, at, reached, signals,
                   sourceSide, exit>>

-------------------------------------------------------------------------------
(* The probes.  A finding is what an inspection adds to the report.        *)

Finding(results, diagnoses) == [results |-> results, diagnoses |-> diagnoses]

Nothing == Finding({}, {})

\* The conditions under which checkRuntimePath probes at all.
ProbedWithoutSource == PortFound /\ Selected.tcp
Probed == PortFound /\ Selected.tcp /\ source # None

\* Before the probes resolv.conf is read, and routes that split their traffic
\* are reported unless the backends are to blame.
checkRuntimePath ==
    /\ pc = "runtime"
    /\ \/ Panics /\ pc' = "panicked" /\ Silent /\ UNCHANGED at
       \/ ~Panics /\ ~Probed /\ pc' = After(pc) /\ Silent /\ UNCHANGED at
       \/ /\ Probed
          /\ pc' = "urls" /\ at' = 1
          /\ \E warned \in SUBSET Warn :
                \/ Report(warned, {})
                \/ ~Diagnosed("backend") /\ Report(Warn, {"Istio-routing"})
    /\ UNCHANGED <<opts, service, deployment, pods, port, source, reached, signals,
                   sourceSide, exit>>

\* inspectIstioRuntimeSignal.  An upstream reset gets a diagnosis of its own
\* only when there is no other Istio diagnosis, missing upstreams only when
\* there is no diagnosis of the backends.  A list that is not served is silent, one
\* that fails in part is a WARN beside the finding.
SignalFindings(signal) ==
    LET Explained == {Finding({"FAIL"}, {"Istio"})}
        Partly == {Finding({"FAIL"} \cup Warn, {"Istio"})}
        Candidate == {Finding(Warn, {"Istio"})}
        Unreadable == {Finding(Warn, {})}
    IN  CASE signal = "rbac-denied" -> Explained \cup Partly \cup Candidate \cup Unreadable
          [] signal = "jwt-denied" -> Explained \cup Partly \cup Unreadable \cup {Nothing}
          [] signal = "no-healthy-upstream" ->
                 {Nothing} \cup When(~Diagnosed("backend"),
                     Unreadable \cup {Finding(r, {"Istio-routing"}) : r \in {{"FAIL"}, Warn}})
          [] signal = "upstream-reset" ->
                 When(source.sidecar, Explained) \cup
                     (IF hasIstioDiagnosis THEN {Nothing} ELSE Candidate)

\* Envoy answered in place of the target.  Each signal is inspected once.
answeredByEnvoy(tool) ==
    \E signal \in Signals :
       /\ signals' = signals \cup {signal}
       /\ \E f \in IF signal \in signals THEN {Nothing} ELSE SignalFindings(signal) :
             Report(tool \cup {"FAIL"} \cup f.results, f.diagnoses)

\* curl got a response from the Service.  A redirect, or a fault that hits a
\* part of the requests, is a WARN; a direct response or an abort a FAIL, beside
\* a WARN where it hits a part.
answered(tool) ==
    \/ reached' = reached \cup {at} /\ Report(tool, {})
    \/ reached' = reached \cup {at} /\ Report(tool \cup Warn, {})
    \/ reached' = reached \cup {at} /\ Report(tool \cup Warn, {"Istio"})
    \/ \E warned \in SUBSET Warn : UNCHANGED reached /\ Report(tool \cup {"FAIL"} \cup warned, {"Istio"})

UnreachableDiagnosed ==
    /\ ~Diagnosed("policy") /\ ~Diagnosed("targetPort-mismatch") /\ ~Diagnosed("headless")
    /\ ~Diagnosed("backend")
    /\ service.selector \/ service.type = "ExternalName"

\* curl failed.  The text of the error may tell why; else a fault, mutual TLS
\* or a Sidecar may; else the path is to blame, unless an earlier layer was.
failed(tool) ==
    \/ Report(tool \cup ProbeWarn, {})
    \/ Report(tool \cup {"FAIL"}, {"HTTP"})
    \/ \E warned \in SUBSET Warn :
          \/ Report(tool \cup {"FAIL"} \cup warned, {"Istio"})
          \/ Report(tool \cup {"FAIL"} \cup warned, When(UnreachableDiagnosed, {"unreachable"}))

\* Without a tool to resolve the name curl is tried all the same.
probeURL ==
    /\ pc = "urls" /\ at \in 1..NumURLs /\ at' = at + 1
    /\ \/ /\ HasName(at) /\ UNCHANGED <<reached, signals>>
          /\ Report({"FAIL"}, When(~Diagnosed("runtime-DNS-resolver"), {"DNS"}))
       \/ \E tool \in SUBSET ProbeWarn :
             /\ tool # {} => HasName(at)
             /\ \/ answeredByEnvoy(tool) /\ UNCHANGED reached
                \/ answered(tool) /\ UNCHANGED signals
                \/ failed(tool) /\ UNCHANGED <<reached, signals>>
    /\ UNCHANGED <<opts, pc, service, deployment, pods, port, source, sourceSide, exit>>

endOfURLs ==
    /\ pc = "urls" /\ at > NumURLs
    /\ pc' = IF DirectPort = 0 \/ pods = <<>> THEN After(pc) ELSE "direct"
    /\ at' = IF DirectPort = 0 \/ pods = <<>> THEN 0 ELSE 1
    /\ UNCHANGED <<opts, service, deployment, pods, port, source, report, reached, signals,
                   sourceSide, exit>>

PodUnreachableWithoutMismatch == ~hasIstioDiagnosis /\ ~Diagnosed("policy")
PodUnreachableDiagnosed ==
    ~hasIstioDiagnosis /\ ~Diagnosed("policy") /\ ~Diagnosed("targetPort-mismatch")

\* A failure after the Service was reached counts for nothing in a mesh.
failedDirectly ==
    \/ Report(ProbeWarn, {})
    \/ IF reached # {} /\ pathHasIstioSidecar THEN Silent
       ELSE \/ Report({"FAIL"}, {"HTTP"})
            \/ ~source.sidecar /\ Report({"FAIL"}, {"Istio"})
            \/ Report({"FAIL"}, When(PodUnreachableDiagnosed, {"pod-unreachable"}))

\* All pods are probed at the same port.
probePod ==
    /\ pc = "direct" /\ at' = IF at < Len(pods) THEN at + 1 ELSE 0
    /\ pc' = IF at < Len(pods) THEN pc ELSE After(pc)
    /\ \/ Silent /\ UNCHANGED signals
       \/ Reachable(pods[at]) /\ answeredByEnvoy({})
       \/ Reachable(pods[at]) /\ failedDirectly /\ UNCHANGED signals
    /\ UNCHANGED <<opts, service, deployment, pods, port, source, reached, sourceSide, exit>>

-------------------------------------------------------------------------------
(* The rest of the report and the exit status.                             *)

checkNodePortAndHost ==
    /\ pc = "nodePort" /\ pc' = After(pc)
    /\ \/ Silent
       \/ /\ ~opts.skipNodePort /\ service # None
          /\ service.type \in {"NodePort", "LoadBalancer"}
          /\ PortFound /\ Selected.tcp /\ Selected.nodePort
          /\ Report(Warn, {}) \/ Report({"FAIL"}, {"other"})
    /\ UNCHANGED <<opts, service, deployment, pods, port, source, at, reached, signals,
                   sourceSide, exit>>

checkEvents ==
    /\ pc = "events" /\ pc' = After(pc)
    /\ Silent \/ Report(Warn, {})
    /\ UNCHANGED <<opts, service, deployment, pods, port, source, at, reached, signals,
                   sourceSide, exit>>

conclude ==
    /\ pc = "conclude" /\ pc' = After(pc)
    /\ Report({}, When(service = None \/ (report.diagnoses = {} /\ "FAIL" \in report.results),
                       {"other"}))
    /\ UNCHANGED <<opts, service, deployment, pods, port, source, at, reached, signals,
                   sourceSide, exit>>

reportHasUnignoredWarn == report.results \ ({"FAIL"} \cup opts.ignored) # {}

\* finishReport: 1 as well when the JSON or the HTML file cannot be written.
finishReport ==
    /\ pc = "finish" /\ pc' = "exited"
    /\ \/ exit' = 1
       \/ exit' = IF "FAIL" \in report.results \/ (opts.failOnWarn /\ reportHasUnignoredWarn)
                  THEN 1 ELSE 0
    /\ UNCHANGED <<opts, service, deployment, pods, port, source, report, at, reached, signals,
                   sourceSide>>

Next ==
    \/ checkCluster \/ checkService \/ checkDeployment \/ checkTargetPods \/ checkEndpoints
    \/ checkTargetPort \/ checkSource \/ checkNativeNetworkPolicies \/ checkCniPolicies
    \/ checkMTUPath \/ checkRuntimePath \/ probeURL \/ endOfURLs \/ probePod
    \/ checkNodePortAndHost \/ checkEvents \/ conclude \/ finishReport

Spec == Init /\ [][Next]_vars

-------------------------------------------------------------------------------
(* Properties.                                                             *)

\* The variables have their types; the probes have a pod to run in and a port.
TypeOK ==
    /\ opts \in Options
    /\ pc \in Layers
    /\ service \in Services \cup {None}
    /\ deployment \in BOOLEAN
    /\ pods \in PodLists \cup {<<>>}
    /\ port \in 0..MaxPort
    /\ source \in Source \cup {None}
    /\ report \in [results : SUBSET Results, diagnoses : SUBSET Diagnoses]
    /\ at \in Nat
    /\ reached \subseteq {1, 2}
    /\ signals \subseteq Signals
    /\ sourceSide \subseteq Contexts
    /\ exit \in {None, 0, 1}
    /\ pc \in {"urls", "direct"} => source # None /\ service # None /\ PortFound

\* A report that names a cause in the policies, the backends, the ports or the
\* resolver does not blame the path that this cause breaks as well.
RootCauseFirst ==
    /\ Diagnosed("unreachable") =>
          report.diagnoses \cap {"policy", "targetPort-mismatch", "headless", "backend"} = {}
    /\ Diagnosed("pod-unreachable") =>
          report.diagnoses \cap {"policy", "targetPort-mismatch"} = {}
    /\ Diagnosed("Istio-routing") => ~Diagnosed("backend")
    /\ Diagnosed("DNS") => ~Diagnosed("runtime-DNS-resolver")

\* The port of a Service as one pod resolves it.
PodPort(pod) ==
    IF Selected.target \notin PortName THEN {Selected.target}
    ELSE {p.number : p \in {q \in {pod.ports[j] : j \in DOMAIN pod.ports} : q.name = Selected.target}}

PodsAlike == \A i, j \in DOMAIN pods : pods[i].ports = pods[j].ports

\* checkRuntimePath blames the network for a pod that did not answer only when
\* it asked at a port that the Service sends traffic for that pod to.  Pods that
\* differ in their ports are all asked at the port of the first.
DirectBlameIsAboutTargetPort ==
    Diagnosed("pod-unreachable") /\ PodsAlike =>
        \E i \in DOMAIN pods : Reachable(pods[i]) /\ DirectPort \in PodPort(pods[i])

Strict == opts.failOnWarn /\ opts.ignored = {}

\* With --fail-on-warn a run that was to probe a TCP port exits 0 only after it
\* reached every URL of the Service.
GreenMeansReached ==
    exit = 0 /\ Strict /\ opts.sourceBy # "nothing" /\ PortFound /\ Selected.tcp =>
        reached = 1..NumURLs

\* With --fail-on-warn a run that found a primary issue does not exit 0.
PrimaryIssueNeverGreen ==
    exit = 0 /\ Strict => report.diagnoses \subseteq {"ExternalName"}

\* README: KNM checks "ExternalName ... and headless Service behavior".  Every
\* run, of such a Service without ports as well, ends with a report.
EveryRunReports == pc # "panicked"

\* README: --source-context means "Use a different kubeconfig context for the
\* source side."
SourceSideFromSourceContext == sourceSide \subseteq {SourceContext}

===============================================================================
