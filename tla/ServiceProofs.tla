----------------------------- MODULE ServiceProofs -----------------------------
(***************************************************************************)
(* Theorems about ServiceCheck, for any command lines, Services and pods.  *)
(***************************************************************************)
EXTENDS ServiceCheck, SequenceLemmas

-------------------------------------------------------------------------------
(* Every diagnosis of an issue comes with a result that is not green.      *)

Issues == report.diagnoses \ {"ExternalName"}

NotGreen == report.results # {}

Backed == Issues # {} => NotGreen

IssueInv ==
    /\ Backed
    /\ service = None /\ pc \notin {"cluster", "service"} => NotGreen
    /\ pc = "exited" \/ exit = None
    /\ exit = 0 /\ Strict => ~NotGreen

\* What a layer adds is backed if its diagnoses come with a result, or are the
\* remark on an ExternalName, or if there was a result before.
LEMMA ReportBacked ==
    ASSUME NEW R, NEW D, Report(R, D), Backed,
           D \subseteq {"ExternalName"} \/ R # {} \/ NotGreen
    PROVE  Backed' /\ (NotGreen \/ R # {} => NotGreen')
BY DEF Report, Issues, NotGreen, Backed

\* A layer that adds nothing leaves its issues as backed as they were.
LEMMA SilentBacked ==
    ASSUME Silent, Backed
    PROVE  Backed' /\ (NotGreen => NotGreen')
BY DEF Silent, Issues, NotGreen, Backed

\* What the layers call a WARN is a result.
LEMMA WarnsAreResults == Warn # {} /\ DefaultDenyWarn # {} /\ ProbeWarn # {}
BY DEF Warn, DefaultDenyWarn, ProbeWarn

\* Every layer but the one that reads the Service keeps the invariant if what
\* it adds to the report is backed.
LEMMA LayerKeeps ==
    ASSUME IssueInv, Backed', NotGreen => NotGreen', opts' = opts, exit' = exit,
           service' = service, pc # "exited",
           pc' \in {"cluster", "service"} \/ pc \notin {"cluster", "service"}
    PROVE  IssueInv'
BY ServiceAssumption DEF IssueInv, Strict

\* The layers of the target side, but for the one that reads the Service.
LEMMA IssueTarget ==
    ASSUME IssueInv,
           checkCluster \/ checkDeployment \/ checkTargetPods \/ checkEndpoints \/ checkTargetPort
    PROVE  IssueInv'
<1> USE ReportBacked, SilentBacked, WarnsAreResults, LayerKeeps DEF After, Order
<1>0. Backed BY DEF IssueInv
<1>1. CASE checkCluster
  BY <1>0, <1>1 DEF checkCluster, When
<1>2. CASE checkDeployment
  BY <1>0, <1>2 DEF checkDeployment
<1>3. CASE checkTargetPods
  BY <1>0, <1>3 DEF checkTargetPods, When
<1>4. CASE checkEndpoints
  BY <1>0, <1>4 DEF checkEndpoints
<1>5. CASE checkTargetPort
  BY <1>0, <1>5 DEF checkTargetPort, When
<1> QED BY <1>1, <1>2, <1>3, <1>4, <1>5

\* The layers of the source and of its policies.
LEMMA IssueSource ==
    ASSUME IssueInv,
           checkSource \/ checkNativeNetworkPolicies \/ checkCniPolicies \/ checkMTUPath
    PROVE  IssueInv'
<1> USE ReportBacked, SilentBacked, WarnsAreResults, LayerKeeps DEF After, Order
<1>0. Backed BY DEF IssueInv
<1>1. CASE checkSource
  BY <1>0, <1>1 DEF checkSource, debugSource, namedSource
<1>2. CASE checkNativeNetworkPolicies
  <2>1. CASE Report(Warn, {})
    BY <1>0, <1>2, <2>1 DEF checkNativeNetworkPolicies
  <2>2. ASSUME NEW warned \in BOOLEAN, NEW selected \in BOOLEAN,
               NEW denied \in SUBSET {"egress", "ingress"},
               Report(When(warned \/ selected, Warn) \cup When(denied # {}, DefaultDenyWarn),
                      When(denied # {} \/ (source = None /\ selected), {"policy"}))
        PROVE  Backed' /\ (NotGreen => NotGreen')
    <3> DEFINE R == When(warned \/ selected, Warn) \cup When(denied # {}, DefaultDenyWarn)
               D == When(denied # {} \/ (source = None /\ selected), {"policy"})
    <3>1. D \subseteq {"ExternalName"} \/ R # {} BY DEF When
    <3> HIDE DEF R, D
    <3> QED BY <1>0, <2>2, <3>1 DEF R, D
  <2> QED BY <1>2, <2>1, <2>2 DEF checkNativeNetworkPolicies
<1>3. CASE checkCniPolicies
  BY <1>0, <1>3 DEF checkCniPolicies
<1>4. CASE checkMTUPath
  BY <1>0, <1>4 DEF checkMTUPath
<1> QED BY <1>1, <1>2, <1>3, <1>4

\* Reading resolv.conf, and the probes of the URLs and of the pods.
LEMMA IssueProbes ==
    ASSUME IssueInv, checkRuntimePath \/ probeURL \/ endOfURLs \/ probePod
    PROVE  IssueInv'
<1> USE ReportBacked, SilentBacked, WarnsAreResults, LayerKeeps DEF After, Order
<1>0. Backed BY DEF IssueInv
<1>1. CASE checkRuntimePath
  BY <1>0, <1>1 DEF checkRuntimePath
<1>2. ASSUME NEW tool, answeredByEnvoy(tool)
      PROVE  Backed' /\ (NotGreen => NotGreen')
  BY <1>0, <1>2 DEF answeredByEnvoy
<1>3. CASE probeURL
  <2>1. ASSUME NEW tool, answered(tool)
        PROVE  Backed' /\ (NotGreen => NotGreen')
    BY <1>0, <2>1 DEF answered
  <2>2. ASSUME NEW tool, failed(tool)
        PROVE  Backed' /\ (NotGreen => NotGreen')
    BY <1>0, <2>2 DEF failed
  <2>3. Backed' /\ (NotGreen => NotGreen')
    BY <1>0, <1>2, <1>3, <2>1, <2>2 DEF probeURL
  <2> QED BY <1>3, <2>3 DEF probeURL
<1>4. CASE endOfURLs
  BY <1>0, <1>4 DEF endOfURLs, Silent
<1>5. CASE probePod
  <2>1. ASSUME failedDirectly PROVE Backed' /\ (NotGreen => NotGreen')
    BY <1>0, <2>1 DEF failedDirectly
  <2>2. Backed' /\ (NotGreen => NotGreen')
    BY <1>0, <1>2, <1>5, <2>1 DEF probePod
  <2> QED BY <1>5, <2>2 DEF probePod
<1> QED BY <1>1, <1>3, <1>4, <1>5

\* The rest of the report and the exit status.
LEMMA IssueEnd ==
    ASSUME IssueInv, checkNodePortAndHost \/ checkEvents \/ conclude \/ finishReport
    PROVE  IssueInv'
<1> USE ReportBacked, SilentBacked, WarnsAreResults, LayerKeeps DEF After, Order
<1>0. Backed BY DEF IssueInv
<1>1. CASE checkNodePortAndHost
  BY <1>0, <1>1 DEF checkNodePortAndHost
<1>2. CASE checkEvents
  BY <1>0, <1>2 DEF checkEvents
<1>3. CASE conclude
  <2>1. service = None \/ (report.diagnoses = {} /\ "FAIL" \in report.results) => NotGreen
    BY <1>3 DEF IssueInv, conclude, NotGreen
  <2> QED BY <1>0, <1>3, <2>1 DEF conclude, When
<1>4. CASE finishReport
  <2>1. exit' = 0 /\ Strict => ~NotGreen
    BY <1>4 DEF finishReport, NotGreen, Strict, reportHasUnignoredWarn
  <2> QED BY <1>4, <2>1 DEF finishReport, IssueInv, Backed, Issues, NotGreen, Strict
<1> QED BY <1>1, <1>2, <1>3, <1>4

\* The layer that reads the Service leaves a FAIL if it cannot.
LEMMA IssueService ==
    ASSUME IssueInv, checkService
    PROVE  IssueInv'
<1> USE ReportBacked, WarnsAreResults DEF After, Order
<1>0. Backed BY DEF IssueInv
<1>1. Backed' /\ (NotGreen => NotGreen')
  BY <1>0 DEF checkService, When
<1>2. service' = None => NotGreen'
  BY <1>0, ServiceAssumption DEF checkService
<1> QED BY <1>1, <1>2, ServiceAssumption DEF checkService, IssueInv

LEMMA IssueInvariant == Spec => []IssueInv
<1>1. Init => IssueInv
  BY ServiceAssumption DEF Init, IssueInv, Backed, Issues, NotGreen
<1>2. IssueInv /\ [Next]_vars => IssueInv'
  <2> SUFFICES ASSUME IssueInv, [Next]_vars PROVE IssueInv' OBVIOUS
  <2>1. CASE Next
    BY <2>1, IssueTarget, IssueSource, IssueProbes, IssueEnd, IssueService DEF Next
  <2>2. CASE UNCHANGED vars
    BY <2>2 DEF vars, IssueInv, Backed, Issues, NotGreen, Strict
  <2> QED BY <2>1, <2>2
<1> QED BY <1>1, <1>2, PTL DEF Spec

\* PrimaryIssueNeverGreen: with --fail-on-warn a run that diagnosed an issue
\* does not exit 0, for any command line, Service and pods.
THEOREM IssueIsNotGreen == Spec => []PrimaryIssueNeverGreen
<1>1. IssueInv => PrimaryIssueNeverGreen
  BY DEF IssueInv, Backed, Issues, NotGreen, PrimaryIssueNeverGreen
<1> QED BY <1>1, IssueInvariant, PTL

-------------------------------------------------------------------------------
(* Causes are diagnosed before the probes, symptoms by the probes.         *)

Causes == {"policy", "targetPort-mismatch", "headless", "backend", "runtime-DNS-resolver"}

Symptoms == {"unreachable", "pod-unreachable", "Istio-routing", "DNS"}

NoSymptom == report.diagnoses \cap Symptoms = {}

BeforeProbes == {"cluster", "service", "deployment", "pods", "endpoints", "port", "source",
                 "native", "cni", "mtu", "runtime"}

CauseInv ==
    /\ RootCauseFirst
    /\ pc \in BeforeProbes => NoSymptom

\* A symptom that is added with the guard its code has contradicts no cause.
Guarded(D) ==
    /\ "unreachable" \in D => UnreachableDiagnosed
    /\ "pod-unreachable" \in D => PodUnreachableDiagnosed
    /\ "Istio-routing" \in D => ~Diagnosed("backend")
    /\ "DNS" \in D => ~Diagnosed("runtime-DNS-resolver")

\* Before the probes no layer adds a symptom.
LEMMA CauseAdded ==
    ASSUME NEW R, NEW D, Report(R, D), NoSymptom, D \cap Symptoms = {}
    PROVE  NoSymptom'
BY DEF Report, NoSymptom

\* A symptom that is added under its guard breaks no promise, nor does any
\* diagnosis that is neither a cause nor a symptom.
LEMMA SymptomAdded ==
    ASSUME NEW R, NEW D, Report(R, D), RootCauseFirst, D \cap Causes = {}, Guarded(D)
    PROVE  RootCauseFirst'
BY DEF Report, RootCauseFirst, Diagnosed, Guarded, Causes, UnreachableDiagnosed,
       PodUnreachableDiagnosed

\* A layer that adds nothing breaks nothing.
LEMMA SilentKeeps ==
    ASSUME Silent
    PROVE  (NoSymptom => NoSymptom') /\ (RootCauseFirst => RootCauseFirst')
BY DEF Silent, NoSymptom, RootCauseFirst, Diagnosed

\* Without a symptom there is nothing to contradict.
LEMMA NoSymptomSuffices == NoSymptom => RootCauseFirst
BY DEF NoSymptom, Symptoms, RootCauseFirst, Diagnosed

\* The layers of the target side add no symptom.
LEMMA CauseTarget ==
    ASSUME CauseInv,
           \/ checkCluster \/ checkService \/ checkDeployment \/ checkTargetPods
           \/ checkEndpoints \/ checkTargetPort
    PROVE  NoSymptom'
<1> USE CauseAdded, SilentKeeps DEF Symptoms, When
<1>0. NoSymptom
  BY DEF CauseInv, BeforeProbes, checkCluster, checkService, checkDeployment, checkTargetPods,
         checkEndpoints, checkTargetPort
<1>1. CASE checkCluster
  BY <1>0, <1>1 DEF checkCluster
<1>2. CASE checkService
  BY <1>0, <1>2 DEF checkService
<1>3. CASE checkDeployment
  BY <1>0, <1>3 DEF checkDeployment
<1>4. CASE checkTargetPods
  BY <1>0, <1>4 DEF checkTargetPods
<1>5. CASE checkEndpoints
  BY <1>0, <1>5 DEF checkEndpoints
<1>6. CASE checkTargetPort
  BY <1>0, <1>6 DEF checkTargetPort
<1> QED BY <1>1, <1>2, <1>3, <1>4, <1>5, <1>6

\* The layers of the source and of its policies add no symptom.
LEMMA CauseSource ==
    ASSUME CauseInv,
           checkSource \/ checkNativeNetworkPolicies \/ checkCniPolicies \/ checkMTUPath
    PROVE  NoSymptom'
<1> USE CauseAdded, SilentKeeps DEF Symptoms, When
<1>0. NoSymptom
  BY DEF CauseInv, BeforeProbes, checkSource, checkNativeNetworkPolicies, checkCniPolicies,
         checkMTUPath
<1>1. CASE checkSource
  BY <1>0, <1>1 DEF checkSource, debugSource, namedSource
<1>2. CASE checkNativeNetworkPolicies
  BY <1>0, <1>2 DEF checkNativeNetworkPolicies
<1>3. CASE checkCniPolicies
  BY <1>0, <1>3 DEF checkCniPolicies
<1>4. CASE checkMTUPath
  BY <1>0, <1>4 DEF checkMTUPath
<1> QED BY <1>1, <1>2, <1>3, <1>4

\* The diagnoses of a finding.
LEMMA FindingDiagnoses ==
    ASSUME NEW R, NEW D
    PROVE  Finding(R, D).diagnoses = D
BY DEF Finding

\* A signal of Envoy is no cause, and its routing is blamed only when the
\* backends are not.
LEMMA SignalsAddSymptoms ==
    ASSUME NEW signal \in Signals, NEW f \in SignalFindings(signal) \cup {Nothing}
    PROVE  f.diagnoses \cap Causes = {} /\ Guarded(f.diagnoses) /\ "pod-unreachable" \notin f.diagnoses
<1> DEFINE Cites(d) == f.diagnoses = d
<1> USE FindingDiagnoses DEF Nothing
<1>1. Cites({}) \/ Cites({"Istio"}) \/ (Cites({"Istio-routing"}) /\ ~Diagnosed("backend"))
  <2>0. CASE f = Nothing
    BY <2>0
  <2>1. CASE signal = "rbac-denied" /\ f \in SignalFindings(signal)
    <3>1. f \in {Finding({"FAIL"}, {"Istio"}), Finding({"FAIL"} \cup Warn, {"Istio"}),
                 Finding(Warn, {"Istio"}), Finding(Warn, {})}
      BY <2>1, Zenon DEF SignalFindings
    <3> QED BY <3>1
  <2>2. CASE signal = "jwt-denied" /\ f \in SignalFindings(signal)
    <3>1. f \in {Finding({"FAIL"}, {"Istio"}), Finding({"FAIL"} \cup Warn, {"Istio"}),
                 Finding(Warn, {}), Nothing}
      BY <2>2 DEF SignalFindings
    <3> QED BY <3>1
  <2>3. CASE signal = "no-healthy-upstream" /\ f \in SignalFindings(signal)
    <3>1. SignalFindings("no-healthy-upstream") =
              {Nothing} \cup When(~Diagnosed("backend"),
                  {Finding(Warn, {})} \cup {Finding(r, {"Istio-routing"}) : r \in {{"FAIL"}, Warn}})
      BY DEF SignalFindings
    <3>2. f = Nothing \/ f = Finding(Warn, {}) \/
          (~Diagnosed("backend") /\ \E r : f = Finding(r, {"Istio-routing"}))
      BY <2>3, <3>1 DEF When
    <3> QED BY <3>2
  <2>4. CASE signal = "upstream-reset" /\ f \in SignalFindings(signal)
    <3>1. SignalFindings("upstream-reset") =
              When(source.sidecar, {Finding({"FAIL"}, {"Istio"})}) \cup
                  (IF hasIstioDiagnosis THEN {Nothing} ELSE {Finding(Warn, {"Istio"})})
      BY DEF SignalFindings
    <3> QED BY <2>4, <3>1 DEF When
  <2> QED BY <2>0, <2>1, <2>2, <2>3, <2>4 DEF Signals
<1> HIDE DEF Cites
<1> QED BY <1>1 DEF Cites, Causes, Guarded

\* So an answer of Envoy keeps the promise.
LEMMA EnvoyAddsSymptoms ==
    ASSUME NEW tool, answeredByEnvoy(tool), RootCauseFirst
    PROVE  RootCauseFirst'
<1>1. PICK signal \in Signals :
         \E f \in IF signal \in signals THEN {Nothing} ELSE SignalFindings(signal) :
            Report(tool \cup {"FAIL"} \cup f.results, f.diagnoses)
  BY DEF answeredByEnvoy
<1>2. PICK f \in SignalFindings(signal) \cup {Nothing} :
         Report(tool \cup {"FAIL"} \cup f.results, f.diagnoses)
  BY <1>1
<1> QED BY <1>2, SignalsAddSymptoms, SymptomAdded

\* So do a response and a failure of curl.
LEMMA CurlAddsSymptoms ==
    ASSUME NEW tool, answered(tool) \/ failed(tool), RootCauseFirst
    PROVE  RootCauseFirst'
<1>1. \E R, D : Report(R, D) /\ (D = {} \/ D = {"HTTP"} \/ D = {"Istio"} \/
                                 (D = {"unreachable"} /\ UnreachableDiagnosed))
  <2>1. CASE answered(tool)
    BY <2>1, Zenon DEF answered
  <2>2. CASE failed(tool)
    BY <2>2, Zenon DEF failed, When
  <2> QED BY <2>1, <2>2
<1> QED BY <1>1, SymptomAdded DEF Causes, Guarded

\* The probes add no cause, and each symptom under its guard.
LEMMA CauseProbes ==
    ASSUME CauseInv, checkRuntimePath \/ probeURL \/ endOfURLs \/ probePod
    PROVE  CauseInv'
<1> USE SymptomAdded, SilentKeeps DEF Causes, Guarded, When
<1>0. RootCauseFirst BY DEF CauseInv
<1>1. CASE checkRuntimePath
  <2>0. NoSymptom BY <1>1 DEF CauseInv, BeforeProbes, checkRuntimePath
  <2>1. RootCauseFirst' BY <1>0, <1>1 DEF checkRuntimePath
  <2>2. pc' \notin BeforeProbes
    BY <1>1 DEF checkRuntimePath, BeforeProbes, After, Order
  <2> QED BY <2>1, <2>2 DEF CauseInv
<1>2. CASE probeURL
  <2>1. RootCauseFirst'
    BY <1>0, <1>2, CurlAddsSymptoms, EnvoyAddsSymptoms DEF probeURL
  <2> QED BY <1>2, <2>1 DEF probeURL, CauseInv, BeforeProbes
<1>3. CASE endOfURLs
  <2>1. RootCauseFirst' BY <1>0, <1>3 DEF endOfURLs, Silent
  <2> QED BY <1>3, <2>1 DEF endOfURLs, CauseInv, BeforeProbes, After, Order
<1>4. CASE probePod
  <2>1. ASSUME failedDirectly PROVE RootCauseFirst'
    BY <1>0, <2>1 DEF failedDirectly
  <2>2. RootCauseFirst'
    BY <1>0, <1>4, <2>1, EnvoyAddsSymptoms DEF probePod
  <2> QED BY <1>4, <2>2 DEF probePod, CauseInv, BeforeProbes, After, Order
<1> QED BY <1>1, <1>2, <1>3, <1>4

\* After the probes nothing that matters here is diagnosed.
LEMMA CauseEnd ==
    ASSUME CauseInv, checkNodePortAndHost \/ checkEvents \/ conclude \/ finishReport
    PROVE  CauseInv'
<1> USE SymptomAdded, SilentKeeps DEF Causes, Guarded, When, CauseInv, BeforeProbes, After, Order
<1>0. RootCauseFirst OBVIOUS
<1>1. CASE checkNodePortAndHost
  BY <1>0, <1>1 DEF checkNodePortAndHost
<1>2. CASE checkEvents
  BY <1>0, <1>2 DEF checkEvents
<1>3. CASE conclude
  BY <1>0, <1>3 DEF conclude
<1>4. CASE finishReport
  BY <1>0, <1>4 DEF finishReport, Silent
<1> QED BY <1>1, <1>2, <1>3, <1>4

LEMMA CauseInvariant == Spec => []CauseInv
<1>1. Init => CauseInv
  BY NoSymptomSuffices DEF Init, CauseInv, NoSymptom
<1>2. CauseInv /\ [Next]_vars => CauseInv'
  <2> SUFFICES ASSUME CauseInv, [Next]_vars PROVE CauseInv' OBVIOUS
  <2>1. NoSymptom' => CauseInv'
    BY NoSymptomSuffices DEF NoSymptom, RootCauseFirst, Diagnosed, Symptoms, CauseInv
  <2>2. CASE Next
    BY <2>1, <2>2, CauseTarget, CauseSource, CauseProbes, CauseEnd DEF Next
  <2>3. CASE UNCHANGED vars
    BY <2>3 DEF vars, CauseInv, RootCauseFirst, Diagnosed, NoSymptom
  <2> QED BY <2>2, <2>3
<1> QED BY <1>1, <1>2, PTL DEF Spec

\* RootCauseFirst: a report that names a cause never blames the path that this
\* cause breaks too, for any command line, Service and pods.
THEOREM CausesFirst == Spec => []RootCauseFirst
<1>1. CauseInv => RootCauseFirst
  BY DEF CauseInv
<1> QED BY <1>1, CauseInvariant, PTL

-------------------------------------------------------------------------------
(* The port of the Service.                                                *)

\* The port that selectServicePort returns is the first of those listed.
LEMMA SelectedIsFirst ==
    ASSUME service \in Services \cup {None}, PortFound
    PROVE  /\ service \in Service
           /\ \E i \in DOMAIN service.ports :
                 /\ i \in Listed(port) /\ \A j \in Listed(port) : i <= j
                 /\ Selected = service.ports[i] /\ Selected \in ServicePort
<1>1. service \in Service /\ service.ports \in Seq(ServicePort)
  BY ServiceAssumption DEF PortFound, Service
<1>2. Listed(port) \subseteq DOMAIN service.ports
  BY <1>1 DEF PortFound, Panics, Listed
<1>3. Listed(port) \in SUBSET Nat /\ Listed(port) # {}
  BY <1>1, <1>2 DEF PortFound
<1>4. \E i \in Listed(port) : \A j \in Listed(port) : i <= j
  BY <1>3, LeastNat
<1> DEFINE first == CHOOSE i \in Listed(port) : \A j \in Listed(port) : i <= j
<1>5. first \in Listed(port) /\ \A j \in Listed(port) : first <= j
  BY <1>4
<1>6. Selected = service.ports[first] BY DEF Selected
<1> HIDE DEF first
<1> QED BY <1>1, <1>2, <1>5, <1>6

-------------------------------------------------------------------------------
(* Types.                                                                  *)

ReportTyped == report \in [results : SUBSET Results, diagnoses : SUBSET Diagnoses]

\* What a layer adds has the types of results and diagnoses.
LEMMA ReportAdded ==
    ASSUME NEW R, NEW D, Report(R, D), ReportTyped, R \subseteq Results, D \subseteq Diagnoses
    PROVE  ReportTyped'
BY DEF Report, ReportTyped

\* What the layers call a FAIL or a WARN is a result, and the causes they name
\* are diagnoses.
LEMMA WordsTyped ==
    /\ "FAIL" \in Results /\ Warn \subseteq Results /\ DefaultDenyWarn \subseteq Results
    /\ ProbeWarn \subseteq Results
    /\ "policy" \in Diagnoses /\ "runtime-DNS-resolver" \in Diagnoses
    /\ "targetPort-mismatch" \in Diagnoses /\ "headless" \in Diagnoses /\ "backend" \in Diagnoses
    /\ "Istio" \in Diagnoses /\ "Istio-routing" \in Diagnoses /\ "DNS" \in Diagnoses
    /\ "HTTP" \in Diagnoses /\ "unreachable" \in Diagnoses /\ "pod-unreachable" \in Diagnoses
    /\ "ExternalName" \in Diagnoses /\ "other" \in Diagnoses
BY DEF Warn, DefaultDenyWarn, ProbeWarn, Results, Diagnoses

\* No layer goes on to the probes but the one that begins them.
LEMMA AfterTyped ==
    ASSUME NEW layer, layer \in Layers \ {"finish", "exited", "panicked"}
    PROVE  After(layer) \in Layers \ {"urls", "direct"}
BY DEF After, Order, Layers

\* A layer that leaves Service and port alone and does not begin to probe keeps
\* the types if it keeps those of what it sets.
LEMMA LayerTyped ==
    ASSUME TypeOK, ReportTyped', UNCHANGED <<opts, at, reached, signals, exit>>,
           pc \notin {"finish", "exited", "panicked"}, pc' = After(pc),
           service' \in Services \cup {None}, deployment' \in BOOLEAN,
           pods' \in PodLists \cup {<<>>}, port' \in 0..MaxPort, source' \in Source \cup {None},
           sourceSide' \subseteq Contexts
    PROVE  TypeOK'
<1>1. pc' \in Layers \ {"urls", "direct"} BY AfterTyped DEF TypeOK
<1> QED BY <1>1 DEF TypeOK, ReportTyped

\* The layers of the target side.
LEMMA TypeTarget ==
    ASSUME TypeOK,
           \/ checkCluster \/ checkService \/ checkDeployment \/ checkTargetPods
           \/ checkEndpoints \/ checkTargetPort
    PROVE  TypeOK'
<1>0. ReportTyped BY DEF TypeOK, ReportTyped
<1>. USE ReportAdded, WordsTyped
<1>1. CASE checkCluster
  <2>1. ReportTyped'
    <3>1. PICK R, D : Report(R, D) /\ R \subseteq {"FAIL"} \cup Warn /\ D \subseteq {"other"}
      BY <1>1 DEF checkCluster, When
    <3> QED BY <1>0, <3>1
  <2>2. sourceSide' \subseteq Contexts
    BY <1>1 DEF checkCluster, TypeOK, When, SourceContext, Contexts
  <2> QED BY <1>1, <2>1, <2>2, LayerTyped DEF checkCluster, TypeOK
<1>2. CASE checkService
  <2>1. ASSUME NEW R, NEW D, Report(R, D), R \subseteq {"FAIL"} \cup Warn,
               D \subseteq {"other", "ExternalName"}
        PROVE  ReportTyped'
    BY <1>0, <2>1
  <2>2. ReportTyped' BY <1>2, <2>1 DEF checkService, When
  <2> QED BY <1>2, <2>2, LayerTyped DEF checkService, TypeOK
<1>3. CASE checkDeployment
  <2>1. ReportTyped' BY <1>0, <1>3 DEF checkDeployment, Silent, ReportTyped
  <2> QED BY <1>3, <2>1, LayerTyped DEF checkDeployment, TypeOK
<1>4. CASE checkTargetPods
  <2>1. CASE Silent
    BY <1>0, <1>4, <2>1, LayerTyped DEF checkTargetPods, TypeOK, Silent, ReportTyped
  <2>2. CASE \E D \in {{}, {"backend"}} : pods' = <<>> /\ Report({"FAIL"}, D)
    <3>1. ReportTyped' BY <1>0, <2>2
    <3> QED BY <1>4, <2>2, <3>1, LayerTyped DEF checkTargetPods, TypeOK
  <2>3. ASSUME NEW list \in PodLists, NEW R, NEW D, pods' = list, Report(R, D),
               R \subseteq {"FAIL"}, D \subseteq {"backend", "other"}
        PROVE  TypeOK'
    <3>1. ReportTyped' BY <1>0, <2>3
    <3> QED BY <1>4, <2>3, <3>1, LayerTyped DEF checkTargetPods, TypeOK
  <2> QED BY <1>4, <2>1, <2>2, <2>3 DEF checkTargetPods, When
<1>5. CASE checkEndpoints
  <2>1. ReportTyped' BY <1>0, <1>5 DEF checkEndpoints, Silent, ReportTyped
  <2> QED BY <1>5, <2>1, LayerTyped DEF checkEndpoints, TypeOK
<1>6. CASE checkTargetPort
  <2>1. ReportTyped' BY <1>0, <1>6 DEF checkTargetPort, When, Silent, ReportTyped
  <2>2. PortFound => Selected.port \in 0..MaxPort
    BY SelectedIsFirst DEF TypeOK, ServicePort
  <2> QED BY <1>6, <2>1, <2>2, LayerTyped DEF checkTargetPort, TypeOK
<1> QED BY <1>1, <1>2, <1>3, <1>4, <1>5, <1>6

\* The layers of the source and of its policies.
LEMMA TypeSource ==
    ASSUME TypeOK, checkSource \/ checkNativeNetworkPolicies \/ checkCniPolicies \/ checkMTUPath
    PROVE  TypeOK'
<1>0. ReportTyped BY DEF TypeOK, ReportTyped
<1>. USE ReportAdded, WordsTyped
<1>1. CASE checkSource
  <2>1. ReportTyped' BY <1>0, <1>1 DEF checkSource, debugSource, namedSource, Silent, ReportTyped
  <2>2. \A s \in BOOLEAN : [context |-> "target", sidecar |-> s] \in Source
                          /\ [context |-> SourceContext, sidecar |-> s] \in Source
    BY DEF Source, Contexts, SourceContext
  <2>3. source' \in Source \cup {None} /\ sourceSide' \subseteq Contexts
    BY <1>1, <2>2 DEF checkSource, debugSource, namedSource, TypeOK, SourceContext, Contexts
  <2> QED BY <1>1, <2>1, <2>3, LayerTyped DEF checkSource, TypeOK
<1>2. CASE checkNativeNetworkPolicies
  <2>1. ASSUME NEW R, NEW D, Report(R, D), R \subseteq Warn \cup DefaultDenyWarn, D \subseteq {"policy"}
        PROVE  ReportTyped'
    BY <1>0, <2>1
  <2>2. ASSUME NEW warned \in BOOLEAN, NEW selected \in BOOLEAN, NEW denied,
               Report(When(warned \/ selected, Warn) \cup When(denied # {}, DefaultDenyWarn),
                      When(denied # {} \/ (source = None /\ selected), {"policy"}))
        PROVE  ReportTyped'
    <3> DEFINE R == When(warned \/ selected, Warn) \cup When(denied # {}, DefaultDenyWarn)
               D == When(denied # {} \/ (source = None /\ selected), {"policy"})
    <3>1. R \subseteq Warn \cup DefaultDenyWarn /\ D \subseteq {"policy"} BY DEF When
    <3> HIDE DEF R, D
    <3> QED BY <2>1, <2>2, <3>1 DEF R, D
  <2>3. ReportTyped'
    BY <1>2, <2>1, <2>2 DEF checkNativeNetworkPolicies
  <2>4. sourceSide' \subseteq Contexts
    BY <1>2 DEF checkNativeNetworkPolicies, TypeOK, When, Contexts
  <2> QED BY <1>2, <2>3, <2>4, LayerTyped DEF checkNativeNetworkPolicies, TypeOK
<1>3. CASE checkCniPolicies
  <2>1. Silent => ReportTyped'
    BY <1>0 DEF Silent, ReportTyped
  <2>2. \A R, D : Report(R, D) /\ R \subseteq {"FAIL"} \cup Warn
                       /\ D \subseteq {"policy", "runtime-DNS-resolver"} => ReportTyped'
    BY <1>0
  <2>3. ReportTyped'
    BY <1>3, <2>1, <2>2 DEF checkCniPolicies
  <2>4. sourceSide' \subseteq Contexts BY <1>3 DEF checkCniPolicies, TypeOK, Contexts
  <2> QED BY <1>3, <2>3, <2>4, LayerTyped DEF checkCniPolicies, TypeOK
<1>4. CASE checkMTUPath
  <2>1. ReportTyped' BY <1>0, <1>4 DEF checkMTUPath, Silent, ReportTyped
  <2> QED BY <1>4, <2>1, LayerTyped DEF checkMTUPath, TypeOK
<1> QED BY <1>1, <1>2, <1>3, <1>4

\* What a signal of Envoy adds.
LEMMA FindingsTyped ==
    ASSUME NEW signal \in Signals, NEW f \in SignalFindings(signal) \cup {Nothing}
    PROVE  f.results \subseteq Results /\ f.diagnoses \subseteq Diagnoses
<1> DEFINE Typed(g) == g.results \subseteq Results /\ g.diagnoses \subseteq Diagnoses
<1>1. Typed(Nothing) BY DEF Nothing, Finding
<1>2. ASSUME NEW R, NEW D, R \subseteq {"FAIL"} \cup Warn, D \subseteq {"Istio", "Istio-routing"}
      PROVE  Typed(Finding(R, D))
  BY <1>2, WordsTyped DEF Finding
<1>3. \A g \in SignalFindings("rbac-denied") : Typed(g)
  <2>1. Typed(Finding({"FAIL"}, {"Istio"})) /\ Typed(Finding({"FAIL"} \cup Warn, {"Istio"}))
        /\ Typed(Finding(Warn, {"Istio"})) /\ Typed(Finding(Warn, {}))
    BY <1>2
  <2> HIDE DEF Typed
  <2> QED BY <2>1 DEF SignalFindings
<1>4. \A g \in SignalFindings("jwt-denied") : Typed(g)
  <2>1. Typed(Finding({"FAIL"}, {"Istio"})) /\ Typed(Finding({"FAIL"} \cup Warn, {"Istio"}))
        /\ Typed(Finding(Warn, {}))
    BY <1>2
  <2> HIDE DEF Typed
  <2> QED BY <1>1, <2>1 DEF SignalFindings
<1>5. \A g \in SignalFindings("no-healthy-upstream") : Typed(g)
  <2>1. Typed(Finding({"FAIL"}, {"Istio-routing"})) /\ Typed(Finding(Warn, {"Istio-routing"}))
        /\ Typed(Finding(Warn, {}))
    BY <1>2
  <2> HIDE DEF Typed
  <2> QED BY <1>1, <2>1 DEF SignalFindings, When
<1>6. \A g \in SignalFindings("upstream-reset") : Typed(g)
  <2>1. Typed(Finding({"FAIL"}, {"Istio"})) /\ Typed(Finding(Warn, {"Istio"}))
    BY <1>2
  <2> HIDE DEF Typed
  <2> QED BY <1>1, <2>1 DEF SignalFindings, When
<1> HIDE DEF Typed
<1>7. Typed(f) BY <1>1, <1>3, <1>4, <1>5, <1>6 DEF Signals
<1> QED BY <1>7 DEF Typed

\* So an answer of Envoy keeps the types.
LEMMA EnvoyTyped ==
    ASSUME NEW tool, tool \subseteq ProbeWarn, answeredByEnvoy(tool), ReportTyped, signals \subseteq Signals
    PROVE  ReportTyped' /\ signals' \subseteq Signals
<1>1. PICK signal \in Signals : signals' = signals \cup {signal}
         /\ \E f \in SignalFindings(signal) \cup {Nothing} :
               Report(tool \cup {"FAIL"} \cup f.results, f.diagnoses)
  BY DEF answeredByEnvoy
<1>2. PICK f \in SignalFindings(signal) \cup {Nothing} :
         Report(tool \cup {"FAIL"} \cup f.results, f.diagnoses)
  BY <1>1
<1>3. f.results \subseteq Results /\ f.diagnoses \subseteq Diagnoses BY FindingsTyped
<1> QED BY <1>1, <1>2, <1>3, ReportAdded, WordsTyped

\* While the path is probed nothing of what chose it changes.
LEMMA ProbeTyped ==
    ASSUME TypeOK, ReportTyped', pc' \in Layers, at' \in Nat, reached' \subseteq {1, 2}, signals' \subseteq Signals,
           UNCHANGED <<opts, service, deployment, pods, port, source, sourceSide, exit>>,
           pc' \in {"urls", "direct"} => source # None /\ service # None /\ PortFound
    PROVE  TypeOK'
<1>1. PortFound' <=> PortFound BY DEF PortFound, Panics, Listed
<1> QED BY <1>1 DEF TypeOK, ReportTyped

\* Reading resolv.conf, and the probes of the URLs and of the pods.
LEMMA TypeProbes ==
    ASSUME TypeOK, checkRuntimePath \/ probeURL \/ endOfURLs \/ probePod
    PROVE  TypeOK'
<1>0. ReportTyped /\ signals \subseteq Signals BY DEF TypeOK, ReportTyped
<1>1. CASE checkRuntimePath
  <2>1. Silent => ReportTyped' BY <1>0 DEF Silent, ReportTyped
  <2>2. \A R, D : Report(R, D) /\ R \subseteq Warn /\ D \subseteq {"Istio-routing"} => ReportTyped'
    BY <1>0, ReportAdded, WordsTyped
  <2>3. ReportTyped' BY <1>1, <2>1, <2>2 DEF checkRuntimePath
  <2>4. pc' \in Layers /\ at' \in Nat BY <1>1 DEF checkRuntimePath, TypeOK, Layers, After, Order
  <2>5. pc' \in {"urls", "direct"} => Probed BY <1>1 DEF checkRuntimePath, After, Order
  <2> QED BY <1>0, <1>1, <2>3, <2>4, <2>5, ProbeTyped DEF checkRuntimePath, Probed, PortFound, TypeOK
<1>2. CASE probeURL
  <2>1. at \in {1, 2} /\ at' \in Nat BY <1>2 DEF probeURL, NumURLs
  <2>2. ASSUME NEW R, NEW D, Report(R, D), R \subseteq {"FAIL"} \cup Warn \cup ProbeWarn,
               D \subseteq {"DNS", "Istio", "HTTP", "unreachable"}
        PROVE  ReportTyped'
    BY <1>0, <2>2, ReportAdded, WordsTyped
  <2>3. ASSUME NEW tool \in SUBSET ProbeWarn, answeredByEnvoy(tool), UNCHANGED reached
        PROVE  ReportTyped' /\ reached' \subseteq {1, 2} /\ signals' \subseteq Signals
    BY <1>0, <2>3, EnvoyTyped DEF TypeOK
  <2>4. ASSUME NEW tool \in SUBSET ProbeWarn, answered(tool), UNCHANGED signals
        PROVE  ReportTyped' /\ reached' \subseteq {1, 2} /\ signals' \subseteq Signals
    BY <1>0, <2>1, <2>2, <2>4 DEF TypeOK, answered
  <2>5. ASSUME NEW tool \in SUBSET ProbeWarn, failed(tool), UNCHANGED <<reached, signals>>
        PROVE  ReportTyped' /\ reached' \subseteq {1, 2} /\ signals' \subseteq Signals
    BY <1>0, <2>2, <2>5 DEF TypeOK, failed, When
  <2>6. ReportTyped' /\ reached' \subseteq {1, 2} /\ signals' \subseteq Signals
    BY <1>0, <1>2, <2>2, <2>3, <2>4, <2>5 DEF TypeOK, probeURL, When
  <2> QED BY <1>2, <2>1, <2>6, ProbeTyped DEF probeURL, TypeOK
<1>3. CASE endOfURLs
  <2>1. ReportTyped' BY <1>0, <1>3 DEF endOfURLs, ReportTyped
  <2>2. pc' \in Layers /\ at' \in Nat BY <1>3 DEF endOfURLs, Layers, After, Order
  <2> QED BY <1>3, <2>1, <2>2, ProbeTyped DEF endOfURLs, TypeOK
<1>4. CASE probePod
  <2>1. Silent => ReportTyped' BY <1>0 DEF Silent, ReportTyped
  <2>2. ASSUME NEW R, NEW D, Report(R, D), R \subseteq {"FAIL"} \cup ProbeWarn,
               D \subseteq {"HTTP", "Istio", "pod-unreachable"}
        PROVE  ReportTyped'
    BY <1>0, <2>2, ReportAdded, WordsTyped
  <2>3. failedDirectly => ReportTyped' BY <2>1, <2>2 DEF failedDirectly, When
  <2>4. answeredByEnvoy({}) => ReportTyped' /\ signals' \subseteq Signals BY <1>0, EnvoyTyped
  <2>5. ReportTyped' /\ signals' \subseteq Signals BY <1>0, <1>4, <2>1, <2>3, <2>4 DEF probePod
  <2>6. pc' \in Layers /\ at' \in Nat
    BY <1>4 DEF probePod, TypeOK, Layers, After, Order
  <2> QED BY <1>4, <2>5, <2>6, ProbeTyped DEF probePod, TypeOK
<1> QED BY <1>1, <1>2, <1>3, <1>4

\* The rest of the report and the exit status.
LEMMA TypeEnd ==
    ASSUME TypeOK, checkNodePortAndHost \/ checkEvents \/ conclude \/ finishReport
    PROVE  TypeOK'
<1>0. ReportTyped BY DEF TypeOK, ReportTyped
<1>1. Silent => ReportTyped' BY <1>0 DEF Silent, ReportTyped
<1>2. ASSUME NEW R, NEW D, Report(R, D), R \subseteq {"FAIL"} \cup Warn, D \subseteq {"other"}
      PROVE  ReportTyped'
  BY <1>0, <1>2, ReportAdded, WordsTyped
<1>3. CASE checkNodePortAndHost
  <2>1. ReportTyped' BY <1>1, <1>2, <1>3 DEF checkNodePortAndHost
  <2> QED BY <1>3, <2>1, LayerTyped DEF checkNodePortAndHost, TypeOK
<1>4. CASE checkEvents
  <2>1. ReportTyped' BY <1>1, <1>2, <1>4 DEF checkEvents
  <2> QED BY <1>4, <2>1, LayerTyped DEF checkEvents, TypeOK
<1>5. CASE conclude
  <2>1. ReportTyped' BY <1>1, <1>2, <1>5 DEF conclude, When
  <2> QED BY <1>5, <2>1, LayerTyped DEF conclude, TypeOK
<1>6. CASE finishReport
  <2>1. exit' \in {0, 1} BY <1>6 DEF finishReport
  <2> QED BY <1>6, <2>1 DEF finishReport, TypeOK, Layers
<1> QED BY <1>3, <1>4, <1>5, <1>6

LEMMA TypeStep == TypeOK /\ [Next]_vars => TypeOK'
<1> SUFFICES ASSUME TypeOK, [Next]_vars PROVE TypeOK' OBVIOUS
<1>1. CASE Next
  BY <1>1, TypeTarget, TypeSource, TypeProbes, TypeEnd DEF Next
<1>2. CASE UNCHANGED vars
  BY <1>2 DEF vars, TypeOK, PortFound, Panics, Listed
<1> QED BY <1>1, <1>2

\* TypeOK: the variables have their types, and the probes have a pod to run in and
\* a port of the Service to ask (service_runtime.go:14-40), for any command line,
\* Service and pods.
THEOREM TypeCorrect == Spec => []TypeOK
<1>1. Init => TypeOK
  <2> SUFFICES ASSUME Init PROVE TypeOK OBVIOUS
  <2>1. port \in 0..MaxPort BY ServiceAssumption DEF Init, Option
  <2>2. pc \in Layers \ {"urls", "direct"} BY DEF Init, Layers
  <2> QED BY <2>1, <2>2 DEF Init, TypeOK
<1> QED BY <1>1, TypeStep, PTL DEF Spec

-------------------------------------------------------------------------------
(* Every URL of the Service is reached where the exit status is 0.         *)

FromPolicies == {"native", "cni", "mtu", "runtime", "urls", "direct", "nodePort", "events",
                 "conclude", "finish", "exited", "panicked"}

FromPods == {"direct", "nodePort", "events", "conclude", "finish", "exited"}

\* A source that was asked for and is not there left a FAIL; a URL that was not
\* reached leaves a result as well.
ReachInv ==
    /\ pc \in FromPolicies /\ opts.sourceBy # "nothing" /\ source = None => NotGreen
    /\ pc \in BeforeProbes => reached = {}
    /\ pc = "urls" => at \in 1..(NumURLs + 1) /\ (NotGreen \/ reached = 1..(at - 1))
    /\ pc \in FromPods /\ opts.sourceBy # "nothing" /\ PortFound /\ Selected.tcp =>
          NotGreen \/ reached = 1..NumURLs


\* No step takes a result away.
LEMMA ResultsStay ==
    ASSUME TypeOK, Next
    PROVE  NotGreen => NotGreen'
<1>1. \A R, D : Report(R, D) => (NotGreen => NotGreen') BY DEF Report, NotGreen
<1>2. Silent => (NotGreen => NotGreen') BY DEF Silent, NotGreen
<1>3. (\/ checkCluster \/ checkService \/ checkDeployment \/ checkTargetPods \/ checkEndpoints
       \/ checkTargetPort) => (NotGreen => NotGreen')
  BY <1>1, <1>2 DEF checkCluster, checkService, checkDeployment, checkTargetPods, checkEndpoints,
                    checkTargetPort
<1>4. (checkSource \/ checkNativeNetworkPolicies \/ checkCniPolicies \/ checkMTUPath) =>
      (NotGreen => NotGreen')
  BY <1>1, <1>2 DEF checkSource, debugSource, namedSource, checkNativeNetworkPolicies,
                    checkCniPolicies, checkMTUPath
<1>5. \A tool : answeredByEnvoy(tool) => (NotGreen => NotGreen') BY <1>1 DEF answeredByEnvoy
<1>6. (checkRuntimePath \/ probeURL \/ endOfURLs) => (NotGreen => NotGreen')
  BY <1>1, <1>2, <1>5 DEF checkRuntimePath, probeURL, answered, failed, endOfURLs, NotGreen
<1>7. probePod => (NotGreen => NotGreen')
  BY <1>1, <1>2, <1>5 DEF probePod, failedDirectly
<1>8. (checkNodePortAndHost \/ checkEvents \/ conclude \/ finishReport) => (NotGreen => NotGreen')
  BY <1>1, <1>2 DEF checkNodePortAndHost, checkEvents, conclude, finishReport, NotGreen
<1> QED BY <1>3, <1>4, <1>6, <1>7, <1>8 DEF Next

\* The layers before the policies reach nothing.
LEMMA ReachTarget ==
    ASSUME ReachInv, NotGreen => NotGreen',
           \/ checkCluster \/ checkService \/ checkDeployment \/ checkTargetPods
           \/ checkEndpoints \/ checkTargetPort
    PROVE  ReachInv'
<1>1. reached' = reached /\ pc \in BeforeProbes
      /\ pc' \in {"service", "deployment", "pods", "endpoints", "port", "source"}
  BY DEF BeforeProbes, After, Order, checkCluster, checkService, checkDeployment, checkTargetPods,
         checkEndpoints, checkTargetPort
<1> QED BY <1>1 DEF ReachInv, BeforeProbes, FromPolicies, FromPods

\* Whoever asks for a source and gets none gets a FAIL.
LEMMA ReachSource ==
    ASSUME ReachInv, NotGreen => NotGreen', checkSource
    PROVE  ReachInv'
<1>1. opts.sourceBy # "nothing" /\ source' = None => NotGreen'
  <2>1. \A R, D : Report(R, D) /\ R # {} => NotGreen' BY DEF Report, NotGreen
  <2>2. \A x \in Contexts, s \in BOOLEAN : [context |-> x, sidecar |-> s] # None
    BY ServiceAssumption DEF Source
  <2>3. SourceContext \in Contexts /\ "target" \in Contexts BY DEF SourceContext, Contexts
  <2> QED BY <2>1, <2>2, <2>3 DEF checkSource, debugSource, namedSource
<1>2. UNCHANGED <<opts, reached>> /\ pc \in BeforeProbes /\ pc' = "native"
  BY DEF BeforeProbes, After, Order, checkSource
<1> QED BY <1>1, <1>2 DEF ReachInv, BeforeProbes, FromPolicies, FromPods

\* The layers between the source and the probes, and those behind the probes, have no
\* part in this.
LEMMA ReachLayer ==
    ASSUME ReachInv, NotGreen => NotGreen',
           UNCHANGED <<opts, service, port, source, reached>>,
           \/ pc \in {"native", "cni", "mtu"} /\ pc' \in {"cni", "mtu", "runtime"}
           \/ pc \in FromPods /\ pc' \in FromPods
    PROVE  ReachInv'
<1>1. PortFound' <=> PortFound BY DEF PortFound, Panics, Listed
<1>2. Selected' = Selected /\ NumURLs' = NumURLs BY DEF Selected, Listed, NumURLs
<1> QED BY <1>1, <1>2 DEF ReachInv, FromPolicies, FromPods, BeforeProbes

\* The probes begin with the first URL, or there is no port or no source to probe.
LEMMA ReachBegun ==
    ASSUME TypeOK, ReachInv, NotGreen => NotGreen', checkRuntimePath
    PROVE  ReachInv'
<1>1. /\ UNCHANGED <<opts, service, port, source, reached>>
      /\ reached = {} /\ (opts.sourceBy # "nothing" /\ source = None => NotGreen)
  BY DEF ReachInv, checkRuntimePath, FromPolicies, BeforeProbes
<1>2. /\ PortFound' <=> PortFound
      /\ Selected' = Selected /\ NumURLs' = NumURLs
  BY <1>1 DEF PortFound, Panics, Selected, Listed, NumURLs
<1>3. CASE pc' = "panicked" /\ Panics
  BY <1>1, <1>3 DEF ReachInv, FromPolicies, FromPods, BeforeProbes
<1>4. CASE pc' = "nodePort" /\ ~Probed
  BY <1>1, <1>2, <1>4 DEF ReachInv, FromPolicies, FromPods, BeforeProbes, Probed
<1>5. CASE Probed /\ pc' = "urls" /\ at' = 1
  <2>1. at' \in 1..(NumURLs' + 1) /\ reached' = 1..(at' - 1)
    BY <1>1, <1>5 DEF NumURLs
  <2> QED BY <1>1, <1>2, <1>5, <2>1 DEF ReachInv, FromPolicies, FromPods, BeforeProbes
<1> QED BY <1>3, <1>4, <1>5 DEF checkRuntimePath, After, Order

\* A URL is reached, or the report gets a result.
LEMMA ReachURL ==
    ASSUME TypeOK, ReachInv, NotGreen => NotGreen', probeURL
    PROVE  ReachInv'
<1>1. /\ UNCHANGED <<opts, pc, service, port, source>> /\ pc = "urls" /\ at' = at + 1
      /\ at \in 1..NumURLs /\ (NotGreen \/ reached = 1..(at - 1))
      /\ opts.sourceBy # "nothing" /\ source = None => NotGreen
  BY DEF ReachInv, probeURL, FromPolicies
<1>2. NotGreen' \/ reached' = reached \cup {at}
  <2>1. \A R, D : Report(R, D) /\ R # {} => NotGreen' BY DEF Report, NotGreen
  <2>2. \A tool : answeredByEnvoy(tool) => NotGreen' BY <2>1 DEF answeredByEnvoy
  <2>3. \A tool : answered(tool) => NotGreen' \/ reached' = reached \cup {at}
    BY <2>1 DEF answered
  <2>4. \A tool : failed(tool) => NotGreen' BY <2>1, WarnsAreResults DEF failed
  <2> QED BY <2>1, <2>2, <2>3, <2>4 DEF probeURL
<1>3. NumURLs' = NumURLs /\ NumURLs \in {1, 2} BY <1>1 DEF NumURLs
<1>4. at' \in 1..(NumURLs' + 1) /\ (1..(at - 1)) \cup {at} = 1..(at' - 1)
  BY <1>1, <1>3
<1> QED BY <1>1, <1>2, <1>4 DEF ReachInv, FromPolicies, FromPods, BeforeProbes

\* After the last URL all were reached, or there is a result.
LEMMA ReachEnded ==
    ASSUME TypeOK, ReachInv, NotGreen => NotGreen', endOfURLs
    PROVE  ReachInv'
<1>1. /\ UNCHANGED <<opts, service, port, source, reached>> /\ pc' \in {"direct", "nodePort"}
      /\ at \in 1..(NumURLs + 1) /\ at > NumURLs /\ (NotGreen \/ reached = 1..(at - 1))
      /\ opts.sourceBy # "nothing" /\ source = None => NotGreen
  BY DEF ReachInv, endOfURLs, FromPolicies, After, Order
<1>2. NumURLs' = NumURLs /\ NumURLs \in {1, 2} BY <1>1 DEF NumURLs
<1>3. at - 1 = NumURLs BY <1>1, <1>2
<1> QED BY <1>1, <1>2, <1>3 DEF ReachInv, FromPolicies, FromPods, BeforeProbes

LEMMA ReachStep == TypeOK /\ ReachInv /\ [Next]_vars => ReachInv'
<1> SUFFICES ASSUME TypeOK, ReachInv, [Next]_vars PROVE ReachInv' OBVIOUS
<1>1. CASE UNCHANGED vars
  BY <1>1 DEF vars, ReachInv, NotGreen, NumURLs, PortFound, Panics, Listed, Selected
<1>2. CASE Next
  <2>0. NotGreen => NotGreen' BY <1>2, ResultsStay
  <2>1. CASE checkNativeNetworkPolicies \/ checkCniPolicies \/ checkMTUPath
    BY <2>0, <2>1, ReachLayer
       DEF checkNativeNetworkPolicies, checkCniPolicies, checkMTUPath, After, Order
  <2>2. CASE probePod
    BY <2>0, <2>2, ReachLayer DEF probePod, After, Order, FromPods
  <2>3. CASE checkNodePortAndHost \/ checkEvents \/ conclude \/ finishReport
    BY <2>0, <2>3, ReachLayer
       DEF checkNodePortAndHost, checkEvents, conclude, finishReport, After, Order, FromPods
  <2> QED BY <1>2, <2>0, <2>1, <2>2, <2>3, ReachTarget, ReachSource, ReachBegun, ReachURL, ReachEnded DEF Next
<1> QED BY <1>1, <1>2

\* GreenMeansReached: with --fail-on-warn a run that was to probe a TCP port exits 0
\* only after every URL of the Service answered (service_runtime.go:41-172), for any
\* command line, Service and pods.
THEOREM GreenIsReached == Spec => []GreenMeansReached
<1>1. Init => ReachInv
  BY DEF Init, ReachInv, BeforeProbes, FromPolicies, FromPods
<1>2. Spec => []ReachInv
  BY <1>1, TypeCorrect, ReachStep, PTL DEF Spec
<1>3. ReachInv /\ IssueInv => GreenMeansReached
  BY ServiceAssumption DEF ReachInv, IssueInv, GreenMeansReached, FromPods
<1> QED BY <1>2, <1>3, IssueInvariant, PTL

-------------------------------------------------------------------------------
(* A pod is blamed only for a port that the Service sends to.              *)

LEMMA PodsTyped == TypeOK => pods \in Seq(Pod)
<1>1. <<>> \in Seq(Pod) OBVIOUS
<1>2. PodLists \subseteq Seq(Pod) BY ServiceAssumption
<1> QED BY <1>1, <1>2 DEF TypeOK

LEMMA MaxPortIsNat == MaxPort \in Nat
BY DEF MaxPort

\* Pods have declared ports, with names of ports or none, and numbers.
LEMMA PodTyped ==
    ASSUME pods \in Seq(Pod), NEW i \in DOMAIN pods
    PROVE  pods[i].ports \in Seq(ContainerPort)
<1>1. pods[i] \in Pod OBVIOUS
<1> QED BY <1>1 DEF Pod

LEMMA PortTyped ==
    ASSUME NEW p \in ContainerPort
    PROVE  p.name \in PortName \cup {None} /\ p.number \in Nat
BY MaxPortIsNat DEF ContainerPort

LEMMA TargetTyped ==
    ASSUME NEW p \in ServicePort
    PROVE  p.target \in PortName \cup Nat
BY MaxPortIsNat DEF ServicePort

\* collectContainerPorts: of the declared ports with some quality one is the first.
LEMMA FirstIsDeclared ==
    ASSUME pods \in Seq(Pod), NEW S, S \subseteq DeclaredPorts, S # {}
    PROVE  FirstOf(S) \in S
<1> DEFINE Places == UNION {{<<i, j>> : j \in {k \in DOMAIN pods[i].ports : pods[i].ports[k] \in S}} :
                             i \in DOMAIN pods}
           A == {i \in DOMAIN pods : \E k \in DOMAIN pods[i].ports : pods[i].ports[k] \in S}
<1>0. \A i \in DOMAIN pods : pods[i].ports \in Seq(ContainerPort) BY PodTyped
<1>1. A \in SUBSET Nat /\ A # {}
  <2>1. PICK p \in S : p \in DeclaredPorts OBVIOUS
  <2>2. \E i \in DOMAIN pods : \E k \in DOMAIN pods[i].ports : pods[i].ports[k] = p
    BY <2>1 DEF DeclaredPorts
  <2> QED BY <2>1, <2>2
<1>2. PICK i \in A : \A x \in A : i <= x BY <1>1, LeastNat
<1> DEFINE B == {k \in DOMAIN pods[i].ports : pods[i].ports[k] \in S}
<1>3. B \in SUBSET Nat /\ B # {} BY <1>0, <1>2
<1>4. PICK j \in B : \A x \in B : j <= x BY <1>3, LeastNat
<1>5. <<i, j>> \in Places BY <1>2, <1>4
<1>6. ASSUME NEW y \in Places
      PROVE  i < y[1] \/ (i = y[1] /\ j <= y[2])
  <2>0. PICK k \in DOMAIN pods : \E m \in DOMAIN pods[k].ports : y = <<k, m>> /\ pods[k].ports[m] \in S
    OBVIOUS
  <2>1. PICK m \in DOMAIN pods[k].ports : y = <<k, m>> /\ pods[k].ports[m] \in S BY <2>0
  <2>2. k \in A /\ i <= k /\ (k = i => j <= m) BY <1>2, <1>4, <2>1
  <2> QED BY <1>1, <1>2, <1>3, <1>4, <2>1, <2>2
<1> DEFINE first == CHOOSE x \in Places : \A y \in Places : x[1] < y[1] \/ (x[1] = y[1] /\ x[2] <= y[2])
<1>7. first \in Places
  <2>1. \E x \in Places : \A y \in Places : x[1] < y[1] \/ (x[1] = y[1] /\ x[2] <= y[2]) BY <1>5, <1>6
  <2> QED BY <2>1
<1>8. FirstOf(S) = pods[first[1]].ports[first[2]] BY DEF FirstOf
<1> HIDE DEF first
<1> QED BY <1>7, <1>8

\* The declared ports have names of ports and numbers.
LEMMA DeclaredTyped ==
    ASSUME pods \in Seq(Pod)
    PROVE  DeclaredPorts \subseteq ContainerPort
<1> SUFFICES ASSUME NEW i \in DOMAIN pods, NEW j \in DOMAIN pods[i].ports
             PROVE  pods[i].ports[j] \in ContainerPort
  BY DEF DeclaredPorts
<1> QED BY PodTyped

Mismatched ==
    /\ DeclaredPorts # {}
    /\ \A p \in DeclaredPorts : ~TargetPortMatches(Selected.target, p)

\* Of pods with the same ports each is asked at the port that the Service sends its
\* traffic to, unless no declared port is the target port.
LEMMA DirectPortIsTarget ==
    ASSUME pods \in Seq(Pod), Selected \in ServicePort, PodsAlike, ~Mismatched, DirectPort # 0,
           NEW i \in DOMAIN pods
    PROVE  DirectPort \in PodPort(pods[i])
<1> DEFINE target == Selected.target
           Matching == {p \in DeclaredPorts : TargetPortMatches(target, p)}
<1>0. target \in PortName \/ (target \in Nat /\ target \notin PortName)
  BY TargetTyped
<1>1. CASE Matching # {}
  <2>1. FirstOf(Matching) \in Matching BY <1>1, FirstIsDeclared
  <2>2. PICK p \in Matching : DirectPort = p.number BY <1>1, <2>1 DEF DirectPort
  <2>3. p \in ContainerPort /\ (p.name = target \/ p.number = target)
    BY <2>2, DeclaredTyped DEF TargetPortMatches
  <2>4. PICK k \in DOMAIN pods : \E m \in DOMAIN pods[k].ports : pods[k].ports[m] = p
    BY <2>2 DEF DeclaredPorts
  <2>5. \E m \in DOMAIN pods[i].ports : pods[i].ports[m] = p BY <2>4 DEF PodsAlike
  <2>6. CASE target \in PortName
    <3>1. p.number # target BY <2>3, <2>6, ServiceAssumption, PortTyped
    <3> QED BY <2>2, <2>3, <2>5, <2>6, <3>1 DEF PodPort
  <2>7. CASE target \notin PortName
    <3>1. p.name # target BY <1>0, <2>3, <2>7, ServiceAssumption, PortTyped
    <3> QED BY <2>2, <2>3, <2>7, <3>1 DEF PodPort
  <2> QED BY <2>6, <2>7
<1>2. CASE Matching = {}
  <2>1. DeclaredPorts = {} BY <1>2 DEF Mismatched
  <2>2. target \notin PortName /\ DirectPort = target BY <1>2, <2>1 DEF DirectPort
  <2> QED BY <2>2 DEF PodPort
<1> QED BY <1>1, <1>2


FromSource == {"source"} \cup FromPolicies

\* A mismatch was told when the port was looked at, and the pods that are probed
\* have the port that all of them are asked at.
BlameInv ==
    /\ pc \in FromSource /\ PortFound /\ Mismatched => Diagnosed("targetPort-mismatch")
    /\ pc = "direct" => DirectPort # 0 /\ at \in DOMAIN pods
    /\ DirectBlameIsAboutTargetPort


AskedAsTarget == \E i \in DOMAIN pods : Reachable(pods[i]) /\ DirectPort \in PodPort(pods[i])

\* Pods, Service and port decide what is asked and what is a mismatch.
LEMMA PathSame ==
    ASSUME UNCHANGED <<pods, service, port>>
    PROVE  /\ PortFound' <=> PortFound
           /\ Mismatched' <=> Mismatched
           /\ DirectPort' = DirectPort
           /\ PodsAlike' <=> PodsAlike
           /\ AskedAsTarget' <=> AskedAsTarget
<1>1. (PortFound' <=> PortFound) /\ Selected' = Selected
  BY DEF PortFound, Panics, Listed, Selected
<1>2. DeclaredPorts' = DeclaredPorts BY DEF DeclaredPorts
<1>3. Mismatched' <=> Mismatched BY <1>1, <1>2 DEF Mismatched, TargetPortMatches
<1>4. DirectPort' = DirectPort BY <1>1, <1>2 DEF DirectPort, TargetPortMatches, FirstOf
<1>5. AskedAsTarget' <=> AskedAsTarget BY <1>1, <1>4 DEF AskedAsTarget, Reachable, PodPort
<1> QED BY <1>1, <1>3, <1>4, <1>5 DEF PodsAlike

\* Reading the port again by its number gives the same port.
LEMMA SelectedSame ==
    ASSUME service \in Services \cup {None}, PortFound, service' = service, port' = Selected.port
    PROVE  Selected' = Selected
<1>1. PICK i \in DOMAIN service.ports :
         /\ i \in Listed(port) /\ \A j \in Listed(port) : i <= j
         /\ Selected = service.ports[i] /\ Selected \in ServicePort
  BY SelectedIsFirst
<1> DEFINE Again == Listed(port)'
<1>2. service \in Service /\ service.ports \in Seq(ServicePort)
  BY SelectedIsFirst, ServiceAssumption DEF Service
<1>3. Selected.port \in Nat \ {0} BY <1>1, MaxPortIsNat DEF ServicePort
<1>4. Again = {j \in DOMAIN service.ports : service.ports[j].port = Selected.port}
  BY <1>3 DEF Listed
<1>5. i \in Again BY <1>1, <1>4
<1>6. \A j \in Again : i <= j
  <2>1. CASE port = 0
    BY <1>1, <1>2, <1>4, <2>1 DEF Listed
  <2>2. CASE port # 0
    BY <1>1, <1>4, <2>2 DEF Listed
  <2> QED BY <2>1, <2>2
<1>7. Again \subseteq Nat BY <1>2, <1>4
<1>8. Selected' = service.ports[CHOOSE k \in Again : \A j \in Again : k <= j] BY DEF Selected
<1> HIDE DEF Again
<1>9. (CHOOSE k \in Again : \A j \in Again : k <= j) = i
  <2>1. \A k \in Again : (\A j \in Again : k <= j) <=> k = i BY <1>5, <1>6, <1>7
  <2> QED BY <1>5, <2>1
<1> QED BY <1>1, <1>8, <1>9

\* A step that blames no pod and keeps what was told.
Discreet ==
    /\ Diagnosed("pod-unreachable")' => Diagnosed("pod-unreachable")
    /\ Diagnosed("targetPort-mismatch") => Diagnosed("targetPort-mismatch")'

LEMMA ReportDiscreet ==
    ASSUME NEW R, NEW D, Report(R, D), "pod-unreachable" \notin D
    PROVE  Discreet
BY DEF Report, Discreet, Diagnosed

LEMMA SilentDiscreet == Silent => Discreet
BY DEF Silent, Discreet, Diagnosed

\* Such a step keeps the invariant once the port was looked at.
LEMMA BlameKept ==
    ASSUME BlameInv, Discreet, UNCHANGED <<pods, service, port>>, pc \in FromSource,
           pc' = "direct" => DirectPort # 0 /\ at' \in DOMAIN pods
    PROVE  BlameInv'
BY PathSame DEF BlameInv, Discreet, DirectBlameIsAboutTargetPort, AskedAsTarget

\* The layers before the port have told nothing and blame nobody.
LEMMA BlameTarget ==
    ASSUME TypeOK, CauseInv, BlameInv,
           \/ checkCluster \/ checkService \/ checkDeployment \/ checkTargetPods \/ checkEndpoints
           \/ checkTargetPort
    PROVE  BlameInv'
<1>1. NoSymptom' BY CauseTarget
<1>2. ~Diagnosed("pod-unreachable")' BY <1>1 DEF NoSymptom, Symptoms, Diagnosed
<1>3. pc' # "direct" /\ (checkTargetPort \/ pc' \notin FromSource)
  BY DEF checkCluster, checkService, checkDeployment, checkTargetPods, checkEndpoints,
         checkTargetPort, After, Order, FromSource, FromPolicies
<1>4. ASSUME checkTargetPort, PortFound', Mismatched' PROVE Diagnosed("targetPort-mismatch")'
  <2>1. UNCHANGED <<service, pods>> BY <1>4 DEF checkTargetPort
  <2>2. CASE service = None \/ service.ports = <<>>
    BY <1>4, <2>1, <2>2 DEF checkTargetPort, PortFound, Panics, Listed
  <2>3. CASE ~(service = None \/ service.ports = <<>>) /\ ~PortFound
    BY <1>4, <2>1, <2>3 DEF checkTargetPort, PortFound, Panics, Listed
  <2>4. CASE ~(service = None \/ service.ports = <<>>) /\ PortFound
    <3>1. port' = Selected.port BY <1>4, <2>4 DEF checkTargetPort
    <3>2. Selected' = Selected BY <2>1, <2>4, <3>1, SelectedSame DEF TypeOK
    <3>3. Mismatched BY <1>4, <2>1, <3>2 DEF Mismatched, DeclaredPorts, TargetPortMatches
    <3>4. PICK R, D : Report(R, D) /\ "targetPort-mismatch" \in D
      BY <1>4, <2>4, <3>3 DEF checkTargetPort, Mismatched, When
    <3> QED BY <3>4 DEF Report, Diagnosed
  <2> QED BY <2>2, <2>3, <2>4
<1> QED BY <1>2, <1>3, <1>4 DEF BlameInv, DirectBlameIsAboutTargetPort

\* The layers between the port and the probes.
LEMMA BlameSource ==
    ASSUME BlameInv,
           \/ checkSource \/ checkNativeNetworkPolicies \/ checkCniPolicies \/ checkMTUPath
           \/ checkRuntimePath
    PROVE  BlameInv'
<1>1. /\ UNCHANGED <<pods, service, port>> /\ pc \in FromSource /\ pc' # "direct"
  BY DEF checkSource, debugSource, namedSource, checkNativeNetworkPolicies, checkCniPolicies,
         checkMTUPath, checkRuntimePath, After, Order, FromSource, FromPolicies
<1>2. Discreet
  <2>1. checkSource => Discreet
    BY ReportDiscreet, SilentDiscreet DEF checkSource, debugSource, namedSource
  <2>2. checkNativeNetworkPolicies => Discreet
    BY ReportDiscreet DEF checkNativeNetworkPolicies, When
  <2>3. checkCniPolicies => Discreet BY ReportDiscreet, SilentDiscreet DEF checkCniPolicies
  <2>4. checkMTUPath => Discreet BY ReportDiscreet, SilentDiscreet DEF checkMTUPath
  <2>5. checkRuntimePath => Discreet BY ReportDiscreet, SilentDiscreet DEF checkRuntimePath
  <2> QED BY <2>1, <2>2, <2>3, <2>4, <2>5
<1> QED BY <1>1, <1>2, BlameKept

\* Envoy's answers blame no pod.
LEMMA EnvoyDiscreet ==
    ASSUME NEW tool, answeredByEnvoy(tool)
    PROVE  Discreet
<1>1. PICK signal \in Signals : \E f \in SignalFindings(signal) \cup {Nothing} :
         Report(tool \cup {"FAIL"} \cup f.results, f.diagnoses)
  BY DEF answeredByEnvoy
<1>2. PICK f \in SignalFindings(signal) \cup {Nothing} :
         Report(tool \cup {"FAIL"} \cup f.results, f.diagnoses)
  BY <1>1
<1>3. "pod-unreachable" \notin f.diagnoses
  BY SignalsAddSymptoms
<1> QED BY <1>2, <1>3, ReportDiscreet

\* The probes of the URLs blame no pod.
LEMMA BlameURLs ==
    ASSUME TypeOK, BlameInv, probeURL \/ endOfURLs
    PROVE  BlameInv'
<1>1. CASE probeURL
  <2>1. \A tool : answered(tool) => Discreet BY ReportDiscreet DEF answered
  <2>2. \A tool : failed(tool) => Discreet BY ReportDiscreet DEF failed, When
  <2>3. Discreet BY <1>1, <2>1, <2>2, EnvoyDiscreet, ReportDiscreet DEF probeURL, When
  <2> QED BY <1>1, <2>3, BlameKept DEF probeURL, FromSource, FromPolicies
<1>2. CASE endOfURLs
  <2>1. Discreet BY <1>2 DEF endOfURLs, Discreet, Diagnosed
  <2>2. pods \in Seq(Pod) BY PodsTyped
  <2>3. pc' = "direct" => DirectPort # 0 /\ at' \in DOMAIN pods
    BY <1>2, <2>2 DEF endOfURLs, After, Order
  <2> QED BY <1>2, <2>1, <2>3, BlameKept DEF endOfURLs, FromSource, FromPolicies
<1> QED BY <1>1, <1>2


\* The probe of a pod that is ready may blame it, at the port that it was asked at.
LEMMA BlamePod ==
    ASSUME TypeOK, BlameInv, probePod
    PROVE  BlameInv'
<1>0. /\ UNCHANGED <<pods, service, port>> /\ pc = "direct" /\ pods \in Seq(Pod)
      /\ PortFound /\ DirectPort # 0 /\ at \in DOMAIN pods
  BY PodsTyped DEF probePod, BlameInv, TypeOK
<1>1. pc' = "direct" => DirectPort # 0 /\ at' \in DOMAIN pods
  BY <1>0 DEF probePod, After, Order
<1>2. CASE Discreet
  BY <1>0, <1>1, <1>2, BlameKept DEF FromSource, FromPolicies
<1>3. CASE ~Discreet
  <2>1. PICK R, D : Report(R, D) /\ "pod-unreachable" \in D /\ PodUnreachableDiagnosed /\ Reachable(pods[at])
    BY <1>3, ReportDiscreet, SilentDiscreet, EnvoyDiscreet DEF probePod, failedDirectly, When
  <2>2. ~Mismatched
    BY <1>0, <2>1 DEF BlameInv, FromSource, FromPolicies, PodUnreachableDiagnosed
  <2>3. PodsAlike => AskedAsTarget
    BY <1>0, <2>1, <2>2, DirectPortIsTarget, SelectedIsFirst DEF AskedAsTarget, TypeOK
  <2>4. DirectBlameIsAboutTargetPort'
    BY <1>0, <2>3, PathSame DEF DirectBlameIsAboutTargetPort, AskedAsTarget
  <2> QED BY <1>0, <1>1, <2>2, <2>4, PathSame DEF BlameInv
<1> QED BY <1>2, <1>3

\* The rest of the report.
LEMMA BlameEnd ==
    ASSUME BlameInv, checkNodePortAndHost \/ checkEvents \/ conclude \/ finishReport
    PROVE  BlameInv'
<1>1. UNCHANGED <<pods, service, port>> /\ pc \in FromSource /\ pc' # "direct"
  BY DEF checkNodePortAndHost, checkEvents, conclude, finishReport, After, Order, FromSource, FromPolicies
<1>2. Discreet
  BY ReportDiscreet, SilentDiscreet
     DEF checkNodePortAndHost, checkEvents, conclude, finishReport, When, Silent
<1> QED BY <1>1, <1>2, BlameKept

LEMMA BlameStep == TypeOK /\ CauseInv /\ BlameInv /\ [Next]_vars => BlameInv'
<1> SUFFICES ASSUME TypeOK, CauseInv, BlameInv, [Next]_vars PROVE BlameInv' OBVIOUS
<1>1. CASE UNCHANGED vars
  BY <1>1, PathSame DEF vars, BlameInv, DirectBlameIsAboutTargetPort, AskedAsTarget, Diagnosed
<1>2. CASE Next
  BY <1>2, BlameTarget, BlameSource, BlameURLs, BlamePod, BlameEnd DEF Next
<1> QED BY <1>1, <1>2

\* DirectBlameIsAboutTargetPort: a pod that did not answer is blamed only for a port
\* that the Service sends its traffic to (service_runtime.go:119-172), for any number
\* of pods that declare the same ports and any port of the Service.
THEOREM PodBlameIsAboutTarget == Spec => []DirectBlameIsAboutTargetPort
<1>1. Init => BlameInv
  BY DEF Init, BlameInv, DirectBlameIsAboutTargetPort, Diagnosed, FromSource, FromPolicies
<1>2. BlameInv => DirectBlameIsAboutTargetPort BY DEF BlameInv
<1> QED BY <1>1, <1>2, TypeCorrect, CauseInvariant, BlameStep, PTL DEF Spec

================================================================================
