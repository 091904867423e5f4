------------------------------ MODULE PolicyProofs ------------------------------
(***************************************************************************)
(* Theorems about PolicyCommands for every cluster and every command line: *)
(* each of the three commands keeps the promise of Report.                 *)
(***************************************************************************)
EXTENDS PolicyCommands, SequenceLemmas

ServiceLayers == {"native", "calico", "host", "cilium", "finish-service"}

BlockersLayers ==
    {"blockers-native", "blockers-calico", "blockers-cilium", "blockers-conclude", "finish-blockers"}

EgressLayers ==
    {"egress-source", "egress-dns", "egress-context", "egress-urls", "egress-probe", "finish-egress"}

\* Where a command may still add to its report.
Open(c) ==
    CASE c = "service"  -> pc \in ServiceLayers
      [] c = "blockers" -> pc \in ServiceLayers \cup BlockersLayers \cup {"next"}
      [] c = "egress"   -> pc \in ServiceLayers \cup EgressLayers \cup {"next"}

(***************************************************************************)
(* A command that is open has no exit status, and show blockers has said   *)
(* nothing before it starts.  This is what makes the refinement inductive. *)
(***************************************************************************)
OpenInv ==
    /\ report = [c \in Commands |-> report[c]]
    /\ exit = [c \in Commands |-> exit[c]]
    /\ \A c \in Commands : Open(c) => exit[c] = Running
    /\ pc \in ServiceLayers \cup {"next"} => report["blockers"] = {}

\* One step of a command as Report allows it.
Kept(c) ==
    \/ /\ exit[c] = Running /\ report[c] \subseteq report'[c]
       /\ UNCHANGED flags /\ exit'[c] = exit[c]
    \/ /\ exit[c] = Running
       /\ exit'[c] = IF Counts(flags, report[c]) THEN 1 ELSE 0
       /\ UNCHANGED flags /\ report'[c] = report[c]
    \/ /\ exit[c] = Running /\ exit'[c] = 1
       /\ UNCHANGED flags /\ report'[c] = report[c]
    \/ UNCHANGED flags /\ report'[c] = report[c] /\ exit'[c] = exit[c]

\* pc moves on and opens no command again; show blockers stays empty before "next".
Onward ==
    /\ \A c \in Commands : Open(c)' => Open(c)
    /\ pc' \in ServiceLayers \cup {"next"} => pc \in ServiceLayers \cup {"next"}

\* What is said by an open command is added to its report.
LEMMA SaysKept ==
  ASSUME OpenInv, NEW c \in Commands, NEW insights, NEW next, Open(c), Says(c, insights, next), Onward,
         c = "blockers" => pc' \notin ServiceLayers \cup {"next"}
  PROVE  OpenInv' /\ \A d \in Commands : Kept(d)
  <1>1. report' = [d \in Commands |-> IF d = c THEN report[d] \cup insights ELSE report[d]]
    BY DEF OpenInv, Says
  <1>2. \A d \in Commands : Kept(d)
    BY <1>1 DEF OpenInv, Says, Kept
  <1>3. OpenInv'
    BY <1>1 DEF OpenInv, Says, Onward, Commands
  <1> QED
    BY <1>2, <1>3

\* An open command may finish, if that closes it.
LEMMA FinishKept ==
  ASSUME OpenInv, NEW c \in Commands, NEW next, Open(c), Finish(c, next), Onward, ~Open(c)'
  PROVE  OpenInv' /\ \A d \in Commands : Kept(d)
  <1> DEFINE status == IF Counts(flags, report[c]) THEN 1 ELSE 0
  <1>1. exit' = [d \in Commands |-> IF d = c THEN status ELSE exit[d]]
    BY DEF OpenInv, Finish
  <1>2. \A d \in Commands : Kept(d)
    BY <1>1 DEF OpenInv, Finish, Kept
  <1>3. OpenInv'
    BY <1>1 DEF OpenInv, Finish, Onward, Commands
  <1> QED
    BY <1>2, <1>3

\* Going on to another step says nothing.
LEMMA SilentKept ==
  ASSUME OpenInv, Onward, UNCHANGED <<flags, report, exit>>
  PROVE  OpenInv' /\ \A d \in Commands : Kept(d)
  BY DEF OpenInv, Onward, Kept

\* show blockers starts with a report of its own, or ends without one.
LEMMA StartKept ==
  ASSUME OpenInv, startBlockers
  PROVE  OpenInv' /\ \A d \in Commands : Kept(d)
  <1>1. pc = "next" /\ \A d \in Commands : exit[d] = exit[d] /\ (d # "service" => exit[d] = Running)
    BY DEF OpenInv, startBlockers, Commands, Open
  <1>2. report.blockers = {}
    BY DEF OpenInv, startBlockers
  <1>3. CASE pc' = "blockers-native" /\ UNCHANGED exit
    <2>1. report' = [d \in Commands |-> IF d = "blockers" THEN {Plain("subject", "INFO"), Plain("target", "INFO")}
                                        ELSE report[d]]
      BY <1>3 DEF OpenInv, startBlockers
    <2> QED
      BY <1>1, <1>2, <1>3, <2>1 DEF OpenInv, startBlockers, Kept, Commands, Open,
         ServiceLayers, BlockersLayers, EgressLayers
  <1>4. CASE pc' = "done" /\ UNCHANGED report
    <2>1. exit' = [d \in Commands |-> IF d = "blockers" THEN 1 ELSE exit[d]]
      BY <1>4 DEF OpenInv, startBlockers
    <2> QED
      BY <1>1, <1>4, <2>1 DEF OpenInv, startBlockers, Kept, Commands, Open,
         ServiceLayers, BlockersLayers, EgressLayers
  <1> QED
    BY <1>3, <1>4 DEF startBlockers

\* At first every command is open and nothing is said.
LEMMA InitOpen == Init => OpenInv
  BY DEF Init, OpenInv, Commands

\* A layer of check service.
LEMMA ServiceKept ==
  ASSUME OpenInv, CheckService
  PROVE  OpenInv' /\ \A d \in Commands : Kept(d)
  <1> USE DEF Onward, Open, Commands, ServiceLayers, BlockersLayers, EgressLayers
  <1>1. CASE native
    BY <1>1, SaysKept DEF native, Says
  <1>2. CASE calico
    BY <1>2, SaysKept DEF calico, Says
  <1>3. CASE host
    BY <1>3, SaysKept DEF host, Says
  <1>4. CASE cilium
    BY <1>4, SaysKept DEF cilium, Says
  <1>5. CASE finishService
    BY <1>5, FinishKept DEF finishService, Finish
  <1> QED
    BY <1>1, <1>2, <1>3, <1>4, <1>5 DEF CheckService

\* A step of show blockers.
LEMMA BlockersKept ==
  ASSUME OpenInv, Blockers
  PROVE  OpenInv' /\ \A d \in Commands : Kept(d)
  <1> USE DEF Onward, Open, Commands, ServiceLayers, BlockersLayers, EgressLayers
  <1>1. CASE startBlockers
    BY <1>1, StartKept
  <1>2. CASE blockersNative
    BY <1>2, SaysKept DEF blockersNative, Says
  <1>3. CASE blockersCalico
    BY <1>3, SaysKept DEF blockersCalico, Says
  <1>4. CASE blockersCilium
    BY <1>4, SaysKept DEF blockersCilium, Says
  <1>5. CASE blockersConclude
    BY <1>5, SaysKept DEF blockersConclude, Says
  <1>6. CASE finishBlockers
    BY <1>6, FinishKept DEF finishBlockers, Finish
  <1> QED
    BY <1>1, <1>2, <1>3, <1>4, <1>5, <1>6 DEF Blockers

\* A step of check egress.
LEMMA EgressKept ==
  ASSUME OpenInv, Egress
  PROVE  OpenInv' /\ \A d \in Commands : Kept(d)
  <1> USE DEF Onward, Open, Commands, ServiceLayers, BlockersLayers, EgressLayers
  <1>1. CASE egressSource
    BY <1>1, SaysKept DEF egressSource, Says
  <1>2. CASE egressDNS
    BY <1>2, SaysKept DEF egressDNS, Says
  <1>3. CASE egressContext
    BY <1>3, SaysKept DEF egressContext, Says
  <1>4. CASE egressURL
    BY <1>4, SaysKept DEF egressURL, Says
  <1>5. CASE egressProbe
    BY <1>5, SaysKept DEF egressProbe, Says
  <1>6. CASE egressEnd
    BY <1>6, SilentKept DEF egressEnd
  <1>7. CASE finishEgress
    BY <1>7, FinishKept DEF finishEgress, Finish
  <1> QED
    BY <1>1, <1>2, <1>3, <1>4, <1>5, <1>6, <1>7 DEF Egress

LEMMA StepKept ==
  ASSUME OpenInv, [Next]_vars
  PROVE  OpenInv' /\ \A d \in Commands : Kept(d)
  <1>1. CASE UNCHANGED vars
    BY <1>1 DEF OpenInv, Open, Kept, vars
  <1> QED
    BY <1>1, ServiceKept, BlockersKept, EgressKept DEF Next

(***************************************************************************)
(* While a command may still say something, its exit status is not given.  *)
(***************************************************************************)
THEOREM OpenUntilExit == Spec => []OpenInv
  BY InitOpen, StepKept, PTL DEF Spec

(***************************************************************************)
(* Each command implements Report: nothing it has said is taken back, and  *)
(* it gives one exit status, after the last finding, that is 0 only when   *)
(* no finding counts under --fail-on-warn and --ignore-warn                *)
(* (cli.go:517-616).                                                       *)
(***************************************************************************)
THEOREM EveryCommandReports == Spec => CommandsReport
  <1> DEFINE ServiceStep == ServiceReport!Add \/ ServiceReport!Finish \/ ServiceReport!Abort
             BlockersStep == BlockersReport!Add \/ BlockersReport!Finish \/ BlockersReport!Abort
             EgressStep == EgressReport!Add \/ EgressReport!Finish \/ EgressReport!Abort
  <1>1. Init => ServiceReport!Init /\ BlockersReport!Init /\ EgressReport!Init
    BY DEF Init, Commands, ServiceReport!Init, BlockersReport!Init, EgressReport!Init
  <1>2. OpenInv /\ [Next]_vars =>
          /\ [ServiceStep]_<<flags, report.service, exit.service>>
          /\ [BlockersStep]_<<flags, report.blockers, exit.blockers>>
          /\ [EgressStep]_<<flags, report.egress, exit.egress>>
    <2> SUFFICES ASSUME OpenInv, [Next]_vars
                 PROVE  /\ [ServiceStep]_<<flags, report.service, exit.service>>
                        /\ [BlockersStep]_<<flags, report.blockers, exit.blockers>>
                        /\ [EgressStep]_<<flags, report.egress, exit.egress>>
      OBVIOUS
    <2>1. Kept("service") /\ Kept("blockers") /\ Kept("egress")
      BY StepKept DEF Commands
    <2>2. [ServiceStep]_<<flags, report.service, exit.service>>
      BY <2>1 DEF Kept, ServiceReport!Add, ServiceReport!Finish, ServiceReport!Abort
    <2>3. [BlockersStep]_<<flags, report.blockers, exit.blockers>>
      BY <2>1 DEF Kept, BlockersReport!Add, BlockersReport!Finish, BlockersReport!Abort
    <2>4. [EgressStep]_<<flags, report.egress, exit.egress>>
      BY <2>1 DEF Kept, EgressReport!Add, EgressReport!Finish, EgressReport!Abort
    <2> QED
      BY <2>2, <2>3, <2>4
  <1> QED
    BY <1>1, <1>2, OpenUntilExit, PTL
       DEF Spec, CommandsReport, ServiceReport!Spec, BlockersReport!Spec, EgressReport!Spec

-------------------------------------------------------------------------------
(* The verdicts on NetworkPolicies, for every set of policies: what check  *)
(* service takes for a default deny is one.                                *)

\* Rules without ranges of ports and named ports, which native.go does not read.
Plainly(rule) == \A p \in rule.ports : p.end = 0 /\ p.port \notin PortNames

\* The policies that isolate a pod are read from a list of its namespace.
LEMMA SelectingHome ==
  ASSUME NEW policies, NEW namespace, NEW type, NEW pod
  PROVE  Selecting(InNamespace(policies, namespace), type, pod)
           = {policy \in policies : /\ policy.namespace = namespace
                                    /\ HasPolicyType(policy, type) /\ pod \in policy.selects}
  BY DEF Selecting, InNamespace

\* A port that lets the connection through is one that the code takes for it.
LEMMA PortsRead ==
  ASSUME NEW rule, Plainly(rule), NEW pod, NEW ports, NEW number \in ports,
         rule.ports = {} \/ \E p \in rule.ports : NativePortLets(p, pod, number)
  PROVE  PortsAllow(rule.ports, ports)
  BY DEF Plainly, NativePortLets, PortsAllow

\* A default deny on egress that check service reports is true of every target.
THEOREM NativeEgressBlame ==
  ASSUME NEW policies, NEW source, NEW namespace, NEW targets, NEW service, NEW ports,
         \A rule \in EgressRules(policies) : Plainly(rule),
         \A pod \in ToSet(targets) : NamespaceOf[pod] = namespace,
         analyzeNativeEgress(InNamespace(policies, NamespaceOf[source]), source, namespace,
                             targets, service, ports).status = "policy-ambiguous"
  PROVE  \A pod \in ToSet(targets), number \in ports : ~NativeEgressLets(policies, source, pod, number)
  <1> DEFINE selecting == Selecting(InNamespace(policies, NamespaceOf[source]), "Egress", source)
             Allows(rule) == EgressRuleAllows(rule, NamespaceOf[source], namespace, targets, service, ports)
  <1>1. selecting # {} /\ \A rule \in EgressRules(selecting) : ~Allows(rule)
    BY DEF analyzeNativeEgress, Plain, Insight
  <1>2. EgressRules(selecting) \subseteq EgressRules(policies)
    BY DEF Selecting, InNamespace, EgressRules
  <1> SUFFICES ASSUME NEW pod \in ToSet(targets), NEW number \in ports,
                      NativeEgressLets(policies, source, pod, number)
               PROVE  FALSE
    OBVIOUS
  <1>3. PICK rule \in EgressRules(selecting) :
          /\ rule.ports = {} \/ \E p \in rule.ports : NativePortLets(p, pod, number)
          /\ rule.peers = {} \/ \E q \in rule.peers : NativePeerHolds(q, NamespaceOf[source], pod)
    BY <1>1 DEF NativeEgressLets, NativeLets
  <1>4. PortsAllow(rule.ports, ports)
    BY <1>2, <1>3, PortsRead
  <1>5. Allows(rule)
    BY <1>3, <1>4 DEF NativePeerHolds, EgressRuleAllows, PeerMatchesPod
  <1> QED
    BY <1>1, <1>5

\* One on ingress is true of some target, whatever the port: the policies of all
\* targets are read as one.
THEOREM NativeIngressBlame ==
  ASSUME NEW policies, NEW source, NEW namespace, NEW targets, NEW ports,
         \A rule \in IngressRules(policies) : Plainly(rule),
         \A pod \in ToSet(targets) : NamespaceOf[pod] = namespace,
         analyzeNativeIngress(InNamespace(policies, namespace), source, targets, ports).status
           = "policy-ambiguous"
  PROVE  \E pod \in ToSet(targets) : \A number \in ports : ~NativeIngressLets(policies, source, pod, number)
  <1> DEFINE Of(pod) == Selecting(InNamespace(policies, namespace), "Ingress", pod)
             selecting == UNION {Of(pod) : pod \in ToSet(targets)}
  <1>1. selecting # {} /\ \A rule \in IngressRules(selecting) : ~IngressRuleAllows(rule, source, ports)
    BY DEF analyzeNativeIngress, Plain, Insight
  <1>2. PICK pod \in ToSet(targets) : Of(pod) # {}
    BY <1>1
  <1>3. IngressRules(Of(pod)) \subseteq IngressRules(selecting) /\ IngressRules(Of(pod)) \subseteq IngressRules(policies)
    BY DEF Selecting, InNamespace, IngressRules
  <1>4. ASSUME NEW number \in ports, NativeIngressLets(policies, source, pod, number)
        PROVE  FALSE
    <2>1. PICK rule \in IngressRules(Of(pod)) :
            /\ rule.ports = {} \/ \E p \in rule.ports : NativePortLets(p, pod, number)
            /\ rule.peers = {} \/ \E q \in rule.peers : NativePeerHolds(q, NamespaceOf[pod], source)
      BY <1>2, <1>4 DEF NativeIngressLets, NativeLets
    <2>2. PortsAllow(rule.ports, ports)
      BY <1>3, <2>1, PortsRead
    <2>3. IngressRuleAllows(rule, source, ports)
      BY <2>1, <2>2 DEF NativePeerHolds, IngressRuleAllows, PeerMatchesPod
    <2> QED
      BY <1>1, <1>3, <2>3
  <1> QED
    BY <1>4


-------------------------------------------------------------------------------
(* What the engines may say: whose checks are whose, and that a status is  *)
(* one that a report counts.                                               *)

Said(insights, checks) == \A i \in insights : i.check \in checks /\ i.status \in Statuses

NativeVerdicts == {"native-egress", "native-ingress"}
CalicoVerdicts == {"Calico-egress", "Calico-ingress", "Calico-DNS"}
CiliumVerdicts == {"Cilium-egress", "Cilium-ingress", "Cilium-DNS"}

NativeRemarks ==
    {"native-policies", "source-native-policies", "native-target-policies", "namespace-labels",
     "native-posture", "native-selected", "native-blockers", "native-port", "native-egress-posture"}
CalicoRemarks ==
    {"Calico-mode", "Calico-forward", "Calico-HTTP", "Calico-ICMP", "Calico-policies", "Calico-global-policies",
     "Calico-staged", "Calico-parse", "Calico-target-policies", "Calico-source-policies", "Calico-host-mode",
     "Calico-host-policy", "Calico-host-policies", "Calico-host-endpoints", "Calico-host-path",
     "Calico-host-selected", "Calico-host-ports", "Calico-deny", "Calico-allow", "Calico-default-deny",
     "Calico-selected"}
CiliumRemarks ==
    {"Cilium-policies", "Cilium-CIDR-groups", "Cilium-clusterwide", "Cilium-parse", "Cilium-target-policies",
     "Cilium-endpoints", "Cilium-outbound", "Cilium-posture", "Cilium-selected", "Cilium-analysis"}
CiliumLists == {"Cilium-policies", "Cilium-CIDR-groups", "Cilium-clusterwide"}

LEMMA SaidOne ==
  ASSUME NEW checks, NEW check \in checks, NEW status \in Statuses, NEW diagnosis
  PROVE  Said({Insight(check, status, diagnosis)}, checks) /\ Said({Plain(check, status)}, checks)
  BY DEF Said, Insight, Plain

LEMMA SaidBoth ==
  ASSUME NEW checks, NEW some, NEW others, Said(some, checks), Said(others, checks)
  PROVE  Said(some \cup others, checks)
  BY DEF Said

LEMMA SaidNothing == ASSUME NEW checks PROVE Said({}, checks)
  BY DEF Said

LEMMA SaidOfMore ==
  ASSUME NEW checks, NEW more, checks \subseteq more, NEW insights, Said(insights, checks)
  PROVE  Said(insights, more)
  BY DEF Said

LEMMA StatusesAre ==
  /\ "PASS" \in Statuses /\ "INFO" \in Statuses /\ "WARN" \in Statuses /\ "FAIL" \in Statuses
  /\ "SKIP" \in Statuses /\ "policy-ambiguous" \in Statuses /\ "runtime-unavailable" \in Statuses
  BY DEF Statuses

\* The native layer of check service.
LEMMA NativeSays == Said(NativeInsights, NativeVerdicts \cup NativeRemarks)
  BY StatusesAre DEF NativeInsights, nativeTargetPolicies, analyzeNativeEgress, analyzeNativeIngress, Said, Plain, Insight,
     NativeVerdicts, NativeRemarks

LEMMA NativeBlockersSay ==
  ASSUME NEW policies, NEW direction, NEW subject, NEW namespace, NEW targets, NEW service, NEW ports
  PROVE  Said(addNativeBlockers(policies, direction, subject, namespace, targets, service, ports), NativeRemarks)
  BY StatusesAre DEF addNativeBlockers, addNativeEgressBlockers, addNativeIngressBlockers, NativePosture, Said,
     Plain, Insight, NativeRemarks

LEMMA NativePostureSays ==
  ASSUME NEW policies, NEW source, NEW port
  PROVE  /\ Said(inspectNativeEgressPortPosture(policies, source, port), NativeRemarks)
         /\ Said({inspectEgressPolicyContext(policies, source)}, NativeRemarks)
  BY StatusesAre DEF inspectNativeEgressPortPosture, inspectEgressPolicyContext, Said, Plain, Insight, NativeRemarks


\* The layers of Calico: the verdict of a direction and of the resolvers, what is
\* said of the policies themselves, and the policies of host endpoints.
LEMMA JudgedSays ==
  ASSUME NEW checks, NEW check \in checks, NEW status \in Statuses
  PROVE  Said({Judged(check, status)}, checks)
  BY DEF Said, Judged, Insight

LEMMA OrElseIsStatus ==
  ASSUME NEW fallback \in {"none", "PASS", "FAIL"}, NEW default \in Statuses
  PROVE  OrElse(fallback, default) \in Statuses
  BY StatusesAre DEF OrElse

LEMMA CalicoDirectionSays ==
  ASSUME NEW policies, NEW direction \in {"egress", "ingress"}, NEW path,
         NEW fallback \in {"none", "PASS", "FAIL"}
  PROVE  Said({calicoDirectionDecision(policies, direction, path, fallback)}, CalicoVerdicts)
  <1>1. ASSUME NEW matches PROVE DirectionStatus(policies, matches, fallback) \in Statuses
    BY StatusesAre, OrElseIsStatus DEF DirectionStatus
  <1>2. "Calico-egress" \in CalicoVerdicts /\ "Calico-ingress" \in CalicoVerdicts
    BY DEF CalicoVerdicts
  <1> QED
    BY <1>1, <1>2, JudgedSays DEF calicoDirectionDecision

LEMMA CalicoDNSSays ==
  ASSUME NEW policies, NEW dns, NEW fallback \in {"none", "PASS", "FAIL"}, NEW read
  PROVE  Said(analyzeDNSEgress(policies, dns, fallback, read), CalicoVerdicts)
  <1>1. "Calico-DNS" \in CalicoVerdicts
    BY DEF CalicoVerdicts
  <1>2. ASSUME NEW matches PROVE Said({DNSDecision(matches, fallback)}, CalicoVerdicts)
    BY <1>1, StatusesAre, OrElseIsStatus, SaidOne, JudgedSays DEF DNSDecision
  <1>3. Said({Judged("Calico-DNS", OrElse(fallback, "PASS"))}, CalicoVerdicts)
    BY <1>1, StatusesAre, OrElseIsStatus, JudgedSays
  <1>4. Said({Plain("Calico-DNS", "PASS")}, CalicoVerdicts) /\ Said({}, CalicoVerdicts)
    BY <1>1, StatusesAre, SaidOne, SaidNothing
  <1> QED
    BY <1>2, <1>3, <1>4 DEF analyzeDNSEgress

LEMMA CalicoLayerSays ==
  ASSUME NEW policies, NEW namespace, NEW source, NEW targets, NEW service, NEW ports, NEW dns,
         NEW fallback \in Fallbacks, NEW outcome, NEW read, NEW staged
  PROVE  Said(CalicoAnalyze(policies, namespace, source, targets, service, ports, dns, fallback,
                            outcome, read, staged), CalicoVerdicts \cup CalicoRemarks)
  <1> DEFINE checks == CalicoVerdicts \cup CalicoRemarks
             home == IF source = None THEN {namespace} ELSE {namespace, NamespaceOf[source]}
             all == CalicoListed(policies, home, outcome.global = "read")
             targetPolicies == policiesFor(all, namespace, ToSet(targets), "ingress")
             sourcePolicies == policiesFor(all, NamespaceOf[source], {source}, "egress")
             path == [source |-> Peer(source, NamespaceOf[source]),
                      targets |-> {Peer(pod, namespace) : pod \in ToSet(targets)}, service |-> service,
                      candidates |-> calicoPathPortCandidates(ports, service, targets), read |-> read]
             global == IF outcome.global = "error" THEN {Plain("Calico-global-policies", "WARN")} ELSE {}
             unsupported == UNION {Unsupported(policy) : policy \in all}
             preview == IF staged THEN {Plain("Calico-staged", "INFO")} ELSE {}
             malformed == IF Malformed(all, namespace) = {} THEN {}
                          ELSE {Insight("Calico-parse", "WARN", "Calico")}
             selected == {Plain("Calico-target-policies", IF targetPolicies = {} THEN "INFO" ELSE "WARN")}
             ends == {Plain("Calico-source-policies", IF sourcePolicies = {} THEN "PASS" ELSE "WARN"),
                      calicoDirectionDecision(sourcePolicies, "egress", path, fallback.egress),
                      calicoDirectionDecision(targetPolicies, "ingress", path, fallback.ingress)}
             resolvers == analyzeDNSEgress(sourcePolicies, dns, fallback.dns, read)
             verdicts == IF source = None THEN {} ELSE ends \cup resolvers
  <1>1. ASSUME NEW policy PROVE Said(Unsupported(policy), CalicoRemarks)
    BY StatusesAre DEF Unsupported, Said, Plain, Insight, CalicoRemarks
  <1>2. Said(unsupported, checks)
    BY <1>1 DEF Said
  <1>3. Said(global, checks) /\ Said(preview, checks) /\ Said(malformed, checks) /\ Said(selected, checks)
    BY StatusesAre DEF Said, Plain, Insight, CalicoRemarks
  <1>4. fallback.egress \in {"none", "PASS", "FAIL"} /\ fallback.ingress \in {"none", "PASS", "FAIL"}
        /\ fallback.dns \in {"none", "PASS", "FAIL"}
    BY DEF Fallbacks
  <1>5. Said(resolvers, checks)
    BY <1>4, CalicoDNSSays, SaidOfMore
  <1>6. ASSUME NEW some, NEW way
        PROVE  /\ Said({calicoDirectionDecision(some, "egress", way, fallback.egress)}, checks)
               /\ Said({calicoDirectionDecision(some, "ingress", way, fallback.ingress)}, checks)
    BY <1>4, CalicoDirectionSays, SaidOfMore
  <1>7. Said({Plain("Calico-source-policies", IF sourcePolicies = {} THEN "PASS" ELSE "WARN")}, checks)
    BY StatusesAre DEF Said, Plain, Insight, CalicoRemarks
  <1>8. Said(verdicts, checks)
    <2> HIDE DEF resolvers, path, sourcePolicies, targetPolicies, checks
    <2> QED
      BY <1>5, <1>6, <1>7 DEF Said
  <1>9. Said({Plain("Calico-policies", "WARN")}, checks)
    BY StatusesAre DEF Said, Plain, Insight, CalicoRemarks
  <1>10. CalicoAnalyze(policies, namespace, source, targets, service, ports, dns, fallback, outcome, read, staged)
           \in {{}, {Plain("Calico-policies", "WARN")},
                global \cup unsupported \cup preview \cup malformed \cup selected \cup verdicts}
    BY DEF CalicoAnalyze
  <1> HIDE DEF global, unsupported, preview, malformed, selected, verdicts, checks
  <1> QED
    BY <1>2, <1>3, <1>8, <1>9, <1>10 DEF Said, checks


LEMMA HostLayerSays ==
  ASSUME NEW policies, NEW hosts, NEW service, NEW outcome
  PROVE  Said(AnalyzeIngressSurface(policies, hosts, service, outcome), CalicoRemarks)
  <1>1. ASSUME NEW matches PROVE Said({HostVerdict(matches)}, CalicoRemarks)
    <2>1. "Calico-host-path" \in CalicoRemarks
      BY DEF CalicoRemarks
    <2>2. HostVerdict(matches) \in {Judged("Calico-host-path", "FAIL"), Judged("Calico-host-path", "PASS"),
                                    Judged("Calico-host-path", "WARN")}
      BY DEF HostVerdict
    <2> QED
      BY <2>1, <2>2, StatusesAre, JudgedSays
  <1>2. ASSUME NEW global, NEW ports PROVE Said(analyzeIngressSurface(global, hosts, ports), CalicoRemarks)
    <2> DEFINE moded == {policy \in global : policy.modes # {}}
               valid == {policy \in moded : validHostPolicy(policy)}
               selecting == {policy \in valid : calicoPolicySelectsHostEndpoint(policy, hosts)}
               verdict == HostVerdict(hostPolicyRuleMatches(valid, hosts, ports))
    <2>1. Said({verdict}, CalicoRemarks)
      BY <1>1
    <2> HIDE DEF verdict
    <2> QED
      BY <2>1, StatusesAre DEF analyzeIngressSurface, verdict, Said, Plain, Insight, CalicoRemarks
  <1>3. Said({}, CalicoRemarks) /\ Said({Plain("Calico-global-policies", "WARN")}, CalicoRemarks)
    BY StatusesAre DEF Said, Plain, Insight, CalicoRemarks
  <1> QED
    BY <1>2, <1>3 DEF AnalyzeIngressSurface

LEMMA CalicoBlockersSay ==
  ASSUME NEW policies, NEW direction, NEW subject, NEW namespace, NEW targets, NEW service, NEW ports,
         NEW names, NEW outcome, NEW read
  PROVE  Said(CalicoShowBlockers(policies, direction, subject, namespace, targets, service, ports, names,
                                 outcome, read), CalicoRemarks)
  <1>1. ASSUME NEW matches, NEW allowed \in {"PASS", "INFO"}
        PROVE  Said(BlockersVerdict(matches, allowed), CalicoRemarks)
    BY StatusesAre DEF BlockersVerdict, Judged, Said, Plain, Insight, CalicoRemarks
  <1>2. ASSUME NEW selected, NEW applying PROVE Said(pathSpecificBlockers(selected, direction, applying), CalicoRemarks)
    BY <1>1 DEF pathSpecificBlockers
  <1>3. ASSUME NEW selected
        PROVE  Said(portPostureBlockers(selected, direction, subject, ports, names, read), CalicoRemarks)
    <2>1. ASSUME NEW matches
          PROVE  Said({Plain("Calico-allow", "INFO") : m \in {n \in matches : n.action = "allow"}}, CalicoRemarks)
      BY StatusesAre DEF Said, Plain, Insight, CalicoRemarks
    <2> QED
      BY <1>1, <2>1, SaidBoth DEF portPostureBlockers
  <1>4. /\ Said({}, CalicoRemarks) /\ Said({Plain("Calico-policies", "WARN")}, CalicoRemarks)
        /\ \A status \in {"PASS", "WARN"} : Said({Plain("Calico-selected", status)}, CalicoRemarks)
    BY StatusesAre DEF Said, Plain, Insight, CalicoRemarks
  <1> QED
    BY <1>2, <1>3, <1>4, SaidBoth DEF CalicoShowBlockers

\* The layers of Cilium.
LEMMA AllowSays ==
  ASSUME NEW checks, NEW check \in checks, NEW Clean, NEW L7, NEW Ambiguous, NEW doubt
  PROVE  Said({AllowDecision(check, Clean, L7, Ambiguous, doubt)}, checks)
  BY StatusesAre DEF AllowDecision, Said, Plain, Insight

LEMMA CiliumDecisionsSay ==
  ASSUME NEW rules, NEW pod, NEW pods, NEW targets, NEW service, NEW candidates, NEW groups
  PROVE  /\ Said({ciliumEgressDecision(rules, pod, targets, service, candidates, groups)}, CiliumVerdicts)
         /\ Said({ciliumIngressDecision(rules, pods, pod, candidates)}, CiliumVerdicts)
  <1>1. "Cilium-egress" \in CiliumVerdicts /\ "Cilium-ingress" \in CiliumVerdicts
    BY DEF CiliumVerdicts
  <1>2. Said({ciliumEgressDecision(rules, pod, targets, service, candidates, groups)}, CiliumVerdicts)
    BY <1>1, SaidOne, AllowSays, StatusesAre DEF ciliumEgressDecision
  <1>3. Said({ciliumIngressDecision(rules, pods, pod, candidates)}, CiliumVerdicts)
    BY <1>1, SaidOne, AllowSays, StatusesAre DEF ciliumIngressDecision
  <1> QED
    BY <1>2, <1>3

LEMMA CiliumDNSSays ==
  ASSUME NEW rules, NEW source, NEW dns, NEW groups
  PROVE  Said(analyzeCiliumDNS(rules, source, dns, groups), {"Cilium-DNS"})
  <1>1. /\ Said({}, {"Cilium-DNS"}) /\ Said({Plain("Cilium-DNS", "PASS")}, {"Cilium-DNS"})
        /\ \A diagnosis \in {"Cilium-egress-default-deny", "Cilium-deny"} :
              Said({Insight("Cilium-DNS", "FAIL", diagnosis)}, {"Cilium-DNS"})
    BY StatusesAre, SaidOne, SaidNothing
  <1> QED
    BY <1>1 DEF analyzeCiliumDNS

LEMMA CiliumListsSay ==
  /\ \A list : Said(badPolicies(list), CiliumRemarks)
  /\ \A check \in {"Cilium-policies", "Cilium-CIDR-groups", "Cilium-clusterwide"} :
        Said(listError(check), CiliumLists) /\ Said(listError(check), CiliumRemarks)
  BY StatusesAre DEF badPolicies, listError, Said, Plain, Insight, CiliumRemarks, CiliumLists

LEMMA CiliumLayerSays ==
  ASSUME NEW policies, NEW namespace, NEW home, NEW source, NEW targets, NEW service, NEW ports, NEW dns, NEW outcome,
         NEW endpoints \in SUBSET {Plain("Cilium-endpoints", "INFO")}
  PROVE  Said(CiliumAnalyze(policies, namespace, home, source, targets, service, ports, dns, outcome, endpoints),
              CiliumVerdicts \cup CiliumRemarks)
  <1> DEFINE list == Listed(policies, namespace, home, outcome.clusterwide = "read")
             rules == namedRules(list)
             groups == outcome.groups = "read"
             candidates == ciliumPathPortCandidates(ports, service, targets)
             selected == \E i \in DOMAIN rules : SelectsAny(rules[i], ToSet(targets))
             lists == endpoints
                 \cup (IF outcome.groups = "error" THEN listError("Cilium-CIDR-groups") ELSE {})
                 \cup (IF outcome.clusterwide = "error" THEN listError("Cilium-clusterwide") ELSE {})
                 \cup badPolicies(list)
                 \cup {Plain("Cilium-target-policies", IF selected THEN "WARN" ELSE "INFO")}
             verdicts == IF source = None THEN {}
                         ELSE {ciliumEgressDecision(rules, source, targets, service, candidates, groups),
                               ciliumIngressDecision(rules, ToSet(targets), source, candidates)}
                                  \cup analyzeCiliumDNS(rules, source, dns, groups)
  <1>1. Said(endpoints, CiliumRemarks) /\ \A status \in {"WARN", "INFO"} :
           Said({Plain("Cilium-target-policies", status)}, CiliumRemarks)
    BY StatusesAre DEF Said, Plain, Insight, CiliumRemarks
  <1>2. Said(lists, CiliumRemarks)
    BY <1>1, CiliumListsSay, SaidBoth, SaidNothing
  <1>3. Said(verdicts, CiliumVerdicts)
    BY CiliumDecisionsSay, CiliumDNSSays DEF Said, CiliumVerdicts
  <1>4. Said(listError("Cilium-policies"), CiliumRemarks)
    BY CiliumListsSay
  <1>5. CiliumAnalyze(policies, namespace, home, source, targets, service, ports, dns, outcome, endpoints)
          \in {{}, listError("Cilium-policies"), lists \cup verdicts}
    BY DEF CiliumAnalyze
  <1> HIDE DEF lists, verdicts
  <1> QED
    BY <1>2, <1>3, <1>4, <1>5 DEF Said

\* check egress.
LEMMA CiliumEgressSays ==
  ASSUME NEW policies, NEW source, NEW dns, NEW outcome, NEW outside, NEW port
  PROVE  /\ Said(CiliumAnalyzeDNS(policies, source, dns, outcome), {"Cilium-DNS"} \cup CiliumLists)
         /\ Said(AnalyzeExternalEgress(policies, source, outside, port, outcome), CiliumRemarks)
  <1>1. Said(CiliumAnalyzeDNS(policies, source, dns, outcome), {"Cilium-DNS"} \cup CiliumLists)
    <2> DEFINE verdict == analyzeCiliumDNS(namedRules(Listed(policies, NamespaceOf[source], None, outcome.clusterwide = "read")),
                                           source, dns, outcome.groups = "read")
    <2>1. Said(verdict, {"Cilium-DNS"})
      BY CiliumDNSSays
    <2> HIDE DEF verdict
    <2> QED
      BY <2>1, CiliumListsSay, SaidNothing DEF CiliumAnalyzeDNS, verdict, Said
  <1>2. "Cilium-outbound" \in CiliumRemarks
    BY DEF CiliumRemarks
  <1>3. ASSUME NEW rules PROVE Said({ciliumExternalEgressDecision(rules, source, outside, port)}, CiliumRemarks)
    BY <1>2, SaidOne, AllowSays, StatusesAre DEF ciliumExternalEgressDecision
  <1>4. Said(AnalyzeExternalEgress(policies, source, outside, port, outcome), CiliumRemarks)
    BY <1>3, CiliumListsSay, SaidBoth, SaidNothing DEF AnalyzeExternalEgress
  <1> QED
    BY <1>1, <1>4

LEMMA CiliumBlockersSay ==
  ASSUME NEW policies, NEW direction, NEW subject, NEW namespace, NEW targets, NEW service, NEW ports,
         NEW names, NEW outcome
  PROVE  Said(CiliumShowBlockers(policies, direction, subject, namespace, targets, service, ports, names,
                                 outcome), CiliumVerdicts \cup CiliumRemarks)
  <1> DEFINE checks == CiliumVerdicts \cup CiliumRemarks
  <1>1. ASSUME NEW Denies, NEW Allows, NEW candidates
        PROVE  Said({CiliumPortPosture(Denies, Allows, candidates)}, checks)
    BY StatusesAre DEF CiliumPortPosture, Said, Plain, Insight, CiliumRemarks
  <1>2. ASSUME NEW rules, NEW pods, NEW pod, NEW candidates, NEW groups
        PROVE  /\ Said({ciliumEgressDecision(rules, pod, targets, service, candidates, groups)}, checks)
               /\ Said({ciliumIngressDecision(rules, pods, pod, candidates)}, checks)
    BY CiliumDecisionsSay, SaidOfMore
  <1>3. \A status \in {"PASS", "WARN"} : Said({Plain("Cilium-selected", status)}, checks)
    BY StatusesAre DEF Said, Plain, Insight, CiliumRemarks
  <1>4. Said({Plain("Cilium-analysis", "INFO")}, checks)
    BY StatusesAre DEF Said, Plain, Insight, CiliumRemarks
  <1>5. /\ \A list : Said(badPolicies(list), checks)
        /\ Said(listError("Cilium-policies"), checks) /\ Said(listError("Cilium-CIDR-groups"), checks)
    BY CiliumListsSay, SaidOfMore
  <1>6. ASSUME NEW some, NEW other, Said({some}, checks), Said({other}, checks) PROVE Said({some, other}, checks)
    BY <1>6 DEF Said
  <1> HIDE DEF checks
  <1> QED
    BY <1>1, <1>2, <1>3, <1>4, <1>5, <1>6, SaidBoth, SaidNothing DEF CiliumShowBlockers, checks


\* What the commands say of their own: check service, and check egress.
ServiceRemarks == {"CNI-policies", "namespace-labels"}
EgressRemarks == {"source", "urls", "resolv.conf", "posture"}
ProbeChecks == {"curl", "resolve", "url"}
PostureChecks == {"native-port", "Calico-default-deny", "Cilium-outbound"}

\* A report of check service keeps what the engines have decided on this cluster.
Decided(i) ==
    /\ i.status \in Statuses
    /\ i.check \in NativeVerdicts => i \in NativeInsights
    /\ i.check \in CalicoVerdicts => i \in CalicoInsights
    /\ i.check \in CiliumVerdicts => i \in CiliumInsights

ResolverInsights == CiliumAnalyzeDNS(world.cilium, world.source, DNS, access.cilium)

\* And one of check egress what they have said of a URL.
Posed(i) ==
    /\ i.status \in Statuses
    /\ i.check = "Cilium-DNS" => i \in ResolverInsights
    /\ i.check \in PostureChecks => i \in About(i.url, URLPosture(i.url))

SaidInv ==
    /\ OpenInv
    /\ world \in Worlds
    /\ \A i \in report["service"] : Decided(i)
    /\ \A i \in report["egress"] : Posed(i)
    /\ \A i \in report["blockers"] : i.status \in Statuses

\* The cluster does not change, and so neither do the decisions.
LEMMA SameDecisions ==
  ASSUME UNCHANGED world, NEW i
  PROVE  Decided(i)' = Decided(i) /\ Posed(i)' = Posed(i)
  <1>1. NativeInsights' = NativeInsights
    BY DEF NativeInsights, access, SourceNamespace, Targets, ServicePorts
  <1>2. CalicoInsights' = CalicoInsights
    BY DEF CalicoInsights, access, Targets, ServicePorts, DNS
  <1>3. CiliumInsights' = CiliumInsights
    BY DEF CiliumInsights, access, SourceNamespace, Targets, ServicePorts, DNS
  <1>4. ResolverInsights' = ResolverInsights
    BY DEF ResolverInsights, access, DNS
  <1>5. URLPosture(i.url)' = URLPosture(i.url)
    BY DEF URLPosture, HomeReadable, HomePolicies, access, SourceNamespace
  <1>6. About(i.url, URLPosture(i.url))' = About(i.url, URLPosture(i.url))
    BY <1>5 DEF About
  <1> QED
    BY <1>1, <1>2, <1>3, <1>4, <1>6 DEF Decided, Posed

\* No engine decides for another.
LEMMA ChecksApart ==
  /\ (NativeVerdicts \cup NativeRemarks) \cap (CalicoVerdicts \cup CiliumVerdicts) = {}
  /\ (CalicoVerdicts \cup CalicoRemarks) \cap (NativeVerdicts \cup CiliumVerdicts) = {}
  /\ (CiliumVerdicts \cup CiliumRemarks) \cap (NativeVerdicts \cup CalicoVerdicts) = {}
  /\ NativeRemarks \cap NativeVerdicts = {} /\ CalicoRemarks \cap CalicoVerdicts = {}
  /\ CiliumRemarks \cap CiliumVerdicts = {}
  /\ ServiceRemarks \cap (NativeVerdicts \cup CalicoVerdicts \cup CiliumVerdicts) = {}
  /\ (NativeRemarks \cup CalicoRemarks \cup CiliumRemarks) \cap ({"Cilium-DNS"} \cup ProbeChecks) = {}
  /\ (EgressRemarks \cup ProbeChecks) \cap ({"Cilium-DNS"} \cup PostureChecks) = {}
  /\ ({"Cilium-DNS"} \cup CiliumLists) \cap (PostureChecks \cup ProbeChecks) = {}
  /\ EgressRemarks \cap ProbeChecks = {}
  BY DEF NativeVerdicts, NativeRemarks, CalicoVerdicts, CalicoRemarks, CiliumVerdicts, CiliumRemarks,
     ServiceRemarks, EgressRemarks, ProbeChecks, PostureChecks, CiliumLists

LEMMA SaysDecided ==
  ASSUME SaidInv, NEW insights, NEW next, Says("service", insights, next), OpenInv',
         \A i \in insights : Decided(i)
  PROVE  SaidInv'
  <1>1. /\ report' = [report EXCEPT !["service"] = @ \cup insights] /\ UNCHANGED world
        /\ report = [c \in Commands |-> report[c]]
    BY DEF Says, SaidInv, OpenInv
  <1>2. /\ report'["service"] = report["service"] \cup insights
        /\ report'["egress"] = report["egress"] /\ report'["blockers"] = report["blockers"]
    BY <1>1 DEF Commands
  <1> QED
    BY <1>1, <1>2, SameDecisions DEF SaidInv

LEMMA SaysPosed ==
  ASSUME SaidInv, NEW insights, NEW next, Says("egress", insights, next), OpenInv',
         \A i \in insights : Posed(i)
  PROVE  SaidInv'
  <1>1. /\ report' = [report EXCEPT !["egress"] = @ \cup insights] /\ UNCHANGED world
        /\ report = [c \in Commands |-> report[c]]
    BY DEF Says, SaidInv, OpenInv
  <1>2. /\ report'["egress"] = report["egress"] \cup insights
        /\ report'["service"] = report["service"] /\ report'["blockers"] = report["blockers"]
    BY <1>1 DEF Commands
  <1> QED
    BY <1>1, <1>2, SameDecisions DEF SaidInv

LEMMA SaysBlockers ==
  ASSUME SaidInv, NEW insights, NEW next, Says("blockers", insights, next), OpenInv',
         \A i \in insights : i.status \in Statuses
  PROVE  SaidInv'
  <1>1. /\ report' = [report EXCEPT !["blockers"] = @ \cup insights] /\ UNCHANGED world
        /\ report = [c \in Commands |-> report[c]]
    BY DEF Says, SaidInv, OpenInv
  <1>2. /\ report'["blockers"] = report["blockers"] \cup insights
        /\ report'["service"] = report["service"] /\ report'["egress"] = report["egress"]
    BY <1>1 DEF Commands
  <1> QED
    BY <1>1, <1>2, SameDecisions DEF SaidInv

LEMMA SilentSaid ==
  ASSUME SaidInv, UNCHANGED <<world, report>>, OpenInv'
  PROVE  SaidInv'
  BY SameDecisions DEF SaidInv


LEMMA ServiceSaid ==
  ASSUME SaidInv, CheckService, OpenInv'
  PROVE  SaidInv'
  <1>1. world \in World
    BY CommandsAssumption DEF SaidInv
  <1>2. CASE native
    <2>1. Said(NativeInsights, NativeVerdicts \cup NativeRemarks)
      BY NativeSays
    <2>2. \A i \in NativeInsights : Decided(i)
      BY <2>1, ChecksApart DEF Said, Decided
    <2> QED
      BY <1>2, <2>2, SaysDecided DEF native
  <1>3. CASE calico
    <2>1. world.fallback \in Fallbacks
      BY <1>1 DEF World
    <2>2. Said(CalicoInsights, CalicoVerdicts \cup CalicoRemarks)
      BY <2>1, CalicoLayerSays DEF CalicoInsights
    <2>3. \A i \in CalicoInsights : Decided(i)
      BY <2>2, ChecksApart DEF Said, Decided
    <2>4. \A i \in {Plain("CNI-policies", "SKIP"), Plain("namespace-labels", "WARN")} :
             i.check \in ServiceRemarks /\ i.status \in Statuses
      BY StatusesAre DEF Plain, Insight, ServiceRemarks
    <2>5. \A i \in {Plain("CNI-policies", "SKIP"), Plain("namespace-labels", "WARN")} : Decided(i)
      BY <2>4, ChecksApart DEF Decided
    <2>6. PICK insights, next : Says("service", insights, next) /\ \A i \in insights : Decided(i)
      BY <1>3, <2>3, <2>5 DEF calico
    <2> QED
      BY <2>6, SaysDecided
  <1>4. CASE host
    <2> DEFINE insights == AnalyzeIngressSurface(world.calico, world.hosts, world.service, access.calico)
    <2>1. Said(insights, CalicoRemarks)
      BY HostLayerSays
    <2>2. \A i \in insights : Decided(i)
      BY <2>1, ChecksApart DEF Said, Decided
    <2> QED
      BY <1>4, <2>2, SaysDecided DEF host
  <1>5. CASE cilium
    <2>1. access.endpoints \in SUBSET {Plain("Cilium-endpoints", "INFO")}
      BY <1>1 DEF World, Access, access
    <2>2. Said(CiliumInsights, CiliumVerdicts \cup CiliumRemarks)
      BY <2>1, CiliumLayerSays DEF CiliumInsights
    <2>3. \A i \in CiliumInsights : Decided(i)
      BY <2>2, ChecksApart DEF Said, Decided
    <2> QED
      BY <1>5, <2>3, SaysDecided DEF cilium
  <1>6. CASE finishService
    BY <1>6, SilentSaid DEF finishService, Finish
  <1> QED
    BY <1>2, <1>3, <1>4, <1>5, <1>6 DEF CheckService

LEMMA BlockersSaid ==
  ASSUME SaidInv, Blockers, OpenInv'
  PROVE  SaidInv'
  <1>1. CASE startBlockers
    <2>1. report' = report \/ report' = [report EXCEPT !["blockers"] = {Plain("subject", "INFO"), Plain("target", "INFO")}]
      BY <1>1 DEF startBlockers
    <2>2. /\ report'["service"] = report["service"] /\ report'["egress"] = report["egress"]
          /\ \A i \in report'["blockers"] : i.status \in Statuses
      BY <2>1, StatusesAre DEF SaidInv, OpenInv, Commands, Plain, Insight
    <2> QED
      BY <1>1, <2>2, SameDecisions DEF SaidInv, startBlockers
  <1>2. CASE blockersNative
    <2>1. Said(NativeBlockers, NativeRemarks)
      BY NativeBlockersSay, StatusesAre, SaidBoth, SaidNothing DEF NativeBlockers, Said, Plain, Insight, NativeRemarks
    <2> QED
      BY <1>2, <2>1, SaysBlockers DEF blockersNative, Said
  <1>3. CASE blockersCalico
    <2>1. Said(CalicoBlockers, CalicoRemarks)
      BY CalicoBlockersSay DEF CalicoBlockers
    <2>2. \A i \in Or(CalicoBlockers, "Calico-analysis") : i.status \in Statuses
      BY <2>1, StatusesAre DEF Said, Or, Plain, Insight
    <2> QED
      BY <1>3, <2>2, SaysBlockers DEF blockersCalico
  <1>4. CASE blockersCilium
    <2>1. Said(CiliumBlockers, CiliumVerdicts \cup CiliumRemarks)
      BY CiliumBlockersSay DEF CiliumBlockers
    <2>2. \A i \in Or(CiliumBlockers, "Cilium-analysis") : i.status \in Statuses
      BY <2>1, StatusesAre DEF Said, Or, Plain, Insight
    <2> QED
      BY <1>4, <2>2, SaysBlockers DEF blockersCilium
  <1>5. CASE blockersConclude
    <2>1. NoBlocker.status \in Statuses
      BY StatusesAre DEF NoBlocker, Insight
    <2> QED
      BY <1>5, <2>1, SaysBlockers DEF blockersConclude
  <1>6. CASE finishBlockers
    BY <1>6, SilentSaid DEF finishBlockers, Finish
  <1> QED
    BY <1>1, <1>2, <1>3, <1>4, <1>5, <1>6 DEF Blockers

\* What the URL of a finding is does not change its check and its status.
LEMMA AboutKeeps ==
  ASSUME NEW url, NEW insights, NEW checks, Said(insights, checks)
  PROVE  Said(About(url, insights), checks) /\ \A i \in About(url, insights) : i.url = url
  BY DEF About, Said

LEMMA PostureSaid ==
  ASSUME NEW url
  PROVE  /\ Said(URLPosture(url), NativeRemarks \cup CalicoRemarks \cup CiliumRemarks)
         /\ \A i \in About(url, URLPosture(url)) : Posed(i)
  <1> DEFINE checks == NativeRemarks \cup CalicoRemarks \cup CiliumRemarks
             nativeSays == IF HomeReadable
                           THEN inspectNativeEgressPortPosture(HomePolicies, world.source, url.port)
                           ELSE {Plain("native-port", "WARN")}
             calicoSays == CalicoShowBlockers(world.calico, "egress", world.source, None, <<>>, None, {url.port},
                                              {}, access.calico, access.calicoRead)
             ciliumSays == AnalyzeExternalEgress(world.cilium, world.source, url.host, url.port, access.cilium)
  <1>1. Said(nativeSays, NativeRemarks)
    BY NativePostureSays, StatusesAre DEF Said, Plain, Insight, NativeRemarks
  <1>2. Said(calicoSays, CalicoRemarks)
    BY CalicoBlockersSay
  <1>3. Said(ciliumSays, CiliumRemarks)
    BY CiliumEgressSays
  <1>4. URLPosture(url) = nativeSays \cup calicoSays \cup ciliumSays
    BY DEF URLPosture
  <1> HIDE DEF nativeSays, calicoSays, ciliumSays
  <1>5. Said(URLPosture(url), checks)
    BY <1>1, <1>2, <1>3, <1>4 DEF Said
  <1>6. Said(About(url, URLPosture(url)), checks) /\ \A i \in About(url, URLPosture(url)) : i.url = url
    BY <1>5, AboutKeeps
  <1> QED
    BY <1>5, <1>6, ChecksApart DEF Said, Posed

LEMMA EgressSaid ==
  ASSUME SaidInv, Egress, OpenInv'
  PROVE  SaidInv'
  <1>1. ASSUME NEW insights, Said(insights, EgressRemarks \cup ProbeChecks)
        PROVE  \A i \in insights : Posed(i)
    BY <1>1, ChecksApart DEF Said, Posed
  <1>2. ASSUME NEW url, NEW insights, Said(insights, EgressRemarks \cup ProbeChecks)
        PROVE  \A i \in About(url, insights) : Posed(i)
    BY <1>1, <1>2, AboutKeeps
  <1>3. ASSUME NEW check \in EgressRemarks \cup ProbeChecks, NEW status \in Statuses, NEW diagnosis
        PROVE  Said({Insight(check, status, diagnosis)}, EgressRemarks \cup ProbeChecks)
               /\ Said({Plain(check, status)}, EgressRemarks \cup ProbeChecks)
    BY SaidOne
  <1>4. {"source", "urls", "resolv.conf", "posture", "curl", "resolve", "url"} \subseteq EgressRemarks \cup ProbeChecks
    BY DEF EgressRemarks, ProbeChecks
  <1>5. CASE egressSource
    <2>1. PICK insights, next :
             /\ Says("egress", insights, next)
             /\ \/ \E status \in {"PASS", "WARN"} : insights = {Plain("source", status)}
                \/ \E diagnosis \in {"none", "source"} :
                      insights = {Insight("source", "FAIL", diagnosis), Plain("urls", "SKIP")}
      BY <1>5 DEF egressSource
    <2>2. Said(insights, EgressRemarks \cup ProbeChecks)
      BY <2>1, <1>4, StatusesAre DEF Said, Plain, Insight
    <2> QED
      BY <1>1, <2>1, <2>2, SaysPosed
  <1>6. CASE egressDNS
    <2>1. Said({Plain("resolv.conf", "PASS")}, EgressRemarks \cup ProbeChecks)
          /\ Said({Plain("resolv.conf", "WARN")}, EgressRemarks \cup ProbeChecks)
      BY <1>3, <1>4, StatusesAre
    <2>2. Said(ResolverInsights, {"Cilium-DNS"} \cup CiliumLists)
      BY CiliumEgressSays DEF ResolverInsights
    <2>3. \A i \in ResolverInsights : Posed(i)
      BY <2>2, ChecksApart DEF Said, Posed
    <2>4. PICK insights, next :
             Says("egress", insights, next)
             /\ insights \in {{Plain("resolv.conf", "PASS")} \cup ResolverInsights, {Plain("resolv.conf", "WARN")}}
      BY <1>6 DEF egressDNS, ResolverInsights
    <2>5. \A i \in insights : Posed(i)
      BY <1>1, <2>1, <2>3, <2>4
    <2> QED
      BY <2>4, <2>5, SaysPosed
  <1>7. CASE egressContext
    <2> DEFINE posture == IF HomeReadable THEN inspectEgressPolicyContext(HomePolicies, world.source)
                          ELSE Plain("native-egress-posture", "WARN")
               missing == IF urls = <<>> THEN {Insight("urls", "FAIL", "no-target")} ELSE {}
    <2>1. posture.check = "native-egress-posture" /\ posture.status \in Statuses
      BY StatusesAre DEF inspectEgressPolicyContext, Plain, Insight
    <2>2. Posed(posture)
      BY <2>1 DEF Posed, PostureChecks
    <2>3. \A i \in missing : Posed(i)
      BY <1>1, <1>3, <1>4, StatusesAre
    <2> HIDE DEF posture, missing
    <2>4. Says("egress", {posture} \cup missing, "egress-urls")
      BY <1>7 DEF egressContext, posture, missing
    <2> QED
      BY <2>2, <2>3, <2>4, SaysPosed
  <1>8. CASE egressURL
    <2> DEFINE url == Head(urls)
    <2>1. \A i \in About(url, URLPosture(url)) : Posed(i)
      BY PostureSaid
    <2>2. Said({Plain("posture", "INFO")}, EgressRemarks \cup ProbeChecks)
          /\ Said({Insight("url", "FAIL", "invalid-URL")}, EgressRemarks \cup ProbeChecks)
      BY <1>3, <1>4, StatusesAre
    <2>3. /\ \A i \in About(url, {Plain("posture", "INFO")}) : Posed(i)
          /\ \A i \in About(url, {Insight("url", "FAIL", "invalid-URL")}) : Posed(i)
      BY <1>2, <2>2
    <2>4. PICK insights, next :
             Says("egress", insights, next)
             /\ insights \in {About(url, URLPosture(url)), About(url, {Plain("posture", "INFO")}),
                              About(url, {Insight("url", "FAIL", "invalid-URL")})}
      BY <1>8 DEF egressURL
    <2>5. \A i \in insights : Posed(i)
      BY <2>1, <2>3, <2>4
    <2> QED
      BY <2>4, <2>5, SaysPosed
  <1>9. CASE egressProbe
    <2>1. PICK resolved \in {"yes", "no", "no-tool"}, curl \in {"answer", "refused", "no-tool", "no-name", "timeout"} :
             Says("egress", About(Head(urls), {Resolution(resolved), Probe(curl, resolved)}), "egress-urls")
      BY <1>9 DEF egressProbe
    <2>2. Resolution(resolved).check \in ProbeChecks /\ Resolution(resolved).status \in Statuses
      BY StatusesAre DEF Resolution, Plain, Insight, ProbeChecks
    <2>3. Probe(curl, resolved).check \in ProbeChecks /\ Probe(curl, resolved).status \in Statuses
      BY StatusesAre DEF Probe, Plain, Insight, ProbeChecks
    <2>4. Said({Resolution(resolved), Probe(curl, resolved)}, EgressRemarks \cup ProbeChecks)
      BY <2>2, <2>3 DEF Said
    <2>5. \A i \in About(Head(urls), {Resolution(resolved), Probe(curl, resolved)}) : Posed(i)
      BY <1>2, <2>4
    <2> QED
      BY <2>1, <2>5, SaysPosed
  <1>10. CASE egressEnd
    BY <1>10, SilentSaid DEF egressEnd
  <1>11. CASE finishEgress
    BY <1>11, SilentSaid DEF finishEgress, Finish
  <1> QED
    BY <1>5, <1>6, <1>7, <1>8, <1>9, <1>10, <1>11 DEF Egress

LEMMA StepSaid ==
  ASSUME SaidInv, Next, OpenInv'
  PROVE  SaidInv'
  BY ServiceSaid, BlockersSaid, EgressSaid DEF Next

LEMMA InitSaid == Init => SaidInv
  BY InitOpen DEF Init, SaidInv, Commands


-------------------------------------------------------------------------------
(* check egress explains what it fails.                                    *)

\* What a step adds that is not a failed probe needs no diagnosis.
Quiet(insights) == \A i \in insights : i.check \in ProbeChecks => i.status # "FAIL"

Explains(insights) == \E i \in insights : i.diagnosis # "none"

LEMMA ExplainedIs ==
  EgressFailureExplained <=> (Quiet(report["egress"]) \/ Explains(report["egress"]))
  BY DEF EgressFailureExplained, Verdict, Quiet, Explains, ProbeChecks

LEMMA ExplainedKept ==
  ASSUME OpenInv, EgressFailureExplained, NEW insights, NEW next, Says("egress", insights, next),
         Quiet(insights) \/ Explains(report["egress"] \cup insights)
  PROVE  EgressFailureExplained'
  <1>1. report'["egress"] = report["egress"] \cup insights
    BY DEF Says, OpenInv, Commands
  <1>2. Quiet(report'["egress"]) \/ Explains(report'["egress"])
    BY <1>1, ExplainedIs DEF Quiet, Explains
  <1> QED
    BY <1>2 DEF EgressFailureExplained, Verdict, Quiet, Explains, ProbeChecks

LEMMA AboutExplains ==
  ASSUME NEW url, NEW insights, NEW i \in insights, i.diagnosis # "none"
  PROVE  Explains(About(url, insights))
  <1> DEFINE named == [check |-> i.check, status |-> i.status, diagnosis |-> i.diagnosis, url |-> url]
  <1>1. named \in About(url, insights)
    BY DEF About
  <1>2. named.diagnosis # "none"
    OBVIOUS
  <1> HIDE DEF named
  <1> QED
    BY <1>1, <1>2 DEF Explains

LEMMA QuietChecks ==
  ASSUME NEW insights, NEW checks, Said(insights, checks), checks \cap ProbeChecks = {}
  PROVE  Quiet(insights)
  BY DEF Said, Quiet

LEMMA EgressExplained ==
  ASSUME OpenInv, EgressFailureExplained, Egress
  PROVE  EgressFailureExplained'
  <1>1. CASE egressSource
    <2>1. PICK insights, next : Says("egress", insights, next) /\ \A i \in insights : i.check \in EgressRemarks
      BY <1>1 DEF egressSource, Plain, Insight, EgressRemarks
    <2>2. Quiet(insights)
      BY <2>1, ChecksApart DEF Quiet
    <2> QED
      BY <2>1, <2>2, ExplainedKept
  <1>2. CASE egressDNS
    <2>1. Said(ResolverInsights, {"Cilium-DNS"} \cup CiliumLists)
      BY CiliumEgressSays DEF ResolverInsights
    <2>2. PICK insights, next :
             Says("egress", insights, next)
             /\ insights \in {{Plain("resolv.conf", "PASS")} \cup ResolverInsights, {Plain("resolv.conf", "WARN")}}
      BY <1>2 DEF egressDNS, ResolverInsights
    <2>3. Quiet(ResolverInsights)
      BY <2>1, ChecksApart, QuietChecks
    <2>4. Quiet({Plain("resolv.conf", "PASS")}) /\ Quiet({Plain("resolv.conf", "WARN")})
      BY DEF Quiet, Plain, Insight
    <2>5. Quiet(insights)
      BY <2>2, <2>3, <2>4 DEF Quiet
    <2> QED
      BY <2>2, <2>5, ExplainedKept
  <1>3. CASE egressContext
    <2> DEFINE posture == IF HomeReadable THEN inspectEgressPolicyContext(HomePolicies, world.source)
                          ELSE Plain("native-egress-posture", "WARN")
               missing == IF urls = <<>> THEN {Insight("urls", "FAIL", "no-target")} ELSE {}
    <2>1. posture.check = "native-egress-posture"
      BY DEF inspectEgressPolicyContext, Plain, Insight
    <2>2. \A i \in missing : i.check = "urls"
      BY DEF Insight
    <2>3. Quiet({posture} \cup missing)
      BY <2>1, <2>2 DEF Quiet, ProbeChecks
    <2> HIDE DEF posture, missing
    <2>4. Says("egress", {posture} \cup missing, "egress-urls")
      BY <1>3 DEF egressContext, posture, missing
    <2> QED
      BY <2>3, <2>4, ExplainedKept
  <1>4. CASE egressURL
    <2> DEFINE url == Head(urls)
    <2>1. Said(About(url, URLPosture(url)), NativeRemarks \cup CalicoRemarks \cup CiliumRemarks)
      BY PostureSaid, AboutKeeps
    <2>2. Quiet(About(url, URLPosture(url)))
      BY <2>1, ChecksApart, QuietChecks
    <2>3. Quiet(About(url, {Plain("posture", "INFO")}))
      BY DEF Quiet, About, Plain, Insight
    <2>4. Explains(About(url, {Insight("url", "FAIL", "invalid-URL")}))
      BY AboutExplains DEF Insight
    <2>5. PICK insights, next :
             Says("egress", insights, next)
             /\ insights \in {About(url, URLPosture(url)), About(url, {Plain("posture", "INFO")}),
                              About(url, {Insight("url", "FAIL", "invalid-URL")})}
      BY <1>4 DEF egressURL
    <2>6. Quiet(insights) \/ Explains(report["egress"] \cup insights)
      BY <2>2, <2>3, <2>4, <2>5 DEF Explains
    <2> QED
      BY <2>5, <2>6, ExplainedKept
  <1>5. CASE egressProbe
    <2> DEFINE about(resolved, curl) == About(Head(urls), {Resolution(resolved), Probe(curl, resolved)})
    <2>1. PICK resolved \in {"yes", "no", "no-tool"}, curl \in {"answer", "refused", "no-tool", "no-name", "timeout"} :
             Says("egress", about(resolved, curl), "egress-urls")
      BY <1>5 DEF egressProbe
    <2>2. CASE resolved = "no"
      <3>1. Resolution(resolved).diagnosis = "DNS-resolution-failed"
        BY <2>2 DEF Resolution, Insight
      <3>2. Explains(about(resolved, curl))
        BY <3>1, AboutExplains
      <3> QED
        BY <2>1, <3>2, ExplainedKept DEF Explains
    <2>3. CASE resolved # "no" /\ curl \in {"refused", "no-name"}
      <3>1. Probe(curl, resolved).diagnosis # "none"
        BY <2>3 DEF Probe, Insight
      <3>2. Explains(about(resolved, curl))
        BY <3>1, AboutExplains
      <3> QED
        BY <2>1, <3>2, ExplainedKept DEF Explains
    <2>4. CASE resolved # "no" /\ curl \in {"answer", "no-tool"}
      <3>1. Resolution(resolved).status # "FAIL" /\ Probe(curl, resolved).status # "FAIL"
        BY <2>4 DEF Resolution, Probe, Plain, Insight
      <3>2. Quiet(about(resolved, curl))
        BY <3>1 DEF Quiet, About
      <3> QED
        BY <2>1, <3>2, ExplainedKept
    <2>5. CASE resolved # "no" /\ curl = "timeout" /\ LastResort(resolved)
      <3>1. Probe(curl, resolved).diagnosis # "none"
        BY <2>5 DEF Probe, Insight
      <3>2. Explains(about(resolved, curl))
        BY <3>1, AboutExplains
      <3> QED
        BY <2>1, <3>2, ExplainedKept DEF Explains
    <2>6. CASE resolved # "no" /\ curl = "timeout" /\ ~LastResort(resolved)
      <3>1. Diagnosed(PolicyBlame \cup {"DNS-resolution-failed"})
        BY <2>6 DEF LastResort
      <3>2. "none" \notin PolicyBlame \cup {"DNS-resolution-failed"}
        BY DEF PolicyBlame
      <3>3. Explains(report["egress"])
        BY <3>1, <3>2 DEF Diagnosed, Explains
      <3> QED
        BY <2>1, <3>3, ExplainedKept DEF Explains
    <2> QED
      BY <2>1, <2>2, <2>3, <2>4, <2>5, <2>6
  <1>6. CASE egressEnd
    BY <1>6 DEF egressEnd, EgressFailureExplained, Verdict
  <1>7. CASE finishEgress
    BY <1>7 DEF finishEgress, Finish, EgressFailureExplained, Verdict
  <1> QED
    BY <1>1, <1>2, <1>3, <1>4, <1>5, <1>6, <1>7 DEF Egress

\* The other commands say nothing in the report of check egress.
OtherReport == report'["egress"] = report["egress"]

LEMMA OthersSilent ==
  ASSUME OpenInv, CheckService \/ Blockers
  PROVE  OtherReport
  <1>1. ASSUME NEW command \in {"service", "blockers"}, NEW insights, NEW next, Says(command, insights, next)
        PROVE  OtherReport
    BY <1>1 DEF Says, OpenInv, Commands, OtherReport
  <1>2. CASE CheckService
    BY <1>1, <1>2 DEF CheckService, native, calico, host, cilium, finishService, Finish, OtherReport
  <1>3. CASE Blockers
    <2>1. CASE startBlockers
      BY <2>1 DEF startBlockers, OtherReport, OpenInv, Commands
    <2> QED
      BY <1>1, <1>3, <2>1 DEF Blockers, blockersNative, blockersCalico, blockersCilium, blockersConclude,
         finishBlockers, Finish, OtherReport
  <1> QED
    BY <1>2, <1>3

LEMMA StepExplained ==
  ASSUME OpenInv, EgressFailureExplained, Next
  PROVE  EgressFailureExplained'
  BY OthersSilent, EgressExplained DEF Next, OtherReport, EgressFailureExplained, Verdict

LEMMA InitExplained == Init => EgressFailureExplained
  BY DEF Init, EgressFailureExplained, Verdict, Commands


-------------------------------------------------------------------------------
(* The verdicts on NetworkPolicies in a report.                            *)

LEMMA SomeOf ==
  ASSUME NEW S, NEW s \in Seq(S), s # <<>>
  PROVE  s[1] \in ToSet(s) /\ ToSet(s) \subseteq S
  <1>1. DOMAIN s = 1..Len(s) /\ Len(s) \in Nat /\ Len(s) # 0
    OBVIOUS
  <1>2. 1 \in DOMAIN s /\ \A i \in DOMAIN s : s[i] \in S
    BY <1>1
  <1> QED
    BY <1>2 DEF ToSet

\* A PASS on egress is true of some target, when no port is shifted.
LEMMA NativeEgressPass ==
  ASSUME NEW policies, NEW source \in Pods, NEW namespace, NEW targets \in Seq(Pods), NEW service, NEW number \in PortNumber,
         \A policy \in policies : \A rule \in policy.egress :
            /\ Plainly(rule)
            /\ \A p \in rule.ports : p.port \in PortNumber \cup PortNames \cup {None}
            /\ \A peer \in rule.peers : peer.block \subseteq Address /\ peer.block \cap VIPs = {},
         service # None => service.vip \in VIPs \cup {None},
         targets # <<>>, \A pod \in ToSet(targets) : NamespaceOf[pod] = namespace,
         analyzeNativeEgress(InNamespace(policies, NamespaceOf[source]), source, namespace,
                             targets, service, {number}).status = "PASS"
  PROVE  \E pod \in ToSet(targets) : NativeEgressLets(policies, source, pod, number)
  <1> DEFINE home == NamespaceOf[source]
             selecting == Selecting(InNamespace(policies, home), "Egress", source)
  <1>1. ToSet(targets) # {} /\ ToSet(targets) \subseteq Pods
    BY SomeOf
  <1>2. selecting = {} \/ \E rule \in EgressRules(selecting) :
                             EgressRuleAllows(rule, home, namespace, targets, service, {number})
    BY DEF analyzeNativeEgress, Plain, Insight
  <1>3. CASE selecting = {}
    BY <1>1, <1>3 DEF NativeEgressLets, NativeLets
  <1>4. CASE \E rule \in EgressRules(selecting) :
                EgressRuleAllows(rule, home, namespace, targets, service, {number})
    <2>1. PICK rule \in EgressRules(selecting) :
             EgressRuleAllows(rule, home, namespace, targets, service, {number})
      BY <1>4
    <2>2. PICK policy \in policies : rule \in policy.egress
      BY <2>1 DEF EgressRules, Selecting, InNamespace
    <2>3. home # None
      BY WorldAssumption
    <2>4. None \notin Address
      BY WorldAssumption DEF Address
    <2>5. \A peer \in rule.peers : ~(service # None /\ service.vip \in peer.block)
      BY <2>2, <2>4
    <2>6. PICK pod \in ToSet(targets) :
             rule.peers = {} \/ \E peer \in rule.peers : PeerMatchesPod(peer, pod, namespace, home) \/ pod \in peer.block
      BY <1>1, <2>1, <2>5 DEF EgressRuleAllows
    <2>7. rule.peers = {} \/ \E peer \in rule.peers : NativePeerHolds(peer, home, pod)
      BY <1>1, <2>3, <2>6 DEF PeerMatchesPod, NativePeerHolds
    <2>8. rule.ports = {} \/ \E p \in rule.ports : NativePortLets(p, pod, number)
      BY <2>1, <2>2 DEF EgressRuleAllows, PortsAllow, NativePortLets, Plainly
    <2>9. NativeEgressLets(policies, source, pod, number)
      BY <2>1, <2>7, <2>8 DEF NativeEgressLets, NativeLets
    <2> QED
      BY <2>9
  <1> QED
    BY <1>2, <1>3, <1>4

\* And one on ingress, when a peer names the namespaces of its pods.
LEMMA NativeIngressPass ==
  ASSUME NEW policies, NEW source \in Pods, NEW namespace, NEW targets \in Seq(Pods), NEW number \in PortNumber,
         \A policy \in policies : \A rule \in policy.ingress :
            /\ Plainly(rule)
            /\ \A p \in rule.ports : p.port \in PortNumber \cup PortNames \cup {None}
            /\ \A peer \in rule.peers : peer.pods # None => peer.namespaces # None,
         targets # <<>>, \A pod \in ToSet(targets) : NamespaceOf[pod] = namespace,
         analyzeNativeIngress(InNamespace(policies, namespace), source, targets, {number}).status = "PASS"
  PROVE  \E pod \in ToSet(targets) : NativeIngressLets(policies, source, pod, number)
  <1> DEFINE Of(pod) == Selecting(InNamespace(policies, namespace), "Ingress", pod)
             selecting == UNION {Of(pod) : pod \in ToSet(targets)}
  <1>1. ToSet(targets) # {}
    BY SomeOf
  <1>2. selecting = {} \/ \E rule \in IngressRules(selecting) : IngressRuleAllows(rule, source, {number})
    BY DEF analyzeNativeIngress, Plain, Insight
  <1>3. CASE selecting = {}
    <2>1. PICK pod \in ToSet(targets) : Of(pod) = {}
      BY <1>1, <1>3
    <2> QED
      BY <2>1 DEF NativeIngressLets, NativeLets
  <1>4. CASE \E rule \in IngressRules(selecting) : IngressRuleAllows(rule, source, {number})
    <2>1. PICK rule \in IngressRules(selecting) : IngressRuleAllows(rule, source, {number})
      BY <1>4
    <2>2. PICK pod \in ToSet(targets) : \E policy \in Of(pod) : rule \in policy.ingress
      BY <2>1 DEF IngressRules
    <2>a. PICK policy \in Of(pod) : rule \in policy.ingress
      BY <2>2
    <2>3. policy \in policies
      BY <2>a DEF Selecting, InNamespace
    <2>4. rule.peers = {} \/ \E peer \in rule.peers : NativePeerHolds(peer, namespace, source)
      BY <2>1, <2>a, <2>3 DEF IngressRuleAllows, PeerMatchesPod, NativePeerHolds
    <2>5. rule.ports = {} \/ \E p \in rule.ports : NativePortLets(p, pod, number)
      BY <2>1, <2>a, <2>3 DEF IngressRuleAllows, PortsAllow, NativePortLets, Plainly
    <2>6. NativeIngressLets(policies, source, pod, number)
      BY <2>2, <2>a, <2>4, <2>5 DEF NativeIngressLets, NativeLets, IngressRules
    <2> QED
      BY <2>6
  <1> QED
    BY <1>2, <1>3, <1>4

\* Which decisions of the native layer the verdicts are.
LEMMA NativeDecisions ==
  ASSUME world.source # None, NEW i \in NativeInsights
  PROVE  /\ i.check = "native-egress" =>
              i = analyzeNativeEgress(IF access.nativeSource = "read" \/ SourceNamespace = world.namespace
                                      THEN InNamespace(world.native, SourceNamespace) ELSE {},
                                      world.source, world.namespace, Targets, world.service, ServicePorts)
         /\ i.check = "native-ingress" =>
              i = analyzeNativeIngress(InNamespace(world.native, world.namespace), world.source, Targets, ServicePorts)
  <1> DEFINE source == IF access.nativeSource = "read" \/ SourceNamespace = world.namespace
                       THEN InNamespace(world.native, SourceNamespace) ELSE {}
             out == analyzeNativeEgress(source, world.source, world.namespace, Targets, world.service, ServicePorts)
             into == analyzeNativeIngress(InNamespace(world.native, world.namespace), world.source, Targets, ServicePorts)
  <1>1. out.check = "native-egress" /\ into.check = "native-ingress"
    BY DEF analyzeNativeEgress, analyzeNativeIngress, Plain, Insight
  <1> HIDE DEF source, out, into
  <1>2. i \in {out, into} \/ i.check \in {"native-policies", "source-native-policies", "native-target-policies", "namespace-labels"}
    BY DEF NativeInsights, nativeTargetPolicies, Plain, Insight, out, into, source
  <1>3. i.check = "native-egress" => i = out
    BY <1>1, <1>2
  <1>4. i.check = "native-ingress" => i = into
    BY <1>1, <1>2
  <1> QED
    BY <1>3, <1>4 DEF out, into, source


\* The container ports that the target port of a Service resolves to are ports.
LEMMA NumbersArePorts ==
  ASSUME world \in Worlds
  PROVE  Numbers \subseteq PortNumber
  <1>1. /\ world.service \in Service /\ world.targets \in Seq(Pods)
        /\ world.service.chosen <= Len(world.service.ports)
    BY CommandsAssumption DEF World
  <1>2. SUFFICES ASSUME HasChosen(world.service)
                 PROVE  TargetNumbers(Chosen(world.service).target, Targets) \subseteq PortNumber
    BY DEF Numbers
  <1>3. /\ world.service.ports \in Seq(ServicePort) /\ world.service.chosen \in Nat
        /\ world.service.chosen # 0
    BY <1>1, <1>2 DEF Service, HasChosen
  <1>4. Chosen(world.service) \in ServicePort
    BY <1>1, <1>3 DEF Chosen
  <1>5. Chosen(world.service).target \in PortNumber \cup PortNames
    BY <1>4 DEF ServicePort
  <1>6. ASSUME NEW pod \in ToSet(Targets), NEW c \in ToSet(ContainerPorts[pod]) PROVE c.number \in PortNumber
    <2>1. pod \in Pods
      BY <1>1, <1>6 DEF ToSet, Targets
    <2>2. ContainerPorts[pod] \in Seq(ContainerPort)
      BY <2>1, WorldAssumption
    <2>3. c \in ContainerPort
      BY <1>6, <2>2 DEF ToSet
    <2> QED
      BY <2>3 DEF ContainerPort
  <1> QED
    BY <1>5, <1>6 DEF TargetNumbers, PortsOf

LEMMA NativeObjects ==
  ASSUME NEW policy \in NativePolicyObject, NEW rule \in policy.egress \cup policy.ingress
  PROVE  /\ \A p \in rule.ports : p.port \in PortNumber \cup PortNames \cup {None}
         /\ \A peer \in rule.peers : peer.block \subseteq Address
  <1>1. rule \in NativeRule
    BY DEF NativePolicyObject
  <1>2. rule.ports \subseteq NativePort /\ rule.peers \subseteq NativePeer
    BY <1>1 DEF NativeRule
  <1> QED
    BY <1>2 DEF NativePort, NativePeer

\* What the report says of NetworkPolicies is what they do, whatever the cluster.
LEMMA NativeSound ==
  ASSUME SaidInv
  PROVE  NativeVerdictSound
  <1> DEFINE Out(pod, number) == NativeEgressLets(world.native, world.source, pod, number)
             Into(pod, number) == NativeIngressLets(world.native, world.source, pod, number)
             pods == ToSet(Targets)
  <1>1. SUFFICES ASSUME world.source # None, NativeReadable, Targets # <<>>, Numbers # {}
                 PROVE  /\ Verdict("service", "native-egress", "policy-ambiguous") =>
                             \A pod \in pods, number \in Numbers : ~Out(pod, number)
                        /\ Verdict("service", "native-ingress", "policy-ambiguous") =>
                             \E pod \in pods : \A number \in Numbers : ~Into(pod, number)
                        /\ OnePort /\ access.nativeSource = "read" /\ Verdict("service", "native-egress", "PASS") =>
                             \E pod \in pods, number \in Numbers : Out(pod, number)
                        /\ OnePort /\ PeersNameNamespaces /\ Verdict("service", "native-ingress", "PASS") =>
                             \E pod \in pods, number \in Numbers : Into(pod, number)
    BY DEF NativeVerdictSound
  <1>2. /\ world \in World /\ \A pod \in pods : NamespaceOf[pod] = world.namespace
        /\ world.source \in Pods /\ Targets \in Seq(Pods) /\ world.native \subseteq NativePolicyObject
        /\ world.service \in Service
    BY <1>1, CommandsAssumption DEF SaidInv, World, Targets
  <1>3. SourceNamespace = NamespaceOf[world.source]
    BY <1>1 DEF SourceNamespace
  <1>4. Numbers \subseteq ServicePorts
    BY <1>1 DEF Numbers, ServicePorts, Candidates
  <1>5. \A policy \in world.native : \A rule \in policy.egress \cup policy.ingress :
           /\ Plainly(rule) /\ \A peer \in rule.peers : peer.block \cap VIPs = {}
    BY <1>1 DEF NativeReadable, Plainly
  <1>6. \A policy \in world.native : \A rule \in policy.egress \cup policy.ingress :
           /\ \A p \in rule.ports : p.port \in PortNumber \cup PortNames \cup {None}
           /\ \A peer \in rule.peers : peer.block \subseteq Address
    BY <1>2, NativeObjects
  <1>7. ASSUME NEW i \in report["service"], i.check \in NativeVerdicts
        PROVE  /\ i.check = "native-egress" =>
                    i = analyzeNativeEgress(IF access.nativeSource = "read" \/ SourceNamespace = world.namespace
                                            THEN InNamespace(world.native, SourceNamespace) ELSE {},
                                            world.source, world.namespace, Targets, world.service, ServicePorts)
               /\ i.check = "native-ingress" =>
                    i = analyzeNativeIngress(InNamespace(world.native, world.namespace), world.source, Targets, ServicePorts)
    BY <1>1, <1>7, NativeDecisions DEF SaidInv, Decided
  <1>8. "native-egress" \in NativeVerdicts /\ "native-ingress" \in NativeVerdicts
    BY DEF NativeVerdicts
  <1>9. ASSUME Verdict("service", "native-egress", "policy-ambiguous")
        PROVE  \A pod \in pods, number \in Numbers : ~Out(pod, number)
    <2> DEFINE listed == IF access.nativeSource = "read" \/ SourceNamespace = world.namespace
                         THEN InNamespace(world.native, SourceNamespace) ELSE {}
    <2>1. analyzeNativeEgress(listed, world.source, world.namespace, Targets, world.service, ServicePorts).status
            = "policy-ambiguous"
      BY <1>7, <1>8, <1>9 DEF Verdict
    <2>2. listed # {}
      BY <2>1 DEF analyzeNativeEgress, Selecting, Plain, Insight
    <2>3. listed = InNamespace(world.native, NamespaceOf[world.source])
      BY <1>3, <2>2
    <2>4. \A rule \in EgressRules(world.native) : Plainly(rule)
      BY <1>5 DEF EgressRules
    <2>5. \A pod \in pods, number \in ServicePorts : ~Out(pod, number)
      BY <1>2, <2>1, <2>3, <2>4, NativeEgressBlame
    <2> QED
      BY <1>4, <2>5
  <1>10. ASSUME Verdict("service", "native-ingress", "policy-ambiguous")
         PROVE  \E pod \in pods : \A number \in Numbers : ~Into(pod, number)
    <2>1. analyzeNativeIngress(InNamespace(world.native, world.namespace), world.source, Targets, ServicePorts).status
            = "policy-ambiguous"
      BY <1>7, <1>8, <1>10 DEF Verdict
    <2>2. \A rule \in IngressRules(world.native) : Plainly(rule)
      BY <1>5 DEF IngressRules
    <2>3. \E pod \in pods : \A number \in ServicePorts : ~Into(pod, number)
      BY <1>2, <2>1, <2>2, NativeIngressBlame
    <2> QED
      BY <1>4, <2>3
  <1>11. ASSUME OnePort, access.nativeSource = "read", Verdict("service", "native-egress", "PASS")
         PROVE  \E pod \in pods, number \in Numbers : Out(pod, number)
    <2>1. PICK number \in Numbers : ServicePorts = {number}
      BY <1>11 DEF OnePort
    <2>2. number \in PortNumber
      BY NumbersArePorts DEF SaidInv
    <2>3. analyzeNativeEgress(InNamespace(world.native, NamespaceOf[world.source]), world.source, world.namespace,
                              Targets, world.service, {number}).status = "PASS"
      BY <1>3, <1>7, <1>8, <1>11, <2>1 DEF Verdict
    <2>4. world.service.vip \in VIPs \cup {None}
      BY <1>2 DEF Service
    <2>5. \E pod \in pods : Out(pod, number)
      BY <1>1, <1>2, <1>5, <1>6, <2>2, <2>3, <2>4, NativeEgressPass
    <2> QED
      BY <2>5
  <1>12. ASSUME OnePort, PeersNameNamespaces, Verdict("service", "native-ingress", "PASS")
         PROVE  \E pod \in pods, number \in Numbers : Into(pod, number)
    <2>1. PICK number \in Numbers : ServicePorts = {number}
      BY <1>12 DEF OnePort
    <2>2. number \in PortNumber
      BY NumbersArePorts DEF SaidInv
    <2>3. analyzeNativeIngress(InNamespace(world.native, world.namespace), world.source, Targets, {number}).status = "PASS"
      BY <1>7, <1>8, <1>12, <2>1 DEF Verdict
    <2>4. \A policy \in world.native : \A rule \in policy.ingress :
             \A peer \in rule.peers : peer.pods # None => peer.namespaces # None
      BY <1>12 DEF PeersNameNamespaces
    <2>5. \E pod \in pods : Into(pod, number)
      BY <1>1, <1>2, <1>5, <1>6, <2>2, <2>3, <2>4, NativeIngressPass
    <2> QED
      BY <2>5
  <1> QED
    BY <1>9, <1>10, <1>11, <1>12


-------------------------------------------------------------------------------
(* The types of a session.                                                 *)

\* What check egress still has to test is the end of a list that it was given.
Remaining(left) ==
    \E list \in URLLists \cup {<<>>} : \E n \in 0..Len(list) : left = SubSeq(list, n + 1, Len(list))

LEMMA ListsOfURLs == URLLists \cup {<<>>} \subseteq Seq(URL)
  <1>1. URLLists \subseteq Seq(URL)
    BY CommandsAssumption
  <1>2. <<>> \in Seq(URL)
    OBVIOUS
  <1> QED
    BY <1>1, <1>2

LEMMA WholeRemains ==
  ASSUME NEW list \in URLLists \cup {<<>>}
  PROVE  Remaining(list)
  <1>1. list \in Seq(URL)
    BY ListsOfURLs
  <1>2. SubSeq(list, 0 + 1, Len(list)) = list /\ 0 \in 0..Len(list)
    BY <1>1, SubSeqFull
  <1> QED
    BY <1>2 DEF Remaining

LEMMA FirstIsGiven ==
  ASSUME NEW left, Remaining(left), left # <<>>
  PROVE  Remaining(Tail(left)) /\ Head(left) \in UNION {ToSet(list) : list \in URLLists}
  <1>0. PICK list \in URLLists \cup {<<>>} : \E n \in 0..Len(list) : left = SubSeq(list, n + 1, Len(list))
    BY DEF Remaining
  <1>1. PICK n \in 0..Len(list) : left = SubSeq(list, n + 1, Len(list))
    BY <1>0
  <1>2. list \in Seq(URL) /\ Len(list) \in Nat
    BY ListsOfURLs
  <1>3. n < Len(list)
    BY <1>1, <1>2, SubSeqEmpty
  <1>4. n + 1 \in 1..Len(list) /\ Len(list) \in (n + 1)..Len(list)
    BY <1>2, <1>3
  <1>5. Head(left) = list[n + 1] /\ Tail(left) = SubSeq(list, (n + 1) + 1, Len(list))
    BY <1>1, <1>2, <1>4, HeadTailOfSubSeq
  <1>6. n + 1 \in 0..Len(list)
    BY <1>4
  <1>7. Remaining(Tail(left))
    BY <1>5, <1>6 DEF Remaining
  <1>8. list \in URLLists /\ list[n + 1] \in ToSet(list)
    BY <1>2, <1>4 DEF ToSet
  <1> QED
    BY <1>5, <1>7, <1>8

\* The part of TypeOK that is not about the reports; a probe has a URL to test.
Typed ==
    /\ flags \in Flags /\ pc \in Layers /\ exit \in [Commands -> {0, 1, Running}]
    /\ ask \in Asks \cup {None} /\ Remaining(urls)
    /\ answered \subseteq UNION {ToSet(list) : list \in URLLists}
    /\ pc = "egress-probe" => urls # <<>>

LEMMA StepTyped ==
  ASSUME Typed, Next
  PROVE  Typed'
  <1>1. ASSUME NEW command, NEW insights, NEW next \in Layers \ {"egress-probe"}, Says(command, insights, next),
               UNCHANGED <<urls, answered>>
        PROVE  Typed'
    BY <1>1 DEF Says, Typed
  <1>2. ASSUME NEW command \in Commands, NEW next \in Layers \ {"egress-probe"}, Finish(command, next)
        PROVE  Typed'
    BY <1>2 DEF Finish, Typed
  <1>3. /\ Layers \ {"egress-probe"} =
              {"native", "calico", "host", "cilium", "finish-service", "next", "blockers-native", "blockers-calico",
               "blockers-cilium", "blockers-conclude", "finish-blockers", "egress-source", "egress-dns",
               "egress-context", "egress-urls", "finish-egress", "done"}
        /\ "egress-probe" \in Layers
        /\ {"service", "blockers", "egress"} = Commands
    BY DEF Layers, Commands
  <1>4. CASE CheckService
    BY <1>1, <1>2, <1>3, <1>4 DEF CheckService, native, calico, host, cilium, finishService
  <1>5. CASE startBlockers
    BY <1>3, <1>5 DEF startBlockers, Typed
  <1>6. CASE blockersNative \/ blockersCalico \/ blockersCilium \/ blockersConclude \/ finishBlockers
    BY <1>1, <1>2, <1>3, <1>6 DEF blockersNative, blockersCalico, blockersCilium, blockersConclude, finishBlockers
  <1>7. CASE egressSource
    <2>1. UNCHANGED <<flags, exit, ask, answered>> /\ pc' \in Layers \ {"egress-probe"}
      BY <1>3, <1>7 DEF egressSource, Says
    <2>2. Remaining(urls')
      BY <1>7, WholeRemains DEF egressSource, Typed
    <2> QED
      BY <2>1, <2>2 DEF Typed, Remaining
  <1>8. CASE egressDNS \/ egressContext
    BY <1>1, <1>3, <1>8 DEF egressDNS, egressContext
  <1>9. CASE egressURL
    <2>1. UNCHANGED <<flags, exit, ask, answered>> /\ pc' \in Layers
      BY <1>3, <1>9 DEF egressURL, Says
    <2>2. urls' \in {urls, Tail(urls)} /\ urls # <<>> /\ (pc' = "egress-probe" => urls' = urls)
      BY <1>9 DEF egressURL, Says
    <2>3. Remaining(urls')
      BY <2>2, FirstIsGiven DEF Typed
    <2> QED
      BY <2>1, <2>2, <2>3 DEF Typed, Remaining
  <1>10. CASE egressProbe
    <2>1. UNCHANGED <<flags, exit, ask>> /\ pc' = "egress-urls" /\ pc' \in Layers
      BY <1>3, <1>10 DEF egressProbe, Says
    <2>2. urls' = Tail(urls) /\ answered' \subseteq answered \cup {Head(urls)} /\ urls # <<>>
      BY <1>10 DEF egressProbe, Typed
    <2>3. Remaining(urls') /\ Head(urls) \in UNION {ToSet(list) : list \in URLLists}
      BY <2>2, FirstIsGiven DEF Typed
    <2> QED
      BY <2>1, <2>2, <2>3 DEF Typed, Remaining
  <1>11. CASE egressEnd
    BY <1>3, <1>11 DEF egressEnd, Typed
  <1>12. CASE finishEgress
    BY <1>2, <1>3, <1>12 DEF finishEgress
  <1> QED
    BY <1>4, <1>5, <1>6, <1>7, <1>8, <1>9, <1>10, <1>11, <1>12 DEF Next, Blockers, Egress

LEMMA InitTyped == Init => Typed
  BY WholeRemains DEF Init, Typed, Layers, Commands

LEMMA TypesTogether ==
  ASSUME SaidInv, Typed
  PROVE  TypeOK
  <1>1. world \in World /\ DOMAIN report = Commands
    BY CommandsAssumption DEF SaidInv, OpenInv
  <1>2. \A c \in Commands : \A i \in report[c] : i.status \in Statuses
    BY DEF SaidInv, Decided, Posed, Commands
  <1> QED
    BY <1>1, <1>2 DEF TypeOK, Typed, Remaining


-------------------------------------------------------------------------------
(* The rules of Cilium that a command looks at.                            *)

LEMMA InMembers ==
  ASSUME NEW policies \in Seq(CiliumPolicyObject), NEW namespace
  PROVE  /\ In(policies, namespace) \in Seq(CiliumPolicyObject)
         /\ \A p : p \in ToSet(In(policies, namespace)) <=> p \in ToSet(policies) /\ p.namespace = namespace
  <1> DEFINE ss == [i \in DOMAIN policies |-> IF policies[i].namespace = namespace THEN <<policies[i]>> ELSE <<>>]
  <1>1. \A i \in DOMAIN policies : policies[i] \in CiliumPolicyObject
    BY ElementType
  <1>2. \A i \in DOMAIN policies : ss[i] \in Seq(CiliumPolicyObject)
    BY <1>1
  <1>3. DOMAIN policies = 1..Len(policies) /\ Len(policies) \in Nat
    OBVIOUS
  <1>4. ss \in Seq(Seq(CiliumPolicyObject)) /\ DOMAIN ss = DOMAIN policies
    <2> DEFINE T == Seq(CiliumPolicyObject)
    <2>1. ss = [i \in 1..Len(policies) |-> ss[i]] /\ \A i \in 1..Len(policies) : ss[i] \in T
      BY <1>2, <1>3
    <2> HIDE DEF ss, T
    <2>2. ss \in [1..Len(policies) -> T]
      BY <2>1
    <2>3. ss \in Seq(T)
      BY <1>3, <2>2
    <2> QED
      BY <1>3, <2>2, <2>3 DEF T
  <1>5. \A x : \A i \in DOMAIN policies : x \in ToSet(ss[i]) <=> x = policies[i] /\ policies[i].namespace = namespace
    BY DEF ToSet
  <1>6. In(policies, namespace) = FlattenSeq(ss)
    BY DEF In
  <1> HIDE DEF ss
  <1>7. /\ FlattenSeq(ss) \in Seq(CiliumPolicyObject)
        /\ \A x : x \in ToSet(FlattenSeq(ss)) <=> \E i \in DOMAIN ss : x \in ToSet(ss[i])
    BY <1>4, FlattenMembers
  <1>8. \A x : x \in ToSet(policies) <=> \E i \in DOMAIN policies : x = policies[i]
    BY DEF ToSet
  <1> QED
    BY <1>4, <1>5, <1>6, <1>7, <1>8

LEMMA ListedMembers ==
  ASSUME NEW policies \in Seq(CiliumPolicyObject), NEW namespace, NEW other, NEW clusterwide \in BOOLEAN
  PROVE  /\ Listed(policies, namespace, other, clusterwide) \in Seq(CiliumPolicyObject)
         /\ \A p : p \in ToSet(Listed(policies, namespace, other, clusterwide)) <=>
                /\ p \in ToSet(policies)
                /\ \/ p.namespace \in {namespace, other} \ {None}
                   \/ p.namespace = namespace \/ (clusterwide /\ p.namespace = None)
  <1> DEFINE a == In(policies, namespace)
             b == IF other \in {None, namespace} THEN <<>> ELSE In(policies, other)
             c == IF clusterwide THEN In(policies, None) ELSE <<>>
  <1>1. a \in Seq(CiliumPolicyObject) /\ b \in Seq(CiliumPolicyObject) /\ c \in Seq(CiliumPolicyObject)
    BY InMembers
  <1>2. ToSet(<<>>) = {}
    BY DEF ToSet
  <1>3. /\ \A p : p \in ToSet(a) <=> p \in ToSet(policies) /\ p.namespace = namespace
        /\ \A p : p \in ToSet(b) <=> p \in ToSet(policies) /\ p.namespace = other /\ other \notin {None, namespace}
        /\ \A p : p \in ToSet(c) <=> p \in ToSet(policies) /\ p.namespace = None /\ clusterwide
    BY <1>2, InMembers
  <1>4. Listed(policies, namespace, other, clusterwide) = (a \o b) \o c
    BY DEF Listed
  <1> HIDE DEF a, b, c
  <1>5. a \o b \in Seq(CiliumPolicyObject) /\ ToSet(a \o b) = ToSet(a) \cup ToSet(b)
    BY <1>1, ConcatMembers
  <1> DEFINE ab == a \o b
  <1>6. ab \o c \in Seq(CiliumPolicyObject) /\ ToSet(ab \o c) = ToSet(ab) \cup ToSet(c)
    <2>1. ab \in Seq(CiliumPolicyObject)
      BY <1>5
    <2> HIDE DEF ab
    <2> QED
      BY <1>1, <2>1, ConcatMembers
  <1> QED
    BY <1>3, <1>4, <1>5, <1>6

LEMMA RulesMembers ==
  ASSUME NEW list \in Seq(CiliumPolicyObject)
  PROVE  /\ namedRules(list) \in Seq(CiliumRule)
         /\ \A rule : rule \in ToSet(namedRules(list)) <=> \E p \in ToSet(list) : ~p.bad /\ rule \in ToSet(p.rules)
  <1> DEFINE ss == [i \in DOMAIN list |-> IF list[i].bad THEN <<>> ELSE list[i].rules]
  <1>1. \A i \in DOMAIN list : list[i].rules \in Seq(CiliumRule)
    <2>1. \A i \in DOMAIN list : list[i] \in CiliumPolicyObject
      BY ElementType
    <2> QED
      BY <2>1 DEF CiliumPolicyObject
  <1>2. \A i \in DOMAIN list : ss[i] \in Seq(CiliumRule)
    BY <1>1
  <1>3. DOMAIN list = 1..Len(list) /\ Len(list) \in Nat
    OBVIOUS
  <1>4. ss \in Seq(Seq(CiliumRule)) /\ DOMAIN ss = DOMAIN list
    <2> DEFINE T == Seq(CiliumRule)
    <2>1. ss = [i \in 1..Len(list) |-> ss[i]] /\ \A i \in 1..Len(list) : ss[i] \in T
      BY <1>2, <1>3
    <2> HIDE DEF ss, T
    <2>2. ss \in [1..Len(list) -> T]
      BY <2>1
    <2>3. ss \in Seq(T)
      BY <1>3, <2>2
    <2> QED
      BY <1>3, <2>2, <2>3 DEF T
  <1>5. \A x : \A i \in DOMAIN list : x \in ToSet(ss[i]) <=> ~list[i].bad /\ x \in ToSet(list[i].rules)
    BY DEF ToSet
  <1>6. namedRules(list) = FlattenSeq(ss)
    BY DEF namedRules
  <1> HIDE DEF ss
  <1>7. /\ FlattenSeq(ss) \in Seq(CiliumRule)
        /\ \A x : x \in ToSet(FlattenSeq(ss)) <=> \E i \in DOMAIN ss : x \in ToSet(ss[i])
    BY <1>4, FlattenMembers
  <1>8. \A x : x \in ToSet(list) <=> \E i \in DOMAIN list : x = list[i]
    BY DEF ToSet
  <1> QED
    BY <1>4, <1>5, <1>6, <1>7, <1>8

LEMMA SectionMembers ==
  ASSUME NEW rules, NEW pods, NEW section
  PROVE  \A e : e \in Section(rules, pods, section) <=>
             \E rule \in ToSet(rules) : rule.selects \cap pods # {} /\ e \in rule[section]
  BY DEF Section, SelectsAny, ToSet

\* The rules of the other namespaces do not select the pods of a path.
LEMMA SameSection ==
  ASSUME NEW policies \in Seq(CiliumPolicyObject), NEW namespace \in Namespaces, NEW other, NEW clusterwide \in BOOLEAN,
         \A p \in ToSet(policies) : p.bad \/ Sanitized(p),
         \A p \in ToSet(policies) : p.namespace = None => clusterwide,
         NEW pods, \A pod \in pods : NamespaceOf[pod] \in {namespace, other}, NEW section
  PROVE  Section(namedRules(Listed(policies, namespace, other, clusterwide)), pods, section)
             = Section(namedRules(policies), pods, section)
  <1> DEFINE list == Listed(policies, namespace, other, clusterwide)
  <1>1. list \in Seq(CiliumPolicyObject)
        /\ \A p : p \in ToSet(list) <=>
                /\ p \in ToSet(policies)
                /\ \/ p.namespace \in {namespace, other} \ {None}
                   \/ p.namespace = namespace \/ (clusterwide /\ p.namespace = None)
    BY ListedMembers
  <1> HIDE DEF list
  <1>2. \A rule : rule \in ToSet(namedRules(list)) <=> \E p \in ToSet(list) : ~p.bad /\ rule \in ToSet(p.rules)
    BY <1>1, RulesMembers
  <1>3. \A rule : rule \in ToSet(namedRules(policies)) <=> \E p \in ToSet(policies) : ~p.bad /\ rule \in ToSet(p.rules)
    BY RulesMembers
  <1>4. ASSUME NEW rule, rule.selects \cap pods # {}
        PROVE  rule \in ToSet(namedRules(list)) <=> rule \in ToSet(namedRules(policies))
    <2>1. ASSUME NEW p \in ToSet(policies), ~p.bad, rule \in ToSet(p.rules) PROVE p \in ToSet(list)
      <3>1. Sanitized(p)
        BY <2>1
      <3>2. PICK pod \in rule.selects : pod \in pods
        BY <1>4
      <3>3. p.namespace # None => NamespaceOf[pod] = p.namespace
        BY <2>1, <3>1, <3>2 DEF Sanitized
      <3> QED
        BY <1>1, <2>1, <3>2, <3>3
    <2>2. \A p \in ToSet(list) : p \in ToSet(policies)
      BY <1>1
    <2> QED
      BY <1>2, <1>3, <2>1, <2>2
  <1>5. \A e : e \in Section(namedRules(list), pods, section) <=> e \in Section(namedRules(policies), pods, section)
    BY <1>4, SectionMembers
  <1> QED
    BY <1>5 DEF list

-------------------------------------------------------------------------------
(* What check egress says of a URL, and what the policies let out.         *)

\* Blame for a native default deny on the port of a URL is true.
LEMMA NativePostureBlame ==
  ASSUME NEW policies, NEW source, NEW outer, NEW number,
         \A rule \in EgressRules(policies) : Plainly(rule),
         Insight("native-port", "FAIL", "no-egress-allow-candidate-mentions")
             \in inspectNativeEgressPortPosture(InNamespace(policies, NamespaceOf[source]), source, number)
  PROVE  ~NativeEgressLets(policies, source, outer, number)
  <1> DEFINE selecting == Selecting(InNamespace(policies, NamespaceOf[source]), "Egress", source)
  <1>1. selecting # {} /\ ~AnyRuleMentionsPort(EgressRules(selecting), {number})
    BY DEF inspectNativeEgressPortPosture, Insight, Plain
  <1>2. EgressRules(selecting) \subseteq EgressRules(policies)
    BY DEF EgressRules, Selecting, InNamespace
  <1> HIDE DEF selecting
  <1>3. ASSUME NEW rule \in EgressRules(selecting), NEW p \in rule.ports, NativePortLets(p, outer, number)
        PROVE  PortsAllow(rule.ports, {number})
    BY <1>2, <1>3 DEF Plainly, NativePortLets, PortsAllow
  <1>4. ASSUME NEW rule \in EgressRules(selecting), rule.ports = {} PROVE PortsAllow(rule.ports, {number})
    BY <1>4 DEF PortsAllow
  <1>5. \A rule \in EgressRules(selecting) : ~PortsAllow(rule.ports, {number})
    BY <1>1 DEF AnyRuleMentionsPort
  <1>6. ~\E rule \in EgressRules(selecting) :
            /\ rule.ports = {} \/ \E p \in rule.ports : NativePortLets(p, outer, number)
            /\ rule.peers = {} \/ \E q \in rule.peers : NativePeerHolds(q, NamespaceOf[source], outer)
    BY <1>3, <1>4, <1>5
  <1> QED
    BY <1>1, <1>6 DEF NativeEgressLets, NativeLets, selecting

\* A port of an entry of Cilium holds where the code says that it matches.
LEMMA CiliumPortAgrees ==
  ASSUME NEW p \in PortProtocol, NEW number \in Nat, NEW outer, outer \notin Pods,
         p.port \in PortNumber /\ p.end # 0 => p.port <= p.end
  PROVE  PortProtocolMatches(p, Candidate(number, None, "TCP")) <=>
             \/ p.port = None
             \/ /\ p.protocol \in {"ANY", "TCP"}
                /\ \/ p.port \in PortNames /\ outer \in Pods /\ HasPortNamed(outer, p.port, number)
                   \/ p.port \in PortNumber /\ p.port <= number
                         /\ number <= (IF p.end = 0 THEN p.port ELSE p.end)
  <1> DEFINE c == Candidate(number, None, "TCP")
  <1>1. c.number = number /\ c.name = None /\ c.protocol = "TCP"
    BY DEF Candidate
  <1>2. p.port \in 0..MaxPort \cup PortNames \cup {None} /\ p.end \in Nat
    BY DEF PortProtocol
  <1>3. None \notin PortNames /\ None \notin Nat /\ PortNames \cap Nat = {}
    BY WorldAssumption
  <1>4. PortNumber = 0..MaxPort \ {0} /\ PortNumber \subseteq Nat
    <2>1. MaxPort \in Nat
      BY DEF MaxPort
    <2> QED
      BY <2>1 DEF PortNumber
  <1> HIDE DEF c
  <1>5. CASE p.port = None
    BY <1>5 DEF PortProtocolMatches, c
  <1>6. CASE p.port \in PortNames
    <2>1. p.port # None /\ p.port \notin PortNumber /\ c.name # p.port
      BY <1>1, <1>3, <1>4, <1>6
    <2> QED
      BY <1>6, <2>1 DEF PortProtocolMatches, c
  <1>7. CASE p.port = 0
    <2>1. p.port # None /\ p.port \notin PortNumber /\ p.port \notin PortNames
      BY <1>3, <1>4, <1>7
    <2> QED
      BY <1>7, <2>1 DEF PortProtocolMatches, c
  <1>8. CASE p.port \in PortNumber
    <2>1. p.port # None /\ p.port # 0 /\ p.port \notin PortNames /\ p.port \in Nat
      BY <1>3, <1>4, <1>8
    <2>2. (p.port = number \/ (p.end > 0 /\ p.port <= number /\ number <= p.end))
             <=> (p.port <= number /\ number <= (IF p.end = 0 THEN p.port ELSE p.end))
      BY <1>2, <1>8, <2>1
    <2> QED
      BY <1>1, <1>8, <2>1, <2>2 DEF PortProtocolMatches, c
  <1> QED
    BY <1>2, <1>4, <1>5, <1>6, <1>7, <1>8

LEMMA CiliumPortsAgree ==
  ASSUME NEW e \in Entry, SanitizedEntry(e), NEW number \in Nat, NEW outer, outer \notin Pods
  PROVE  CiliumPortsMatch(e.ports, {Candidate(number, None, "TCP")}) <=> CiliumPortsHold(e.ports, outer, number)
  <1>1. \A rule \in e.ports : rule.ports \subseteq PortProtocol
    BY DEF Entry, PortRule
  <1>2. \A rule \in e.ports : \A p \in rule.ports : p.port \in PortNumber /\ p.end # 0 => p.port <= p.end
    BY DEF SanitizedEntry
  <1>3. \A rule \in e.ports : \A p \in rule.ports :
           PortProtocolMatches(p, Candidate(number, None, "TCP")) <=>
             \/ p.port = None
             \/ /\ p.protocol \in {"ANY", "TCP"}
                /\ \/ p.port \in PortNames /\ outer \in Pods /\ HasPortNamed(outer, p.port, number)
                   \/ p.port \in PortNumber /\ p.port <= number
                         /\ number <= (IF p.end = 0 THEN p.port ELSE p.end)
    BY <1>1, <1>2, CiliumPortAgrees
  <1> QED
    BY <1>3, Zenon DEF CiliumPortsMatch, CiliumPortsHold

\* A deny that the code applies to a host outside holds for it.
LEMMA CiliumDenyHolds ==
  ASSUME NEW e \in Entry, SanitizedEntry(e), e.fqdns = {}, NEW outer \in Hosts,
         ciliumExternalEgressPeerMatches(e.peers) = "match"
  PROVE  CiliumPeersHold(e, outer)
  <1>1. e.peers \in Peers
    BY DEF Entry
  <1>2. NoCriteria(e.peers) => e.peers.groups = {}
    BY DEF SanitizedEntry, NoCriteria
  <1> QED
    BY <1>2 DEF ciliumExternalEgressPeerMatches, CiliumPeersHold

\* An allow that holds for a host outside is one that the code has seen.
LEMMA CiliumAllowSeen ==
  ASSUME NEW e \in Entry, SanitizedEntry(e), NEW outer \in Hosts, CiliumPeersHold(e, outer)
  PROVE  ciliumExternalEgressAllowPeerMatches(e, outer) \in {"match", "address"}
  <1>1. outer \notin Pods
    BY WorldAssumption
  <1>2. CASE e.fqdns = {}
    BY <1>1, <1>2 DEF CiliumPeersHold, ciliumExternalEgressAllowPeerMatches, ciliumExternalEgressPeerMatches
  <1>3. CASE e.fqdns # {}
    <2>1. NoCriteria(e.peers)
      BY <1>3 DEF SanitizedEntry
    <2>2. e.peers.entities = {} /\ e.peers.cidrs = None
      BY <2>1 DEF NoCriteria
    <2>3. outer \in e.fqdns
      BY <1>1, <1>3, <2>2 DEF CiliumPeersHold
    <2> QED
      BY <1>3, <2>3 DEF ciliumExternalEgressAllowPeerMatches
  <1> QED
    BY <1>2, <1>3

\* A host outside that the policies of Cilium let through is not blamed on them.
LEMMA CiliumOutboundTrue ==
  ASSUME NEW rules, NEW all, NEW source, NEW outer \in Hosts, NEW number \in Nat,
         \A section \in {"egress", "egressDeny"} :
             Section(rules, {source}, section) = Section(namedRules(all), {source}, section),
         \A e \in Section(rules, {source}, "egress") \cup Section(rules, {source}, "egressDeny") :
             e \in Entry /\ SanitizedEntry(e),
         \A e \in Section(rules, {source}, "egressDeny") : e.fqdns = {},
         CiliumEgressLets(all, source, outer, number)
  PROVE  ciliumExternalEgressDecision(rules, source, outer, number).status # "FAIL"
  <1> DEFINE Denies == Section(rules, {source}, "egressDeny")
             Allows == Section(rules, {source}, "egress")
             Port(e) == CiliumPortsMatch(e.ports, {Candidate(number, None, "TCP")})
             Where(e) == ciliumExternalEgressAllowPeerMatches(e, outer)
             Matching == {e \in Allows : Where(e) = "match" /\ Port(e)}
             L7 == {e \in Matching : HaveL7(e.ports)}
             Named == {e \in Matching \ L7 : UseNamedPorts(e.ports)}
             Doubtful == {e \in Allows : Where(e) = "address" /\ Port(e)}
  <1>1. outer \notin Pods
    BY WorldAssumption
  <1>2. /\ ~CiliumHolds(Denies, outer, outer, number)
        /\ Denies \cup Allows # {} => CiliumHolds(Allows, outer, outer, number)
    BY DEF CiliumEgressLets, CiliumLets
  <1>3. \A e \in Denies \cup Allows : Port(e) <=> CiliumPortsHold(e.ports, outer, number)
    BY <1>1, CiliumPortsAgree
  <1>4. ~\E e \in Denies : ciliumExternalEgressPeerMatches(e.peers) = "match" /\ Port(e)
    <2> SUFFICES ASSUME NEW e \in Denies, ciliumExternalEgressPeerMatches(e.peers) = "match", Port(e) PROVE FALSE
      OBVIOUS
    <2>1. CiliumPeersHold(e, outer)
      BY CiliumDenyHolds
    <2>2. CiliumPortsHold(e.ports, outer, number)
      BY <1>3
    <2> QED
      BY <1>2, <2>1, <2>2 DEF CiliumHolds
  <1>5. Denies \cup Allows # {} => Matching # {} \/ Doubtful # {}
    <2> SUFFICES ASSUME Denies \cup Allows # {} PROVE Matching # {} \/ Doubtful # {}
      OBVIOUS
    <2>1. PICK e \in Allows : CiliumPeersHold(e, outer) /\ CiliumPortsHold(e.ports, outer, number)
      BY <1>2 DEF CiliumHolds
    <2>2. Where(e) \in {"match", "address"}
      BY <2>1, CiliumAllowSeen
    <2>3. Port(e)
      BY <1>3, <2>1
    <2> QED
      BY <2>2, <2>3
  <1>6. Denies \cup Allows # {} => Matching \ (L7 \cup Named) # {} \/ L7 # {} \/ Named \cup Doubtful # {}
    <2> HIDE DEF Doubtful
    <2> QED
      BY <1>5
  <1> DEFINE decision == AllowDecision("Cilium-outbound", Matching \ (L7 \cup Named), L7, Named \cup Doubtful, "none")
  <1>7. ciliumExternalEgressDecision(rules, source, outer, number)
          = IF \E e \in Denies : ciliumExternalEgressPeerMatches(e.peers) = "match" /\ Port(e)
            THEN Insight("Cilium-outbound", "FAIL", "Cilium-deny")
            ELSE IF Denies \cup Allows = {} THEN Plain("Cilium-outbound", "PASS") ELSE decision
    BY DEF ciliumExternalEgressDecision
  <1>8. Denies \cup Allows # {} => decision.status # "FAIL"
    <2> HIDE DEF Denies, Allows, Matching, L7, Named, Doubtful
    <2> QED
      BY <1>6 DEF AllowDecision, Plain, Insight
  <1>9. Plain("Cilium-outbound", "PASS").status = "PASS"
    BY DEF Plain, Insight
  <1> HIDE DEF Denies, Allows, decision, Port
  <1> QED
    BY <1>4, <1>7, <1>8, <1>9

\* What the entries of the policies are.
LEMMA CiliumEntriesAre ==
  ASSUME NEW policies \in Seq(CiliumPolicyObject), \A p \in ToSet(policies) : p.bad \/ Sanitized(p), NEW pods
  PROVE  /\ \A section \in {"egress", "egressDeny", "ingress", "ingressDeny"} :
              \A e \in Section(namedRules(policies), pods, section) : e \in Entry /\ SanitizedEntry(e)
         /\ \A section \in {"egressDeny", "ingress", "ingressDeny"} :
              \A e \in Section(namedRules(policies), pods, section) : e.fqdns = {}
  <1> SUFFICES ASSUME NEW section \in {"egress", "egressDeny", "ingress", "ingressDeny"},
                      NEW e \in Section(namedRules(policies), pods, section)
               PROVE  e \in Entry /\ SanitizedEntry(e) /\ (section # "egress" => e.fqdns = {})
    OBVIOUS
  <1>1. PICK rule \in ToSet(namedRules(policies)) : e \in rule[section]
    BY SectionMembers
  <1>2. PICK p \in ToSet(policies) : ~p.bad /\ rule \in ToSet(p.rules)
    BY <1>1, RulesMembers
  <1>3. Sanitized(p)
    BY <1>2
  <1>4. rule \in CiliumRule
    <2>1. namedRules(policies) \in Seq(CiliumRule)
      BY RulesMembers
    <2> QED
      BY <1>1, <2>1, ElementType DEF ToSet
  <1>5. e \in Entry
    BY <1>1, <1>4 DEF CiliumRule
  <1> QED
    BY <1>1, <1>2, <1>3, <1>5 DEF Sanitized

\* With the lists that check egress reads, an answer rules out the blame.
LEMMA OutboundNotBlamed ==
  ASSUME NEW policies \in Seq(CiliumPolicyObject), NEW source \in Pods, NEW outer \in Hosts, NEW number \in Nat, NEW outcome,
         \A p \in ToSet(policies) : p.bad \/ Sanitized(p),
         \A p \in ToSet(policies) : p.namespace = None => outcome.clusterwide # "absent",
         outcome.clusterwide \in ListOutcome,
         CiliumEgressLets(policies, source, outer, number),
         NEW i \in AnalyzeExternalEgress(policies, source, outer, number, outcome), i.check = "Cilium-outbound"
  PROVE  i.status # "FAIL"
  <1> DEFINE list == Listed(policies, NamespaceOf[source], None, outcome.clusterwide = "read")
             decision == ciliumExternalEgressDecision(namedRules(list), source, outer, number)
  <1>1. i = decision /\ outcome.clusterwide # "error"
    BY DEF AnalyzeExternalEgress, listError, badPolicies, Plain, Insight
  <1>2. \A p \in ToSet(policies) : p.namespace = None => outcome.clusterwide = "read"
    BY <1>1 DEF ListOutcome
  <1>3. NamespaceOf[source] \in Namespaces
    BY WorldAssumption
  <1> DEFINE whole == outcome.clusterwide = "read"
  <1>4. whole \in BOOLEAN /\ \A p \in ToSet(policies) : p.namespace = None => whole
    BY <1>2
  <1> HIDE DEF whole
  <1>5. \A section : Section(namedRules(Listed(policies, NamespaceOf[source], None, whole)), {source}, section)
                       = Section(namedRules(policies), {source}, section)
    BY <1>3, <1>4, SameSection
  <1>6. \A section : Section(namedRules(list), {source}, section) = Section(namedRules(policies), {source}, section)
    BY <1>5 DEF whole
  <1> DEFINE rules == namedRules(list)
  <1>7. \A section : Section(rules, {source}, section) = Section(namedRules(policies), {source}, section)
    BY <1>6
  <1>8. /\ \A e \in Section(rules, {source}, "egress") \cup Section(rules, {source}, "egressDeny") :
              e \in Entry /\ SanitizedEntry(e)
        /\ \A e \in Section(rules, {source}, "egressDeny") : e.fqdns = {}
    BY <1>7, CiliumEntriesAre
  <1>9. decision = ciliumExternalEgressDecision(rules, source, outer, number)
    OBVIOUS
  <1> HIDE DEF rules, decision
  <1> QED
    BY <1>1, <1>7, <1>8, <1>9, CiliumOutboundTrue

\* Where no rule of Calico passes on, blame for the default deny is true.
LEMMA CalicoPostureBlame ==
  ASSUME NEW policies, policies \subseteq CalicoPolicyObject, NEW source \in Pods, NEW number \in Nat, NEW outcome,
         NEW read \in [sets : BOOLEAN, accounts : BOOLEAN], outcome.global = "read",
         \A p \in policies : \A rule \in ToSet(p.egress) :
             /\ rule.action # "pass"
             /\ rule.source.services = None /\ rule.source.sets = {} /\ ~rule.source.labelled
             /\ \A token \in rule.destination.notPorts
                    \cup (IF rule.destination.ports = None THEN {} ELSE rule.destination.ports) :
                   token.name = None /\ (token.text => token.min = token.max),
         NEW i \in CalicoShowBlockers(policies, "egress", source, None, <<>>, None, {number}, {}, outcome, read),
         i.check = "Calico-default-deny"
  PROVE  ~CalicoMayLetOut(policies, source, number)
  <1> DEFINE selected == policiesFor(policies, NamespaceOf[source], {source}, "egress")
             candidates == blockerPortCandidates({number}, {}, None, <<>>)
             applying == {rule \in RulesOf(selected, "egress") :
                             /\ calicoRuleProtocolMatches(rule)
                             /\ ruleAppliesToSubject(rule, "egress", source, read)
                             /\ calicoEntityPortsMatch(PeerEntity(rule, "egress"), candidates)}
             matches == RuleMatches(selected, "egress", applying, {"allow"})
  <1>1. selected # {} /\ ~\E m \in matches : m.action = "allow"
    <2> DEFINE all == CalicoListed(policies, {NamespaceOf[source], None} \ {None}, outcome.global = "read")
    <2>1. policiesFor(all, NamespaceOf[source], {source}, "egress") = selected
      <3>1. NamespaceOf[source] # None
        BY WorldAssumption
      <3>2. all = {policy \in policies : policy.namespace \in {NamespaceOf[source], None}}
        BY <3>1 DEF CalicoListed
      <3> HIDE DEF all
      <3> QED
        BY <3>2 DEF policiesFor, policySelectsTarget
    <2>2. i \in IF selected = {} THEN {Plain("Calico-selected", "PASS")}
                ELSE {Plain("Calico-selected", "WARN")}
                         \cup portPostureBlockers(selected, "egress", source, {number}, {}, read)
      <3> DEFINE chosen == policiesFor(all, NamespaceOf[source], {source}, "egress")
      <3> DEFINE posture == portPostureBlockers(chosen, "egress", source, {number}, {}, read)
      <3>1. CalicoShowBlockers(policies, "egress", source, None, <<>>, None, {number}, {}, outcome, read)
              = IF outcome.namespaced = "absent" THEN {}
                ELSE IF "error" \in {outcome.namespaced, outcome.global} THEN {Plain("Calico-policies", "WARN")}
                ELSE IF chosen = {} THEN {Plain("Calico-selected", "PASS")}
                ELSE {Plain("Calico-selected", "WARN")} \cup posture
        BY DEF CalicoShowBlockers
      <3>2. chosen = selected
        BY <2>1
      <3>3. \A j \in {Plain("Calico-policies", "WARN")} : j.check = "Calico-policies"
        BY DEF Plain, Insight
      <3>4. i \in IF chosen = {} THEN {Plain("Calico-selected", "PASS")}
                  ELSE {Plain("Calico-selected", "WARN")} \cup posture
        <4> HIDE DEF chosen, posture
        <4> QED
          BY <3>1, <3>3
      <3> HIDE DEF chosen, selected
      <3> QED
        BY <3>2, <3>4
    <2>3. selected # {} /\ i \in portPostureBlockers(selected, "egress", source, {number}, {}, read)
      <3> HIDE DEF selected
      <3> QED
        BY <2>2 DEF Plain, Insight
    <2>4. portPostureBlockers(selected, "egress", source, {number}, {}, read)
            = BlockersVerdict(matches, "INFO") \cup {Plain("Calico-allow", "INFO") : m \in {n \in matches : n.action = "allow"}}
      BY DEF portPostureBlockers
    <2> HIDE DEF matches, selected
    <2>5. i \in BlockersVerdict(matches, "INFO")
      <3>1. Plain("Calico-allow", "INFO").check = "Calico-allow"
        BY DEF Plain, Insight
      <3>2. \A j \in {Plain("Calico-allow", "INFO") : m \in {n \in matches : n.action = "allow"}} :
               j = Plain("Calico-allow", "INFO")
        OBVIOUS
      <3>3. i \in BlockersVerdict(matches, "INFO") \cup
                     {Plain("Calico-allow", "INFO") : m \in {n \in matches : n.action = "allow"}}
        BY <2>3, <2>4
      <3> QED
        BY <3>1, <3>2, <3>3
    <2> QED
      BY <2>3, <2>5 DEF BlockersVerdict, Judged, Plain, Insight
  <1>2. PortCandidate(number, None) \in candidates
    BY DEF blockerPortCandidates, calicoPathPortCandidates
  <1>3. SUFFICES ASSUME NEW policy \in selected, NEW k \in DOMAIN policy.egress,
                        policy.egress[k].action \in {"allow", "pass"}, policy.egress[k].protocol \in {"none", "tcp"},
                        CalicoEntityHolds(policy.egress[k].source, policy.namespace, source),
                        CalicoPortsHold(policy.egress[k].destination, number)
                 PROVE  FALSE
    BY <1>1 DEF CalicoMayLetOut
  <1> DEFINE rule == policy.egress[k]
  <1>4. policy \in policies
    BY DEF policiesFor
  <1>5. policy.egress \in Seq(CalicoRule) /\ rule \in ToSet(policy.egress) /\ rule \in CalicoRule
    <2>1. policy.egress \in Seq(CalicoRule)
      BY <1>4 DEF CalicoPolicyObject
    <2> QED
      BY <2>1, ElementType DEF ToSet
  <1>6. /\ rule.action = "allow"
        /\ rule.source.services = None /\ rule.source.sets = {} /\ ~rule.source.labelled
        /\ \A token \in rule.destination.notPorts
               \cup (IF rule.destination.ports = None THEN {} ELSE rule.destination.ports) :
              token.name = None /\ (token.text => token.min = token.max)
    BY <1>3, <1>4, <1>5
  <1>7. ruleAppliesToSubject(rule, "egress", source, read)
    <2> DEFINE quiet == [read EXCEPT !.sets = FALSE]
               peer == Peer(source, NamespaceOf[source])
    <2>1. quiet.sets = FALSE
      OBVIOUS
    <2>2. peer.pod = source /\ peer.namespace = NamespaceOf[source] /\ peer.addresses = {source}
      BY WorldAssumption DEF Peer
    <2> HIDE DEF quiet, peer, rule
    <2>3. CalicoEntityHolds(rule.source, policy.namespace, source)
      BY <1>3 DEF rule
    <2>4. calicoEntityMatchesPod(rule.source, peer, None, quiet)
      BY <1>6, <2>1, <2>2, <2>3
         DEF CalicoEntityHolds, calicoEntityMatchesPod, calicoServicesMatch, calicoServiceAccountMatches
    <2> QED
      BY <2>4 DEF ruleAppliesToSubject, SubjectEntity, quiet, peer
  <1>8. calicoEntityPortsMatch(PeerEntity(rule, "egress"), candidates)
    <2> DEFINE entity == rule.destination
               c == PortCandidate(number, None)
    <2>1. c.number = number /\ c.name = None
      BY DEF PortCandidate
    <2>2. entity.ports \in Optional(PortToken) /\ entity.notPorts \subseteq PortToken
      BY <1>5 DEF CalicoRule, Entity
    <2>3. \A token \in PortToken : token.min \in Nat /\ token.max \in Nat
      BY DEF PortToken, PortNumber
    <2>4. CalicoPortsHold(entity, number)
      BY <1>3
    <2>5. \A token \in entity.notPorts \cup (IF entity.ports = None THEN {} ELSE entity.ports) :
             portTokenMatches(token, c) <=> token.name = None /\ token.min <= number /\ number <= token.max
      <3> SUFFICES ASSUME NEW token \in entity.notPorts \cup (IF entity.ports = None THEN {} ELSE entity.ports)
                   PROVE  portTokenMatches(token, c) <=> token.name = None /\ token.min <= number /\ number <= token.max
        OBVIOUS
      <3>1. token \in PortToken
        BY <2>2 DEF Optional
      <3>2. token.min \in Nat /\ token.max \in Nat /\ token.name = None /\ (token.text => token.min = token.max)
        BY <1>6, <2>3, <3>1
      <3> HIDE DEF c, entity
      <3>3. token.min = token.max => (number = token.min <=> token.min <= number /\ number <= token.max)
        BY <3>2
      <3> QED
        BY <2>1, <3>2, <3>3 DEF portTokenMatches
    <2> HIDE DEF c, entity, candidates
    <2>6. /\ entity.ports \notin {None, {}} => \E token \in entity.ports : portTokenMatches(token, c)
          /\ \A token \in entity.notPorts : ~portTokenMatches(token, c)
      BY <2>4, <2>5 DEF CalicoPortsHold
    <2>7. c \in candidates
      BY <1>2 DEF c
    <2>8. calicoEntityPortsMatch(entity, candidates)
      BY <2>6, <2>7 DEF calicoEntityPortsMatch
    <2> QED
      BY <2>8 DEF PeerEntity, entity
  <1>9. rule \in applying
    <2>1. rule \in RulesOf(selected, "egress")
      BY <1>5 DEF RulesOf
    <2>2. calicoRuleProtocolMatches(rule)
      BY <1>3 DEF calicoRuleProtocolMatches
    <2> HIDE DEF rule, candidates, selected
    <2> QED
      BY <1>7, <1>8, <2>1, <2>2
  <1> DEFINE Hits == {j \in DOMAIN policy["egress"] :
                         policy["egress"][j] \in applying /\ policy["egress"][j].action # "log"}
             Allows == {j \in Hits : policy["egress"][j].action = "allow"}
  <1>10. DOMAIN policy["egress"] \subseteq Nat
    BY <1>5
  <1> HIDE DEF applying
  <1>11. Allows \in SUBSET Nat /\ k \in Allows
    BY <1>6, <1>9, <1>10
  <1>12. PICK m \in Allows : \A j \in Allows : m <= j
    <2> HIDE DEF Allows
    <2> QED
      BY <1>11, LeastNat
  <1>13. m \in Nat /\ m \in Hits /\ \A j \in Hits : j < m => policy["egress"][j].action \notin {"allow"}
    BY <1>10, <1>11, <1>12
  <1> DEFINE match == [tierOrder |-> policy.tierOrder, order |-> policy.order, index |-> m,
                       policy |-> policy.name, action |-> policy["egress"][m].action]
  <1>14. match.action = "allow"
    BY <1>12
  <1>15. match \in matches
    <2> HIDE DEF selected
    <2> QED
      BY <1>13 DEF RuleMatches
  <1> QED
    BY <1>1, <1>14, <1>15


(***************************************************************************)
(* An answer to check egress has come over a connection that every engine  *)
(* lets out, and the cluster has not changed since.                        *)
(***************************************************************************)
LetOutInv ==
    /\ pc \in {"egress-dns", "egress-context", "egress-urls", "egress-probe"} \/ answered # {} => world.source # None
    /\ \A url \in answered : LetOut(url)

LEMMA SameWayOut ==
  ASSUME UNCHANGED world, NEW url
  PROVE  LetOut(url)' = LetOut(url)
  BY DEF LetOut

LEMMA InitLetOut == Init => LetOutInv
  BY DEF Init, LetOutInv

LEMMA StepLetOut ==
  ASSUME LetOutInv, Next
  PROVE  LetOutInv'
  <1> DEFINE Probing == {"egress-dns", "egress-context", "egress-urls", "egress-probe"}
  <1>1. ASSUME UNCHANGED <<world, answered>>, pc' \notin Probing \/ pc \in Probing
        PROVE  LetOutInv'
    BY <1>1, SameWayOut DEF LetOutInv
  <1>2. ASSUME NEW command, NEW insights, NEW next, Says(command, insights, next), UNCHANGED answered,
               next \notin Probing \/ pc \in Probing
        PROVE  LetOutInv'
    BY <1>1, <1>2 DEF Says
  <1>3. ASSUME NEW command, NEW next \in {"next", "done"}, Finish(command, next) PROVE LetOutInv'
    BY <1>1, <1>3 DEF Finish
  <1>4. CASE CheckService
    BY <1>2, <1>3, <1>4 DEF CheckService, native, calico, host, cilium, finishService
  <1>5. CASE Blockers
    <2>1. CASE startBlockers
      BY <1>1, <2>1 DEF startBlockers
    <2> QED
      BY <1>2, <1>3, <1>5, <2>1 DEF Blockers, blockersNative, blockersCalico, blockersCilium, blockersConclude,
         finishBlockers
  <1>6. CASE egressSource
    <2>1. CASE world.source # None /\ UNCHANGED <<world, answered>>
      BY <2>1, SameWayOut DEF LetOutInv
    <2>2. CASE \E insights : Says("egress", insights, "finish-egress") /\ UNCHANGED answered
      BY <1>2, <2>2
    <2>3. \/ world.source # None /\ UNCHANGED <<world, answered>>
          \/ \E insights : Says("egress", insights, "finish-egress") /\ UNCHANGED answered
      BY <1>6 DEF egressSource, Says
    <2> QED
      BY <2>1, <2>2, <2>3
  <1>7. CASE egressDNS \/ egressContext
    BY <1>2, <1>7 DEF egressDNS, egressContext
  <1>8. CASE egressURL
    BY <1>2, <1>8 DEF egressURL
  <1>9. CASE egressProbe
    <2>1. PICK new : /\ answered' = answered \cup new /\ new \subseteq {Head(urls)}
                     /\ new # {} => LetOut(Head(urls))
                     /\ UNCHANGED world
      <3>1. PICK resolved \in {"yes", "no", "no-tool"}, curl \in {"answer", "refused", "no-tool", "no-name", "timeout"} :
              /\ curl \in {"answer", "refused"} => LetOut(Head(urls))
              /\ Says("egress", About(Head(urls), {Resolution(resolved), Probe(curl, resolved)}), "egress-urls")
              /\ answered' = answered \cup (IF curl \in {"answer", "refused"} THEN {Head(urls)} ELSE {})
        BY <1>9 DEF egressProbe
      <3> DEFINE new == IF curl \in {"answer", "refused"} THEN {Head(urls)} ELSE {}
      <3>2. answered' = answered \cup new /\ new \subseteq {Head(urls)} /\ (new # {} => LetOut(Head(urls)))
        BY <3>1
      <3> HIDE DEF new
      <3> QED
        BY <3>1, <3>2 DEF Says
    <2>2. world.source # None
      BY <1>9 DEF egressProbe, LetOutInv
    <2>3. \A url \in answered' : LetOut(url)
      BY <2>1 DEF LetOutInv
    <2> QED
      BY <2>1, <2>2, <2>3, SameWayOut DEF LetOutInv
  <1>10. CASE egressEnd
    BY <1>1, <1>10 DEF egressEnd
  <1>11. CASE finishEgress
    BY <1>3, <1>11 DEF finishEgress
  <1> QED
    BY <1>4, <1>5, <1>6, <1>7, <1>8, <1>9, <1>10, <1>11 DEF Next, Egress

\* What was said of a URL is what the engine says of it.
LEMMA PosturesAre ==
  ASSUME NEW url, NEW i \in About(url, URLPosture(url)), world.source # None
  PROVE  /\ i.check = "native-port" /\ i.status = "FAIL" =>
              Insight("native-port", "FAIL", "no-egress-allow-candidate-mentions")
                  \in inspectNativeEgressPortPosture(InNamespace(world.native, NamespaceOf[world.source]),
                                                     world.source, url.port)
         /\ i.check = "Calico-default-deny" =>
              \E j \in CalicoShowBlockers(world.calico, "egress", world.source, None, <<>>, None, {url.port}, {},
                                          access.calico, access.calicoRead) : j.check = i.check
         /\ i.check = "Cilium-outbound" =>
              \E j \in AnalyzeExternalEgress(world.cilium, world.source, url.host, url.port, access.cilium) :
                  j.check = i.check /\ j.status = i.status
  <1> DEFINE listed == InNamespace(world.native, NamespaceOf[world.source])
             nativeSays == IF HomeReadable THEN inspectNativeEgressPortPosture(listed, world.source, url.port)
                           ELSE {Plain("native-port", "WARN")}
             calicoSays == CalicoShowBlockers(world.calico, "egress", world.source, None, <<>>, None, {url.port},
                                              {}, access.calico, access.calicoRead)
             ciliumSays == AnalyzeExternalEgress(world.cilium, world.source, url.host, url.port, access.cilium)
  <1>1. HomePolicies = listed
    BY DEF HomePolicies, SourceNamespace
  <1>2. URLPosture(url) = nativeSays \cup calicoSays \cup ciliumSays
    BY <1>1 DEF URLPosture
  <1>3. Said(nativeSays, {"native-port"}) /\ Said(calicoSays, CalicoRemarks) /\ Said(ciliumSays, CiliumRemarks)
    <2>1. Said(nativeSays, {"native-port"})
      BY StatusesAre DEF Said, inspectNativeEgressPortPosture, Plain, Insight
    <2> QED
      BY <2>1, CalicoBlockersSay, CiliumEgressSays
  <1>4. \A j \in nativeSays : j.status = "FAIL" =>
           j = Insight("native-port", "FAIL", "no-egress-allow-candidate-mentions")
           /\ j \in inspectNativeEgressPortPosture(listed, world.source, url.port)
    BY DEF inspectNativeEgressPortPosture, Plain, Insight
  <1> HIDE DEF nativeSays, calicoSays, ciliumSays
  <1>5. PICK j \in URLPosture(url) : i.check = j.check /\ i.status = j.status
    BY DEF About
  <1>6. "native-port" \notin CalicoRemarks \cup CiliumRemarks /\ "Calico-default-deny" \notin {"native-port"} \cup CiliumRemarks
        /\ "Cilium-outbound" \notin {"native-port"} \cup CalicoRemarks
    BY DEF CalicoRemarks, CiliumRemarks
  <1>7. CASE j \in nativeSays
    <2>1. j.check = "native-port"
      BY <1>3, <1>7 DEF Said
    <2> QED
      BY <1>4, <1>5, <1>7, <2>1
  <1>8. CASE j \in calicoSays
    <2>1. j.check \in CalicoRemarks
      BY <1>3, <1>8 DEF Said
    <2> QED
      BY <1>5, <1>6, <1>8, <2>1 DEF calicoSays
  <1>9. CASE j \in ciliumSays
    <2>1. j.check \in CiliumRemarks
      BY <1>3, <1>9 DEF Said
    <2> QED
      BY <1>5, <1>6, <1>9, <2>1 DEF ciliumSays
  <1> QED
    BY <1>2, <1>5, <1>7, <1>8, <1>9

LEMMA ReachedTrue ==
  ASSUME SaidInv, Typed, LetOutInv
  PROVE  ReachedIsNotBlamed
  <1> SUFFICES ASSUME NEW url \in answered, NEW i \in report["egress"], i.status = "FAIL",
                      i.check \in PostureChecks, i.url = url
               PROVE  /\ i.check = "native-port" => ~NativeReadable
                      /\ i.check = "Calico-default-deny" => ~CalicoReadable
                            \/ \E p \in world.calico : \E rule \in ToSet(p.egress) : rule.action = "pass"
                      /\ i.check # "Cilium-outbound"
    BY DEF ReachedIsNotBlamed, PostureChecks
  <1>1. world \in World /\ world \in Worlds
    BY CommandsAssumption DEF SaidInv
  <1>2. /\ world.source \in Pods /\ world.cilium \in Seq(CiliumPolicyObject)
        /\ world.calico \subseteq CalicoPolicyObject /\ access \in Access
    BY <1>1 DEF World, LetOutInv, access
  <1>3. url \in URL
    <2>1. PICK list \in URLLists : url \in ToSet(list)
      BY DEF Typed
    <2>2. list \in Seq(URL)
      BY CommandsAssumption
    <2> QED
      BY <2>1, <2>2, ElementType DEF ToSet
  <1>4. url.host \in Hosts /\ url.port \in Nat
    BY <1>3 DEF URL
  <1>5. i \in About(url, URLPosture(url))
    BY DEF SaidInv, Posed
  <1>6. world.source # None
    BY DEF LetOutInv
  <1>7. /\ NativeEgressLets(world.native, world.source, url.host, url.port)
        /\ CiliumEgressLets(world.cilium, world.source, url.host, url.port)
        /\ CalicoMayLetOut(world.calico, world.source, url.port)
    BY DEF LetOutInv, LetOut
  <1>8. i.check = "native-port" => ~NativeReadable
    <2> SUFFICES ASSUME i.check = "native-port", NativeReadable PROVE FALSE
      OBVIOUS
    <2>1. \A rule \in EgressRules(world.native) : Plainly(rule)
      BY DEF NativeReadable, Plainly, EgressRules
    <2> QED
      BY <1>5, <1>6, <1>7, <2>1, PosturesAre, NativePostureBlame
  <1>9. i.check = "Calico-default-deny" => ~CalicoReadable
           \/ \E p \in world.calico : \E rule \in ToSet(p.egress) : rule.action = "pass"
    <2> SUFFICES ASSUME i.check = "Calico-default-deny", CalicoReadable,
                        ~\E p \in world.calico : \E rule \in ToSet(p.egress) : rule.action = "pass"
                 PROVE  FALSE
      OBVIOUS
    <2>1. access.calico.global = "read" /\ access.calicoRead \in [sets : BOOLEAN, accounts : BOOLEAN]
      BY <1>2 DEF CalicoReadable, Access
    <2>2. \A p \in world.calico : \A rule \in ToSet(p.egress) :
             /\ rule.action # "pass"
             /\ rule.source.services = None /\ rule.source.sets = {} /\ ~rule.source.labelled
             /\ \A token \in rule.destination.notPorts
                    \cup (IF rule.destination.ports = None THEN {} ELSE rule.destination.ports) :
                   token.name = None /\ (token.text => token.min = token.max)
      BY DEF CalicoReadable
    <2>3. PICK j \in CalicoShowBlockers(world.calico, "egress", world.source, None, <<>>, None, {url.port}, {},
                                        access.calico, access.calicoRead) : j.check = "Calico-default-deny"
      BY <1>5, <1>6, PosturesAre
    <2> QED
      BY <1>2, <1>4, <1>7, <2>1, <2>2, <2>3, CalicoPostureBlame
  <1>10. i.check # "Cilium-outbound"
    <2> SUFFICES ASSUME i.check = "Cilium-outbound" PROVE FALSE
      OBVIOUS
    <2>0. i.check = "Cilium-outbound" /\ i.status = "FAIL"
      OBVIOUS
    <2>1. PICK j \in AnalyzeExternalEgress(world.cilium, world.source, url.host, url.port, access.cilium) :
             j.check = "Cilium-outbound" /\ j.status = "FAIL"
      <3>1. \E j \in AnalyzeExternalEgress(world.cilium, world.source, url.host, url.port, access.cilium) :
               j.check = i.check /\ j.status = i.status
        BY <1>5, <1>6, PosturesAre
      <3> QED
        BY <2>0, <3>1
    <2>2. /\ \A p \in ToSet(world.cilium) : p.bad \/ Sanitized(p)
          /\ \A p \in ToSet(world.cilium) : p.namespace = None => access.cilium.clusterwide # "absent"
      BY <1>1, CommandsAssumption DEF access
    <2>3. access.cilium.clusterwide \in ListOutcome
      BY <1>2 DEF Access
    <2> QED
      BY <1>2, <1>4, <1>7, <2>1, <2>2, <2>3, OutboundNotBlamed
  <1> QED
    BY <1>8, <1>9, <1>10


-------------------------------------------------------------------------------
(* What check service says of a path, and what Cilium lets through.        *)

\* The ports that the code asks about are the one port of the path.
LEMMA CandidatesAre ==
  ASSUME NEW service \in Service, NEW targets \in Seq(Pods), service.chosen # 0, service.chosen <= 1,
         Len(service.ports) = 1, \E number : Candidates(service, targets) = {number},
         \A c \in PortsOf(targets) : c.number \in Candidates(service, targets) => c.protocol = "TCP",
         Chosen(service).protocol = "TCP"
  PROVE  /\ ciliumPathPortCandidates(Candidates(service, targets), service, targets) # {}
         /\ \A c \in ciliumPathPortCandidates(Candidates(service, targets), service, targets) :
               c.number \in Candidates(service, targets) /\ c.protocol = "TCP"
  <1> DEFINE ports == Candidates(service, targets)
  <1>0. PICK number : ports = {number}
    OBVIOUS
  <1> DEFINE p == Chosen(service)
             FromTarget(q) ==
               IF q.target \in PortNames
               THEN {Candidate(c.number, c.name, c.protocol) :
                        c \in {d \in PortsOf(targets) : d.name = q.target}}
               ELSE IF q.port \in ports \/ q.target \in ports
               THEN {Candidate(q.target, ContainerPortName(targets, q.target), q.protocol)}
               ELSE {}
             FromService == UNION {FromTarget(q) : q \in ToSet(service.ports)}
             FromPods == {Candidate(c.number, c.name, c.protocol) :
                             c \in {d \in PortsOf(targets) : d.name # None /\ d.number \in ports}}
             plain == {Candidate(n, None, "TCP") : n \in ports}
  <1>1. service # None /\ service.chosen = 1
    <2>1. service.chosen \in Nat
      BY DEF Service
    <2> QED
      BY <1>0, <2>1 DEF HasChosen, Candidates
  <1>2. ToSet(service.ports) = {p}
    BY <1>1 DEF ToSet, Chosen, Service
  <1>3. p.port = number /\ TargetNumbers(p.target, targets) \subseteq {number}
    BY <1>0, <1>1 DEF Candidates, HasChosen
  <1>4. \A c \in FromTarget(p) : c.number = number /\ c.protocol = "TCP"
    <2>1. CASE p.target \in PortNames
      <3> SUFFICES ASSUME NEW d \in PortsOf(targets), d.name = p.target
                   PROVE  d.number = number /\ d.protocol = "TCP"
        BY <2>1 DEF Candidate
      <3> QED
        BY <1>0, <1>3, <2>1 DEF TargetNumbers
    <2>2. CASE p.target \notin PortNames
      <3>1. p.target = number
        BY <1>3, <2>2 DEF TargetNumbers
      <3> QED
        BY <2>2, <3>1 DEF Candidate
    <2> QED
      BY <2>1, <2>2
  <1>5. \A c \in FromPods \cup plain : c.number = number /\ c.protocol = "TCP"
    BY <1>0 DEF Candidate
  <1>6. FromService = FromTarget(p)
    BY <1>2
  <1>7. plain # {}
    BY <1>0
  <1>8. ciliumPathPortCandidates(ports, service, targets)
          = IF FromService \cup FromPods # {} THEN FromService \cup FromPods ELSE plain
    BY <1>1 DEF ciliumPathPortCandidates
  <1> HIDE DEF ports, FromTarget, FromService, FromPods, plain
  <1> QED
    BY <1>0, <1>4, <1>5, <1>6, <1>7, <1>8 DEF ports

\* Of a port with a number the code says what Cilium does.
LEMMA NumberedPortAgrees ==
  ASSUME NEW p \in PortProtocol, p.port \notin PortNames, NEW number \in Nat, NEW c, c.number = number, c.protocol = "TCP",
         NEW pod, p.port \in PortNumber /\ p.end # 0 => p.port <= p.end
  PROVE  PortProtocolMatches(p, c) <=>
             \/ p.port = None
             \/ /\ p.protocol \in {"ANY", "TCP"}
                /\ \/ p.port \in PortNames /\ pod \in Pods /\ HasPortNamed(pod, p.port, number)
                   \/ p.port \in PortNumber /\ p.port <= number
                         /\ number <= (IF p.end = 0 THEN p.port ELSE p.end)
  <1>1. p.port \in 0..MaxPort \cup {None} /\ p.end \in Nat
    BY DEF PortProtocol
  <1>2. None \notin Nat
    BY WorldAssumption
  <1>3. PortNumber = 0..MaxPort \ {0} /\ PortNumber \subseteq Nat
    <2>1. MaxPort \in Nat
      BY DEF MaxPort
    <2> QED
      BY <2>1 DEF PortNumber
  <1>4. CASE p.port = None
    BY <1>4 DEF PortProtocolMatches
  <1>5. CASE p.port = 0
    <2>1. p.port # None /\ p.port \notin PortNumber
      BY <1>2, <1>3, <1>5
    <2> QED
      BY <1>5, <2>1 DEF PortProtocolMatches
  <1>6. CASE p.port \in PortNumber
    <2>1. p.port # None /\ p.port # 0 /\ p.port \in Nat
      BY <1>2, <1>3, <1>6
    <2>2. (p.port = number \/ (p.end > 0 /\ p.port <= number /\ number <= p.end))
             <=> (p.port <= number /\ number <= (IF p.end = 0 THEN p.port ELSE p.end))
      BY <1>1, <1>6, <2>1
    <2> QED
      BY <1>6, <2>1, <2>2 DEF PortProtocolMatches
  <1> QED
    BY <1>1, <1>3, <1>4, <1>5, <1>6

LEMMA NumberedPortsAgree ==
  ASSUME NEW e \in Entry, SanitizedEntry(e), ~UseNamedPorts(e.ports), NEW number \in Nat, NEW candidates, candidates # {},
         \A c \in candidates : c.number = number /\ c.protocol = "TCP", NEW pod
  PROVE  CiliumPortsMatch(e.ports, candidates) <=> CiliumPortsHold(e.ports, pod, number)
  <1> DEFINE Holds(p) ==
               \/ p.port = None
               \/ /\ p.protocol \in {"ANY", "TCP"}
                  /\ \/ p.port \in PortNames /\ pod \in Pods /\ HasPortNamed(pod, p.port, number)
                     \/ p.port \in PortNumber /\ p.port <= number
                           /\ number <= (IF p.end = 0 THEN p.port ELSE p.end)
  <1>1. \A rule \in e.ports : \A p \in rule.ports :
           /\ p \in PortProtocol /\ p.port \notin PortNames
           /\ p.port \in PortNumber /\ p.end # 0 => p.port <= p.end
    BY DEF Entry, PortRule, SanitizedEntry, UseNamedPorts
  <1>2. \A rule \in e.ports : \A p \in rule.ports : \A c \in candidates : PortProtocolMatches(p, c) <=> Holds(p)
    BY <1>1, NumberedPortAgrees
  <1>3. \A rule \in e.ports : \A p \in rule.ports : (\E c \in candidates : PortProtocolMatches(p, c)) <=> Holds(p)
    BY <1>2
  <1>4. CiliumPortsHold(e.ports, pod, number) <=>
           e.ports = {} \/ \E rule \in e.ports : rule.ports = {} \/ \E p \in rule.ports : Holds(p)
    BY Zenon DEF CiliumPortsHold
  <1>5. CiliumPortsMatch(e.ports, candidates) <=>
           e.ports = {} \/ \E rule \in e.ports : rule.ports = {} \/ \E p \in rule.ports : \E c \in candidates : PortProtocolMatches(p, c)
    BY Zenon DEF CiliumPortsMatch
  <1> HIDE DEF Holds
  <1> QED
    BY <1>3, <1>4, <1>5


\* Entries of which the property speaks.
Simple(e) ==
    /\ e \in Entry /\ SanitizedEntry(e)
    /\ e.peers.services = <<>> /\ e.peers.requires = {} /\ e.fqdns = {} /\ ~UseNamedPorts(e.ports)

\* A match is one of some target, no match is one of none.
LEMMA EgressPeersAgree ==
  ASSUME NEW e, Simple(e), NEW groups, NEW pods, pods \subseteq Pods, pods # {}, NEW service
  PROVE  LET peer == ciliumEgressPeerMatches(e.peers, groups, pods, service)
         IN  /\ peer \in {"match", "address", "miss"}
             /\ peer = "match" => \E pod \in pods : CiliumPeersHold(e, pod)
             /\ peer # "match" => \A pod \in pods : ~CiliumPeersHold(e, pod)
  <1> DEFINE peer == ciliumEgressPeerMatches(e.peers, groups, pods, service)
  <1>1. NoCriteria(e.peers) => e.peers.groups = {}
    BY DEF Simple, SanitizedEntry, NoCriteria
  <1>2. pods \cap Hosts = {}
    BY WorldAssumption
  <1>3. ~\E i \in DOMAIN e.peers.services : TRUE
    BY DEF Simple
  <1>4. service # None => ~MissedByServiceSelector(e.peers, service)
    BY <1>3 DEF MissedByServiceSelector
  <1>5. \A pod \in pods : CiliumPeersHold(e, pod) <=>
           \/ NoCriteria(e.peers) \/ e.peers.entities \cap {"all", "cluster"} # {}
           \/ \E selector \in e.peers.endpoints : pod \in selector
    BY <1>1, <1>2 DEF CiliumPeersHold, Simple
  <1>6. (\E selector \in e.peers.endpoints : selector \cap pods # {}) <=>
           \E pod \in pods : \E selector \in e.peers.endpoints : pod \in selector
    OBVIOUS
  <1>7. \A selector \in e.peers.requires : selector \cap pods # {}
    BY DEF Simple
  <1>8. CASE NoCriteria(e.peers)
    BY <1>5, <1>8 DEF ciliumEgressPeerMatches
  <1>9. CASE ~NoCriteria(e.peers) /\ \E selector \in e.peers.endpoints : selector \cap pods # {}
    <2>1. peer = "match"
      BY <1>7, <1>9 DEF ciliumEgressPeerMatches
    <2> QED
      BY <1>5, <1>6, <1>9, <2>1
  <1>10. CASE ~NoCriteria(e.peers) /\ ~\E selector \in e.peers.endpoints : selector \cap pods # {}
    <2>1. peer = IF e.peers.entities \cap {"all", "cluster"} # {} THEN "match"
                 ELSE IF e.peers.cidrs # None
                         /\ (e.peers.cidrs \cup (IF groups THEN e.peers.groups ELSE {}))
                              \cap (pods \cup (IF service = None THEN {} ELSE {service.vip})) # {}
                 THEN "address" ELSE "miss"
      BY <1>3, <1>4, <1>10 DEF ciliumEgressPeerMatches
    <2> QED
      BY <1>5, <1>6, <1>10, <2>1
  <1> QED
    BY <1>8, <1>9, <1>10

LEMMA IngressPeersAgree ==
  ASSUME NEW e, Simple(e), NEW source \in Pods
  PROVE  ciliumIngressPeerMatches(e.peers, source) <=> CiliumPeersHold(e, source)
  <1>1. NoCriteria(e.peers) => e.peers.groups = {}
    BY DEF Simple, SanitizedEntry, NoCriteria
  <1>2. source \notin Hosts
    BY WorldAssumption
  <1> QED
    BY <1>1, <1>2 DEF CiliumPeersHold, ciliumIngressPeerMatches, Simple

\* What a decision without a deny means.
LEMMA AllowMeans ==
  ASSUME NEW check, NEW Clean, NEW L7, NEW Ambiguous, NEW doubt
  PROVE  /\ AllowDecision(check, Clean, L7, Ambiguous, doubt).status = "PASS" => Clean # {}
         /\ AllowDecision(check, Clean, L7, Ambiguous, doubt).status = "FAIL" =>
              Clean = {} /\ L7 = {} /\ Ambiguous = {}
  BY DEF AllowDecision, Plain, Insight

\* On egress the rules of the source decide for every target.
LEMMA CiliumEgressTrue ==
  ASSUME NEW rules, NEW source, NEW targets, ToSet(targets) \subseteq Pods, ToSet(targets) # {}, NEW service, NEW groups,
         NEW number \in Nat, NEW candidates, candidates # {},
         \A c \in candidates : c.number = number /\ c.protocol = "TCP",
         \A e \in Section(rules, {source}, "egress") \cup Section(rules, {source}, "egressDeny") : Simple(e),
         NEW status, status = ciliumEgressDecision(rules, source, targets, service, candidates, groups).status,
         NEW all, \A section \in {"egress", "egressDeny"} :
             Section(rules, {source}, section) = Section(namedRules(all), {source}, section)
  PROVE  /\ status = "FAIL" => \E pod \in ToSet(targets) : ~CiliumEgressLets(all, source, pod, number)
         /\ status = "PASS" => \E pod \in ToSet(targets) : CiliumEgressLets(all, source, pod, number)
  <1> DEFINE Denies == Section(rules, {source}, "egressDeny")
             Allows == Section(rules, {source}, "egress")
             Lets(pod) == CiliumEgressLets(all, source, pod, number)
             pods == ToSet(targets)
             Where(e) == ciliumEgressPeerMatches(e.peers, groups, pods, service)
             Port(e) == CiliumPortsMatch(e.ports, candidates)
             Matching == {e \in Allows : Where(e) = "match" /\ Port(e)}
             L7 == {e \in Matching : HaveL7(e.ports)}
             Named == {e \in Matching \ L7 : UseNamedPorts(e.ports)}
             Doubtful == {e \in Allows : Where(e) \in {"address", "service"} /\ Port(e)}
             allowed == AllowDecision("Cilium-egress", Matching \ (L7 \cup Named), L7, Named \cup Doubtful, "Cilium-ambiguous")
  <1>1. \A e \in Denies \cup Allows : \A pod \in pods : Port(e) <=> CiliumPortsHold(e.ports, pod, number)
    BY NumberedPortsAgree DEF Simple
  <1>2. \A e \in Denies \cup Allows :
           /\ Where(e) \in {"match", "address", "miss"}
           /\ Where(e) = "match" => \E pod \in pods : CiliumPeersHold(e, pod)
           /\ Where(e) # "match" => \A pod \in pods : ~CiliumPeersHold(e, pod)
    <2>1. pods \subseteq Pods /\ pods # {}
      OBVIOUS
    <2> HIDE DEF pods
    <2>2. ASSUME NEW e, Simple(e)
          PROVE  LET peer == ciliumEgressPeerMatches(e.peers, groups, pods, service)
                 IN  /\ peer \in {"match", "address", "miss"}
                     /\ peer = "match" => \E pod \in pods : CiliumPeersHold(e, pod)
                     /\ peer # "match" => \A pod \in pods : ~CiliumPeersHold(e, pod)
      BY <2>1, <2>2, EgressPeersAgree
    <2> QED
      BY <2>2
  <1>4. ciliumEgressDecision(rules, source, targets, service, candidates, groups)
          = IF \E e \in Denies : Where(e) = "match" /\ Port(e) THEN Insight("Cilium-egress", "FAIL", "Cilium-deny")
            ELSE IF Denies \cup Allows = {} THEN Plain("Cilium-egress", "PASS")
            ELSE IF \E e \in Denies : Where(e) = "address" /\ Port(e) THEN Plain("Cilium-egress", "WARN")
            ELSE allowed
    BY DEF ciliumEgressDecision
  <1>5. /\ allowed.status = "PASS" => Matching # {}
        /\ allowed.status = "FAIL" => Matching = {} /\ Doubtful = {}
    <2>1. /\ allowed.status = "PASS" => Matching \ (L7 \cup Named) # {}
          /\ allowed.status = "FAIL" => Matching \ (L7 \cup Named) = {} /\ L7 = {} /\ Named \cup Doubtful = {}
      <3> DEFINE clean == Matching \ (L7 \cup Named)
                 doubt == Named \cup Doubtful
      <3>1. allowed = AllowDecision("Cilium-egress", clean, L7, doubt, "Cilium-ambiguous")
        OBVIOUS
      <3> HIDE DEF clean, doubt, L7, allowed
      <3>2. /\ allowed.status = "PASS" => clean # {}
            /\ allowed.status = "FAIL" => clean = {} /\ L7 = {} /\ doubt = {}
        BY <3>1, AllowMeans
      <3> QED
        BY <3>2 DEF clean, doubt
    <2> HIDE DEF Matching, Doubtful, allowed
    <2> QED
      BY <2>1
  <1>6. pods # {} /\ \E pod \in pods : TRUE
    OBVIOUS
  <1>7. /\ \A d : Insight("Cilium-egress", "FAIL", d).status = "FAIL"
        /\ \A s : Plain("Cilium-egress", s).status = s
    BY DEF Plain, Insight
  <1>8. \A pod : Lets(pod) <=>
           /\ ~\E e \in Denies : CiliumPeersHold(e, pod) /\ CiliumPortsHold(e.ports, pod, number)
           /\ Denies \cup Allows # {} =>
                 \E e \in Allows : CiliumPeersHold(e, pod) /\ CiliumPortsHold(e.ports, pod, number)
    BY DEF CiliumEgressLets, CiliumLets, CiliumHolds
  <1> HIDE DEF Denies, Allows, Lets, Where, Port, allowed, L7, Named, pods
  <1>9. CASE \E e \in Denies : Where(e) = "match" /\ Port(e)
    <2>1. PICK e \in Denies : Where(e) = "match" /\ Port(e)
      BY <1>9
    <2>2. PICK pod \in pods : CiliumPeersHold(e, pod)
      BY <1>2, <2>1
    <2>3. CiliumPortsHold(e.ports, pod, number)
      BY <1>1, <2>1
    <2>4. ~Lets(pod)
      BY <1>8, <2>1, <2>2, <2>3
    <2>5. status = "FAIL"
      BY <1>4, <1>7, <1>9
    <2> QED
      BY <2>4, <2>5 DEF pods, Lets
  <1>10. CASE Denies \cup Allows = {}
    <2>1. status = "PASS"
      BY <1>4, <1>7, <1>10
    <2>2. \A pod \in pods : Lets(pod)
      BY <1>8, <1>10
    <2> QED
      BY <1>6, <2>1, <2>2 DEF pods, Lets
  <1>11. CASE /\ ~\E e \in Denies : Where(e) = "match" /\ Port(e)
              /\ \E e \in Denies : Where(e) = "address" /\ Port(e)
    <2>1. status = "WARN"
      BY <1>4, <1>7, <1>11
    <2> QED
      BY <2>1
  <1>12. CASE /\ ~\E e \in Denies : Where(e) \in {"match", "address"} /\ Port(e)
              /\ Denies \cup Allows # {}
    <2>1. status = allowed.status
      BY <1>4, <1>12
    <2>2. \A pod \in pods : ~\E e \in Denies : CiliumPeersHold(e, pod) /\ CiliumPortsHold(e.ports, pod, number)
      <3> SUFFICES ASSUME NEW pod \in pods, NEW e \in Denies, CiliumPeersHold(e, pod), CiliumPortsHold(e.ports, pod, number)
                   PROVE  FALSE
        OBVIOUS
      <3>1. Port(e) /\ Where(e) = "match"
        BY <1>1, <1>2
      <3> QED
        BY <1>12, <3>1
    <2>3. ASSUME status = "FAIL" PROVE \E pod \in pods : ~Lets(pod)
      <3>1. Matching = {}
        BY <1>5, <2>1, <2>3
      <3>2. \A pod \in pods : ~Lets(pod)
        <4> SUFFICES ASSUME NEW pod \in pods, Lets(pod) PROVE FALSE
          OBVIOUS
        <4>1. PICK e \in Allows : CiliumPeersHold(e, pod) /\ CiliumPortsHold(e.ports, pod, number)
          BY <1>8, <1>12
        <4>2. Where(e) = "match" /\ Port(e)
          BY <1>1, <1>2, <4>1
        <4> QED
          BY <3>1, <4>2
      <3> QED
        BY <1>6, <3>2
    <2>4. ASSUME status = "PASS" PROVE \E pod \in pods : Lets(pod)
      <3>1. PICK e \in Allows : Where(e) = "match" /\ Port(e)
        BY <1>5, <2>1, <2>4
      <3>2. PICK pod \in pods : CiliumPeersHold(e, pod)
        BY <1>2, <3>1
      <3>3. CiliumPortsHold(e.ports, pod, number)
        BY <1>1, <3>1
      <3> QED
        BY <1>8, <2>2, <3>2, <3>3
    <2> QED
      BY <2>3, <2>4 DEF pods, Lets
  <1> QED
    BY <1>2, <1>9, <1>10, <1>11, <1>12 DEF Lets, pods


\* What rules have for some pods is what they have for one of them.
LEMMA SectionOfEach ==
  ASSUME NEW rules, NEW pods, NEW section
  PROVE  \A e : e \in Section(rules, pods, section) <=> \E pod \in pods : e \in Section(rules, {pod}, section)
  <1> TAKE e
  <1>1. e \in Section(rules, pods, section) <=>
           \E rule \in ToSet(rules) : rule.selects \cap pods # {} /\ e \in rule[section]
    BY SectionMembers
  <1>2. \A pod : e \in Section(rules, {pod}, section) <=>
           \E rule \in ToSet(rules) : rule.selects \cap {pod} # {} /\ e \in rule[section]
    BY SectionMembers
  <1>3. \A rule : rule.selects \cap pods # {} <=> \E pod \in pods : rule.selects \cap {pod} # {}
    OBVIOUS
  <1> QED
    BY <1>1, <1>2, <1>3

\* On ingress the rules of all targets are looked at together.
LEMMA CiliumIngressTrue ==
  ASSUME NEW rules, NEW source \in Pods, NEW pods, pods # {},
         NEW number \in Nat, NEW candidates, candidates # {},
         \A c \in candidates : c.number = number /\ c.protocol = "TCP",
         \A e \in Section(rules, pods, "ingress") \cup Section(rules, pods, "ingressDeny") : Simple(e),
         NEW status, status = ciliumIngressDecision(rules, pods, source, candidates).status,
         NEW all, \A section \in {"ingress", "ingressDeny"} : \A some \in SUBSET pods :
             Section(rules, some, section) = Section(namedRules(all), some, section)
  PROVE  /\ status = "FAIL" => \E pod \in pods : ~CiliumIngressLets(all, source, pod, number)
         /\ status = "PASS" => \E pod \in pods : CiliumIngressLets(all, source, pod, number)
  <1> DEFINE Denies == Section(rules, pods, "ingressDeny")
             Allows == Section(rules, pods, "ingress")
             DeniesOf(pod) == Section(rules, {pod}, "ingressDeny")
             AllowsOf(pod) == Section(rules, {pod}, "ingress")
             Holds(e) == CiliumPeersHold(e, source) /\ CiliumPortsHold(e.ports, None, number)
             Matches(e) == ciliumIngressPeerMatches(e.peers, source) /\ CiliumPortsMatch(e.ports, candidates)
             Matching == {e \in Allows : Matches(e)}
             L7 == {e \in Matching : HaveL7(e.ports)}
             Clean == {e \in Matching \ L7 : ~UseNamedPorts(e.ports)}
             Lets(pod) == CiliumIngressLets(all, source, pod, number)
             allowed == AllowDecision("Cilium-ingress", Clean, L7, {}, "none")
  <1>1. \A e \in Denies \cup Allows : \A pod :
           Matches(e) <=> CiliumPeersHold(e, source) /\ CiliumPortsHold(e.ports, pod, number)
    <2> SUFFICES ASSUME NEW e \in Denies \cup Allows, NEW pod
                 PROVE  Matches(e) <=> CiliumPeersHold(e, source) /\ CiliumPortsHold(e.ports, pod, number)
      OBVIOUS
    <2>1. Simple(e)
      OBVIOUS
    <2>2. CiliumPortsMatch(e.ports, candidates) <=> CiliumPortsHold(e.ports, pod, number)
      BY <2>1, NumberedPortsAgree DEF Simple
    <2>3. ciliumIngressPeerMatches(e.peers, source) <=> CiliumPeersHold(e, source)
      BY <2>1, IngressPeersAgree
    <2> QED
      BY <2>2, <2>3
  <1>2. \A e : /\ e \in Denies <=> \E pod \in pods : e \in DeniesOf(pod)
               /\ e \in Allows <=> \E pod \in pods : e \in AllowsOf(pod)
    BY SectionOfEach
  <1>3. \A pod \in pods : Lets(pod) <=>
           /\ ~\E e \in DeniesOf(pod) : CiliumPeersHold(e, source) /\ CiliumPortsHold(e.ports, pod, number)
           /\ DeniesOf(pod) \cup AllowsOf(pod) # {} =>
                 \E e \in AllowsOf(pod) : CiliumPeersHold(e, source) /\ CiliumPortsHold(e.ports, pod, number)
    <2> SUFFICES ASSUME NEW pod \in pods
                 PROVE  Lets(pod) <=>
           /\ ~\E e \in DeniesOf(pod) : CiliumPeersHold(e, source) /\ CiliumPortsHold(e.ports, pod, number)
           /\ DeniesOf(pod) \cup AllowsOf(pod) # {} =>
                 \E e \in AllowsOf(pod) : CiliumPeersHold(e, source) /\ CiliumPortsHold(e.ports, pod, number)
      OBVIOUS
    <2>1. \A section \in {"ingress", "ingressDeny"} :
             Section(rules, {pod}, section) = Section(namedRules(all), {pod}, section)
      OBVIOUS
    <2> QED
      BY <2>1 DEF CiliumIngressLets, CiliumLets, CiliumHolds
  <1>4. ciliumIngressDecision(rules, pods, source, candidates)
          = IF \E e \in Denies : Matches(e) THEN Insight("Cilium-ingress", "FAIL", "Cilium-deny")
            ELSE IF Denies \cup Allows = {} THEN Plain("Cilium-ingress", "PASS") ELSE allowed
    BY DEF ciliumIngressDecision
  <1>5. /\ allowed.status = "PASS" => Matching # {}
        /\ allowed.status = "FAIL" => Matching = {}
    <2>1. /\ allowed.status = "PASS" => Clean # {}
          /\ allowed.status = "FAIL" => Clean = {} /\ L7 = {}
      <3> HIDE DEF Clean, L7
      <3> QED
        BY AllowMeans
    <2>2. \A e \in Matching : ~UseNamedPorts(e.ports)
      BY DEF Simple
    <2> HIDE DEF Matching, allowed
    <2> QED
      BY <2>1, <2>2
  <1>6. /\ \A d : Insight("Cilium-ingress", "FAIL", d).status = "FAIL"
        /\ \A s : Plain("Cilium-ingress", s).status = s
    BY DEF Plain, Insight
  <1> HIDE DEF Denies, Allows, DeniesOf, AllowsOf, Matches, allowed, L7, Clean, Lets
  <1>7. CASE \E e \in Denies : Matches(e)
    <2>1. status = "FAIL"
      BY <1>4, <1>6, <1>7
    <2>2. PICK e \in Denies : Matches(e)
      BY <1>7
    <2>3. PICK pod \in pods : e \in DeniesOf(pod)
      BY <1>2, <2>2
    <2>4. ~Lets(pod)
      BY <1>1, <1>3, <2>2, <2>3
    <2> QED
      BY <2>1, <2>4 DEF Lets
  <1>8. CASE Denies \cup Allows = {}
    <2>1. status = "PASS"
      BY <1>4, <1>6, <1>8
    <2>2. \A pod \in pods : DeniesOf(pod) \cup AllowsOf(pod) = {}
      BY <1>2, <1>8
    <2>3. \A pod \in pods : Lets(pod)
      BY <1>3, <2>2
    <2> QED
      BY <2>1, <2>3 DEF Lets
  <1>9. CASE ~(\E e \in Denies : Matches(e)) /\ Denies \cup Allows # {}
    <2>1. status = allowed.status
      BY <1>4, <1>9
    <2>2. ASSUME status = "FAIL" PROVE \E pod \in pods : ~Lets(pod)
      <3>1. Matching = {}
        BY <1>5, <2>1, <2>2
      <3>2. PICK pod \in pods : DeniesOf(pod) \cup AllowsOf(pod) # {}
        BY <1>2, <1>9
      <3>3. ~\E e \in AllowsOf(pod) : CiliumPeersHold(e, source) /\ CiliumPortsHold(e.ports, pod, number)
        BY <1>1, <1>2, <3>1
      <3> QED
        BY <1>3, <3>2, <3>3
    <2>3. ASSUME status = "PASS" PROVE \E pod \in pods : Lets(pod)
      <3>1. PICK e \in Allows : Matches(e)
        BY <1>5, <2>1, <2>3
      <3>2. PICK pod \in pods : e \in AllowsOf(pod)
        BY <1>2, <3>1
      <3>3. ~\E d \in DeniesOf(pod) : CiliumPeersHold(d, source) /\ CiliumPortsHold(d.ports, pod, number)
        BY <1>1, <1>2, <1>9
      <3>4. CiliumPeersHold(e, source) /\ CiliumPortsHold(e.ports, pod, number)
        BY <1>1, <3>1
      <3> QED
        BY <1>3, <3>2, <3>3, <3>4
    <2> QED
      BY <2>2, <2>3 DEF Lets
  <1> QED
    BY <1>7, <1>8, <1>9

\* Which decisions of the layer of Cilium the verdicts are.
LEMMA CiliumDecisions ==
  ASSUME NEW i \in CiliumInsights, access.endpoints \subseteq {Plain("Cilium-endpoints", "INFO")},
         NEW whole, whole = (access.cilium.clusterwide = "read")
  PROVE  LET rules == namedRules(Listed(world.cilium, world.namespace, SourceNamespace, whole))
             candidates == ciliumPathPortCandidates(ServicePorts, world.service, Targets)
         IN  /\ i.check = "Cilium-egress" =>
                   i = ciliumEgressDecision(rules, world.source, Targets, world.service, candidates,
                                            access.cilium.groups = "read")
             /\ i.check = "Cilium-ingress" =>
                   i = ciliumIngressDecision(rules, ToSet(Targets), world.source, candidates)
  <1> DEFINE list == Listed(world.cilium, world.namespace, SourceNamespace, whole)
             rules == namedRules(list)
             groups == access.cilium.groups = "read"
             candidates == ciliumPathPortCandidates(ServicePorts, world.service, Targets)
             out == ciliumEgressDecision(rules, world.source, Targets, world.service, candidates, groups)
             into == ciliumIngressDecision(rules, ToSet(Targets), world.source, candidates)
             resolver == analyzeCiliumDNS(rules, world.source, DNS, groups)
             selected == \E k \in DOMAIN rules : SelectsAny(rules[k], ToSet(Targets))
             bad == badPolicies(list)
             some == Plain("Cilium-target-policies", IF selected THEN "WARN" ELSE "INFO")
             others == access.endpoints \cup listError("Cilium-CIDR-groups") \cup listError("Cilium-clusterwide")
                          \cup listError("Cilium-policies") \cup bad \cup {some}
  <1>1. out.check = "Cilium-egress" /\ into.check = "Cilium-ingress"
    BY DEF ciliumEgressDecision, ciliumIngressDecision, AllowDecision, Plain, Insight
  <1>2. \A j \in resolver : j.check = "Cilium-DNS"
    <2> HIDE DEF rules, groups
    <2>1. Said(resolver, {"Cilium-DNS"})
      BY CiliumDNSSays
    <2> QED
      BY <2>1 DEF Said
  <1>3. \A j \in others : j.check \notin {"Cilium-egress", "Cilium-ingress"}
    <2>1. \A j \in bad : j.check = "Cilium-parse"
      <3>1. bad \in {{}, {Insight("Cilium-parse", "WARN", "Cilium-parse")}}
        BY DEF badPolicies
      <3> HIDE DEF bad
      <3> QED
        BY <3>1 DEF Insight
    <2>2. some.check = "Cilium-target-policies"
      BY DEF Plain, Insight
    <2> HIDE DEF bad, some
    <2> QED
      BY <2>1, <2>2 DEF listError, Plain, Insight
  <1>4. i \in {out, into} \cup resolver \cup others
    BY DEF CiliumInsights, CiliumAnalyze
  <1> HIDE DEF out, into, resolver, others
  <1>5. (i.check = "Cilium-egress" => i = out) /\ (i.check = "Cilium-ingress" => i = into)
    BY <1>1, <1>2, <1>3, <1>4
  <1> QED
    BY <1>5 DEF out, into

\* A FAIL of the layer of Cilium is true of a target, and so is a PASS.
LEMMA CiliumSound ==
  ASSUME SaidInv
  PROVE  CiliumVerdictSound
  <1> DEFINE Out(pod, number) == CiliumEgressLets(world.cilium, world.source, pod, number)
             Into(pod, number) == CiliumIngressLets(world.cilium, world.source, pod, number)
             pods == ToSet(Targets)
             list == Listed(world.cilium, world.namespace, SourceNamespace, TRUE)
             rules == namedRules(list)
             groups == access.cilium.groups = "read"
  <1>1. SUFFICES ASSUME OnePort, Targets # <<>>, CiliumReadable
                 PROVE  /\ Verdict("service", "Cilium-egress", "FAIL") => \E pod \in pods, number \in Numbers : ~Out(pod, number)
                        /\ Verdict("service", "Cilium-egress", "PASS") => \E pod \in pods, number \in Numbers : Out(pod, number)
                        /\ Verdict("service", "Cilium-ingress", "FAIL") => \E pod \in pods, number \in Numbers : ~Into(pod, number)
                        /\ Verdict("service", "Cilium-ingress", "PASS") => \E pod \in pods, number \in Numbers : Into(pod, number)
    BY DEF CiliumVerdictSound
  <1>2. /\ world \in World /\ \A pod \in pods : NamespaceOf[pod] = world.namespace
        /\ \A p \in ToSet(world.cilium) : p.bad \/ Sanitized(p)
        /\ world.service.chosen <= Len(world.service.ports)
    BY CommandsAssumption DEF SaidInv, Targets
  <1>3. /\ world.source \in Pods /\ Targets \in Seq(Pods) /\ world.cilium \in Seq(CiliumPolicyObject)
        /\ world.service \in Service /\ world.namespace \in Namespaces /\ access \in Access
    BY <1>1, <1>2 DEF World, OnePort, Targets, HasChosen, access
  <1>4. SourceNamespace = NamespaceOf[world.source] /\ access.cilium.clusterwide = "read"
        /\ access.endpoints \subseteq {Plain("Cilium-endpoints", "INFO")}
    BY <1>1, <1>3 DEF SourceNamespace, OnePort, CiliumReadable, Access
  <1>5. PICK number \in Numbers : Numbers = {number} /\ ServicePorts = {number}
    BY <1>1 DEF OnePort
  <1>6. number \in Nat
    <2>1. MaxPort \in Nat
      BY DEF MaxPort
    <2>2. PortNumber \subseteq Nat
      BY <2>1 DEF PortNumber
    <2> QED
      BY <2>2, NumbersArePorts DEF SaidInv
  <1> DEFINE candidates == ciliumPathPortCandidates(ServicePorts, world.service, Targets)
  <1>7. candidates # {} /\ \A c \in candidates : c.number = number /\ c.protocol = "TCP"
    <2>1. /\ world.service.chosen # 0 /\ Len(world.service.ports) = 1 /\ Chosen(world.service).protocol = "TCP"
          /\ world.service.chosen <= 1 /\ world.service.chosen \in Nat
      BY <1>1, <1>2, <1>3 DEF OnePort, HasChosen, Service
    <2>2. Candidates(world.service, Targets) = {number}
      BY <1>5 DEF ServicePorts
    <2>3. \A c \in PortsOf(Targets) : c.number \in Candidates(world.service, Targets) => c.protocol = "TCP"
      BY <1>1, <1>5 DEF CiliumReadable, ServicePorts
    <2>4. /\ ciliumPathPortCandidates(Candidates(world.service, Targets), world.service, Targets) # {}
          /\ \A c \in ciliumPathPortCandidates(Candidates(world.service, Targets), world.service, Targets) :
                c.number \in Candidates(world.service, Targets) /\ c.protocol = "TCP"
      BY <1>3, <2>1, <2>2, <2>3, CandidatesAre
    <2> QED
      BY <2>2, <2>4 DEF ServicePorts
  <1>8. pods \subseteq Pods /\ pods # {}
    <2>1. \A i \in DOMAIN Targets : Targets[i] \in Pods
      BY <1>3, ElementType
    <2>2. 1 \in DOMAIN Targets
      BY <1>1, <1>3
    <2> QED
      BY <2>1, <2>2 DEF ToSet
  <1>9. ASSUME NEW some, \A pod \in some : NamespaceOf[pod] \in {world.namespace, SourceNamespace}, NEW section
        PROVE  Section(rules, some, section) = Section(namedRules(world.cilium), some, section)
    <2> DEFINE whole == TRUE
    <2>1. whole \in BOOLEAN /\ \A p \in ToSet(world.cilium) : p.namespace = None => whole
      OBVIOUS
    <2>2. Section(namedRules(Listed(world.cilium, world.namespace, SourceNamespace, whole)), some, section)
            = Section(namedRules(world.cilium), some, section)
      <3> HIDE DEF whole
      <3> QED
        BY <1>2, <1>3, <1>9, <2>1, SameSection
    <2> QED
      BY <2>2
  <1>10. ASSUME NEW some, NEW section \in {"egress", "egressDeny", "ingress", "ingressDeny"},
                NEW e \in Section(namedRules(world.cilium), some, section)
         PROVE  Simple(e)
    <2>1. e \in Entry /\ SanitizedEntry(e)
      BY <1>2, <1>3, CiliumEntriesAre
    <2>2. PICK rule \in ToSet(namedRules(world.cilium)) : e \in rule[section]
      BY SectionMembers
    <2>3. e \in CiliumEntries
      BY <2>2 DEF CiliumEntries, ToSet
    <2> QED
      BY <1>1, <2>1, <2>3 DEF CiliumReadable, Simple
  <1>11. ASSUME NEW i \in report["service"], i.check \in CiliumVerdicts
         PROVE  /\ i.check = "Cilium-egress" =>
                     i = ciliumEgressDecision(rules, world.source, Targets, world.service, candidates, groups)
                /\ i.check = "Cilium-ingress" => i = ciliumIngressDecision(rules, pods, world.source, candidates)
    <2>1. i \in CiliumInsights
      BY <1>11 DEF SaidInv, Decided
    <2> QED
      BY <1>4, <1>5, <2>1, CiliumDecisions
  <1>12. "Cilium-egress" \in CiliumVerdicts /\ "Cilium-ingress" \in CiliumVerdicts
    BY DEF CiliumVerdicts
  <1> HIDE DEF candidates, rules
  <1>13. /\ Verdict("service", "Cilium-egress", "FAIL") => \E pod \in pods : ~Out(pod, number)
         /\ Verdict("service", "Cilium-egress", "PASS") => \E pod \in pods : Out(pod, number)
    <2> DEFINE status == ciliumEgressDecision(rules, world.source, Targets, world.service, candidates, groups).status
    <2>1. \A section : Section(rules, {world.source}, section) = Section(namedRules(world.cilium), {world.source}, section)
      BY <1>4, <1>9
    <2>2. \A e \in Section(rules, {world.source}, "egress") \cup Section(rules, {world.source}, "egressDeny") : Simple(e)
      BY <1>10, <2>1
    <2>3. \A result \in {"FAIL", "PASS"} : Verdict("service", "Cilium-egress", result) => status = result
      BY <1>11, <1>12 DEF Verdict
    <2> HIDE DEF groups
    <2>4. /\ status = "FAIL" => \E pod \in pods : ~Out(pod, number)
          /\ status = "PASS" => \E pod \in pods : Out(pod, number)
      <3> SUFFICES /\ status = "FAIL" => \E pod \in pods : ~CiliumEgressLets(world.cilium, world.source, pod, number)
                   /\ status = "PASS" => \E pod \in pods : CiliumEgressLets(world.cilium, world.source, pod, number)
        OBVIOUS
      <3>1. ToSet(Targets) \subseteq Pods /\ ToSet(Targets) # {}
        BY <1>8
      <3> HIDE DEF status
      <3> QED
        BY <1>6, <1>7, <2>1, <2>2, <3>1, CiliumEgressTrue DEF status
    <2> QED
      BY <2>3, <2>4
  <1>14. /\ Verdict("service", "Cilium-ingress", "FAIL") => \E pod \in pods : ~Into(pod, number)
         /\ Verdict("service", "Cilium-ingress", "PASS") => \E pod \in pods : Into(pod, number)
    <2> DEFINE status == ciliumIngressDecision(rules, pods, world.source, candidates).status
    <2>1. \A section : \A some \in SUBSET pods :
             Section(rules, some, section) = Section(namedRules(world.cilium), some, section)
      BY <1>2, <1>9
    <2>2. \A e \in Section(rules, pods, "ingress") \cup Section(rules, pods, "ingressDeny") : Simple(e)
      BY <1>10, <2>1
    <2>3. \A result \in {"FAIL", "PASS"} : Verdict("service", "Cilium-ingress", result) => status = result
      BY <1>11, <1>12 DEF Verdict
    <2>4. /\ status = "FAIL" => \E pod \in pods : ~Into(pod, number)
          /\ status = "PASS" => \E pod \in pods : Into(pod, number)
      <3> HIDE DEF pods
      <3> QED
        BY <1>3, <1>6, <1>7, <1>8, <2>1, <2>2, CiliumIngressTrue
    <2> QED
      BY <2>3, <2>4
  <1> QED
    BY <1>5, <1>13, <1>14


-------------------------------------------------------------------------------
(* What check service says of a path, and what the first rule says.        *)

\* What the property says of the criteria of a rule, apart from its ports.
Clear(entity, home, read) ==
    /\ entity \in Entity
    /\ entity.services = None /\ entity.sets = {} /\ ~entity.labelled
    /\ entity.nets = None \/ entity.nets \cap VIPs = {}
    /\ (entity.notNets \cup entity.notSets) \cap VIPs = {}
    /\ read.sets \/ entity.notSets = {}
    /\ entity.selector # None /\ entity.namespaces = None =>
          \A pod \in entity.selector \ {None} : home \in {None, NamespaceOf[pod]}

\* Such criteria are read as Calico means them.
LEMMA EntityAgrees ==
  ASSUME NEW entity, NEW home, NEW read, Clear(entity, home, read), NEW pod \in Pods,
         NEW service, service = None \/ service.vip \in VIPs \cup {None}
  PROVE  calicoEntityMatchesPod(entity, Peer(pod, NamespaceOf[pod]), service, read)
           <=> CalicoEntityHolds(entity, home, pod)
  <1> DEFINE peer == Peer(pod, NamespaceOf[pod])
             addresses == peer.addresses \cup (IF service = None THEN {} ELSE {service.vip})
  <1>1. peer.pod = pod /\ peer.namespace = NamespaceOf[pod] /\ pod # None
    BY WorldAssumption DEF Peer
  <1>2. pod \in addresses /\ addresses \subseteq {pod, None} \cup VIPs
    BY <1>1 DEF Peer
  <1>3. None \notin Address
    BY WorldAssumption DEF Address
  <1>4. /\ entity.nets = None \/ entity.nets \subseteq Address
        /\ entity.notNets \subseteq Address /\ entity.notSets \subseteq Address
    BY DEF Clear, Entity, Optional
  <1>5. \A S : S \subseteq Address /\ S \cap VIPs = {} => (S \cap addresses # {} <=> pod \in S)
    BY <1>2, <1>3
  <1>6. /\ entity.nets # None => (entity.nets \cap addresses # {} <=> pod \in entity.nets)
        /\ entity.notNets \cap addresses = {} <=> pod \notin entity.notNets
        /\ (read.sets /\ entity.notSets \cap addresses # {}) <=> pod \in entity.notSets
    BY <1>4, <1>5 DEF Clear
  <1>7. calicoServicesMatch(entity, service)
    BY DEF calicoServicesMatch, Clear
  <1>8. calicoServiceAccountMatches(entity, peer, read) <=> (entity.accounts # None => pod \in entity.accounts)
    BY <1>1 DEF calicoServiceAccountMatches, Clear
  <1>9. entity.sets = {} /\ ~(read.sets /\ entity.sets \cap addresses # {})
    BY DEF Clear
  <1>10. entity.namespaces = None /\ entity.selector # None /\ pod \in entity.selector => home \in {None, NamespaceOf[pod]}
    BY <1>1 DEF Clear
  <1>11. calicoEntityMatchesPod(entity, peer, service, read) <=>
           /\ entity.nets # None => entity.nets \cap addresses # {}
           /\ entity.notNets \cap addresses = {}
           /\ calicoServicesMatch(entity, service)
           /\ calicoServiceAccountMatches(entity, peer, read)
           /\ \/ entity.selector # None /\ (read.sets /\ entity.sets \cap addresses # {})
              \/ /\ entity.namespaces # None => peer.namespace \in entity.namespaces
                 /\ entity.selector # None => peer.pod \in entity.selector
                 /\ entity.notSelector # None =>
                       peer.pod \notin entity.notSelector /\ ~(read.sets /\ entity.notSets \cap addresses # {})
    BY Zenon DEF calicoEntityMatchesPod
  <1> HIDE DEF addresses, peer
  <1>12. calicoEntityMatchesPod(entity, peer, service, read) <=>
           /\ entity.nets # None => pod \in entity.nets
           /\ pod \notin entity.notNets
           /\ entity.accounts # None => pod \in entity.accounts
           /\ entity.namespaces # None => NamespaceOf[pod] \in entity.namespaces
           /\ entity.selector # None => pod \in entity.selector
           /\ entity.notSelector # None => pod \notin entity.notSelector /\ pod \notin entity.notSets
    BY <1>1, <1>6, <1>7, <1>8, <1>9, <1>11
  <1>13. CalicoEntityHolds(entity, home, pod) <=>
           /\ entity.nets # None => pod \in entity.nets
           /\ pod \notin entity.notNets
           /\ entity.accounts # None => pod \in entity.accounts
           /\ entity.namespaces # None => NamespaceOf[pod] \in entity.namespaces
           /\ entity.selector # None => pod \in entity.selector
           /\ entity.notSelector # None => pod \notin entity.notSelector /\ pod \notin entity.notSets
    BY <1>9, <1>10 DEF CalicoEntityHolds
  <1> QED
    BY <1>12, <1>13 DEF peer

\* An empty entity says nothing.
LEMMA AnyHolds ==
  ASSUME NEW home, NEW pod
  PROVE  CalicoEntityHolds(AnyEntity, home, pod)
  <1>1. /\ AnyEntity.nets = None /\ AnyEntity.notNets = {} /\ AnyEntity.accounts = None
        /\ AnyEntity.namespaces = None /\ AnyEntity.selector = None /\ AnyEntity.notSelector = None
    BY DEF AnyEntity
  <1> QED
    BY <1>1 DEF CalicoEntityHolds

\* Ports are numbers, or numbers in text.
Counted(entity) ==
    /\ entity \in Entity
    /\ entity.ports = {} => entity.notPorts = {}
    /\ \A token \in entity.notPorts \cup (IF entity.ports = None THEN {} ELSE entity.ports) :
          token.name = None /\ (token.text => token.min = token.max)

LEMMA PortsAgree ==
  ASSUME NEW entity, Counted(entity), NEW number \in Nat, NEW candidates, candidates # {},
         \A c \in candidates : c.number = number
  PROVE  calicoEntityPortsMatch(entity, candidates) <=> CalicoPortsHold(entity, number)
  <1> DEFINE Holds(token) == token.name = None /\ token.min <= number /\ number <= token.max
             ports == IF entity.ports = None THEN {} ELSE entity.ports
  <1>1. PortNumber \subseteq Nat
    <2>1. MaxPort \in Nat
      BY DEF MaxPort
    <2> QED
      BY <2>1 DEF PortNumber
  <1>2. \A token \in entity.notPorts \cup ports :
           token.min \in Nat /\ token.max \in Nat /\ token.name = None /\ (token.text => token.min = token.max)
    <2>1. entity.notPorts \cup ports \subseteq PortToken
      BY DEF Counted, Entity, Optional
    <2> QED
      BY <1>1, <2>1 DEF Counted, PortToken
  <1>3. \A token \in entity.notPorts \cup ports : \A c \in candidates : portTokenMatches(token, c) <=> Holds(token)
    BY <1>2 DEF portTokenMatches
  <1>4. calicoEntityPortsMatch(entity, candidates) <=>
           \/ candidates = {} \/ entity.ports = {}
           \/ \E c \in candidates :
                 /\ entity.ports # None => \E token \in entity.ports : portTokenMatches(token, c)
                 /\ \A token \in entity.notPorts : ~portTokenMatches(token, c)
    BY Zenon DEF calicoEntityPortsMatch
  <1>5. CalicoPortsHold(entity, number) <=>
           /\ entity.ports \notin {None, {}} => \E token \in entity.ports : Holds(token)
           /\ \A token \in entity.notPorts : ~Holds(token)
    BY DEF CalicoPortsHold
  <1>6. entity.ports = {} => entity.notPorts = {}
    BY DEF Counted
  <1> HIDE DEF Holds
  <1>7. CASE entity.ports = {}
    BY <1>4, <1>5, <1>6, <1>7
  <1>8. CASE entity.ports # {} /\ entity.ports = None
    BY <1>3, <1>4, <1>5, <1>8
  <1>9. CASE entity.ports # {} /\ entity.ports # None
    <2>1. ports = entity.ports
      BY <1>9
    <2>2. \A c \in candidates :
            (\E token \in entity.ports : portTokenMatches(token, c)) <=> \E token \in entity.ports : Holds(token)
      BY <1>3, <2>1
    <2>3. \A c \in candidates :
            (\A token \in entity.notPorts : ~portTokenMatches(token, c)) <=> \A token \in entity.notPorts : ~Holds(token)
      BY <1>3
    <2> HIDE DEF ports
    <2> QED
      BY <1>4, <1>5, <1>9, <2>2, <2>3
  <1> QED
    BY <1>7, <1>8, <1>9


\* A rule of one direction is read as Calico means it, for one pod on each side.
LEMMA RuleAgrees ==
  ASSUME NEW rule \in CalicoRule, NEW home, NEW direction \in {"egress", "ingress"}, NEW path,
         NEW source \in Pods, NEW target \in Pods, NEW number \in Nat,
         Clear(rule.source, home, path.read), Clear(rule.destination, home, path.read),
         Counted(rule.destination), Counted(rule.source),
         direction = "ingress" =>
             /\ rule.source.ports \in {None, {}} /\ rule.source.notPorts = {}
             /\ rule.destination.ports \in {None, {}} /\ rule.destination.notPorts = {},
         path.source = Peer(source, NamespaceOf[source]),
         path.targets = {Peer(target, NamespaceOf[target])},
         path.service = None \/ path.service.vip \in VIPs \cup {None},
         path.candidates # {}, \A c \in path.candidates : c.number = number
  PROVE  ruleMatchesPath(rule, direction, path) <=> CalicoRuleHolds(rule, home, source, target, number)
  <1>1. calicoEntityMatchesPod(rule.source, path.source, None, path.read) <=> CalicoEntityHolds(rule.source, home, source)
    <2> DEFINE service == None
    <2>1. service = None \/ service.vip \in VIPs \cup {None}
      OBVIOUS
    <2>2. calicoEntityMatchesPod(rule.source, Peer(source, NamespaceOf[source]), service, path.read)
             <=> CalicoEntityHolds(rule.source, home, source)
      <3> HIDE DEF service
      <3> QED
        BY <2>1, EntityAgrees
    <2> QED
      BY <2>2
  <1>2. calicoEntityMatchesPod(rule.destination, Peer(target, NamespaceOf[target]), path.service, path.read)
          <=> CalicoEntityHolds(rule.destination, home, target)
    BY EntityAgrees
  <1>3. calicoEntityPortsMatch(PeerEntity(rule, direction), path.candidates) <=> CalicoPortsHold(rule.destination, number)
    <2>1. CASE direction = "egress"
      <3>1. PeerEntity(rule, direction) = rule.destination
        BY <2>1 DEF PeerEntity
      <3> QED
        BY <3>1, PortsAgree
    <2>2. CASE direction = "ingress"
      <3>1. PeerEntity(rule, direction) = rule.source
        BY <2>2 DEF PeerEntity
      <3>2. CalicoPortsHold(rule.source, number) /\ CalicoPortsHold(rule.destination, number)
        BY <2>2 DEF CalicoPortsHold
      <3>3. calicoEntityPortsMatch(rule.source, path.candidates) <=> CalicoPortsHold(rule.source, number)
        BY PortsAgree
      <3> QED
        BY <3>1, <3>2, <3>3
    <2> QED
      BY <2>1, <2>2
  <1>4. rule.source = AnyEntity => CalicoEntityHolds(rule.source, home, source)
    BY AnyHolds
  <1>5. rule.destination = AnyEntity => CalicoEntityHolds(rule.destination, home, target)
    BY AnyHolds
  <1>6. ruleMatchesPath(rule, direction, path) <=>
          /\ rule.protocol \in {"none", "tcp"}
          /\ calicoEntityPortsMatch(PeerEntity(rule, direction), path.candidates)
          /\ rule.source = AnyEntity \/ calicoEntityMatchesPod(rule.source, path.source, None, path.read)
          /\ \/ rule.destination = AnyEntity
             \/ calicoEntityMatchesPod(rule.destination, Peer(target, NamespaceOf[target]), path.service, path.read)
    BY DEF ruleMatchesPath, calicoRuleProtocolMatches
  <1> QED
    BY <1>1, <1>2, <1>3, <1>4, <1>5, <1>6 DEF CalicoRuleHolds

\* The first of the rules that hold, <<policy, index>>, and what they do.
ActionOf(h, direction) == h[1][direction][h[2]].action
Leads(h, hits) == \A g \in hits : h[1].order < g[1].order \/ (h[1] = g[1] /\ h[2] <= g[2])
LeadingActions(hits, direction) == {ActionOf(h, direction) : h \in {g \in hits : Leads(g, hits)}}

\* Where the orders tell the policies apart, one rule is the first.
LEMMA OneLeads ==
  ASSUME NEW policies \in SUBSET CalicoPolicyObject, NEW hits, hits # {},
         \A h \in hits : \E p \in policies : \E i \in Nat : h = <<p, i>>,
         \A p, q \in policies : p.order = q.order => p = q
  PROVE  \E h \in hits : Leads(h, hits) /\ \A g \in hits : Leads(g, hits) => g = h
  <1> DEFINE orders == {h[1].order : h \in hits}
  <1>1. \A h \in hits : h[1] \in policies /\ h[1].order \in Nat /\ h[2] \in Nat /\ h = <<h[1], h[2]>>
    BY DEF CalicoPolicyObject
  <1>2. orders \in SUBSET Nat /\ orders # {}
    BY <1>1
  <1>3. PICK o \in orders : \A y \in orders : o <= y
    <2> HIDE DEF orders
    <2> QED
      BY <1>2, LeastNat
  <1> DEFINE indexes == {h[2] : h \in {g \in hits : g[1].order = o}}
  <1>4. indexes \in SUBSET Nat /\ indexes # {}
    BY <1>1, <1>3
  <1>5. PICK i \in indexes : \A y \in indexes : i <= y
    <2> HIDE DEF indexes
    <2> QED
      BY <1>4, LeastNat
  <1>6. PICK h \in hits : h[1].order = o /\ h[2] = i
    BY <1>5
  <1>7. \A g \in hits : o <= g[1].order /\ (g[1].order = o => g[1] = h[1] /\ i <= g[2])
    BY <1>1, <1>3, <1>5, <1>6
  <1>8. Leads(h, hits)
    BY <1>1, <1>6, <1>7 DEF Leads
  <1>9. ASSUME NEW g \in hits, Leads(g, hits) PROVE g = h
    <2>1. g[1].order < h[1].order \/ (g[1] = h[1] /\ g[2] <= h[2])
      BY <1>9 DEF Leads
    <2>2. h[1].order < g[1].order \/ (h[1] = g[1] /\ h[2] <= g[2])
      BY <1>8 DEF Leads
    <2>3. g[1] = h[1] /\ g[2] = h[2]
      BY <1>1, <2>1, <2>2
    <2> QED
      BY <1>1, <2>3
  <1> QED
    BY <1>8, <1>9

\* The policies are of one tier, and their orders tell them apart.
Ordered(policies) == \A p, q \in policies : p.tierOrder = q.tierOrder /\ (p.order = q.order => p = q)

\* What is said where the first rules have these actions.
FirstStatus(policies, actions, fallback) ==
    IF policies = {} THEN OrElse(fallback, "PASS")
    ELSE IF actions = {"pass"} THEN OrElse(fallback, "WARN")
    ELSE IF actions = {"allow"} THEN "PASS" ELSE "FAIL"

\* The match that the code takes in one tier is that rule.
LEMMA FirstDecides ==
  ASSUME NEW policies \in SUBSET CalicoPolicyObject, NEW direction \in {"egress", "ingress"},
         NEW applying, NEW hits, NEW fallback, NEW final, final = {"allow", "deny"},
         Ordered(policies),
         \A h : h \in hits <=> \E p \in policies : \E i \in DOMAIN p[direction] :
                    h = <<p, i>> /\ p[direction][i] \in applying /\ p[direction][i].action # "log"
  PROVE  DirectionStatus(policies, RuleMatches(policies, direction, applying, final), fallback)
           = FirstStatus(policies, LeadingActions(hits, direction), fallback)
  <1> DEFINE Hits(p) == {i \in DOMAIN p[direction] : p[direction][i] \in applying /\ p[direction][i].action # "log"}
             Reached(p) == {i \in Hits(p) : \A j \in Hits(p) : j < i => p[direction][j].action \notin final}
             Match(p, i) == [tierOrder |-> p.tierOrder, order |-> p.order, index |-> i, policy |-> p.name,
                             action |-> p[direction][i].action]
             matches == RuleMatches(policies, direction, applying, final)
  <1>1. matches = UNION {{Match(p, i) : i \in Reached(p)} : p \in policies}
    BY DEF RuleMatches
  <1>2. /\ \A h \in hits : \E p \in policies : \E i \in Hits(p) : h = <<p, i>>
        /\ \A p \in policies : \A i \in Hits(p) : <<p, i>> \in hits
    OBVIOUS
  <1>3. \A p \in policies : /\ p.order \in Nat /\ p.tierOrder \in Nat /\ p.name \in Nat
                            /\ \A i \in DOMAIN p[direction] : i \in Nat
    <2>1. \A p \in policies : p.egress \in Seq(CalicoRule) /\ p.ingress \in Seq(CalicoRule)
      BY DEF CalicoPolicyObject
    <2>2. \A p \in policies : p[direction] \in Seq(CalicoRule)
      BY <2>1
    <2>3. \A s \in Seq(CalicoRule) : \A i \in DOMAIN s : i \in Nat
      OBVIOUS
    <2> QED
      BY <2>2, <2>3 DEF CalicoPolicyObject
  <1>4. CASE hits = {}
    <2>1. \A p \in policies : Hits(p) = {}
      BY <1>2, <1>4
    <2>2. matches = {}
      BY <1>1, <2>1
    <2>3. LeadingActions(hits, direction) = {}
      BY <1>4 DEF LeadingActions
    <2>4. {} # {"pass"} /\ {} # {"allow"}
      OBVIOUS
    <2> QED
      BY <2>2, <2>3, <2>4 DEF DirectionStatus, FirstStatus
  <1>5. CASE hits # {}
    <2> HIDE DEF Hits
    <2>1. PICK h \in hits : Leads(h, hits) /\ \A g \in hits : Leads(g, hits) => g = h
      <3>1. \A g \in hits : \E p \in policies : \E i \in Nat : g = <<p, i>>
        BY <1>2, <1>3 DEF Hits
      <3> QED
        BY <1>5, <3>1, OneLeads DEF Ordered
    <2>2. PICK p \in policies : \E i \in Hits(p) : h = <<p, i>>
      BY <1>2
    <2>3. PICK i \in Hits(p) : h = <<p, i>>
      BY <2>2
    <2> DEFINE first == Match(p, i)
    <2>4. \A q \in policies : \A j \in Hits(q) : p.order < q.order \/ (p = q /\ i <= j)
      <3> SUFFICES ASSUME NEW q \in policies, NEW j \in Hits(q) PROVE p.order < q.order \/ (p = q /\ i <= j)
        OBVIOUS
      <3>1. <<q, j>> \in hits
        BY <1>2
      <3> QED
        BY <2>1, <2>3, <3>1 DEF Leads
    <2>5. i \in Reached(p)
      <3>1. \A j \in Hits(p) : ~(j < i)
        BY <1>3, <2>4 DEF Hits
      <3> QED
        BY <2>3, <3>1
    <2>6. first \in matches
      BY <1>1, <2>5
    <2>7. \A m \in matches : /\ m.tierOrder = first.tierOrder /\ ~SortedBefore(m, first)
                             /\ m = first \/ SortedBefore(first, m)
      <3> SUFFICES ASSUME NEW q \in policies, NEW j \in Reached(q)
                   PROVE  LET m == Match(q, j)
                          IN  /\ m.tierOrder = first.tierOrder /\ ~SortedBefore(m, first)
                              /\ m = first \/ SortedBefore(first, m)
        BY <1>1
      <3>1. p.order < q.order \/ (p = q /\ i <= j)
        BY <2>4
      <3>2. i \in Nat /\ j \in Nat /\ p.order \in Nat /\ q.order \in Nat /\ p.name \in Nat /\ q.name \in Nat
            /\ p.tierOrder = q.tierOrder /\ p.tierOrder \in Nat
        BY <1>3, <2>3 DEF Hits, Ordered
      <3> QED
        BY <3>1, <3>2 DEF SortedBefore
    <2>8. TierFirsts(matches) = {first}
      <3> HIDE DEF first, matches
      <3>1. ~SortedBefore(first, first)
        BY <2>6, <2>7
      <3> QED
        BY <2>6, <2>7, <3>1 DEF TierFirsts
    <2>9. FirstOf({first}) = first
      <3> HIDE DEF first
      <3> QED
        BY <2>6, <2>7 DEF FirstOf
    <2>10. LeadingActions(hits, direction) = {first.action}
      <3> DEFINE led == {g \in hits : Leads(g, hits)}
      <3>1. led = {h}
        BY <2>1
      <3>2. ActionOf(h, direction) = first.action
        BY <2>3 DEF ActionOf
      <3>3. LeadingActions(hits, direction) = {ActionOf(g, direction) : g \in led}
        BY DEF LeadingActions
      <3> HIDE DEF first, led
      <3> QED
        BY <3>1, <3>2, <3>3
    <2>11. policies # {} /\ matches # {}
      BY <2>2, <2>6
    <2> DEFINE decisive == {m \in TierFirsts(matches) : m.action # "pass"}
    <2>12. DirectionStatus(policies, matches, fallback)
             = IF decisive = {} THEN OrElse(fallback, "WARN")
               ELSE IF FirstOf(decisive).action = "allow" THEN "PASS" ELSE "FAIL"
      BY <2>11 DEF DirectionStatus
    <2> HIDE DEF first, matches
    <2>13. CASE first.action = "pass"
      <3>1. decisive = {}
        BY <2>8, <2>13
      <3> QED
        BY <2>10, <2>11, <2>12, <2>13, <3>1 DEF matches, FirstStatus
    <2>14. CASE first.action # "pass"
      <3>1. decisive = {first}
        BY <2>8, <2>14
      <3>2. {first.action} # {"pass"} /\ ({first.action} = {"allow"} <=> first.action = "allow")
        BY <2>14
      <3> HIDE DEF decisive
      <3> QED
        BY <2>9, <2>10, <2>11, <2>12, <3>1, <3>2 DEF matches, FirstStatus
    <2> QED
      BY <2>13, <2>14
  <1> QED
    BY <1>4, <1>5


\* The number of a named target port is that of a container port with the name.
LEMMA NamedTargetIs ==
  ASSUME NEW p, NEW pods \in Seq(Pods)
  PROVE  NamedTargetNumber(p, pods) \in {p.port} \cup {c.number : c \in {d \in PortsOf(pods) : d.name = p.target}}
  <1> DEFINE ss == [i \in DOMAIN pods |-> ContainerPorts[pods[i]]]
             all == FlattenSeq(ss)
             named == {i \in DOMAIN all : all[i].name = p.target}
  <1>1. ss \in Seq(Seq(ContainerPort))
    <2>1. \A i \in DOMAIN pods : ContainerPorts[pods[i]] \in Seq(ContainerPort)
      BY ElementType, WorldAssumption
    <2>2. DOMAIN pods = 1..Len(pods) /\ Len(pods) \in Nat
      OBVIOUS
    <2> QED
      BY <2>1, <2>2
  <1>2. all \in Seq(ContainerPort) /\ \A x : x \in ToSet(all) <=> \E i \in DOMAIN ss : x \in ToSet(ss[i])
    <2> HIDE DEF ss
    <2> QED
      BY <1>1, FlattenMembers
  <1>3. ToSet(all) \subseteq PortsOf(pods)
    <2>1. \A i \in DOMAIN pods : ToSet(ContainerPorts[pods[i]]) \subseteq PortsOf(pods)
      BY DEF PortsOf, ToSet
    <2> HIDE DEF all
    <2> QED
      BY <1>2, <2>1
  <1>4. NamedTargetNumber(p, pods) = IF named = {} THEN p.port ELSE all[Max(named)].number
    BY DEF NamedTargetNumber
  <1> HIDE DEF all
  <1>5. named # {} => Max(named) \in named
    <2>1. named \in SUBSET 1..Len(all) /\ Len(all) \in Nat
      BY <1>2
    <2> HIDE DEF named
    <2> QED
      BY <2>1, GreatestUpTo
  <1>6. \A i \in named : all[i] \in PortsOf(pods) /\ all[i].name = p.target
    BY <1>3 DEF ToSet
  <1> HIDE DEF named
  <1> QED
    BY <1>4, <1>5, <1>6

\* The ports that the code asks about are the one port of the path.
LEMMA PathCandidatesAre ==
  ASSUME NEW service \in Service, NEW targets \in Seq(Pods), service.chosen # 0, service.chosen <= 1,
         Len(service.ports) = 1, \E number : Candidates(service, targets) = {number}
  PROVE  /\ calicoPathPortCandidates(Candidates(service, targets), service, targets) # {}
         /\ \A c \in calicoPathPortCandidates(Candidates(service, targets), service, targets) :
               c.number \in Candidates(service, targets)
  <1> DEFINE ports == Candidates(service, targets)
             p == Chosen(service)
             plain == {PortCandidate(n, None) : n \in ports}
             named == {PortCandidate(q.port, q.name) : q \in {r \in {p} : r.port \in ports /\ r.name # None}}
             aimed == {PortCandidate(NamedTargetNumber(q, targets), q.target) : q \in {r \in {p} : r.target \in PortNames}}
             container == {PortCandidate(c.number, c.name) :
                              c \in {d \in PortsOf(targets) : d.name # None /\ d.number \in ports}}
  <1>0. PICK number : ports = {number}
    OBVIOUS
  <1>1. service # None /\ service.chosen = 1
    <2>1. service.chosen \in Nat
      BY DEF Service
    <2> QED
      BY <1>0, <2>1 DEF HasChosen, Candidates
  <1>2. ToSet(service.ports) = {p}
    BY <1>1 DEF ToSet, Chosen, Service
  <1>3. p.port = number /\ TargetNumbers(p.target, targets) \subseteq {number}
    BY <1>0, <1>1 DEF Candidates, HasChosen
  <1>4. p.target \in PortNames => NamedTargetNumber(p, targets) = number
    BY <1>3, NamedTargetIs DEF TargetNumbers
  <1>5. \A c \in plain \cup named \cup aimed \cup container : c.number = number
    BY <1>0, <1>4 DEF PortCandidate
  <1>6. plain # {}
    BY <1>0
  <1>7. calicoPathPortCandidates(ports, service, targets) = plain \cup named \cup aimed \cup container
    BY <1>1, <1>2 DEF calicoPathPortCandidates
  <1> HIDE DEF ports, plain, named, aimed, container
  <1> QED
    BY <1>0, <1>5, <1>6, <1>7 DEF ports

\* What the code says of the policies that select a pod.
SaidFor(pod, policies, direction, path, fallback) ==
    calicoDirectionDecision(policiesFor(policies, NamespaceOf[pod], {pod}, direction), direction, path, fallback).status

\* Each rule is read as Calico means it.
ReadAlike(policies, direction, path, source, target, number) ==
    \A p \in policies : \A rule \in ToSet(p[direction]) :
        ruleMatchesPath(rule, direction, path) <=> CalicoRuleHolds(rule, p.namespace, source, target, number)

\* The code decides by the rule that comes first.
LEMMA SaysFirst ==
  ASSUME NEW policies \in SUBSET CalicoPolicyObject, NEW direction \in {"egress", "ingress"}, NEW path, NEW fallback,
         NEW source, NEW target, NEW number,
         Ordered(policies), ReadAlike(policies, direction, path, source, target, number),
         NEW subject, subject = IF direction = "egress" THEN source ELSE target
  PROVE  SaidFor(subject, policies, direction, path, fallback)
           = CalicoSays(policies, direction, source, target, number, fallback)
  <1> DEFINE selecting == policiesFor(policies, NamespaceOf[subject], {subject}, direction)
             applying == {rule \in RulesOf(selecting, direction) : ruleMatchesPath(rule, direction, path)}
             hits == UNION {{<<p, i>> : i \in {j \in DOMAIN p[direction] :
                        p[direction][j] \in applying /\ p[direction][j].action # "log"}} : p \in selecting}
             rules == UNION {{<<p, i>> : i \in DOMAIN p[direction]} : p \in selecting}
             Rule(h) == h[1][direction][h[2]]
             holding == {h \in rules : /\ Rule(h).action # "log"
                                       /\ CalicoRuleHolds(Rule(h), h[1].namespace, source, target, number)}
             First(h) == \A g \in holding : h[1].order < g[1].order \/ (h[1] = g[1] /\ h[2] <= g[2])
             actions == {Rule(h).action : h \in {g \in holding : First(g)}}
             final == {"allow", "deny"}
  <1>1. selecting \subseteq policies
    BY DEF policiesFor
  <1>2. \A p \in selecting : \A i \in DOMAIN p[direction] :
           /\ p[direction][i] \in ToSet(p[direction]) /\ p[direction][i] \in RulesOf(selecting, direction)
    <2> HIDE DEF selecting
    <2> QED
      BY DEF ToSet, RulesOf
  <1>3. \A p \in selecting : \A i \in DOMAIN p[direction] :
           p[direction][i] \in applying <=> CalicoRuleHolds(p[direction][i], p.namespace, source, target, number)
    <2> HIDE DEF selecting
    <2> QED
      BY <1>1, <1>2 DEF ReadAlike
  <1>4. hits = holding
    <2> HIDE DEF applying, selecting
    <2>1. \A h : h \in hits <=> \E p \in selecting : \E i \in DOMAIN p[direction] :
                                   h = <<p, i>> /\ p[direction][i] \in applying /\ p[direction][i].action # "log"
      OBVIOUS
    <2>2. \A h : h \in holding <=> \E p \in selecting : \E i \in DOMAIN p[direction] :
                                   /\ h = <<p, i>> /\ p[direction][i].action # "log"
                                   /\ CalicoRuleHolds(p[direction][i], p.namespace, source, target, number)
      OBVIOUS
    <2> HIDE DEF hits, holding
    <2>3. \A h : h \in hits <=> h \in holding
      BY <1>3, <2>1, <2>2
    <2> QED
      BY <2>3
  <1>5. LeadingActions(holding, direction) = actions
    BY DEF LeadingActions, Leads, ActionOf
  <1>6. CalicoSays(policies, direction, source, target, number, fallback)
          = FirstStatus(selecting, actions, fallback)
    BY DEF CalicoSays, FirstStatus
  <1>7. DirectionStatus(selecting, RuleMatches(selecting, direction, applying, final), fallback)
          = FirstStatus(selecting, LeadingActions(hits, direction), fallback)
    <2>1. selecting \in SUBSET CalicoPolicyObject /\ Ordered(selecting)
      BY <1>1 DEF Ordered
    <2>2. \A h : h \in hits <=> \E p \in selecting : \E i \in DOMAIN p[direction] :
                                   h = <<p, i>> /\ p[direction][i] \in applying /\ p[direction][i].action # "log"
      <3> HIDE DEF applying, selecting
      <3> QED
        OBVIOUS
    <2>3. final = {"allow", "deny"}
      OBVIOUS
    <2> HIDE DEF selecting, applying, hits, final
    <2> QED
      BY <2>1, <2>2, <2>3, FirstDecides
  <1>8. \A check, status : Judged(check, status).status = status
    BY DEF Judged, Insight
  <1>9. calicoDirectionDecision(selecting, direction, path, fallback).status
          = DirectionStatus(selecting, RuleMatches(selecting, direction, applying, final), fallback)
    BY <1>8 DEF calicoDirectionDecision
  <1> HIDE DEF selecting, applying, hits, holding, actions
  <1> QED
    BY <1>4, <1>5, <1>6, <1>7, <1>9 DEF selecting, SaidFor


\* Which decisions of the layer of Calico the verdicts are.
CalicoPath ==
    [source |-> Peer(world.source, NamespaceOf[world.source]),
     targets |-> {Peer(pod, world.namespace) : pod \in ToSet(Targets)}, service |-> world.service,
     candidates |-> calicoPathPortCandidates(ServicePorts, world.service, Targets), read |-> access.calicoRead]

LEMMA CalicoReported ==
  ASSUME NEW i \in CalicoInsights, world.source # None
  PROVE  LET all == CalicoListed(world.calico, {world.namespace, NamespaceOf[world.source]}, access.calico.global = "read")
         IN  /\ i.check = "Calico-egress" =>
                   i = calicoDirectionDecision(policiesFor(all, NamespaceOf[world.source], {world.source}, "egress"),
                                               "egress", CalicoPath, world.fallback.egress)
             /\ i.check = "Calico-ingress" =>
                   i = calicoDirectionDecision(policiesFor(all, world.namespace, ToSet(Targets), "ingress"),
                                               "ingress", CalicoPath, world.fallback.ingress)
  <1> DEFINE namespace == world.namespace
             source == world.source
             home == IF source = None THEN {namespace} ELSE {namespace, NamespaceOf[source]}
             all == CalicoListed(world.calico, home, access.calico.global = "read")
             targetPolicies == policiesFor(all, namespace, ToSet(Targets), "ingress")
             sourcePolicies == policiesFor(all, NamespaceOf[source], {source}, "egress")
             out == calicoDirectionDecision(sourcePolicies, "egress", CalicoPath, world.fallback.egress)
             into == calicoDirectionDecision(targetPolicies, "ingress", CalicoPath, world.fallback.ingress)
             global == IF access.calico.global = "error" THEN {Plain("Calico-global-policies", "WARN")} ELSE {}
             unsupported == UNION {Unsupported(policy) : policy \in all}
             preview == IF world.staged THEN {Plain("Calico-staged", "INFO")} ELSE {}
             malformed == IF Malformed(all, namespace) = {} THEN {} ELSE {Insight("Calico-parse", "WARN", "Calico")}
             selected == {Plain("Calico-target-policies", IF targetPolicies = {} THEN "INFO" ELSE "WARN")}
             chosen == Plain("Calico-source-policies", IF sourcePolicies = {} THEN "PASS" ELSE "WARN")
             resolvers == analyzeDNSEgress(sourcePolicies, DNS, world.fallback.dns, access.calicoRead)
             others == global \cup unsupported \cup preview \cup malformed \cup selected \cup {chosen} \cup resolvers
                         \cup {Plain("Calico-policies", "WARN")}
  <1>1. home = {world.namespace, NamespaceOf[world.source]}
    OBVIOUS
  <1>2. out.check = "Calico-egress" /\ into.check = "Calico-ingress"
    BY DEF calicoDirectionDecision, Judged, Insight
  <1>3. \A j \in resolvers : j.check = "Calico-DNS"
    <2>1. ASSUME NEW matches, NEW fallback PROVE DNSDecision(matches, fallback).check = "Calico-DNS"
      BY DEF DNSDecision, Judged, Plain, Insight
    <2>2. \A status : Judged("Calico-DNS", status).check = "Calico-DNS" /\ Plain("Calico-DNS", status).check = "Calico-DNS"
      BY DEF Judged, Plain, Insight
    <2> QED
      BY <2>1, <2>2 DEF analyzeDNSEgress
  <1>4. \A policy : \A j \in Unsupported(policy) : j.check \notin {"Calico-egress", "Calico-ingress"}
    BY DEF Unsupported, Plain, Insight
  <1>5. \A j \in global \cup unsupported \cup preview \cup malformed \cup selected \cup {chosen} \cup {Plain("Calico-policies", "WARN")} :
           j.check \notin {"Calico-egress", "Calico-ingress"}
    <2> HIDE DEF all, targetPolicies, sourcePolicies
    <2> QED
      BY <1>4 DEF Plain, Insight
  <1>6. i \in {out, into} \cup others
    BY DEF CalicoInsights, CalicoAnalyze, CalicoPath
  <1> HIDE DEF out, into, resolvers, global, unsupported, preview, malformed, selected, chosen
  <1>7. (i.check = "Calico-egress" => i = out) /\ (i.check = "Calico-ingress" => i = into)
    BY <1>2, <1>3, <1>5, <1>6
  <1> QED
    BY <1>1, <1>7 DEF out, into

LEMMA CalicoDecisions ==
  ASSUME NEW i \in CalicoInsights, access.calico.global = "read", world.source # None, world.source \in Pods,
         \A pod \in ToSet(Targets) : NamespaceOf[pod] = world.namespace
  PROVE  /\ i.check = "Calico-egress" =>
               i = calicoDirectionDecision(policiesFor(world.calico, NamespaceOf[world.source], {world.source}, "egress"),
                                           "egress", CalicoPath, world.fallback.egress)
         /\ i.check = "Calico-ingress" =>
               i = calicoDirectionDecision(policiesFor(world.calico, world.namespace, ToSet(Targets), "ingress"),
                                           "ingress", CalicoPath, world.fallback.ingress)
  <1> DEFINE all == CalicoListed(world.calico, {world.namespace, NamespaceOf[world.source]}, access.calico.global = "read")
  <1>1. /\ policiesFor(all, world.namespace, ToSet(Targets), "ingress")
             = policiesFor(world.calico, world.namespace, ToSet(Targets), "ingress")
        /\ policiesFor(all, NamespaceOf[world.source], {world.source}, "egress")
             = policiesFor(world.calico, NamespaceOf[world.source], {world.source}, "egress")
    BY DEF policiesFor, policySelectsTarget, CalicoListed
  <1> HIDE DEF all
  <1> QED
    BY <1>1, CalicoReported DEF all

\* For one target pod the layer of Calico says what the first rule that holds says.
LEMMA CalicoSound ==
  ASSUME SaidInv
  PROVE  CalicoVerdictSound
  <1> DEFINE target == Targets[1]
             source == world.source
  <1>1. SUFFICES ASSUME OnePort, Len(Targets) = 1, CalicoReadable, NEW i \in report["service"], NEW number \in Numbers
                 PROVE  /\ i.check = "Calico-egress" =>
                             i.status = CalicoSays(world.calico, "egress", source, target, number, world.fallback.egress)
                        /\ i.check = "Calico-ingress" =>
                             i.status = CalicoSays(world.calico, "ingress", source, target, number, world.fallback.ingress)
    BY DEF CalicoVerdictSound
  <1>2. /\ world \in World /\ \A pod \in ToSet(Targets) : NamespaceOf[pod] = world.namespace
        /\ world.service.chosen <= Len(world.service.ports)
    BY CommandsAssumption DEF SaidInv, Targets
  <1>3. /\ source \in Pods /\ source # None /\ Targets \in Seq(Pods) /\ world.calico \in SUBSET CalicoPolicyObject
        /\ world.service \in Service
    BY <1>1, <1>2 DEF World, OnePort, Targets, HasChosen
  <1>4. target \in Pods /\ ToSet(Targets) = {target} /\ NamespaceOf[target] = world.namespace
    <2>0. Len(Targets) = 1 /\ DOMAIN Targets = 1..Len(Targets) /\ 1..1 = {1}
      BY <1>1, <1>3
    <2>1. DOMAIN Targets = {1} /\ Targets[1] \in Pods
      BY <1>3, <2>0, ElementType
    <2>2. ToSet(Targets) = {target}
      BY <2>1 DEF ToSet
    <2> QED
      BY <1>2, <2>1, <2>2
  <1>5. Numbers = {number} /\ ServicePorts = {number}
    BY <1>1 DEF OnePort
  <1>6. number \in Nat
    <2>1. MaxPort \in Nat
      BY DEF MaxPort
    <2>2. PortNumber \subseteq Nat
      BY <2>1 DEF PortNumber
    <2> QED
      BY <2>2, NumbersArePorts DEF SaidInv
  <1> DEFINE path == CalicoPath
             candidates == calicoPathPortCandidates(ServicePorts, world.service, Targets)
  <1>7. candidates # {} /\ \A c \in candidates : c.number = number
    <2>1. /\ world.service.chosen # 0 /\ Len(world.service.ports) = 1
          /\ world.service.chosen <= 1 /\ world.service.chosen \in Nat
      BY <1>1, <1>2, <1>3 DEF OnePort, HasChosen, Service
    <2>2. Candidates(world.service, Targets) = {number}
      BY <1>5 DEF ServicePorts
    <2>3. /\ calicoPathPortCandidates(Candidates(world.service, Targets), world.service, Targets) # {}
          /\ \A c \in calicoPathPortCandidates(Candidates(world.service, Targets), world.service, Targets) :
                c.number \in Candidates(world.service, Targets)
      BY <1>3, <2>1, <2>2, PathCandidatesAre
    <2> QED
      BY <2>2, <2>3 DEF ServicePorts
  <1>8. /\ path.source = Peer(source, NamespaceOf[source]) /\ path.targets = {Peer(target, NamespaceOf[target])}
        /\ path.service.vip \in VIPs \cup {None} /\ path.candidates = candidates /\ path.read = access.calicoRead
    <2>1. {Peer(pod, world.namespace) : pod \in ToSet(Targets)} = {Peer(target, NamespaceOf[target])}
      BY <1>4
    <2>2. world.service.vip \in VIPs \cup {None}
      BY <1>3 DEF Service
    <2> QED
      BY <2>1, <2>2 DEF CalicoPath
  <1>9. \A p, q \in world.calico : p.tierOrder = q.tierOrder /\ (p.order = q.order => p = q)
    BY <1>1 DEF CalicoReadable
  <1>10. ASSUME NEW p \in world.calico, NEW direction \in {"egress", "ingress"}, NEW rule \in ToSet(p[direction])
         PROVE  /\ rule \in CalicoRule
                /\ Clear(rule.source, p.namespace, access.calicoRead) /\ Clear(rule.destination, p.namespace, access.calicoRead)
                /\ Counted(rule.source) /\ Counted(rule.destination)
                /\ direction = "ingress" =>
                       /\ rule.source.ports \in {None, {}} /\ rule.source.notPorts = {}
                       /\ rule.destination.ports \in {None, {}} /\ rule.destination.notPorts = {}
    <2> DEFINE Tokens(entity) == entity.notPorts \cup (IF entity.ports = None THEN {} ELSE entity.ports)
               Pure(entity, home) ==
                   /\ entity.services = None /\ entity.sets = {} /\ ~entity.labelled
                   /\ entity.nets = None \/ entity.nets \cap VIPs = {}
                   /\ (entity.notNets \cup entity.notSets) \cap VIPs = {}
                   /\ access.calicoRead.sets \/ entity.notSets = {}
                   /\ entity.ports = {} => entity.notPorts = {}
                   /\ entity.selector # None /\ entity.namespaces = None =>
                         \A pod \in entity.selector \ {None} : home \in {None, NamespaceOf[pod]}
                   /\ \A token \in Tokens(entity) : token.name = None /\ (token.text => token.min = token.max)
    <2>1. rule \in CalicoRule
      <3>1. p.egress \in Seq(CalicoRule) /\ p.ingress \in Seq(CalicoRule)
        BY <1>3 DEF CalicoPolicyObject
      <3>2. p[direction] \in Seq(CalicoRule)
        BY <3>1
      <3> QED
        BY <3>2 DEF ToSet
    <2>2. rule.source \in Entity /\ rule.destination \in Entity
      BY <2>1 DEF CalicoRule
    <2>3. rule \in ToSet(p.ingress) \cup ToSet(p.egress)
      BY <1>10
    <2>4. Pure(rule.source, p.namespace) /\ Pure(rule.destination, p.namespace)
      BY <1>1, <2>3 DEF CalicoReadable
    <2>5. direction = "ingress" => Tokens(rule.source) \cup Tokens(rule.destination) = {}
      BY <1>1, <1>10 DEF CalicoReadable
    <2>6. ASSUME NEW entity \in Entity, Pure(entity, p.namespace)
          PROVE  Clear(entity, p.namespace, access.calicoRead) /\ Counted(entity)
      BY <2>6, Zenon DEF Clear, Counted
    <2> QED
      BY <2>1, <2>2, <2>4, <2>5, <2>6
  <1> HIDE DEF candidates, path, target, source
  <1>11. ASSUME NEW direction \in {"egress", "ingress"}
         PROVE  \A p \in world.calico : \A rule \in ToSet(p[direction]) :
                   ruleMatchesPath(rule, direction, path) <=> CalicoRuleHolds(rule, p.namespace, source, target, number)
    <2> SUFFICES ASSUME NEW p \in world.calico, NEW rule \in ToSet(p[direction])
                 PROVE  ruleMatchesPath(rule, direction, path) <=> CalicoRuleHolds(rule, p.namespace, source, target, number)
      OBVIOUS
    <2>1. /\ rule \in CalicoRule
          /\ Clear(rule.source, p.namespace, path.read) /\ Clear(rule.destination, p.namespace, path.read)
          /\ Counted(rule.source) /\ Counted(rule.destination)
          /\ direction = "ingress" =>
                 /\ rule.source.ports \in {None, {}} /\ rule.source.notPorts = {}
                 /\ rule.destination.ports \in {None, {}} /\ rule.destination.notPorts = {}
      BY <1>8, <1>10
    <2>2. path.candidates # {} /\ \A c \in path.candidates : c.number = number
      BY <1>7, <1>8
    <2> QED
      BY <1>3, <1>4, <1>6, <1>8, <2>1, <2>2, RuleAgrees
  <1>12. i.check \in {"Calico-egress", "Calico-ingress"} => i \in CalicoInsights
    BY DEF SaidInv, Decided, CalicoVerdicts
  <1>13. ASSUME NEW direction \in {"egress", "ingress"}, NEW fallback,
                NEW subject, subject = IF direction = "egress" THEN source ELSE target
         PROVE  SaidFor(subject, world.calico, direction, path, fallback)
                  = CalicoSays(world.calico, direction, source, target, number, fallback)
    <2>1. /\ world.calico \in SUBSET CalicoPolicyObject /\ Ordered(world.calico)
          /\ ReadAlike(world.calico, direction, path, source, target, number)
          /\ subject = IF direction = "egress" THEN source ELSE target
      BY <1>3, <1>9, <1>11, <1>13 DEF Ordered, ReadAlike
    <2> QED
      BY <2>1, SaysFirst
  <1>14. ASSUME i.check = "Calico-egress"
         PROVE  i.status = CalicoSays(world.calico, "egress", source, target, number, world.fallback.egress)
    <2>1. i = calicoDirectionDecision(policiesFor(world.calico, NamespaceOf[source], {source}, "egress"),
                                      "egress", path, world.fallback.egress)
      BY <1>1, <1>2, <1>3, <1>12, <1>14, CalicoDecisions DEF CalicoReadable, path, source
    <2> QED
      BY <1>13, <2>1 DEF SaidFor
  <1>15. ASSUME i.check = "Calico-ingress"
         PROVE  i.status = CalicoSays(world.calico, "ingress", source, target, number, world.fallback.ingress)
    <2>1. i = calicoDirectionDecision(policiesFor(world.calico, world.namespace, ToSet(Targets), "ingress"),
                                      "ingress", path, world.fallback.ingress)
      BY <1>1, <1>2, <1>3, <1>12, <1>15, CalicoDecisions DEF CalicoReadable, path, source
    <2>2. i = calicoDirectionDecision(policiesFor(world.calico, NamespaceOf[target], {target}, "ingress"),
                                      "ingress", path, world.fallback.ingress)
      BY <1>4, <2>1
    <2> QED
      BY <1>13, <2>2 DEF SaidFor
  <1> QED
    BY <1>14, <1>15


-------------------------------------------------------------------------------
(* What show blockers names, asked for the path of check service.          *)

\* Where an engine has been asked, its answer is in the report.
Gathered(layers, insights) ==
    pc \in layers \/ (exit["blockers"] # Running /\ report["blockers"] # {}) =>
        insights \subseteq report["blockers"]

BlockersInv ==
    /\ pc \in BlockersLayers \/ (exit["blockers"] # Running /\ report["blockers"] # {}) => world.source # None
    /\ Gathered(BlockersLayers \ {"blockers-native"}, NativeBlockers)
    /\ Gathered(BlockersLayers \ {"blockers-native", "blockers-calico"}, Or(CalicoBlockers, "Calico-analysis"))
    /\ Gathered({"blockers-conclude", "finish-blockers"}, Or(CiliumBlockers, "Cilium-analysis"))

LEMMA SameBlockers ==
  ASSUME UNCHANGED <<world, ask>>
  PROVE  /\ NativeBlockers' = NativeBlockers
         /\ Or(CalicoBlockers, "Calico-analysis")' = Or(CalicoBlockers, "Calico-analysis")
         /\ Or(CiliumBlockers, "Cilium-analysis")' = Or(CiliumBlockers, "Cilium-analysis")
  <1>1. /\ Subject' = Subject /\ ToPods' = ToPods /\ ToNamespace' = ToNamespace /\ ToService' = ToService
        /\ access' = access
    BY DEF Subject, ToPods, ToNamespace, ToService, SourceNamespace, Targets, access
  <1>2. NativeBlockers' = NativeBlockers
    BY <1>1 DEF NativeBlockers
  <1>3. CalicoBlockers' = CalicoBlockers /\ CiliumBlockers' = CiliumBlockers
    BY <1>1 DEF CalicoBlockers, CiliumBlockers
  <1> QED
    BY <1>2, <1>3 DEF Or

\* Steps outside of the layers of the command.
LEMMA ElsewhereTold ==
  ASSUME BlockersInv, UNCHANGED <<world, ask>>, report'["blockers"] = report["blockers"],
         exit'["blockers"] = exit["blockers"], pc' \notin BlockersLayers
  PROVE  BlockersInv'
  <1>1. pc' \notin {"blockers-conclude", "finish-blockers"}
    BY DEF BlockersLayers
  <1> QED
    BY <1>1, SameBlockers DEF BlockersInv, Gathered, BlockersLayers

LEMMA InitTold == Init => BlockersInv
  BY InitOpen DEF Init, OpenInv, BlockersInv, Gathered, ServiceLayers, BlockersLayers

\* Steps of other commands say nothing in this report.
LEMMA EgressElsewhere ==
  ASSUME OpenInv, Egress
  PROVE  /\ UNCHANGED <<world, ask>> /\ report'["blockers"] = report["blockers"]
         /\ exit'["blockers"] = exit["blockers"] /\ pc' \notin BlockersLayers
  <1>1. ASSUME NEW insights, NEW next, Says("egress", insights, next), next \notin BlockersLayers
        PROVE  /\ UNCHANGED <<world, ask>> /\ report'["blockers"] = report["blockers"]
               /\ exit'["blockers"] = exit["blockers"] /\ pc' \notin BlockersLayers
    BY <1>1 DEF Says, OpenInv, Commands
  <1>2. CASE egressSource
    BY <1>1, <1>2 DEF egressSource, BlockersLayers
  <1>3. CASE egressDNS \/ egressContext
    BY <1>1, <1>3 DEF egressDNS, egressContext, BlockersLayers
  <1>4. CASE egressURL
    BY <1>1, <1>4 DEF egressURL, BlockersLayers
  <1>5. CASE egressProbe
    BY <1>1, <1>5 DEF egressProbe, BlockersLayers
  <1>6. CASE egressEnd
    BY <1>6 DEF egressEnd, BlockersLayers
  <1>7. CASE finishEgress
    BY <1>7 DEF finishEgress, Finish, OpenInv, Commands, BlockersLayers
  <1> QED
    BY <1>2, <1>3, <1>4, <1>5, <1>6, <1>7 DEF Egress

LEMMA StepTold ==
  ASSUME BlockersInv, OpenInv, OpenInv', Next
  PROVE  BlockersInv'
  <1>1. CASE CheckService
    <2>1. pc' \in ServiceLayers \cup {"next"}
      BY <1>1 DEF CheckService, native, calico, host, cilium, finishService, Says, Finish, ServiceLayers
    <2> QED
      BY <2>1 DEF OpenInv, BlockersInv, Gathered, ServiceLayers, BlockersLayers
  <1>2. CASE Egress
    BY <1>2, EgressElsewhere, ElsewhereTold
  <1>3. ASSUME pc' \in BlockersLayers PROVE exit'["blockers"] = Running
    BY <1>3 DEF OpenInv, Open, Commands
  <1>4. CASE startBlockers
    <2>1. CASE pc' = "blockers-native"
      <3>1. exit'["blockers"] = Running /\ world'.source # None
        BY <1>3, <1>4, <2>1 DEF startBlockers, BlockersLayers
      <3> QED
        BY <2>1, <3>1 DEF BlockersInv, Gathered, BlockersLayers
    <2>2. CASE pc' = "done" /\ report' = report
      <3>1. report'["blockers"] = {}
        BY <1>4, <2>2 DEF OpenInv, startBlockers
      <3> QED
        BY <2>2, <3>1 DEF BlockersInv, Gathered, BlockersLayers
    <2> QED
      BY <1>4, <2>1, <2>2 DEF startBlockers
  <1>5. ASSUME NEW insights, NEW next \in BlockersLayers, Says("blockers", insights, next), pc \in BlockersLayers
        PROVE  /\ UNCHANGED <<world, ask>> /\ report'["blockers"] = report["blockers"] \cup insights
               /\ exit'["blockers"] = Running /\ world.source # None /\ pc' = next
    BY <1>3, <1>5 DEF Says, OpenInv, Commands, BlockersInv
  <1>6. CASE blockersNative
    <2>1. /\ UNCHANGED <<world, ask>> /\ report'["blockers"] = report["blockers"] \cup NativeBlockers
          /\ exit'["blockers"] = Running /\ world.source # None /\ pc' = "blockers-calico"
      BY <1>5, <1>6 DEF blockersNative, BlockersLayers
    <2> QED
      BY <2>1, SameBlockers DEF BlockersInv, Gathered, BlockersLayers
  <1>7. CASE blockersCalico
    <2>1. /\ UNCHANGED <<world, ask>>
          /\ report'["blockers"] = report["blockers"] \cup Or(CalicoBlockers, "Calico-analysis")
          /\ exit'["blockers"] = Running /\ world.source # None /\ pc' = "blockers-cilium"
      BY <1>5, <1>7 DEF blockersCalico, BlockersLayers
    <2>2. NativeBlockers \subseteq report["blockers"]
      BY <1>7 DEF blockersCalico, BlockersInv, Gathered, BlockersLayers
    <2> QED
      BY <2>1, <2>2, SameBlockers DEF BlockersInv, Gathered, BlockersLayers
  <1>8. CASE blockersCilium
    <2>1. /\ UNCHANGED <<world, ask>>
          /\ report'["blockers"] = report["blockers"] \cup Or(CiliumBlockers, "Cilium-analysis")
          /\ exit'["blockers"] = Running /\ world.source # None /\ pc' = "blockers-conclude"
      BY <1>5, <1>8 DEF blockersCilium, BlockersLayers
    <2>2. NativeBlockers \subseteq report["blockers"] /\ Or(CalicoBlockers, "Calico-analysis") \subseteq report["blockers"]
      BY <1>8 DEF blockersCilium, BlockersInv, Gathered, BlockersLayers
    <2> QED
      BY <2>1, <2>2, SameBlockers DEF BlockersInv, Gathered, BlockersLayers
  <1>9. ASSUME pc \in {"blockers-conclude", "finish-blockers"}
        PROVE  /\ world.source # None /\ NativeBlockers \subseteq report["blockers"]
               /\ Or(CalicoBlockers, "Calico-analysis") \subseteq report["blockers"]
               /\ Or(CiliumBlockers, "Cilium-analysis") \subseteq report["blockers"]
    BY <1>9 DEF BlockersInv, Gathered, BlockersLayers
  <1>10. CASE blockersConclude
    <2>1. PICK insights : Says("blockers", insights, "finish-blockers") /\ pc = "blockers-conclude"
      BY <1>10 DEF blockersConclude
    <2>2. /\ UNCHANGED <<world, ask>> /\ report["blockers"] \subseteq report'["blockers"]
          /\ exit'["blockers"] = Running /\ pc' = "finish-blockers"
      BY <1>5, <2>1 DEF BlockersLayers
    <2> QED
      BY <1>9, <2>1, <2>2, SameBlockers DEF BlockersInv, Gathered
  <1>11. CASE finishBlockers
    <2>1. UNCHANGED <<world, ask>> /\ report' = report /\ pc = "finish-blockers"
      BY <1>11 DEF finishBlockers, Finish
    <2> QED
      BY <1>9, <2>1, SameBlockers DEF BlockersInv, Gathered
  <1> QED
    BY <1>1, <1>2, <1>4, <1>6, <1>7, <1>8, <1>10, <1>11 DEF Next, Blockers


\* The question that is the path of check service.
SamePath ==
    /\ ask.direction = "egress" /\ ask.to = "service" /\ ask.numbers = ServicePorts /\ ask.names = {}
    /\ ask.numbers # {} /\ Targets # <<>> /\ world.source # None

LEMMA PathAsked ==
  ASSUME SamePath, world \in World
  PROVE  /\ Subject = world.source /\ ToPods = Targets /\ ToNamespace = world.namespace /\ ToService = world.service
         /\ world.source \in Pods /\ world.namespace \in Namespaces /\ world.namespace # None
         /\ NamespaceOf[world.source] \in Namespaces /\ NamespaceOf[world.source] # None
         /\ SourceNamespace = NamespaceOf[world.source]
  <1>1. world.source \in Pods /\ world.namespace \in Namespaces
    BY DEF SamePath, World
  <1>2. None \notin Namespaces /\ NamespaceOf[world.source] \in Namespaces
    BY <1>1, WorldAssumption
  <1> QED
    BY <1>1, <1>2 DEF SamePath, Subject, ToPods, ToNamespace, ToService, SourceNamespace

\* A default deny on the path is one for show blockers.
LEMMA NativeBlameTold ==
  ASSUME SamePath, world \in World, NEW i \in NativeInsights, i.check = "native-egress",
         i.status = "policy-ambiguous"
  PROVE  Insight("native-blockers", "FAIL", "native-default-deny") \in NativeBlockers
  <1> DEFINE home == NamespaceOf[world.source]
             mine == InNamespace(world.native, home)
             source == IF access.nativeSource = "read" \/ SourceNamespace = world.namespace
                       THEN InNamespace(world.native, SourceNamespace) ELSE {}
             Allows(rule) == EgressRuleAllows(rule, home, world.namespace, Targets, world.service, ServicePorts)
             Readable(namespace) == IF namespace = world.namespace THEN access.native = "read"
                                    ELSE access.nativeSource = "read"
             read == {n \in {home} \cup ({ToNamespace} \ {None, home}) : Readable(n)}
             policies == {policy \in world.native : policy.namespace \in read}
             named == addNativeEgressBlockers(policies, world.source, world.namespace, Targets, world.service, ServicePorts)
             unread == IF ask.numbers = {} \/ read = {home} \cup ({ToNamespace} \ {None, home}) THEN {}
                       ELSE {Plain("native-policies", "WARN")}
  <1>1. i = analyzeNativeEgress(source, world.source, world.namespace, Targets, world.service, ServicePorts)
    BY NativeDecisions DEF SamePath
  <1>2. /\ Selecting(source, "Egress", world.source) # {}
        /\ ~\E rule \in EgressRules(Selecting(source, "Egress", world.source)) : Allows(rule)
    <2>1. Plain("native-egress", "PASS").status # "policy-ambiguous"
      BY DEF Plain, Insight
    <2> QED
      BY <1>1, <2>1 DEF analyzeNativeEgress
  <1>3. source # {}
    BY <1>2 DEF Selecting
  <1>4. source = mine /\ (access.nativeSource = "read" \/ home = world.namespace)
    BY <1>3, PathAsked
  <1>5. access.native = "read"
    <2>1. access.native \in {"read", "error"}
      BY DEF access, World, Access
    <2>2. NativeInsights = {Plain("native-policies", "WARN")} => i.check = "native-policies"
      BY DEF Plain, Insight
    <2> QED
      BY <2>1, <2>2 DEF NativeInsights
  <1>6. home \in read
    BY <1>4, <1>5
  <1>7. InNamespace(policies, home) = mine
    BY <1>6 DEF InNamespace
  <1>8. NativeBlockers = named \cup unread
    BY PathAsked DEF NativeBlockers, addNativeBlockers, SamePath
  <1>9. Insight("native-blockers", "FAIL", "native-default-deny") \in named
    <2> HIDE DEF policies, mine, source, Allows
    <2>1. Selecting(InNamespace(policies, home), "Egress", world.source) = Selecting(source, "Egress", world.source)
      BY <1>4, <1>7
    <2>2. world.namespace # None /\ Targets # <<>>
      BY PathAsked DEF SamePath
    <2> QED
      BY <1>2, <2>1, <2>2 DEF addNativeEgressBlockers, Allows
  <1> HIDE DEF named, unread
  <1> QED
    BY <1>8, <1>9


\* Some match comes first in the order of sortRuleMatches.
LEMMA SomeFirst ==
  ASSUME NEW M, M # {},
         \A m \in M : m.tierOrder \in Nat /\ m.order \in Nat /\ m.index \in Nat /\ m.policy \in Nat
  PROVE  FirstOf(M) \in M
  <1> DEFINE A == {m.tierOrder : m \in M}
  <1>1. A \in SUBSET Nat /\ A # {}
    OBVIOUS
  <1>2. PICK a \in A : \A x \in A : a <= x
    <2> HIDE DEF A
    <2> QED
      BY <1>1, LeastNat
  <1> DEFINE B == {m.order : m \in {n \in M : n.tierOrder = a}}
  <1>3. B \in SUBSET Nat /\ B # {}
    BY <1>2
  <1>4. PICK b \in B : \A x \in B : b <= x
    <2> HIDE DEF B
    <2> QED
      BY <1>3, LeastNat
  <1> DEFINE C == {m.index : m \in {n \in M : n.tierOrder = a /\ n.order = b}}
  <1>5. C \in SUBSET Nat /\ C # {}
    BY <1>4
  <1>6. PICK c \in C : \A x \in C : c <= x
    <2> HIDE DEF C
    <2> QED
      BY <1>5, LeastNat
  <1> DEFINE D == {m.policy : m \in {n \in M : n.tierOrder = a /\ n.order = b /\ n.index = c}}
  <1>7. D \in SUBSET Nat /\ D # {}
    BY <1>6
  <1>8. PICK d \in D : \A x \in D : d <= x
    <2> HIDE DEF D
    <2> QED
      BY <1>7, LeastNat
  <1>9. PICK m \in M : m.tierOrder = a /\ m.order = b /\ m.index = c /\ m.policy = d
    BY <1>8
  <1>10. ASSUME NEW n \in M PROVE ~SortedBefore(n, m)
    <2>1. a <= n.tierOrder
      BY <1>2
    <2>2. n.tierOrder = a => b <= n.order
      BY <1>4
    <2>3. n.tierOrder = a /\ n.order = b => c <= n.index
      BY <1>6
    <2>4. n.tierOrder = a /\ n.order = b /\ n.index = c => d <= n.policy
      BY <1>8
    <2>5. n.tierOrder \in Nat /\ n.order \in Nat /\ n.index \in Nat /\ n.policy \in Nat
          /\ a \in Nat /\ b \in Nat /\ c \in Nat /\ d \in Nat
      BY <1>1, <1>2, <1>3, <1>4, <1>5, <1>6, <1>7, <1>8
    <2> HIDE DEF A, B, C, D
    <2> QED
      BY <1>9, <2>1, <2>2, <2>3, <2>4, <2>5 DEF SortedBefore
  <1> QED
    BY <1>9, <1>10, Zenon DEF FirstOf

\* The matches that end at an allow alone are at least those that end at a deny, too,
\* and are none only where those are none.
LEMMA MatchesReached ==
  ASSUME NEW policies \in SUBSET CalicoPolicyObject, NEW applying,
         NEW short, short = {"allow", "deny"}, NEW long, long = {"allow"}
  PROVE  /\ \A m \in RuleMatches(policies, "egress", applying, short) :
                /\ m \in RuleMatches(policies, "egress", applying, long)
                /\ m.tierOrder \in Nat /\ m.order \in Nat /\ m.index \in Nat /\ m.policy \in Nat
                /\ m.action \in {"allow", "deny", "pass"}
         /\ RuleMatches(policies, "egress", applying, short) = {} => RuleMatches(policies, "egress", applying, long) = {}
  <1> DEFINE Hits(p) == {i \in DOMAIN p.egress : p.egress[i] \in applying /\ p.egress[i].action # "log"}
             Reached(p, final) == {i \in Hits(p) : \A j \in Hits(p) : j < i => p.egress[j].action \notin final}
             Match(p, i) == [tierOrder |-> p.tierOrder, order |-> p.order, index |-> i, policy |-> p.name,
                             action |-> p.egress[i].action]
  <1>1. ASSUME NEW final
        PROVE  RuleMatches(policies, "egress", applying, final)
                 = UNION {{Match(p, i) : i \in Reached(p, final)} : p \in policies}
    BY DEF RuleMatches
  <1>2. \A p \in policies : /\ p.order \in Nat /\ p.tierOrder \in Nat /\ p.name \in Nat
                            /\ \A i \in DOMAIN p.egress : i \in Nat /\ p.egress[i].action \in Action
    <2>1. \A p \in policies : p.egress \in Seq(CalicoRule) /\ p.order \in Nat /\ p.tierOrder \in Nat /\ p.name \in Nat
      BY DEF CalicoPolicyObject
    <2>2. \A s \in Seq(CalicoRule) : \A i \in DOMAIN s : i \in Nat /\ s[i].action \in Action
      <3>1. \A s \in Seq(CalicoRule) : \A i \in DOMAIN s : i \in Nat /\ s[i] \in CalicoRule
        BY ElementType
      <3>2. \A rule \in CalicoRule : rule.action \in Action
        BY DEF CalicoRule
      <3> QED
        BY <3>1, <3>2
    <2> QED
      BY <2>1, <2>2
  <1>3. \A p \in policies : Reached(p, short) \subseteq Reached(p, long)
    OBVIOUS
  <1>4. \A p \in policies : Reached(p, short) = {} => Hits(p) = {}
    <2> SUFFICES ASSUME NEW p \in policies, Hits(p) # {} PROVE Reached(p, short) # {}
      OBVIOUS
    <2>1. Hits(p) \in SUBSET Nat
      BY <1>2
    <2>2. PICK i \in Hits(p) : \A j \in Hits(p) : i <= j
      <3> HIDE DEF Hits
      <3> QED
        BY <2>1, LeastNat
    <2>3. \A j \in Hits(p) : ~(j < i)
      BY <2>1, <2>2
    <2>4. i \in Reached(p, short)
      BY <2>2, <2>3
    <2> QED
      BY <2>4
  <1>5. ASSUME NEW p \in policies, NEW i \in Reached(p, short)
        PROVE  LET m == Match(p, i)
               IN  /\ m.tierOrder \in Nat /\ m.order \in Nat /\ m.index \in Nat /\ m.policy \in Nat
                   /\ m.action \in {"allow", "deny", "pass"}
    BY <1>2 DEF Action
  <1>6. \A m : m \in RuleMatches(policies, "egress", applying, short) <=>
                   \E p \in policies : \E i \in Reached(p, short) : m = Match(p, i)
    <2> HIDE DEF Reached, Match
    <2> QED
      BY <1>1
  <1>7. \A m : m \in RuleMatches(policies, "egress", applying, long) <=>
                   \E p \in policies : \E i \in Reached(p, long) : m = Match(p, i)
    <2> HIDE DEF Reached, Match
    <2> QED
      BY <1>1
  <1>8. \A p \in policies : Reached(p, long) \subseteq Hits(p)
    OBVIOUS
  <1>9. \A m \in RuleMatches(policies, "egress", applying, short) :
                /\ m \in RuleMatches(policies, "egress", applying, long)
                /\ m.tierOrder \in Nat /\ m.order \in Nat /\ m.index \in Nat /\ m.policy \in Nat
                /\ m.action \in {"allow", "deny", "pass"}
    <2> SUFFICES ASSUME NEW m \in RuleMatches(policies, "egress", applying, short)
                 PROVE  /\ m \in RuleMatches(policies, "egress", applying, long)
                        /\ m.tierOrder \in Nat /\ m.order \in Nat /\ m.index \in Nat /\ m.policy \in Nat
                        /\ m.action \in {"allow", "deny", "pass"}
      OBVIOUS
    <2>1. PICK p \in policies : \E i \in Reached(p, short) : m = Match(p, i)
      BY <1>6
    <2>2. PICK i \in Reached(p, short) : m = Match(p, i)
      BY <2>1
    <2>3. m \in RuleMatches(policies, "egress", applying, long)
      <3> HIDE DEF Match, Reached
      <3> QED
        BY <1>3, <1>7, <2>2
    <2> QED
      BY <1>5, <2>2, <2>3
  <1> HIDE DEF Reached, Hits, Match
  <1>10. ASSUME RuleMatches(policies, "egress", applying, short) = {}
         PROVE  RuleMatches(policies, "egress", applying, long) = {}
    <2>1. \A p \in policies : Reached(p, short) = {}
      BY <1>6, <1>10
    <2>2. \A p \in policies : Reached(p, long) = {}
      BY <1>4, <1>8, <2>1
    <2> QED
      BY <1>7, <2>2
  <1> QED
    BY <1>9, <1>10

\* A path that no rule allows is denied by a rule, or by default.
LEMMA CalicoBlameTold ==
  ASSUME SamePath, world \in World, NEW i \in CalicoInsights, i.check = "Calico-egress", i.status = "FAIL",
         world.fallback.egress # "FAIL", access.calico.global # "error",
         \A pod \in ToSet(Targets) : NamespaceOf[pod] = world.namespace
  PROVE  \E j \in CalicoBlockers : j.check \in {"Calico-deny", "Calico-default-deny"} /\ j.status = "FAIL"
  <1> DEFINE home == NamespaceOf[world.source]
             all == CalicoListed(world.calico, {world.namespace, home}, access.calico.global = "read")
             selected == policiesFor(all, home, {world.source}, "egress")
             applying == {rule \in RulesOf(selected, "egress") : ruleMatchesPath(rule, "egress", CalicoPath)}
             short == {"allow", "deny"}
             long == {"allow"}
             some == RuleMatches(selected, "egress", applying, short)
             more == RuleMatches(selected, "egress", applying, long)
             decisive == {m \in TierFirsts(some) : m.action # "pass"}
             fallback == world.fallback.egress
  <1>1. access.calico.namespaced \notin {"absent", "error"}
    <2>1. Plain("Calico-policies", "WARN").check # "Calico-egress"
      BY DEF Plain, Insight
    <2> QED
      BY <2>1 DEF CalicoInsights, CalicoAnalyze
  <1>2. i = calicoDirectionDecision(selected, "egress", CalicoPath, fallback)
    BY CalicoReported DEF SamePath
  <1>3. DirectionStatus(selected, some, fallback) = "FAIL"
    <2> HIDE DEF selected, fallback
    <2> QED
      BY <1>2 DEF calicoDirectionDecision, Judged, Insight
  <1>4. selected \in SUBSET CalicoPolicyObject
    BY DEF World, policiesFor, CalicoListed
  <1>5. /\ \A m \in some : /\ m \in more
                           /\ m.tierOrder \in Nat /\ m.order \in Nat /\ m.index \in Nat /\ m.policy \in Nat
                           /\ m.action \in {"allow", "deny", "pass"}
        /\ some = {} => more = {}
    <2>1. short = {"allow", "deny"} /\ long = {"allow"}
      OBVIOUS
    <2> HIDE DEF selected, applying, short, long
    <2> QED
      BY <1>4, <2>1, MatchesReached
  <1>6. fallback # "FAIL"
    OBVIOUS
  <1> HIDE DEF selected, applying, short, long, fallback
  <1>7. selected # {} /\ (some # {} => decisive # {} /\ FirstOf(decisive).action # "allow")
    <2> HIDE DEF some
    <2> QED
      BY <1>3, <1>6 DEF DirectionStatus, OrElse
  <1>8. some = {} \/ \E m \in more : m.action = "deny"
    <2>1. CASE some # {}
      <3>1. \A m \in decisive : m \in some
        BY DEF TierFirsts
      <3>2. FirstOf(decisive) \in decisive
        <4>1. decisive # {} /\ \A m \in decisive : m.tierOrder \in Nat /\ m.order \in Nat /\ m.index \in Nat /\ m.policy \in Nat
          BY <1>5, <1>7, <2>1, <3>1
        <4> HIDE DEF decisive
        <4> QED
          BY <4>1, SomeFirst
      <3>3. FirstOf(decisive).action # "pass"
        BY <3>2
      <3> HIDE DEF decisive
      <3>4. FirstOf(decisive).action = "deny"
        BY <1>5, <1>7, <2>1, <3>1, <3>2, <3>3
      <3> QED
        BY <1>5, <3>1, <3>2, <3>4
    <2> QED
      BY <2>1
  <1>9. CalicoBlockers = {Plain("Calico-selected", "WARN")} \cup BlockersVerdict(more, "PASS")
    <2> DEFINE asked == {rule \in RulesOf(selected, "egress") :
                 blockerRuleMatchesPath(rule, "egress", world.source, world.namespace, Targets, world.service,
                                        ServicePorts, {}, access.calicoRead)}
    <2>1. all = CalicoListed(world.calico, {home, world.namespace} \ {None}, access.calico.global = "read")
      BY PathAsked DEF CalicoListed
    <2>2. asked = applying
      <3>1. ASSUME NEW rule
            PROVE  blockerRuleMatchesPath(rule, "egress", world.source, world.namespace, Targets, world.service,
                                          ServicePorts, {}, access.calicoRead)
                     <=> ruleMatchesPath(rule, "egress", CalicoPath)
        <4>1. blockerPortCandidates(ServicePorts, {}, world.service, Targets)
                = calicoPathPortCandidates(ServicePorts, world.service, Targets)
          BY DEF blockerPortCandidates
        <4> QED
          BY <4>1 DEF blockerRuleMatchesPath, CalicoPath
      <3> QED
        BY <3>1 DEF applying
    <2>3. selected = policiesFor(CalicoListed(world.calico, {home, world.namespace} \ {None}, access.calico.global = "read"),
                                 home, {world.source}, "egress")
      BY <2>1 DEF selected
    <2>4. CalicoBlockers = CalicoShowBlockers(world.calico, "egress", world.source, world.namespace, Targets, world.service,
                       ServicePorts, {}, access.calico, access.calicoRead)
      BY PathAsked DEF CalicoBlockers, SamePath
    <2>5. world.namespace # None /\ Targets # <<>>
      BY PathAsked DEF SamePath
    <2>6. CalicoBlockers = {Plain("Calico-selected", "WARN")} \cup pathSpecificBlockers(selected, "egress", asked)
      BY <1>1, <1>7, <2>3, <2>4, <2>5 DEF CalicoShowBlockers
    <2>7. pathSpecificBlockers(selected, "egress", asked) = BlockersVerdict(more, "PASS")
      BY <2>2 DEF pathSpecificBlockers, long
    <2> QED
      BY <2>6, <2>7
  <1> HIDE DEF some, more
  <1>10. CASE \E m \in more : m.action = "deny"
    <2>1. Judged("Calico-deny", "FAIL") \in CalicoBlockers
      BY <1>9, <1>10 DEF BlockersVerdict
    <2> QED
      BY <2>1 DEF Judged, Insight
  <1>11. CASE more = {}
    <2>1. Judged("Calico-default-deny", "FAIL") \in CalicoBlockers
      BY <1>9, <1>11 DEF BlockersVerdict
    <2> QED
      BY <2>1 DEF Judged, Insight
  <1> QED
    BY <1>5, <1>8, <1>10, <1>11


\* The same lists in another order have the same rules for a pod.
LEMMA SwappedSection ==
  ASSUME NEW policies \in Seq(CiliumPolicyObject), NEW a, a # None, NEW b, b # None, NEW whole \in BOOLEAN,
         NEW pods, NEW section
  PROVE  Section(namedRules(Listed(policies, a, b, whole)), pods, section)
           = Section(namedRules(Listed(policies, b, a, whole)), pods, section)
  <1> DEFINE some == Listed(policies, a, b, whole)
             other == Listed(policies, b, a, whole)
  <1>1. /\ some \in Seq(CiliumPolicyObject) /\ other \in Seq(CiliumPolicyObject)
        /\ \A p : p \in ToSet(some) <=> p \in ToSet(other)
    BY ListedMembers
  <1> HIDE DEF some, other
  <1>2. \A rule : rule \in ToSet(namedRules(some)) <=> rule \in ToSet(namedRules(other))
    BY <1>1, RulesMembers
  <1>3. \A e : e \in Section(namedRules(some), pods, section) <=> e \in Section(namedRules(other), pods, section)
    BY <1>2, SectionMembers
  <1> QED
    BY <1>3 DEF some, other

\* The decision of Cilium on the path is the one that show blockers gives.
LEMMA CiliumBlameTold ==
  ASSUME SamePath, world \in World, NEW i \in CiliumInsights, i.check = "Cilium-egress", i.status = "FAIL",
         access.cilium.clusterwide # "error"
  PROVE  i \in CiliumBlockers
  <1> DEFINE home == NamespaceOf[world.source]
             whole == access.cilium.clusterwide = "read"
             groups == access.cilium.groups = "read"
             rules == namedRules(Listed(world.cilium, world.namespace, SourceNamespace, whole))
             list == Listed(world.cilium, home, world.namespace, whole)
             asked == namedRules(list)
             candidates == ciliumPathPortCandidates(ServicePorts, world.service, Targets)
             Decision(r) == ciliumEgressDecision(r, world.source, Targets, world.service, candidates, groups)
  <1>1. access.cilium.namespaced \notin {"absent", "error"}
    <2>1. Plain("Cilium-policies", "WARN").check # "Cilium-egress"
      BY DEF Plain, Insight
    <2> QED
      BY <2>1 DEF CiliumInsights, CiliumAnalyze, listError
  <1>2. access.endpoints \subseteq {Plain("Cilium-endpoints", "INFO")}
    BY DEF access, World, Access
  <1>3. i = Decision(rules)
    <2> DEFINE some == whole
    <2>1. some = (access.cilium.clusterwide = "read")
      OBVIOUS
    <2> HIDE DEF some
    <2>2. LET r == namedRules(Listed(world.cilium, world.namespace, SourceNamespace, some))
          IN  i.check = "Cilium-egress" => i = Decision(r)
      BY <1>2, <2>1, CiliumDecisions
    <2> QED
      BY <2>2 DEF some
  <1>4. \A section : Section(rules, {world.source}, section) = Section(asked, {world.source}, section)
    <2> SUFFICES ASSUME NEW section PROVE Section(rules, {world.source}, section) = Section(asked, {world.source}, section)
      OBVIOUS
    <2> DEFINE some == whole
               pods == {world.source}
    <2>1. some \in BOOLEAN /\ world.cilium \in Seq(CiliumPolicyObject)
      BY DEF World
    <2>2. SourceNamespace = home /\ home # None /\ world.namespace # None
      BY PathAsked
    <2> HIDE DEF some, pods
    <2>3. Section(namedRules(Listed(world.cilium, world.namespace, home, some)), pods, section)
            = Section(namedRules(Listed(world.cilium, home, world.namespace, some)), pods, section)
      BY <2>1, <2>2, SwappedSection
    <2> QED
      BY <2>2, <2>3 DEF some, pods
  <1>5. i = Decision(asked)
    <2> HIDE DEF rules, asked, candidates, groups
    <2>1. Decision(rules) = Decision(asked)
      <3> DEFINE d == Section(rules, {world.source}, "egressDeny")
                 a == Section(rules, {world.source}, "egress")
      <3>1. d = Section(asked, {world.source}, "egressDeny") /\ a = Section(asked, {world.source}, "egress")
        BY <1>4
      <3> HIDE DEF d, a
      <3> QED
        BY <3>1, Zenon DEF ciliumEgressDecision, d, a
    <2> QED
      BY <1>3, <2>1
  <1>6. \E k \in DOMAIN asked : SelectsAny(asked[k], {world.source})
    <2> SUFFICES ASSUME ~\E k \in DOMAIN asked : SelectsAny(asked[k], {world.source}) PROVE FALSE
      OBVIOUS
    <2> HIDE DEF asked, candidates, groups
    <2>1. Section(asked, {world.source}, "egress") = {} /\ Section(asked, {world.source}, "egressDeny") = {}
      BY DEF Section
    <2>2. Decision(asked) = Plain("Cilium-egress", "PASS")
      BY <2>1 DEF ciliumEgressDecision
    <2> QED
      BY <1>5, <2>2 DEF Plain, Insight
  <1>7. ciliumBlockerPortCandidates(ServicePorts, {}, world.service, Targets) = candidates
    BY DEF ciliumBlockerPortCandidates
  <1>8. CiliumBlockers = CiliumShowBlockers(world.cilium, "egress", world.source, world.namespace, Targets, world.service,
                                            ServicePorts, {}, access.cilium)
    BY PathAsked DEF CiliumBlockers, SamePath
  <1>9. world.namespace # None /\ Targets # <<>>
    BY PathAsked DEF SamePath
  <1>10. Decision(asked) \in CiliumShowBlockers(world.cilium, "egress", world.source, world.namespace, Targets,
                                               world.service, ServicePorts, {}, access.cilium)
    <2> DEFINE out == Decision(asked)
               first == (IF access.cilium.groups = "error" THEN listError("Cilium-CIDR-groups") ELSE {}) \cup badPolicies(list)
    <2>1. CiliumShowBlockers(world.cilium, "egress", world.source, world.namespace, Targets, world.service,
                             ServicePorts, {}, access.cilium)
            = first \cup {Plain("Cilium-selected", "WARN"), out}
      BY <1>1, <1>6, <1>7, <1>9 DEF CiliumShowBlockers
    <2> HIDE DEF out, first
    <2> QED
      BY <2>1 DEF out
  <1> QED
    BY <1>5, <1>8, <1>10

\* Asked for the same path, show blockers names a blocker of every engine that is blamed.
LEMMA BlameTold ==
  ASSUME SaidInv, BlockersInv
  PROVE  BlockersExplainPath
  <1> DEFINE Blocks(checks) == \E i \in report["blockers"] : i.check \in checks /\ i.status = "FAIL"
  <1>1. SUFFICES ASSUME exit["blockers"] # Running, report["blockers"] # {}, ask.direction = "egress", ask.to = "service",
                        ask.numbers = ServicePorts, ask.names = {}, ask.numbers # {}, Targets # <<>>
                 PROVE  /\ Verdict("service", "native-egress", "policy-ambiguous") => Blocks({"native-blockers"})
                        /\ /\ Verdict("service", "Calico-egress", "FAIL")
                           /\ world.fallback.egress # "FAIL" /\ access.calico.global # "error"
                           => Blocks({"Calico-deny", "Calico-default-deny"})
                        /\ Verdict("service", "Cilium-egress", "FAIL") /\ access.cilium.clusterwide # "error" =>
                               Blocks({"Cilium-egress"})
    BY DEF BlockersExplainPath
  <1>2. SamePath
    BY <1>1 DEF SamePath, BlockersInv
  <1>3. world \in World /\ \A pod \in ToSet(Targets) : NamespaceOf[pod] = world.namespace
    BY CommandsAssumption DEF SaidInv, Targets
  <1>4. /\ NativeBlockers \subseteq report["blockers"]
        /\ Or(CalicoBlockers, "Calico-analysis") \subseteq report["blockers"]
        /\ Or(CiliumBlockers, "Cilium-analysis") \subseteq report["blockers"]
    BY <1>1 DEF BlockersInv, Gathered
  <1>5. /\ \A i \in report["service"] : i.check = "native-egress" => i \in NativeInsights
        /\ \A i \in report["service"] : i.check = "Calico-egress" => i \in CalicoInsights
        /\ \A i \in report["service"] : i.check = "Cilium-egress" => i \in CiliumInsights
    BY DEF SaidInv, Decided, NativeVerdicts, CalicoVerdicts, CiliumVerdicts
  <1>6. ASSUME Verdict("service", "native-egress", "policy-ambiguous") PROVE Blocks({"native-blockers"})
    <2>1. PICK i \in NativeInsights : i.check = "native-egress" /\ i.status = "policy-ambiguous"
      BY <1>5, <1>6 DEF Verdict
    <2>2. Insight("native-blockers", "FAIL", "native-default-deny") \in NativeBlockers
      BY <1>2, <1>3, <2>1, NativeBlameTold
    <2> QED
      BY <1>4, <2>2 DEF Insight
  <1>7. ASSUME Verdict("service", "Calico-egress", "FAIL"), world.fallback.egress # "FAIL", access.calico.global # "error"
        PROVE  Blocks({"Calico-deny", "Calico-default-deny"})
    <2>1. PICK i \in CalicoInsights : i.check = "Calico-egress" /\ i.status = "FAIL"
      BY <1>5, <1>7 DEF Verdict
    <2>2. \E j \in CalicoBlockers : j.check \in {"Calico-deny", "Calico-default-deny"} /\ j.status = "FAIL"
      BY <1>2, <1>3, <1>7, <2>1, CalicoBlameTold
    <2> QED
      BY <1>4, <2>2 DEF Or
  <1>8. ASSUME Verdict("service", "Cilium-egress", "FAIL"), access.cilium.clusterwide # "error"
        PROVE  Blocks({"Cilium-egress"})
    <2>1. PICK i \in CiliumInsights : i.check = "Cilium-egress" /\ i.status = "FAIL"
      BY <1>5, <1>8 DEF Verdict
    <2>2. i \in CiliumBlockers
      BY <1>2, <1>3, <1>8, <2>1, CiliumBlameTold
    <2> QED
      BY <1>4, <2>1, <2>2 DEF Or
  <1> QED
    BY <1>6, <1>7, <1>8


-------------------------------------------------------------------------------
(* What two commands say of one resolver.                                  *)

\* The rules of two lists, one after the other.
LEMMA RulesConcat ==
  ASSUME NEW s \in Seq(CiliumPolicyObject), NEW t \in Seq(CiliumPolicyObject)
  PROVE  namedRules(s \o t) = namedRules(s) \o namedRules(t)
  <1> DEFINE T == Seq(CiliumRule)
             RulesIn(p) == IF p.bad THEN <<>> ELSE p.rules
             Parts(l) == [i \in DOMAIN l |-> RulesIn(l[i])]
  <1>1. \A p \in CiliumPolicyObject : RulesIn(p) \in T
    BY DEF CiliumPolicyObject
  <1> HIDE DEF T, RulesIn
  <1>2. ASSUME NEW l \in Seq(CiliumPolicyObject)
        PROVE  Parts(l) \in Seq(T) /\ Len(Parts(l)) = Len(l) /\ \A i \in 1..Len(l) : Parts(l)[i] = RulesIn(l[i])
    <2>1. DOMAIN l = 1..Len(l) /\ Len(l) \in Nat /\ \A i \in 1..Len(l) : l[i] \in CiliumPolicyObject
      OBVIOUS
    <2>2. Parts(l) = [i \in 1..Len(l) |-> RulesIn(l[i])] /\ \A i \in 1..Len(l) : RulesIn(l[i]) \in T
      BY <1>1, <2>1
    <2> QED
      BY <2>1, <2>2
  <1>3. /\ s \o t \in Seq(CiliumPolicyObject) /\ Len(s \o t) = Len(s) + Len(t)
        /\ \A i \in 1..Len(s) : (s \o t)[i] = s[i]
        /\ \A i \in 1..Len(t) : (s \o t)[Len(s) + i] = t[i]
    OBVIOUS
  <1> DEFINE u == s \o t
             a == Parts(s)
             b == Parts(t)
             c == Parts(u)
  <1>4. /\ a \in Seq(T) /\ Len(a) = Len(s) /\ \A i \in 1..Len(s) : a[i] = RulesIn(s[i])
        /\ b \in Seq(T) /\ Len(b) = Len(t) /\ \A i \in 1..Len(t) : b[i] = RulesIn(t[i])
    BY <1>2
  <1>5. c \in Seq(T) /\ Len(c) = Len(u) /\ \A i \in 1..Len(u) : c[i] = RulesIn(u[i])
    <2>1. u \in Seq(CiliumPolicyObject)
      BY <1>3
    <2> HIDE DEF u
    <2> QED
      BY <1>2, <2>1
  <1>6. namedRules(s) = FlattenSeq(a) /\ namedRules(t) = FlattenSeq(b) /\ namedRules(u) = FlattenSeq(c)
    BY DEF namedRules, RulesIn
  <1>7. Len(s) \in Nat /\ Len(t) \in Nat
    OBVIOUS
  <1>8. Len(u) = Len(s) + Len(t) /\ (\A i \in 1..Len(s) : u[i] = s[i]) /\ \A i \in 1..Len(t) : u[Len(s) + i] = t[i]
    BY <1>3
  <1> HIDE DEF a, b, c, u, Parts
  <1>9. c = a \o b
    <2>1. ASSUME NEW i \in 1..Len(c) PROVE c[i] = (a \o b)[i]
      <3>1. CASE i <= Len(s)
        <4>1. i \in 1..Len(s) /\ i \in 1..Len(u)
          BY <1>5, <1>7, <1>8, <3>1
        <4>2. c[i] = RulesIn(s[i]) /\ a[i] = RulesIn(s[i])
          BY <1>4, <1>5, <1>8, <4>1
        <4>3. (a \o b)[i] = a[i]
          BY <1>4, <4>1
        <4> QED
          BY <4>2, <4>3
      <3>2. CASE ~(i <= Len(s))
        <4> DEFINE j == i - Len(s)
        <4>1. j \in 1..Len(t) /\ i = Len(s) + j /\ i \in 1..Len(u)
          BY <1>5, <1>7, <1>8, <3>2
        <4> HIDE DEF j
        <4>2. c[i] = RulesIn(t[j]) /\ b[j] = RulesIn(t[j])
          BY <1>4, <1>5, <1>8, <4>1
        <4>3. (a \o b)[Len(a) + j] = b[j]
          BY <1>4, <4>1
        <4> QED
          BY <1>4, <4>1, <4>2, <4>3
      <3> QED
        BY <3>1, <3>2
    <2>2. a \o b \in Seq(T) /\ Len(a \o b) = Len(a) + Len(b)
      BY <1>4
    <2>3. Len(c) = Len(a \o b)
      BY <1>4, <1>5, <1>8, <2>2
    <2> DEFINE d == a \o b
    <2>4. d \in Seq(T) /\ Len(c) = Len(d) /\ \A i \in 1..Len(c) : c[i] = d[i]
      BY <2>1, <2>2, <2>3
    <2> HIDE DEF d
    <2>5. c = d
      BY <1>5, <2>4, SeqEqual
    <2> QED
      BY <2>5 DEF d
  <1>10. FlattenSeq(a \o b) = FlattenSeq(a) \o FlattenSeq(b)
    BY <1>4, FlattenConcat DEF T
  <1> QED
    BY <1>6, <1>9, <1>10 DEF u

\* Rules that do not select the source do not count for its resolver.
LEMMA SkippedRules ==
  ASSUME NEW a \in Seq(CiliumRule), NEW b \in Seq(CiliumRule), NEW source, NEW dns, NEW groups,
         \A rule \in ToSet(a) : source \notin rule.selects
  PROVE  analyzeCiliumDNS(a \o b, source, dns, groups) = analyzeCiliumDNS(b, source, dns, groups)
  <1> DEFINE rules == a \o b
             resolver == Head(dns.nameservers)
             Hits(entries) ==
                 \E e \in entries : /\ ciliumDNSPeerMatches(e.peers, resolver, dns, groups)
                                    /\ CiliumPortsMatch(e.ports, ciliumDNSPortCandidates)
             Hit(rule) == source \in rule.selects /\ (Hits(rule.egress) \/ Hits(rule.egressDeny))
             HitsOf(r) == {i \in DOMAIN r : Hit(r[i])}
             Verdict3(none, empty, deny) ==
                 IF none THEN {Plain("Cilium-DNS", "PASS")}
                 ELSE IF empty THEN {Insight("Cilium-DNS", "FAIL", "Cilium-egress-default-deny")}
                 ELSE IF deny THEN {Insight("Cilium-DNS", "FAIL", "Cilium-deny")} ELSE {Plain("Cilium-DNS", "PASS")}
             Said3(r) == IF dns.nameservers = <<>> THEN {}
                         ELSE Verdict3(Section(r, {source}, "egress") \cup Section(r, {source}, "egressDeny") = {},
                                       HitsOf(r) = {}, Hits(r[Min(HitsOf(r))].egressDeny))
  <1>1. ASSUME NEW r PROVE analyzeCiliumDNS(r, source, dns, groups) = Said3(r)
    BY DEF analyzeCiliumDNS
  <1>2. rules \in Seq(CiliumRule) /\ ToSet(rules) = ToSet(a) \cup ToSet(b)
    BY ConcatMembers
  <1>3. /\ Len(a) \in Nat /\ Len(b) \in Nat /\ DOMAIN a = 1..Len(a) /\ DOMAIN b = 1..Len(b)
        /\ DOMAIN rules = 1..(Len(a) + Len(b))
        /\ \A i \in 1..Len(a) : rules[i] = a[i]
        /\ \A i \in 1..Len(b) : rules[Len(a) + i] = b[i]
    OBVIOUS
  <1> HIDE DEF rules, Hits
  <1>4. \A section : Section(rules, {source}, section) = Section(b, {source}, section)
    <2> SUFFICES ASSUME NEW section PROVE Section(rules, {source}, section) = Section(b, {source}, section)
      OBVIOUS
    <2>1. \A e : e \in Section(rules, {source}, section) <=> e \in Section(b, {source}, section)
      BY <1>2, SectionMembers
    <2> QED
      BY <2>1
  <1>5. \A i \in 1..Len(a) : ~Hit(rules[i])
    BY <1>3 DEF ToSet
  <1> HIDE DEF Hit
  <1>6. \A i \in HitsOf(b) : Len(a) + i \in HitsOf(rules)
    BY <1>3
  <1>7. \A k \in HitsOf(rules) : k - Len(a) \in HitsOf(b) /\ k = Len(a) + (k - Len(a)) /\ k \in Nat
    <2> SUFFICES ASSUME NEW k \in HitsOf(rules)
                 PROVE  k - Len(a) \in HitsOf(b) /\ k = Len(a) + (k - Len(a)) /\ k \in Nat
      OBVIOUS
    <2>1. k \in 1..(Len(a) + Len(b)) /\ Hit(rules[k])
      BY <1>3
    <2>2. ~(k \in 1..Len(a))
      BY <1>5, <2>1
    <2> DEFINE j == k - Len(a)
    <2>3. j \in 1..Len(b) /\ k = Len(a) + j
      BY <1>3, <2>1, <2>2
    <2> HIDE DEF j
    <2>4. rules[k] = b[j]
      BY <1>3, <2>3
    <2> QED
      BY <1>3, <2>1, <2>3, <2>4 DEF j
  <1>8. HitsOf(rules) = {} <=> HitsOf(b) = {}
    <2> HIDE DEF HitsOf
    <2> QED
      BY <1>6, <1>7
  <1>9. ASSUME HitsOf(b) # {} PROVE rules[Min(HitsOf(rules))] = b[Min(HitsOf(b))]
    <2>1. HitsOf(b) \in SUBSET Nat /\ HitsOf(rules) \in SUBSET Nat
      BY <1>3
    <2>2. HitsOf(b) \subseteq 1..Len(b)
      BY <1>3
    <2> HIDE DEF HitsOf
    <2>3. PICK i \in HitsOf(b) : \A y \in HitsOf(b) : i <= y
      BY <1>9, <2>1, LeastNat
    <2>4. Min(HitsOf(b)) = i
      <3>1. \A x \in HitsOf(b) : (\A y \in HitsOf(b) : x <= y) => x = i
        BY <2>1, <2>3
      <3> QED
        BY <2>3, <3>1, Zenon DEF Min
    <2>5. Len(a) + i \in HitsOf(rules) /\ \A y \in HitsOf(rules) : Len(a) + i <= y
      <3> SUFFICES ASSUME NEW y \in HitsOf(rules) PROVE Len(a) + i <= y
        BY <1>6, <2>3
      <3>1. i <= y - Len(a) /\ y \in Nat
        BY <1>7, <2>3
      <3> QED
        BY <1>3, <2>1, <2>3, <3>1
    <2>6. Min(HitsOf(rules)) = Len(a) + i
      <3>1. \A x \in HitsOf(rules) : (\A y \in HitsOf(rules) : x <= y) => x = Len(a) + i
        BY <1>3, <2>1, <2>3, <2>5
      <3> DEFINE m == Len(a) + i
      <3>2. m \in HitsOf(rules) /\ (\A y \in HitsOf(rules) : m <= y)
            /\ \A x \in HitsOf(rules) : (\A y \in HitsOf(rules) : x <= y) => x = m
        BY <2>5, <3>1
      <3> HIDE DEF m
      <3>3. Min(HitsOf(rules)) = m
        BY <3>2, Zenon DEF Min
      <3> QED
        BY <3>3 DEF m
    <2> QED
      BY <1>3, <2>2, <2>3, <2>4, <2>6
  <1>10. Said3(rules) = Said3(b)
    <2> HIDE DEF HitsOf, Verdict3
    <2>1. CASE HitsOf(b) = {}
      <3>1. ASSUME NEW none, NEW deny, NEW other PROVE Verdict3(none, TRUE, deny) = Verdict3(none, TRUE, other)
        BY DEF Verdict3
      <3>2. (HitsOf(rules) = {}) = TRUE /\ (HitsOf(b) = {}) = TRUE
        BY <1>8, <2>1
      <3> DEFINE empty == Section(b, {source}, "egress") \cup Section(b, {source}, "egressDeny") = {}
                 some == Hits(rules[Min(HitsOf(rules))].egressDeny)
                 other == Hits(b[Min(HitsOf(b))].egressDeny)
      <3>3. Verdict3(empty, TRUE, some) = Verdict3(empty, TRUE, other)
        <4> HIDE DEF empty, some, other
        <4> QED
          BY <3>1
      <3>4. /\ Said3(rules) = IF dns.nameservers = <<>> THEN {} ELSE Verdict3(empty, TRUE, some)
            /\ Said3(b) = IF dns.nameservers = <<>> THEN {} ELSE Verdict3(empty, TRUE, other)
        BY <1>4, <3>2
      <3> HIDE DEF empty, some, other, Said3
      <3> QED
        BY <3>3, <3>4
    <2>2. CASE HitsOf(b) # {}
      <3>1. (HitsOf(rules) = {}) = (HitsOf(b) = {})
        BY <1>8
      <3> QED
        BY <1>4, <1>9, <2>2, <3>1
    <2> QED
      BY <2>1, <2>2
  <1>11. analyzeCiliumDNS(rules, source, dns, groups) = Said3(rules)
    BY <1>1
  <1>12. analyzeCiliumDNS(b, source, dns, groups) = Said3(b)
    BY <1>1
  <1> HIDE DEF Said3
  <1> QED
    BY <1>10, <1>11, <1>12 DEF rules


\* Every policy that the parser accepts is sanitized.
Clean(policies) == \A p \in ToSet(policies) : p.bad \/ Sanitized(p)

\* The policies of a namespace and of the source's answer as those of the source's.
OneQuestion(policies, namespace, home, whole, source, dns, groups) ==
    analyzeCiliumDNS(namedRules(Listed(policies, namespace, home, whole)), source, dns, groups)
        = analyzeCiliumDNS(namedRules(Listed(policies, home, None, whole)), source, dns, groups)

\* check service and check egress ask the same about the resolver.
LEMMA ResolverAgrees ==
  ASSUME NEW policies \in Seq(CiliumPolicyObject), NEW namespace, namespace # None, NEW source,
         NEW home, home # None, home = NamespaceOf[source], NEW whole, NEW dns, NEW groups,
         source \in Pods, Clean(policies)
  PROVE  OneQuestion(policies, namespace, home, whole, source, dns, groups)
  <1> DEFINE a == In(policies, namespace)
             b == In(policies, home)
             c == IF whole THEN In(policies, None) ELSE <<>>
  <1>1. a \in Seq(CiliumPolicyObject) /\ b \in Seq(CiliumPolicyObject) /\ c \in Seq(CiliumPolicyObject)
    BY InMembers
  <1>2. Listed(policies, home, None, whole) = b \o c
    <2>1. Listed(policies, home, None, whole) = (b \o <<>>) \o c
      BY DEF Listed
    <2>2. b \o <<>> = b
      <3> HIDE DEF b
      <3> QED
        BY <1>1
    <2> QED
      BY <2>1, <2>2
  <1>3. CASE namespace = home
    <2>1. Listed(policies, namespace, home, whole) = (b \o <<>>) \o c
      BY <1>3 DEF Listed
    <2>2. b \o <<>> = b
      <3> HIDE DEF b
      <3> QED
        BY <1>1
    <2> QED
      BY <1>2, <2>1, <2>2 DEF OneQuestion
  <1>4. CASE namespace # home
    <2>1. Listed(policies, namespace, home, whole) = (a \o b) \o c
      BY <1>4 DEF Listed
    <2>2. ASSUME NEW rule \in ToSet(namedRules(a)) PROVE source \notin rule.selects
      <3>1. PICK p \in ToSet(a) : ~p.bad /\ rule \in ToSet(p.rules)
        BY <1>1, RulesMembers
      <3>2. p \in ToSet(policies) /\ p.namespace = namespace
        BY <3>1, InMembers
      <3>3. Sanitized(p)
        BY <3>1, <3>2 DEF Clean
      <3> QED
        BY <1>4, <3>1, <3>2, <3>3 DEF Sanitized
    <2> HIDE DEF a, b, c
    <2>3. (a \o b) \o c = a \o (b \o c) /\ b \o c \in Seq(CiliumPolicyObject)
      <3>1. b \o c \in Seq(CiliumPolicyObject)
        BY <1>1
      <3>2. (a \o b) \o c = a \o (b \o c)
        BY <1>1, ConcatAssociative
      <3> QED
        BY <3>1, <3>2
    <2> DEFINE d == b \o c
    <2>4. d \in Seq(CiliumPolicyObject)
      BY <2>3
    <2> HIDE DEF d
    <2>5. namedRules(a \o d) = namedRules(a) \o namedRules(d)
      BY <1>1, <2>4, RulesConcat
    <2>6. namedRules(a) \in Seq(CiliumRule) /\ namedRules(d) \in Seq(CiliumRule)
      BY <1>1, <2>4, RulesMembers
    <2> DEFINE r == namedRules(a)
               s == namedRules(d)
    <2>7. r \in Seq(CiliumRule) /\ s \in Seq(CiliumRule) /\ \A rule \in ToSet(r) : source \notin rule.selects
      BY <2>2, <2>6
    <2> HIDE DEF r, s
    <2>8. analyzeCiliumDNS(r \o s, source, dns, groups) = analyzeCiliumDNS(s, source, dns, groups)
      BY <2>7, SkippedRules
    <2> QED
      BY <1>2, <2>1, <2>3, <2>5, <2>8 DEF r, s, d, OneQuestion
  <1> QED
    BY <1>3, <1>4

\* What the layer of Cilium says of the resolver in each of the commands.
LEMMA ResolverDecisions ==
  ASSUME NEW whole, whole = (access.cilium.clusterwide = "read"), access.endpoints \subseteq {Plain("Cilium-endpoints", "INFO")}
  PROVE  /\ \A i \in CiliumInsights : i.check = "Cilium-DNS" =>
                /\ world.source # None
                /\ i \in analyzeCiliumDNS(namedRules(Listed(world.cilium, world.namespace, SourceNamespace, whole)),
                                          world.source, DNS, access.cilium.groups = "read")
         /\ \A j \in ResolverInsights : j.check = "Cilium-DNS" =>
                j \in analyzeCiliumDNS(namedRules(Listed(world.cilium, NamespaceOf[world.source], None, whole)),
                                       world.source, DNS, access.cilium.groups = "read")
  <1> DEFINE list == Listed(world.cilium, world.namespace, SourceNamespace, whole)
             rules == namedRules(list)
             groups == access.cilium.groups = "read"
             candidates == ciliumPathPortCandidates(ServicePorts, world.service, Targets)
             out == ciliumEgressDecision(rules, world.source, Targets, world.service, candidates, groups)
             into == ciliumIngressDecision(rules, ToSet(Targets), world.source, candidates)
             resolver == analyzeCiliumDNS(rules, world.source, DNS, groups)
             selected == \E k \in DOMAIN rules : SelectsAny(rules[k], ToSet(Targets))
             bad == badPolicies(list)
             some == Plain("Cilium-target-policies", IF selected THEN "WARN" ELSE "INFO")
             lists == listError("Cilium-CIDR-groups") \cup listError("Cilium-clusterwide") \cup listError("Cilium-policies")
             others == access.endpoints \cup lists \cup bad \cup {some}
             mine == analyzeCiliumDNS(namedRules(Listed(world.cilium, NamespaceOf[world.source], None, whole)),
                                      world.source, DNS, groups)
  <1>1. out.check = "Cilium-egress" /\ into.check = "Cilium-ingress"
    BY DEF ciliumEgressDecision, ciliumIngressDecision, AllowDecision, Plain, Insight
  <1>2. \A j \in others : j.check # "Cilium-DNS"
    <2>1. \A j \in bad : j.check = "Cilium-parse"
      <3>1. bad \in {{}, {Insight("Cilium-parse", "WARN", "Cilium-parse")}}
        BY DEF badPolicies
      <3> HIDE DEF bad
      <3> QED
        BY <3>1 DEF Insight
    <2>2. some.check = "Cilium-target-policies"
      BY DEF Plain, Insight
    <2> HIDE DEF bad, some
    <2> QED
      BY <2>1, <2>2 DEF listError, Plain, Insight
  <1>3. ASSUME NEW i \in CiliumInsights
        PROVE  i \in others \/ (world.source # None /\ i \in {out, into} \cup resolver)
    BY DEF CiliumInsights, CiliumAnalyze
  <1>4. ASSUME NEW j \in ResolverInsights PROVE j \in lists \/ j \in mine
    BY DEF ResolverInsights, CiliumAnalyzeDNS
  <1> HIDE DEF out, into, resolver, mine, bad, some
  <1>5. \A i \in CiliumInsights : i.check = "Cilium-DNS" => world.source # None /\ i \in resolver
    BY <1>1, <1>2, <1>3
  <1>6. \A j \in ResolverInsights : j.check = "Cilium-DNS" => j \in mine
    BY <1>2, <1>4
  <1> QED
    BY <1>5, <1>6 DEF resolver, mine

\* The resolver has one verdict.
LEMMA OneOnResolver ==
  ASSUME NEW rules, NEW source, NEW dns, NEW groups,
         NEW i \in analyzeCiliumDNS(rules, source, dns, groups), NEW j \in analyzeCiliumDNS(rules, source, dns, groups)
  PROVE  i = j
  <1> DEFINE said == analyzeCiliumDNS(rules, source, dns, groups)
             pass == Plain("Cilium-DNS", "PASS")
             closed == Insight("Cilium-DNS", "FAIL", "Cilium-egress-default-deny")
             denied == Insight("Cilium-DNS", "FAIL", "Cilium-deny")
  <1>1. said \in {{}, {pass}, {closed}, {denied}}
    <2> HIDE DEF pass, closed, denied
    <2> QED
      BY DEF analyzeCiliumDNS, pass, closed, denied
  <1>2. i \in said /\ j \in said
    OBVIOUS
  <1> HIDE DEF said, pass, closed, denied
  <1> QED
    BY <1>1, <1>2

LEMMA ResolverSaid ==
  ASSUME SaidInv
  PROVE  DNSVerdictsAgree
  <1> SUFFICES ASSUME NEW i \in report["service"], NEW j \in report["egress"], i.check = "Cilium-DNS",
                      j.check = "Cilium-DNS"
               PROVE  i = j
    BY DEF DNSVerdictsAgree
  <1> DEFINE whole == access.cilium.clusterwide = "read"
             groups == access.cilium.groups = "read"
             theirs == namedRules(Listed(world.cilium, world.namespace, SourceNamespace, whole))
             mine == namedRules(Listed(world.cilium, NamespaceOf[world.source], None, whole))
  <1>1. world \in World /\ Clean(world.cilium)
    BY CommandsAssumption DEF SaidInv, Clean
  <1>2. i \in CiliumInsights /\ j \in ResolverInsights
    BY DEF SaidInv, Decided, Posed, CiliumVerdicts
  <1>3. access.endpoints \subseteq {Plain("Cilium-endpoints", "INFO")}
    BY <1>1 DEF access, World, Access
  <1>4. /\ world.source # None /\ i \in analyzeCiliumDNS(theirs, world.source, DNS, groups)
        /\ j \in analyzeCiliumDNS(mine, world.source, DNS, groups)
    <2> DEFINE some == whole
    <2>1. some = (access.cilium.clusterwide = "read")
      OBVIOUS
    <2> HIDE DEF some
    <2>2. /\ world.source # None
          /\ i \in analyzeCiliumDNS(namedRules(Listed(world.cilium, world.namespace, SourceNamespace, some)),
                                    world.source, DNS, groups)
          /\ j \in analyzeCiliumDNS(namedRules(Listed(world.cilium, NamespaceOf[world.source], None, some)),
                                    world.source, DNS, groups)
      BY <1>2, <1>3, <2>1, ResolverDecisions
    <2> QED
      BY <2>2 DEF some
  <1>5. /\ world.source \in Pods /\ world.cilium \in Seq(CiliumPolicyObject) /\ world.namespace \in Namespaces
        /\ SourceNamespace = NamespaceOf[world.source]
    BY <1>1, <1>4 DEF World, SourceNamespace
  <1>6. world.namespace # None /\ NamespaceOf[world.source] # None
    BY <1>5, WorldAssumption
  <1>7. analyzeCiliumDNS(theirs, world.source, DNS, groups) = analyzeCiliumDNS(mine, world.source, DNS, groups)
    <2> DEFINE some == whole
               dns == DNS
               policies == world.cilium
               namespace == world.namespace
               source == world.source
               home == NamespaceOf[world.source]
    <2>1. some \in BOOLEAN
      OBVIOUS
    <2>2. policies \in Seq(CiliumPolicyObject) /\ source \in Pods /\ Clean(policies)
      BY <1>1, <1>5
    <2>3. namespace # None /\ home # None /\ home = NamespaceOf[source]
      BY <1>6
    <2> HIDE DEF some, dns, groups, policies, namespace, source, home
    <2>4. OneQuestion(policies, namespace, home, some, source, dns, groups)
      BY ONLY <2>1, <2>2, <2>3, ResolverAgrees
    <2> QED
      BY <1>5, <2>4 DEF OneQuestion, some, dns, policies, namespace, source, home
  <1> HIDE DEF theirs, mine, groups
  <1> QED
    BY <1>4, <1>7, OneOnResolver

=================================================================================
