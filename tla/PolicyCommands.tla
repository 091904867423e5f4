---------------------------- MODULE PolicyCommands ----------------------------
(***************************************************************************)
(* The three commands that read policies, run one after another against a  *)
(* cluster that does not change: the policy layers of check service, then  *)
(* show blockers or check egress.                                          *)
(*                                                                         *)
(* What can be read is part of the cluster (access), since it follows from *)
(* the permissions of the user.  What a probe of check egress meets is not *)
(* under control of the command: an answer needs the policies to let the   *)
(* connection out, and may fail for any other reason.                      *)
(***************************************************************************)
EXTENDS PolicyEnforcement

CONSTANTS
    Worlds,    \* clusters
    Asks,      \* what show blockers may be asked
    URLLists,  \* what check egress may be given
    Flags,     \* --fail-on-warn and --ignore-warn
    Running    \* no exit status

\* labels: namespaces can be read.  endpoints: what is said of CiliumEndpoints.
Access == [native : {"read", "error"}, nativeSource : {"read", "error"}, labels : BOOLEAN,
           calico : [namespaced : ListOutcome, global : ListOutcome],
           calicoRead : [sets : BOOLEAN, accounts : BOOLEAN],
           cilium : [namespaced : ListOutcome, clusterwide : ListOutcome, groups : ListOutcome],
           endpoints : SUBSET {Plain("Cilium-endpoints", "INFO")}, resolvConf : BOOLEAN]

\* namespace and targets are those of the Service; source is None without one.
World == [native : SUBSET NativePolicyObject, calico : SUBSET CalicoPolicyObject,
          cilium : Seq(CiliumPolicyObject), hosts : SUBSET Hosts, staged : BOOLEAN,
          fallback : Fallbacks, service : Service, namespace : Namespaces, targets : Seq(Pods),
          source : Pods \cup {None}, dns : DNSContext, access : Access]

\* to: the Service, the pods of a selector, a namespace, or no destination.
Ask == [direction : {"egress", "ingress"}, to : {"service", "pods", "namespace", "nothing"},
        numbers : SUBSET PortNumber, names : SUBSET PortNames]

\* port is 0 where none could be inferred.
URL == [host : Hosts, port : 0..MaxPort, valid : BOOLEAN]

\* The Service and the targets are read in one namespace, and chosen is one of its ports.
\* The policies of Cilium are parsed by its own parser, and none is of a kind that is
\* not installed.
ASSUME CommandsAssumption ==
    /\ Worlds \subseteq World
    /\ \A w \in Worlds :
          /\ w.service.namespace = w.namespace
          /\ \A pod \in ToSet(w.targets) : NamespaceOf[pod] = w.namespace
          /\ w.service.chosen <= Len(w.service.ports)
          /\ \A policy \in ToSet(w.cilium) : policy.bad \/ Sanitized(policy)
          /\ \A policy \in ToSet(w.cilium) :
                (IF policy.namespace = None THEN w.access.cilium.clusterwide
                 ELSE w.access.cilium.namespaced) # "absent"
    /\ Flags \subseteq [failOnWarn : BOOLEAN,
                        ignored : SUBSET {"WARN", "policy-ambiguous", "runtime-unavailable"}]
    /\ Asks \subseteq Ask
    /\ URLLists \subseteq Seq(URL)
    /\ Running \notin {0, 1}

VARIABLES
    world,
    flags,
    pc,        \* the layer that is next
    report,    \* what each command has said
    exit,      \* the exit status of each command
    ask,       \* what show blockers was asked, or None
    urls,      \* what check egress still has to test
    answered   \* the URLs that answered

vars == <<world, flags, pc, report, exit, ask, urls, answered>>

Commands == {"service", "blockers", "egress"}

Layers == {"native", "calico", "host", "cilium", "finish-service", "next",
           "blockers-native", "blockers-calico", "blockers-cilium", "blockers-conclude",
           "finish-blockers", "egress-source", "egress-dns", "egress-context", "egress-urls",
           "egress-probe", "finish-egress", "done"}

Statuses == {"PASS", "INFO", "WARN", "FAIL", "SKIP", "policy-ambiguous", "runtime-unavailable"}

TypeOK ==
    /\ world \in World
    /\ flags \in Flags
    /\ pc \in Layers
    /\ DOMAIN report = Commands
    /\ \A c \in Commands : \A i \in report[c] : i.status \in Statuses
    /\ exit \in [Commands -> {0, 1, Running}]
    /\ ask \in Asks \cup {None}
    /\ \E list \in URLLists \cup {<<>>} : \E n \in 0..Len(list) : urls = SubSeq(list, n + 1, Len(list))
    /\ answered \subseteq UNION {ToSet(list) : list \in URLLists}

Init ==
    /\ world \in Worlds
    /\ flags \in Flags
    /\ pc = "native"
    /\ report = [c \in Commands |-> {}]
    /\ exit = [c \in Commands |-> Running]
    /\ ask = None
    /\ urls = <<>>
    /\ answered = {}

-------------------------------------------------------------------------------

access == world.access

\* report.Add, AddCategorized and Diagnose, addInsights.
Says(command, insights, next) ==
    /\ report' = [report EXCEPT ![command] = @ \cup insights]
    /\ pc' = next
    /\ UNCHANGED <<world, flags, exit, ask>>

HasFail(insights) == \E i \in insights : i.status = "FAIL"

Warnings == {"WARN", "policy-ambiguous", "runtime-unavailable"}

\* What makes the exit status 1; reportHasUnignoredWarn only with --fail-on-warn.
Counts(given, insights) ==
    \/ HasFail(insights)
    \/ given.failOnWarn /\ \E i \in insights : i.status \in Warnings \ given.ignored

\* finishReport and finishBlockersReport.
\* A plausible slip: the exit status is the number of failures.
FinishWithCount(command, next) ==
    /\ exit' = [exit EXCEPT ![command] = Cardinality({i \in report[command] : i.status = "FAIL"})]
    /\ pc' = next
    /\ UNCHANGED <<world, flags, report, ask, urls, answered>>
\* A plausible slip: only failures are looked at.
FinishOnFail(command, next) ==
    /\ exit' = [exit EXCEPT ![command] = IF HasFail(report[command]) THEN 1 ELSE 0]
    /\ pc' = next
    /\ UNCHANGED <<world, flags, report, ask, urls, answered>>
Finish(command, next) ==
    /\ exit' = [exit EXCEPT ![command] = IF Counts(flags, report[command]) THEN 1 ELSE 0]
    /\ pc' = next
    /\ UNCHANGED <<world, flags, report, ask, urls, answered>>

Targets == world.targets

\* The namespace a source has, the one of the target without a source.
SourceNamespace == IF world.source = None THEN world.namespace ELSE NamespaceOf[world.source]

\* buildCalicoDNSContext and buildCiliumDNSContext.
DNS == IF access.resolvConf THEN world.dns ELSE [world.dns EXCEPT !.nameservers = <<>>]

ServicePorts == Candidates(world.service, Targets)

-------------------------------------------------------------------------------
(* The policy layers of check service.                                     *)

\* checkNativeNetworkPolicies.
NativeInsights ==
    LET target == InNamespace(world.native, world.namespace)
        readable == access.nativeSource = "read" \/ SourceNamespace = world.namespace
        source == IF readable THEN InNamespace(world.native, SourceNamespace) ELSE {}
        selected == nativeTargetPolicies(target, Targets)
    IN  IF access.native = "error" THEN {Plain("native-policies", "WARN")}
        ELSE (IF readable THEN {} ELSE {Plain("source-native-policies", "WARN")})
             \cup (IF target \cup source = {} THEN {Plain("native-policies", "INFO")}
                   ELSE IF world.source = None
                   THEN {IF selected.status = "INFO" THEN selected
                         ELSE Insight("native-target-policies", "WARN", "NetworkPolicy-selects")}
                   ELSE IF ~access.labels THEN {selected, Plain("namespace-labels", "WARN")}
                   ELSE {selected,
                         analyzeNativeEgress(source, world.source, world.namespace, Targets,
                                             world.service, ServicePorts),
                         analyzeNativeIngress(target, world.source, Targets, ServicePorts)})

native ==
    /\ pc = "native"
    /\ Says("service", NativeInsights, "calico")
    /\ UNCHANGED <<urls, answered>>

\* checkCniPolicies, which needs target pods and their namespace.
Inspected == Targets # <<>> /\ access.labels

CalicoInsights ==
    CalicoAnalyze(world.calico, world.namespace, world.source, Targets, world.service, ServicePorts,
                  DNS, world.fallback, access.calico, access.calicoRead, world.staged)

calico ==
    /\ pc = "calico"
    /\ IF Inspected
       THEN Says("service", CalicoInsights,
                 IF world.service # None /\ world.service.exposed THEN "host" ELSE "cilium")
       ELSE Says("service",
                 {IF Targets = <<>> THEN Plain("CNI-policies", "SKIP") ELSE Plain("namespace-labels", "WARN")},
                 "finish-service")
    /\ UNCHANGED <<urls, answered>>

host ==
    /\ pc = "host"
    /\ Says("service", AnalyzeIngressSurface(world.calico, world.hosts, world.service, access.calico),
            "cilium")
    /\ UNCHANGED <<urls, answered>>

CiliumInsights ==
    CiliumAnalyze(world.cilium, world.namespace, SourceNamespace, world.source, Targets,
                  world.service, ServicePorts, DNS, access.cilium, access.endpoints)

cilium ==
    /\ pc = "cilium"
    /\ Says("service", CiliumInsights, "finish-service")
    /\ UNCHANGED <<urls, answered>>

finishService == pc = "finish-service" /\ Finish("service", "next")

-------------------------------------------------------------------------------
(* show blockers.                                                          *)

\* RunBlockers up to the policies: a pod that cannot be found ends the command
\* without a report.  On ingress the pods of the source are the target.
startBlockers ==
    /\ pc = "next"
    /\ ask' \in Asks
    /\ \/ /\ world.source # None /\ (ask'.direction = "ingress" => Targets # <<>>)
          /\ report' = [report EXCEPT !.blockers = {Plain("subject", "INFO"), Plain("target", "INFO")}]
          /\ pc' = "blockers-native"
          /\ UNCHANGED exit
       \/ /\ exit' = [exit EXCEPT !.blockers = 1]
          /\ pc' = "done"
          /\ UNCHANGED report
    /\ UNCHANGED <<world, flags, urls, answered>>

Subject == IF ask.direction = "egress" THEN world.source ELSE Targets[1]

ToPods ==
    IF ask.to \in {"namespace", "nothing"} THEN <<>>
    ELSE IF ask.direction = "egress" THEN Targets ELSE <<world.source>>

ToNamespace ==
    IF ask.to = "nothing" THEN None
    ELSE IF ask.direction = "egress" THEN world.namespace ELSE SourceNamespace

ToService == IF ask.to = "service" THEN world.service ELSE None

\* A list that fails is left out, with a warning.
NativeBlockers ==
    LET home == NamespaceOf[Subject]
        others == {ToNamespace} \ {None, home}
        Readable(namespace) == IF namespace = world.namespace THEN access.native = "read"
                               ELSE access.nativeSource = "read"
        read == {n \in {home} \cup others : Readable(n)}
        policies == {policy \in world.native : policy.namespace \in read}
    IN  addNativeBlockers(policies, ask.direction, Subject, ToNamespace, ToPods, ToService, ask.numbers)
            \cup (IF ask.numbers = {} \/ read = {home} \cup others THEN {}
                  ELSE {Plain("native-policies", "WARN")})

blockersNative ==
    /\ pc = "blockers-native"
    /\ Says("blockers", NativeBlockers, "blockers-calico")
    /\ UNCHANGED <<urls, answered>>

\* An analysis without a result is reported, too.
Or(insights, check) == IF insights = {} THEN {Plain(check, "INFO")} ELSE insights

CalicoBlockers ==
    CalicoShowBlockers(world.calico, ask.direction, Subject, ToNamespace, ToPods, ToService,
                       ask.numbers, ask.names, access.calico, access.calicoRead)

CiliumBlockers ==
    CiliumShowBlockers(world.cilium, ask.direction, Subject, ToNamespace, ToPods, ToService,
                       ask.numbers, ask.names, access.cilium)

blockersCalico ==
    /\ pc = "blockers-calico"
    /\ Says("blockers", Or(CalicoBlockers, "Calico-analysis"), "blockers-cilium")
    /\ UNCHANGED <<urls, answered>>

blockersCilium ==
    /\ pc = "blockers-cilium"
    /\ Says("blockers", Or(CiliumBlockers, "Cilium-analysis"), "blockers-conclude")
    /\ UNCHANGED <<urls, answered>>

NoBlocker == Insight("diagnosis", "INFO", "No-policy-blocker-was-identified")

blockersConclude ==
    /\ pc = "blockers-conclude"
    /\ Says("blockers", IF HasFail(report.blockers) THEN {} ELSE {NoBlocker}, "finish-blockers")
    /\ UNCHANGED <<urls, answered>>

finishBlockers == pc = "finish-blockers" /\ Finish("blockers", "done")

-------------------------------------------------------------------------------
(* check egress.                                                           *)

\* selectEgressSource: a pod that is named may not be ready (WARN); one found by a
\* selector is an INFO, which counts like PASS.  Not every failure is diagnosed.
egressSource ==
    /\ pc = "next"
    /\ \/ /\ world.source # None
          /\ \E status \in {"PASS", "WARN"} :
                Says("egress", {Plain("source", status)}, "egress-dns")
          /\ urls' \in URLLists
       \/ /\ \E diagnosis \in {"none", "source"} :
                Says("egress", {Insight("source", "FAIL", diagnosis), Plain("urls", "SKIP")},
                     "finish-egress")
          /\ UNCHANGED urls
    /\ UNCHANGED answered

egressDNS ==
    /\ pc = "egress-dns"
    /\ Says("egress",
            IF access.resolvConf
            THEN {Plain("resolv.conf", "PASS")}
                     \cup CiliumAnalyzeDNS(world.cilium, world.source, DNS, access.cilium)
            ELSE {Plain("resolv.conf", "WARN")},
            "egress-context")
    /\ UNCHANGED <<urls, answered>>

HomePolicies == InNamespace(world.native, SourceNamespace)

HomeReadable ==
    IF SourceNamespace = world.namespace THEN access.native = "read" ELSE access.nativeSource = "read"

egressContext ==
    /\ pc = "egress-context"
    /\ LET posture == IF HomeReadable THEN inspectEgressPolicyContext(HomePolicies, world.source)
                      ELSE Plain("native-egress-posture", "WARN")
           missing == IF urls = <<>> THEN {Insight("urls", "FAIL", "no-target")} ELSE {}
       IN  Says("egress", {posture} \cup missing, "egress-urls")
    /\ UNCHANGED <<urls, answered>>

\* The findings about one URL name it.
About(url, insights) ==
    {[check |-> i.check, status |-> i.status, diagnosis |-> i.diagnosis, url |-> url] : i \in insights}

\* inspectNativeEgressPortPosture, inspectCalicoEgressPortPosture and
\* inspectCiliumExternalEgressPosture.
URLPosture(url) ==
    (IF HomeReadable THEN inspectNativeEgressPortPosture(HomePolicies, world.source, url.port)
     ELSE {Plain("native-port", "WARN")})
        \cup CalicoShowBlockers(world.calico, "egress", world.source, None, <<>>, None, {url.port}, {},
                                access.calico, access.calicoRead)
        \cup AnalyzeExternalEgress(world.cilium, world.source, url.host, url.port, access.cilium)

\* A plausible slip: a URL that is not valid is tried again.
InvalidURLStays ==
    /\ pc = "egress-urls" /\ urls # <<>>
    /\ LET url == Head(urls)
       IN  Says("egress", About(url, IF url.valid THEN URLPosture(url) ELSE {Insight("url", "FAIL", "invalid-URL")}),
                IF url.valid THEN "egress-probe" ELSE "egress-urls")
    /\ UNCHANGED <<urls, answered>>
egressURL ==
    /\ pc = "egress-urls" /\ urls # <<>>
    /\ LET url == Head(urls)
           posture == IF url.port = 0 THEN {Plain("posture", "INFO")} ELSE URLPosture(url)
       IN  IF url.valid
           THEN Says("egress", About(url, posture), "egress-probe") /\ UNCHANGED urls
           ELSE /\ Says("egress", About(url, {Insight("url", "FAIL", "invalid-URL")}), "egress-urls")
                /\ urls' = Tail(urls)
    /\ UNCHANGED answered

\* hasDiagnosisContaining.
Diagnosed(kinds) == \E i \in report.egress : i.diagnosis \in kinds

\* Diagnoses with "runtime DNS resolver", or with any other word that the
\* last resort of RunEgress looks for; in check egress no text has the former.
PolicyBlame == {"egress-default-deny", "no-egress-allow-candidate-mentions", "Calico", "Calico-DNS",
                "Cilium-deny", "Cilium-default-deny", "Cilium-egress-default-deny", "Cilium-L7",
                "Cilium-ambiguous", "Cilium-parse"}

Resolution(resolved) ==
    CASE resolved = "yes"     -> Plain("resolve", "PASS")
      [] resolved = "no-tool" -> Plain("resolve", "runtime-unavailable")
      [] resolved = "no"      -> Insight("resolve", "FAIL", "DNS-resolution-failed")

\* What the network may do with the probe: an answer, or a refusal, comes only
\* over a connection that the policies let out.
LetOut(url) ==
    /\ NativeEgressLets(world.native, world.source, url.host, url.port)
    /\ CiliumEgressLets(world.cilium, world.source, url.host, url.port)
    /\ CalicoMayLetOut(world.calico, world.source, url.port)

\* A plausible slip: the last resort is left out when any diagnosis exists.
LastResortUnlessAny(resolved) == report.egress = {} /\ resolved = "yes"
LastResort(resolved) == ~Diagnosed(PolicyBlame \cup {"DNS-resolution-failed"}) /\ resolved # "no"

\* curlURL and classifyRuntimeHTTPFailure.
Probe(curl, resolved) ==
    CASE curl = "answer"  -> Plain("curl", "PASS")
      [] curl = "no-tool" -> Plain("curl", "runtime-unavailable")
      [] curl = "refused" -> Insight("curl", "FAIL", "reached,-but-refused")
      [] curl = "no-name" -> Insight("curl", "FAIL", "DNS-resolution-failed")
      [] curl = "timeout" -> Insight("curl", "FAIL", IF LastResort(resolved) THEN "outbound" ELSE "none")

egressProbe ==
    /\ pc = "egress-probe"
    /\ \E resolved \in {"yes", "no", "no-tool"}, curl \in {"answer", "refused", "no-tool", "no-name", "timeout"} :
          /\ curl \in {"answer", "refused"} => LetOut(Head(urls))
          /\ Says("egress", About(Head(urls), {Resolution(resolved), Probe(curl, resolved)}), "egress-urls")
          /\ answered' = answered \cup (IF curl \in {"answer", "refused"} THEN {Head(urls)} ELSE {})
    /\ urls' = Tail(urls)

egressEnd ==
    /\ pc = "egress-urls" /\ urls = <<>>
    /\ pc' = "finish-egress"
    /\ UNCHANGED <<world, flags, report, exit, ask, urls, answered>>

finishEgress == pc = "finish-egress" /\ Finish("egress", "done")

-------------------------------------------------------------------------------

CheckService == native \/ calico \/ host \/ cilium \/ finishService

Blockers ==
    startBlockers \/ blockersNative \/ blockersCalico \/ blockersCilium \/ blockersConclude \/ finishBlockers

Egress ==
    egressSource \/ egressDNS \/ egressContext \/ egressURL \/ egressProbe \/ egressEnd \/ finishEgress

Next == CheckService \/ Blockers \/ Egress

\* Each command is one thread of control that nothing stops.
Spec == Init /\ [][Next]_vars /\ WF_vars(Next)

-------------------------------------------------------------------------------
(* Properties.  The verdicts are those of check service; the numbers are   *)
(* the ports that the target pods listen on.                               *)

Verdict(command, check, status) == \E i \in report[command] : i.check = check /\ i.status = status

Numbers == IF HasChosen(world.service) THEN TargetNumbers(Chosen(world.service).target, Targets) ELSE {}

\* The Service does not shift its only port, and no pod names one otherwise.
OnePort ==
    /\ world.source # None /\ HasChosen(world.service) /\ Len(world.service.ports) = 1
    /\ Chosen(world.service).protocol = "TCP"
    /\ \E number \in Numbers : Numbers = {number}
    /\ ServicePorts = Numbers

\* Port ranges and named ports are beyond what native.go reads.
NativeReadable ==
    \A policy \in world.native : \A rule \in policy.egress \cup policy.ingress :
        /\ \A p \in rule.ports : p.end = 0 /\ p.port \notin PortNames
        /\ \A peer \in rule.peers : peer.block \cap VIPs = {}

\* On ingress a peer without namespaces is read as pods of any namespace.
PeersNameNamespaces ==
    \A policy \in world.native : \A rule \in policy.ingress : \A peer \in rule.peers :
        peer.pods # None => peer.namespaces # None

\* Blame for a native default deny is never false: on egress no target can be
\* reached, on ingress some target cannot.  Without a shifted port a PASS says
\* that some target can be reached (native.go:20-170).
NativeVerdictSound ==
    LET Out(pod, number) == NativeEgressLets(world.native, world.source, pod, number)
        Into(pod, number) == NativeIngressLets(world.native, world.source, pod, number)
    IN  world.source # None /\ NativeReadable /\ Targets # <<>> /\ Numbers # {} =>
        /\ Verdict("service", "native-egress", "policy-ambiguous") =>
               \A pod \in ToSet(Targets), number \in Numbers : ~Out(pod, number)
        /\ Verdict("service", "native-ingress", "policy-ambiguous") =>
               \E pod \in ToSet(Targets) : \A number \in Numbers : ~Into(pod, number)
        /\ OnePort /\ access.nativeSource = "read" /\ Verdict("service", "native-egress", "PASS") =>
               \E pod \in ToSet(Targets), number \in Numbers : Out(pod, number)
        /\ OnePort /\ PeersNameNamespaces /\ Verdict("service", "native-ingress", "PASS") =>
               \E pod \in ToSet(Targets), number \in Numbers : Into(pod, number)

\* Entries whose peers are labels, entities or addresses and whose ports are
\* numbers, which the target pods do not give to another protocol; the others get a
\* warning or are listed in the README.
CiliumEntries ==
    LET all == namedRules(world.cilium) IN
    UNION {all[i].egress \cup all[i].egressDeny \cup all[i].ingress \cup all[i].ingressDeny : i \in DOMAIN all}

CiliumReadable ==
    /\ access.cilium.namespaced = "read" /\ access.cilium.clusterwide = "read"
    /\ \A c \in PortsOf(Targets) : c.number \in Numbers => c.protocol = "TCP"
    /\ \A e \in CiliumEntries :
          e.peers.services = <<>> /\ e.peers.requires = {} /\ e.fqdns = {} /\ ~UseNamedPorts(e.ports)

\* A FAIL of the Cilium layer is never false and a PASS is true for some target:
\* denies come before allows, and a range of ports is a range
\* (cilium/analyze.go:575-876).
CiliumVerdictSound ==
    LET Out(pod, number) == CiliumEgressLets(world.cilium, world.source, pod, number)
        Into(pod, number) == CiliumIngressLets(world.cilium, world.source, pod, number)
    IN  OnePort /\ Targets # <<>> /\ CiliumReadable =>
        /\ Verdict("service", "Cilium-egress", "FAIL") =>
               \E pod \in ToSet(Targets), number \in Numbers : ~Out(pod, number)
        /\ Verdict("service", "Cilium-egress", "PASS") =>
               \E pod \in ToSet(Targets), number \in Numbers : Out(pod, number)
        /\ Verdict("service", "Cilium-ingress", "FAIL") =>
               \E pod \in ToSet(Targets), number \in Numbers : ~Into(pod, number)
        /\ Verdict("service", "Cilium-ingress", "PASS") =>
               \E pod \in ToSet(Targets), number \in Numbers : Into(pod, number)

\* Without named ports and ranges in text, an empty list of ports beside notPorts,
\* Services, criteria that the address of a Service meets, network sets that are
\* selected or cannot be read, selectors over several namespaces, or a port on the
\* wrong side of an ingress rule, all of which the README lists.
CalicoReadable ==
    LET Tokens(entity) == entity.notPorts \cup (IF entity.ports = None THEN {} ELSE entity.ports)
        Pure(entity, home) ==
            /\ entity.services = None /\ entity.sets = {} /\ ~entity.labelled
            /\ entity.nets = None \/ entity.nets \cap VIPs = {}
            /\ (entity.notNets \cup entity.notSets) \cap VIPs = {}
            /\ access.calicoRead.sets \/ entity.notSets = {}
            /\ entity.ports = {} => entity.notPorts = {}
            /\ entity.selector # None /\ entity.namespaces = None =>
                  \A pod \in entity.selector \ {None} : home \in {None, NamespaceOf[pod]}
            /\ \A token \in Tokens(entity) : token.name = None /\ (token.text => token.min = token.max)
    IN  /\ access.calico.namespaced = "read" /\ access.calico.global = "read"
        /\ \A p, q \in world.calico : p.tierOrder = q.tierOrder /\ (p.order = q.order => p = q)
        /\ \A p \in world.calico :
               /\ \A rule \in ToSet(p.ingress) \cup ToSet(p.egress) :
                      Pure(rule.source, p.namespace) /\ Pure(rule.destination, p.namespace)
               /\ \A rule \in ToSet(p.ingress) : Tokens(rule.source) \cup Tokens(rule.destination) = {}
               /\ \A rule \in ToSet(p.egress) : Tokens(rule.source) = {}

\* For one target pod the Calico layer says what the first rule that holds says,
\* in both directions (calico/analyze.go:1332-1565).
CalicoVerdictSound ==
    OnePort /\ Len(Targets) = 1 /\ CalicoReadable =>
        \A i \in report.service, number \in Numbers :
            /\ i.check = "Calico-egress" =>
                  i.status = CalicoSays(world.calico, "egress", world.source, Targets[1], number,
                                        world.fallback.egress)
            /\ i.check = "Calico-ingress" =>
                  i.status = CalicoSays(world.calico, "ingress", world.source, Targets[1], number,
                                        world.fallback.ingress)

\* Asked for the same path, show blockers names a blocker of every engine that
\* check service blames on egress; profiles it does not read (check/blockers.go).
BlockersExplainPath ==
    LET Blocks(checks) == \E i \in report.blockers : i.check \in checks /\ i.status = "FAIL"
        same == /\ exit.blockers # Running /\ report.blockers # {} /\ ask.direction = "egress"
                /\ ask.to = "service" /\ ask.numbers = ServicePorts /\ ask.names = {}
                /\ ask.numbers # {} /\ Targets # <<>>
    IN  same =>
        /\ Verdict("service", "native-egress", "policy-ambiguous") => Blocks({"native-blockers"})
        /\ /\ Verdict("service", "Calico-egress", "FAIL")
           /\ world.fallback.egress # "FAIL" /\ access.calico.global # "error"
           => Blocks({"Calico-deny", "Calico-default-deny"})
        /\ Verdict("service", "Cilium-egress", "FAIL") /\ access.cilium.clusterwide # "error" =>
               Blocks({"Cilium-egress"})

\* check service and check egress agree on the resolver: what is wrong with the
\* policies of the target's namespace does not change it (cilium/analyze.go:355-429).
DNSVerdictsAgree ==
    \A i \in report.service, j \in report.egress :
        i.check = "Cilium-DNS" /\ j.check = "Cilium-DNS" => i = j

\* A URL that answered is not blamed on a policy: an answer proves that there is
\* no default deny (egress.go:85-147, 226-253).
ReachedIsNotBlamed ==
    \A url \in answered, i \in {j \in report.egress : j.status = "FAIL" /\ j.check \notin {"Cilium-DNS", "urls"}} :
        i.url = url =>
            /\ i.check = "native-port" => ~NativeReadable
            /\ i.check = "Calico-default-deny" => ~CalicoReadable
                  \/ \E p \in world.calico : \E rule \in ToSet(p.egress) : rule.action = "pass"
            /\ i.check # "Cilium-outbound"

\* A report of check egress that fails a URL has a diagnosis (egress.go:126-147).
EgressFailureExplained ==
    Verdict("egress", "curl", "FAIL") \/ Verdict("egress", "resolve", "FAIL") \/ Verdict("egress", "url", "FAIL") =>
        \E i \in report.egress : i.diagnosis # "none"

ServiceReport == INSTANCE Report WITH findings <- report.service, exit <- exit.service
BlockersReport == INSTANCE Report WITH findings <- report.blockers, exit <- exit.blockers
EgressReport == INSTANCE Report WITH findings <- report.egress, exit <- exit.egress

\* Every command keeps the promise of Report: one exit status, after the last
\* finding, which is 0 only when none counts (cli.go:517-616).
CommandsReport == ServiceReport!Spec /\ BlockersReport!Spec /\ EgressReport!Spec

\* Every session ends: each URL is tested once, whatever it is (egress.go:60-147).
SessionEnds == <>(pc = "done")

===============================================================================
