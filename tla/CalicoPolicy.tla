----------------------------- MODULE CalicoPolicy -----------------------------
(***************************************************************************)
(* How the policies of Calico are read: what a rule matches (which         *)
(* CalicoDecision leaves out), the path of check service, its resolvers,   *)
(* the policies of host endpoints, and show blockers.  The choice among    *)
(* the matches is that of CalicoDecision, here in closed form; the verdict *)
(* of the workload profiles is an input.                                   *)
(***************************************************************************)
EXTENDS PolicyWorld

CONSTANT AddressOrder  \* the addresses in the order of their texts

ASSUME AddressAssumption == AddressOrder \in Seq(Address) /\ ToSet(AddressOrder) = Address

\* A port of a rule is a name, a number or range as numbers, or the text of
\* a number or of a range "min:max".
PortToken == [name : PortNames \cup {None}, min : PortNumber, max : PortNumber, text : BOOLEAN]

ServiceMatch == [name : ServiceNames, namespace : Namespaces \cup {None}]

\* sets and notSets are the addresses of the network sets that the selector and
\* the negated selector match; labelled: accounts come from a label selector.
Entity == [nets : Optional(Address), notNets : SUBSET Address, services : Optional(ServiceMatch),
           accounts : Optional(Pods \cup {None}), labelled : BOOLEAN,
           namespaces : Optional(Namespaces), selector : Optional(Pods \cup {None}),
           sets : SUBSET Address, notSelector : Optional(Pods \cup {None}),
           notSets : SUBSET Address, ports : Optional(PortToken), notPorts : SUBSET PortToken]

AnyEntity == [nets |-> None, notNets |-> {}, services |-> None, accounts |-> None,
              labelled |-> FALSE, namespaces |-> None, selector |-> None, sets |-> {},
              notSelector |-> None, notSets |-> {}, ports |-> None, notPorts |-> {}]

Action == {"allow", "deny", "pass", "log"}

\* extra: HTTP or ICMP criteria, which only earn a remark.
CalicoRule == [action : Action, protocol : {"none", "tcp", "udp", "other"},
               extra : {"none", "http", "icmp"}, source : Entity, destination : Entity]

\* name is the rank of the policy's name.  bad: a selector does not parse.
CalicoPolicyObject ==
    [name : Nat, namespace : Namespaces \cup {None}, bad : BOOLEAN, selects : SUBSET Pods,
     types : SUBSET {"ingress", "egress"}, tierOrder : Nat, order : Nat,
     modes : SUBSET {"preDNAT", "doNotTrack", "applyOnForward"}, selectsHosts : SUBSET Hosts,
     ingress : Seq(CalicoRule), egress : Seq(CalicoRule)]

\* What the profiles of the endpoints say, "none" where there is no profile.
Fallbacks == [egress : {"none", "PASS", "FAIL"}, ingress : {"none", "PASS", "FAIL"},
              dns : {"none", "PASS", "FAIL"}]

-------------------------------------------------------------------------------
(* Which policies are looked at.                                           *)

policyHasType(policy, direction) ==
    IF policy.types = {} THEN direction = "ingress" \/ policy.egress # <<>>
    ELSE direction \in policy.types

policySelectsTarget(policy, namespace, pods) ==
    /\ policy.namespace \in {None, namespace}
    /\ ~policy.bad
    /\ policy.selects \cap pods # {}

\* policiesForPod and policiesForAnyPod.
policiesFor(policies, namespace, pods, direction) ==
    {policy \in policies : /\ policyHasType(policy, direction)
                           /\ policySelectsTarget(policy, namespace, pods)}

\* listNamespacedCalico, and the global policies.
CalicoListed(policies, namespaces, global) ==
    {policy \in policies : policy.namespace \in namespaces \/ (global /\ policy.namespace = None)}

-------------------------------------------------------------------------------
(* Ports.                                                                  *)

PortCandidate(number, name) == [number |-> number, name |-> name]

\* A port given as text is only the number the text begins with.
portTokenMatches(token, c) ==
    IF token.name # None THEN c.name = token.name
    ELSE IF token.text THEN c.number = token.min
    ELSE token.min <= c.number /\ c.number <= token.max

\* A plausible slip: a port is compared with notPorts only where there are no ports.
PortsOrNotPorts(entity, candidates) ==
    \/ candidates = {}
    \/ IF entity.ports # None
       THEN \E c \in candidates, token \in entity.ports : portTokenMatches(token, c)
       ELSE \E c \in candidates : \A token \in entity.notPorts : ~portTokenMatches(token, c)
calicoEntityPortsMatch(entity, candidates) ==
    \/ candidates = {} \/ entity.ports = {}
    \/ \E c \in candidates :
          /\ entity.ports # None => \E token \in entity.ports : portTokenMatches(token, c)
          /\ \A token \in entity.notPorts : ~portTokenMatches(token, c)

\* The number of a named target port: that of the last container port with the name.
NamedTargetNumber(p, pods) ==
    LET all == FlattenSeq([i \in DOMAIN pods |-> ContainerPorts[pods[i]]])
        named == {i \in DOMAIN all : all[i].name = p.target}
    IN  IF named = {} THEN p.port ELSE all[Max(named)].number

calicoPathPortCandidates(ports, service, pods) ==
    LET servicePorts == IF service = None THEN {} ELSE ToSet(service.ports) IN
    {PortCandidate(number, None) : number \in ports}
        \cup {PortCandidate(p.port, p.name) :
                  p \in {q \in servicePorts : q.port \in ports /\ q.name # None}}
        \cup {PortCandidate(NamedTargetNumber(p, pods), p.target) :
                  p \in {q \in servicePorts : q.target \in PortNames}}
        \cup {PortCandidate(c.number, c.name) :
                  c \in {d \in PortsOf(pods) : d.name # None /\ d.number \in ports}}

blockerPortCandidates(ports, names, service, pods) ==
    calicoPathPortCandidates(ports, service, pods) \cup {PortCandidate(0, name) : name \in names}

-------------------------------------------------------------------------------
(* Peers.                                                                  *)

\* An endpoint as the criteria see it; pod is None where nothing is known of it.
Peer(pod, namespace) ==
    [pod |-> pod, namespace |-> namespace, addresses |-> {pod} \ {None}]

calicoServicesMatch(entity, service) ==
    entity.services # None =>
        /\ service # None
        /\ \/ entity.services = {}
           \/ \E s \in entity.services :
                 s.name = service.name /\ s.namespace \in {None, service.namespace}

calicoServiceAccountMatches(entity, peer, read) ==
    entity.accounts # None => peer.pod \in entity.accounts /\ (entity.labelled => read.accounts)

\* A match through a network set is not asked the selectors again, nor the
\* negated one.
calicoEntityMatchesPod(entity, peer, service, read) ==
    LET addresses == peer.addresses \cup (IF service = None THEN {} ELSE {service.vip})
        InSets(sets) == read.sets /\ sets \cap addresses # {}
    IN  /\ entity.nets # None => entity.nets \cap addresses # {}
        /\ entity.notNets \cap addresses = {}
        /\ calicoServicesMatch(entity, service)
        /\ calicoServiceAccountMatches(entity, peer, read)
        /\ \/ entity.selector # None /\ InSets(entity.sets)
           \/ /\ entity.namespaces # None => peer.namespace \in entity.namespaces
              /\ entity.selector # None => peer.pod \in entity.selector
              /\ entity.notSelector # None =>
                    peer.pod \notin entity.notSelector /\ ~InSets(entity.notSets)

-------------------------------------------------------------------------------
(* Rules.                                                                  *)

calicoRuleProtocolMatches(rule) == rule.protocol \in {"none", "tcp"}

\* The ports of a rule are those of its peer, on ingress too.
PeerEntity(rule, direction) == IF direction = "egress" THEN rule.destination ELSE rule.source

SubjectEntity(rule, direction) == IF direction = "egress" THEN rule.source ELSE rule.destination

ruleMatchesPath(rule, direction, path) ==
    /\ calicoRuleProtocolMatches(rule)
    /\ calicoEntityPortsMatch(PeerEntity(rule, direction), path.candidates)
    /\ \/ rule.source = AnyEntity
       \/ calicoEntityMatchesPod(rule.source, path.source, None, path.read)
    /\ \/ rule.destination = AnyEntity
       \/ \E target \in path.targets :
             calicoEntityMatchesPod(rule.destination, target, path.service, path.read)

\* dnsPodsForResolver: of a resolver that is a pod, all pods of its kind.
calicoPodsForResolver(resolver, dns) ==
    IF resolver \in LinkLocal THEN dns.nodeLocal
    ELSE IF resolver = dns.service \/ resolver \in dns.coreDNS THEN dns.coreDNS
    ELSE IF resolver \in dns.nodeLocal THEN dns.nodeLocal ELSE {}

\* The resolver as an endpoint without labels in kube-system, then its pods.
ruleMatchesDNSResolver(rule, resolver, dns, read) ==
    LET service == IF resolver # dns.service THEN None
                   ELSE [name |-> KubeDNS, namespace |-> KubeSystem, vip |-> resolver]
        fake == [pod |-> None, namespace |-> KubeSystem, addresses |-> {resolver}]
    IN  /\ rule.protocol # "other"
        /\ calicoEntityPortsMatch(rule.destination, {PortCandidate(53, None)})
        /\ \E peer \in {fake} \cup {Peer(pod, KubeSystem) : pod \in calicoPodsForResolver(resolver, dns)} :
              calicoEntityMatchesPod(rule.destination, peer, service, read)

-------------------------------------------------------------------------------
(* Matches and the one that decides.                                       *)

RulesOf(policies, direction) == UNION {ToSet(policy[direction]) : policy \in policies}

\* The matches of each policy, up to the first whose action is final; a rule
\* that only logs is no match.
RuleMatches(policies, direction, applying, final) ==
    LET Hits(policy) == {i \in DOMAIN policy[direction] :
                            policy[direction][i] \in applying /\ policy[direction][i].action # "log"}
        Reached(policy) == {i \in Hits(policy) :
                               \A j \in Hits(policy) :
                                   j < i => policy[direction][j].action \notin final}
    IN  UNION {{[tierOrder |-> policy.tierOrder, order |-> policy.order, index |-> i,
                 policy |-> policy.name, action |-> policy[direction][i].action] :
                    i \in Reached(policy)} : policy \in policies}

\* sortRuleMatches.
SortedBefore(m, n) ==
    \/ m.tierOrder < n.tierOrder
    \/ /\ m.tierOrder = n.tierOrder
       /\ \/ m.order < n.order
          \/ m.order = n.order /\ m.index < n.index
          \/ m.order = n.order /\ m.index = n.index /\ m.policy < n.policy

FirstOf(matches) == CHOOSE m \in matches : \A n \in matches : ~SortedBefore(n, m)

\* The first match of every tier order.
TierFirsts(matches) ==
    {m \in matches : ~\E n \in matches : n.tierOrder = m.tierOrder /\ SortedBefore(n, m)}

OrElse(fallback, default) == IF fallback = "none" THEN default ELSE fallback

\* calicoDirectionDecision, with effectiveCalicoMatchAfterPass.
DirectionStatus(policies, matches, fallback) ==
    LET decisive == {m \in TierFirsts(matches) : m.action # "pass"} IN
    IF policies = {} THEN OrElse(fallback, "PASS")
    ELSE IF matches = {} THEN "FAIL"
    ELSE IF decisive = {} THEN OrElse(fallback, "WARN")
    ELSE IF FirstOf(decisive).action = "allow" THEN "PASS" ELSE "FAIL"

Judged(check, status) ==
    Insight(check, status, IF status = "FAIL" THEN "Calico" ELSE "none")

\* calicoDNSDecision: one Pass is followed, and every match of a policy counts.
\* What no rule decides is told as a default deny of the runtime DNS resolver.
DNSDecision(matches, fallback) ==
    LET first == FirstOf(matches)
        later == {m \in matches : m.tierOrder > first.tierOrder}
        action == IF matches = {} THEN "none"
                  ELSE IF first.action = "pass" /\ later # {} THEN FirstOf(later).action ELSE first.action
    IN  CASE action = "allow" -> Plain("Calico-DNS", "PASS")
          [] action = "deny"  -> Judged("Calico-DNS", "FAIL")
          [] action = "pass" /\ later = {} -> Judged("Calico-DNS", OrElse(fallback, "WARN"))
          [] OTHER -> Insight("Calico-DNS", "FAIL", "runtime-DNS-resolver")

calicoDirectionDecision(policies, direction, path, fallback) ==
    LET applying == {rule \in RulesOf(policies, direction) : ruleMatchesPath(rule, direction, path)}
        matches == RuleMatches(policies, direction, applying, {"allow", "deny"})
        check == IF direction = "egress" THEN "Calico-egress" ELSE "Calico-ingress"
    IN  Judged(check, DirectionStatus(policies, matches, fallback))

\* analyzeDNSEgress: the resolvers in the order of their texts until one does not pass.
analyzeDNSEgress(policies, dns, fallback, read) ==
    LET Decision(resolver) ==
            LET applying == {rule \in RulesOf(policies, "egress") :
                                ruleMatchesDNSResolver(rule, resolver, dns, read)}
            IN  DNSDecision(RuleMatches(policies, "egress", applying, {}), fallback)
        open == SelectSeq(AddressOrder, LAMBDA r : r \in ToSet(dns.nameservers) /\ Decision(r).status # "PASS")
    IN  IF dns.nameservers = <<>> THEN {}
        ELSE IF policies = {} THEN {Judged("Calico-DNS", OrElse(fallback, "PASS"))}
        ELSE IF open = <<>> THEN {Plain("Calico-DNS", "PASS")}
        ELSE {Decision(Head(open))}

-------------------------------------------------------------------------------
(* check service.                                                          *)

\* What a policy earns whatever the path: unsupportedPolicyInsights.
Unsupported(policy) ==
    {Insight("Calico-mode", "WARN", "Calico") : mode \in policy.modes \cap {"preDNAT", "doNotTrack"}}
        \cup {Plain("Calico-forward", "WARN") : mode \in policy.modes \cap {"applyOnForward"}}
        \cup (UNION {LET special == SelectSeq(rules, LAMBDA r : r.extra # "none") IN
                     IF special = <<>> THEN {}
                     ELSE IF Head(special).extra = "http" THEN {Plain("Calico-HTTP", "WARN")}
                     ELSE {Plain("Calico-ICMP", "INFO")} : rules \in {policy.ingress, policy.egress}})

\* Only the ingress policies that could select the target are reported.
Malformed(policies, namespace) ==
    {policy \in policies : /\ policy.bad /\ policyHasType(policy, "ingress")
                           /\ policy.namespace \in {None, namespace}}

\* outcome: how the lists of namespaced and of global policies ended.  The optional
\* lists are empty where they could not be read, without a word.
CalicoAnalyze(policies, namespace, source, targets, service, ports, dns, fallback, outcome, read, staged) ==
    LET home == IF source = None THEN {namespace} ELSE {namespace, NamespaceOf[source]}
        all == CalicoListed(policies, home, outcome.global = "read")
        targetPolicies == policiesFor(all, namespace, ToSet(targets), "ingress")
        sourcePolicies == policiesFor(all, NamespaceOf[source], {source}, "egress")
        path == [source |-> Peer(source, NamespaceOf[source]),
                 targets |-> {Peer(pod, namespace) : pod \in ToSet(targets)}, service |-> service,
                 candidates |-> calicoPathPortCandidates(ports, service, targets), read |-> read]
    IN  IF outcome.namespaced = "absent" THEN {}
        ELSE IF outcome.namespaced = "error" THEN {Plain("Calico-policies", "WARN")}
        ELSE (IF outcome.global = "error" THEN {Plain("Calico-global-policies", "WARN")} ELSE {})
                 \cup (UNION {Unsupported(policy) : policy \in all})
                 \cup (IF staged THEN {Plain("Calico-staged", "INFO")} ELSE {})
                 \cup (IF Malformed(all, namespace) = {} THEN {}
                       ELSE {Insight("Calico-parse", "WARN", "Calico")})
                 \cup {Plain("Calico-target-policies", IF targetPolicies = {} THEN "INFO" ELSE "WARN")}
                 \cup (IF source = None THEN {}
                       ELSE {Plain("Calico-source-policies", IF sourcePolicies = {} THEN "PASS" ELSE "WARN"),
                             calicoDirectionDecision(sourcePolicies, "egress", path, fallback.egress),
                             calicoDirectionDecision(targetPolicies, "ingress", path, fallback.ingress)}
                                \cup analyzeDNSEgress(sourcePolicies, dns, fallback.dns, read))

-------------------------------------------------------------------------------
(* The policies of host endpoints, for a Service that is exposed on nodes.  *)

calicoIngressPorts(service) ==
    {p.port : p \in ToSet(service.ports)} \cup ({p.nodePort : p \in ToSet(service.ports)} \ {0})

validHostPolicy(policy) ==
    LET special == policy.modes \cap {"preDNAT", "doNotTrack"} IN
    /\ special # {} => special # {"preDNAT", "doNotTrack"} /\ "applyOnForward" \in policy.modes
    /\ "preDNAT" \in special => policyHasType(policy, "ingress")

\* Who sends does not matter: a rule with source criteria decides like any other.
hostPolicyRuleMatchesIngress(rule, candidates) ==
    /\ calicoRuleProtocolMatches(rule)
    /\ calicoEntityPortsMatch(rule.destination, candidates)

calicoPolicySelectsHostEndpoint(policy, hosts) == ~policy.bad /\ policy.selectsHosts \cap hosts # {}

\* The matches of all policies, whichever host endpoint they select.
hostPolicyRuleMatches(policies, hosts, ports) ==
    LET selecting == {policy \in policies : /\ policyHasType(policy, "ingress")
                                            /\ calicoPolicySelectsHostEndpoint(policy, hosts)}
        applying == {rule \in RulesOf(selecting, "ingress") :
            hostPolicyRuleMatchesIngress(rule, {PortCandidate(number, None) : number \in ports})}
    IN  RuleMatches(selecting, "ingress", applying, {"allow", "deny"})

UsesNamedHostPorts(policy) ==
    \E i \in DOMAIN policy.ingress :
        LET entity == policy.ingress[i].destination IN
        \E token \in entity.notPorts \cup (IF entity.ports = None THEN {} ELSE entity.ports) :
            token.name # None

\* What the first match says; one that passes is not followed.
HostVerdict(matches) ==
    IF matches = {} THEN Judged("Calico-host-path", "FAIL")
    ELSE CASE FirstOf(matches).action = "deny"  -> Judged("Calico-host-path", "FAIL")
           [] FirstOf(matches).action = "allow" -> Judged("Calico-host-path", "PASS")
           [] OTHER -> Judged("Calico-host-path", "WARN")

analyzeIngressSurface(global, hosts, ports) ==
    LET moded == {policy \in global : policy.modes # {}}
        valid == {policy \in moded : validHostPolicy(policy)}
        selecting == {policy \in valid : calicoPolicySelectsHostEndpoint(policy, hosts)}
        Mode(policy) == Plain("Calico-host-mode",
                              IF policy.modes = {"applyOnForward"} THEN "INFO" ELSE "WARN")
    IN  (IF moded = valid THEN {} ELSE {Insight("Calico-host-policy", "WARN", "Calico")})
            \cup (IF valid = {} THEN {Plain("Calico-host-policies", "INFO")}
                  ELSE IF hosts = {} THEN {Insight("Calico-host-endpoints", "WARN", "Calico")}
                  ELSE {Mode(policy) : policy \in selecting}
                           \cup {Plain("Calico-host-policies", "INFO") : policy \in valid \ selecting}
                           \cup (IF selecting = {} THEN {Plain("Calico-host-path", "PASS")}
                                 ELSE {Plain("Calico-host-selected", "WARN"),
                                       HostVerdict(hostPolicyRuleMatches(valid, hosts, ports))}
                                          \cup {Plain("Calico-host-ports", "WARN") :
                                                    policy \in {p \in selecting : UsesNamedHostPorts(p)}}))

AnalyzeIngressSurface(policies, hosts, service, outcome) ==
    IF outcome.global = "absent" THEN {}
    ELSE IF outcome.global = "error" THEN {Plain("Calico-global-policies", "WARN")}
    ELSE analyzeIngressSurface(CalicoListed(policies, {}, TRUE), hosts, calicoIngressPorts(service))

-------------------------------------------------------------------------------
(* show blockers.  A pass is no match here, and a deny does not end a policy. *)

\* On ingress the first target pod stands for the source.  With a name alone the
\* matching is written out again: the source criteria are then asked of the
\* subject, and the destination criteria of every target pod.
blockerRuleMatchesPath(rule, direction, subject, namespace, targets, service, ports, names, read) ==
    LET self == Peer(subject, NamespaceOf[subject])
        others == {Peer(pod, namespace) : pod \in ToSet(targets)}
        first == Peer(IF targets = <<>> THEN None ELSE targets[1], namespace)
        candidates == blockerPortCandidates(ports, names, service, targets)
    IN  IF direction = "egress"
        THEN ruleMatchesPath(rule, "egress", [source |-> self, targets |-> others, service |-> service,
                                              candidates |-> candidates, read |-> read])
        ELSE IF ports # {}
        THEN ruleMatchesPath(rule, "ingress", [source |-> first, targets |-> {self}, service |-> None,
                 candidates |-> calicoPathPortCandidates(ports, None, <<subject>>), read |-> read])
        ELSE /\ calicoRuleProtocolMatches(rule)
             /\ calicoEntityPortsMatch(rule.source, candidates)
             /\ rule.destination # AnyEntity =>
                   \A other \in others : calicoEntityMatchesPod(rule.destination, other, service, read)
             /\ rule.source # AnyEntity => calicoEntityMatchesPod(rule.source, self, None, read)

\* Denies fail; an allow counts only without denies; neither is default deny.
\* A plausible slip: an allow that comes later hides a deny.
BlockersAllowFirst(matches, allowed) ==
    IF \E m \in matches : m.action = "allow" THEN {Plain("Calico-allow", allowed)}
    ELSE {Judged("Calico-default-deny", "FAIL")}
BlockersVerdict(matches, allowed) ==
    IF \E m \in matches : m.action = "deny" THEN {Judged("Calico-deny", "FAIL")}
    ELSE IF \E m \in matches : m.action = "allow" THEN {Plain("Calico-allow", allowed)}
    ELSE {Judged("Calico-default-deny", "FAIL")}

pathSpecificBlockers(selected, direction, applying) ==
    BlockersVerdict(RuleMatches(selected, direction, applying, {"allow"}), "PASS")

\* The network sets are not known here.
ruleAppliesToSubject(rule, direction, subject, read) ==
    LET entity == SubjectEntity(rule, direction) IN
    \/ entity = AnyEntity
    \/ calicoEntityMatchesPod(entity, Peer(subject, NamespaceOf[subject]), None, [read EXCEPT !.sets = FALSE])

\* Allows are shown beside denies.
portPostureBlockers(selected, direction, subject, ports, names, read) ==
    LET candidates == blockerPortCandidates(ports, names, None, <<>>)
        applying == {rule \in RulesOf(selected, direction) :
            /\ calicoRuleProtocolMatches(rule)
            /\ ruleAppliesToSubject(rule, direction, subject, read)
            /\ calicoEntityPortsMatch(PeerEntity(rule, direction), candidates)}
        matches == RuleMatches(selected, direction, applying, {"allow"})
    IN  BlockersVerdict(matches, "INFO")
            \cup {Plain("Calico-allow", "INFO") : m \in {n \in matches : n.action = "allow"}}

\* An error of the list of namespaced policies becomes a warning of the command.
CalicoShowBlockers(policies, direction, subject, namespace, targets, service, ports, names, outcome, read) ==
    LET home == NamespaceOf[subject]
        all == CalicoListed(policies, {home, namespace} \ {None}, outcome.global = "read")
        selected == policiesFor(all, home, {subject}, direction)
        applying == {rule \in RulesOf(selected, direction) :
            blockerRuleMatchesPath(rule, direction, subject, namespace, targets, service, ports, names, read)}
    IN  IF outcome.namespaced = "absent" THEN {}
        ELSE IF "error" \in {outcome.namespaced, outcome.global} THEN {Plain("Calico-policies", "WARN")}
        ELSE IF selected = {} THEN {Plain("Calico-selected", "PASS")}
        ELSE {Plain("Calico-selected", "WARN")}
                 \cup (IF namespace # None /\ (service # None \/ targets # <<>>)
                       THEN pathSpecificBlockers(selected, direction, applying)
                       ELSE portPostureBlockers(selected, direction, subject, ports, names, read))

===============================================================================
