----------------------------- MODULE CiliumPolicy -----------------------------
(***************************************************************************)
(* How CiliumNetworkPolicy and CiliumClusterwideNetworkPolicy are read:    *)
(* the path of check service, DNS and outbound URLs of check egress, and   *)
(* show blockers.  The rules are those that Cilium's own parser made, so   *)
(* that a selector is confined to the namespace of its policy.             *)
(***************************************************************************)
EXTENDS PolicyWorld

\* port is None where it is left out; end is endPort, 0 without.
PortProtocol == [port : 0..MaxPort \cup PortNames \cup {None}, end : Nat,
                 protocol : Protocol \cup {"ANY"}]

\* l7: there are rules for HTTP, DNS, server names, or TLS.
PortRule == [ports : SUBSET PortProtocol, l7 : BOOLEAN]

\* An item of toServices: a name, or a selector for the labels of Services.
ServiceReference == [selector : BOOLEAN, services : SUBSET ServiceNames,
                     namespace : Namespaces \cup {None}]

\* groups: the addresses that come from CIDR groups.  A selector may match a
\* pod that nothing is known of.
Peers == [endpoints : SUBSET SUBSET (Pods \cup {None}), requires : SUBSET SUBSET (Pods \cup {None}),
          services : Seq(ServiceReference), entities : SUBSET {"all", "cluster", "world", "host"},
          cidrs : Optional(Address), groups : SUBSET Address]

NoCriteria(peers) ==
    /\ peers.endpoints = {} /\ peers.services = <<>> /\ peers.entities = {}
    /\ peers.cidrs = None

Entry == [peers : Peers, ports : SUBSET PortRule, fqdns : SUBSET Hosts]

CiliumRule == [selects : SUBSET Pods, egress : SUBSET Entry, egressDeny : SUBSET Entry,
               ingress : SUBSET Entry, ingressDeny : SUBSET Entry]

\* bad: the parser refuses the object.  A clusterwide policy has no namespace.
CiliumPolicyObject == [namespace : Namespaces \cup {None}, bad : BOOLEAN, rules : Seq(CiliumRule)]

\* What the parser accepts: endPort is not below port, CIDR groups are items of a
\* list of CIDRs, names of hosts stand alone, and not in a deny.  It confines the
\* selector of a policy to the namespace of the policy.
SanitizedEntry(e) ==
    /\ e.fqdns # {} => NoCriteria(e.peers)
    /\ e.peers.groups # {} => e.peers.cidrs # None
    /\ \A portRule \in e.ports : \A p \in portRule.ports :
          p.port \in PortNumber /\ p.end # 0 => p.port <= p.end

Sanitized(policy) ==
    \A rule \in ToSet(policy.rules) :
        /\ policy.namespace # None => \A pod \in rule.selects : NamespaceOf[pod] = policy.namespace
        /\ \A e \in rule.egress \cup rule.egressDeny \cup rule.ingress \cup rule.ingressDeny : SanitizedEntry(e)
        /\ \A e \in rule.egressDeny \cup rule.ingress \cup rule.ingressDeny : e.fqdns = {}

-------------------------------------------------------------------------------
(* Which rules are looked at.                                              *)

In(policies, namespace) ==
    FlattenSeq([i \in DOMAIN policies |->
                   IF policies[i].namespace = namespace THEN <<policies[i]>> ELSE <<>>])

\* listNamespacedCilium, each namespace once, then the clusterwide policies.
Listed(policies, namespace, other, clusterwide) ==
    In(policies, namespace)
        \o (IF other \in {None, namespace} THEN <<>> ELSE In(policies, other))
        \o (IF clusterwide THEN In(policies, None) ELSE <<>>)

\* A plausible slip: a refused policy takes the rest of the list with it.
namedRulesUntilBad(list) ==
    IF \E i \in DOMAIN list : list[i].bad THEN <<>> ELSE FlattenSeq([i \in DOMAIN list |-> list[i].rules])
namedRules(list) ==
    FlattenSeq([i \in DOMAIN list |-> IF list[i].bad THEN <<>> ELSE list[i].rules])

SelectsAny(rule, pods) == rule.selects \cap pods # {}

\* What the rules of a list that select one of the pods have in one section.
Section(rules, pods, section) ==
    UNION {rules[i][section] : i \in {j \in DOMAIN rules : SelectsAny(rules[j], pods)}}

-------------------------------------------------------------------------------
(* Ports.                                                                  *)

CiliumCandidate == [number : Nat, name : PortNames \cup {None}, protocol : Protocol]

Candidate(number, name, protocol) == [number |-> number, name |-> name, protocol |-> protocol]

\* ciliumContainerPortName: the first name that a pod gives to the number.
ContainerPortName(pods, number) ==
    LET all == FlattenSeq([i \in DOMAIN pods |-> ContainerPorts[pods[i]]])
        named == SelectSeq(all, LAMBDA c : c.number = number /\ c.name # None)
    IN  IF named = <<>> THEN None ELSE Head(named).name

\* Every port of the Service is looked at, not only the chosen one: a named
\* target port always becomes a candidate.
ciliumPathPortCandidates(ports, service, pods) ==
    LET FromTarget(p) ==
            IF p.target \in PortNames
            THEN {Candidate(c.number, c.name, c.protocol) :
                      c \in {d \in PortsOf(pods) : d.name = p.target}}
            ELSE IF p.port \in ports \/ p.target \in ports
            THEN {Candidate(p.target, ContainerPortName(pods, p.target), p.protocol)}
            ELSE {}
        FromService ==
            IF service = None THEN {} ELSE UNION {FromTarget(p) : p \in ToSet(service.ports)}
        FromPods == {Candidate(c.number, c.name, c.protocol) :
                         c \in {d \in PortsOf(pods) : d.name # None /\ d.number \in ports}}
    IN  IF FromService \cup FromPods # {} THEN FromService \cup FromPods
        ELSE {Candidate(number, None, "TCP") : number \in ports}

ciliumBlockerPortCandidates(ports, names, service, pods) ==
    ciliumPathPortCandidates(ports, service, pods)
        \cup {Candidate(0, name, "TCP") : name \in names}

ciliumDNSPortCandidates == {Candidate(53, None, "UDP"), Candidate(53, None, "TCP")}

\* A plausible slip: a range is only compared with its first port.
FirstPortMatches(p, c) == p.port \in {None, c.number}
PortProtocolMatches(p, c) ==
    \/ p.port = None
    \/ /\ p.protocol \in {"ANY", c.protocol}
       /\ IF p.port \in PortNames THEN c.name = p.port
          ELSE /\ p.port # 0
               /\ \/ p.port = c.number
                  \/ p.end > 0 /\ p.port <= c.number /\ c.number <= p.end

\* ciliumPortsMatch and ciliumDenyPortsMatch.
CiliumPortsMatch(portRules, candidates) ==
    \/ portRules = {} \/ candidates = {}
    \/ \E rule \in portRules :
          rule.ports = {} \/ \E p \in rule.ports, c \in candidates : PortProtocolMatches(p, c)

HaveL7(portRules) == \E rule \in portRules : rule.l7

UseNamedPorts(portRules) == \E rule \in portRules : \E p \in rule.ports : p.port \in PortNames

-------------------------------------------------------------------------------
(* Peers.                                                                  *)

Refers(reference, service) ==
    service.name \in reference.services /\ reference.namespace \in {None, service.namespace}

\* The reason "toServices selector does not match", of which no more than the
\* first two kinds of reasons are kept.
MissedByServiceSelector(peers, service) ==
    \E i \in DOMAIN peers.services :
        LET Missed(j) == peers.services[j].selector /\ service.name \notin peers.services[j].services
            OtherNamespace(j) == peers.services[j].selector /\ ~Missed(j)
        IN  Missed(i) /\ ~(peers.endpoints # {} /\ \E j \in 1..(i - 1) : OtherNamespace(j))

\* How the peers of an egress entry match: through an address only, which an
\* identity may overrule; not at all but perhaps by the labels of a Service.
ciliumEgressPeerMatches(peers, groups, pods, service) ==
    LET addresses == pods \cup (IF service = None THEN {} ELSE {service.vip})
        cidrs == peers.cidrs \cup (IF groups THEN peers.groups ELSE {})
        RequiresMatch == \A selector \in peers.requires : selector \cap pods # {}
    IN  IF NoCriteria(peers) THEN "match"
        ELSE IF \E selector \in peers.endpoints : selector \cap pods # {}
        THEN IF RequiresMatch THEN "match" ELSE "miss"
        ELSE IF service # None /\ \E i \in DOMAIN peers.services : Refers(peers.services[i], service)
        THEN "match"
        ELSE IF peers.entities \cap {"all", "cluster"} # {} THEN "match"
        ELSE IF peers.cidrs # None /\ cidrs \cap addresses # {} THEN "address"
        ELSE IF service # None /\ MissedByServiceSelector(peers, service) THEN "service" ELSE "miss"

\* A CIDR never matches a pod as a source.
ciliumIngressPeerMatches(peers, source) ==
    \/ NoCriteria(peers)
    \/ IF \E selector \in peers.endpoints : source \in selector
       THEN \A selector \in peers.requires : source \in selector
       ELSE peers.entities \cap {"all", "cluster"} # {}

\* Only addresses outside: what a CIDR means for a host is not known.
ciliumExternalEgressPeerMatches(peers) ==
    IF NoCriteria(peers) \/ peers.entities \cap {"all", "world"} # {} THEN "match"
    ELSE IF peers.cidrs # None THEN "address" ELSE "miss"

ciliumExternalEgressAllowPeerMatches(entry, host) ==
    IF entry.fqdns = {} THEN ciliumExternalEgressPeerMatches(entry.peers)
    ELSE IF host \in entry.fqdns THEN "match" ELSE "miss"

-------------------------------------------------------------------------------
(* Decisions: denies first, then allows, then the default deny of the      *)
(* policies that select the pod.                                           *)

\* What ends a decision that no deny ended: Clean, L7 and Ambiguous are sets of
\* the allows that match without doubt, under L7 rules, and with doubt.
AllowDecision(check, Clean, L7, Ambiguous, doubt) ==
    IF Clean # {} THEN Plain(check, "PASS")
    ELSE IF L7 # {} THEN Insight(check, "WARN", "Cilium-L7")
    ELSE IF Ambiguous # {} THEN Insight(check, "WARN", doubt)
    ELSE Insight(check, "FAIL", "Cilium-default-deny")

\* A plausible slip: an allow is looked for before the denies.
EgressDecisionAllowFirst(rules, source, targets, service, candidates, groups) ==
    IF \E e \in Section(rules, {source}, "egress") :
          /\ ciliumEgressPeerMatches(e.peers, groups, ToSet(targets), service) = "match"
          /\ CiliumPortsMatch(e.ports, candidates)
    THEN Plain("Cilium-egress", "PASS") ELSE Insight("Cilium-egress", "FAIL", "Cilium-deny")
ciliumEgressDecision(rules, source, targets, service, candidates, groups) ==
    LET Denies == Section(rules, {source}, "egressDeny")
        Allows == Section(rules, {source}, "egress")
        Peer(e) == ciliumEgressPeerMatches(e.peers, groups, ToSet(targets), service)
        Port(e) == CiliumPortsMatch(e.ports, candidates)
        Matching == {e \in Allows : Peer(e) = "match" /\ Port(e)}
        L7 == {e \in Matching : HaveL7(e.ports)}
        Named == {e \in Matching \ L7 : UseNamedPorts(e.ports)}
        Doubtful == {e \in Allows : Peer(e) \in {"address", "service"} /\ Port(e)}
    IN  IF \E e \in Denies : Peer(e) = "match" /\ Port(e)
        THEN Insight("Cilium-egress", "FAIL", "Cilium-deny")
        ELSE IF Denies \cup Allows = {} THEN Plain("Cilium-egress", "PASS")
        ELSE IF \E e \in Denies : Peer(e) = "address" /\ Port(e) THEN Plain("Cilium-egress", "WARN")
        ELSE AllowDecision("Cilium-egress", Matching \ (L7 \cup Named), L7, Named \cup Doubtful,
                           "Cilium-ambiguous")

ciliumIngressDecision(rules, targets, source, candidates) ==
    LET Denies == Section(rules, targets, "ingressDeny")
        Allows == Section(rules, targets, "ingress")
        Matches(e) == ciliumIngressPeerMatches(e.peers, source) /\ CiliumPortsMatch(e.ports, candidates)
        Matching == {e \in Allows : Matches(e)}
        L7 == {e \in Matching : HaveL7(e.ports)}
        Clean == {e \in Matching \ L7 : ~UseNamedPorts(e.ports)}
    IN  IF \E e \in Denies : Matches(e) THEN Insight("Cilium-ingress", "FAIL", "Cilium-deny")
        ELSE IF Denies \cup Allows = {} THEN Plain("Cilium-ingress", "PASS")
        ELSE AllowDecision("Cilium-ingress", Clean, L7, {}, "none")

ciliumExternalEgressDecision(rules, source, host, port) ==
    LET Denies == Section(rules, {source}, "egressDeny")
        Allows == Section(rules, {source}, "egress")
        Port(e) == CiliumPortsMatch(e.ports, {Candidate(port, None, "TCP")})
        Peer(e) == ciliumExternalEgressAllowPeerMatches(e, host)
        Matching == {e \in Allows : Peer(e) = "match" /\ Port(e)}
        L7 == {e \in Matching : HaveL7(e.ports)}
        Named == {e \in Matching \ L7 : UseNamedPorts(e.ports)}
    IN  IF \E e \in Denies : ciliumExternalEgressPeerMatches(e.peers) = "match" /\ Port(e)
        THEN Insight("Cilium-outbound", "FAIL", "Cilium-deny")
        ELSE IF Denies \cup Allows = {} THEN Plain("Cilium-outbound", "PASS")
        ELSE AllowDecision("Cilium-outbound", Matching \ (L7 \cup Named), L7,
                           Named \cup {e \in Allows : Peer(e) = "address" /\ Port(e)}, "none")

\* Without a destination, or a source, only the ports of an entry count.
CiliumPortPosture(Denies, Allows, candidates) ==
    LET Matching == {e \in Allows : CiliumPortsMatch(e.ports, candidates)}
    IN  IF \E e \in Denies : CiliumPortsMatch(e.ports, candidates)
        THEN Insight("Cilium-posture", "FAIL", "Cilium-deny")
        ELSE IF Denies \cup Allows = {} THEN Plain("Cilium-posture", "PASS")
        ELSE IF \E e \in Matching : ~HaveL7(e.ports) /\ ~UseNamedPorts(e.ports)
        THEN Plain("Cilium-posture", "INFO")
        ELSE IF Matching # {} THEN Plain("Cilium-posture", "WARN")
        ELSE Insight("Cilium-posture", "FAIL", "Cilium-default-deny")

-------------------------------------------------------------------------------
(* DNS.                                                                    *)

\* dnsPodsForResolver: of a resolver that is a pod, that pod alone.
ciliumPodsForResolver(resolver, dns) ==
    IF resolver \in LinkLocal THEN dns.nodeLocal
    ELSE IF resolver = dns.service THEN dns.coreDNS
    ELSE {resolver} \cap (dns.coreDNS \cup dns.nodeLocal)

\* The Service of the resolver is never handed to the peers of a pod.
ciliumDNSPeerMatches(peers, resolver, dns, groups) ==
    LET pods == ciliumPodsForResolver(resolver, dns)
        cidrs == peers.cidrs \cup (IF groups THEN peers.groups ELSE {})
    IN  \/ NoCriteria(peers)
        \/ \E pod \in pods : ciliumEgressPeerMatches(peers, groups, {pod}, None) \in {"match", "address"}
        \/ pods = {} /\ peers.cidrs # None /\ resolver \in cidrs

\* Only the first resolver counts.  Rules are asked in order, the denies of a
\* rule before its allows.
analyzeCiliumDNS(rules, source, dns, groups) ==
    LET resolver == Head(dns.nameservers)
        Hits(entries) ==
            \E e \in entries : /\ ciliumDNSPeerMatches(e.peers, resolver, dns, groups)
                               /\ CiliumPortsMatch(e.ports, ciliumDNSPortCandidates)
        hits == {i \in DOMAIN rules : /\ source \in rules[i].selects
                                      /\ Hits(rules[i].egress) \/ Hits(rules[i].egressDeny)}
    IN  IF dns.nameservers = <<>> THEN {}
        ELSE IF Section(rules, {source}, "egress") \cup Section(rules, {source}, "egressDeny") = {}
        THEN {Plain("Cilium-DNS", "PASS")}
        ELSE IF hits = {} THEN {Insight("Cilium-DNS", "FAIL", "Cilium-egress-default-deny")}
        ELSE IF Hits(rules[Min(hits)].egressDeny)
        THEN {Insight("Cilium-DNS", "FAIL", "Cilium-deny")}
        ELSE {Plain("Cilium-DNS", "PASS")}

-------------------------------------------------------------------------------
(* The commands.                                                           *)

badPolicies(list) ==
    IF \E i \in DOMAIN list : list[i].bad
    THEN {Insight("Cilium-parse", "WARN", "Cilium-parse")} ELSE {}

listError(check) == {Plain(check, "WARN")}

\* endpoints: what is said of the CiliumEndpoints, lost when the lists are not
\* read; source is None where no source pod was given.
CiliumAnalyze(policies, namespace, home, source, targets, service, ports, dns, outcome, endpoints) ==
    LET list == Listed(policies, namespace, home, outcome.clusterwide = "read")
        rules == namedRules(list)
        groups == outcome.groups = "read"
        candidates == ciliumPathPortCandidates(ports, service, targets)
        selected == \E i \in DOMAIN rules : SelectsAny(rules[i], ToSet(targets))
    IN  IF outcome.namespaced = "absent" THEN {}
        ELSE IF outcome.namespaced = "error" THEN listError("Cilium-policies")
        ELSE endpoints
                 \cup (IF outcome.groups = "error" THEN listError("Cilium-CIDR-groups") ELSE {})
                 \cup (IF outcome.clusterwide = "error" THEN listError("Cilium-clusterwide") ELSE {})
                 \cup badPolicies(list)
                 \cup {Plain("Cilium-target-policies", IF selected THEN "WARN" ELSE "INFO")}
                 \cup (IF source = None THEN {}
                       ELSE {ciliumEgressDecision(rules, source, targets, service, candidates, groups),
                             ciliumIngressDecision(rules, ToSet(targets), source, candidates)}
                                \cup analyzeCiliumDNS(rules, source, dns, groups))

\* AnalyzeDNS says nothing of a policy that the parser refuses.
CiliumAnalyzeDNS(policies, source, dns, outcome) ==
    LET list == Listed(policies, NamespaceOf[source], None, outcome.clusterwide = "read")
    IN  IF outcome.namespaced = "absent" THEN {}
        ELSE IF outcome.namespaced = "error" THEN listError("Cilium-policies")
        ELSE (IF outcome.groups = "error" THEN listError("Cilium-CIDR-groups") ELSE {})
                 \cup (IF outcome.clusterwide = "error" THEN listError("Cilium-clusterwide") ELSE {})
                 \cup analyzeCiliumDNS(namedRules(list), source, dns, outcome.groups = "read")

AnalyzeExternalEgress(policies, source, host, port, outcome) ==
    LET list == Listed(policies, NamespaceOf[source], None, outcome.clusterwide = "read")
    IN  IF outcome.namespaced = "absent" THEN {}
        ELSE IF "error" \in {outcome.namespaced, outcome.clusterwide}
        THEN listError("Cilium-policies")
        ELSE badPolicies(list)
                 \cup {ciliumExternalEgressDecision(namedRules(list), source, host, port)}

\* The first target stands for the source of ingress, an unknown pod if there
\* is none.
firstCiliumPod(targets) == IF targets = <<>> THEN None ELSE targets[1]

CiliumShowBlockers(policies, direction, subject, namespace, targets, service, ports, names, outcome) ==
    LET home == NamespaceOf[subject]
        list == Listed(policies, home, namespace, outcome.clusterwide = "read")
        rules == namedRules(list)
        groups == outcome.groups = "read"
        candidates == ciliumBlockerPortCandidates(ports, names, service, targets)
        decision ==
            IF namespace # None /\ (service # None \/ targets # <<>>)
            THEN IF direction = "egress"
                 THEN ciliumEgressDecision(rules, subject, targets, service, candidates, groups)
                 ELSE ciliumIngressDecision(rules, {subject}, firstCiliumPod(targets), candidates)
            ELSE IF direction = "egress"
            THEN CiliumPortPosture(Section(rules, {subject}, "egressDeny"),
                                   Section(rules, {subject}, "egress"), candidates)
            ELSE CiliumPortPosture(Section(rules, {subject}, "ingressDeny"),
                                   Section(rules, {subject}, "ingress"), candidates)
        empty == IF list = <<>> THEN Plain("Cilium-analysis", "INFO")
                 ELSE Plain("Cilium-selected", "PASS")
    IN  IF outcome.namespaced = "absent" THEN {}
        ELSE IF "error" \in {outcome.namespaced, outcome.clusterwide}
        THEN listError("Cilium-policies")
        ELSE (IF outcome.groups = "error" THEN listError("Cilium-CIDR-groups") ELSE {})
                 \cup badPolicies(list)
                 \cup (IF \E i \in DOMAIN rules : SelectsAny(rules[i], {subject})
                       THEN {Plain("Cilium-selected", "WARN"), decision}
                       ELSE {empty})

===============================================================================
