----------------------------- MODULE NativePolicy -----------------------------
(***************************************************************************)
(* How the NetworkPolicy objects of Kubernetes are read: the path of check *)
(* service, the posture of one pod in show blockers, and the posture of a  *)
(* port in check egress.                                                   *)
(***************************************************************************)
EXTENDS PolicyWorld

\* end is endPort, 0 without; the code does not read it.
NativePort == [tcp : BOOLEAN, port : PortNumber \cup PortNames \cup {None}, end : Nat]

\* A peer has selectors or an address block.
NativePeer == [namespaces : Optional(Namespaces), pods : Optional(Pods), block : SUBSET Address]

NativeRule == [peers : SUBSET NativePeer, ports : SUBSET NativePort]

NativePolicyObject ==
    [namespace : Namespaces, selects : SUBSET Pods, types : SUBSET {"Ingress", "Egress"},
     ingress : SUBSET NativeRule, egress : SUBSET NativeRule]

-------------------------------------------------------------------------------
(* native.go                                                               *)

HasPolicyType(policy, type) ==
    IF policy.types = {} THEN type = "Ingress" \/ policy.egress # {} ELSE type \in policy.types

\* A rule without ports allows any, and so does every rule without candidates.
PortsAllow(policyPorts, ports) ==
    \/ policyPorts = {} \/ ports = {}
    \/ \E p \in policyPorts : p.tcp /\ (p.port = None \/ p.port \in ports)

\* A peer without a namespace selector means the namespace of the policy,
\* unless that namespace is not known.
PeerMatchesPod(peer, pod, namespace, policyNamespace) ==
    /\ peer.namespaces # None \/ peer.pods # None
    /\ IF peer.namespaces # None THEN namespace \in peer.namespaces
       ELSE policyNamespace \in {None, namespace}
    /\ peer.pods # None => pod \in peer.pods

EgressRuleAllows(rule, policyNamespace, namespace, targets, service, ports) ==
    /\ PortsAllow(rule.ports, ports)
    /\ \/ rule.peers = {}
       \/ \E peer \in rule.peers :
             \/ service # None /\ service.vip \in peer.block
             \/ \E pod \in ToSet(targets) :
                   PeerMatchesPod(peer, pod, namespace, policyNamespace) \/ pod \in peer.block

IngressRuleAllows(rule, source, ports) ==
    /\ PortsAllow(rule.ports, ports)
    /\ \/ rule.peers = {}
       \/ \E peer \in rule.peers :
             PeerMatchesPod(peer, source, NamespaceOf[source], None) \/ source \in peer.block

AnyRuleMentionsPort(rules, ports) == \E rule \in rules : PortsAllow(rule.ports, ports)

EgressRules(policies) == UNION {policy.egress : policy \in policies}
IngressRules(policies) == UNION {policy.ingress : policy \in policies}

\* The policies of a list that isolate a pod in one direction.
Selecting(policies, type, pod) ==
    {policy \in policies : HasPolicyType(policy, type) /\ pod \in policy.selects}

\* The objects in a namespace: a selector matches pods of its own namespace only.
InNamespace(policies, namespace) == {policy \in policies : policy.namespace = namespace}

-------------------------------------------------------------------------------
(* The path of check service.                                              *)

analyzeNativeEgress(policies, source, namespace, targets, service, ports) ==
    LET selecting == Selecting(policies, "Egress", source)
        Allows(rule) ==
            EgressRuleAllows(rule, NamespaceOf[source], namespace, targets, service, ports)
    IN  IF selecting = {} \/ \E rule \in EgressRules(selecting) : Allows(rule)
        THEN Plain("native-egress", "PASS")
        ELSE Insight("native-egress", "policy-ambiguous", "native-default-deny")

analyzeNativeIngress(policies, source, targets, ports) ==
    LET selecting == UNION {Selecting(policies, "Ingress", pod) : pod \in ToSet(targets)}
    IN  IF \/ selecting = {}
           \/ \E rule \in IngressRules(selecting) : IngressRuleAllows(rule, source, ports)
        THEN Plain("native-ingress", "PASS")
        ELSE Insight("native-ingress", "policy-ambiguous", "native-default-deny")

\* checkNativeNetworkPolicies, up to the analysis of both ends: what the report
\* says of the target pods alone.
nativeTargetPolicies(policies, targets) ==
    IF \E policy \in policies : policy.selects \cap ToSet(targets) # {}
    THEN Plain("native-target-policies", "WARN") ELSE Plain("native-target-policies", "INFO")

-------------------------------------------------------------------------------
(* The posture of one pod in show blockers.                                *)

NativePosture(rules, ports) ==
    IF AnyRuleMentionsPort(rules, ports) THEN Plain("native-posture", "INFO")
    ELSE Insight("native-posture", "FAIL", "native-default-deny")

addNativeEgressBlockers(policies, source, namespace, targets, service, ports) ==
    LET selecting == Selecting(InNamespace(policies, NamespaceOf[source]), "Egress", source)
        Allows(rule) ==
            EgressRuleAllows(rule, NamespaceOf[source], namespace, targets, service, ports)
        selected == Plain("native-selected", "WARN")
    IN  IF selecting = {} THEN {Plain("native-blockers", "PASS")}
        ELSE IF namespace = None \/ targets = <<>>
        THEN {selected, NativePosture(EgressRules(selecting), ports)}
        ELSE {selected, IF \E rule \in EgressRules(selecting) : Allows(rule)
                        THEN Plain("native-blockers", "PASS")
                        ELSE Insight("native-blockers", "FAIL", "native-default-deny")}

addNativeIngressBlockers(policies, target, ports) ==
    LET selecting == Selecting(InNamespace(policies, NamespaceOf[target]), "Ingress", target)
    IN  IF selecting = {} THEN {Plain("native-blockers", "PASS")}
        ELSE {NativePosture(IngressRules(selecting), ports)}

\* Only a list that could be read is in policies; a named port is left out.
addNativeBlockers(policies, direction, subject, namespace, targets, service, ports) ==
    IF ports = {} THEN {Plain("native-blockers", "INFO")}
    ELSE IF direction = "egress"
    THEN addNativeEgressBlockers(policies, subject, namespace, targets, service, ports)
    ELSE addNativeIngressBlockers(policies, subject, ports)

-------------------------------------------------------------------------------
(* The posture of one pod in check egress.                                 *)

inspectNativeEgressPortPosture(policies, source, port) ==
    LET selecting == Selecting(policies, "Egress", source)
    IN  IF selecting = {} THEN {}
        ELSE IF AnyRuleMentionsPort(EgressRules(selecting), {port})
        THEN {Plain("native-port", "INFO")}
        ELSE {Insight("native-port", "FAIL", "no-egress-allow-candidate-mentions")}

inspectEgressPolicyContext(policies, source) ==
    LET selecting == Selecting(policies, "Egress", source)
    IN  IF selecting = {} THEN Plain("native-egress-posture", "PASS")
        ELSE IF \E policy \in selecting : policy.egress = {}
        THEN Insight("native-egress-posture", "policy-ambiguous", "egress-default-deny")
        ELSE Plain("native-egress-posture", "policy-ambiguous")

===============================================================================
