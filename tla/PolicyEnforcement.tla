--------------------------- MODULE PolicyEnforcement ---------------------------
(***************************************************************************)
(* What the cluster does with a packet: the semantics of NetworkPolicy and *)
(* CiliumNetworkPolicy for one connection over TCP from a pod to a pod, at *)
(* the port the pod listens on, or to an address outside; for the policies *)
(* of Calico, between pods and within one tier.  The readings of           *)
(* NativePolicy, CiliumPolicy and CalicoPolicy are compared with it.       *)
(***************************************************************************)
EXTENDS NativePolicy, CiliumPolicy, CalicoPolicy

\* The container of the pod gives the number this name.
HasPortNamed(pod, name, number) ==
    \E c \in ToSet(ContainerPorts[pod]) :
        c.name = name /\ c.number = number /\ c.protocol = "TCP"

-------------------------------------------------------------------------------
(* NetworkPolicy.                                                          *)

NativePortLets(p, pod, number) ==
    /\ p.tcp
    /\ \/ p.port = None
       \/ p.port \in PortNames /\ pod \in Pods /\ HasPortNamed(pod, p.port, number)
       \/ /\ p.port \in PortNumber
          /\ p.port = number \/ (p.end > 0 /\ p.port <= number /\ number <= p.end)

NativePeerHolds(peer, home, address) ==
    \/ address \in peer.block
    \/ /\ address \in Pods
       /\ peer.namespaces # None \/ peer.pods # None
       /\ peer.namespaces # None => NamespaceOf[address] \in peer.namespaces
       /\ peer.namespaces = None => NamespaceOf[address] = home
       /\ peer.pods # None => address \in peer.pods

NativeLets(policies, type, subject, peer, pod, number) ==
    LET isolating == Selecting(InNamespace(policies, NamespaceOf[subject]), type, subject)
        rules == IF type = "Egress" THEN EgressRules(isolating) ELSE IngressRules(isolating)
    IN  isolating # {} =>
            \E rule \in rules :
                /\ rule.ports = {} \/ \E p \in rule.ports : NativePortLets(p, pod, number)
                /\ rule.peers = {}
                      \/ \E q \in rule.peers : NativePeerHolds(q, NamespaceOf[subject], peer)

NativeEgressLets(policies, source, destination, number) ==
    NativeLets(policies, "Egress", source, destination, destination, number)

NativeIngressLets(policies, source, target, number) ==
    NativeLets(policies, "Ingress", target, source, target, number)

-------------------------------------------------------------------------------
(* Cilium.  A CIDR does not hold for an endpoint that Cilium manages.       *)

CiliumPortsHold(portRules, pod, number) ==
    \/ portRules = {}
    \/ \E rule \in portRules :
          \/ rule.ports = {}
          \/ \E p \in rule.ports :
                \/ p.port = None
                \/ /\ p.protocol \in {"ANY", "TCP"}
                   /\ \/ p.port \in PortNames /\ pod \in Pods /\ HasPortNamed(pod, p.port, number)
                      \/ p.port \in PortNumber /\ p.port <= number
                            /\ number <= (IF p.end = 0 THEN p.port ELSE p.end)

CiliumPeersHold(entry, address) ==
    LET p == entry.peers IN
    \/ NoCriteria(p) /\ entry.fqdns = {} /\ p.groups = {}
    \/ /\ address \in Pods
       /\ \/ p.entities \cap {"all", "cluster"} # {}
          \/ /\ \E selector \in p.endpoints : address \in selector
             /\ \A selector \in p.requires : address \in selector
    \/ /\ address \in Hosts
       /\ \/ p.entities \cap {"all", "world"} # {}
          \/ p.cidrs # None /\ address \in p.cidrs \cup p.groups
          \/ address \in entry.fqdns

CiliumHolds(entries, peer, pod, number) ==
    \E e \in entries : CiliumPeersHold(e, peer) /\ CiliumPortsHold(e.ports, pod, number)

CiliumLets(policies, subject, section, deny, peer, pod, number) ==
    LET rules == namedRules(policies)
        Denies == Section(rules, {subject}, deny)
        Allows == Section(rules, {subject}, section)
    IN  /\ ~CiliumHolds(Denies, peer, pod, number)
        /\ Denies \cup Allows # {} => CiliumHolds(Allows, peer, pod, number)

CiliumEgressLets(policies, source, destination, number) ==
    CiliumLets(policies, source, "egress", "egressDeny", destination, destination, number)

CiliumIngressLets(policies, source, target, number) ==
    CiliumLets(policies, target, "ingress", "ingressDeny", source, target, number)

-------------------------------------------------------------------------------
(* Calico, for policies of one tier with an order each.                    *)

CalicoPortsHold(entity, number) ==
    LET Holds(token) == token.name = None /\ token.min <= number /\ number <= token.max IN
    /\ entity.ports \notin {None, {}} => \E token \in entity.ports : Holds(token)
    /\ \A token \in entity.notPorts : ~Holds(token)

CalicoEntityHolds(entity, home, pod) ==
    /\ entity.nets # None => pod \in entity.nets
    /\ pod \notin entity.notNets
    /\ entity.accounts # None => pod \in entity.accounts
    /\ \/ entity.selector # None /\ pod \in entity.sets
       \/ /\ entity.namespaces # None => NamespaceOf[pod] \in entity.namespaces
          /\ entity.namespaces = None /\ entity.selector # None => home \in {None, NamespaceOf[pod]}
          /\ entity.selector # None => pod \in entity.selector
    /\ entity.notSelector # None => pod \notin entity.notSelector \cup entity.notSets

\* The port is that of the destination in both directions.
CalicoRuleHolds(rule, home, source, target, number) ==
    /\ rule.protocol \in {"none", "tcp"}
    /\ CalicoEntityHolds(rule.source, home, source)
    /\ CalicoEntityHolds(rule.destination, home, target)
    /\ CalicoPortsHold(rule.destination, number)

\* What the first rule that holds says, and the profiles after a pass.
CalicoSays(policies, direction, source, target, number, fallback) ==
    LET subject == IF direction = "egress" THEN source ELSE target
        selecting == policiesFor(policies, NamespaceOf[subject], {subject}, direction)
        rules == UNION {{<<p, i>> : i \in DOMAIN p[direction]} : p \in selecting}
        Rule(h) == h[1][direction][h[2]]
        hits == {h \in rules : /\ Rule(h).action # "log"
                               /\ CalicoRuleHolds(Rule(h), h[1].namespace, source, target, number)}
        First(h) == \A g \in hits : h[1].order < g[1].order \/ (h[1] = g[1] /\ h[2] <= g[2])
        actions == {Rule(h).action : h \in {g \in hits : First(g)}}
    IN  IF selecting = {} THEN OrElse(fallback, "PASS")
        ELSE IF actions = {"pass"} THEN OrElse(fallback, "WARN")
        ELSE IF actions = {"allow"} THEN "PASS" ELSE "FAIL"

\* Without a rule that allows the port, or passes it on, a pod that policies
\* select does not get out, whatever the address.
CalicoMayLetOut(policies, source, number) ==
    LET selecting == policiesFor(policies, NamespaceOf[source], {source}, "egress") IN
    selecting # {} =>
        \E policy \in selecting : \E i \in DOMAIN policy.egress :
            LET rule == policy.egress[i] IN
            /\ rule.action \in {"allow", "pass"} /\ rule.protocol \in {"none", "tcp"}
            /\ CalicoEntityHolds(rule.source, policy.namespace, source)
            /\ CalicoPortsHold(rule.destination, number)

===============================================================================
