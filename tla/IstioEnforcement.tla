---------------------------- MODULE IstioEnforcement ----------------------------
(***************************************************************************)
(* What Istio does with a request, which is not in this repository: each   *)
(* proxy enforces the policies of its own pod, on what the connection      *)
(* proves, and the proxy of the source takes one route.                    *)
(***************************************************************************)
EXTENDS IstioPath

\* Only a source in the mesh proves who it is.
Proven(mesh, source) == {source} \cap mesh.sidecars

Qualified(criteria, home) ==
    LET Full(refs) == IF refs = None THEN None
                      ELSE {[ref EXCEPT !.namespace = IF @ = None THEN home ELSE @] : ref \in refs}
    IN  [in |-> Full(criteria.in), out |-> Full(criteria.out)]

FromHolds(from, home, identities) ==
    LET namespaces == {NamespaceOf[p] : p \in identities}
        accounts == {Account(p) : p \in identities}
    IN  /\ Meets(from.namespaces, namespaces) /\ Meets(Qualified(from.accounts, home), accounts)
        /\ Meets(from.principals, accounts) /\ Meets(from.requestPrincipals, {})

\* Conditions on the token or on headers are left to the properties' preconditions.
RuleHolds(rule, home, identities, ports, authority) ==
    /\ rule.from = {} \/ \E from \in rule.from : FromHolds(from, home, identities)
    /\ \/ rule.to = {}
       \/ \E to \in rule.to : /\ Meets(to.hosts, {authority}) /\ Meets(to.ports, ports)
                              /\ Meets(to.methods, {"GET"}) /\ Meets(to.line, {"asked"})
    /\ Meets(rule.when.namespaces, {NamespaceOf[p] : p \in identities})
    /\ Meets(Qualified(rule.when.accounts, home), {Account(p) : p \in identities})
    /\ Meets(rule.when.ports, ports) /\ Meets(rule.when.methods, {"GET"}) /\ Meets(rule.when.line, {"asked"})

\* Policies for a Service are those of waypoints, not of sidecars.
Enforcing(mesh, pod, action) ==
    {policy \in mesh.authorization :
        /\ pod \in mesh.sidecars /\ policy.action = action /\ ~policy.dryRun /\ policy.refs = "none"
        /\ policy.namespace \in {NamespaceOf[pod], mesh.root}
        /\ policy.selects = None \/ pod \in policy.selects}

PolicyHolds(mesh, policy, pod, service, source, authority) ==
    \E rule \in policy.rules : RuleHolds(rule, policy.namespace, Proven(mesh, source),
                                        TargetNumbers(Chosen(service).target, <<pod>>), authority)

Hits(mesh, action, pod, service, source, authority) ==
    \E policy \in Enforcing(mesh, pod, action) : PolicyHolds(mesh, policy, pod, service, source, authority)

AllowsNothing(mesh, pod, service, source, authority) ==
    Enforcing(mesh, pod, "ALLOW") # {} /\ ~Hits(mesh, "ALLOW", pod, service, source, authority)

\* An external authorizer may say no.
AccessDenied(mesh, pod, service, source, authority) ==
    \/ \E action \in {"CUSTOM", "DENY"} : Hits(mesh, action, pod, service, source, authority)
    \/ AllowsNothing(mesh, pod, service, source, authority)

-------------------------------------------------------------------------------

\* The mode of the first item of a list, without one of the next level.
FirstMode(items, port, next) ==
    IF items = <<>> \/ ModeAt(Head(items), port) = "UNSET" THEN next ELSE ModeAt(Head(items), port)

\* Of the items for a pod, for its namespace and for the mesh the oldest counts, which
\* is listed first.  Ports count in an item that selects pods (0 is none), and are those
\* of the container.
TrueMode(mesh, pod, port) ==
    LET In(namespace) == {item \in ToSet(mesh.peers) : item.namespace = namespace}
        OfPod == {item \in In(NamespaceOf[pod]) : item.selects # None /\ pod \in item.selects}
        Wide(namespace) == ItemsIn(mesh.peers, NamespaceWide(In(namespace)))
    IN  FirstMode(ItemsIn(mesh.peers, OfPod), port,
                  FirstMode(Wide(NamespaceOf[pod]), 0, FirstMode(Wide(mesh.root), 0, "PERMISSIVE")))

Strict(mesh, pod, service) ==
    pod \in mesh.sidecars /\ \E port \in TargetNumbers(Chosen(service).target, <<pod>>) : TrueMode(mesh, pod, port) = "STRICT"

\* The VirtualServices and DestinationRules that the proxy of the source has.
Hosting(mesh, service, source) ==
    ItemsIn(mesh.virtualServices, {vs \in ToSet(mesh.virtualServices) :
        vs.mesh /\ Visible(vs, source) /\ \E host \in vs.hosts : HostMatches(host, vs.namespace, service)})
RulesFor(mesh, service, source) ==
    ItemsIn(mesh.destinationRules,
            {dr \in ToSet(mesh.destinationRules) : Visible(dr, source) /\ HostMatches(dr.host, dr.namespace, service)})

\* The first route that matches, in a sequence that is empty without one.
TakenRoute(mesh, service, r) ==
    LET found == RoutesFor(Hosting(mesh, service, r.source), r) IN
    IF found = <<>> THEN <<>> ELSE <<Head(found)>>

\* The destinations of the Service that requests are sent to; without weights all.
Taken(mesh, service, r) ==
    UNION {{d \in ToSet(ServiceDestinations(found, service)) : d.weight > 0 \/ Len(found.route.destinations) = 1} :
               found \in ToSet(TakenRoute(mesh, service, r))}

\* A subset that does not exist, or that has no pod.
Dead(mesh, d, service, targets, source) ==
    LET rules == RulesFor(mesh, service, source) IN
    d.subset # 0 /\ (IF rules = <<>> \/ Subsets(Head(rules), d.subset) = <<>> THEN TRUE
                     ELSE ~HasReady(mesh, Head(rules), d.subset, targets))

\* Without a setting the proxy uses mutual TLS with a target that takes it.
PlainText(mesh, subset, service, source) ==
    LET rules == RulesFor(mesh, service, source) IN
    rules # <<>> /\ TLSFor(Head(rules), subset, Chosen(service).port) \notin {None, "ISTIO_MUTUAL"}

===============================================================================
