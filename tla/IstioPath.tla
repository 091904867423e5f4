------------------------------- MODULE IstioPath -------------------------------
(***************************************************************************)
(* What check service reads of Istio after a probe: who may call the       *)
(* target (AuthorizationPolicy, RequestAuthentication), how the connection *)
(* is encrypted (PeerAuthentication, DestinationRule), where the request   *)
(* goes (VirtualService) and what the proxy of the source knows (Sidecar). *)
(*                                                                         *)
(* A pattern is the set of the values it matches.  Path, headers and query *)
(* come from the command line and are the same in every request, so that a *)
(* route only says whether it matches them.  A request is addressed to the *)
(* name of the Service, to its cluster IP or to a pod.                     *)
(***************************************************************************)
EXTENDS PolicyWorld

CONSTANTS
    Accounts,      \* names of service accounts
    AccountOf,     \* the account of each pod
    IstioSystem,   \* the root namespace where the mesh does not name one
    Alphabet       \* the namespaces in the order of their names

\* A service account as policies write it, with its namespace or without.
AccountRef == [namespace : Namespaces \cup {None}, account : Accounts]

ASSUME IstioAssumption ==
    /\ AccountOf \in [Pods -> Accounts]
    /\ IstioSystem \in Namespaces
    /\ Alphabet \in Seq(Namespaces)
    /\ ToSet(Alphabet) = Namespaces /\ Len(Alphabet) = Cardinality(Namespaces)
    /\ \A refs \in SUBSET AccountRef : refs # None

Authority == {"name", "address", "pod"}

\* values and notValues of a field, None where the field is not given.
Criteria(S) == [in : Optional(S), out : Optional(S)]
Anything == [in |-> None, out |-> None]

\* istioAnyStringListMatches and istioAnyStringListAnyMatches, for the values
\* that the request has.
Meets(criteria, actual) ==
    /\ criteria.in # None => actual \cap criteria.in # {}
    /\ criteria.out # None => actual \cap criteria.out = {}

SourceCriteria == [namespaces : Criteria(Namespaces), accounts : Criteria(AccountRef),
                   principals : Criteria(AccountRef), requestPrincipals : Criteria({"token"})]
OperationCriteria == [hosts : Criteria(Authority), ports : Criteria(PortNumber),
                      methods : Criteria({"GET", "POST"}), line : Criteria({"asked"})]

\* The conditions of a rule by the keys that istioConditionValue knows, and those
\* with other keys.
Conditions == [namespaces : Criteria(Namespaces), accounts : Criteria(AccountRef), ports : Criteria(PortNumber),
               methods : Criteria({"GET", "POST"}), line : Criteria({"asked"}),
               unknown : SUBSET {"request.auth", "request.headers", "source.ip"}]

AuthorizationRule == [from : SUBSET SourceCriteria, to : SUBSET OperationCriteria, when : Conditions]

\* selects is None without a selector; refs: targetRefs that name the Service or
\* something else.
Refs == {"none", "service", "other"}
AuthorizationPolicy == [namespace : Namespaces, action : {"ALLOW", "DENY", "CUSTOM", "AUDIT"}, dryRun : BOOLEAN,
                        refs : Refs, selects : Optional(Pods), rules : SUBSET AuthorizationRule]
RequestAuthentication == [namespace : Namespaces, refs : Refs, selects : Optional(Pods)]

PeerMode == {"UNSET", "DISABLE", "PERMISSIVE", "STRICT"}
PeerAuthentication == [namespace : Namespaces, selects : Optional(Pods), mode : PeerMode,
                       ports : SUBSET [port : PortNumber, mode : PeerMode]]

\* A host of the configuration: a short name is completed with a namespace, "*"
\* stands for one with a wildcard.
HostName == [name : ServiceNames \cup {"*"}, namespace : Namespaces \cup {None}]

\* tls is None without TLS settings; selects is the pods with the subset's labels.
TLSMode == {"DISABLE", "SIMPLE", "MUTUAL", "ISTIO_MUTUAL", None}
TrafficPolicy == [tls : TLSMode, ports : SUBSET [port : PortNumber, tls : TLSMode]]
Subset == [name : Nat \ {0}, selects : SUBSET Pods, policy : TrafficPolicy]
DestinationRule == [namespace : Namespaces, host : HostName, exportTo : Optional(Namespaces),
                    policy : TrafficPolicy, subsets : Seq(Subset)]

\* line: the match holds for the command line; port 0 and None: any.
RouteMatch == [line : BOOLEAN, port : 0..MaxPort, authority : Optional(Authority),
               namespace : Namespaces \cup {None}, labels : Optional(Pods)]
\* subset 0: no subset.
Destination == [host : HostName, subset : Nat, weight : 0..100]
\* direct: the status of a direct response, 0 for none.  A percentage of 0 is
\* no fault.
Route == [matches : SUBSET RouteMatch, direct : 0..599, redirect : BOOLEAN,
          abort : [status : 0..599, percent : 0..100], delay : 0..100, destinations : Seq(Destination)]
VirtualService == [namespace : Namespaces, mesh : BOOLEAN, exportTo : Optional(Namespaces),
                   hosts : SUBSET HostName, http : Seq(Route)]

\* hosts is None where a Sidecar has no egress.
SidecarScope == [namespace : Namespaces, selects : Optional(Pods),
                 hosts : Optional([scope : Namespaces \cup {"*", ".", "~"}, name : ServiceNames \cup {"*"}])]

ListOutcomes == [Namespaces -> ListOutcome]

\* sidecars: the pods in the mesh.  rootRead: the mesh configuration can be read,
\* it names root.
MeshKinds == {"authorization", "requestAuthentication", "peers", "virtualServices", "destinationRules", "scopes"}
Mesh == [sidecars : SUBSET Pods, ready : SUBSET Pods, root : Namespaces, rootRead : BOOLEAN,
         lists : [MeshKinds -> ListOutcomes],
         authorization : SUBSET AuthorizationPolicy, requestAuthentication : SUBSET RequestAuthentication,
         peers : Seq(PeerAuthentication), virtualServices : Seq(VirtualService),
         destinationRules : Seq(DestinationRule), scopes : Seq(SidecarScope)]

\* VirtualServices and DestinationRules are in the order the namespaces are listed in.
ByNamespace(items) ==
    \A i, j \in DOMAIN items : i <= j =>
        \E m, n \in DOMAIN Alphabet :
            m <= n /\ Alphabet[m] = items[i].namespace /\ Alphabet[n] = items[j].namespace

\* istioHTTPRequest: port is that of the Service, target the one policies see.
Request == [authority : Authority, source : Pods, port : PortNumber, target : PortNumber]

newIstioHTTPRequest(service, source, authority) ==
    [authority |-> authority, source |-> source, port |-> Chosen(service).port,
     target |-> IF Chosen(service).target \in PortNames THEN Chosen(service).port ELSE Chosen(service).target]

-------------------------------------------------------------------------------
(* Lists.  Namespaces are asked in the order of their names.               *)

\* The items of a list that are in a set.
ItemsIn(list, S) ==
    LET Up[n \in 0..Len(list)] ==
            IF n = 0 THEN <<>> ELSE IF list[n] \in S THEN Append(Up[n - 1], list[n]) ELSE Up[n - 1]
    IN  Up[Len(list)]

Sorted(namespaces) == ItemsIn(Alphabet, namespaces)

\* listIstioAuthorizationPolicies and listIstioRequestAuthentications: an error
\* of the first namespace loses everything, a later one only its own items.
PartialList(mesh, kind, namespaces) ==
    LET outcome == mesh.lists[kind]
        lost == outcome[Head(Sorted(namespaces))] = "error"
    IN  [failed |-> \E n \in namespaces : outcome[n] = "error",
         items |-> {x \in mesh[kind] : ~lost /\ x.namespace \in namespaces /\ outcome[x.namespace] = "read"}]

\* listIstioVirtualServices and listIstioDestinationRules: all or nothing.
\* absent: the first failure was NotFound, which is not reported.
WholeList(mesh, kind, namespaces) ==
    LET failed == {n \in namespaces : mesh.lists[kind][n] # "read"} IN
    IF failed = {} THEN [outcome |-> "read", items |-> {x \in ToSet(mesh[kind]) : x.namespace \in namespaces}]
    ELSE [outcome |-> mesh.lists[kind][Head(Sorted(failed))], items |-> {}]

\* addIstioListWarning.
ListWarning(outcome) == IF outcome = "error" THEN {Plain("Istio-list", "WARN")} ELSE {}

\* istioExportToVisible, for the namespace of the source.
Visible(item, source) == item.exportTo = None \/ NamespaceOf[source] \in item.exportTo

istioRootNamespace(mesh) == IF mesh.rootRead THEN mesh.root ELSE IstioSystem

-------------------------------------------------------------------------------
(* AuthorizationPolicy and RequestAuthentication.                          *)

Account(pod) == [namespace |-> NamespaceOf[pod], account |-> AccountOf[pod]]

\* istioRelativeServiceAccount: without its namespace in the policy's own.
RelativeAccount(pod, home) ==
    [namespace |-> IF NamespaceOf[pod] = home THEN None ELSE NamespaceOf[pod], account |-> AccountOf[pod]]

\* istioAuthorizationSourceMatches: the source always has its identity, and
\* never a token.
FromMatches(from, home, r) ==
    /\ Meets(from.namespaces, {NamespaceOf[r.source]})
    /\ Meets(from.accounts, {RelativeAccount(r.source, home)})
    /\ Meets(from.principals, {Account(r.source)})
    /\ Meets(from.requestPrincipals, {})

\* istioAuthorizationOperationMatches.
ToMatches(to, r) ==
    /\ Meets(to.hosts, {r.authority}) /\ Meets(to.ports, {r.target})
    /\ Meets(to.methods, {"GET"}) /\ Meets(to.line, {"asked"})

\* istioAuthorizationWhenMatches and istioConditionValue.
ConditionsHold(when, r) ==
    /\ Meets(when.namespaces, {NamespaceOf[r.source]}) /\ Meets(when.accounts, {Account(r.source)})
    /\ Meets(when.ports, {r.target}) /\ Meets(when.methods, {"GET"}) /\ Meets(when.line, {"asked"})
    /\ when.unknown = {}

istioAuthorizationRuleMatches(rule, home, r) ==
    /\ rule.from = {} \/ \E from \in rule.from : FromMatches(from, home, r)
    /\ rule.to = {} \/ \E to \in rule.to : ToMatches(to, r)
    /\ ConditionsHold(rule.when, r)

Matches(policy, r) == \E rule \in policy.rules : istioAuthorizationRuleMatches(rule, policy.namespace, r)

\* istioAuthorizationPolicySelectsTarget and requestAuthenticationSelectsTarget.
SelectsTarget(policy, targets) ==
    IF policy.refs # "none" THEN policy.refs = "service"
    ELSE policy.selects = None \/ policy.selects \cap ToSet(targets) # {}

istioAuthorizationRuleUsesJWT(rule) ==
    \/ \E from \in rule.from : from.requestPrincipals # Anything
    \/ "request.auth" \in rule.when.unknown

\* istioDenyRuleHasHTTPAttributesWithoutPort.
Risky(rule) ==
    /\ \/ \E to \in rule.to : {to.methods, to.line, to.hosts} # {Anything}
       \/ {rule.when.methods, rule.when.line} # {Anything} \/ rule.when.unknown \ {"source.ip"} # {}
    /\ \A to \in rule.to : to.ports = Anything
    /\ rule.when.ports = Anything

TargetPolicyNamespaces(mesh, namespace) == {namespace, istioRootNamespace(mesh)}

inspectIstioRequestAuthentication(mesh, namespace, targets, status) ==
    LET list == PartialList(mesh, "requestAuthentication", TargetPolicyNamespaces(mesh, namespace))
        found == \E item \in list.items : SelectsTarget(item, targets)
    IN  [found |-> found,
         insights |-> (IF list.failed THEN ListWarning("error") ELSE {})
                          \cup (IF found THEN {Insight("Istio-JWT", status, "Istio-JWT")} ELSE {})]

\* enforcedIstioAuthorizationPolicies.
\* A plausible slip: policies on trial are taken for enforced ones.
AllEnforced(items) == items
Enforced(items) == {policy \in items : ~policy.dryRun}

\* istioAllowDefaultDeny: ALLOW policies select the target and none matches.
istioAllowDefaultDeny(selecting, r) ==
    LET allows == {policy \in selecting : policy.action = "ALLOW"} IN
    allows # {} /\ \A policy \in allows : ~Matches(policy, r)

\* inspectIstioAuthorizationPolicy, after Envoy has answered RBAC: access denied.
\* RequestAuthentications are asked before the ALLOW policies, a CUSTOM policy
\* counts only when nothing else explains the answer.
\* A plausible slip: CUSTOM policies are left out.
ExplainWithoutCustom(selecting, r) ==
    IF istioAllowDefaultDeny(selecting, r) THEN Insight("Istio-authorization", "FAIL", "Istio-default-deny")
    ELSE IF \E policy \in selecting : policy.action = "DENY" /\ \E rule \in policy.rules : Risky(rule)
    THEN Insight("Istio-authorization", "FAIL", "Istio-risky-deny")
    ELSE Insight("Istio-authorization", "WARN", "Istio-unknown-denial")
Explain(selecting, r) ==
    IF istioAllowDefaultDeny(selecting, r) THEN Insight("Istio-authorization", "FAIL", "Istio-default-deny")
    ELSE IF \E policy \in selecting : policy.action = "DENY" /\ \E rule \in policy.rules : Risky(rule)
    THEN Insight("Istio-authorization", "FAIL", "Istio-risky-deny")
    ELSE IF \E policy \in selecting : policy.action = "CUSTOM" /\ Matches(policy, r)
    THEN Insight("Istio-authorization", "WARN", "Istio-CUSTOM")
    ELSE Insight("Istio-authorization", "WARN", "Istio-unknown-denial")

inspectIstioAuthorizationPolicy(mesh, namespace, targets, r) ==
    LET list == PartialList(mesh, "authorization", TargetPolicyNamespaces(mesh, namespace))
        selecting == {policy \in Enforced(list.items) : SelectsTarget(policy, targets)}
        jwt == inspectIstioRequestAuthentication(mesh, namespace, targets, "WARN")
        usesJWT == \E policy \in selecting : \E rule \in policy.rules : istioAuthorizationRuleUsesJWT(rule)
    IN  (IF list.failed THEN ListWarning("error") ELSE {})
            \cup (IF list.failed /\ list.items = {} THEN {}
                  ELSE IF \E policy \in selecting : policy.action = "DENY" /\ Matches(policy, r)
                  THEN {Insight("Istio-authorization", "FAIL", "Istio-deny")}
                  ELSE (IF usesJWT THEN jwt.insights ELSE {})
                           \cup (IF usesJWT /\ jwt.found THEN {} ELSE {Explain(selecting, r)}))

-------------------------------------------------------------------------------
(* PeerAuthentication.                                                     *)

\* peerAuthenticationWorkloadPort: a target port that has a name is not looked up.
WorkloadPort(service) ==
    IF Chosen(service).target \in PortNames THEN Chosen(service).port ELSE Chosen(service).target

\* peerAuthenticationEffectiveMode.
ModeAt(item, port) ==
    LET own == {p.mode : p \in {q \in item.ports : q.port = port /\ q.mode # "UNSET"}} IN
    IF own = {} THEN item.mode ELSE CHOOSE mode \in own : TRUE

\* The PeerAuthentications of a namespace, none where they cannot be listed.
PeersOf(mesh, namespace) ==
    {item \in ToSet(mesh.peers) : item.namespace = namespace /\ mesh.lists.peers[namespace] = "read"}

NamespaceWide(items) == {item \in items : item.selects = None}

\* selectedPeerAuthentication: the first that selects a target, else the first of
\* those without a selector.
Selected(mesh, namespace, targets) ==
    LET items == PeersOf(mesh, namespace)
        OfTargets == {item \in items : item.selects # None /\ item.selects \cap ToSet(targets) # {}}
    IN  ItemsIn(mesh.peers, OfTargets) \o ItemsIn(mesh.peers, NamespaceWide(items))

\* effectivePeerAuthenticationForPods: that of the mesh counts where the one of
\* the namespace leaves the mode open.
EffectiveMode(mesh, service, targets) ==
    LET root == istioRootNamespace(mesh)
        port == WorkloadPort(service)
        own == Selected(mesh, service.namespace, targets)
        wide == ItemsIn(mesh.peers, NamespaceWide(PeersOf(mesh, root)))
    IN  IF targets = <<>> THEN "UNSET"
        ELSE IF own # <<>> /\ ModeAt(Head(own), port) # "UNSET" THEN ModeAt(Head(own), port)
        ELSE IF root # service.namespace /\ wide # <<>> THEN ModeAt(Head(wide), port) ELSE "UNSET"

-------------------------------------------------------------------------------
(* VirtualService and DestinationRule.                                     *)

\* istioHostMatchesService, for a host in the configuration of a namespace.
HostMatches(host, home, service) ==
    /\ host.name = service.name
    /\ (IF host.namespace = None THEN home ELSE host.namespace) = service.namespace

ConfigNamespaces(service, source) == {service.namespace, NamespaceOf[source]}

\* istioServicePathVirtualServices and istioVirtualServiceHostsService.
VirtualServices(mesh, service, source) ==
    LET list == WholeList(mesh, "virtualServices", ConfigNamespaces(service, source))
    IN  [outcome |-> list.outcome,
         items |-> ItemsIn(mesh.virtualServices, {vs \in list.items :
             vs.mesh /\ Visible(vs, source) /\ \E host \in vs.hosts : HostMatches(host, vs.namespace, service)})]

\* istioServicePathDestinationRules, and those that findDestinationRule could find.
DestinationRules(mesh, service, source) ==
    LET list == WholeList(mesh, "destinationRules", ConfigNamespaces(service, source))
    IN  [outcome |-> list.outcome,
         items |-> ItemsIn(mesh.destinationRules, {dr \in list.items :
             Visible(dr, source) /\ HostMatches(dr.host, dr.namespace, service)})]

\* istioHTTPMatchRequestMatches, in any of the matches.
RouteMatches(route, r) ==
    \/ route.matches = {}
    \/ \E m \in route.matches :
          /\ m.line /\ m.port \in {0, r.port}
          /\ m.namespace \in {None, NamespaceOf[r.source]}
          /\ m.labels # None => r.source \in m.labels
          /\ m.authority # None => r.authority \in m.authority

\* The routes that match in all VirtualServices, with the namespace of each.
RoutesOf(vs, r) ==
    LET routes == ItemsIn(vs.http, {route \in ToSet(vs.http) : RouteMatches(route, r)})
    IN  [i \in DOMAIN routes |-> [home |-> vs.namespace, route |-> routes[i]]]
RoutesFor(virtualServices, r) ==
    FlattenSeq([i \in DOMAIN virtualServices |-> RoutesOf(virtualServices[i], r)])

\* The destinations of a route that are the Service.
ServiceDestinations(found, service) ==
    ItemsIn(found.route.destinations,
            {d \in ToSet(found.route.destinations) : HostMatches(d.host, found.home, service)})

\* destinationRuleSubsetLabels, of the first with the name.
Subsets(dr, name) == ItemsIn(dr.subsets, {s \in ToSet(dr.subsets) : s.name = name})

\* readyPodsMatchingLabels.
HasReady(mesh, dr, name, targets) == Head(Subsets(dr, name)).selects \cap ToSet(targets) \cap mesh.ready # {}

\* trafficPolicyTLSMode, None where the policy does not say.
PolicyTLS(policy, port) ==
    LET own == {p.tls : p \in {q \in policy.ports : q.port = port /\ q.tls # None}} IN
    IF own = {} THEN policy.tls ELSE CHOOSE tls \in own : TRUE

\* destinationRuleTLSModeForSubset.
TLSFor(dr, name, port) ==
    LET own == IF name = 0 \/ Subsets(dr, name) = <<>> THEN None
               ELSE PolicyTLS(Head(Subsets(dr, name)).policy, port)
    IN  IF own # None THEN own ELSE PolicyTLS(dr.policy, port)

\* effectiveDestinationRuleTLSModeForRequest: the first destination that has a
\* mode, else what holds without a subset.  VirtualServices that cannot be
\* listed are taken for none.
RequestTLS(mesh, service, r) ==
    LET rules == DestinationRules(mesh, service, r.source).items
        routes == RoutesFor(VirtualServices(mesh, service, r.source).items, r)
        destinations == FlattenSeq([i \in DOMAIN routes |-> ServiceDestinations(routes[i], service)])
        modes == ItemsIn([i \in DOMAIN destinations |-> TLSFor(Head(rules), destinations[i].subset, r.port)],
                         TLSMode \ {None})
    IN  IF rules = <<>> THEN None
        ELSE IF modes # <<>> THEN Head(modes) ELSE TLSFor(Head(rules), 0, r.port)

-------------------------------------------------------------------------------
(* What is found after a probe: insights, and whether that is the cause.   *)

InMesh(mesh, pod) == pod \in mesh.sidecars

\* inspectIstioMTLSReset, for a connection that was reset.
inspectIstioMTLSReset(mesh, service, targets, source) ==
    IF ~InMesh(mesh, source) /\ EffectiveMode(mesh, service, targets) = "STRICT"
    THEN {Insight("Istio-mTLS", "FAIL", "Istio-STRICT")} ELSE {}

\* inspectIstioDestinationRuleMTLSMismatch, for a connection that was reset.
inspectIstioDestinationRuleMTLSMismatch(mesh, service, targets, r) ==
    IF /\ InMesh(mesh, r.source) /\ EffectiveMode(mesh, service, targets) = "STRICT"
       /\ RequestTLS(mesh, service, r) \notin {None, "ISTIO_MUTUAL"}
    THEN {Insight("Istio-mTLS", "FAIL", "Istio-DestinationRule")} ELSE {}

\* Sidecar hosts are read by istioSidecarHostMatchesService.
SidecarHostMatches(host, home, service) ==
    /\ host.scope # "~"
    /\ (IF host.scope = "." THEN home ELSE host.scope) \in {"*", service.namespace}
    /\ host.name \in {"*", service.name}

\* inspectIstioSidecarEgressScope: the first Sidecar that selects the source, else
\* the first without a selector.
inspectIstioSidecarEgressScope(mesh, service, source) ==
    LET home == NamespaceOf[source]
        items == {s \in ToSet(mesh.scopes) : s.namespace = home}
        OfSource == {s \in items : s.selects # None /\ source \in s.selects}
        scopes == ItemsIn(mesh.scopes, OfSource) \o ItemsIn(mesh.scopes, NamespaceWide(items))
        hosts == Head(scopes).hosts
    IN  IF /\ InMesh(mesh, source) /\ mesh.lists.scopes[home] = "read" /\ scopes # <<>> /\ hosts # None
           /\ ~\E host \in hosts : SidecarHostMatches(host, home, service)
        THEN {Insight("Istio-Sidecar", "WARN", "Istio-Sidecar")} ELSE {}

\* inspectIstioTrafficRouting, after Envoy had no healthy upstream; the weight of
\* a destination does not matter.
inspectIstioTrafficRouting(mesh, service, targets, r) ==
    LET services == VirtualServices(mesh, service, r.source)
        rules == DestinationRules(mesh, service, r.source)
        Routed == UNION {ToSet(ServiceDestinations(found, service)) : found \in ToSet(RoutesFor(services.items, r))}
        Broken(d) == /\ d.subset # 0 /\ rules.items # <<>>
                     /\ \/ Subsets(Head(rules.items), d.subset) = <<>>
                        \/ ~HasReady(mesh, Head(rules.items), d.subset, targets)
    IN  IF services.outcome # "read" THEN ListWarning(services.outcome)
        ELSE IF rules.outcome # "read" THEN ListWarning(rules.outcome)
        ELSE IF \E d \in Routed : Broken(d) THEN {Insight("Istio-routing", "FAIL", "Istio-subset")}
        ELSE {Insight("Istio-routing", "WARN", "Istio-unknown-upstream")}

\* classifyIstioWeightedDestinations.
Weighted(found, service) ==
    {d \in ToSet(ServiceDestinations(found, service)) : d.weight > 0 /\ d.subset # 0}
Risks(mesh, d, rules, service, targets) ==
    \/ rules = <<>>
    \/ Subsets(Head(rules), d.subset) = <<>>
    \/ /\ EffectiveMode(mesh, service, targets) = "STRICT"
       /\ TLSFor(Head(rules), d.subset, Chosen(service).port) \notin {None, "ISTIO_MUTUAL"}
    \/ ~HasReady(mesh, Head(rules), d.subset, targets)

\* inspectIstioWeightedRouteRisks, before any probe.
inspectIstioWeightedRouteRisks(mesh, service, targets, r) ==
    LET services == VirtualServices(mesh, service, r.source)
        rules == DestinationRules(mesh, service, r.source)
        Splits(found) == /\ Len(found.route.destinations) > 1
                         /\ {Risks(mesh, d, rules.items, service, targets) : d \in Weighted(found, service)} = BOOLEAN
    IN  IF services.outcome # "read" THEN ListWarning(services.outcome)
        ELSE IF rules.outcome # "read" THEN ListWarning(rules.outcome)
        ELSE IF \E found \in ToSet(RoutesFor(services.items, r)) : Splits(found)
        THEN {Insight("Istio-routing", "WARN", "Istio-split")} ELSE {}

\* What a route is told to do, with the status of the probe that meets it; route
\* is the key under which it is reported once.
Told(found, runtime, status, diagnosis) ==
    [runtime |-> runtime, insights |-> {Insight("Istio-route", status, diagnosis)}, route |-> <<found, diagnosis>>]

Untold == [runtime |-> "none", insights |-> {}, route |-> None]

\* A fault that hits all requests is the cause, one that hits some may be.
Certain(percent) == IF percent < 100 THEN "WARN" ELSE "FAIL"

\* istioIntentionalRouteBehaviorForResult: what of it the response shows.  A direct
\* response and a redirect are looked at alone, a delay after an abort.
Shown(found, response) ==
    LET route == found.route
        aborts == route.abort.status # 0 /\ route.abort.percent # 0
        delays == route.delay # 0
    IN  CASE route.direct # 0 ->
                 IF route.direct = response.status /\ route.direct >= 400
                 THEN Told(found, "FAIL", "FAIL", "Istio-direct-response") ELSE Untold
          [] route.direct = 0 /\ route.redirect ->
                 IF response.status \in 300..399 THEN Told(found, "WARN", "WARN", "Istio-redirect") ELSE Untold
          [] OTHER ->
                 IF aborts /\ route.abort.status = response.status
                 THEN Told(found, "FAIL", Certain(route.abort.percent), "Istio-abort")
                 ELSE IF aborts /\ response.ok /\ route.abort.percent < 100
                 THEN Told(found, "WARN", "WARN", "Istio-abort-risk")
                 ELSE IF delays /\ response.ok /\ route.delay < 100
                 THEN Told(found, "WARN", "WARN", "Istio-delay-risk")
                 ELSE IF delays /\ ~response.ok /\ response.text = "timeout"
                 THEN Told(found, "FAIL", Certain(route.delay), "Istio-delay") ELSE Untold

\* inspectIstioIntentionalRouteBehavior: the first of all routes that match.
inspectIstioIntentionalRouteBehavior(mesh, service, r, response) ==
    LET services == VirtualServices(mesh, service, r.source)
        routes == RoutesFor(services.items, r)
        shown == {i \in DOMAIN routes : Shown(routes[i], response) # Untold}
        first == CHOOSE i \in shown : \A j \in shown : i <= j
    IN  IF services.outcome # "read" THEN [Untold EXCEPT !.insights = ListWarning(services.outcome)]
        ELSE IF shown = {} THEN Untold ELSE Shown(routes[first], response)

===============================================================================
