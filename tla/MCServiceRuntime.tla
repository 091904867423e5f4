---------------------------- MODULE MCServiceRuntime ----------------------------
(***************************************************************************)
(* Meshes for TLC, on the clusters of MCPolicyCommands: the source in      *)
(* namespace a, one target pod in b (two where subsets or policies tell    *)
(* them apart), the root namespace of the mesh is system.                  *)
(***************************************************************************)
EXTENDS ServiceRuntime, MCPolicyCommands

CONSTANTS client, server

MCAccountOf == [p \in Pods |-> IF p = src THEN client ELSE server]
MCAlphabet == <<a, b, system>>

Reading == [n \in Namespaces |-> "read"]

\* The name of the Service is the only address, which keeps a session short.
Quiet == [Base EXCEPT !.targets = <<t1>>, !.service.vip = None]
Pair == [Quiet EXCEPT !.targets = <<t1, t2>>]

NoMesh == [sidecars |-> {src, t1, t2}, ready |-> {t1}, root |-> system, rootRead |-> TRUE,
           lists |-> [kind \in MeshKinds |-> Reading], authorization |-> {}, requestAuthentication |-> {},
           peers |-> <<>>, virtualServices |-> <<>>, destinationRules |-> <<>>, scopes |-> <<>>]

Path(w, m) == [world |-> w, mesh |-> m]

-------------------------------------------------------------------------------
(* Authorization.                                                          *)

Only(S) == [in |-> S, out |-> None]
Except(S) == [in |-> None, out |-> S]
Ref(namespace, account) == [namespace |-> namespace, account |-> account]

AnySource == [namespaces |-> Anything, accounts |-> Anything, principals |-> Anything, requestPrincipals |-> Anything]
AnyOperation == [hosts |-> Anything, ports |-> Anything, methods |-> Anything, line |-> Anything]
AnyCondition == [namespaces |-> Anything, accounts |-> Anything, ports |-> Anything, methods |-> Anything,
                 line |-> Anything, unknown |-> {}]
Free == [from |-> {}, to |-> {}, when |-> AnyCondition]

Froms == {[AnySource EXCEPT !.namespaces = Only({a})], [AnySource EXCEPT !.namespaces = Except({a})],
          [AnySource EXCEPT !.accounts = Only({Ref(a, client)})], [AnySource EXCEPT !.accounts = Only({Ref(None, client)})],
          [AnySource EXCEPT !.principals = Only({Ref(a, server)})], [AnySource EXCEPT !.requestPrincipals = Only({"token"})]}
Tos == {[AnyOperation EXCEPT !.ports = Only({81})], [AnyOperation EXCEPT !.ports = Only({80}), !.methods = Only({"GET"})],
        [AnyOperation EXCEPT !.methods = Only({"POST"})], [AnyOperation EXCEPT !.hosts = Only({"name"})],
        [AnyOperation EXCEPT !.line = Except({"asked"})]}
Whens == {[AnyCondition EXCEPT !.ports = Except({81})], [AnyCondition EXCEPT !.namespaces = Only({a})],
          [AnyCondition EXCEPT !.accounts = Only({Ref(a, client)}), !.methods = Only({"GET"})],
          [AnyCondition EXCEPT !.unknown = {"request.auth"}], [AnyCondition EXCEPT !.line = Only({"asked"})]}

MeshRules == {Free} \cup {[Free EXCEPT !.from = {from}] : from \in Froms} \cup {[Free EXCEPT !.to = {to}] : to \in Tos}
                \cup {[Free EXCEPT !.when = when] : when \in Whens}

Allow == [namespace |-> b, action |-> "ALLOW", dryRun |-> FALSE, refs |-> "none", selects |-> None, rules |-> {Free}]
Deny == [Allow EXCEPT !.action = "DENY"]
Custom == [Allow EXCEPT !.action = "CUSTOM"]

Authorizations ==
    {{[policy EXCEPT !.rules = {rule}]} : policy \in {Allow, Deny}, rule \in MeshRules}
        \cup {{[policy EXCEPT !.dryRun = TRUE], [Allow EXCEPT !.rules = {}]} : policy \in {Allow, Deny}}
        \cup {{Custom}, {Custom, [Deny EXCEPT !.rules = {}]}, {[Custom EXCEPT !.dryRun = TRUE], Custom},
              {[Allow EXCEPT !.namespace = system, !.rules = {}], Allow}, {[Deny EXCEPT !.refs = "service"]},
              {[Deny EXCEPT !.selects = {t2}], [Allow EXCEPT !.rules = {}]}}

Jwt == [namespace |-> b, refs |-> "none", selects |-> {t1}]

AuthorizationPaths ==
    {Path(Quiet, [NoMesh EXCEPT !.authorization = x]) : x \in Authorizations}
        \cup {Path(Quiet, [NoMesh EXCEPT !.authorization = {[Allow EXCEPT !.rules = {rule}]},
                                         !.requestAuthentication = {[Jwt EXCEPT !.refs = refs]},
                                         !.sidecars = sidecars]) :
                  rule \in {[Free EXCEPT !.from = {[AnySource EXCEPT !.requestPrincipals = Only({"token"})]}],
                            [Free EXCEPT !.from = {[AnySource EXCEPT !.namespaces = Only({a})]}]},
                  refs \in {"none", "other"}, sidecars \in {{src, t1}, {t1}}}
        \cup {Path(Pair, [NoMesh EXCEPT !.authorization = x, !.ready = {t1, t2}]) :
                  x \in {{[Allow EXCEPT !.selects = {t1}, !.rules = {}], [Allow EXCEPT !.selects = {t2}]},
                         {[Deny EXCEPT !.selects = {t2}]}}}

-------------------------------------------------------------------------------
(* Encryption.                                                             *)

Peering(namespace, selects, mode) == [namespace |-> namespace, selects |-> selects, mode |-> mode, ports |-> {}]
At81(peer, mode) == [peer EXCEPT !.ports = {[port |-> 81, mode |-> mode]}]

PeeringLists ==
    {<<Peering(system, None, "STRICT")>>, <<Peering(b, None, "UNSET"), Peering(system, None, "STRICT")>>,
     <<Peering(b, None, "PERMISSIVE"), Peering(system, None, "STRICT")>>,
     <<Peering(b, None, "STRICT"), Peering(b, {t1}, "PERMISSIVE")>>, <<At81(Peering(b, {t1}, "STRICT"), "DISABLE")>>,
     <<Peering(b, {t2}, "STRICT")>>, <<At81(Peering(b, {t1}, "DISABLE"), "STRICT")>>}

Shop == [name |-> shop, namespace |-> b]
Short == [name |-> shop, namespace |-> None]

Tls(mode) == [tls |-> mode, ports |-> {}]
Sub(name, pods, mode) == [name |-> name, selects |-> pods, policy |-> Tls(mode)]
Rule(mode, subsets) == [namespace |-> b, host |-> Short, exportTo |-> None, policy |-> Tls(mode), subsets |-> subsets]

To(subset, weight) == [host |-> Shop, subset |-> subset, weight |-> weight]
Plainly(destinations) ==
    [matches |-> {}, direct |-> 0, redirect |-> FALSE, abort |-> [status |-> 0, percent |-> 0], delay |-> 0,
     destinations |-> destinations]
Virtual(routes) == [namespace |-> b, mesh |-> TRUE, exportTo |-> None, hosts |-> {Short}, http |-> routes]

EncryptionPaths ==
    {Path(Quiet, [NoMesh EXCEPT !.peers = peers, !.sidecars = sidecars,
                                !.destinationRules = <<Rule("DISABLE", <<>>)>>]) :
        peers \in PeeringLists, sidecars \in {{t1}, {src, t1}}}
        \cup {Path(Quiet, [NoMesh EXCEPT !.peers = <<Peering(b, None, "STRICT")>>,
                                         !.virtualServices = <<Virtual(<<Plainly(<<To(1, 100)>>)>>)>>,
                                         !.destinationRules = <<rule>>]) :
                  rule \in {Rule(None, <<Sub(1, {t1}, "SIMPLE")>>), Rule("DISABLE", <<Sub(1, {t1}, "ISTIO_MUTUAL")>>),
                            [Rule("ISTIO_MUTUAL", <<Sub(1, {t1}, None)>>) EXCEPT
                                 !.policy.ports = {[port |-> 81, tls |-> "SIMPLE"]}],
                            [Rule("DISABLE", <<>>) EXCEPT !.exportTo = {b}]}}

-------------------------------------------------------------------------------
(* Routes.                                                                 *)

AnyMatch == [line |-> TRUE, port |-> 0, authority |-> None, namespace |-> None, labels |-> None]
Faulty(status, percent, delay) ==
    [Plainly(<<To(0, 100)>>) EXCEPT !.abort = [status |-> status, percent |-> percent], !.delay = delay]
Whole == <<Sub(1, {t1}, None), Sub(2, {t2}, None)>>

RouteLists ==
    {<<Plainly(<<To(1, 100)>>)>>, <<Plainly(<<To(2, 100)>>)>>, <<Plainly(<<To(3, 100)>>)>>,
     <<Plainly(<<To(1, 50), To(2, 50)>>)>>,
     <<[Plainly(<<To(2, 100)>>) EXCEPT !.matches = {[AnyMatch EXCEPT !.port = 80]}], Plainly(<<To(1, 100)>>)>>,
     <<[Plainly(<<To(2, 100)>>) EXCEPT !.matches = {[AnyMatch EXCEPT !.authority = {"address"}],
                                                    [AnyMatch EXCEPT !.labels = {t1}, !.namespace = b]}]>>,
     <<[Plainly(<<To(0, 100)>>) EXCEPT !.direct = 418]>>, <<[Plainly(<<To(0, 100)>>) EXCEPT !.redirect = TRUE]>>,
     <<Faulty(503, 100, 0)>>, <<Faulty(503, 50, 50)>>, <<Faulty(0, 0, 100)>>}

Abroad == [Virtual(<<Plainly(<<To(2, 100)>>)>>) EXCEPT !.hosts = {Shop}]

Virtuals == {<<Virtual(routes)>> : routes \in RouteLists}
               \cup {<<[Abroad EXCEPT !.namespace = a]>>, <<[Abroad EXCEPT !.namespace = a, !.hosts = {Short}]>>,
                     <<[Abroad EXCEPT !.mesh = FALSE]>>, <<[Abroad EXCEPT !.exportTo = {b}]>>}

RoutePaths ==
    {Path(Quiet, [NoMesh EXCEPT !.virtualServices = v, !.destinationRules = <<Rule(None, Whole)>>]) : v \in Virtuals}
        \cup {Path(Quiet, [NoMesh EXCEPT !.virtualServices = <<Virtual(<<Plainly(<<To(1, 50), To(2, 50)>>)>>)>>,
                                         !.destinationRules = rules]) : rules \in {<<>>, <<Rule(None, <<Sub(1, {t1}, None)>>)>>}}

Scope(selects, hosts) == [namespace |-> a, selects |-> selects, hosts |-> hosts]
At(scope, name) == [scope |-> scope, name |-> name]

ScopePaths ==
    {Path(Quiet, [NoMesh EXCEPT !.scopes = scopes]) :
        scopes \in {<<Scope(None, {At("~", "*")}), Scope({src}, {At(b, shop), At(".", "*")})>>,
                    <<Scope(None, {At(".", "*")})>>, <<Scope({t1}, {At(".", "*")}), Scope(None, None)>>}}

-------------------------------------------------------------------------------
(* What may not be read, and earlier layers that have a cause.             *)

Busy == [NoMesh EXCEPT !.authorization = {[Deny EXCEPT !.namespace = system], Allow}, !.requestAuthentication = {Jwt},
                       !.virtualServices = <<Virtual(<<Plainly(<<To(2, 100)>>)>>)>>,
                       !.destinationRules = <<Rule(None, Whole)>>, !.peers = <<Peering(system, None, "STRICT")>>,
                       !.scopes = <<Scope(None, {At(".", "*")})>>]

UnreadPaths ==
    {Path(Quiet, [Busy EXCEPT !.lists[kind] = [Reading EXCEPT ![n] = outcome]]) :
        kind \in MeshKinds, n \in {b, system}, outcome \in {"absent", "error"}}
        \cup {Path(Quiet, [Busy EXCEPT !.rootRead = FALSE, !.root = b]), Path(Quiet, [Busy EXCEPT !.ready = {}])}

BlockedWorlds ==
    {[Quiet EXCEPT !.native = {NOut({})}], [Quiet EXCEPT !.service.ports = <<ToPort(None, 80, 82)>>],
     [Quiet EXCEPT !.service = [Shifted EXCEPT !.vip = None]], [Quiet EXCEPT !.source = None],
     [Quiet EXCEPT !.targets = <<>>], [Quiet EXCEPT !.access.resolvConf = FALSE],
     [Quiet EXCEPT !.service.ports = <<[ToPort(None, 81, 81) EXCEPT !.protocol = "UDP"]>>],
     [Quiet EXCEPT !.service.ports = <<ToPort(web, 80, metrics)>>],
     [Quiet EXCEPT !.targets = <<coredns>>, !.namespace = system, !.service.namespace = system],
     [Base EXCEPT !.targets = <<t1>>],
     [Quiet EXCEPT !.cilium = <<CPolicy(a, <<[CRule({src}) EXCEPT !.egress = {CEntry([NoPeers EXCEPT !.cidrs = {site}], {})}]>>)>>]}

BlockedPaths ==
    {Path(w, [NoMesh EXCEPT !.sidecars = sidecars]) : w \in BlockedWorlds, sidecars \in {{}, {t1}}}

\* With a cluster IP the second URL meets what the first did, or something else.
AddressPaths ==
    LET NameOnly == [Free EXCEPT !.to = {[AnyOperation EXCEPT !.hosts = Only({"name"})]}]
        ToAddress == [Plainly(<<To(2, 100)>>) EXCEPT !.matches = {[AnyMatch EXCEPT !.authority = {"address"}]}]
        Laid(policies, route) == [NoMesh EXCEPT !.authorization = policies, !.virtualServices = <<Virtual(<<route>>)>>,
                                                 !.destinationRules = <<Rule(None, Whole)>>]
    IN  {Path([Base EXCEPT !.targets = <<t1>>], m) :
            m \in {Laid({}, Faulty(503, 50, 0)), Laid({[Allow EXCEPT !.rules = {NameOnly}]}, ToAddress)}}
        \cup {Path(Base, [NoMesh EXCEPT !.ready = {t1, t2}, !.peers = <<Peering(b, {t2}, "STRICT")>>, !.sidecars = {t1, t2}])}

MCMeshPaths ==
    AddressPaths \cup AuthorizationPaths \cup EncryptionPaths \cup RoutePaths
        \cup ScopePaths \cup UnreadPaths \cup BlockedPaths

MCRuntimeWorlds == MCWorlds \cup {path.world : path \in MCMeshPaths}

===============================================================================
