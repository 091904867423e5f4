---------------------------- MODULE MCPolicyCommands ----------------------------
(***************************************************************************)
(* Clusters for TLC: a source pod in namespace a, the two target pods of a *)
(* Service in namespace b, the DNS pod, and policies of one engine each.   *)
(***************************************************************************)
EXTENDS PolicyCommands

CONSTANTS src, t1, t2, coredns, a, b, system, web, metrics, shop, kubedns, vip, dnsvip, site, local

MCNamespaceOf ==
    [p \in {src, t1, t2, coredns} |-> IF p = src THEN a ELSE IF p = coredns THEN system ELSE b]

MCAddressOrder == <<coredns, src, t1, t2, dnsvip, vip, local, site>>

TCPPort(name, number) == [name |-> name, number |-> number, protocol |-> "TCP"]

MCContainerPorts ==
    [p \in {src, t1, t2, coredns} |->
        CASE p = src     -> <<>>
          [] p = t1      -> <<TCPPort(web, 81)>>
          [] p = t2      -> <<TCPPort(web, 81), TCPPort(metrics, 90)>>
          [] p = coredns -> <<[TCPPort(None, 53) EXCEPT !.protocol = "UDP"]>>]

ToPort(name, number, target) ==
    [name |-> name, port |-> number, nodePort |-> 0, target |-> target, protocol |-> "TCP"]

\* A port as it is, shifted, by name; with a second port; exposed on nodes.
Straight == [name |-> shop, namespace |-> b, vip |-> vip, ports |-> <<ToPort(None, 81, 81)>>,
             chosen |-> 1, exposed |-> FALSE]
Shifted == [Straight EXCEPT !.ports = <<ToPort(None, 80, 81)>>]
Named == [Straight EXCEPT !.ports = <<ToPort(web, 80, web)>>]
Two == [Straight EXCEPT !.ports = <<ToPort(web, 80, web), ToPort(metrics, 90, metrics)>>]
Exposed == [Straight EXCEPT !.ports = <<[ToPort(None, 81, 81) EXCEPT !.nodePort = 30081]>>, !.exposed = TRUE]
Portless == [Straight EXCEPT !.ports = <<>>, !.chosen = 0, !.vip = None]

ReadAll == [native |-> "read", nativeSource |-> "read", labels |-> TRUE,
            calico |-> [namespaced |-> "read", global |-> "read"],
            calicoRead |-> [sets |-> TRUE, accounts |-> TRUE],
            cilium |-> [namespaced |-> "read", clusterwide |-> "read", groups |-> "read"],
            endpoints |-> {}, resolvConf |-> TRUE]

Base == [native |-> {}, calico |-> {}, cilium |-> <<>>, hosts |-> {}, staged |-> FALSE,
         fallback |-> [egress |-> "none", ingress |-> "none", dns |-> "none"],
         service |-> Straight, namespace |-> b, targets |-> <<t1, t2>>, source |-> src,
         dns |-> [nameservers |-> <<dnsvip>>, service |-> dnsvip, coreDNS |-> {coredns}, nodeLocal |-> {}],
         access |-> ReadAll]

-------------------------------------------------------------------------------
(* NetworkPolicy.                                                          *)

NPort(port, end) == [tcp |-> TRUE, port |-> port, end |-> end]
NPorts == {{}, {NPort(81, 0)}, {NPort(80, 0)}, {NPort(web, 0)}, {NPort(80, 90)}}

NPeer(namespaces, pods, block) == [namespaces |-> namespaces, pods |-> pods, block |-> block]

NPeersOut == {{}, {NPeer({b}, None, {})}, {NPeer({b}, {t2}, {})}, {NPeer(None, {t1}, {})},
              {NPeer(None, None, {t1, site})}}
NPeersIn == {{}, {NPeer({a}, None, {})}, {NPeer(None, {src}, {})}, {NPeer(None, None, {src})}, {NPeer({b}, None, {})}}

NRule(peers, ports) == [peers |-> peers, ports |-> ports]

NOut(rules) == [namespace |-> a, selects |-> {src}, types |-> {"Egress"}, ingress |-> {}, egress |-> rules]
NIn(pods, rules) == [namespace |-> b, selects |-> pods, types |-> {}, ingress |-> rules, egress |-> {}]

NativeSets ==
    {{NOut({NRule(peers, ports)})} : peers \in NPeersOut, ports \in {{}, {NPort(81, 0)}, {NPort(80, 0)}}}
        \cup {{NIn({t1}, {NRule(peers, ports)})} : peers \in NPeersIn, ports \in {{}, {NPort(81, 0)}, {NPort(80, 0)}}}
        \cup {{NOut({NRule({}, ports)}), NIn({t1}, {NRule({}, ports)})} : ports \in NPorts}
        \cup {{NIn({t1}, {}), NIn({t1, t2}, {NRule(peers, {NPort(81, 0)})})} : peers \in NPeersIn}
        \cup {{NOut({}), NOut({NRule({NPeer(None, None, {vip})}, {})}), NIn({t2}, {})},
              {[NOut({NRule({}, {[NPort(53, 0) EXCEPT !.tcp = FALSE]})}) EXCEPT !.types = {}]},
              {NOut({}), [NOut({}) EXCEPT !.selects = {}]}}

\* Where the Service shifts its port, the ports of the policies matter.
NativeWorlds ==
    {[Base EXCEPT !.native = n] : n \in NativeSets}
        \cup {[Base EXCEPT !.native = {policy}, !.service = Shifted] :
                  policy \in {NOut({NRule({}, ports)}) : ports \in NPorts}
                                \cup {NIn({t1}, {NRule({}, ports)}) : ports \in NPorts}}

-------------------------------------------------------------------------------
(* Cilium.                                                                 *)

NoPeers == [endpoints |-> {}, requires |-> {}, services |-> <<>>, entities |-> {}, cidrs |-> None, groups |-> {}]

CPeers == {NoPeers, [NoPeers EXCEPT !.endpoints = {{t1}}],
           [NoPeers EXCEPT !.endpoints = {{t1, t2}}, !.requires = {{t2}}],
           [NoPeers EXCEPT !.entities = {"cluster"}], [NoPeers EXCEPT !.entities = {"world"}],
           [NoPeers EXCEPT !.cidrs = {site, vip}], [NoPeers EXCEPT !.cidrs = {}, !.groups = {site}],
           [NoPeers EXCEPT !.services = <<[selector |-> TRUE, services |-> {}, namespace |-> None]>>],
           [NoPeers EXCEPT !.services = <<[selector |-> FALSE, services |-> {shop}, namespace |-> b]>>]}

CPort(port, end) == [ports |-> {[port |-> port, end |-> end, protocol |-> "TCP"]}, l7 |-> FALSE]
CPorts == {{}, {CPort(81, 0)}, {CPort(80, 90)}, {CPort(90, 0)}, {CPort(web, 0)}, {[CPort(81, 0) EXCEPT !.l7 = TRUE]}}

CEntry(peers, ports) == [peers |-> peers, ports |-> ports, fqdns |-> {}]
AllowAll == {CEntry(NoPeers, {})}

CRule(pods) == [selects |-> pods, egress |-> {}, egressDeny |-> {}, ingress |-> {}, ingressDeny |-> {}]

CPolicy(namespace, rules) == [namespace |-> namespace, bad |-> FALSE, rules |-> rules]
Bad == [CPolicy(b, <<>>) EXCEPT !.bad = TRUE]

CiliumLists ==
    {<<CPolicy(a, <<[CRule({src}) EXCEPT !.egress = {CEntry(p, q)}]>>)>> : p \in CPeers, q \in {{}, {CPort(81, 0)}}}
        \cup {<<CPolicy(a, <<[CRule({src}) EXCEPT !.egress = {CEntry(NoPeers, q)}]>>)>> : q \in CPorts}
        \cup {<<Bad, CPolicy(a, <<[CRule({src}) EXCEPT !.egress = AllowAll, !.egressDeny = {CEntry(p, q)}]>>)>> :
                  p \in CPeers, q \in {{}, {CPort(80, 90)}}}
        \cup {<<CPolicy(b, <<[CRule({t1}) EXCEPT !.ingress = {CEntry(p, q)}]>>)>> :
                  p \in {NoPeers, [NoPeers EXCEPT !.endpoints = {{src}}], [NoPeers EXCEPT !.endpoints = {{t2}}],
                         [NoPeers EXCEPT !.endpoints = {{src}}, !.requires = {{t2}}],
                         [NoPeers EXCEPT !.entities = {"all"}]}, q \in {{}, {CPort(81, 0)}}}
        \cup {<<CPolicy(b, <<[CRule({t1}) EXCEPT !.ingress = {CEntry(NoPeers, q)}]>>)>> : q \in CPorts}
        \cup {<<CPolicy(None, <<[CRule({t1, t2}) EXCEPT !.ingressDeny = {CEntry(NoPeers, {})}],
                                [CRule({src}) EXCEPT !.egress = {[CEntry(NoPeers, {}) EXCEPT !.fqdns = {site}]}]>>)>>,
              <<CPolicy(a, <<[CRule({src}) EXCEPT !.egress = {CEntry([NoPeers EXCEPT !.endpoints = {{coredns}}],
                                                                     {CPort(53, 0)})}],
                             [CRule({src}) EXCEPT !.egressDeny = {CEntry(NoPeers, {CPort(53, 0)})}]>>)>>}

CiliumWorlds ==
    {[Base EXCEPT !.cilium = c] : c \in CiliumLists}
        \cup {[Base EXCEPT !.cilium = c, !.service = s] :
                  c \in {<<CPolicy(a, <<[CRule({src}) EXCEPT !.egress = {CEntry(p, {CPort(90, 0)})}]>>)>> : p \in CPeers},
                  s \in {Named, Two}}

-------------------------------------------------------------------------------
(* Calico.                                                                 *)

KRule(action) == [action |-> action, protocol |-> "tcp", extra |-> "none",
                  source |-> AnyEntity, destination |-> AnyEntity]

KPolicy(namespace, order) ==
    [name |-> order, namespace |-> namespace, bad |-> FALSE, selects |-> {}, types |-> {}, tierOrder |-> 1,
     order |-> order, modes |-> {}, selectsHosts |-> {}, ingress |-> <<>>, egress |-> <<>>]

KOut(rules) == [KPolicy(a, 1) EXCEPT !.selects = {src}, !.types = {"egress"}, !.egress = rules]
KIn(rules) == [KPolicy(None, 1) EXCEPT !.selects = {t1, t2}, !.types = {"ingress"}, !.ingress = rules]

Token(min, max, text) == [name |-> None, min |-> min, max |-> max, text |-> text]

KEntities ==
    {AnyEntity, [AnyEntity EXCEPT !.ports = {Token(81, 81, TRUE)}],
     [AnyEntity EXCEPT !.ports = {Token(80, 90, FALSE)}, !.notPorts = {Token(81, 81, FALSE)}],
     [AnyEntity EXCEPT !.ports = {Token(80, 90, TRUE)}], [AnyEntity EXCEPT !.notPorts = {Token(80, 80, FALSE)}],
     [AnyEntity EXCEPT !.ports = {[Token(1, 1, FALSE) EXCEPT !.name = web]}],
     [AnyEntity EXCEPT !.namespaces = {b}, !.selector = {t1}],
     [AnyEntity EXCEPT !.namespaces = {a, b}, !.notSelector = {t1}],
     [AnyEntity EXCEPT !.nets = {t1, dnsvip}], [AnyEntity EXCEPT !.notNets = {t1}],
     [AnyEntity EXCEPT !.selector = {}, !.sets = {t1}],
     [AnyEntity EXCEPT !.accounts = {t1}, !.labelled = TRUE],
     [AnyEntity EXCEPT !.services = {[name |-> shop, namespace |-> b]}]}

\* Entities that match, that do not, and that match by an address.
Few == {[AnyEntity EXCEPT !.ports = {Token(81, 81, TRUE)}], [AnyEntity EXCEPT !.notNets = {t1}],
        [AnyEntity EXCEPT !.nets = {t1, dnsvip}]}

From == {[AnyEntity EXCEPT !.namespaces = {a}, !.selector = {src}], [AnyEntity EXCEPT !.nets = {t2}],
         [AnyEntity EXCEPT !.accounts = {src}]}

Towards(action, entity) == [KRule(action) EXCEPT !.destination = entity]

\* One rule, a rule before a final one, rules of two policies and of two tiers.
CalicoSets ==
    {{KOut(<<[KRule("log") EXCEPT !.extra = "http"], Towards("allow", e)>>)} : e \in KEntities}
        \cup {{KOut(<<Towards("deny", e), KRule("allow")>>)} : e \in KEntities}
        \cup {{KOut(<<Towards("pass", e), KRule("deny")>>)} : e \in Few}
        \cup {{KIn(<<[Towards("deny", e) EXCEPT !.source = f], [KRule("allow") EXCEPT !.extra = "icmp"]>>)} :
                  e \in {AnyEntity, [AnyEntity EXCEPT !.ports = {Token(81, 81, TRUE)}]}, f \in From}
        \cup {{KIn(<<Towards("deny", e), KRule("allow")>>)} : e \in KEntities}
        \cup {{KOut(<<KRule("deny")>>), [KOut(<<Towards("allow", e)>>) EXCEPT !.order = order, !.name = 2,
                                                                            !.tierOrder = tier]} :
                  e \in Few, <<order, tier>> \in {<<0, 1>>, <<2, 0>>, <<2, 1>>}}
        \cup {{[KIn(<<KRule("allow")>>) EXCEPT !.bad = TRUE], KIn(<<KRule("pass")>>)},
              {[KOut(<<[KRule("allow") EXCEPT !.protocol = "udp"]>>) EXCEPT !.types = {}]}}

CalicoWorlds ==
    {[Base EXCEPT !.calico = c, !.targets = <<t1>>] : c \in CalicoSets}
        \cup {[Base EXCEPT !.calico = {KOut(<<Towards(action, e)>>)}, !.service = way[1], !.targets = way[2]] :
                  e \in KEntities, <<action, way>> \in {<<"deny", <<Named, <<t1, t2>>>>>>, <<"allow", <<Two, <<t2>>>>>>}}
        \cup {[Base EXCEPT !.fallback = [egress |-> f, ingress |-> f, dns |-> f], !.calico = c, !.staged = TRUE] :
                  f \in {"PASS", "FAIL"}, c \in {{}, {KOut(<<KRule("pass")>>)}, {KIn(<<KRule("pass")>>)}}}

Host(modes, hosts, rules) ==
    [KPolicy(None, 1) EXCEPT !.types = {"ingress"}, !.modes = modes, !.selectsHosts = hosts, !.ingress = rules]

HostWorlds ==
    {[Base EXCEPT !.service = Exposed, !.hosts = hosts, !.calico = {Host(modes, {site}, <<Towards(action, e)>>)}] :
        action \in {"allow", "deny", "pass"},
        <<hosts, modes>> \in {{site}} \X {{"preDNAT", "applyOnForward"}, {"applyOnForward"}, {"preDNAT", "doNotTrack"}}
                                \cup {<<{local}, {"preDNAT", "applyOnForward"}>>},
        e \in {[AnyEntity EXCEPT !.ports = {[Token(1, 1, FALSE) EXCEPT !.name = web]}],
               [AnyEntity EXCEPT !.ports = {Token(30081, 30081, FALSE)}]}}

-------------------------------------------------------------------------------
(* What a user may not read, and clusters without a source, pods or a port. *)

Accesses ==
    {[ReadAll EXCEPT !.native = "error", !.endpoints = {Plain("Cilium-endpoints", "INFO")}],
     [ReadAll EXCEPT !.nativeSource = "error", !.calicoRead = [sets |-> FALSE, accounts |-> FALSE]],
     [ReadAll EXCEPT !.labels = FALSE], [ReadAll EXCEPT !.resolvConf = FALSE],
     [ReadAll EXCEPT !.calico.namespaced = "absent", !.calico.global = "absent"],
     [ReadAll EXCEPT !.calico.namespaced = "error"], [ReadAll EXCEPT !.calico.global = "error"],
     [ReadAll EXCEPT !.cilium.namespaced = "absent"], [ReadAll EXCEPT !.cilium.namespaced = "error"],
     [ReadAll EXCEPT !.cilium.clusterwide = "error"], [ReadAll EXCEPT !.cilium.groups = "error"]}

Everything ==
    [Base EXCEPT !.native = {NOut({NRule({NPeer({b}, None, {})}, {NPort(81, 0)})})},
                 !.calico = {KOut(<<KRule("allow")>>), Host({"preDNAT", "applyOnForward"}, {site}, <<>>)},
                 !.cilium = <<Bad, CPolicy(a, <<[CRule({src}) EXCEPT !.egress = AllowAll]>>)>>,
                 !.hosts = {site}, !.service = Exposed]

PartialWorlds ==
    {[Everything EXCEPT !.access = x, !.cilium = IF x.cilium.namespaced = "absent" THEN <<>> ELSE @] : x \in Accesses}
        \cup {Base, Everything, [Everything EXCEPT !.source = None], [Everything EXCEPT !.targets = <<>>],
              [Everything EXCEPT !.service = Portless],
              [Everything EXCEPT !.dns.nameservers = <<local, dnsvip>>, !.dns.nodeLocal = {coredns}],
              [Everything EXCEPT !.dns.nameservers = <<coredns>>]}

MCWorlds == NativeWorlds \cup CiliumWorlds \cup CalicoWorlds \cup HostWorlds \cup PartialWorlds

MCAsks ==
    {[direction |-> way[1], to |-> way[2], numbers |-> {81}, names |-> {}] :
        way \in {<<"egress", "service">>, <<"egress", "namespace">>, <<"egress", "nothing">>,
                 <<"ingress", "pods">>, <<"ingress", "namespace">>}}
    \cup {[direction |-> "egress", to |-> "service", numbers |-> {80, 81}, names |-> {}],
          [direction |-> "ingress", to |-> "nothing", numbers |-> {}, names |-> {web}]}

Site(port, valid) == [host |-> site, port |-> port, valid |-> valid]
MCURLLists == {<<>>, <<Site(81, TRUE)>>, <<Site(81, FALSE), [Site(0, TRUE) EXCEPT !.host = local]>>}

MCFlags == {[failOnWarn |-> FALSE, ignored |-> {}], [failOnWarn |-> TRUE, ignored |-> {"policy-ambiguous"}]}

===============================================================================
