---------------------------- MODULE MCGatewayTraffic ----------------------------
(***************************************************************************)
(* Clusters and command lines for TLC.  Each family of cases varies one    *)
(* part of a plain cluster: a Gateway, a route and a Service that works.   *)
(***************************************************************************)
EXTENDS GatewayTraffic

CONSTANTS api, shop, org, a, b, h, q, POST, cart, add

Wild(labels) == [wild |-> TRUE, labels |-> labels]
Plain(labels) == [wild |-> FALSE, labels |-> labels]
Host == <<api, org>>

Text(segments) == [segments |-> segments, slash |-> segments = <<>>]
Slashed(segments) == [segments |-> segments, slash |-> TRUE]
Prefix(segments) == [type |-> "PathPrefix", value |-> Text(segments)]
Exact(segments) == [type |-> "Exact", value |-> Text(segments)]
Regex(segments) == [type |-> "RegularExpression", value |-> Text(segments)]

To(name) == [name |-> name, namespace |-> 1, kind |-> TRUE, port |-> 80, weight |-> 1]
Rules(matches, backends) == [matches |-> matches, backends |-> backends, mirrors |-> <<>>, redirect |-> FALSE]
Parent(g, section) == [kind |-> TRUE, gateway |-> g, section |-> section]
Status(accepted, resolved) ==
    [accepted |-> accepted, resolved |-> resolved, partial |-> "absent",
     says |-> [accepted |-> {}, resolved |-> {}, partial |-> {}]]

ARoute == [namespace |-> 1, created |-> 1, parents |-> <<Parent(1, 0)>>, hostnames |-> {},
           rules |-> <<Rules({}, <<To(1)>>)>>, statuses |-> <<Status("True", "True")>>]

AListener == [protocol |-> "HTTP", port |-> 80, hostname |-> None, programmed |-> "True", resolved |-> "True",
              says |-> [programmed |-> {}, resolved |-> {}], certificates |-> <<>>]
AGateway == [namespace |-> 1, class |-> 1, listeners |-> <<AListener>>, addresses |-> {1}]

View(ports) == [found |-> TRUE, ports |-> ports, external |-> FALSE]
Service(name) == <<<<1, name>>, View({80})>>
Ready(name) == <<<<1, name>>, "ready">>
NoImplementation == {[error |-> FALSE, services |-> <<>>]}

AWorld == [failing |-> {}, unknown |-> {}, gateways |-> <<AGateway>>, kind |-> "HTTPRoute",
           routes |-> <<ARoute>>, grants |-> {}, secrets |-> {}, services |-> {Service(1), Service(2)},
           ready |-> {Ready(1), Ready(2)}, implementation |-> <<NoImplementation>>]

AnOption == [url |-> FALSE, malformed |-> FALSE, protocol |-> "auto", scheme |-> "none", host |-> Host, port |-> 0,
             path |-> Text(<<a, b>>), method |-> POST, headers |-> {h}, params |-> {q}, service |-> None, call |-> None,
             namespace |-> 0, gateways |-> None, routes |-> None, class |-> 0, expect |-> <<0, 0>>,
             probe |-> FALSE, dial |-> "advertised", limit |-> 0]

Lenient == [failOnWarn |-> FALSE, ignored |-> {}]
Strict == [failOnWarn |-> TRUE, ignored |-> {"conditional-routing", "output-limited"}]

Cases(worlds, options) == [worlds |-> worlds, opts |-> options, flags |-> {Lenient}]
BothWays(worlds, options) == [worlds |-> worlds, opts |-> options, flags |-> {Lenient, Strict}]

-------------------------------------------------------------------------------
(* Two routes, or two rules of one, that may both match.                   *)

Entry(path, method, headers, params) ==
    [AnyMatch EXCEPT !.path = path, !.method = method, !.headers = headers, !.params = params]

Entries ==
    {Entry(None, None, {}, {}), Entry(Prefix(<<>>), POST, {}, {}), Entry(Prefix(<<a>>), None, {}, {}),
     Entry(Prefix(<<a>>), POST, {}, {q}), Entry(Prefix(<<a>>), None, {h}, {}), Entry(Prefix(<<a, b>>), None, {}, {}),
     Entry(Prefix(<<a, b>>), None, {h}, {}), Entry(Prefix(<<a, b>>), None, {}, {q}), Entry(Exact(<<a>>), None, {}, {}),
     Entry(Exact(<<a, b>>), None, {}, {}), Entry(Prefix(<<b>>), GET, {h}, {q}), Entry(Regex(<<b>>), None, {}, {})}

\* Paths that end in a slash.
SlashEntries ==
    {Entry([Prefix(<<a>>) EXCEPT !.value = Slashed(<<a>>)], None, {}, {}),
     Entry([Exact(<<a>>) EXCEPT !.value = Slashed(<<a>>)], None, {}, {})}

Hosts == {{}, {Plain(Host)}, {Wild(<<org>>)}, {Wild(Host), Wild(<<shop>>)}, {Plain(<<shop, org>>), Plain(Host)}}

With(matches, hosts, created, backend) ==
    [ARoute EXCEPT !.hostnames = hosts, !.created = created, !.rules = <<Rules(matches, <<To(backend)>>)>>]

Pairs(ages) ==
    {[AWorld EXCEPT !.routes = <<With({m}, {}, 2, 1), With({n}, {}, age, 2)>>] :
        m \in Entries, n \in Entries, age \in ages}

SlashPairs ==
    {[AWorld EXCEPT !.routes = <<With({m}, {}, 2, 1), With({n}, {}, 1, 2)>>] :
        m \in SlashEntries, n \in SlashEntries \cup {Entry(None, None, {}, {}), Entry(Prefix(<<a>>), None, {}, {}),
                                                   Entry(Exact(<<a>>), None, {}, {})}}

Rivals ==
    {[AWorld EXCEPT !.routes = <<With({}, hosts, 1, 1), With({m}, others, 1, 2)>>] :
        m \in {Entry(None, None, {}, {}), Entry(Prefix(<<a>>), None, {h}, {})}, hosts \in Hosts, others \in Hosts}
    \cup {[AWorld EXCEPT !.routes = <<[ARoute EXCEPT !.rules = <<Rules({m, n}, <<To(1)>>), Rules({k}, <<To(2)>>)>>]>>] :
        m \in {Entry(Exact(<<a, b>>), GET, {}, {}), Entry(Prefix(<<a>>), POST, {h}, {})}, n \in Entries, k \in Entries}

\* The same for a gRPC method.
CallEntry(service, call, headers) == [AnyMatch EXCEPT !.service = service, !.call = call, !.headers = headers]

CallEntries ==
    {CallEntry(None, None, {h}), CallEntry(<<cart, add>>, None, {}), CallEntry(<<cart, add>>, None, {h}),
     CallEntry(<<cart, add>>, <<add>>, {}), CallEntry(None, <<add>>, {}), CallEntry(<<add>>, None, {}),
     CallEntry(<<cart, add>>, <<cart>>, {}), [CallEntry(<<add>>, None, {}) EXCEPT !.type = "RegularExpression"]}

CallWorlds ==
    {[AWorld EXCEPT !.kind = "GRPCRoute", !.routes = <<With({m}, {}, 2, 1), With({n}, {}, 1, 2)>>] :
        m \in CallEntries, n \in CallEntries}

\* A request without conditions, with some, for gRPC and for TLS.
Bare == [AnOption EXCEPT !.method = None, !.headers = {}, !.params = {}]
CallOption == [Bare EXCEPT !.service = <<cart, add>>, !.call = <<add>>, !.path = None, !.port = 80]
TLSOption == [Bare EXCEPT !.path = None, !.port = 443]
PathOption == [Bare EXCEPT !.path = Text(<<b>>)]
SlashOption == [Bare EXCEPT !.path = Slashed(<<a>>)]

RivalCases ==
    {Cases(Rivals \cup Pairs({0, 1, 2}), {AnOption}), Cases(Pairs({1}), {Bare, PathOption}),
     Cases(SlashPairs, {SlashOption, [SlashOption EXCEPT !.path = Text(<<a>>)]}),
     Cases(CallWorlds, {CallOption, [CallOption EXCEPT !.headers = {h}]})}

-------------------------------------------------------------------------------
(* Listeners, what attaches to them, and certificates.                     *)

On(protocol, port, hostname) ==
    [AListener EXCEPT !.protocol = protocol, !.port = port, !.hostname = hostname]

ListenerPairs ==
    {<<On("HTTP", 80, None), On("HTTPS", 443, None)>>, <<On("HTTP2", 0, Plain(Host)), On("HTTP", 80, Wild(<<org>>))>>,
     <<On("HTTP", 80, Plain(<<shop, org>>)), On("HTTP", 81, Plain(Host))>>, <<On("TLS", 443, Wild(<<org>>))>>}

Attachments == {<<Parent(1, 0)>>, <<Parent(1, 1)>>, <<Parent(1, 2), Parent(2, 1)>>, <<[Parent(1, 0) EXCEPT !.kind = FALSE]>>}

ListenerWorlds ==
    {[AWorld EXCEPT !.kind = kind, !.gateways = <<[AGateway EXCEPT !.listeners = pair], [AGateway EXCEPT !.class = 2]>>,
                    !.routes = <<[ARoute EXCEPT !.parents = parents, !.hostnames = hosts]>>,
                    !.implementation = <<NoImplementation, NoImplementation>>] :
        kind \in Family, pair \in ListenerPairs, parents \in Attachments,
        hosts \in {{}, {Wild(<<org>>)}, {Plain(<<shop, org>>)}}}

Schemes ==
    {Bare, [Bare EXCEPT !.port = 81], [Bare EXCEPT !.scheme = "https", !.url = TRUE],
     [Bare EXCEPT !.scheme = "http", !.protocol = "http", !.host = <<shop, org>>], [Bare EXCEPT !.scheme = "other"],
     TLSOption, CallOption, [Bare EXCEPT !.host = <<shop, api, org>>]}

Pem(namespace, secret) == [kind |-> TRUE, namespace |-> namespace, secret |-> secret]
CertificateLists == {<<>>, <<Pem(1, 1)>>, <<Pem(1, 2), Pem(2, 1)>>, <<[Pem(1, 1) EXCEPT !.kind = FALSE], Pem(2, 1)>>}

GatewayMay(secret) == [from |-> 1, kind |-> "Gateway", namespace |-> 2, to |-> "Secret", name |-> secret]

SecureWorlds ==
    {[AWorld EXCEPT !.gateways = <<[AGateway EXCEPT
                        !.listeners = <<[On("HTTPS", 443, None) EXCEPT !.certificates = list, !.programmed = programmed],
                                        [On("HTTPS", 443, None) EXCEPT !.resolved = resolved]>>]>>,
                    !.secrets = {<<1, 1>>, <<2, 1>>}, !.grants = grants, !.routes = routes] :
        list \in CertificateLists, programmed \in {"True", "False"}, resolved \in {"absent", "False"},
        grants \in {{}, {GatewayMay(0)}, {GatewayMay(2)}, {[GatewayMay(1) EXCEPT !.kind = "HTTPRoute"]}},
        routes \in {<<>>, <<ARoute>>}}

ListenerCases == {Cases(ListenerWorlds, Schemes), Cases(SecureWorlds, {[Bare EXCEPT !.scheme = "https"]})}

-------------------------------------------------------------------------------
(* Backends, and what is said of their routes.                             *)

BackendLists ==
    {<<To(1)>>, <<To(1), To(2)>>, <<To(1), [To(2) EXCEPT !.weight = 0]>>, <<[To(1) EXCEPT !.weight = 0]>>, <<>>,
     <<To(1), [To(1) EXCEPT !.port = 81], To(2)>>, <<[To(1) EXCEPT !.kind = FALSE], To(2)>>, <<[To(1) EXCEPT !.port = 0]>>,
     <<[To(0) EXCEPT !.weight = 1], To(3)>>, <<[To(1) EXCEPT !.namespace = 2]>>, <<[To(2) EXCEPT !.namespace = 2], To(1)>>}

RouteMay(name) == [from |-> 1, kind |-> "HTTPRoute", namespace |-> 2, to |-> "Service", name |-> name]

GrantSets == {{}, {RouteMay(0)}, {RouteMay(1), [RouteMay(0) EXCEPT !.to = "Secret"]}, {[RouteMay(0) EXCEPT !.from = 2]},
              {[RouteMay(0) EXCEPT !.kind = "GRPCRoute"]}}

\* While the command runs, Service 1 may lose its port or be gone, its endpoints
\* may come and go, and those of Service 2 may become unreadable.
Moving == [AWorld EXCEPT
    !.services = {Service(1), <<<<1, 1>>, View({81})>>, <<<<1, 1>>, Missing>>, Service(2), <<<<2, 1>>, View({80})>>,
                  <<<<2, 2>>, [View({80}) EXCEPT !.external = TRUE]>>},
    !.ready = {Ready(1), <<<<1, 1>>, "none">>, Ready(2), <<<<1, 2>>, "error">>, <<<<2, 1>>, "ready">>}]

StatusLists ==
    {<<>>, <<Status("True", "True")>>, <<Status("False", "False")>>, <<Status("True", "False"), Status("absent", "absent")>>,
     <<[Status("absent", "True") EXCEPT !.partial = "True"]>>}

BackendWorlds ==
    {[Moving EXCEPT !.routes = <<[ARoute EXCEPT !.rules = <<Rules({}, list)>>, !.statuses = statuses]>>] :
        list \in BackendLists, statuses \in StatusLists}
    \cup {[Moving EXCEPT !.routes = <<[ARoute EXCEPT !.rules = <<Rules({}, list)>>]>>, !.grants = grants] :
        list \in BackendLists, grants \in GrantSets}

\* A redirect, a mirror, and a second Gateway that the route has another rule for.
SpecialWorlds ==
    {[Moving EXCEPT !.routes = <<[ARoute EXCEPT !.rules =
                        <<[Rules({}, <<>>) EXCEPT !.redirect = TRUE, !.mirrors = mirrors], Rules({}, <<To(1)>>)>>]>>] :
        mirrors \in {<<>>, <<To(1)>>}}
    \cup {[Moving EXCEPT !.routes = <<[ARoute EXCEPT !.rules = <<[Rules({}, <<To(2)>>) EXCEPT !.mirrors = mirrors]>>]>>] :
        mirrors \in {<<To(1)>>, <<To(2), [To(2) EXCEPT !.namespace = 2]>>}}
    \cup {[Moving EXCEPT !.gateways = <<AGateway, AGateway>>, !.implementation = <<NoImplementation, NoImplementation>>,
                         !.routes = <<[ARoute EXCEPT !.parents = <<Parent(1, 1), Parent(2, 0)>>, !.rules = <<Rules({}, <<To(1), To(2)>>)>>],
                                      [ARoute EXCEPT !.parents = <<Parent(2, 1), Parent(3, 0)>>, !.created = 0]>>]}

\* Controllers whose messages read like diagnoses of knm.
Messages(accepted, resolved, partial) == [accepted |-> accepted, resolved |-> resolved, partial |-> partial]
TalkativeStatuses ==
    {<<[Status("False", "False") EXCEPT !.says = Messages({}, {"concrete"}, {})]>>,
     <<[Status("False", "True") EXCEPT !.says = Messages({"concrete"}, {}, {})], Status("absent", "False")>>,
     <<[Status("True", "False") EXCEPT !.partial = "True", !.says = Messages({}, {}, {"rejection"})]>>,
     <<[Status("absent", "False") EXCEPT !.partial = "True", !.says = Messages({}, {}, {"concrete"})]>>}

TalkativeWorlds ==
    {[Moving EXCEPT !.routes = <<[ARoute EXCEPT !.rules = <<Rules({}, list)>>, !.statuses = statuses]>>] :
        list \in {<<To(1)>>, <<To(1), To(2)>>}, statuses \in TalkativeStatuses}
    \cup {[AWorld EXCEPT !.gateways = <<[AGateway EXCEPT !.listeners =
                <<[On("HTTP2", 80, None) EXCEPT !.programmed = "False", !.says = says],
                  [On("HTTPS", 80, None) EXCEPT !.programmed = "False", !.resolved = "False", !.says = says]>>]>>] :
        says \in {[programmed |-> {"secret"}, resolved |-> {}], [programmed |-> {}, resolved |-> {"concrete"}]}}

\* limit 1, an expected Service, flags that count warnings.
BackendOptions == {Bare, [Bare EXCEPT !.limit = 1], [Bare EXCEPT !.expect = <<0, 2>>, !.limit = 2]}

BackendCases ==
    {BothWays(BackendWorlds, BackendOptions),
     Cases(TalkativeWorlds, {Bare, [Bare EXCEPT !.scheme = "https", !.port = 80]}),
     BothWays(SpecialWorlds, BackendOptions \cup {[Bare EXCEPT !.expect = <<1, 1>>]})}

-------------------------------------------------------------------------------
(* Probes: addresses, the Services that implement the Gateway, several     *)
(* paths of one listener, two listeners, and a diagnosis that is there.    *)

Implement(list) == [error |-> FALSE, services |-> list]
NoList == [error |-> TRUE, services |-> <<>>]
Exposing(name, ports) == [name |-> name, ports |-> ports]

ImplementationSets ==
    {{Implement(<<>>)}, {NoList, Implement(<<Exposing(2, <<80>>)>>)},
     {Implement(<<Exposing(1, <<81>>)>>), Implement(<<Exposing(2, <<80>>)>>)}, {Implement(<<Exposing(1, <<81>>), Exposing(2, <<82, 80>>)>>)}}

ProbeBackends == {<<To(2)>>, <<To(2), [To(2) EXCEPT !.weight = 2]>>}

ProbeWorlds ==
    {[AWorld EXCEPT !.gateways = <<[AGateway EXCEPT !.addresses = addresses, !.listeners = listeners]>>,
                    !.routes = <<[ARoute EXCEPT !.rules = <<Rules({}, list)>>, !.statuses = statuses]>>,
                    !.ready = {Ready(2)} \cup counts, !.implementation = <<answers>>] :
        addresses \in {{}, {1}, {1, 2}}, listeners \in {<<AListener>>, <<AListener, On("HTTP", 0, Plain(Host))>>},
        list \in ProbeBackends, statuses \in {<<Status("True", "True")>>},
        counts \in {{<<<<1, 1>>, "none">>, <<<<1, 1>>, "error">>}}, answers \in ImplementationSets}
    \cup {[AWorld EXCEPT !.routes = <<[ARoute EXCEPT !.statuses = <<>>]>>, !.implementation = <<answers>>] :
        answers \in ImplementationSets}

ProbeOption == [Bare EXCEPT !.probe = TRUE]
ProbeCases == {Cases(ProbeWorlds, {[ProbeOption EXCEPT !.dial = dial] : dial \in {"given", "invalid"}})}

-------------------------------------------------------------------------------
(* Lists that fail, filters, and options that cannot be used.              *)

ListWorlds ==
    {[AWorld EXCEPT !.failing = failing, !.unknown = unknown,
                    !.gateways = <<AGateway, [AGateway EXCEPT !.namespace = 2, !.class = 2]>>,
                    !.routes = <<ARoute, [ARoute EXCEPT !.namespace = 2, !.parents = <<Parent(2, 0)>>]>>,
                    !.implementation = <<NoImplementation, NoImplementation>>] :
        failing \in {{}, {"TCPRoute", "EnvoyProxy"}, {"Gateway", "parents"}, {"GatewayClass", "HTTPRoute", "ReferenceGrant"}},
        unknown \in {{}, ToSet(Lists), {"Gateway", "parents", "HTTPRoute"}}}

FilterOptions ==
    {Bare, [Bare EXCEPT !.namespace = 1], [Bare EXCEPT !.gateways = {1}], [Bare EXCEPT !.gateways = {}, !.limit = 1],
     [Bare EXCEPT !.routes = {2}, !.namespace = 2], [Bare EXCEPT !.class = 2], [Bare EXCEPT !.class = 3, !.routes = {}, !.limit = 2],
     [Bare EXCEPT !.malformed = TRUE], [Bare EXCEPT !.host = None]}

\* A request that gets to its Service, by a Gateway of another namespace than
\* the one that is asked for.
ElsewhereWorld ==
    [AWorld EXCEPT !.gateways = <<AGateway, [AGateway EXCEPT !.namespace = 2]>>,
                   !.routes = <<[ARoute EXCEPT !.parents = <<Parent(2, 0)>>]>>,
                   !.implementation = <<NoImplementation, NoImplementation>>]
ElsewhereOptions == {[Bare EXCEPT !.namespace = 1, !.gateways = {2}, !.class = 1, !.limit = limit] : limit \in 1..2}

\* A route that names a Gateway that does not exist, twice.
LostWorld ==
    [AWorld EXCEPT !.routes = <<[ARoute EXCEPT !.parents = <<Parent(1, 0), Parent(2, 1), Parent(2, 2), Parent(0, 0)>>]>>]

FilterCases ==
    {BothWays(ListWorlds, FilterOptions), Cases({ElsewhereWorld}, ElsewhereOptions), Cases({LostWorld}, BackendOptions)}

MCFamilies == RivalCases \cup ListenerCases \cup BackendCases \cup ProbeCases \cup FilterCases

===============================================================================
