---------------------------- MODULE GatewayRouting ----------------------------
(***************************************************************************)
(* How knm check gateway follows a request through the Gateway API: which  *)
(* listeners it arrives at, which rules of which routes match it, and      *)
(* which of them wins (gateway.go:5205-5843).                              *)
(*                                                                         *)
(* Objects of one kind are numbered in the order of "namespace/name", so a *)
(* smaller number is the alphabetically first; number 0 is no object.      *)
(* Labels, path segments and parts of a gRPC name have one length each, so *)
(* the longer of two strings is the one with more of them.  A header or a  *)
(* parameter is a condition that the request meets or does not meet.       *)
(***************************************************************************)
EXTENDS Naturals, Sequences, FiniteSets, SequencesExt

CONSTANTS
    Labels, Segments,          \* of hostnames and paths
    Headers, Params, Methods,  \* what an HTTPRoute may ask for
    Calls,                     \* parts of the names of gRPC services and methods
    None                       \* a field that is not given

\* Without a label there is no hostname: "" is None, and "*." loses its dot and is
\* then compared as it stands (gateway.go:5671-5691).
Hostname == [wild : BOOLEAN, labels : Seq(Labels) \ {<<>>}]

\* "/" before every segment and, with slash, one at the end; "/" alone is Root.
PathText == {text \in [segments : Seq(Segments), slash : BOOLEAN] : text.segments = <<>> => text.slash}
Root == [segments |-> <<>>, slash |-> TRUE]
Path == [type : {"PathPrefix", "Exact", "RegularExpression"}, value : PathText]

\* A gRPC service or method.
Name == Seq(Calls) \ {<<>>}

\* One entry of spec.rules.matches; type, service and call are those of a GRPCRoute.
Match == [path : Path \cup {None}, method : Methods \cup {None}, headers : SUBSET Headers,
          params : SUBSET Params, type : {"Exact", "RegularExpression"},
          service : Name \cup {None}, call : Name \cup {None}]

AnyMatch == [path |-> None, method |-> None, headers |-> {}, params |-> {}, type |-> "Exact",
             service |-> None, call |-> None]

MaxPort == 65535

\* kind: a core Service; port 0: none is given.
Backend == [name : Nat, namespace : Nat, kind : BOOLEAN, port : Nat, weight : Nat]

Rule == [matches : SUBSET Match, backends : Seq(Backend), mirrors : Seq(Backend), redirect : BOOLEAN]

\* kind: a Gateway; section: the number of a listener, 0 for all of them.
ParentRef == [kind : BOOLEAN, gateway : Nat, section : Nat]

\* What the message of a condition may contain, by chance, of the texts that
\* diagnoses are told apart by (gateway.go:786-836).
Fragments == {"concrete", "reference", "rejection", "unaccepted", "unattached", "unreported", "secret", "status"}

\* says: the messages of the three conditions.
Condition == {"True", "False", "Unknown", "absent"}
ParentStatus == [accepted : Condition, resolved : Condition, partial : Condition,
                 says : [accepted : SUBSET Fragments, resolved : SUBSET Fragments, partial : SUBSET Fragments]]

Route == [namespace : Nat, created : Nat, parents : Seq(ParentRef), hostnames : SUBSET Hostname,
          rules : Seq(Rule), statuses : Seq(ParentStatus)]

\* A certificateRef; kind: a core Secret.
Certificate == [kind : BOOLEAN, namespace : Nat, secret : Nat]

Listener == [protocol : {"HTTP", "HTTP2", "H2C", "HTTPS", "TLS", "TCP", "UDP", "none"}, port : 0..MaxPort,
             hostname : Hostname \cup {None}, programmed : Condition, resolved : Condition,
             says : [programmed : SUBSET Fragments, resolved : SUBSET Fragments], certificates : Seq(Certificate)]

Gateway == [namespace : Nat, class : Nat, listeners : Seq(Listener), addresses : SUBSET Nat]

\* Objects in one namespace may refer to the object "name" of kind Secret or
\* Service (0: to every one) in another.
Grant == [from : Nat, kind : {"Gateway", "HTTPRoute", "GRPCRoute", "TLSRoute"}, namespace : Nat,
          to : {"Service", "Secret"}, name : Nat]

Family == {"HTTPRoute", "GRPCRoute", "TLSRoute"}

Intent == [protocol : {"http", "https", "grpc", "tls"}, family : Family,
           scheme : {"http", "https", "other", "none"}, host : Seq(Labels), port : 0..MaxPort,
           path : PathText, method : Methods \cup {None}, headers : SUBSET Headers,
           params : SUBSET Params, service : Name \cup {None}, call : Name \cup {None}]

-------------------------------------------------------------------------------
(* Matching.                                                               *)

\* "*." stands for exactly one label.
HostnameMatches(pattern, host) ==
    \/ pattern = None
    \/ ~pattern.wild /\ pattern.labels = host
    \/ pattern.wild /\ Len(host) = Len(pattern.labels) + 1 /\ IsSuffix(pattern.labels, host)

SchemeMatches(scheme, protocol) ==
    \/ scheme = "none"
    \/ scheme = "http" /\ protocol \in {"HTTP", "HTTP2", "H2C"}
    \/ scheme = "https" /\ protocol \in {"HTTPS", "TLS"}

ProtocolMatches(intent, protocol) ==
    protocol # "none" =>
        CASE intent.family = "GRPCRoute" -> protocol \in {"HTTPS", "HTTP2", "H2C", "HTTP"}
          [] intent.family = "TLSRoute"  -> protocol = "TLS"
          [] intent.family = "HTTPRoute" -> SchemeMatches(intent.scheme, protocol)

ListenerMatches(listener, intent) ==
    /\ ProtocolMatches(intent, listener.protocol)
    /\ intent.port = 0 \/ listener.port = 0 \/ intent.port = listener.port
    /\ HostnameMatches(listener.hostname, intent.host)

Attached(route, g, l) ==
    \E parent \in ToSet(route.parents) :
        parent.kind /\ parent.gateway = g /\ parent.section \in {0, l}

RouteHostMatches(route, host) ==
    route.hostnames = {} \/ \E pattern \in route.hostnames : HostnameMatches(pattern, host)

\* gatewayPathPrefixMatches compares texts: after a prefix that ends in a slash
\* there is one in the path too.
PrefixMatches(value, path) ==
    /\ IsPrefix(value.segments, path.segments)
    /\ value.slash => path.slash \/ Len(path.segments) > Len(value.segments)

\* A regular expression is one text that may be anywhere in the path, or in a name.
PathMatches(match, path) ==
    \/ match.path = None
    \/ match.path.type = "PathPrefix" /\ PrefixMatches(match.path.value, path)
    \/ match.path.type = "Exact" /\ match.path.value = path
    \/ match.path.type = "RegularExpression"
       /\ \E i \in 0..Len(path.segments) :
             PrefixMatches(match.path.value, [path EXCEPT !.segments = SubSeq(@, i + 1, Len(@))])

MethodMatches(match, method) == match.method \in {None, method}
HeadersMatch(match, headers) == match.headers \subseteq headers
ParamsMatch(match, params) == match.params \subseteq params

ValueMatches(type, want, value) ==
    \/ type = "Exact" /\ value = want
    \/ type = "RegularExpression" /\ \E i \in 0..Len(value) : IsPrefix(want, SubSeq(value, i + 1, Len(value)))
NameMatches(type, want, name) == want = None \/ (name # None /\ ValueMatches(type, want, name))
ServiceMatches(match, service) == NameMatches(match.type, match.service, service)
CallMatches(match, intent) == ServiceMatches(match, intent.service) /\ NameMatches(match.type, match.call, intent.call)

HTTPMatches(match, intent) ==
    /\ PathMatches(match, intent.path)
    /\ MethodMatches(match, intent.method)
    /\ HeadersMatch(match, intent.headers)
    /\ ParamsMatch(match, intent.params)

GRPCMatches(match, intent) == CallMatches(match, intent) /\ HeadersMatch(match, intent.headers)

SingleMatch(match, intent) ==
    CASE intent.family = "GRPCRoute" -> GRPCMatches(match, intent)
      [] intent.family = "TLSRoute"  -> TRUE
      [] OTHER                       -> HTTPMatches(match, intent)

\* A rule without matches matches every request.
MatchesOf(rule) == IF rule.matches = {} THEN {AnyMatch} ELSE rule.matches

RuleMatches(rule, intent) == \E match \in MatchesOf(rule) : SingleMatch(match, intent)

\* gatewayFindRuleMatches: <<gateway, listener, route, rule>>.
FindRuleMatches(gateways, inScope, routes, among, intent) ==
    {m \in UNION {{<<g, l, r, n>> : l \in DOMAIN gateways[g].listeners, n \in DOMAIN routes[r].rules} :
                      g \in inScope, r \in among} :
        /\ ListenerMatches(gateways[m[1]].listeners[m[2]], intent)
        /\ Attached(routes[m[3]], m[1], m[2])
        /\ RouteHostMatches(routes[m[3]], intent.host)
        /\ RuleMatches(routes[m[3]].rules[m[4]], intent)}

-------------------------------------------------------------------------------
(* Precedence.                                                             *)

\* Whether one sequence of numbers is smaller than another of its length.
LexLess(left, right) ==
    \E i \in DOMAIN left : left[i] < right[i] /\ \A j \in 1..(i - 1) : left[j] = right[j]

\* The elements of a set of such sequences in order.
Sorted(S) == [i \in 1..Cardinality(S) |-> CHOOSE s \in S : Cardinality({t \in S : LexLess(t, s)}) = i - 1]

\* The greatest in a set of sequences of one length.
Greatest(scores) == CHOOSE s \in scores : \A t \in scores : ~LexLess(s, t)

HostnameScore(pattern) ==
    <<Len(pattern.labels), Len(pattern.labels) + (IF pattern.wild THEN 1 ELSE 0)>>

HostScore(route, host) ==
    Greatest({<<0, 0>>} \cup {HostnameScore(p) : p \in {q \in route.hostnames : HostnameMatches(q, host)}})

PathRank(type) ==
    CASE type = "Exact" -> 2 [] type = "PathPrefix" -> 1 [] type = "RegularExpression" -> 0
\* Segments of one character.
PathChars(text) == 2 * Len(text.segments) + (IF text.slash THEN 1 ELSE 0)
PathScore(match) ==
    IF match.path = None THEN <<1, 1>> ELSE <<PathRank(match.path.type), PathChars(match.path.value)>>

Given(field) == IF field = None THEN 0 ELSE 1
NameChars(name) == IF name = None THEN 0 ELSE Len(name)

\* gatewayHTTPMatchPrecedenceScore, gatewayGRPCMatchPrecedenceScore: path rank
\* and length, method, headers, parameters.
\* A plausible slip: headers count before the method.
MatchScoreHeadersFirst(match, family) ==
    CASE family = "GRPCRoute" -> <<0, NameChars(match.service), Given(match.call), Cardinality(match.headers), 0>>
      [] family = "TLSRoute"  -> <<0, 0, 0, 0, 0>>
      [] OTHER -> PathScore(match)
                  \o <<Cardinality(match.headers), Given(match.method), Cardinality(match.params)>>
MatchScore(match, family) ==
    CASE family = "GRPCRoute" -> <<0, NameChars(match.service), Given(match.call), Cardinality(match.headers), 0>>
      [] family = "TLSRoute"  -> <<0, 0, 0, 0, 0>>
      [] OTHER -> PathScore(match)
                  \o <<Given(match.method), Cardinality(match.headers), Cardinality(match.params)>>

RuleScore(route, rule, intent) ==
    HostScore(route, intent.host)
        \o Greatest({MatchScore(m, intent.family) : m \in {n \in MatchesOf(rule) : SingleMatch(n, intent)}})

\* gatewayRulePrecedenceLess: the better score, the older route (one without a
\* creation time comes last), the first by name, the first rule.
PrecedenceLess(routes, intent, left, right) ==
    LET Score(m) == RuleScore(routes[m[3]], routes[m[3]].rules[m[4]], intent)
        created(m) == routes[m[3]].created
    IN  IF Score(left) # Score(right) THEN LexLess(Score(right), Score(left))
        ELSE IF left[3] = right[3] THEN left[4] < right[4]
        ELSE IF created(left) # created(right)
             THEN created(right) = 0 \/ (created(left) # 0 /\ created(left) < created(right))
        ELSE left[3] < right[3]

SameListener(left, right) == left[1] = right[1] /\ left[2] = right[2]

\* gatewaySelectPrecedenceRules: the best rule of every listener.
SelectPrecedenceRules(routes, intent, ruleMatches) ==
    {m \in ruleMatches : \A n \in ruleMatches :
        SameListener(m, n) /\ m # n => PrecedenceLess(routes, intent, m, n)}

-------------------------------------------------------------------------------
(* Backends.                                                               *)

IsCandidate(backend) == backend.weight # 0 /\ backend.name # 0

\* gatewayFindCandidatePaths of the selected rules, in the order of their
\* numbers: <<gateway, listener, route, rule, backend>>.
CandidatePaths(routes, rules) ==
    LET Backends(m) == routes[m[3]].rules[m[4]].backends
        all == UNION {{m \o <<b>> : b \in {n \in DOMAIN Backends(m) : IsCandidate(Backends(m)[n])}} : m \in rules}
    IN  Sorted(all)

\* referenceGrantAllows.
\* A plausible slip: the kind of the object that refers does not matter.
GrantedToAnyKind(grants, kind, from, to, name, namespace) ==
    \E grant \in grants :
        grant.namespace = namespace /\ grant.from = from /\ grant.to = to /\ grant.name \in {0, name}
Granted(grants, kind, from, to, name, namespace) ==
    \E grant \in grants :
        /\ grant.namespace = namespace /\ grant.kind = kind /\ grant.from = from
        /\ grant.to = to /\ grant.name \in {0, name}

\* What is wrong with a reference before the Service is read.
ReferenceProblem(backend, family, from, grants) ==
    CASE backend.name = 0 -> "no-name"
      [] backend.name # 0 /\ ~backend.kind -> "kind"
      [] backend.name # 0 /\ backend.kind
         /\ backend.namespace # from
         /\ ~Granted(grants, family, from, "Service", backend.name, backend.namespace) -> "no-grant"
      [] OTHER -> IF backend.port = 0 THEN "no-port" ELSE "none"

\* What is wrong with a Service as it was read.
ServiceProblem(backend, service) ==
    CASE ~service.found -> "missing"
      [] service.found /\ backend.port \notin service.ports -> "not-exposed"
      [] OTHER -> "none"

-------------------------------------------------------------------------------
(* gatewayExplainNoTrafficMatch: the stage at which the request is lost.   *)

MatchesIn(routes, r) == UNION {MatchesOf(rule) : rule \in ToSet(routes[r].rules)}

MatchesAmong(routes, among) == UNION {MatchesIn(routes, r) : r \in among}

SomeMatch(routes, among, accepted) == {r \in among : MatchesIn(routes, r) \cap accepted # {}}

\* A plausible slip: the method is looked for in all routes again.
HTTPReasonForgetful(routes, among, intent) ==
    LET all == MatchesAmong(routes, among)
        ofPath == {match \in all : PathMatches(match, intent.path)}
        ofMethod == {match \in all : MethodMatches(match, intent.method)}
        ofHeaders == {match \in all : HeadersMatch(match, intent.headers)}
        ofParams == {match \in all : ParamsMatch(match, intent.params)}
        pathRoutes == SomeMatch(routes, among, ofPath)
        methodRoutes == SomeMatch(routes, among, ofMethod)
        headerRoutes == SomeMatch(routes, methodRoutes, ofHeaders)
    IN  CASE pathRoutes = {} -> "path"
          [] pathRoutes # {} /\ methodRoutes = {} -> "method"
          [] methodRoutes # {} /\ headerRoutes = {} -> "headers"
          [] headerRoutes # {} /\ SomeMatch(routes, headerRoutes, ofParams) = {} -> "params"
          [] OTHER -> "backend"
HTTPReason(routes, among, intent) ==
    LET all == MatchesAmong(routes, among)
        ofPath == {match \in all : PathMatches(match, intent.path)}
        ofMethod == {match \in all : MethodMatches(match, intent.method)}
        ofHeaders == {match \in all : HeadersMatch(match, intent.headers)}
        ofParams == {match \in all : ParamsMatch(match, intent.params)}
        pathRoutes == SomeMatch(routes, among, ofPath)
        methodRoutes == SomeMatch(routes, pathRoutes, ofMethod)
        headerRoutes == SomeMatch(routes, methodRoutes, ofHeaders)
    IN  CASE pathRoutes = {} -> "path"
          [] pathRoutes # {} /\ methodRoutes = {} -> "method"
          [] methodRoutes # {} /\ headerRoutes = {} -> "headers"
          [] headerRoutes # {} /\ SomeMatch(routes, headerRoutes, ofParams) = {} -> "params"
          [] OTHER -> "backend"

GRPCReason(routes, among, intent) ==
    LET all == MatchesAmong(routes, among)
        ofService == {match \in all : ServiceMatches(match, intent.service)}
        ofCall == {match \in all : CallMatches(match, intent)}
        ofHeaders == {match \in all : GRPCMatches(match, intent)}
    IN  CASE SomeMatch(routes, among, ofService) = {} -> "service"
          [] SomeMatch(routes, among, ofService) # {} /\ SomeMatch(routes, among, ofCall) = {} -> "call"
          [] SomeMatch(routes, among, ofCall) # {} /\ SomeMatch(routes, among, ofHeaders) = {} -> "headers"
          [] OTHER -> "backend"

NoMatchReason(gateways, inScope, routes, among, intent) ==
    LET Matching(g) == {l \in DOMAIN gateways[g].listeners : ListenerMatches(gateways[g].listeners[l], intent)}
        listeners == UNION {{<<g, l>> : l \in Matching(g)} : g \in inScope}
        anyHostname == \E g \in inScope : \E l \in ToSet(gateways[g].listeners) :
                           HostnameMatches(l.hostname, intent.host)
        attached == {r \in among : \E at \in listeners : Attached(routes[r], at[1], at[2])}
        hostRoutes == {r \in attached : RouteHostMatches(routes[r], intent.host)}
    IN  CASE inScope = {} -> "no-gateways"
          [] inScope # {} /\ listeners = {} -> IF anyHostname THEN "listener-port" ELSE "listener"
          [] listeners # {} /\ attached = {} -> "attached"
          [] attached # {} /\ hostRoutes = {} -> "hostname"
          [] OTHER -> CASE intent.family = "GRPCRoute" -> GRPCReason(routes, hostRoutes, intent)
                        [] intent.family = "TLSRoute"  -> "backend"
                        [] OTHER                       -> HTTPReason(routes, hostRoutes, intent)

===============================================================================
