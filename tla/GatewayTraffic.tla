---------------------------- MODULE GatewayTraffic ----------------------------
(***************************************************************************)
(* knm check gateway for one request (--host, --url and so on): RunGateway *)
(* and scanGatewayTrafficIntent of gateway.go and the exit status.         *)
(*                                                                         *)
(* A case is a cluster and a command line.  Services, EndpointSlices and   *)
(* what probes find are read while the command runs, and any answer the    *)
(* cluster has is possible at every read; the first one is remembered.     *)
(***************************************************************************)
EXTENDS GatewayRouting, Integers

CONSTANTS
    Families, \* sets of clusters, each with the command lines for them
    GET,      \* the method of a request that names none
    Running   \* no exit status yet

Lists == <<"GatewayClass", "Gateway", "parents", "HTTPRoute", "GRPCRoute", "TLSRoute", "TCPRoute", "UDPRoute",
           "ListenerSet", "BackendTLSPolicy", "XBackendTrafficPolicy", "Backend", "BackendTrafficPolicy",
           "ClientTrafficPolicy", "SecurityPolicy", "EnvoyExtensionPolicy", "EnvoyPatchPolicy", "EnvoyProxy",
           "HTTPRouteFilter", "ReferenceGrant">>

ServiceView == [found : BOOLEAN, ports : SUBSET Nat, external : BOOLEAN]
Missing == [found |-> FALSE, ports |-> {}, external |-> FALSE]

\* An answer to the list of the Services that implement a Gateway.
Implementation ==
    {answer \in [error : BOOLEAN, services : Seq([name : Nat, ports : Seq(Nat)])] : answer.error => answer.services = <<>>}

\* failing: what cannot be listed; unknown: what the cluster has no kind for.
\* routes: those of one kind.  secrets: the readable ones.  services, ready: the
\* answers that reading <<namespace, name>> may have.
Key == Nat \X Nat
World == [failing : SUBSET ToSet(Lists), unknown : SUBSET ToSet(Lists), gateways : Seq(Gateway),
          kind : Family, routes : Seq(Route), grants : SUBSET Grant, secrets : SUBSET Key,
          services : SUBSET (Key \X ServiceView), ready : SUBSET (Key \X {"error", "none", "ready"}),
          implementation : Seq(SUBSET Implementation)]

\* url: --url is given and gives scheme, host, port, path and params; malformed:
\* some option cannot be used, or not with another.  gateways, routes: the
\* objects that --gateway and --route name, None without; expect: the Service of
\* --expect-service, name 0 for none and namespace 0 for any.
Option == [url : BOOLEAN, malformed : BOOLEAN, protocol : {"auto", "http", "https", "grpc", "tls"},
           scheme : {"http", "https", "other", "none"}, host : Seq(Labels) \cup {None}, port : 0..MaxPort,
           path : PathText \cup {None}, method : Methods \cup {None}, headers : SUBSET Headers,
           params : SUBSET Params, service : Name \cup {None}, call : Name \cup {None},
           namespace : Nat, gateways : (SUBSET Nat) \cup {None}, routes : (SUBSET Nat) \cup {None}, class : Nat,
           expect : Key, probe : BOOLEAN, dial : {"advertised", "given", "invalid"}, limit : Int]

\* --fail-on-warn and --ignore-warn.
Warnings == {"WARN", "api-inspection", "conditional-routing", "unsupported-ref", "output-limited"}
Flag == [failOnWarn : BOOLEAN, ignored : SUBSET Warnings]

ASSUME TrafficAssumption ==
    /\ \A family \in Families :
           family.worlds \subseteq World /\ family.opts \subseteq Option /\ family.flags \subseteq Flag
    /\ \A family \in Families : \A w \in family.worlds :
           /\ DOMAIN w.implementation = DOMAIN w.gateways
           /\ \A g \in DOMAIN w.gateways : IsFiniteSet(w.gateways[g].addresses)
    /\ GET \in Methods
    /\ None \notin Hostname
    /\ IsFiniteSet(Headers) /\ IsFiniteSet(Params)
    /\ Running \notin {0, 1}

VARIABLES
    world, opts, flags,
    pc,         \* the step that is next
    intent,     \* the request, or None
    selected,   \* selectedRules: the rules that win
    paths,      \* their candidate paths
    at,         \* which of them, of the mirrors or of the Gateways is next
    services,   \* serviceCache and serviceErrCache
    ready,      \* endpointReadyCache and endpointErrCache
    analyses,   \* what is wrong with each reference that was analyzed
    probed,     \* seen: of each listener, the addresses and the Services with port
    debugPods,  \* debugTargets
    report,
    exit

input == <<world, opts, flags>>
caches == <<services, ready>>
probing == <<probed, debugPods>>
vars == <<input, pc, intent, selected, paths, at, caches, analyses, probing, report, exit>>

-------------------------------------------------------------------------------
(* The report.  A result is of a check of some object, given by numbers;   *)
(* its diagnosis, if it has one, is named after the result.                *)

Result(check, about, status) == [check |-> check, about |-> about, status |-> status]
Diagnosis(check, about) == [check |-> check, about |-> about]

Problem(check, about, status, diagnosed) == [result |-> Result(check, about, status), diagnosed |-> diagnosed]
Fail(check, about) == Problem(check, about, "FAIL", TRUE)

Limit == IF opts.limit <= 0 THEN 50 ELSE opts.limit

\* addProblemCategorized for one problem after the other: those over the limit
\* are counted and dropped.
addProblems(sofar, problems) ==
    LET room == IF sofar.problems >= Limit THEN 0 ELSE Limit - sofar.problems
        kept == {problems[i] : i \in {j \in DOMAIN problems : j <= room}}
    IN  [results |-> sofar.results \cup {problem.result : problem \in kept},
         diagnoses |-> sofar.diagnoses
             \cup {Diagnosis(problem.result.check, problem.result.about) : problem \in {p \in kept : p.diagnosed}},
         problems |-> sofar.problems + Len(problems)]

addProblem(sofar, problem) == addProblems(sofar, <<problem>>)

\* What there is to say if something holds.
When(holds, problem) == IF holds THEN <<problem>> ELSE <<>>

\* report.Add and report.Diagnose, which know no limit.
Add(sofar, results, diagnoses) ==
    [results |-> sofar.results \cup results, diagnoses |-> sofar.diagnoses \cup diagnoses,
     problems |-> sofar.problems]

HasFail(results) == \E r \in results : r.status = "FAIL"

\* What makes the exit status 1; reportHasUnignoredWarn only with --fail-on-warn.
Counts(given, results) ==
    \/ HasFail(results)
    \/ given.failOnWarn /\ \E r \in results : r.status \in Warnings \ given.ignored

-------------------------------------------------------------------------------
(* Options and lists.                                                      *)

InferProtocol(o) ==
    CASE o.service # None \/ o.call # None -> "grpc"
      [] o.service = None /\ o.call = None /\ o.scheme \in {"http", "https"} -> o.scheme
      [] OTHER -> IF o.url \/ o.path # None \/ o.method # None \/ o.headers # {} \/ o.params # {} THEN "http"
                  ELSE IF o.port = 443 THEN "tls" ELSE "http"

FamilyOf(protocol) ==
    CASE protocol = "grpc" -> "GRPCRoute"
      [] protocol = "tls"  -> "TLSRoute"
      [] OTHER             -> "HTTPRoute"

DefaultPort(scheme, protocol) ==
    CASE scheme = "http"  -> 80
      [] scheme = "https" -> 443
      [] OTHER            -> CASE protocol \in {"https", "tls"} -> 443
                               [] protocol = "grpc"             -> 0
                               [] OTHER                         -> 80

\* gatewayTrafficIntentFromOptions and gatewayFinalizeTrafficIntent.
IntentOf(o) ==
    LET protocol == IF o.protocol = "auto" THEN InferProtocol(o) ELSE o.protocol
        family == FamilyOf(protocol)
    IN  [protocol |-> protocol, family |-> family, host |-> o.host,
         scheme |-> IF o.scheme = "none" /\ protocol \in {"http", "https"} THEN protocol ELSE o.scheme,
         port |-> IF o.port # 0 THEN o.port ELSE DefaultPort(o.scheme, protocol),
         path |-> IF o.path = None THEN Root ELSE o.path,
         method |-> IF o.method = None /\ family = "HTTPRoute" THEN GET ELSE o.method,
         headers |-> o.headers, params |-> o.params, service |-> o.service, call |-> o.call]

readOptions ==
    /\ pc = "options"
    /\ IF opts.malformed \/ opts.host = None
       THEN /\ report' = Add(report, {Result("options", <<>>, "FAIL")}, {Diagnosis("options", <<>>)})
            /\ pc' = "exit"
            /\ UNCHANGED intent
       ELSE pc' = "cluster" /\ intent' = IntentOf(opts) /\ UNCHANGED report
    /\ UNCHANGED <<input, selected, paths, at, caches, analyses, probing, exit>>

\* The kubeconfig, and the namespace if one is given, can be used or not.
reachCluster ==
    /\ pc = "cluster"
    /\ \/ pc' = "lists" /\ UNCHANGED report
       \/ \E check \in {"context"} \cup (IF opts.namespace = 0 THEN {} ELSE {"namespace"}) :
             /\ report' = Add(report, {Result(check, <<>>, "FAIL")}, {Diagnosis(check, <<>>)})
             /\ pc' = "exit"
    /\ UNCHANGED <<input, intent, selected, paths, at, caches, analyses, probing, exit>>

\* Gateways are listed a second time, as parents, where the first list was of
\* one namespace.
Listed(list) == list # "parents" \/ opts.namespace # 0
Outcome(list) ==
    LET read == IF Listed(list) THEN list ELSE "Gateway"
    IN  IF read \in world.failing THEN "error" ELSE IF read \in world.unknown THEN "missing" ELSE "read"

\* The lists are read together; nothing is said if no kind of object is known.
readLists ==
    /\ pc = "lists"
    /\ LET Failed(list) == Listed(list) /\ Outcome(list) = "error"
           Warning(list) == Problem(list, <<>>, "api-inspection", FALSE)
       IN  IF \A list \in ToSet(Lists) \ {"ReferenceGrant"} : Outcome(list) = "missing"
           THEN pc' = "generic" /\ UNCHANGED report
           ELSE /\ report' = addProblems(report,
                    FlattenSeq([i \in DOMAIN Lists |-> When(Failed(Lists[i]), Warning(Lists[i]))]))
                /\ pc' = "listeners"
    /\ UNCHANGED <<input, intent, selected, paths, at, caches, analyses, probing, exit>>

\* The Gateways and routes that the command line is about: gatewayTrafficScoped*.
Scope(list) ==
    {g \in DOMAIN world.gateways :
        /\ Outcome(list) = "read"
        /\ opts.gateways = None \/ g \in opts.gateways
        /\ opts.class \in {0, world.gateways[g].class}}

\* With --gateway a route has to name one of these as a parent.
RouteScope ==
    {r \in DOMAIN world.routes :
        /\ world.kind = intent.family /\ Outcome(intent.family) = "read"
        /\ opts.namespace \in {0, world.routes[r].namespace}
        /\ opts.routes = None \/ r \in opts.routes
        /\ opts.gateways = None
           \/ \E parent \in ToSet(world.routes[r].parents) : parent.kind /\ parent.gateway \in opts.gateways}

InNamespace(gateways) == {g \in gateways : opts.namespace \in {0, world.gateways[g].namespace}}

Grants == IF Outcome("ReferenceGrant") = "read" THEN world.grants ELSE {}

-------------------------------------------------------------------------------
(* The listeners that the request arrives at, and the rule that wins.      *)

Parents == Scope("parents")

\* addGatewayTrafficTLSDetails of one listener.
ListenerProblems(g, l) ==
    LET gateway == world.gateways[g]
        listener == gateway.listeners[l]
        Refused(c) == c.namespace # gateway.namespace
                      /\ ~Granted(Grants, "Gateway", gateway.namespace, "Secret", c.secret, c.namespace)
        Bad(c) == c.kind /\ (Refused(c) \/ <<c.namespace, c.secret>> \notin world.secrets)
    IN  When(listener.programmed = "False", Fail("listener-programmed", <<g, l>>))
            \o When(listener.resolved = "False", Fail("listener-refs", <<g, l>>))
            \o FlattenSeq([i \in DOMAIN listener.certificates |->
                              When(Bad(listener.certificates[i]), Fail("certificate", <<g, l, i>>))])

UnknownCertificates(g, l) ==
    {Result("certificate-kind", <<g, l>>, "unsupported-ref") :
        c \in {d \in ToSet(world.gateways[g].listeners[l].certificates) : ~d.kind}}

MatchingListeners ==
    Sorted({where \in UNION {{<<g, l>> : l \in DOMAIN world.gateways[g].listeners} : g \in Parents} :
               ListenerMatches(world.gateways[where[1]].listeners[where[2]], intent)})

Secured == {where \in ToSet(MatchingListeners) :
                world.gateways[where[1]].listeners[where[2]].protocol \in {"HTTPS", "TLS"}}

checkListeners ==
    /\ pc = "listeners"
    /\ LET Found(where) == IF where \in Secured THEN ListenerProblems(where[1], where[2]) ELSE <<>>
           unknown == UNION {UnknownCertificates(where[1], where[2]) : where \in Secured}
       IN  report' = addProblems(Add(report, unknown, {}),
                                 FlattenSeq([i \in DOMAIN MatchingListeners |-> Found(MatchingListeners[i])]))
    /\ pc' = "select"
    /\ UNCHANGED <<input, intent, selected, paths, at, caches, analyses, probing, exit>>

RuleMatchesFound == FindRuleMatches(world.gateways, Parents, world.routes, RouteScope, intent)
RuleAt(m) == world.routes[m[3]].rules[m[4]]

\* A redirect is a failure: the request does not get to a Service.
selectRules ==
    /\ pc = "select"
    /\ selected' = SelectPrecedenceRules(world.routes, intent, RuleMatchesFound)
    /\ paths' = CandidatePaths(world.routes, selected')
    /\ IF paths' # <<>> THEN pc' = "parents" /\ UNCHANGED report
       ELSE LET redirects == {m \in selected' : RuleAt(m).redirect}
                reason == NoMatchReason(world.gateways, Parents, world.routes, RouteScope, intent)
            IN  /\ report' = addProblem(report,
                       IF intent.family = "HTTPRoute" /\ redirects # {} THEN Fail("redirect", <<>>)
                       ELSE Fail(reason, <<>>))
                /\ pc' = "finish"
    /\ UNCHANGED <<input, intent, at, caches, analyses, probing, exit>>

-------------------------------------------------------------------------------
(* The routes and the backends of the candidate paths.                     *)

Distinct(sequence) ==
    LET New(i) == \A j \in 1..(i - 1) : sequence[j] # sequence[i]
    IN  FlattenSeq([i \in DOMAIN sequence |-> When(New(i), sequence[i])])

PathRoutes == Distinct([i \in DOMAIN paths |-> paths[i][3]])

ReferenceOf(path) == SubSeq(path, 3, 5)
References == {ReferenceOf(path) : path \in ToSet(paths)}

PathGateways == Distinct([i \in DOMAIN paths |-> paths[i][1]])

\* scanRouteParents.  A parent outside the scope counts as missing.
StatusProblems(r, i) ==
    LET status == world.routes[r].statuses[i]
    IN  When(status.accepted = "False", Fail("rejected", <<r, i>>))
            \o When(status.resolved = "False", Fail("unresolved", <<r, i>>))
            \o When(status.partial = "True", Problem("partial", <<r, i>>, "WARN", TRUE))

RouteProblems(r) ==
    LET route == world.routes[r]
        Lost(parent) == parent.kind /\ parent.gateway # 0 /\ parent.gateway \notin Parents
        missing == FlattenSeq([i \in DOMAIN route.parents |->
                                  When(Lost(route.parents[i]), Fail("parent", <<r, i>>))])
        said == \E i \in DOMAIN route.statuses : route.statuses[i].accepted # "absent"
        about == FlattenSeq([i \in DOMAIN route.statuses |-> StatusProblems(r, i)])
    IN  missing \o (IF route.statuses = <<>> THEN <<Problem("no-status", <<r>>, "WARN", TRUE)>>
                    ELSE IF said THEN about
                    ELSE Append(about, Problem("not-accepted", <<r>>, "WARN", TRUE)))

checkParents ==
    /\ pc = "parents"
    /\ report' = addProblems(report, FlattenSeq([i \in DOMAIN PathRoutes |-> RouteProblems(PathRoutes[i])]))
    /\ pc' = "expected"
    /\ UNCHANGED <<input, intent, selected, paths, at, caches, analyses, probing, exit>>

BackendAt(ref) == world.routes[ref[1]].rules[ref[2]].backends[ref[3]]
NamespaceOf(ref) == world.routes[ref[1]].namespace

Expected(backend) ==
    backend.name = opts.expect[2] /\ opts.expect[1] \in {0, backend.namespace}

checkExpected ==
    /\ pc = "expected"
    /\ report' = IF opts.expect[2] = 0 \/ \E ref \in References : Expected(BackendAt(ref)) THEN report
                 ELSE addProblem(report, Fail("expected", <<>>))
    /\ pc' = "mirrors" /\ at' = 1
    /\ UNCHANGED <<input, intent, selected, paths, caches, analyses, probing, exit>>

\* cachedService and cachedReadyEndpointCount: the first answer stays.
Recall(cache, key, answer) == IF key \in DOMAIN cache THEN cache[key] ELSE answer
\* A plausible slip: an answer is not kept.
RememberNothing(cache, key, answer) == cache
Extend(cache, more) ==
    [key \in DOMAIN cache \cup DOMAIN more |-> IF key \in DOMAIN cache THEN cache[key] ELSE more[key]]
Remember(cache, key, answer) == Extend(cache, [k \in {key} |-> answer])

Answers(relation, key, default) ==
    LET given == {pair[2] : pair \in {q \in relation : q[1] = key}}
    IN  IF given = {} THEN {default} ELSE given

ServiceAnswers(key) == Answers(world.services, key, Missing)
ReadyAnswers(key) == Answers(world.ready, key, "none")

\* gatewayAnalyzeBackendRef, which scanRouteBackendRefWithDiagnosis repeats: what
\* is wrong, if reading gives view and count, and what is remembered then.
AnalyzeBackendRef(backend, namespace, view, count) ==
    LET key == <<backend.namespace, backend.name>>
        seen == Recall(services, key, view)
        reference == ReferenceProblem(backend, intent.family, namespace, Grants)
        asks == reference = "none"
        service == IF asks THEN ServiceProblem(backend, seen) ELSE reference
        counts == service = "none" /\ ~seen.external
        problem == CASE service # "none" -> service
                     [] service = "none" /\ seen.external -> "external"
                     [] OTHER -> CASE Recall(ready, key, count) = "none"  -> "no-endpoints"
                                   [] Recall(ready, key, count) = "error" -> "unread"
                                   [] Recall(ready, key, count) = "ready" -> "none"
    IN  [problem |-> problem,
         services |-> IF asks THEN Remember(services, key, view) ELSE services,
         ready |-> IF counts THEN Remember(ready, key, count) ELSE ready]

Broken(problem) == problem \notin {"none", "external", "unread"}

\* What reading about a backend may give.
Readings(backend, namespace) ==
    LET key == <<backend.namespace, backend.name>>
    IN  {AnalyzeBackendRef(backend, namespace, view, count) : view \in ServiceAnswers(key), count \in ReadyAnswers(key)}

\* addGatewaySelectedRuleFilterDetails: the mirrors of the rules that won.
Mirrors ==
    IF intent.family # "HTTPRoute" THEN <<>>
    ELSE Sorted(UNION {{<<m[3], m[4], i>> : i \in DOMAIN RuleAt(m).mirrors} : m \in selected})

checkMirror ==
    /\ pc = "mirrors" /\ at \in DOMAIN Mirrors
    /\ LET ref == Mirrors[at] IN
       \E read \in Readings(world.routes[ref[1]].rules[ref[2]].mirrors[ref[3]], NamespaceOf(ref)) :
          /\ report' = IF ~Broken(read.problem) THEN report
                       ELSE Add(report, {Result("mirror", ref, "conditional-routing")}, {Diagnosis("mirror", ref)})
          /\ services' = read.services /\ ready' = read.ready
    /\ at' = at + 1
    /\ UNCHANGED <<input, pc, intent, selected, paths, analyses, probing, exit>>

mirrorsDone ==
    /\ pc = "mirrors" /\ at \notin DOMAIN Mirrors
    /\ pc' = "analyze" /\ at' = 1
    /\ UNCHANGED <<input, intent, selected, paths, caches, analyses, probing, report, exit>>

\* Each reference is looked at once, however many listeners lead to it.
Reported(i) == \E j \in 1..(i - 1) : ReferenceOf(paths[j]) = ReferenceOf(paths[i])

analyze ==
    /\ pc = "analyze" /\ at \in DOMAIN paths
    /\ LET ref == ReferenceOf(paths[at]) IN
       IF Reported(at) THEN UNCHANGED <<analyses, caches>>
       ELSE \E read \in Readings(BackendAt(ref), NamespaceOf(ref)) :
               /\ analyses' = Extend(analyses, [r \in {ref} |-> read.problem])
               /\ services' = read.services /\ ready' = read.ready
    /\ at' = at + 1
    /\ UNCHANGED <<input, pc, intent, selected, paths, probing, report, exit>>

analyzed ==
    /\ pc = "analyze" /\ at \notin DOMAIN paths
    /\ pc' = "scan" /\ at' = 1
    /\ UNCHANGED <<input, intent, selected, paths, caches, analyses, probing, report, exit>>

\* gatewayMixedWeightedGroups: rules with good and with broken backends.
OfRule(ref, rule) == SubSeq(ref, 1, 2) = rule
\* A plausible slip: one broken backend makes the rule a weighted one.
MixedIfBroken(rule) == \E ref \in DOMAIN analyses : OfRule(ref, rule) /\ Broken(analyses[ref])
Mixed(rule) ==
    /\ \E ref \in DOMAIN analyses : OfRule(ref, rule) /\ Broken(analyses[ref])
    /\ \E ref \in DOMAIN analyses : OfRule(ref, rule) /\ ~Broken(analyses[ref])

\* A single backend of a mixed rule gets no diagnosis of its own.
BackendProblem(ref, problem) ==
    CASE problem = "kind"   -> Problem("backend", ref, "unsupported-ref", ~Mixed(SubSeq(ref, 1, 2)))
      [] problem = "unread" -> Problem("endpoints", ref, "api-inspection", FALSE)
      [] OTHER              -> Problem("backend", ref, "FAIL", ~Mixed(SubSeq(ref, 1, 2)))

scan ==
    /\ pc = "scan" /\ at \in DOMAIN paths
    /\ LET ref == ReferenceOf(paths[at]) IN
       IF Reported(at) THEN UNCHANGED <<report, caches>>
       ELSE \E read \in Readings(BackendAt(ref), NamespaceOf(ref)) :
               /\ report' = IF read.problem \in {"none", "external"} THEN report
                            ELSE addProblem(report, BackendProblem(ref, read.problem))
               /\ services' = read.services /\ ready' = read.ready
    /\ at' = at + 1
    /\ UNCHANGED <<input, pc, intent, selected, paths, analyses, probing, exit>>

scanned ==
    /\ pc = "scan" /\ at \notin DOMAIN paths
    /\ LET rules == {SubSeq(ref, 1, 2) : ref \in DOMAIN analyses}
           broken == {ref \in DOMAIN analyses : Mixed(SubSeq(ref, 1, 2)) /\ Broken(analyses[ref])}
       IN  report' = Add(report, {Result("weighted", rule, "conditional-routing") : rule \in {r \in rules : Mixed(r)}},
                                 {Diagnosis("weighted", ref) : ref \in broken})
    /\ pc' = IF opts.probe /\ intent.family = "HTTPRoute" THEN "dataplane" ELSE "conclude"
    /\ at' = 1
    /\ UNCHANGED <<input, intent, selected, paths, caches, analyses, probing, exit>>

-------------------------------------------------------------------------------
(* Probes.                                                                 *)

Skipped(check, about) == {Result(check, about, "WARN")}

\* addGatewayTrafficDataplaneContext of one Gateway, when listing its Services
\* gives list and counting their endpoints gives counts.
DataplaneResults(g, list, counts) ==
    IF list.error THEN {Result("services", <<g>>, "api-inspection")}
    ELSE {Result("dataplane", <<g, i>>, IF counts[i] = "error" THEN "api-inspection" ELSE "FAIL") :
              i \in {j \in DOMAIN list.services : counts[j] # "ready"}}

dataplane ==
    /\ pc = "dataplane" /\ at \in DOMAIN PathGateways
    /\ LET g == PathGateways[at]
       IN  \E list \in world.implementation[g] :
           LET keys == [i \in DOMAIN list.services |-> <<world.gateways[g].namespace, list.services[i].name>>] IN
           \E read \in [ToSet(keys) -> {"error", "none", "ready"}] :
           LET counts == [i \in DOMAIN keys |-> Recall(ready, keys[i], read[keys[i]])]
               empty == {i \in DOMAIN counts : counts[i] = "none"}
           IN  /\ \A key \in ToSet(keys) : read[key] \in ReadyAnswers(key)
               /\ report' = Add(report, DataplaneResults(g, list, counts),
                                {Diagnosis("dataplane", <<g>>) : x \in IF report.diagnoses = {} THEN empty ELSE {}})
               /\ ready' = Extend(ready, read)
    /\ at' = at + 1
    /\ UNCHANGED <<input, pc, intent, selected, paths, services, analyses, probing, exit>>

dataplaneDone ==
    /\ pc = "dataplane" /\ at \notin DOMAIN PathGateways
    /\ pc' = "probe" /\ at' = 1
    /\ UNCHANGED <<input, intent, selected, paths, caches, analyses, probing, report, exit>>

PathListener == world.gateways[paths[at][1]].listeners[paths[at][2]]
PathPort == IF PathListener.port # 0 THEN PathListener.port ELSE intent.port

\* gatewayImplementationServiceForPort: a Service with the port, else the only
\* port of the only Service; as a set of one name and port, or none.
ServicesForPort(list, port) ==
    LET Exposes(i) == port \in ToSet(list.services[i].ports)
        exposing == {i \in DOMAIN list.services : Exposes(i) /\ \A j \in 1..(i - 1) : ~Exposes(j)}
        single == {i \in DOMAIN list.services : Len(list.services) = 1 /\ Len(list.services[i].ports) = 1}
    IN  IF exposing # {} THEN {<<list.services[i].name, port>> : i \in exposing}
        ELSE {<<list.services[i].name, list.services[i].ports[1]>> : i \in single}

Passed(tried) == \E r \in tried : r.status = "PASS"

\* The path of the client is blamed where it failed and nothing else is known.
\* A plausible slip: one address that does not answer is enough.
ClientBlameForOne(check, where, tried) ==
    IF HasFail(tried) /\ report.diagnoses = {} THEN {Diagnosis(check, where)} ELSE {}
ClientBlame(check, where, tried) ==
    IF HasFail(tried) /\ ~Passed(tried) /\ report.diagnoses = {} THEN {Diagnosis(check, where)} ELSE {}

\* What one round of runGatewayHTTPProbes meets.  outside: the answers at the
\* addresses that were not tried for this listener; pod: a debug pod can be
\* made ready; inside: what the probe from it gives; mesh: a DestinationRule
\* explains an upstream error.
Round(outside, list, pod, inside, mesh) ==
    LET g == paths[at][1]
        l == paths[at][2]
        namespace == world.gateways[g].namespace
        tried == IF opts.dial = "invalid" THEN Skipped("dial", <<g, l>>)
                 ELSE {Result("outside", <<g, l, a>>, outside[a]) : a \in DOMAIN outside}
        silent == report.diagnoses = {}
        blame(check) == ClientBlame(check, <<g, l>>, tried)
        found == ServicesForPort(list, PathPort)
        inCluster == {<<g, l>> \o service : service \in found}
        hasPod == namespace \in debugPods \/ pod
        seen == probed \cup {<<g, l, a>> : a \in DOMAIN outside}
        outcome ==
            CASE inside = "PASS" ->
                    [results |-> {Result("inside", <<g, l>>, "PASS")}, diagnoses |-> blame("client-path")]
              [] inside = "upstream" ->
                    [results |-> {Result("inside", <<g, l>>, "PASS")}
                                     \cup (IF silent /\ mesh THEN {Result("mesh", <<g, l>>, "FAIL")} ELSE {}),
                     diagnoses |-> IF silent THEN {Diagnosis(IF mesh THEN "mesh" ELSE "upstream", <<g, l>>)} ELSE {}]
              [] inside = "FAIL" ->
                    [results |-> {Result("inside", <<g, l>>, "FAIL")},
                     diagnoses |-> IF silent /\ ~Passed(tried) THEN {Diagnosis("inside", <<g, l>>)} ELSE {}]
    IN  IF list.error \/ found = {}
        THEN [report |-> Add(report, tried \cup Skipped("in-cluster", <<g, l>>), blame("address")),
              probed |-> seen, debugPods |-> debugPods]
        ELSE IF inCluster \subseteq probed
        THEN [report |-> Add(report, tried, {}), probed |-> seen, debugPods |-> debugPods]
        ELSE IF ~hasPod
        THEN [report |-> Add(report, tried \cup Skipped("debug-pod", <<namespace>>), blame("address")),
              probed |-> seen \cup inCluster, debugPods |-> debugPods]
        ELSE [report |-> Add(report, tried \cup outcome.results, outcome.diagnoses),
              probed |-> seen \cup inCluster, debugPods |-> debugPods \cup {namespace}]

CanProbe == world.gateways[paths[at][1]].addresses # {} /\ PathPort # 0

probe ==
    /\ pc = "probe" /\ at \in DOMAIN paths /\ CanProbe
    /\ LET g == paths[at][1]
           fresh == {a \in world.gateways[g].addresses : <<g, paths[at][2], a>> \notin probed}
       IN  \E outside \in [fresh -> {"PASS", "FAIL"}], list \in world.implementation[g], pod \in BOOLEAN,
              inside \in {"PASS", "upstream", "FAIL"}, mesh \in BOOLEAN :
              LET round == Round(outside, list, pod, inside, mesh)
              IN  report' = round.report /\ probed' = round.probed /\ debugPods' = round.debugPods
    /\ at' = at + 1
    /\ UNCHANGED <<input, pc, intent, selected, paths, caches, analyses, exit>>

\* A plausible slip: wait for the Gateway to get an address.
cannotProbeYet ==
    /\ pc = "probe" /\ at \in DOMAIN paths /\ ~CanProbe
    /\ report' = Add(report, Skipped("probe", <<paths[at][1]>>), {})
    /\ UNCHANGED <<input, pc, intent, selected, paths, at, caches, analyses, probing, exit>>
cannotProbe ==
    /\ pc = "probe" /\ at \in DOMAIN paths /\ ~CanProbe
    /\ report' = Add(report, Skipped("probe", <<paths[at][1]>>), {})
    /\ at' = at + 1
    /\ UNCHANGED <<input, pc, intent, selected, paths, caches, analyses, probing, exit>>

probesDone ==
    /\ pc = "probe" /\ at \notin DOMAIN paths
    /\ pc' = "conclude"
    /\ UNCHANGED <<input, intent, selected, paths, at, caches, analyses, probing, report, exit>>

-------------------------------------------------------------------------------
(* The end.                                                                *)

conclude ==
    /\ pc = "conclude"
    /\ report' = IF \E r \in report.results : r.status \in Warnings \cup {"FAIL"} THEN report
                 ELSE Add(report, {Result("matched-backends", <<>>, "PASS")}, {})
    /\ pc' = "finish"
    /\ UNCHANGED <<input, intent, selected, paths, at, caches, analyses, probing, exit>>

\* addFilterMissProblems.  Classes are not scanned when a request is followed, so
\* --gateway-class is always missed.
FilterMisses ==
    (IF opts.class # 0 THEN <<Fail("class-filter", <<>>)>> ELSE <<>>)
        \o (IF opts.gateways # None /\ InNamespace(Scope("Gateway")) = {} THEN <<Fail("gateway-filter", <<>>)>> ELSE <<>>)
        \o (IF opts.routes # None /\ RouteScope = {} THEN <<Fail("route-filter", <<>>)>> ELSE <<>>)

Truncated(sofar) == IF sofar.problems > Limit THEN {Result("limit", <<>>, "output-limited")} ELSE {}

\* A plausible slip: the list is said to be complete before its last entries.
finishScanEarly ==
    /\ pc = "finish"
    /\ report' = addProblems(Add(report, Truncated(report), {}), FilterMisses)
    /\ pc' = "dedupe"
    /\ UNCHANGED <<input, intent, selected, paths, at, caches, analyses, probing, exit>>
finishScan ==
    /\ pc = "finish"
    /\ report' = LET all == addProblems(report, FilterMisses) IN Add(all, Truncated(all), {})
    /\ pc' = "dedupe"
    /\ UNCHANGED <<input, intent, selected, paths, at, caches, analyses, probing, exit>>

AboutRoute == {"backend", "unresolved", "rejected", "parent", "partial", "no-status", "not-accepted", "weighted", "mirror"}
AboutTLS == {"listener-programmed", "listener-refs", "certificate"}

\* The text of a diagnosis has a fragment of its own, and what the message of the
\* condition that it reports brings along.
OwnText(check) ==
    CASE check = "backend"      -> {"concrete"}
      [] check = "unresolved"   -> {"reference"}
      [] check = "rejected"     -> {"rejection"}
      [] check = "not-accepted" -> {"unaccepted"}
      [] check = "no-status"    -> {"unreported"}
      [] check = "certificate"  -> {"secret"}
      [] check \in {"listener-programmed", "listener-refs"} -> {"status"}
      [] OTHER -> {}

Message(d) ==
    LET status == world.routes[d.about[1]].statuses[d.about[2]].says
        listener == world.gateways[d.about[1]].listeners[d.about[2]].says
    IN  CASE d.check = "rejected"            -> status.accepted
          [] d.check = "unresolved"          -> status.resolved
          [] d.check = "partial"             -> status.partial
          [] d.check = "listener-programmed" -> listener.programmed
          [] d.check = "listener-refs"       -> listener.resolved
          [] OTHER -> {}

Says(d) == OwnText(d.check) \cup Message(d)

\* What another diagnosis of the route makes superfluous.
Outweighed ==
    {<<"reference", "concrete">>, <<"concrete", "rejection">>, <<"unaccepted", "rejection">>, <<"unreported", "unattached">>}

Beside(d, fragment, diagnoses) ==
    \E e \in diagnoses : e.check \in AboutRoute /\ e.about[1] = d.about[1] /\ fragment \in Says(e)

\* Whether diagnosis d says less than another one, or than itself:
\* dedupeGatewayDiagnoses.  A diagnosis that is the only one stays.
\* A plausible slip: of a rejected route neither diagnosis is left.
RedundantBothWays(d, diagnoses) ==
    LET secret == \E e \in diagnoses : e.check \in AboutTLS /\ "secret" \in Says(e)
    IN  /\ \E e \in diagnoses : e # d
        /\ \/ /\ d.check \in AboutRoute
              /\ \E pair \in Outweighed \cup {<<"rejection", "concrete">>} :
                    pair[1] \in Says(d) /\ Beside(d, pair[2], diagnoses)
           \/ secret /\ d.check \in AboutTLS /\ "status" \in Says(d)
           \/ secret /\ d.check = "attached" /\ intent.family = "HTTPRoute"
Redundant(d, diagnoses) ==
    LET secret == \E e \in diagnoses : e.check \in AboutTLS /\ "secret" \in Says(e)
    IN  /\ \E e \in diagnoses : e # d
        /\ \/ /\ d.check \in AboutRoute
              /\ \E pair \in Outweighed : pair[1] \in Says(d) /\ Beside(d, pair[2], diagnoses)
           \/ secret /\ d.check \in AboutTLS /\ "status" \in Says(d)
           \/ secret /\ d.check = "attached" /\ intent.family = "HTTPRoute"

dedupe ==
    /\ pc = "dedupe"
    /\ report' = [report EXCEPT !.diagnoses = {d \in @ : ~Redundant(d, @)}]
    /\ pc' = "generic"
    /\ UNCHANGED <<input, intent, selected, paths, at, caches, analyses, probing, exit>>

generic ==
    /\ pc = "generic"
    /\ report' = IF report.diagnoses # {} \/ ~HasFail(report.results) THEN report
                 ELSE Add(report, {}, {Diagnosis("generic", <<>>)})
    /\ pc' = "exit"
    /\ UNCHANGED <<input, intent, selected, paths, at, caches, analyses, probing, exit>>

\* A plausible slip: the exit status is the number of failures.
finishWithCount ==
    /\ pc = "exit"
    /\ exit' = Cardinality({r \in report.results : r.status = "FAIL"})
    /\ pc' = "done"
    /\ UNCHANGED <<input, intent, selected, paths, at, caches, analyses, probing, report>>
\* A plausible slip: only failures are looked at.
finishOnFail ==
    /\ pc = "exit"
    /\ exit' = IF HasFail(report.results) THEN 1 ELSE 0
    /\ pc' = "done"
    /\ UNCHANGED <<input, intent, selected, paths, at, caches, analyses, probing, report>>
finish ==
    /\ pc = "exit"
    /\ exit' = IF Counts(flags, report.results) THEN 1 ELSE 0
    /\ pc' = "done"
    /\ UNCHANGED <<input, intent, selected, paths, at, caches, analyses, probing, report>>

Init ==
    /\ \E family \in Families : world \in family.worlds /\ opts \in family.opts /\ flags \in family.flags
    /\ pc = "options" /\ intent = None /\ selected = {} /\ paths = <<>> /\ at = 0
    /\ services = <<>> /\ ready = <<>> /\ analyses = <<>>
    /\ probed = {} /\ debugPods = {}
    /\ report = [results |-> {}, diagnoses |-> {}, problems |-> 0]
    /\ exit = Running

Next ==
    \/ readOptions \/ reachCluster \/ readLists \/ checkListeners \/ selectRules
    \/ checkParents \/ checkExpected \/ checkMirror \/ mirrorsDone
    \/ analyze \/ analyzed \/ scan \/ scanned
    \/ dataplane \/ dataplaneDone \/ probe \/ cannotProbe \/ probesDone
    \/ conclude \/ finishScan \/ dedupe \/ generic \/ finish

\* The command is one thread, and every call it makes has a timeout.
Spec == Init /\ [][Next]_vars /\ WF_vars(Next)

-------------------------------------------------------------------------------
(* Properties.                                                             *)

Steps == {"options", "cluster", "lists", "listeners", "select", "parents", "expected", "mirrors", "analyze",
          "scan", "dataplane", "probe", "conclude", "finish", "dedupe", "generic", "exit", "done"}
Problems == {"none", "external", "unread", "no-endpoints", "missing", "not-exposed",
             "no-name", "kind", "no-grant", "no-port"}

TypeOK ==
    /\ \E family \in Families : world \in family.worlds /\ opts \in family.opts /\ flags \in family.flags
    /\ pc \in Steps
    /\ intent \in Intent \cup {None}
    /\ selected \in SUBSET (Nat \X Nat \X Nat \X Nat)
    /\ paths \in Seq(Nat \X Nat \X Nat \X Nat \X Nat)
    /\ at \in Nat
    /\ \A key \in DOMAIN services : services[key] \in ServiceAnswers(key)
    /\ \A key \in DOMAIN ready : ready[key] \in ReadyAnswers(key)
    /\ DOMAIN analyses \subseteq References /\ \A ref \in DOMAIN analyses : analyses[ref] \in Problems
    /\ probed \subseteq Seq(Nat)
    /\ debugPods \subseteq Nat
    /\ \A r \in report.results : r.status \in {"PASS", "FAIL"} \cup Warnings
    /\ report.problems \in Nat
    /\ exit \in {0, 1, Running}

API == INSTANCE GatewayAPI

\* Everything there is was read and is in the scope of the command line.
SeesAll ==
    /\ intent # None
    /\ \A list \in ToSet(Lists) : Outcome(list) = "read"
    /\ RouteScope = DOMAIN world.routes

\* The Gateway API lets a wildcard stand for several labels, and a Gateway serve
\* a request at the listener with the most specific hostname only.
OneLabelWildcards ==
    \A pattern \in UNION ({r.hostnames : r \in ToSet(world.routes)}
                          \cup {{l.hostname : l \in ToSet(g.listeners)} : g \in ToSet(world.gateways)}) :
        HostnameMatches(pattern, intent.host) = API!Names(pattern, intent.host)

OnlyListener(g, l) ==
    {l} = {k \in DOMAIN world.gateways[g].listeners : ListenerMatches(world.gateways[g].listeners[k], intent)}

EntriesOf(route) == UNION {MatchesOf(rule) : rule \in ToSet(route.rules)}

\* Regular expressions are nobody's promise, and knm lets the prefix "/a/" match no
\* request for "/a", which the Gateway API does (gateway.go:5764-5771).
Comparable ==
    \A route \in ToSet(world.routes) :
        /\ route.created # 0
        /\ \A match \in EntriesOf(route) :
              /\ match.path # None => match.path.type # "RegularExpression"
              /\ match.path # None /\ match.path.type = "PathPrefix" =>
                    match.path.value = Root \/ ~match.path.value.slash
              /\ match.type = "Exact"

\* The rule that the report follows is the one that the Gateway API says serves
\* the request: scores of hostnames and matches compared as a whole give the
\* tie-breakers taken one by one (gateway.go:5255-5478).
PrecedenceIsGatewayAPI ==
    pc \in {"parents", "finish"} /\ SeesAll /\ OneLabelWildcards /\ Comparable =>
        \A where \in ToSet(MatchingListeners) : OnlyListener(where[1], where[2]) =>
            API!Winner(world.routes, where[1], where[2], intent)
                = {<<m[3], m[4]>> : m \in {n \in selected : SameListener(n, where)}}

\* How far one entry of a route gets at one listener, stage after stage.
StagesOf(family) ==
    CASE family = "HTTPRoute" ->
            <<"listener-port", "attached", "hostname", "path", "method", "headers", "params", "backend">>
      [] family = "GRPCRoute" -> <<"listener-port", "attached", "hostname", "service", "call", "headers", "backend">>
      [] family = "TLSRoute"  -> <<"listener-port", "attached", "hostname", "backend">>

Passes(g, l, r, match, stage) ==
    LET listener == world.gateways[g].listeners[l]
        route == world.routes[r]
        Only(part) == API!Holds(part, intent)
    IN  CASE stage = "listener-port" -> ListenerMatches(listener, intent)
          [] stage = "attached"      -> \E p \in ToSet(route.parents) :
                                            p.kind /\ p.gateway = g /\ p.section \in {0, l}
          [] stage = "hostname"      -> route.hostnames = {} \/ \E h \in route.hostnames : API!Names(h, intent.host)
          [] stage = "path"          -> Only([AnyMatch EXCEPT !.path = match.path])
          [] stage = "method"        -> Only([AnyMatch EXCEPT !.method = match.method])
          [] stage = "headers"       -> Only([AnyMatch EXCEPT !.headers = match.headers])
          [] stage = "params"        -> Only([AnyMatch EXCEPT !.params = match.params])
          [] stage = "service"       -> Only([AnyMatch EXCEPT !.service = match.service])
          [] stage = "call"          -> Only([AnyMatch EXCEPT !.service = match.service, !.call = match.call])
          [] stage = "backend"       -> FALSE

\* Something passes all of the first n stages; only the later ones ask for entries.
Asked(route, n) == IF n <= 3 THEN {AnyMatch} ELSE EntriesOf(route)
SomePasses(n) ==
    \E g \in Parents, r \in RouteScope : \E l \in DOMAIN world.gateways[g].listeners :
        \E match \in Asked(world.routes[r], n) :
            \A i \in 1..n : Passes(g, l, r, match, StagesOf(intent.family)[i])

\* The stage named to explain that nothing serves a request is one that nothing
\* passes.  Some route gets there, if each has one way to match: the code compares
\* routes, not entries, from one stage to the next (gateway.go:4557-4970).
NoMatchReasonTrue ==
    SeesAll /\ OneLabelWildcards /\ Comparable =>
        LET stages == StagesOf(intent.family)
            Named(n) == paths = <<>> /\ Result(stages[n], <<>>, "FAIL") \in report.results
            single == \A route \in ToSet(world.routes) : \A m, k \in EntriesOf(route) : m = k
        IN  \A n \in {i \in DOMAIN stages : Named(i)} :
                /\ stages[n] # "backend" => ~SomePasses(n)
                /\ n \in {3, 4} \/ (n > 4 /\ single) => SomePasses(n - 1)

GrantedByAPI(kind, from, to, name, namespace) ==
    [from |-> from, kind |-> kind, namespace |-> namespace, to |-> to, name |-> name] \in world.grants
    \/ [from |-> from, kind |-> kind, namespace |-> namespace, to |-> to, name |-> 0] \in world.grants

Works(backend, from) ==
    LET key == <<backend.namespace, backend.name>> IN
    /\ backend.kind /\ backend.name # 0 /\ backend.port # 0
    /\ backend.namespace = from \/ GrantedByAPI(intent.family, from, "Service", backend.name, backend.namespace)
    /\ key \in DOMAIN services /\ services[key].found /\ backend.port \in services[key].ports
    /\ services[key].external \/ (key \in DOMAIN ready /\ ready[key] = "ready")

Serves(gateway, listener) ==
    /\ "False" \notin {listener.programmed, listener.resolved}
    /\ \A c \in ToSet(listener.certificates) :
          /\ c.kind /\ <<c.namespace, c.secret>> \in world.secrets
          /\ c.namespace = gateway.namespace
             \/ GrantedByAPI("Gateway", gateway.namespace, "Secret", c.secret, c.namespace)

Said(check) == \E r \in report.results : r.check = check
Diagnosed(check, about) == Diagnosis(check, about) \in report.diagnoses

\* "matched backends" is said only if the backends, the statuses of their routes
\* and the listeners that end TLS were seen to work: no other result hides behind
\* --limit, a missing list, or a cached answer of another reference
\* (gateway.go:3400-3504, 4073).
GreenMeansServed ==
    Said("matched-backends") =>
        /\ \A r \in report.results :
               r.status = "PASS" \/ r.check \in {"class-filter", "gateway-filter", "route-filter", "limit"}
        /\ \A ref \in References : Works(BackendAt(ref), NamespaceOf(ref))
        /\ \A where \in ToSet(MatchingListeners) :
               LET g == world.gateways[where[1]] IN
               g.listeners[where[2]].protocol \in {"HTTPS", "TLS"} => Serves(g, g.listeners[where[2]])
        /\ \A r \in ToSet(PathRoutes) : \A status \in ToSet(world.routes[r].statuses) :
               "False" \notin {status.accepted, status.resolved} /\ status.partial # "True"
        /\ opts.expect[2] # 0 =>
               \E ref \in References : Expected(BackendAt(ref)) /\ BackendAt(ref).weight # 0

Backends(rule) == {ref \in References : OfRule(ref, rule)}
Blamed(ref) == \E r \in report.results : r.check = "backend" /\ r.about = ref
Complete == report.problems <= Limit

\* No message makes a diagnosis that reports a rejection look like another one.
PlainRejections ==
    \A route \in ToSet(world.routes) : \A status \in ToSet(route.statuses) :
        /\ status.says.accepted \subseteq {"rejection"}
        /\ \A text \in {status.says.resolved \cup {"reference"}, status.says.partial} :
              "rejection" \in text => text = {"rejection"}

\* Every broken backend has a diagnosis: its own, that of its weighted group, or
\* one that reports the rejection of its route.  The two rounds of analysis agree,
\* since an answer is kept, and what dedupe takes away for a rejection it takes
\* for one that stays (gateway.go:651-722, 3453-3491, 6337-6380).
BrokenIsExplained ==
    pc = "done" /\ Complete /\ PlainRejections =>
        \A ref \in {r \in References : Blamed(r)} :
            \/ Diagnosed("backend", ref) \/ Diagnosed("weighted", ref)
            \/ \E d \in report.diagnoses :
                  d.check \in AboutRoute /\ d.about[1] = ref[1] /\ "rejection" \in Says(d)

\* A rule is said to split a request between good and broken backends exactly if
\* it has both (gateway.go:4376-4440).
WeightedAgrees ==
    pc = "done" /\ Complete =>
        \A rule \in {SubSeq(ref, 1, 2) : ref \in References} :
            LET broken == {ref \in Backends(rule) : Blamed(ref)} IN
            {ref \in Backends(rule) : Diagnosed("weighted", ref)}
                = IF broken = Backends(rule) THEN {} ELSE broken

\* No text has two of the fragments.
Unmixed(diagnoses) == \A d \in diagnoses : \A x, y \in Says(d) : x = y

\* Only what another diagnosis explains is taken away: each route and each
\* listener that had one keeps one, or a Secret is at fault (gateway.go:651-722),
\* as long as no message of a controller makes one look like two kinds at once.
DedupeKeepsCause ==
    [][pc = "dedupe" /\ Unmixed(report.diagnoses) =>
        /\ report'.diagnoses # {} \/ report.diagnoses = {}
        /\ \A d \in report.diagnoses \ report'.diagnoses : \E e \in report'.diagnoses :
              \/ "secret" \in Says(e)
              \/ {d.check, e.check} \subseteq AboutRoute /\ e.about[1] = d.about[1]]_vars

\* What --limit drops is told, and was preceded by as many problems as were asked
\* for.  Of a success only filters that matched nothing may be dropped, since they
\* are looked at last (gateway.go:409-426, 435-460).
DroppedIsTold ==
    pc = "done" /\ report.problems > Limit =>
        /\ Said("limit")
        /\ Said("matched-backends") => report.problems = Len(FilterMisses)
        /\ Cardinality({r \in report.results : r.status # "PASS"}) > Limit

Of(check, where, status) ==
    \E r \in report.results : r.check = check /\ SubSeq(r.about, 1, 2) = where /\ r.status = status

ProbeChecks == {"client-path", "address", "inside", "upstream", "mesh"}

\* Each time the Services of Gateway g are listed, they are the same ones or the
\* list fails.
Steady(g) ==
    \A list, other \in world.implementation[g] : list.error \/ other.error \/ list = other

\* The path to the client is blamed only if the Gateway answers inside the
\* cluster and nowhere outside, the Gateway only if it answers nowhere - unless a
\* first round for the listener could not ask inside, or its Services changed; and
\* a probe adds one cause at most (gateway.go:3564-3693).
ProbeBlameHonest ==
    LET runtime == {d \in report.diagnoses : d.check \in ProbeChecks}
    IN  /\ Cardinality(runtime) <= 1
        /\ \A d \in runtime :
              /\ d.check \in {"client-path", "address"} => Of("outside", d.about, "FAIL") /\ ~Of("outside", d.about, "PASS")
              /\ d.check = "client-path" => Of("inside", d.about, "PASS")
              /\ d.check = "inside" =>
                    /\ Of("inside", d.about, "FAIL")
                    /\ Of("outside", d.about, "PASS") /\ Steady(d.about[1]) => Of("in-cluster", d.about, "WARN")

GatewayReport == INSTANCE Report WITH findings <- report.results

\* The command keeps the promise of Report: one exit status, after the last
\* finding, which is 0 only when none counts (cli.go:517-616).
ReportKept == GatewayReport!Spec

\* Whatever the cluster answers, the command ends (gateway.go:87-164).
CommandEnds == <>(pc = "done")

===============================================================================
