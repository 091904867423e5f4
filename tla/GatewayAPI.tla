------------------------------ MODULE GatewayAPI ------------------------------
(***************************************************************************)
(* What the Gateway API promises of a request, for comparison with what    *)
(* knm check gateway says of it: which rule serves a request that arrives  *)
(* at a listener, by the tie-breakers of the HTTPRoute and GRPCRoute       *)
(* specifications taken one after another.                                 *)
(***************************************************************************)
EXTENDS Naturals, Sequences, FiniteSets

CONSTANTS None

Ends(suffix, s) ==
    Len(suffix) <= Len(s) /\ suffix = SubSeq(s, Len(s) - Len(suffix) + 1, Len(s))

\* A wildcard stands for one or more labels.
Names(pattern, host) ==
    IF pattern = None THEN TRUE
    ELSE IF pattern.wild THEN Len(host) > Len(pattern.labels) /\ Ends(pattern.labels, host)
    ELSE pattern.labels = host

\* The elements that have most of something, and least.
Most(S, amount) == {x \in S : \A y \in S : amount[y] <= amount[x]}
Least(S, amount) == {x \in S : \A y \in S : amount[x] <= amount[y]}

\* A prefix is one of segments; a slash at its end does not count.
PathHolds(want, path) ==
    IF want.type = "Exact" THEN path = want.value
    ELSE /\ Len(want.value.segments) <= Len(path.segments)
         /\ want.value.segments = SubSeq(path.segments, 1, Len(want.value.segments))

\* A rule of a TLSRoute has no conditions.
Holds(match, intent) ==
    CASE intent.family = "HTTPRoute" ->
              /\ match.headers \subseteq intent.headers
              /\ match.path # None => PathHolds(match.path, intent.path)
              /\ match.method \in {None, intent.method}
              /\ match.params \subseteq intent.params
      [] intent.family = "GRPCRoute" ->
              /\ match.headers \subseteq intent.headers
              /\ match.service \in {None, intent.service} /\ match.call \in {None, intent.call}
      [] intent.family = "TLSRoute" -> TRUE

Everything == [path |-> None, method |-> None, headers |-> {}, params |-> {}, type |-> "Exact",
               service |-> None, call |-> None]

\* The ways in which listener l of gateway g may serve a request: a rule, one of
\* its matches and one of the hostnames of its route.
WaysOf(routes, r, intent) ==
    UNION {{[route |-> r, rule |-> n, host |-> h, match |-> m] :
                h \in {p \in IF routes[r].hostnames = {} THEN {None} ELSE routes[r].hostnames :
                          Names(p, intent.host)},
                m \in {k \in IF routes[r].rules[n].matches = {} THEN {Everything} ELSE routes[r].rules[n].matches :
                          Holds(k, intent)}} :
           n \in DOMAIN routes[r].rules}

Ways(routes, g, l, intent) ==
    LET Refers(parent) == parent.kind /\ parent.gateway = g /\ parent.section \in {0, l}
        attached == {r \in DOMAIN routes : \E i \in DOMAIN routes[r].parents : Refers(routes[r].parents[i])}
    IN  UNION {WaysOf(routes, r, intent) : r \in attached}

Given(field) == IF field = None THEN 0 ELSE 1

\* Characters; a match without a path is one of the prefix "/".
Characters(want) ==
    IF want = None THEN 1 ELSE 2 * Len(want.value.segments) + (IF want.value.slash THEN 1 ELSE 0)
Letters(name) == IF name = None THEN 0 ELSE Len(name)

\* The rule that serves it, as a set of one element or none.
Winner(routes, g, l, intent) ==
    LET ways == Ways(routes, g, l, intent)
        plain == [w \in ways |-> IF w.host # None /\ ~w.host.wild THEN Len(w.host.labels) ELSE 0]
        suffix == [w \in ways |-> IF w.host = None THEN 0 ELSE Len(w.host.labels)]
        exact == [w \in ways |-> IF w.match.path # None /\ w.match.path.type = "Exact" THEN 1 ELSE 0]
        prefix == [w \in ways |-> Characters(w.match.path)]
        method == [w \in ways |-> Given(w.match.method)]
        service == [w \in ways |-> Letters(w.match.service)]
        call == [w \in ways |-> Letters(w.match.call)]
        headers == [w \in ways |-> Cardinality(w.match.headers)]
        params == [w \in ways |-> Cardinality(w.match.params)]
        age == [w \in ways |-> routes[w.route].created]
        alphabet == [w \in ways |-> w.route]
        order == [w \in ways |-> w.rule]
        hosts == Most(Most(ways, plain), suffix)
        http == Most(Most(Most(Most(Most(hosts, exact), prefix), method), headers), params)
        grpc == Most(Most(Most(hosts, service), call), headers)
        best == CASE intent.family = "HTTPRoute" -> http
                  [] intent.family = "GRPCRoute" -> grpc
                  [] intent.family = "TLSRoute"  -> hosts
    IN  {<<w.route, w.rule>> : w \in Least(Least(Least(best, age), alphabet), order)}

===============================================================================
