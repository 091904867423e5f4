----------------------------- MODULE RuntimeProofs ------------------------------
(***************************************************************************)
(* The theorems of PolicyProofs about a report hold with the runtime layer *)
(* between the policies and the exit status of check service, for every    *)
(* mesh and whatever the probes meet; and what the report says of Istio is *)
(* true of the request it was found of.                                    *)
(***************************************************************************)
EXTENDS ServiceRuntime, PolicyProofs

--------------------------------------------------------------------------------
(* What the inspections of one request in a mesh say is true of the        *)
(* proxies: the policies and modes blamed for a denial or a reset are      *)
(* those of a target pod, the route is the one that is taken, and a cause  *)
(* that could be named is (istio_authz.go:18-70, istio_mtls.go:20-204,     *)
(* istio_traffic.go:20-167).                                               *)

\* Accounts are written without the namespace of their policy, and conditions with
\* the namespace: the code reads no other form.
Given(criteria) == UNION ({criteria.in, criteria.out} \ {None})

RuleReadable(rule, home) ==
    /\ rule.when.unknown = {}
    /\ \A from \in rule.from : \A ref \in Given(from.accounts) : ref.namespace # home
    /\ \A ref \in Given(rule.when.accounts) : ref.namespace # None

Completed(refs, home) == {[ref EXCEPT !.namespace = IF @ = None THEN home ELSE @] : ref \in refs}

\* An account relative to the namespace of a policy is in a set of references as
\* the code reads it exactly if the account is in the set as Istio completes it.
LEMMA ReferenceRead ==
  ASSUME NEW S \in SUBSET AccountRef, NEW home \in Namespaces, NEW pod \in Pods,
         \A ref \in S : ref.namespace # home
  PROVE  RelativeAccount(pod, home) \in S <=> Account(pod) \in Completed(S, home)
  <1> DEFINE Full(ref) == [ref EXCEPT !.namespace = IF @ = None THEN home ELSE @]
  <1>1. NamespaceOf[pod] \in Namespaces /\ NamespaceOf[pod] # None /\ home # None
    BY WorldAssumption
  <1>2. \A ref \in S : /\ Full(ref) = [namespace |-> IF ref.namespace = None THEN home ELSE ref.namespace,
                                       account |-> ref.account]
                       /\ ref = [namespace |-> ref.namespace, account |-> ref.account]
    BY DEF AccountRef
  <1>3. \A ref \in S : RelativeAccount(pod, home) = ref <=> Account(pod) = Full(ref)
    BY <1>1, <1>2 DEF RelativeAccount, Account
  <1> QED
    BY <1>3 DEF Completed

\* A condition names accounts in full, and Istio has nothing to complete.
LEMMA FullReferenceRead ==
  ASSUME NEW S \in SUBSET AccountRef, NEW home \in Namespaces, \A ref \in S : ref.namespace # None
  PROVE  Completed(S, home) = S
  <1>1. \A ref \in S : [ref EXCEPT !.namespace = IF @ = None THEN home ELSE @] = ref
    BY DEF AccountRef
  <1> QED
    BY <1>1 DEF Completed

LEMMA CompletedIsSet ==
  ASSUME NEW S \in SUBSET AccountRef, NEW home \in Namespaces
  PROVE  Completed(S, home) \in SUBSET AccountRef
  BY DEF Completed, AccountRef

\* Criteria for accounts hold of the source as the code reads them exactly if they do
\* for Istio (istio_authz.go:427-468).
LEMMA AccountsRead ==
  ASSUME NEW criteria \in Criteria(AccountRef), NEW home \in Namespaces, NEW pod \in Pods
  PROVE  /\ (\A ref \in Given(criteria) : ref.namespace # home)
               => (Meets(criteria, {RelativeAccount(pod, home)}) <=> Meets(Qualified(criteria, home), {Account(pod)}))
         /\ (\A ref \in Given(criteria) : ref.namespace # None) => Qualified(criteria, home) = criteria
  <1> DEFINE Full(refs) == IF refs = None THEN None ELSE Completed(refs, home)
  <1>1. Qualified(criteria, home) = [in |-> Full(criteria.in), out |-> Full(criteria.out)]
    BY DEF Qualified, Completed
  <1>2. criteria = [in |-> criteria.in, out |-> criteria.out]
        /\ \A refs \in {criteria.in, criteria.out} : refs # None => refs \in SUBSET AccountRef
    BY DEF Criteria, Optional
  <1>3. \A refs \in {criteria.in, criteria.out} : Full(refs) = None <=> refs = None
    BY <1>2, CompletedIsSet, IstioAssumption
  <1>4. ASSUME \A ref \in Given(criteria) : ref.namespace # home
        PROVE  Meets(criteria, {RelativeAccount(pod, home)}) <=> Meets(Qualified(criteria, home), {Account(pod)})
    <2>1. \A refs \in {criteria.in, criteria.out} : refs # None =>
              (RelativeAccount(pod, home) \in refs <=> Account(pod) \in Full(refs))
      <3>1. SUFFICES ASSUME NEW refs \in {criteria.in, criteria.out}, refs # None
                     PROVE  RelativeAccount(pod, home) \in refs <=> Account(pod) \in Completed(refs, home)
        OBVIOUS
      <3>2. \A ref \in refs : ref.namespace # home
        BY <1>4, <3>1 DEF Given
      <3> QED
        BY <1>2, <3>1, <3>2, ReferenceRead
    <2> HIDE DEF Full
    <2>2. /\ Qualified(criteria, home).in = Full(criteria.in)
          /\ Qualified(criteria, home).out = Full(criteria.out)
      BY <1>1
    <2> QED
      BY <1>3, <2>1, <2>2 DEF Meets
  <1>5. ASSUME \A ref \in Given(criteria) : ref.namespace # None
        PROVE  Qualified(criteria, home) = criteria
    <2>1. \A refs \in {criteria.in, criteria.out} : refs # None => Completed(refs, home) = refs
      <3>1. SUFFICES ASSUME NEW refs \in {criteria.in, criteria.out}, refs # None
                     PROVE  Completed(refs, home) = refs
        OBVIOUS
      <3>2. \A ref \in refs : ref.namespace # None
        BY <1>5, <3>1 DEF Given
      <3> QED
        BY <1>2, <3>1, <3>2, FullReferenceRead
    <2> QED
      BY <1>1, <1>2, <2>1
  <1> QED
    BY <1>4, <1>5

\* The source of a request is known to Istio where it is in the mesh, and then the code
\* reads from as Istio does (istio_authz.go:313-338).
LEMMA SourceRead ==
  ASSUME NEW from \in SourceCriteria, NEW home \in Namespaces, NEW r, r.source \in Pods,
         \A ref \in Given(from.accounts) : ref.namespace # home
  PROVE  FromMatches(from, home, r) <=> FromHolds(from, home, {r.source})
  <1>1. /\ {NamespaceOf[p] : p \in {r.source}} = {NamespaceOf[r.source]}
        /\ {Account(p) : p \in {r.source}} = {Account(r.source)}
    OBVIOUS
  <1>2. from.accounts \in Criteria(AccountRef)
    BY DEF SourceCriteria
  <1>3. Meets(from.accounts, {RelativeAccount(r.source, home)})
          <=> Meets(Qualified(from.accounts, home), {Account(r.source)})
    BY <1>2, AccountsRead
  <1> QED
    BY <1>1, <1>3 DEF FromMatches, FromHolds

\* A rule that the code can read matches exactly if it holds (istio_authz.go:150-154).
LEMMA RuleRead ==
  ASSUME NEW rule \in AuthorizationRule, NEW home \in Namespaces, NEW r, r.source \in Pods,
         RuleReadable(rule, home)
  PROVE  istioAuthorizationRuleMatches(rule, home, r)
           <=> RuleHolds(rule, home, {r.source}, {r.target}, r.authority)
  <1>1. /\ {NamespaceOf[p] : p \in {r.source}} = {NamespaceOf[r.source]}
        /\ {Account(p) : p \in {r.source}} = {Account(r.source)}
    OBVIOUS
  <1>2. \A from \in rule.from : FromMatches(from, home, r) <=> FromHolds(from, home, {r.source})
    BY SourceRead DEF AuthorizationRule, RuleReadable
  <1>3. rule.when.accounts \in Criteria(AccountRef)
    BY DEF AuthorizationRule, Conditions
  <1>4. Qualified(rule.when.accounts, home) = rule.when.accounts
    BY <1>3, AccountsRead DEF RuleReadable
  <1>5. ConditionsHold(rule.when, r) <=>
          /\ Meets(rule.when.namespaces, {NamespaceOf[r.source]})
          /\ Meets(Qualified(rule.when.accounts, home), {Account(r.source)})
          /\ Meets(rule.when.ports, {r.target}) /\ Meets(rule.when.methods, {"GET"}) /\ Meets(rule.when.line, {"asked"})
    BY <1>4 DEF ConditionsHold, RuleReadable
  <1>6. \A to \in rule.to : ToMatches(to, r) <=>
          /\ Meets(to.hosts, {r.authority}) /\ Meets(to.ports, {r.target})
          /\ Meets(to.methods, {"GET"}) /\ Meets(to.line, {"asked"})
    BY DEF ToMatches
  <1> QED
    BY <1>1, <1>2, <1>5, <1>6 DEF istioAuthorizationRuleMatches, RuleHolds

-------------------------------------------------------------------------------
(* The blame.                                                              *)

\* What the command reads is what Istio has: targets of the Service with a sidecar,
\* at one port, policies of the namespace and of the root namespace.
PathReadable(config, service, targets, source) ==
    /\ config \in Mesh /\ config.rootRead
    /\ \A n \in Namespaces : config.lists["authorization"][n] = "read"
    /\ source \in Pods \cap config.sidecars
    /\ targets \in Seq(Pods) /\ targets # <<>>
    /\ \A pod \in ToSet(targets) : pod \in config.sidecars /\ NamespaceOf[pod] = service.namespace
    /\ \A pod \in ToSet(targets) : TargetNumbers(Chosen(service).target, <<pod>>) = {WorkloadPort(service)}
    /\ \A policy \in config.authorization :
          policy.refs = "none" /\ \A rule \in policy.rules : RuleReadable(rule, policy.namespace)

\* The policies that the code takes for those of the targets.
SelectingTargets(config, service, targets) ==
    {policy \in Enforced(PartialList(config, "authorization", TargetPolicyNamespaces(config, service.namespace)).items) :
        SelectsTarget(policy, targets)}

LEMMA PolicyRead ==
  ASSUME NEW config, NEW service, NEW targets, NEW source, NEW authority,
         PathReadable(config, service, targets, source),
         NEW pod \in ToSet(targets), NEW policy \in config.authorization
  PROVE  Matches(policy, newIstioHTTPRequest(service, source, authority))
           <=> PolicyHolds(config, policy, pod, service, source, authority)
  <1> DEFINE r == newIstioHTTPRequest(service, source, authority)
  <1>2. r.source = source /\ r.authority = authority /\ r.target = WorkloadPort(service)
    BY DEF newIstioHTTPRequest, WorkloadPort
  <1>3. TargetNumbers(Chosen(service).target, <<pod>>) = {WorkloadPort(service)}
    BY DEF PathReadable
  <1>4. Proven(config, source) = {source}
    BY DEF Proven, PathReadable
  <1>5. policy.namespace \in Namespaces /\ policy.rules \subseteq AuthorizationRule
    BY DEF PathReadable, Mesh, AuthorizationPolicy
  <1>6. \A rule \in policy.rules : RuleReadable(rule, policy.namespace)
    BY DEF PathReadable
  <1> HIDE DEF r
  <1>7. \A rule \in policy.rules : istioAuthorizationRuleMatches(rule, policy.namespace, r)
            <=> RuleHolds(rule, policy.namespace, {source}, {WorkloadPort(service)}, authority)
    BY <1>2, <1>5, <1>6, RuleRead DEF PathReadable
  <1> QED
    BY <1>3, <1>4, <1>7 DEF Matches, PolicyHolds, r

\* The selected policies are those that the proxy of some target enforces.
LEMMA SelectedEnforced ==
  ASSUME NEW config, NEW service, NEW targets, NEW source, PathReadable(config, service, targets, source)
  PROVE  /\ \A policy \in SelectingTargets(config, service, targets) :
               \E pod \in ToSet(targets) : policy \in Enforcing(config, pod, policy.action)
         /\ SelectingTargets(config, service, targets) # {} => \A pod \in ToSet(targets), action \in {"ALLOW", "DENY"} :
               Enforcing(config, pod, action) \subseteq SelectingTargets(config, service, targets)
  <1> DEFINE namespaces == TargetPolicyNamespaces(config, service.namespace)
             outcome == config.lists["authorization"]
             lost == outcome[Head(Sorted(namespaces))] = "error"
             items == PartialList(config, "authorization", namespaces).items
  <1>1. namespaces = {service.namespace, config.root}
    BY DEF TargetPolicyNamespaces, istioRootNamespace, PathReadable
  <1>2. items = {x \in config.authorization : ~lost /\ x.namespace \in namespaces /\ outcome[x.namespace] = "read"}
    BY DEF PartialList
  <1>3. \A x \in config.authorization : x.namespace \in Namespaces /\ outcome[x.namespace] = "read" /\ x.refs = "none"
    BY DEF PathReadable, Mesh, AuthorizationPolicy
  <1>4. \E pod \in ToSet(targets) : TRUE
    <2>1. targets \in Seq(Pods) /\ targets # <<>>
      BY DEF PathReadable
    <2>2. 1 \in DOMAIN targets
      BY <2>1
    <2>3. targets[1] \in ToSet(targets)
      BY <2>2 DEF ToSet
    <2> QED BY <2>3
  <1>5. \A x : x \in SelectingTargets(config, service, targets) <=>
            /\ x \in config.authorization /\ ~lost /\ x.namespace \in {service.namespace, config.root} /\ ~x.dryRun
            /\ x.selects = None \/ x.selects \cap ToSet(targets) # {}
    <2> HIDE DEF lost, outcome
    <2> QED BY <1>1, <1>2, <1>3 DEF SelectingTargets, Enforced, SelectsTarget, items
  <1> HIDE DEF lost
  <1>6. ASSUME NEW policy \in SelectingTargets(config, service, targets)
        PROVE  \E pod \in ToSet(targets) : policy \in Enforcing(config, pod, policy.action)
    <2>1. PICK pod \in ToSet(targets) : policy.selects = None \/ pod \in policy.selects
      BY <1>4, <1>5
    <2> QED
      BY <1>3, <1>5, <2>1 DEF Enforcing, PathReadable
  <1>7. ASSUME SelectingTargets(config, service, targets) # {}, NEW pod \in ToSet(targets), NEW action \in {"ALLOW", "DENY"}
        PROVE  Enforcing(config, pod, action) \subseteq SelectingTargets(config, service, targets)
    <2>1. ~lost
      BY <1>5, <1>7
    <2> QED
      BY <1>5, <2>1 DEF Enforcing, PathReadable
  <1> QED
    BY <1>6, <1>7

\* A deny is named only where a selected policy denies, a default deny only where none
\* allows: what is said of the lists and of tokens is neither.
LEMMA BlameChosen ==
  ASSUME NEW config, NEW service, NEW targets, NEW r,
         NEW diagnosis \in {"Istio-deny", "Istio-default-deny"},
         Insight("Istio-authorization", "FAIL", diagnosis)
           \in inspectIstioAuthorizationPolicy(config, service.namespace, targets, r)
  PROVE  IF diagnosis = "Istio-deny"
         THEN \E policy \in SelectingTargets(config, service, targets) : policy.action = "DENY" /\ Matches(policy, r)
         ELSE istioAllowDefaultDeny(SelectingTargets(config, service, targets), r)
  <1> DEFINE list == PartialList(config, "authorization", TargetPolicyNamespaces(config, service.namespace))
             selecting == {policy \in Enforced(list.items) : SelectsTarget(policy, targets)}
             jwt == inspectIstioRequestAuthentication(config, service.namespace, targets, "WARN")
             usesJWT == \E policy \in selecting : \E rule \in policy.rules : istioAuthorizationRuleUsesJWT(rule)
             Denied == \E policy \in selecting : policy.action = "DENY" /\ Matches(policy, r)
             i == Insight("Istio-authorization", "FAIL", diagnosis)
  <1>1. selecting = SelectingTargets(config, service, targets)
    BY DEF SelectingTargets
  <1>2. inspectIstioAuthorizationPolicy(config, service.namespace, targets, r) =
          (IF list.failed THEN ListWarning("error") ELSE {})
              \cup (IF list.failed /\ list.items = {} THEN {}
                    ELSE IF Denied THEN {Insight("Istio-authorization", "FAIL", "Istio-deny")}
                    ELSE (IF usesJWT THEN jwt.insights ELSE {})
                             \cup (IF usesJWT /\ jwt.found THEN {} ELSE {Explain(selecting, r)}))
    BY DEF inspectIstioAuthorizationPolicy
  <1>3. i \notin ListWarning("error")
    BY DEF ListWarning, Plain, Insight
  <1>4. i \notin jwt.insights
    BY <1>3 DEF inspectIstioRequestAuthentication, Insight
  <1>5. i = Explain(selecting, r) => diagnosis = "Istio-default-deny" /\ istioAllowDefaultDeny(selecting, r)
    <2> HIDE DEF selecting
    <2> QED BY DEF Explain, Insight
  <1>6. i = Insight("Istio-authorization", "FAIL", "Istio-deny") => diagnosis = "Istio-deny"
    BY DEF Insight
  <1> HIDE DEF list, selecting, jwt, usesJWT, Denied, i
  <1>7. (diagnosis = "Istio-deny" /\ Denied) \/ i = Explain(selecting, r)
    BY <1>2, <1>3, <1>4, <1>6 DEF i
  <1> QED
    BY <1>1, <1>5, <1>7 DEF Denied

\* A deny that is named denies the request at the proxy of a target, policies on trial
\* and those of other workloads left out (istio_authz.go:29-47).
THEOREM DenyBlameTrue ==
  ASSUME NEW config, NEW service, NEW targets, NEW source, NEW authority,
         PathReadable(config, service, targets, source),
         Insight("Istio-authorization", "FAIL", "Istio-deny")
           \in inspectIstioAuthorizationPolicy(config, service.namespace, targets,
                                              newIstioHTTPRequest(service, source, authority))
  PROVE  \E pod \in ToSet(targets) : Hits(config, "DENY", pod, service, source, authority)
  <1> DEFINE r == newIstioHTTPRequest(service, source, authority)
  <1>1. PICK policy \in SelectingTargets(config, service, targets) : policy.action = "DENY" /\ Matches(policy, r)
    <2> HIDE DEF r
    <2> QED BY BlameChosen DEF r
  <1>2. PICK pod \in ToSet(targets) : policy \in Enforcing(config, pod, "DENY")
    BY <1>1, SelectedEnforced
  <1>3. policy \in config.authorization
    BY <1>2 DEF Enforcing
  <1> HIDE DEF r
  <1>4. PolicyHolds(config, policy, pod, service, source, authority)
    BY <1>1, <1>3, PolicyRead DEF r
  <1> QED
    BY <1>2, <1>4 DEF Hits

\* Where ALLOW policies are blamed for allowing nothing, some target has ALLOW policies
\* and none of them allows the request (istio_authz.go:51-55, 174-195).
THEOREM DefaultDenyTrue ==
  ASSUME NEW config, NEW service, NEW targets, NEW source, NEW authority,
         PathReadable(config, service, targets, source),
         Insight("Istio-authorization", "FAIL", "Istio-default-deny")
           \in inspectIstioAuthorizationPolicy(config, service.namespace, targets,
                                              newIstioHTTPRequest(service, source, authority))
  PROVE  \E pod \in ToSet(targets) : AllowsNothing(config, pod, service, source, authority)
  <1> DEFINE r == newIstioHTTPRequest(service, source, authority)
             allows == {policy \in SelectingTargets(config, service, targets) : policy.action = "ALLOW"}
  <1>1. allows # {} /\ \A policy \in allows : ~Matches(policy, r)
    <2> HIDE DEF r
    <2>1. istioAllowDefaultDeny(SelectingTargets(config, service, targets), r)
      BY BlameChosen DEF r
    <2> QED BY <2>1 DEF istioAllowDefaultDeny
  <1>2. PICK policy \in allows : TRUE
    BY <1>1
  <1>3. PICK pod \in ToSet(targets) : policy \in Enforcing(config, pod, "ALLOW")
    BY <1>2, SelectedEnforced
  <1>4. Enforcing(config, pod, "ALLOW") \subseteq allows
    BY <1>2, SelectedEnforced DEF Enforcing
  <1> HIDE DEF r, allows
  <1>5. \A p \in Enforcing(config, pod, "ALLOW") : ~PolicyHolds(config, p, pod, service, source, authority)
    <2>1. SUFFICES ASSUME NEW p \in Enforcing(config, pod, "ALLOW")
                   PROVE  ~PolicyHolds(config, p, pod, service, source, authority)
      OBVIOUS
    <2>2. p \in config.authorization
      BY <2>1 DEF Enforcing
    <2> QED
      BY <1>1, <1>4, <2>2, PolicyRead DEF r
  <1> QED
    BY <1>3, <1>5 DEF AllowsNothing, Hits


-------------------------------------------------------------------------------
(* Lists.                                                                  *)

\* One step of the list up to n.
UpTerm(up, list, S, n) ==
    IF n = 0 THEN <<>> ELSE IF list[n] \in S THEN Append(up[n - 1], list[n]) ELSE up[n - 1]

\* The recursive function of ItemsIn satisfies its equation.
LEMMA ItemsEquation ==
  ASSUME NEW T, NEW list \in Seq(T), NEW S
  PROVE  \E up : /\ \A n \in 0..Len(list) : up[n] = UpTerm(up, list, S, n)
                 /\ ItemsIn(list, S) = up[Len(list)]
  <1> DEFINE Good(m) == \E up : up = [n \in 0..m |-> UpTerm(up, list, S, n)]
             U == {m \in Nat : Good(m)}
  <1>1. Good(0)
    <2> DEFINE f == [n \in 0..0 |-> <<>>]
               g == [n \in 0..0 |-> UpTerm(f, list, S, n)]
    <2>1. f = g
      BY DEF UpTerm
    <2> QED BY <2>1
  <1>2. ASSUME NEW m \in Nat, Good(m) PROVE Good(m + 1)
    <2>1. PICK up : up = [n \in 0..m |-> UpTerm(up, list, S, n)]
      BY <1>2
    <2> DEFINE h == [n \in 0..(m + 1) |-> IF n <= m THEN up[n] ELSE UpTerm(up, list, S, n)]
               k == [n \in 0..(m + 1) |-> UpTerm(h, list, S, n)]
               up2 == [n \in 0..m |-> UpTerm(up, list, S, n)]
    <2>2. \A n \in 0..m : up[n] = UpTerm(up, list, S, n)
      <3>1. up = up2 BY <2>1
      <3>2. \A n \in 0..m : up2[n] = UpTerm(up, list, S, n) OBVIOUS
      <3> HIDE DEF up2
      <3> QED BY <3>1, <3>2
    <2>3. \A n \in 0..(m + 1) : h[n] = UpTerm(up, list, S, n)
      <3> SUFFICES ASSUME NEW n \in 0..(m + 1) PROVE h[n] = UpTerm(up, list, S, n) OBVIOUS
      <3>1. h[n] = IF n <= m THEN up[n] ELSE UpTerm(up, list, S, n) OBVIOUS
      <3>2. n <= m => n \in 0..m OBVIOUS
      <3> HIDE DEF h
      <3> QED BY <2>2, <3>1, <3>2
    <2>4. \A n \in 0..(m + 1) : n # 0 => h[n - 1] = up[n - 1]
      <3> SUFFICES ASSUME NEW n \in 0..(m + 1), n # 0 PROVE h[n - 1] = up[n - 1] OBVIOUS
      <3>1. n - 1 \in 0..(m + 1) /\ n - 1 <= m OBVIOUS
      <3> QED BY <3>1
    <2>5. \A n \in 0..(m + 1) : UpTerm(h, list, S, n) = UpTerm(up, list, S, n)
      <3> HIDE DEF h
      <3> QED BY <2>4 DEF UpTerm
    <2>6. h = k
      <3>1. \A n \in 0..(m + 1) : h[n] = UpTerm(h, list, S, n)
        <4> HIDE DEF h
        <4> QED BY <2>3, <2>5
      <3>2. h = [n \in 0..(m + 1) |-> h[n]] OBVIOUS
      <3> HIDE DEF h
      <3> QED BY <3>1, <3>2
    <2> QED BY <2>6
  <1>3. Len(list) \in Nat /\ Len(list) \in 0..Len(list)
    OBVIOUS
  <1>4. \A m \in 0..Len(list) : m \in U
    <2>1. 0 \in U BY <1>1
    <2>2. \A m \in Nat : m < Len(list) /\ m \in U => m + 1 \in U
      <3> SUFFICES ASSUME NEW m \in Nat, m \in U PROVE m + 1 \in U OBVIOUS
      <3>1. Good(m + 1) BY <1>2
      <3> QED BY <3>1
    <2> HIDE DEF U
    <2> QED BY <1>3, <2>1, <2>2, UpTo
  <1>5. Good(Len(list))
    BY <1>3, <1>4
  <1> DEFINE up == CHOOSE up : up = [n \in 0..Len(list) |-> UpTerm(up, list, S, n)]
             full == [n \in 0..Len(list) |-> UpTerm(up, list, S, n)]
  <1>6. up = full
    BY <1>5, Zenon
  <1>7. \A n \in 0..Len(list) : up[n] = UpTerm(up, list, S, n)
    <2> HIDE DEF up
    <2>1. \A n \in 0..Len(list) : full[n] = UpTerm(up, list, S, n) OBVIOUS
    <2> HIDE DEF full
    <2> QED BY <1>6, <2>1
  <1>8. ItemsIn(list, S) = up[Len(list)]
    BY Zenon DEF ItemsIn, UpTerm
  <1> HIDE DEF up
  <1> QED BY <1>7, <1>8

LEMMA AppendMembers ==
  ASSUME NEW T, NEW s \in Seq(T), NEW e \in T
  PROVE  Append(s, e) \in Seq(T) /\ \A x : x \in ToSet(Append(s, e)) <=> x \in ToSet(s) \/ x = e
  <1>1. Len(Append(s, e)) = Len(s) + 1 /\ Len(s) \in Nat /\ Append(s, e)[Len(s) + 1] = e
    OBVIOUS
  <1>2. \A i \in 1..Len(s) : Append(s, e)[i] = s[i]
    OBVIOUS
  <1>3. DOMAIN Append(s, e) = 1..(Len(s) + 1) /\ DOMAIN s = 1..Len(s)
    OBVIOUS
  <1>4. 1..(Len(s) + 1) = 1..Len(s) \cup {Len(s) + 1}
    BY <1>1
  <1> QED BY <1>1, <1>2, <1>3, <1>4 DEF ToSet

\* What is kept is what the list has of the set.
LEMMA ItemsMembers ==
  ASSUME NEW T, NEW list \in Seq(T), NEW S
  PROVE  /\ ItemsIn(list, S) \in Seq(T)
         /\ \A x : x \in ToSet(ItemsIn(list, S)) <=> x \in ToSet(list) /\ x \in S
  <1> DEFINE N == Len(list)
  <1>1. PICK up : (\A n \in 0..N : up[n] = UpTerm(up, list, S, n)) /\ ItemsIn(list, S) = up[N]
    BY ItemsEquation
  <1>2. N \in Nat /\ DOMAIN list = 1..N /\ \A n \in 1..N : list[n] \in T
    OBVIOUS
  <1> HIDE DEF N
  <1> DEFINE Good(n) == up[n] \in Seq(T) /\ \A x : x \in ToSet(up[n]) <=> \E i \in 1..n : list[i] = x /\ x \in S
             A == {n \in Nat : Good(n)}
  <1>3. 0 \in A
    <2>1. up[0] = <<>> BY <1>1, <1>2 DEF UpTerm
    <2>2. ToSet(<<>>) = {} BY DEF ToSet
    <2>3. up[0] \in Seq(T) BY <2>1
    <2>4. ToSet(up[0]) = {} BY <2>1, <2>2
    <2>5. \A i \in 1..0 : FALSE OBVIOUS
    <2>6. Good(0)
      <3> HIDE DEF N
      <3> QED BY <2>3, <2>4, <2>5
    <2> QED BY <2>6
  <1>4. ASSUME NEW n \in Nat, n < N, n \in A PROVE n + 1 \in A
    <2>1. n + 1 \in 0..N /\ n + 1 # 0 /\ (n + 1) - 1 = n /\ n + 1 \in 1..N
      BY <1>2, <1>4
    <2>2. up[n + 1] = IF list[n + 1] \in S THEN Append(up[n], list[n + 1]) ELSE up[n]
      BY <1>1, <2>1 DEF UpTerm
    <2>3. Good(n) BY <1>4
    <2>4. list[n + 1] \in T BY <1>2, <2>1
    <2>5. 1..(n + 1) = 1..n \cup {n + 1} BY <1>4
    <2>6. CASE list[n + 1] \in S
      <3>1. /\ up[n + 1] \in Seq(T)
            /\ \A x : x \in ToSet(up[n + 1]) <=> x \in ToSet(up[n]) \/ x = list[n + 1]
        BY <2>2, <2>3, <2>4, <2>6, AppendMembers
      <3> QED BY <1>4, <2>3, <2>5, <2>6, <3>1
    <2>7. CASE list[n + 1] \notin S
      <3>1. up[n + 1] = up[n] BY <2>2, <2>7
      <3> QED BY <1>4, <2>3, <2>5, <2>7, <3>1
    <2> QED BY <2>6, <2>7
  <1>5. \A n \in 0..N : n \in A
    <2> HIDE DEF A
    <2> QED BY <1>2, <1>3, <1>4, UpTo
  <1>6. Good(N)
    <2>1. N \in 0..N BY <1>2
    <2>2. N \in A BY <1>5, <2>1
    <2> QED BY <2>2
  <1>7. \A x : x \in ToSet(list) <=> \E i \in 1..N : list[i] = x
    BY <1>2 DEF ToSet
  <1> QED BY <1>1, <1>6, <1>7

\* The first of what is kept is the first of the list that is in the set.
LEMMA ItemsHead ==
  ASSUME NEW T, NEW list \in Seq(T), NEW S,
         NEW k \in DOMAIN list, list[k] \in S, \A j \in 1..(k - 1) : list[j] \notin S
  PROVE  ItemsIn(list, S) # <<>> /\ Head(ItemsIn(list, S)) = list[k]
  <1> DEFINE N == Len(list)
  <1>1. PICK up : (\A n \in 0..N : up[n] = UpTerm(up, list, S, n)) /\ ItemsIn(list, S) = up[N]
    BY ItemsEquation
  <1>2. N \in Nat /\ k \in 1..N /\ \A n \in 1..N : list[n] \in T
    OBVIOUS
  <1> HIDE DEF N
  <1> DEFINE Good(n) == IF n < k THEN up[n] = <<>> ELSE up[n] \in Seq(T) /\ up[n] # <<>> /\ Head(up[n]) = list[k]
             A == {n \in Nat : Good(n)}
  <1>3. 0 \in A
    <2>1. up[0] = <<>> BY <1>1, <1>2 DEF UpTerm
    <2> QED BY <1>2, <2>1
  <1>4. ASSUME NEW n \in Nat, n < N, n \in A PROVE n + 1 \in A
    <2>1. n + 1 \in 0..N /\ n + 1 # 0 /\ (n + 1) - 1 = n /\ n + 1 \in 1..N
      BY <1>2, <1>4
    <2>2. up[n + 1] = IF list[n + 1] \in S THEN Append(up[n], list[n + 1]) ELSE up[n]
      BY <1>1, <2>1 DEF UpTerm
    <2>3. Good(n) BY <1>4
    <2>4. list[n + 1] \in T BY <1>2, <2>1
    <2>5. CASE n + 1 < k
      <3>1. n + 1 \in 1..(k - 1) /\ n < k BY <1>2, <1>4, <2>5
      <3>2. list[n + 1] \notin S BY <3>1
      <3>3. up[n + 1] = <<>> BY <2>2, <2>3, <3>1, <3>2
      <3> QED BY <2>1, <2>5, <3>3
    <2>6. CASE n + 1 = k
      <3>1. n < k BY <1>2, <1>4, <2>6
      <3>2. up[n] = <<>> /\ list[n + 1] \in S BY <2>3, <2>6, <3>1
      <3>3. up[n + 1] = Append(<<>>, list[n + 1]) BY <2>2, <3>2
      <3>4. Append(<<>>, list[n + 1]) = <<list[n + 1]>> BY <2>4
      <3>5. up[n + 1] \in Seq(T) /\ up[n + 1] # <<>> /\ Head(up[n + 1]) = list[n + 1] BY <2>4, <3>3, <3>4
      <3> QED BY <1>2, <2>1, <2>6, <3>5
    <2>7. CASE n + 1 > k
      <3>1. ~(n < k) /\ ~(n + 1 < k) BY <1>2, <1>4, <2>7
      <3>2. up[n] \in Seq(T) /\ up[n] # <<>> /\ Head(up[n]) = list[k] BY <2>3, <3>1
      <3>3. Append(up[n], list[n + 1]) \in Seq(T) /\ Append(up[n], list[n + 1]) # <<>>
            /\ Head(Append(up[n], list[n + 1])) = Head(up[n])
        <4> DEFINE s == up[n]
                   e == list[n + 1]
        <4>1. s \in Seq(T) /\ s # <<>> /\ e \in T BY <2>4, <3>2
        <4> HIDE DEF s, e
        <4>2. Append(s, e) \in Seq(T) /\ Len(Append(s, e)) = Len(s) + 1 /\ Len(s) \in Nat \ {0} BY <4>1
        <4>3. Append(s, e)[1] = s[1] /\ Append(s, e) # <<>> BY <4>1, <4>2
        <4>4. Head(Append(s, e)) = Append(s, e)[1] /\ Head(s) = s[1] BY <4>1, <4>2, <4>3
        <4> QED BY <4>2, <4>3, <4>4 DEF s, e
      <3>4. up[n + 1] \in Seq(T) /\ up[n + 1] # <<>> /\ Head(up[n + 1]) = list[k] BY <2>2, <3>2, <3>3
      <3> QED BY <2>1, <3>1, <3>4
    <2> QED BY <1>2, <1>4, <2>5, <2>6, <2>7
  <1>5. \A n \in 0..N : n \in A
    <2> HIDE DEF A
    <2> QED BY <1>2, <1>3, <1>4, UpTo
  <1>6. Good(N) /\ ~(N < k)
    BY <1>2, <1>5
  <1> QED BY <1>1, <1>6

\* The first item of a larger set is the first of a smaller one that has it.
LEMMA ItemsSameHead ==
  ASSUME NEW T, NEW list \in Seq(T), NEW S, NEW R, R \subseteq S,
         ItemsIn(list, S) # <<>>, Head(ItemsIn(list, S)) \in R
  PROVE  ItemsIn(list, R) # <<>> /\ Head(ItemsIn(list, R)) = Head(ItemsIn(list, S))
  <1> DEFINE K == {k \in DOMAIN list : list[k] \in S}
  <1>1. ItemsIn(list, S) \in Seq(T) /\ \A x : x \in ToSet(ItemsIn(list, S)) <=> x \in ToSet(list) /\ x \in S
    BY ItemsMembers
  <1>2. Head(ItemsIn(list, S)) \in ToSet(ItemsIn(list, S))
    <2>1. 1 \in DOMAIN ItemsIn(list, S) /\ Head(ItemsIn(list, S)) = ItemsIn(list, S)[1] BY <1>1
    <2> QED BY <2>1 DEF ToSet
  <1>3. K # {} /\ K \in SUBSET Nat
    <2>1. Head(ItemsIn(list, S)) \in ToSet(list) /\ Head(ItemsIn(list, S)) \in S BY <1>1, <1>2
    <2> QED BY <2>1 DEF ToSet
  <1>4. PICK k \in K : \A j \in K : k <= j
    <2> HIDE DEF K
    <2> QED BY <1>3, LeastNat
  <1>5. k \in DOMAIN list /\ list[k] \in S /\ \A j \in 1..(k - 1) : list[j] \notin S
    BY <1>4
  <1>6. Head(ItemsIn(list, S)) = list[k]
    BY <1>5, ItemsHead
  <1>7. list[k] \in R /\ \A j \in 1..(k - 1) : list[j] \notin R
    BY <1>5, <1>6
  <1> QED BY <1>5, <1>6, <1>7, ItemsHead

\* Nothing is kept if and only if the list has nothing of the set.
LEMMA ItemsNone ==
  ASSUME NEW T, NEW list \in Seq(T), NEW S
  PROVE  ItemsIn(list, S) = <<>> <=> ToSet(list) \cap S = {}
  <1>1. ItemsIn(list, S) \in Seq(T) /\ \A x : x \in ToSet(ItemsIn(list, S)) <=> x \in ToSet(list) /\ x \in S
    BY ItemsMembers
  <1>2. ItemsIn(list, S) = <<>> <=> ToSet(ItemsIn(list, S)) = {}
    <2>1. ItemsIn(list, S) # <<>> => ItemsIn(list, S)[1] \in ToSet(ItemsIn(list, S)) BY <1>1 DEF ToSet
    <2>2. ToSet(<<>>) = {} BY DEF ToSet
    <2> QED BY <2>1, <2>2
  <1> QED BY <1>1, <1>2


-------------------------------------------------------------------------------
(* A denial without a cause.                                               *)

\* The namespaces are listed by their names, each of them.
LEMMA SortedAre ==
  ASSUME NEW namespaces \in SUBSET Namespaces
  PROVE  /\ Sorted(namespaces) \in Seq(Namespaces) /\ ToSet(Sorted(namespaces)) = namespaces
         /\ namespaces # {} => Head(Sorted(namespaces)) \in namespaces
  <1>1. Alphabet \in Seq(Namespaces)
    BY IstioAssumption
  <1>2. Sorted(namespaces) \in Seq(Namespaces) /\ ToSet(Sorted(namespaces)) = namespaces
    <2>1. /\ ItemsIn(Alphabet, namespaces) \in Seq(Namespaces)
          /\ \A x : x \in ToSet(ItemsIn(Alphabet, namespaces)) <=> x \in ToSet(Alphabet) /\ x \in namespaces
      BY <1>1, ItemsMembers
    <2>2. ToSet(Alphabet) = Namespaces BY IstioAssumption
    <2> QED BY <2>1, <2>2 DEF Sorted
  <1>3. ASSUME namespaces # {} PROVE Head(Sorted(namespaces)) \in namespaces
    <2>1. Sorted(namespaces) # <<>>
      BY <1>2, <1>3 DEF ToSet
    <2>2. Head(Sorted(namespaces)) = Sorted(namespaces)[1] /\ 1 \in DOMAIN Sorted(namespaces)
      BY <1>2, <2>1
    <2> QED BY <1>2, <2>2 DEF ToSet
  <1> QED BY <1>2, <1>3

\* With every list read the policies taken for those of the targets are all that select
\* one of them.
LEMMA AllSelected ==
  ASSUME NEW config, NEW service, NEW targets, NEW source, PathReadable(config, service, targets, source),
         service.namespace \in Namespaces
  PROVE  /\ ~PartialList(config, "authorization", TargetPolicyNamespaces(config, service.namespace)).failed
         /\ \A x : x \in SelectingTargets(config, service, targets) <=>
                /\ x \in config.authorization /\ x.namespace \in {service.namespace, config.root} /\ ~x.dryRun
                /\ x.selects = None \/ x.selects \cap ToSet(targets) # {}
  <1> DEFINE namespaces == TargetPolicyNamespaces(config, service.namespace)
             outcome == config.lists["authorization"]
             lost == outcome[Head(Sorted(namespaces))] = "error"
             list == PartialList(config, "authorization", namespaces)
  <1>1. namespaces = {service.namespace, config.root}
    BY DEF TargetPolicyNamespaces, istioRootNamespace, PathReadable
  <1>2. namespaces \in SUBSET Namespaces /\ namespaces # {}
    BY <1>1 DEF PathReadable, Mesh
  <1>3. Head(Sorted(namespaces)) \in Namespaces
    <2> HIDE DEF namespaces
    <2> QED BY <1>2, SortedAre
  <1>4. \A n \in Namespaces : outcome[n] = "read"
    BY DEF PathReadable
  <1>5. ~lost
    BY <1>3, <1>4
  <1>6. /\ list.items = {x \in config.authorization : ~lost /\ x.namespace \in namespaces /\ outcome[x.namespace] = "read"}
        /\ list.failed <=> \E n \in namespaces : outcome[n] = "error"
    BY DEF PartialList
  <1>7. \A x \in config.authorization : x.namespace \in Namespaces /\ x.refs = "none"
    BY DEF PathReadable, Mesh, AuthorizationPolicy
  <1> HIDE DEF lost, outcome
  <1>8. ~list.failed
    BY <1>2, <1>4, <1>6
  <1>9. \A x : x \in list.items <=> x \in config.authorization /\ x.namespace \in {service.namespace, config.root}
    BY <1>1, <1>4, <1>5, <1>6, <1>7
  <1> HIDE DEF list, namespaces
  <1>10. SelectingTargets(config, service, targets) = {policy \in Enforced(list.items) : SelectsTarget(policy, targets)}
    BY DEF SelectingTargets, list, namespaces
  <1>11. \A x : x \in SelectingTargets(config, service, targets) <=>
             /\ x \in config.authorization /\ x.namespace \in {service.namespace, config.root} /\ ~x.dryRun
             /\ x.selects = None \/ x.selects \cap ToSet(targets) # {}
    BY <1>7, <1>9, <1>10 DEF Enforced, SelectsTarget
  <1> QED BY <1>8, <1>11 DEF list, namespaces

\* The policies for the targets are those of each of them, or of none.
Alike(config, targets) ==
    \A policy \in config.authorization :
        policy.selects # None => policy.selects \cap ToSet(targets) \in {{}, ToSet(targets)}

\* A denial by the proxy of a target is not called one without a cause, where the targets
\* have the same policies (istio_authz.go:48-70).
THEOREM DenialExplained ==
  ASSUME NEW config, NEW service, NEW targets, NEW source, NEW authority,
         PathReadable(config, service, targets, source), Alike(config, targets), service.namespace \in Namespaces,
         NEW pod \in ToSet(targets), AccessDenied(config, pod, service, source, authority)
  PROVE  Insight("Istio-authorization", "WARN", "Istio-unknown-denial")
           \notin inspectIstioAuthorizationPolicy(config, service.namespace, targets,
                                                 newIstioHTTPRequest(service, source, authority))
  <1> DEFINE r == newIstioHTTPRequest(service, source, authority)
             i == Insight("Istio-authorization", "WARN", "Istio-unknown-denial")
             selecting == SelectingTargets(config, service, targets)
             list == PartialList(config, "authorization", TargetPolicyNamespaces(config, service.namespace))
             jwt == inspectIstioRequestAuthentication(config, service.namespace, targets, "WARN")
             usesJWT == \E policy \in selecting : \E rule \in policy.rules : istioAuthorizationRuleUsesJWT(rule)
             Denied == \E policy \in selecting : policy.action = "DENY" /\ Matches(policy, r)
  <1>1. inspectIstioAuthorizationPolicy(config, service.namespace, targets, r) =
          (IF list.failed THEN ListWarning("error") ELSE {})
              \cup (IF list.failed /\ list.items = {} THEN {}
                    ELSE IF Denied THEN {Insight("Istio-authorization", "FAIL", "Istio-deny")}
                    ELSE (IF usesJWT THEN jwt.insights ELSE {})
                             \cup (IF usesJWT /\ jwt.found THEN {} ELSE {Explain(selecting, r)}))
    BY DEF inspectIstioAuthorizationPolicy, SelectingTargets
  <1>2. i \notin ListWarning("error")
    BY DEF ListWarning, Plain, Insight
  <1>3. i \notin jwt.insights
    BY <1>2 DEF inspectIstioRequestAuthentication, Insight
  <1>4. i # Insight("Istio-authorization", "FAIL", "Istio-deny")
    BY DEF Insight
  <1>5. \A x : x \in selecting <=>
            /\ x \in config.authorization /\ x.namespace \in {service.namespace, config.root} /\ ~x.dryRun
            /\ x.selects = None \/ x.selects \cap ToSet(targets) # {}
    BY AllSelected
  <1>6. NamespaceOf[pod] = service.namespace /\ pod \in config.sidecars
        /\ \A x \in config.authorization : x.refs = "none"
    BY DEF PathReadable
  <1> HIDE DEF selecting, r, i, list, jwt, usesJWT
  <1>7. \A action : \A x : x \in Enforcing(config, pod, action) <=> x \in selecting /\ x.action = action
    BY <1>5, <1>6 DEF Enforcing, Alike
  <1>8. \A x \in config.authorization : Matches(x, r) <=> PolicyHolds(config, x, pod, service, source, authority)
    BY PolicyRead DEF r
  <1>9. \A x \in selecting : x \in config.authorization
    BY <1>5
  <1>10. ASSUME ~Denied PROVE i # Explain(selecting, r)
    <2>1. CASE AllowsNothing(config, pod, service, source, authority)
      <3>1. istioAllowDefaultDeny(selecting, r)
        BY <1>7, <1>8, <1>9, <2>1 DEF AllowsNothing, Hits, istioAllowDefaultDeny
      <3> QED BY <3>1 DEF Explain, Insight, i
    <2>2. CASE Hits(config, "DENY", pod, service, source, authority)
      BY <1>7, <1>8, <1>9, <1>10, <2>2 DEF Hits
    <2>3. CASE Hits(config, "CUSTOM", pod, service, source, authority)
      <3>1. \E policy \in selecting : policy.action = "CUSTOM" /\ Matches(policy, r)
        BY <1>7, <1>8, <1>9, <2>3 DEF Hits
      <3> QED BY <3>1 DEF Explain, Insight, i
    <2> QED BY <2>1, <2>2, <2>3 DEF AccessDenied
  <1> HIDE DEF Denied
  <1> QED BY <1>1, <1>2, <1>3, <1>4, <1>10 DEF i, r


-------------------------------------------------------------------------------
(* Encryption.                                                             *)

\* An item that selects pods has a mode, one that does not has no ports.
PeersRead(config) ==
    \A i \in DOMAIN config.peers :
        IF config.peers[i].selects = None THEN config.peers[i].ports = {} ELSE config.peers[i].mode # "UNSET"

\* What the command reads of PeerAuthentications, and the port, are those of the targets.
PeersKnown(config, service, targets) ==
    /\ config \in Mesh /\ config.rootRead
    /\ \A n \in Namespaces : config.lists["peers"][n] = "read"
    /\ targets \in Seq(Pods) /\ service.namespace \in Namespaces
    /\ \A pod \in ToSet(targets) : pod \in config.sidecars /\ NamespaceOf[pod] = service.namespace
    /\ \A pod \in ToSet(targets) : TargetNumbers(Chosen(service).target, <<pod>>) = {WorkloadPort(service)}
    /\ PeersRead(config)

\* An item with a mode has one at each port, one without ports the same everywhere.
LEMMA ModeIs ==
  ASSUME NEW item \in PeerAuthentication, NEW port
  PROVE  /\ item.mode # "UNSET" => ModeAt(item, port) # "UNSET"
         /\ item.ports = {} => ModeAt(item, port) = item.mode
  <1> DEFINE own == {p.mode : p \in {q \in item.ports : q.port = port /\ q.mode # "UNSET"}}
  <1>1. "UNSET" \notin own
    OBVIOUS
  <1>2. item.ports = {} => own = {}
    OBVIOUS
  <1>3. ModeAt(item, port) = IF own = {} THEN item.mode ELSE CHOOSE mode \in own : TRUE
    BY DEF ModeAt
  <1> HIDE DEF own
  <1>4. own # {} => (CHOOSE mode \in own : TRUE) \in own
    OBVIOUS
  <1> QED BY <1>1, <1>2, <1>3, <1>4

\* The first of what is kept is in the list and in the set.
LEMMA HeadKept ==
  ASSUME NEW T, NEW list \in Seq(T), NEW S, ItemsIn(list, S) # <<>>
  PROVE  Head(ItemsIn(list, S)) \in T /\ Head(ItemsIn(list, S)) \in S /\ Head(ItemsIn(list, S)) \in ToSet(list)
  <1>1. ItemsIn(list, S) \in Seq(T) /\ \A x : x \in ToSet(ItemsIn(list, S)) <=> x \in ToSet(list) /\ x \in S
    BY ItemsMembers
  <1>2. 1 \in DOMAIN ItemsIn(list, S) /\ Head(ItemsIn(list, S)) = ItemsIn(list, S)[1] /\ ItemsIn(list, S)[1] \in T
    BY <1>1
  <1>3. Head(ItemsIn(list, S)) \in ToSet(ItemsIn(list, S))
    BY <1>2 DEF ToSet
  <1> QED BY <1>1, <1>2, <1>3

\* Where the command takes mutual TLS to be required, some target requires it at its
\* port (istio_mtls.go:177-282).
THEOREM StrictTrue ==
  ASSUME NEW config, NEW service, NEW targets, PeersKnown(config, service, targets),
         EffectiveMode(config, service, targets) = "STRICT"
  PROVE  \E pod \in ToSet(targets) : Strict(config, pod, service)
  <1> DEFINE port == WorkloadPort(service)
             home == service.namespace
             root == config.root
             peers == config.peers
             Here(namespace) == {item \in ToSet(peers) : item.namespace = namespace}
             OfTargets == {item \in Here(home) : item.selects # None /\ item.selects \cap ToSet(targets) # {}}
             OfPod(pod) == {item \in Here(home) : item.selects # None /\ pod \in item.selects}
             Wide(namespace) == ItemsIn(peers, NamespaceWide(Here(namespace)))
             A == ItemsIn(peers, OfTargets)
             own == A \o Wide(home)
  <1>1. peers \in Seq(PeerAuthentication) /\ home \in Namespaces /\ root \in Namespaces
    BY DEF PeersKnown, Mesh
  <1>2. \A n \in Namespaces : PeersOf(config, n) = Here(n)
    BY DEF PeersKnown, PeersOf
  <1>3. istioRootNamespace(config) = root
    BY DEF istioRootNamespace, PeersKnown
  <1>4. Selected(config, home, targets) = own
    BY <1>1, <1>2 DEF Selected
  <1>5. /\ targets # <<>>
        /\ IF own # <<>> /\ ModeAt(Head(own), port) # "UNSET" THEN ModeAt(Head(own), port) = "STRICT"
           ELSE root # home /\ Wide(root) # <<>> /\ ModeAt(Head(Wide(root)), port) = "STRICT"
    <2> HIDE DEF own, Here, port
    <2>1. EffectiveMode(config, service, targets) =
            IF targets = <<>> THEN "UNSET"
            ELSE IF own # <<>> /\ ModeAt(Head(own), port) # "UNSET" THEN ModeAt(Head(own), port)
            ELSE IF root # home /\ Wide(root) # <<>> THEN ModeAt(Head(Wide(root)), port) ELSE "UNSET"
      BY <1>1, <1>2, <1>3, <1>4 DEF EffectiveMode, port
    <2> HIDE DEF Wide
    <2> QED BY <2>1
  <1>6. \A pod \in ToSet(targets) : TrueMode(config, pod, port) =
            FirstMode(ItemsIn(peers, OfPod(pod)), port,
                      FirstMode(Wide(home), 0, FirstMode(Wide(root), 0, "PERMISSIVE")))
    <2> SUFFICES ASSUME NEW pod \in ToSet(targets)
                 PROVE  TrueMode(config, pod, port) =
                            FirstMode(ItemsIn(peers, OfPod(pod)), port,
                                      FirstMode(Wide(home), 0, FirstMode(Wide(root), 0, "PERMISSIVE")))
      OBVIOUS
    <2>1. NamespaceOf[pod] = home BY DEF PeersKnown
    <2> QED BY <2>1 DEF TrueMode
  <1>7. \A pod \in ToSet(targets) : TrueMode(config, pod, port) = "STRICT" => Strict(config, pod, service)
    BY DEF Strict, PeersKnown
  <1>8. \A item \in ToSet(peers) :
            /\ item \in PeerAuthentication
            /\ item.selects = None => item.ports = {}
            /\ item.selects # None => item.mode # "UNSET"
    BY <1>1 DEF PeersKnown, PeersRead, ToSet
  <1>9. \A n \in Namespaces : Wide(n) # <<>> => ModeAt(Head(Wide(n)), port) = ModeAt(Head(Wide(n)), 0)
    <2> SUFFICES ASSUME NEW n \in Namespaces, Wide(n) # <<>>
                 PROVE  ModeAt(Head(Wide(n)), port) = ModeAt(Head(Wide(n)), 0)
      OBVIOUS
    <2> DEFINE x == Head(Wide(n))
    <2>1. x \in NamespaceWide(Here(n)) /\ x \in ToSet(peers) /\ x \in PeerAuthentication
      <3> HIDE DEF Here, peers
      <3> QED BY <1>1, HeadKept
    <2>2. x.ports = {}
      <3> HIDE DEF x
      <3> QED BY <1>8, <2>1 DEF NamespaceWide
    <2> HIDE DEF x
    <2>3. \A q : ModeAt(x, q) = x.mode BY <2>1, <2>2, ModeIs
    <2> QED BY <2>3 DEF x
  <1>10. CASE A # <<>>
    <2> DEFINE h == Head(A)
    <2>1. h \in OfTargets /\ h \in ToSet(peers)
      <3> HIDE DEF OfTargets, peers
      <3> QED BY <1>1, <1>10, HeadKept
    <2>2. h \in PeerAuthentication /\ h.mode # "UNSET"
      <3> HIDE DEF h
      <3> QED BY <1>8, <2>1
    <2>3. PICK pod \in ToSet(targets) : pod \in h.selects
      <3> HIDE DEF h
      <3> QED BY <2>1
    <2>4. h \in OfPod(pod) /\ OfPod(pod) \subseteq OfTargets
      <3> HIDE DEF h
      <3> QED BY <2>1, <2>3
    <2>5. ItemsIn(peers, OfPod(pod)) # <<>> /\ Head(ItemsIn(peers, OfPod(pod))) = h
      <3> HIDE DEF OfPod, OfTargets, peers
      <3> QED BY <1>1, <1>10, <2>4, ItemsSameHead
    <2>6. A \in Seq(PeerAuthentication) /\ Wide(home) \in Seq(PeerAuthentication)
      <3> HIDE DEF OfTargets, Here, peers
      <3> QED BY <1>1, ItemsMembers
    <2>7. own # <<>> /\ Head(own) = h
      <3> HIDE DEF A, Wide
      <3> QED BY <1>10, <2>6
    <2> HIDE DEF h, own, A, Wide, OfPod
    <2>8. ModeAt(h, port) # "UNSET" BY <2>2, ModeIs
    <2>9. ModeAt(h, port) = "STRICT" BY <1>5, <2>7, <2>8
    <2>10. TrueMode(config, pod, port) = "STRICT" BY <1>6, <2>5, <2>8, <2>9 DEF FirstMode
    <2> QED BY <1>7, <2>10
  <1>11. CASE A = <<>>
    <2>1. PICK pod \in ToSet(targets) : TRUE
      <3>1. targets[1] \in ToSet(targets) BY <1>5 DEF PeersKnown, ToSet
      <3> QED BY <3>1
    <2>2. ItemsIn(peers, OfPod(pod)) = <<>>
      <3>1. OfPod(pod) \subseteq OfTargets BY <2>1
      <3> HIDE DEF OfPod, OfTargets, peers
      <3> QED BY <1>1, <1>11, <3>1, ItemsNone
    <2>3. Wide(home) \in Seq(PeerAuthentication)
      <3> HIDE DEF Here, peers
      <3> QED BY <1>1, ItemsMembers
    <2>4. own = Wide(home)
      <3> HIDE DEF A, Wide
      <3> QED BY <1>11, <2>3
    <2> HIDE DEF own, A, Wide, OfPod
    <2>5. TrueMode(config, pod, port) = FirstMode(Wide(home), 0, FirstMode(Wide(root), 0, "PERMISSIVE"))
      BY <1>6, <2>1, <2>2 DEF FirstMode
    <2>6. TrueMode(config, pod, port) = "STRICT" BY <1>1, <1>5, <1>9, <2>4, <2>5 DEF FirstMode
    <2> QED BY <1>7, <2>1, <2>6
  <1> QED BY <1>10, <1>11


-------------------------------------------------------------------------------
(* Routes.                                                                 *)

FoundRoute == [home : Namespaces, route : Route]

\* One route, to the Service alone, and one DestinationRule, which the command lists.
RoutesKnown(config, service, r) ==
    /\ config \in Mesh /\ service.namespace \in Namespaces /\ r.source \in Pods
    /\ \A kind \in {"virtualServices", "destinationRules"}, n \in Namespaces : config.lists[kind][n] = "read"
    /\ \A item \in ToSet(config.virtualServices) \cup ToSet(config.destinationRules) :
          item.namespace \in ConfigNamespaces(service, r.source)
    /\ Len(RoutesFor(Hosting(config, service, r.source), r)) <= 1
    /\ \A found \in ToSet(RoutesFor(Hosting(config, service, r.source), r)) :
          /\ found.route.destinations # <<>>
          /\ \A d \in ToSet(found.route.destinations) : HostMatches(d.host, found.home, service) /\ d.weight > 0

\* The command finds the objects that the proxy of the source has.
LEMMA ListsAre ==
  ASSUME NEW config, NEW service, NEW r, RoutesKnown(config, service, r)
  PROVE  /\ VirtualServices(config, service, r.source).outcome = "read"
         /\ VirtualServices(config, service, r.source).items = Hosting(config, service, r.source)
         /\ DestinationRules(config, service, r.source).outcome = "read"
         /\ DestinationRules(config, service, r.source).items = RulesFor(config, service, r.source)
  <1> DEFINE near == ConfigNamespaces(service, r.source)
             vss == config.virtualServices
             drs == config.destinationRules
  <1>1. near \in SUBSET Namespaces
    BY WorldAssumption DEF RoutesKnown, ConfigNamespaces
  <1>2. /\ {n \in near : config.lists["virtualServices"][n] # "read"} = {}
        /\ {n \in near : config.lists["destinationRules"][n] # "read"} = {}
    <2> HIDE DEF near
    <2> QED BY <1>1 DEF RoutesKnown
  <1>3. /\ {x \in ToSet(vss) : x.namespace \in near} = ToSet(vss)
        /\ {x \in ToSet(drs) : x.namespace \in near} = ToSet(drs)
    BY DEF RoutesKnown
  <1> HIDE DEF near
  <1>4. WholeList(config, "virtualServices", near) = [outcome |-> "read", items |-> ToSet(vss)]
    BY <1>2, <1>3 DEF WholeList
  <1>5. WholeList(config, "destinationRules", near) = [outcome |-> "read", items |-> ToSet(drs)]
    BY <1>2, <1>3 DEF WholeList
  <1>6. /\ VirtualServices(config, service, r.source).outcome = "read"
        /\ VirtualServices(config, service, r.source).items = Hosting(config, service, r.source)
    BY <1>4 DEF VirtualServices, Hosting, near
  <1>7. /\ DestinationRules(config, service, r.source).outcome = "read"
        /\ DestinationRules(config, service, r.source).items = RulesFor(config, service, r.source)
    <2> DEFINE list == WholeList(config, "destinationRules", near)
    <2>1. DestinationRules(config, service, r.source) =
            [outcome |-> list.outcome,
             items |-> ItemsIn(drs, {dr \in list.items : Visible(dr, r.source) /\ HostMatches(dr.host, dr.namespace, service)})]
      BY Zenon DEF DestinationRules, near
    <2>2. list.outcome = "read" /\ list.items = ToSet(drs)
      BY <1>5
    <2> HIDE DEF list
    <2> QED BY <2>1, <2>2 DEF RulesFor
  <1> QED BY <1>6, <1>7

LEMMA RoutesOfTyped ==
  ASSUME NEW vs \in VirtualService, NEW r
  PROVE  RoutesOf(vs, r) \in Seq(FoundRoute)
  <1> DEFINE routes == ItemsIn(vs.http, {route \in ToSet(vs.http) : RouteMatches(route, r)})
  <1>1. vs.http \in Seq(Route) /\ vs.namespace \in Namespaces
    BY DEF VirtualService
  <1>2. routes \in Seq(Route)
    BY <1>1, ItemsMembers
  <1>3. RoutesOf(vs, r) = [i \in DOMAIN routes |-> [home |-> vs.namespace, route |-> routes[i]]]
    BY DEF RoutesOf
  <1> HIDE DEF routes
  <1>4. \A i \in DOMAIN routes : [home |-> vs.namespace, route |-> routes[i]] \in FoundRoute
    BY <1>1, <1>2 DEF FoundRoute
  <1>5. DOMAIN routes = 1..Len(routes) /\ Len(routes) \in Nat
    BY <1>2
  <1> QED BY <1>3, <1>4, <1>5

LEMMA RoutesTyped ==
  ASSUME NEW list \in Seq(VirtualService), NEW r
  PROVE  RoutesFor(list, r) \in Seq(FoundRoute)
  <1> DEFINE ss == [i \in DOMAIN list |-> RoutesOf(list[i], r)]
  <1>1. \A i \in DOMAIN list : RoutesOf(list[i], r) \in Seq(FoundRoute)
    BY RoutesOfTyped
  <1>2. ss \in Seq(Seq(FoundRoute))
    <2>1. DOMAIN list = 1..Len(list) /\ Len(list) \in Nat OBVIOUS
    <2> QED BY <1>1, <2>1
  <1> HIDE DEF ss
  <1>3. FlattenSeq(ss) \in Seq(FoundRoute)
    BY <1>2, FlattenMembers
  <1> QED BY <1>3 DEF RoutesFor, ss

LEMMA HostingTyped ==
  ASSUME NEW config \in Mesh, NEW service, NEW source
  PROVE  /\ Hosting(config, service, source) \in Seq(VirtualService)
         /\ RulesFor(config, service, source) \in Seq(DestinationRule)
  <1>1. config.virtualServices \in Seq(VirtualService) /\ config.destinationRules \in Seq(DestinationRule)
    BY DEF Mesh
  <1> QED BY <1>1, ItemsMembers DEF Hosting, RulesFor

\* The destinations that are the Service are those of the route.
LEMMA DestinationsAre ==
  ASSUME NEW found \in FoundRoute, NEW service
  PROVE  /\ ServiceDestinations(found, service) \in Seq(Destination)
         /\ \A d : d \in ToSet(ServiceDestinations(found, service)) <=>
                d \in ToSet(found.route.destinations) /\ HostMatches(d.host, found.home, service)
  <1> DEFINE list == found.route.destinations
             S == {d \in ToSet(list) : HostMatches(d.host, found.home, service)}
  <1>1. list \in Seq(Destination)
    BY DEF FoundRoute, Route
  <1>2. ServiceDestinations(found, service) = ItemsIn(list, S)
    BY DEF ServiceDestinations
  <1>3. \A d : d \in S <=> d \in ToSet(list) /\ HostMatches(d.host, found.home, service)
    OBVIOUS
  <1> HIDE DEF list, S
  <1>4. /\ ItemsIn(list, S) \in Seq(Destination)
        /\ \A d : d \in ToSet(ItemsIn(list, S)) <=> d \in ToSet(list) /\ d \in S
    BY <1>1, ItemsMembers
  <1> QED BY <1>2, <1>3, <1>4 DEF list

\* Without a choice of routes the one that is found is the one that is taken, with all of
\* its destinations.
LEMMA OnlyRoute ==
  ASSUME NEW config, NEW service, NEW r, RoutesKnown(config, service, r),
         NEW found \in ToSet(RoutesFor(Hosting(config, service, r.source), r))
  PROVE  /\ found \in FoundRoute /\ TakenRoute(config, service, r) = <<found>>
         /\ Taken(config, service, r) = ToSet(ServiceDestinations(found, service))
         /\ ToSet(ServiceDestinations(found, service)) = ToSet(found.route.destinations)
         /\ found.route.destinations # <<>>
  <1> DEFINE routes == RoutesFor(Hosting(config, service, r.source), r)
  <1>1. routes \in Seq(FoundRoute) /\ Len(routes) <= 1
    BY HostingTyped, RoutesTyped DEF RoutesKnown
  <1>2. /\ found.route.destinations # <<>>
        /\ \A d \in ToSet(found.route.destinations) : HostMatches(d.host, found.home, service) /\ d.weight > 0
    BY DEF RoutesKnown
  <1>3. TakenRoute(config, service, r) = IF routes = <<>> THEN <<>> ELSE <<Head(routes)>>
    BY DEF TakenRoute
  <1>4. found \in ToSet(routes)
    OBVIOUS
  <1> HIDE DEF routes
  <1>5. routes # <<>> /\ Head(routes) = found /\ found \in FoundRoute
    <2>1. PICK i \in 1..Len(routes) : found = routes[i] BY <1>1, <1>4 DEF ToSet
    <2>0. Len(routes) \in Nat /\ Len(routes) <= 1 BY <1>1
    <2>2. i = 1 /\ Len(routes) = 1
      <3> DEFINE n == Len(routes)
      <3>1. n \in Nat /\ n <= 1 /\ i \in 1..n BY <2>0, <2>1
      <3> HIDE DEF n
      <3>2. i = 1 /\ n = 1 BY <3>1
      <3> QED BY <3>2 DEF n
    <2> QED BY <1>1, <2>1, <2>2
  <1>6. TakenRoute(config, service, r) = <<found>>
    BY <1>3, <1>5
  <1>7. \A d : d \in ToSet(ServiceDestinations(found, service)) <=>
             d \in ToSet(found.route.destinations) /\ HostMatches(d.host, found.home, service)
    BY <1>5, DestinationsAre
  <1>8. ToSet(<<found>>) = {found}
    BY DEF ToSet
  <1>9. Taken(config, service, r) =
            {d \in ToSet(ServiceDestinations(found, service)) : d.weight > 0 \/ Len(found.route.destinations) = 1}
    BY <1>6, <1>8 DEF Taken
  <1> QED BY <1>2, <1>5, <1>6, <1>7, <1>9

\* Envoy without an upstream: a subset of the Service that a route goes to is named
\* where there is a DestinationRule and none of its pods, or no such subset.
LEMMA RoutingIs ==
  ASSUME NEW config, NEW service, NEW targets, NEW r, RoutesKnown(config, service, r)
  PROVE  inspectIstioTrafficRouting(config, service, targets, r) =
           IF /\ RulesFor(config, service, r.source) # <<>>
              /\ \E found \in ToSet(RoutesFor(Hosting(config, service, r.source), r)) :
                    \E d \in ToSet(ServiceDestinations(found, service)) : Dead(config, d, service, targets, r.source)
           THEN {Insight("Istio-routing", "FAIL", "Istio-subset")}
           ELSE {Insight("Istio-routing", "WARN", "Istio-unknown-upstream")}
  <1> DEFINE vss == VirtualServices(config, service, r.source)
             drs == DestinationRules(config, service, r.source)
             rules == RulesFor(config, service, r.source)
             routes == RoutesFor(Hosting(config, service, r.source), r)
             Routed == UNION {ToSet(ServiceDestinations(found, service)) : found \in ToSet(routes)}
             Broken(d) == /\ d.subset # 0 /\ rules # <<>>
                          /\ \/ Subsets(Head(rules), d.subset) = <<>>
                             \/ ~HasReady(config, Head(rules), d.subset, targets)
  <1>1. /\ vss.outcome = "read" /\ vss.items = Hosting(config, service, r.source)
        /\ drs.outcome = "read" /\ drs.items = rules
    BY ListsAre
  <1>2. inspectIstioTrafficRouting(config, service, targets, r) =
          IF \E d \in Routed : Broken(d) THEN {Insight("Istio-routing", "FAIL", "Istio-subset")}
          ELSE {Insight("Istio-routing", "WARN", "Istio-unknown-upstream")}
    BY <1>1 DEF inspectIstioTrafficRouting
  <1>3. \A d : Broken(d) <=> rules # <<>> /\ Dead(config, d, service, targets, r.source)
    BY DEF Dead
  <1>4. \A d : d \in Routed <=> \E found \in ToSet(routes) : d \in ToSet(ServiceDestinations(found, service))
    OBVIOUS
  <1> HIDE DEF Broken, Routed, rules, routes
  <1>5. (\E d \in Routed : Broken(d)) <=>
            /\ rules # <<>>
            /\ \E found \in ToSet(routes) :
                  \E d \in ToSet(ServiceDestinations(found, service)) : Dead(config, d, service, targets, r.source)
    BY <1>3, <1>4
  <1> QED BY <1>2, <1>5 DEF rules, routes

\* A subset that is blamed is one that requests are sent to, and is dead
\* (istio_traffic.go:20-79).
THEOREM SubsetTrue ==
  ASSUME NEW config, NEW service, NEW targets, NEW r, RoutesKnown(config, service, r),
         Insight("Istio-routing", "FAIL", "Istio-subset") \in inspectIstioTrafficRouting(config, service, targets, r)
  PROVE  \E d \in Taken(config, service, r) : Dead(config, d, service, targets, r.source)
  <1>1. Insight("Istio-routing", "FAIL", "Istio-subset") # Insight("Istio-routing", "WARN", "Istio-unknown-upstream")
    BY DEF Insight
  <1>2. PICK found \in ToSet(RoutesFor(Hosting(config, service, r.source), r)) :
          \E d \in ToSet(ServiceDestinations(found, service)) : Dead(config, d, service, targets, r.source)
    BY <1>1, RoutingIs
  <1>3. Taken(config, service, r) = ToSet(ServiceDestinations(found, service))
    BY OnlyRoute
  <1> QED BY <1>2, <1>3

\* An upstream that is missing is not called unknown where a subset of the DestinationRule
\* that requests are sent to is dead (istio_traffic.go:40-79).
THEOREM UpstreamExplained ==
  ASSUME NEW config, NEW service, NEW targets, NEW r, RoutesKnown(config, service, r),
         RulesFor(config, service, r.source) # <<>>,
         NEW d \in Taken(config, service, r), Dead(config, d, service, targets, r.source)
  PROVE  Insight("Istio-routing", "WARN", "Istio-unknown-upstream")
           \notin inspectIstioTrafficRouting(config, service, targets, r)
  <1> DEFINE routes == RoutesFor(Hosting(config, service, r.source), r)
  <1>1. Insight("Istio-routing", "FAIL", "Istio-subset") # Insight("Istio-routing", "WARN", "Istio-unknown-upstream")
    BY DEF Insight
  <1>2. PICK found \in ToSet(TakenRoute(config, service, r)) : d \in ToSet(ServiceDestinations(found, service))
    BY DEF Taken
  <1>3. routes \in Seq(FoundRoute)
    BY HostingTyped, RoutesTyped DEF RoutesKnown
  <1>4. TakenRoute(config, service, r) = IF routes = <<>> THEN <<>> ELSE <<Head(routes)>>
    BY DEF TakenRoute
  <1> HIDE DEF routes
  <1>5. found \in ToSet(routes)
    <2>1. ToSet(<<>>) = {} /\ ToSet(<<Head(routes)>>) = {Head(routes)} BY DEF ToSet
    <2>2. routes # <<>> /\ found = Head(routes) BY <1>2, <1>4, <2>1
    <2>3. 1 \in DOMAIN routes /\ Head(routes) = routes[1] BY <1>3, <2>2
    <2> QED BY <2>2, <2>3 DEF ToSet
  <1> QED BY <1>1, <1>2, <1>5, RoutingIs DEF routes

\* What a route is told to do is that of the route which is taken (istio_traffic.go:136-232).
THEOREM ToldTrue ==
  ASSUME NEW config, NEW service, NEW r, NEW response, RoutesKnown(config, service, r),
         NEW i \in inspectIstioIntentionalRouteBehavior(config, service, r, response).insights
  PROVE  LET route == Head(TakenRoute(config, service, r)).route
         IN  /\ i.diagnosis = "Istio-direct-response" => route.direct # 0
             /\ i.diagnosis = "Istio-abort" => route.abort.percent > 0
  <1> DEFINE vss == VirtualServices(config, service, r.source)
             routes == RoutesFor(Hosting(config, service, r.source), r)
             shown == {k \in DOMAIN routes : Shown(routes[k], response) # Untold}
             first == CHOOSE k \in shown : \A j \in shown : k <= j
  <1>1. vss.outcome = "read" /\ vss.items = Hosting(config, service, r.source)
    BY ListsAre
  <1>2. inspectIstioIntentionalRouteBehavior(config, service, r, response) =
          IF shown = {} THEN Untold ELSE Shown(routes[first], response)
    BY <1>1 DEF inspectIstioIntentionalRouteBehavior
  <1>3. routes \in Seq(FoundRoute)
    BY HostingTyped, RoutesTyped DEF RoutesKnown
  <1>4. shown # {}
    <2>1. Untold.insights = {} BY DEF Untold
    <2>2. i \in Untold.insights \/ shown # {}
      <3> HIDE DEF shown, first, routes, vss
      <3> QED BY <1>2
    <2> QED BY <2>1, <2>2
  <1>5. first \in DOMAIN routes
    <2>1. shown \in SUBSET Nat
      <3> HIDE DEF routes
      <3> QED BY <1>3
    <2> HIDE DEF shown
    <2>2. \E k \in shown : \A j \in shown : k <= j BY <1>4, <2>1, LeastNat
    <2>3. first \in shown BY <2>2
    <2> QED BY <2>3 DEF shown
  <1> DEFINE found == routes[first]
             route == found.route
  <1>6. found \in ToSet(routes)
    <2> HIDE DEF first, routes
    <2> QED BY <1>5 DEF ToSet
  <1>7. found \in FoundRoute /\ TakenRoute(config, service, r) = <<found>>
    BY <1>6, OnlyRoute
  <1>8. i \in Shown(found, response).insights
    BY <1>2, <1>4
  <1> HIDE DEF found, first, routes, shown
  <1>9. route \in Route /\ Head(TakenRoute(config, service, r)).route = route
    BY <1>7 DEF FoundRoute
  <1>10. route.abort.percent \in 0..100
    BY <1>9 DEF Route
  <1>11. i.diagnosis = "Istio-direct-response" => route.direct # 0
    <2> QED BY <1>8 DEF Shown, Told, Untold, Insight
  <1>12. i.diagnosis = "Istio-abort" => route.abort.percent # 0
    <2> QED BY <1>8 DEF Shown, Told, Untold, Insight
  <1> QED BY <1>9, <1>10, <1>11, <1>12

\* Where the policy of a subset says nothing, and where there is none, that of the rule
\* counts.
LEMMA TLSIs ==
  ASSUME NEW dr \in DestinationRule, NEW name, NEW port
  PROVE  /\ TLSFor(dr, name, port) \in TLSMode
         /\ TLSFor(dr, name, port) = None => TLSFor(dr, 0, port) = None
  <1> DEFINE named == Subsets(dr, name)
  <1>1. ASSUME NEW policy \in TrafficPolicy PROVE PolicyTLS(policy, port) \in TLSMode
    <2> DEFINE own == {p.tls : p \in {q \in policy.ports : q.port = port /\ q.tls # None}}
    <2>1. PolicyTLS(policy, port) = IF own = {} THEN policy.tls ELSE CHOOSE tls \in own : TRUE
      BY DEF PolicyTLS
    <2>2. own \subseteq TLSMode /\ policy.tls \in TLSMode
      BY DEF TrafficPolicy
    <2> HIDE DEF own
    <2>3. own # {} => (CHOOSE tls \in own : TRUE) \in own
      OBVIOUS
    <2> QED BY <2>1, <2>2, <2>3
  <1>2. dr.policy \in TrafficPolicy /\ dr.subsets \in Seq(Subset)
    BY DEF DestinationRule
  <1>3. named # <<>> => Head(named).policy \in TrafficPolicy
    <2>1. named # <<>> => Head(named) \in Subset
      BY <1>2, HeadKept DEF Subsets
    <2> HIDE DEF named
    <2> QED BY <2>1 DEF Subset
  <1> DEFINE own == IF name = 0 \/ named = <<>> THEN None ELSE PolicyTLS(Head(named).policy, port)
  <1>4. TLSFor(dr, name, port) = IF own # None THEN own ELSE PolicyTLS(dr.policy, port)
    BY DEF TLSFor
  <1>5. TLSFor(dr, 0, port) = PolicyTLS(dr.policy, port)
    BY DEF TLSFor
  <1>6. own \in TLSMode
    <2>1. None \in TLSMode BY DEF TLSMode
    <2> HIDE DEF named
    <2> QED BY <1>1, <1>3, <2>1
  <1> HIDE DEF own
  <1> QED BY <1>1, <1>2, <1>4, <1>5, <1>6

\* A setting of TLS that the command finds for a request is that of a subset which the
\* request is sent to, or of the rule where there is no route.
LEMMA SettingTaken ==
  ASSUME NEW config, NEW service, NEW r, RoutesKnown(config, service, r), r.port = Chosen(service).port,
         RequestTLS(config, service, r) \notin {None, "ISTIO_MUTUAL"}
  PROVE  \E subset \in IF TakenRoute(config, service, r) = <<>> THEN {0}
                       ELSE {d.subset : d \in Taken(config, service, r)} :
             PlainText(config, subset, service, r.source)
  <1> DEFINE rules == RulesFor(config, service, r.source)
             routes == RoutesFor(Hosting(config, service, r.source), r)
             lists == [i \in DOMAIN routes |-> ServiceDestinations(routes[i], service)]
             destinations == FlattenSeq(lists)
             settings == [i \in DOMAIN destinations |-> TLSFor(Head(rules), destinations[i].subset, r.port)]
             modes == ItemsIn(settings, TLSMode \ {None})
             chosen == TakenRoute(config, service, r)
             taken == Taken(config, service, r)
  <1>1. /\ VirtualServices(config, service, r.source).items = Hosting(config, service, r.source)
        /\ DestinationRules(config, service, r.source).items = rules
    BY ListsAre
  <1>2. RequestTLS(config, service, r) =
          IF rules = <<>> THEN None ELSE IF modes # <<>> THEN Head(modes) ELSE TLSFor(Head(rules), 0, r.port)
    BY <1>1 DEF RequestTLS
  <1>3. rules # <<>> /\ (IF modes # <<>> THEN Head(modes) ELSE TLSFor(Head(rules), 0, r.port)) \notin {None, "ISTIO_MUTUAL"}
    <2> HIDE DEF rules, modes
    <2> QED BY <1>2
  <1>4. routes \in Seq(FoundRoute) /\ rules \in Seq(DestinationRule)
    BY HostingTyped, RoutesTyped DEF RoutesKnown
  <1>5. Head(rules) \in DestinationRule
    <2> HIDE DEF rules
    <2> QED BY <1>3, <1>4
  <1>6. chosen = IF routes = <<>> THEN <<>> ELSE <<Head(routes)>>
    BY DEF TakenRoute
  <1>7. \A found \in ToSet(routes) :
            /\ found \in FoundRoute /\ chosen = <<found>> /\ taken = ToSet(ServiceDestinations(found, service))
            /\ taken # {}
    <2> SUFFICES ASSUME NEW found \in ToSet(routes)
                 PROVE  /\ found \in FoundRoute /\ chosen = <<found>> /\ taken = ToSet(ServiceDestinations(found, service))
                        /\ taken # {}
      OBVIOUS
    <2>1. /\ found \in FoundRoute /\ chosen = <<found>> /\ taken = ToSet(ServiceDestinations(found, service))
          /\ taken = ToSet(found.route.destinations) /\ found.route.destinations # <<>>
      BY OnlyRoute
    <2>2. found.route.destinations \in Seq(Destination)
      BY <2>1 DEF FoundRoute, Route
    <2>3. found.route.destinations[1] \in ToSet(found.route.destinations)
      BY <2>1, <2>2 DEF ToSet
    <2> QED BY <2>1, <2>3
  <1>8. \A subset : TLSFor(Head(rules), subset, r.port) \notin {None, "ISTIO_MUTUAL"}
                        => PlainText(config, subset, service, r.source)
    BY <1>3 DEF PlainText
  <1> HIDE DEF rules, routes, chosen, taken
  <1>9. lists \in Seq(Seq(Destination))
    <2>1. \A i \in DOMAIN routes : ServiceDestinations(routes[i], service) \in Seq(Destination)
      BY <1>4, DestinationsAre
    <2>2. DOMAIN routes = 1..Len(routes) /\ Len(routes) \in Nat
      BY <1>4
    <2> QED BY <2>1, <2>2
  <1>10. /\ destinations \in Seq(Destination)
         /\ \A d : d \in ToSet(destinations) <=> \E i \in DOMAIN lists : d \in ToSet(lists[i])
    <2> HIDE DEF lists
    <2> QED BY <1>9, FlattenMembers
  <1>11. \A d \in ToSet(destinations) : d \in taken /\ chosen # <<>>
    <2> SUFFICES ASSUME NEW d \in ToSet(destinations) PROVE d \in taken /\ chosen # <<>>
      OBVIOUS
    <2>1. PICK i \in DOMAIN routes : d \in ToSet(ServiceDestinations(routes[i], service))
      BY <1>10
    <2>2. routes[i] \in ToSet(routes)
      BY DEF ToSet
    <2> QED BY <1>7, <2>1, <2>2
  <1>12. ASSUME routes # <<>> PROVE \A d \in taken : d \in ToSet(destinations)
    <2>1. 1 \in DOMAIN routes
      BY <1>4, <1>12
    <2>2. routes[1] \in ToSet(routes)
      BY <2>1 DEF ToSet
    <2>3. taken = ToSet(ServiceDestinations(routes[1], service))
      BY <1>7, <2>2
    <2>4. lists[1] = ServiceDestinations(routes[1], service) /\ 1 \in DOMAIN lists
      BY <2>1
    <2> HIDE DEF lists
    <2> QED BY <1>10, <2>3, <2>4
  <1> HIDE DEF destinations
  <1>13. settings \in Seq(TLSMode)
    <2>1. \A i \in DOMAIN destinations : TLSFor(Head(rules), destinations[i].subset, r.port) \in TLSMode
      BY <1>5, TLSIs
    <2>2. DOMAIN destinations = 1..Len(destinations) /\ Len(destinations) \in Nat
      BY <1>10
    <2> QED BY <2>1, <2>2
  <1>14. \A i \in DOMAIN destinations : destinations[i] \in ToSet(destinations)
    BY DEF ToSet
  <1>15. CASE modes # <<>>
    <2>1. Head(modes) \in ToSet(settings)
      <3> HIDE DEF settings
      <3> QED BY <1>13, <1>15, HeadKept
    <2>2. PICK i \in DOMAIN settings : Head(modes) = settings[i]
      <3> HIDE DEF settings, modes
      <3> QED BY <2>1 DEF ToSet
    <2> HIDE DEF modes
    <2>3. i \in DOMAIN destinations /\ Head(modes) = TLSFor(Head(rules), destinations[i].subset, r.port)
      BY <2>2
    <2>4. destinations[i] \in taken /\ chosen # <<>>
      BY <1>11, <1>14, <2>3
    <2>5. PlainText(config, destinations[i].subset, service, r.source)
      BY <1>3, <1>8, <1>15, <2>3
    <2> QED BY <2>4, <2>5 DEF chosen, taken
  <1>16. CASE modes = <<>>
    <2>1. TLSFor(Head(rules), 0, r.port) \notin {None, "ISTIO_MUTUAL"}
      <3> HIDE DEF modes
      <3> QED BY <1>3, <1>16
    <2>2. PlainText(config, 0, service, r.source)
      BY <1>8, <2>1
    <2>3. chosen = <<>>
      <3> SUFFICES ASSUME chosen # <<>> PROVE FALSE
        OBVIOUS
      <3>1. routes # <<>> BY <1>6
      <3>2. routes[1] \in ToSet(routes) BY <1>4, <3>1 DEF ToSet
      <3>3. PICK d \in taken : TRUE BY <1>7, <3>2
      <3>4. d \in ToSet(destinations) BY <1>12, <3>1
      <3>5. PICK i \in DOMAIN destinations : d = destinations[i] BY <3>4 DEF ToSet
      <3>6. settings[i] \in ToSet(settings) /\ settings[i] = TLSFor(Head(rules), d.subset, r.port)
        <4>1. i \in DOMAIN settings OBVIOUS
        <4>2. settings[i] = TLSFor(Head(rules), d.subset, r.port) BY <3>5
        <4> HIDE DEF settings
        <4> QED BY <4>1, <4>2 DEF ToSet
      <3>7. settings[i] \notin TLSMode \ {None}
        <4> DEFINE S == TLSMode \ {None}
        <4> HIDE DEF settings, S
        <4>1. modes = ItemsIn(settings, S) BY DEF S
        <4> HIDE DEF modes
        <4>2. \A x : x \in ToSet(ItemsIn(settings, S)) <=> x \in ToSet(settings) /\ x \in S
          BY <1>13, ItemsMembers
        <4>3. ToSet(<<>>) = {} BY DEF ToSet
        <4>4. settings[i] \notin S BY <1>16, <3>6, <4>1, <4>2, <4>3
        <4> QED BY <4>4 DEF S
      <3>8. TLSFor(Head(rules), d.subset, r.port) = None
        <4>1. TLSFor(Head(rules), d.subset, r.port) \in TLSMode BY <1>5, TLSIs
        <4> QED BY <3>6, <3>7, <4>1
      <3> QED BY <1>5, <2>1, <3>8, TLSIs
    <2> QED BY <2>2, <2>3 DEF chosen
  <1> QED BY <1>15, <1>16

\* Where a DestinationRule is blamed for a connection that was reset, a target requires
\* mutual TLS, and the rule sets something else for a subset that requests are sent to
\* (istio_mtls.go:64-175).
THEOREM DestinationRuleTrue ==
  ASSUME NEW config, NEW service, NEW targets, NEW r, PeersKnown(config, service, targets),
         RoutesKnown(config, service, r), r.port = Chosen(service).port,
         inspectIstioDestinationRuleMTLSMismatch(config, service, targets, r) # {}
  PROVE  /\ r.source \in config.sidecars
         /\ \E pod \in ToSet(targets) : Strict(config, pod, service)
         /\ \E subset \in IF TakenRoute(config, service, r) = <<>> THEN {0}
                          ELSE {d.subset : d \in Taken(config, service, r)} :
                PlainText(config, subset, service, r.source)
  <1>1. /\ r.source \in config.sidecars /\ EffectiveMode(config, service, targets) = "STRICT"
        /\ RequestTLS(config, service, r) \notin {None, "ISTIO_MUTUAL"}
    BY DEF inspectIstioDestinationRuleMTLSMismatch, InMesh
  <1> QED BY <1>1, StrictTrue, SettingTaken

--------------------------------------------------------------------------------
(* The runtime layer between the policies and the exit status.             *)

(***************************************************************************)
(* A runtime layer that is not over runs while check service is open, and  *)
(* only in a mesh.                                                         *)
(***************************************************************************)
RuntimeInv ==
    /\ OpenInv
    /\ mesh = None => stage = "done"
    /\ stage # "done" => pc \in ServiceLayers

\* A step of the runtime layer that speaks leaves check service open.
LEMMA ProbeKept ==
  ASSUME RuntimeInv, stage # "done", NEW insights, Says("service", insights, pc)
  PROVE  OpenInv' /\ \A d \in Commands : Kept(d)
  <1>1. Open("service") /\ pc' = pc /\ pc \in ServiceLayers
    BY DEF RuntimeInv, Open, Says
  <1>2. Onward
    BY <1>1 DEF Onward, Open
  <1> QED
    BY <1>1, <1>2, SaysKept DEF RuntimeInv, Commands

\* A step of a mesh.
LEMMA MeshKept ==
  ASSUME RuntimeInv, mesh # None, MeshStep
  PROVE  RuntimeInv' /\ \A d \in Commands : Kept(d)
  <1>1. CASE targetLayers
    <2>1. OpenInv' /\ \A d \in Commands : Kept(d)
      BY <1>1, ProbeKept DEF targetLayers
    <2> QED
      BY <1>1, <2>1 DEF RuntimeInv, targetLayers, Says
  <1>2. CASE policyLayers
    <2>1. CheckService /\ UNCHANGED runtimeVars
      BY <1>2 DEF policyLayers, CheckService
    <2>2. OpenInv' /\ \A d \in Commands : Kept(d)
      BY <2>1, ServiceKept DEF RuntimeInv
    <2>3. pc' \in ServiceLayers
      BY <1>2 DEF policyLayers, native, calico, host, cilium, Says, ServiceLayers
    <2> QED
      BY <2>1, <2>2, <2>3 DEF RuntimeInv, runtimeVars
  <1>3. CASE checkRuntimePath
    <2>1. PICK insights : Says("service", insights, pc)
      BY <1>3 DEF checkRuntimePath
    <2>2. OpenInv' /\ \A d \in Commands : Kept(d)
      BY <1>3, <2>1, ProbeKept DEF checkRuntimePath
    <2> QED
      BY <1>3, <2>1, <2>2 DEF RuntimeInv, checkRuntimePath, Says, ServiceLayers
  <1>4. CASE probeURL
    <2>1. PICK insights : Says("service", insights, pc)
      BY <1>4 DEF probeURL, SaysSignal, answeredURL, failedURL
    <2>2. stage # "done" /\ UNCHANGED <<stage, mesh>>
      BY <1>4 DEF probeURL
    <2>3. OpenInv' /\ \A d \in Commands : Kept(d)
      BY <2>1, <2>2, ProbeKept
    <2> QED
      BY <2>1, <2>2, <2>3 DEF RuntimeInv, Says
  <1>5. CASE endOfURLs
    <2>1. OpenInv' /\ \A d \in Commands : Kept(d)
      BY <1>5, ProbeKept DEF endOfURLs
    <2> QED
      BY <1>5, <2>1 DEF RuntimeInv, endOfURLs, Says
  <1>6. CASE probePod
    <2>1. PICK insights : Says("service", insights, pc)
      BY <1>6 DEF probePod, SaysSignal
    <2>2. stage # "done" /\ UNCHANGED mesh
      BY <1>6 DEF probePod
    <2>3. OpenInv' /\ \A d \in Commands : Kept(d)
      BY <2>1, <2>2, ProbeKept
    <2> QED
      BY <2>1, <2>2, <2>3 DEF RuntimeInv, Says
  <1>7. CASE finishRuntime
    <2>1. Open("service") /\ pc' = "done" /\ Finish("service", "done")
      BY <1>7 DEF finishRuntime, Open, ServiceLayers, Finish
    <2>2. Onward /\ ~Open("service")'
      BY <2>1 DEF Onward, Open, Commands, ServiceLayers, BlockersLayers, EgressLayers
    <2>3. OpenInv' /\ \A d \in Commands : Kept(d)
      BY <2>1, <2>2, FinishKept DEF RuntimeInv, Commands
    <2> QED
      BY <1>7, <2>3 DEF RuntimeInv, finishRuntime, runtimeVars
  <1> QED
    BY <1>1, <1>2, <1>3, <1>4, <1>5, <1>6, <1>7 DEF MeshStep

LEMMA RuntimeStepKept ==
  ASSUME RuntimeInv, [RuntimeNext]_allVars
  PROVE  RuntimeInv' /\ \A d \in Commands : Kept(d)
  <1>1. CASE UNCHANGED allVars
    BY <1>1 DEF RuntimeInv, OpenInv, Open, Kept, allVars, vars, runtimeVars
  <1>2. CASE mesh = None /\ Next /\ UNCHANGED runtimeVars
    <2>1. OpenInv' /\ \A d \in Commands : Kept(d)
      BY <1>2, StepKept DEF RuntimeInv
    <2> QED
      BY <1>2, <2>1 DEF RuntimeInv, runtimeVars
  <1> QED
    BY <1>1, <1>2, MeshKept DEF RuntimeNext

LEMMA RuntimeInitOpen == RuntimeInit => RuntimeInv
  BY InitOpen DEF RuntimeInit, RuntimeInv, Init, ServiceLayers

(***************************************************************************)
(* While the probes run the exit status of check service is not given.     *)
(***************************************************************************)
THEOREM OpenWhileProbing == RuntimeSpec => []RuntimeInv
  BY RuntimeInitOpen, RuntimeStepKept, PTL DEF RuntimeSpec

(***************************************************************************)
(* With the runtime layer too each command implements Report: what a probe *)
(* meets only adds findings, before the one exit status that counts them   *)
(* (service_runtime.go:14-172, cli.go:517-616).                            *)
(***************************************************************************)
THEOREM EveryRuntimeReports == RuntimeSpec => CommandsReport
  <1> DEFINE ServiceStep == ServiceReport!Add \/ ServiceReport!Finish \/ ServiceReport!Abort
             BlockersStep == BlockersReport!Add \/ BlockersReport!Finish \/ BlockersReport!Abort
             EgressStep == EgressReport!Add \/ EgressReport!Finish \/ EgressReport!Abort
  <1>1. RuntimeInit => ServiceReport!Init /\ BlockersReport!Init /\ EgressReport!Init
    BY DEF RuntimeInit, Init, Commands, ServiceReport!Init, BlockersReport!Init, EgressReport!Init
  <1>2. RuntimeInv /\ [RuntimeNext]_allVars =>
          /\ [ServiceStep]_<<flags, report.service, exit.service>>
          /\ [BlockersStep]_<<flags, report.blockers, exit.blockers>>
          /\ [EgressStep]_<<flags, report.egress, exit.egress>>
    <2> SUFFICES ASSUME RuntimeInv, [RuntimeNext]_allVars
                 PROVE  /\ [ServiceStep]_<<flags, report.service, exit.service>>
                        /\ [BlockersStep]_<<flags, report.blockers, exit.blockers>>
                        /\ [EgressStep]_<<flags, report.egress, exit.egress>>
      OBVIOUS
    <2>1. Kept("service") /\ Kept("blockers") /\ Kept("egress")
      BY RuntimeStepKept DEF Commands
    <2>2. [ServiceStep]_<<flags, report.service, exit.service>>
      BY <2>1 DEF Kept, ServiceReport!Add, ServiceReport!Finish, ServiceReport!Abort
    <2>3. [BlockersStep]_<<flags, report.blockers, exit.blockers>>
      BY <2>1 DEF Kept, BlockersReport!Add, BlockersReport!Finish, BlockersReport!Abort
    <2>4. [EgressStep]_<<flags, report.egress, exit.egress>>
      BY <2>1 DEF Kept, EgressReport!Add, EgressReport!Finish, EgressReport!Abort
    <2> QED
      BY <2>2, <2>3, <2>4
  <1> QED
    BY <1>1, <1>2, OpenWhileProbing, PTL
       DEF RuntimeSpec, CommandsReport, ServiceReport!Spec, BlockersReport!Spec, EgressReport!Spec


-------------------------------------------------------------------------------
(* The findings of the runtime layer are none of the policy layers.        *)

RuntimeChecks ==
    {"target-pods", "service-port", "resolv.conf", "service-path", "probe", "resolve", "direct-target-pod", "none",
     "Istio-list", "Istio-JWT", "Istio-authorization", "Istio-mTLS", "Istio-Sidecar", "Istio-upstream",
     "Istio-routing", "Istio-route"}

LEMMA RuntimeApart ==
  ASSUME NEW insights, Said(insights, RuntimeChecks)
  PROVE  \A i \in insights : Decided(i)
  BY DEF Said, Decided, RuntimeChecks, NativeVerdicts, CalicoVerdicts, CiliumVerdicts

\* What the objects of Istio say of an answer.
LEMMA IstioSays ==
  ASSUME NEW m, NEW namespace, NEW service, NEW targets, NEW source, NEW r
  PROVE  /\ Said(inspectIstioAuthorizationPolicy(m, namespace, targets, r), RuntimeChecks)
         /\ Said(inspectIstioRequestAuthentication(m, namespace, targets, "FAIL").insights, RuntimeChecks)
         /\ Said(inspectIstioMTLSReset(m, service, targets, source), RuntimeChecks)
         /\ Said(inspectIstioDestinationRuleMTLSMismatch(m, service, targets, r), RuntimeChecks)
         /\ Said(inspectIstioSidecarEgressScope(m, service, source), RuntimeChecks)
         /\ Said(inspectIstioTrafficRouting(m, service, targets, r), RuntimeChecks)
         /\ Said(inspectIstioWeightedRouteRisks(m, service, targets, r), RuntimeChecks)
  <1>1. \A outcome : Said(ListWarning(outcome), RuntimeChecks)
    BY StatusesAre DEF ListWarning, Said, Plain, Insight, RuntimeChecks
  <1>2. ASSUME NEW check \in RuntimeChecks, NEW status \in Statuses, NEW diagnosis
        PROVE  Said({Insight(check, status, diagnosis)}, RuntimeChecks)
    BY SaidOne
  <1>3. {"Istio-JWT", "Istio-authorization", "Istio-mTLS", "Istio-Sidecar", "Istio-routing"} \subseteq RuntimeChecks
    BY DEF RuntimeChecks
  <1>4. Said({}, RuntimeChecks)
    BY SaidNothing
  <1>5. ASSUME NEW status \in Statuses
        PROVE  Said(inspectIstioRequestAuthentication(m, namespace, targets, status).insights, RuntimeChecks)
    BY <1>1, <1>2, <1>3, <1>4, SaidBoth DEF inspectIstioRequestAuthentication
  <1>6. ASSUME NEW selecting PROVE Said({Explain(selecting, r)}, RuntimeChecks)
    BY <1>2, <1>3, StatusesAre DEF Explain
  <1>7. Said(inspectIstioAuthorizationPolicy(m, namespace, targets, r), RuntimeChecks)
    BY <1>1, <1>2, <1>3, <1>4, <1>5, <1>6, StatusesAre, SaidBoth DEF inspectIstioAuthorizationPolicy
  <1>8. Said(inspectIstioMTLSReset(m, service, targets, source), RuntimeChecks)
    BY <1>2, <1>3, <1>4, StatusesAre DEF inspectIstioMTLSReset
  <1>9. Said(inspectIstioDestinationRuleMTLSMismatch(m, service, targets, r), RuntimeChecks)
    BY <1>2, <1>3, <1>4, StatusesAre DEF inspectIstioDestinationRuleMTLSMismatch
  <1>10. Said(inspectIstioSidecarEgressScope(m, service, source), RuntimeChecks)
    BY <1>2, <1>3, <1>4, StatusesAre DEF inspectIstioSidecarEgressScope
  <1>11. Said(inspectIstioTrafficRouting(m, service, targets, r), RuntimeChecks)
    BY <1>1, <1>2, <1>3, StatusesAre DEF inspectIstioTrafficRouting
  <1>12. Said(inspectIstioWeightedRouteRisks(m, service, targets, r), RuntimeChecks)
    BY <1>1, <1>2, <1>3, <1>4, StatusesAre DEF inspectIstioWeightedRouteRisks
  <1> QED
    BY <1>5, <1>7, <1>8, <1>9, <1>10, <1>11, <1>12, StatusesAre

\* What a route is told to do.
LEMMA RouteSays ==
  ASSUME NEW m, NEW service, NEW r, NEW response
  PROVE  LET told == inspectIstioIntentionalRouteBehavior(m, service, r, response)
         IN  Said(told.insights, RuntimeChecks) /\ told.runtime \in {"none", "WARN", "FAIL"}
  <1> DEFINE Good(told) == Said(told.insights, RuntimeChecks) /\ told.runtime \in {"none", "WARN", "FAIL"}
  <1>1. \A outcome : Said(ListWarning(outcome), RuntimeChecks)
    BY StatusesAre DEF ListWarning, Said, Plain, Insight, RuntimeChecks
  <1>2. ASSUME NEW runtime \in {"WARN", "FAIL"}, NEW status \in {"WARN", "FAIL"}, NEW diagnosis
        PROVE  \A found : Good(Told(found, runtime, status, diagnosis))
    BY StatusesAre DEF Told, Said, Insight, RuntimeChecks
  <1>3. Good(Untold) /\ \A outcome : Good([Untold EXCEPT !.insights = ListWarning(outcome)])
    BY <1>1, SaidNothing DEF Untold
  <1>4. ASSUME NEW percent PROVE Certain(percent) \in {"WARN", "FAIL"}
    BY DEF Certain
  <1> HIDE DEF Good
  <1>5. ASSUME NEW found PROVE Good(Shown(found, response))
    BY <1>2, <1>3, <1>4 DEF Shown
  <1>6. Good(inspectIstioIntentionalRouteBehavior(m, service, r, response))
    BY <1>3, <1>5 DEF inspectIstioIntentionalRouteBehavior
  <1> QED
    BY <1>6 DEF Good

LEMMA SignalSays ==
  ASSUME NEW response, NEW r, SignalOf(response) # "none"
  PROVE  Said(SignalInsights(response, r), RuntimeChecks)
  <1>1. SignalOf(response) \in {"jwt-denied", "rbac-denied", "no-healthy-upstream", "upstream-reset"}
    BY DEF SignalOf
  <1>2. Said({Insight("Istio-upstream", "WARN", "Istio-reset")}, RuntimeChecks) /\ Said({}, RuntimeChecks)
    BY StatusesAre DEF Said, Insight, RuntimeChecks
  <1> QED
    BY <1>1, <1>2, IstioSays DEF SignalInsights


LEMMA OnceSays ==
  ASSUME NEW place, NEW insights, Said(insights, RuntimeChecks)
  PROVE  Said(Once(place, insights), RuntimeChecks) /\ Said(About(place, insights), RuntimeChecks)
  BY DEF Said, Once, About

LEMMA ShowsSays ==
  ASSUME NEW place, NEW told, Said(told.insights, RuntimeChecks)
  PROVE  Said(Shows(place, told), RuntimeChecks)
  BY OnceSays DEF Shows

LEMMA ProbedSays ==
  ASSUME NEW status \in Statuses
  PROVE  Said({Probed(status)}, RuntimeChecks) /\ Said({Plain("resolve", status)}, RuntimeChecks)
  BY DEF Probed, Said, Plain, Insight, RuntimeChecks

LEMMA FailureSays ==
  ASSUME NEW place, NEW response
  PROVE  Said(Explained(place, response), RuntimeChecks)
  <1> DEFINE r == RequestTo(place)
             told == ToldOf(place, response)
             cause == FailureCause(place, response)
  <1>1. Said(told.insights, RuntimeChecks)
    BY RouteSays DEF ToldOf
  <1>2. /\ Said(inspectIstioMTLSReset(mesh, world.service, Targets, world.source), RuntimeChecks)
        /\ Said(inspectIstioDestinationRuleMTLSMismatch(mesh, world.service, Targets, r), RuntimeChecks)
        /\ Said(inspectIstioSidecarEgressScope(mesh, world.service, world.source), RuntimeChecks)
    BY IstioSays
  <1>3. Said({}, RuntimeChecks) /\ Said({Insight("none", "INFO", "unreachable")}, RuntimeChecks)
    BY StatusesAre DEF Said, Insight, RuntimeChecks
  <1>4. Said(cause, RuntimeChecks)
    <2> HIDE DEF r
    <2> QED BY <1>2, <1>3 DEF FailureCause, r
  <1> HIDE DEF r, told, cause
  <1>5. Said(Shows(place, told), RuntimeChecks) /\ Said(Once(place, cause), RuntimeChecks)
    BY <1>1, <1>4, ShowsSays, OnceSays
  <1> QED
    BY <1>3, <1>5, SaidBoth DEF Explained, told, cause

LEMMA ProbeSaid ==
  ASSUME SaidInv, NEW insights, Says("service", insights, pc), Said(insights, RuntimeChecks), OpenInv'
  PROVE  SaidInv'
  BY RuntimeApart, SaysDecided

LEMMA SignalSaid ==
  ASSUME SaidInv, NEW place, NEW response, SignalOf(response) # "none", NEW tool, Said(tool, RuntimeChecks),
         SaysSignal(place, response, tool), OpenInv'
  PROVE  SaidInv'
  <1> DEFINE found == IF SignalOf(response) \in signals THEN {}
                      ELSE Once(place, SignalInsights(response, RequestTo(place)))
  <1>1. Said(found, RuntimeChecks)
    BY SignalSays, OnceSays, SaidNothing
  <1>2. Said({Probed("FAIL")}, RuntimeChecks)
    BY ProbedSays, StatusesAre
  <1> HIDE DEF found
  <1>3. Says("service", tool \cup {Probed("FAIL")} \cup found, pc)
    BY DEF SaysSignal, found
  <1>4. Said(tool \cup {Probed("FAIL")} \cup found, RuntimeChecks)
    BY <1>1, <1>2, SaidBoth
  <1> QED
    BY <1>3, <1>4, ProbeSaid

LEMMA MeshSaid ==
  ASSUME SaidInv, MeshStep, OpenInv'
  PROVE  SaidInv'
  <1>1. ASSUME NEW check \in RuntimeChecks, NEW status \in Statuses, NEW diagnosis
        PROVE  Said({Insight(check, status, diagnosis)}, RuntimeChecks) /\ Said({Plain(check, status)}, RuntimeChecks)
    BY SaidOne
  <1>2. {"target-pods", "service-port", "resolv.conf", "service-path", "probe", "resolve", "direct-target-pod", "none"}
          \subseteq RuntimeChecks
    BY DEF RuntimeChecks
  <1>3. Said({}, RuntimeChecks)
    BY SaidNothing
  <1>4. CASE targetLayers
    <2>1. PICK insights : Says("service", insights, pc) /\ Said(insights, RuntimeChecks)
      <3> DEFINE Shifted == PathService.headless /\ SC!ResolvedTargetPort \notin {0, SC!Selected.port}
                 Mismatch == SC!DeclaredPorts # {}
                             /\ \A p \in SC!DeclaredPorts : ~SC!TargetPortMatches(SC!Selected.target, p)
                 Unready == Targets = <<>> \/ \E i \in DOMAIN PathPods : ~PathPods[i].ready
                 a1 == IF Unready THEN {Insight("target-pods", "FAIL", "backend")} ELSE {}
                 a2 == IF ~SC!Selected.tcp THEN {Insight("service-port", "WARN", "other")} ELSE {}
                 a3 == IF Shifted THEN {Insight("service-port", "WARN", "headless")} ELSE {}
                 a4 == IF Mismatch THEN {Insight("service-port", "WARN", "targetPort-mismatch")} ELSE {}
                 a5 == IF Targets # <<>> /\ SC!DeclaredPorts = {} THEN {Plain("service-port", "WARN")} ELSE {}
      <3>1. /\ Said(a1, RuntimeChecks) /\ Said(a2, RuntimeChecks) /\ Said(a3, RuntimeChecks)
            /\ Said(a4, RuntimeChecks) /\ Said(a5, RuntimeChecks)
        BY <1>1, <1>2, <1>3, StatusesAre
      <3>2. Says("service", a1 \cup a2 \cup a3 \cup a4 \cup a5, pc)
        BY <1>4 DEF targetLayers
      <3> HIDE DEF a1, a2, a3, a4, a5
      <3> QED
        BY <3>1, <3>2, SaidBoth
    <2> QED
      BY <2>1, ProbeSaid
  <1>5. CASE policyLayers
    BY <1>5, ServiceSaid DEF policyLayers, CheckService
  <1>6. CASE checkRuntimePath
    <2> DEFINE resolver == Plain("resolv.conf", IF access.resolvConf THEN "PASS" ELSE "WARN")
               split == IF Blamed({"backend"}) THEN {}
                        ELSE inspectIstioWeightedRouteRisks(mesh, world.service, Targets, RequestTo("name"))
    <2>1. Said({resolver}, RuntimeChecks)
      BY <1>1, <1>2, StatusesAre
    <2>2. Said(split, RuntimeChecks)
      BY <1>3, IstioSays
    <2> HIDE DEF resolver, split
    <2>3. Said({resolver} \cup About("name", split), RuntimeChecks)
      BY <2>1, <2>2, OnceSays, SaidBoth
    <2>4. Said({Plain("service-path", "SKIP")}, RuntimeChecks)
      BY <1>1, <1>2, StatusesAre
    <2>5. \/ Says("service", {resolver} \cup About("name", split), pc)
          \/ Says("service", {Plain("service-path", "SKIP")}, pc)
      BY <1>6 DEF checkRuntimePath, resolver, split
    <2> QED
      BY <2>3, <2>4, <2>5, ProbeSaid
  <1>7. CASE probeURL
    <2> DEFINE place == Place(at)
    <2>1. CASE \E response \in Answers(place) \cup Failures, tool \in SUBSET {Plain("resolve", "runtime-unavailable")} :
                  \/ SignalOf(response) # "none" /\ SaysSignal(place, response, tool)
                  \/ answeredURL(place, response, tool)
                  \/ failedURL(place, response, tool)
      <3>1. PICK response \in Answers(place) \cup Failures, tool \in SUBSET {Plain("resolve", "runtime-unavailable")} :
               \/ SignalOf(response) # "none" /\ SaysSignal(place, response, tool)
               \/ answeredURL(place, response, tool)
               \/ failedURL(place, response, tool)
        BY <2>1
      <3>2. Said(tool, RuntimeChecks)
        BY ProbedSays, StatusesAre DEF Said
      <3>3. CASE SignalOf(response) # "none" /\ SaysSignal(place, response, tool)
        BY <3>2, <3>3, SignalSaid
      <3>4. CASE answeredURL(place, response, tool)
        <4> DEFINE told == ToldOf(place, response)
                   status == IF told.runtime = "none" THEN "PASS" ELSE told.runtime
        <4>1. Said(told.insights, RuntimeChecks) /\ told.runtime \in {"none", "WARN", "FAIL"}
          BY RouteSays DEF ToldOf
        <4>2. Said({Probed(status)}, RuntimeChecks)
          BY <4>1, ProbedSays, StatusesAre
        <4>3. Said(Shows(place, told), RuntimeChecks)
          BY <4>1, ShowsSays
        <4>4. Says("service", tool \cup {Probed(status)} \cup Shows(place, told), pc)
          BY <3>4 DEF answeredURL
        <4> HIDE DEF told, status
        <4> QED
          BY <3>2, <4>2, <4>3, <4>4, SaidBoth, ProbeSaid
      <3>5. CASE failedURL(place, response, tool)
        <4> DEFINE found == CASE response.text = "no-tool" -> {Probed("runtime-unavailable")}
                              [] response.text = "refused" -> {Insight("probe", "FAIL", "HTTP")}
                              [] OTHER -> {Probed("FAIL")} \cup Explained(place, response)
        <4>1. Said({Probed("runtime-unavailable")}, RuntimeChecks) /\ Said({Probed("FAIL")}, RuntimeChecks)
              /\ Said({Insight("probe", "FAIL", "HTTP")}, RuntimeChecks)
          BY <1>1, <1>2, ProbedSays, StatusesAre
        <4>2. Said(Explained(place, response), RuntimeChecks)
          BY FailureSays
        <4>3. Said(found, RuntimeChecks)
          BY <4>1, <4>2, SaidBoth
        <4>4. Says("service", tool \cup found, pc)
          BY <3>5 DEF failedURL
        <4> HIDE DEF found
        <4> QED
          BY <3>2, <4>3, <4>4, SaidBoth, ProbeSaid
      <3> QED
        BY <3>1, <3>3, <3>4, <3>5
    <2>2. CASE \E diagnosis \in {"none", "DNS"} : Says("service", {Insight("resolve", "FAIL", diagnosis)}, pc)
      <3>1. PICK diagnosis \in {"none", "DNS"} : Says("service", {Insight("resolve", "FAIL", diagnosis)}, pc)
        BY <2>2
      <3>2. Said({Insight("resolve", "FAIL", diagnosis)}, RuntimeChecks)
        BY <1>1, <1>2, StatusesAre
      <3> QED
        BY <3>1, <3>2, ProbeSaid
    <2> QED
      BY <1>7, <2>1, <2>2 DEF probeURL
  <1>8. CASE endOfURLs
    <2>1. Said({Plain("direct-target-pod", "SKIP")}, RuntimeChecks)
      BY <1>1, <1>2, StatusesAre
    <2>2. Says("service", {Plain("direct-target-pod", "SKIP")}, pc) \/ Says("service", {}, pc)
      BY <1>8 DEF endOfURLs
    <2> QED
      BY <1>3, <2>1, <2>2, ProbeSaid
  <1>9. CASE probePod
    <2>1. CASE Says("service", {}, pc)
      BY <1>3, <2>1, ProbeSaid
    <2>2. CASE \E response \in Answers("pod") \cup Failures : SignalOf(response) # "none" /\ SaysSignal("pod", response, {})
      BY <1>3, <2>2, SignalSaid
    <2>3. CASE \E response \in Answers("pod") \cup Failures :
                  Says("service", IF response.ok THEN {Probed("PASS")} ELSE failedPod(response), pc)
      <3>1. PICK response : Says("service", IF response.ok THEN {Probed("PASS")} ELSE failedPod(response), pc)
        BY <2>3
      <3> DEFINE strict == IF response.text = "reset" THEN inspectIstioMTLSReset(mesh, world.service, Targets, world.source)
                           ELSE {}
                 last == IF Blamed({"Istio", "Istio-routing", "policy", "targetPort-mismatch"}) THEN {}
                         ELSE {Insight("none", "INFO", "pod-unreachable")}
      <3>2. Said(strict, RuntimeChecks) /\ Said(last, RuntimeChecks)
        BY <1>1, <1>2, <1>3, IstioSays, StatusesAre
      <3>3. Said(Once("pod", IF strict # {} THEN strict ELSE last), RuntimeChecks)
        BY <3>2, OnceSays
      <3>4. /\ Said({Probed("PASS")}, RuntimeChecks) /\ Said({Probed("INFO")}, RuntimeChecks)
            /\ Said({Probed("FAIL")}, RuntimeChecks) /\ Said({Probed("runtime-unavailable")}, RuntimeChecks)
            /\ Said({Insight("probe", "FAIL", "HTTP")}, RuntimeChecks)
        BY <1>1, <1>2, ProbedSays, StatusesAre
      <3> HIDE DEF strict, last
      <3>5. Said(failedPod(response), RuntimeChecks)
        BY <3>3, <3>4, SaidBoth DEF failedPod, strict, last
      <3> QED
        BY <3>1, <3>4, <3>5, ProbeSaid
    <2> QED
      BY <1>9, <2>1, <2>2, <2>3 DEF probePod
  <1>10. CASE finishRuntime
    BY <1>10, SilentSaid DEF finishRuntime, Finish
  <1> QED
    BY <1>4, <1>5, <1>6, <1>7, <1>8, <1>9, <1>10 DEF MeshStep


(***************************************************************************)
(* A report says what the engines have decided: neither the probes nor     *)
(* what Istio adds after them changes a verdict on policies.               *)
(***************************************************************************)
LEMMA RuntimeStepSaid ==
  ASSUME RuntimeInv, SaidInv, [RuntimeNext]_allVars
  PROVE  SaidInv'
  <1>1. OpenInv'
    BY RuntimeStepKept DEF RuntimeInv
  <1>2. CASE UNCHANGED allVars
    BY <1>1, <1>2, SilentSaid DEF allVars, vars
  <1> QED
    BY <1>1, <1>2, StepSaid, MeshSaid DEF RuntimeNext

THEOREM VerdictsStay == RuntimeSpec => []SaidInv
  <1>1. RuntimeInit => SaidInv
    BY InitSaid DEF RuntimeInit
  <1> QED
    BY <1>1, RuntimeStepSaid, OpenWhileProbing, PTL DEF RuntimeSpec

(***************************************************************************)
(* Blame for a native default deny is never false, and a PASS is true of a *)
(* target, for every set of policies, every Service and every mesh.        *)
(***************************************************************************)
THEOREM NativeSoundness == RuntimeSpec => []NativeVerdictSound
  BY VerdictsStay, NativeSound, PTL

(***************************************************************************)
(* A FAIL of the layer of Cilium is true of a target, and so is a PASS,    *)
(* for every set of policies: denies come before allows, and a range of    *)
(* ports is a range (cilium/analyze.go:575-876).                           *)
(***************************************************************************)
THEOREM CiliumSoundness == RuntimeSpec => []CiliumVerdictSound
  BY VerdictsStay, CiliumSound, PTL

(***************************************************************************)
(* Where one target pod takes the connection, the layer of Calico says     *)
(* that a path is denied, or allowed, exactly where the first rule that    *)
(* holds in the order of the tiers says so, and whatever the policies of   *)
(* the two directions are (calico/analyze.go:1332-1565).                   *)
(***************************************************************************)
THEOREM CalicoSoundness == RuntimeSpec => []CalicoVerdictSound
  BY VerdictsStay, CalicoSound, PTL

(***************************************************************************)
(* Whatever the probes of check egress meet, a URL that fails leaves a     *)
(* diagnosis in the report.                                                *)
(***************************************************************************)
LEMMA MeshLeavesEgress ==
  ASSUME OpenInv, MeshStep
  PROVE  OtherReport
  <1>1. ASSUME NEW insights, NEW next, Says("service", insights, next) PROVE OtherReport
    BY <1>1 DEF Says, OpenInv, Commands, OtherReport
  <1>2. CASE policyLayers
    BY <1>2, OthersSilent DEF policyLayers, CheckService
  <1>3. CASE finishRuntime
    BY <1>3 DEF finishRuntime, Finish, OtherReport
  <1>4. CASE targetLayers \/ checkRuntimePath \/ probeURL \/ endOfURLs \/ probePod
    BY <1>1, <1>4 DEF targetLayers, checkRuntimePath, probeURL, endOfURLs, probePod, SaysSignal, answeredURL, failedURL
  <1> QED
    BY <1>2, <1>3, <1>4 DEF MeshStep

THEOREM FailuresExplained == RuntimeSpec => []EgressFailureExplained
  <1>1. RuntimeInit => EgressFailureExplained
    BY InitExplained DEF RuntimeInit
  <1>2. RuntimeInv /\ EgressFailureExplained /\ [RuntimeNext]_allVars => EgressFailureExplained'
    <2> SUFFICES ASSUME RuntimeInv, EgressFailureExplained, [RuntimeNext]_allVars PROVE EgressFailureExplained'
      OBVIOUS
    <2>1. CASE mesh = None /\ Next
      BY <2>1, StepExplained DEF RuntimeInv
    <2>2. CASE MeshStep
      BY <2>2, MeshLeavesEgress DEF RuntimeInv, OtherReport, EgressFailureExplained, Verdict
    <2>3. CASE UNCHANGED allVars
      BY <2>3 DEF allVars, vars, EgressFailureExplained, Verdict
    <2> QED
      BY <2>1, <2>2, <2>3 DEF RuntimeNext
  <1> QED
    BY <1>1, <1>2, OpenWhileProbing, PTL DEF RuntimeSpec


(***************************************************************************)
(* The session has a type: each status that a report carries is one of     *)
(* report.Status, each answer is to a URL that was asked.                  *)
(***************************************************************************)
LEMMA MeshTyped ==
  ASSUME RuntimeInv, Typed, mesh # None, MeshStep
  PROVE  Typed'
  <1>1. ASSUME NEW insights, Says("service", insights, pc), UNCHANGED <<urls, answered>>
        PROVE  Typed'
    BY <1>1 DEF Says, Typed, Remaining
  <1>2. CASE policyLayers
    BY <1>2, StepTyped DEF policyLayers, Next, CheckService
  <1>3. CASE finishRuntime
    <2>1. Finish("service", "done") /\ UNCHANGED <<urls, answered>> /\ "done" \in Layers /\ "service" \in Commands
      BY <1>3 DEF finishRuntime, Finish, Layers, Commands, runtimeVars
    <2> QED
      BY <2>1 DEF Finish, Typed, Remaining
  <1>4. CASE targetLayers \/ checkRuntimePath \/ probeURL \/ endOfURLs \/ probePod
    BY <1>1, <1>4 DEF targetLayers, checkRuntimePath, probeURL, endOfURLs, probePod, SaysSignal, answeredURL, failedURL
  <1> QED
    BY <1>2, <1>3, <1>4 DEF MeshStep

LEMMA RuntimeTyped == RuntimeSpec => []Typed
  <1>1. RuntimeInit => Typed
    BY InitTyped DEF RuntimeInit
  <1>2. RuntimeInv /\ Typed /\ [RuntimeNext]_allVars => Typed'
    <2> SUFFICES ASSUME RuntimeInv, Typed, [RuntimeNext]_allVars PROVE Typed'
      OBVIOUS
    <2>1. CASE UNCHANGED allVars
      BY <2>1 DEF allVars, vars, Typed, Remaining
    <2> QED
      BY <2>1, StepTyped, MeshTyped DEF RuntimeNext
  <1> QED
    BY <1>1, <1>2, OpenWhileProbing, PTL DEF RuntimeSpec

THEOREM CommandsTyped == RuntimeSpec => []TypeOK
  BY RuntimeTyped, VerdictsStay, TypesTogether, PTL

(***************************************************************************)
(* An answer to check egress proves that no engine denies the connection   *)
(* by default: what the report says of a URL that answered does not claim  *)
(* the contrary, for every set of policies and every list of URLs          *)
(* (egress.go:85-147, 226-253).                                            *)
(***************************************************************************)
LEMMA MeshLetOut ==
  ASSUME LetOutInv, mesh # None, MeshStep
  PROVE  LetOutInv'
  <1> DEFINE Probing == {"egress-dns", "egress-context", "egress-urls", "egress-probe"}
  <1>1. UNCHANGED <<world, answered>> /\ (pc' \notin Probing \/ pc' = pc)
    <2>1. CASE policyLayers
      BY <2>1 DEF policyLayers, native, calico, host, cilium, Says
    <2>2. CASE finishRuntime
      BY <2>2 DEF finishRuntime, Finish
    <2>3. CASE targetLayers \/ checkRuntimePath \/ probeURL \/ endOfURLs \/ probePod
      BY <2>3 DEF targetLayers, checkRuntimePath, probeURL, endOfURLs, probePod, SaysSignal, answeredURL, failedURL,
         Says
    <2> QED
      BY <2>1, <2>2, <2>3 DEF MeshStep
  <1> QED
    BY <1>1, SameWayOut DEF LetOutInv

THEOREM ReachedNotBlamed == RuntimeSpec => []ReachedIsNotBlamed
  <1>1. RuntimeInit => LetOutInv
    BY InitLetOut DEF RuntimeInit
  <1>2. LetOutInv /\ [RuntimeNext]_allVars => LetOutInv'
    <2> SUFFICES ASSUME LetOutInv, [RuntimeNext]_allVars PROVE LetOutInv'
      OBVIOUS
    <2>1. CASE UNCHANGED allVars
      BY <2>1, SameWayOut DEF allVars, vars, LetOutInv
    <2> QED
      BY <2>1, StepLetOut, MeshLetOut DEF RuntimeNext
  <1> QED
    BY <1>1, <1>2, RuntimeTyped, VerdictsStay, ReachedTrue, PTL DEF RuntimeSpec

(***************************************************************************)
(* Asked for the same path, show blockers names a blocker of every engine  *)
(* that check service blames, whatever the policies and the answers of the *)
(* lists are: the two commands list, order and select on their own         *)
(* (check/blockers.go, cilium/blockers.go, calico/blockers.go:79-173).     *)
(***************************************************************************)
LEMMA MeshTold ==
  ASSUME RuntimeInv, BlockersInv, mesh # None, MeshStep
  PROVE  BlockersInv'
  <1>1. ASSUME NEW insights, NEW next, Says("service", insights, next), next \notin BlockersLayers
        PROVE  BlockersInv'
    <2>1. /\ UNCHANGED <<world, ask>> /\ report'["blockers"] = report["blockers"]
          /\ exit'["blockers"] = exit["blockers"] /\ pc' \notin BlockersLayers
      BY <1>1 DEF Says, RuntimeInv, OpenInv, Commands
    <2> QED
      BY <2>1, ElsewhereTold
  <1>2. stage # "done" => pc \notin BlockersLayers
    BY DEF RuntimeInv, ServiceLayers, BlockersLayers
  <1>3. CASE policyLayers
    BY <1>1, <1>3 DEF policyLayers, native, calico, host, cilium, BlockersLayers
  <1>4. CASE finishRuntime
    <2>1. /\ UNCHANGED <<world, ask>> /\ report' = report /\ exit'["blockers"] = exit["blockers"]
          /\ pc' \notin BlockersLayers
      BY <1>4 DEF finishRuntime, Finish, RuntimeInv, OpenInv, Commands, BlockersLayers
    <2> QED
      BY <2>1, ElsewhereTold
  <1>5. CASE targetLayers \/ checkRuntimePath \/ probeURL \/ endOfURLs \/ probePod
    BY <1>1, <1>2, <1>5 DEF targetLayers, checkRuntimePath, probeURL, endOfURLs, probePod, SaysSignal, answeredURL,
       failedURL
  <1> QED
    BY <1>3, <1>4, <1>5 DEF MeshStep

THEOREM BlockersExplained == RuntimeSpec => []BlockersExplainPath
  <1>1. RuntimeInit => BlockersInv
    BY InitTold DEF RuntimeInit
  <1>2. RuntimeInv /\ RuntimeInv' /\ BlockersInv /\ [RuntimeNext]_allVars => BlockersInv'
    <2> SUFFICES ASSUME RuntimeInv, OpenInv', BlockersInv, [RuntimeNext]_allVars PROVE BlockersInv'
      BY DEF RuntimeInv
    <2>1. CASE UNCHANGED allVars
      BY <2>1, SameBlockers DEF allVars, vars, BlockersInv, Gathered
    <2> QED
      BY <2>1, StepTold, MeshTold DEF RuntimeNext, RuntimeInv
  <1> QED
    BY <1>1, <1>2, OpenWhileProbing, VerdictsStay, BlameTold, PTL DEF RuntimeSpec

\* check service and check egress give one verdict on the resolver, whatever the
\* policies: the policies of the target's namespace that only check service
\* lists select no source pod of another namespace (cilium/analyze.go:355-429).
THEOREM ResolversAgree == RuntimeSpec => []DNSVerdictsAgree
  BY VerdictsStay, ResolverSaid, PTL

-------------------------------------------------------------------------------
(* The runtime layer is one of ServiceCheck's: for every mesh each of its  *)
(* steps says what ServiceCheck lets a probe find.  Of an insight only the *)
(* result that counts and the kinds of its diagnosis are left there.       *)

ResultsOf(insights) ==
    {IF i.status = "WARN" THEN "uncategorized" ELSE i.status :
        i \in {j \in insights : j.status \in {"FAIL"} \cup Warnings}}
KindsIn(insights) == UNION {KindsOf(i.diagnosis) : i \in insights}

Effect(insights, results, kinds) == ResultsOf(insights) = results /\ KindsIn(insights) = kinds

\* What insights add to the report of check service.
Adds(insights, results, kinds) ==
    /\ PathReport.results \cup ResultsOf(insights) = PathReport.results \cup results
    /\ PathReport.diagnoses \cup KindsIn(insights) = PathReport.diagnoses \cup kinds

LEMMA PathReportIs ==
  PathReport = [results |-> ResultsOf(report.service), diagnoses |-> KindsIn(report.service)]
  BY DEF PathReport, ResultsOf, KindsIn

LEMMA EffectNone == Effect({}, {}, {})
  BY DEF Effect, ResultsOf, KindsIn

LEMMA EffectOne ==
  ASSUME NEW check, NEW diagnosis
  PROVE  /\ Effect({Insight(check, "FAIL", diagnosis)}, {"FAIL"}, KindsOf(diagnosis))
         /\ Effect({Insight(check, "WARN", diagnosis)}, {"uncategorized"}, KindsOf(diagnosis))
         /\ Effect({Insight(check, "runtime-unavailable", diagnosis)}, {"runtime-unavailable"}, KindsOf(diagnosis))
         /\ \A status \in {"PASS", "INFO", "SKIP"} : Effect({Insight(check, status, diagnosis)}, {}, KindsOf(diagnosis))
  BY DEF Effect, ResultsOf, KindsIn, Insight, Warnings

LEMMA EffectBoth ==
  ASSUME NEW some, NEW results, NEW kinds, Effect(some, results, kinds),
         NEW others, NEW moreResults, NEW moreKinds, Effect(others, moreResults, moreKinds)
  PROVE  Effect(some \cup others, results \cup moreResults, kinds \cup moreKinds)
  <1>1. ResultsOf(some \cup others) = ResultsOf(some) \cup ResultsOf(others)
    BY DEF ResultsOf
  <1>2. KindsIn(some \cup others) = KindsIn(some) \cup KindsIn(others)
    BY DEF KindsIn
  <1> QED
    BY <1>1, <1>2 DEF Effect

LEMMA AddsEffect ==
  ASSUME NEW insights, NEW results, NEW kinds, Effect(insights, results, kinds)
  PROVE  Adds(insights, results, kinds)
  BY DEF Adds, Effect

LEMMA AddsBoth ==
  ASSUME NEW some, NEW results, NEW kinds, Adds(some, results, kinds),
         NEW others, NEW moreResults, NEW moreKinds, Adds(others, moreResults, moreKinds)
  PROVE  Adds(some \cup others, results \cup moreResults, kinds \cup moreKinds)
  <1>1. ResultsOf(some \cup others) = ResultsOf(some) \cup ResultsOf(others)
    BY DEF ResultsOf
  <1>2. KindsIn(some \cup others) = KindsIn(some) \cup KindsIn(others)
    BY DEF KindsIn
  <1> QED
    BY <1>1, <1>2 DEF Adds

LEMMA EffectAbout ==
  ASSUME NEW insights, NEW results, NEW kinds, Effect(insights, results, kinds), NEW place
  PROVE  Effect(About(place, insights), results, kinds)
  <1> DEFINE Named(i) == [check |-> i.check, status |-> i.status, diagnosis |-> i.diagnosis, url |-> place]
             IsFinding(i) == i.status \in {"FAIL"} \cup Warnings
             Result(i) == IF i.status = "WARN" THEN "uncategorized" ELSE i.status
  <1>1. /\ \A i : IsFinding(Named(i)) = IsFinding(i) /\ Result(Named(i)) = Result(i)
        /\ \A i : Named(i).diagnosis = i.diagnosis
    OBVIOUS
  <1>2. About(place, insights) = {Named(i) : i \in insights}
    BY DEF About
  <1>3. \A S : ResultsOf(S) = {Result(i) : i \in {j \in S : IsFinding(j)}}
    BY DEF ResultsOf
  <1> HIDE DEF Named, IsFinding, Result
  <1>4. \A x : x \in ResultsOf(About(place, insights)) <=> x \in ResultsOf(insights)
    BY <1>1, <1>2, <1>3
  <1>5. \A x : x \in KindsIn(About(place, insights)) <=> x \in KindsIn(insights)
    BY <1>1, <1>2 DEF KindsIn
  <1> QED
    BY <1>4, <1>5 DEF Effect

\* What was said before adds nothing when it is said again.
LEMMA AddsOnce ==
  ASSUME NEW insights, NEW results, NEW kinds, Effect(insights, results, kinds), NEW place
  PROVE  Adds(Once(place, insights), results, kinds)
  <1> DEFINE new == {i \in insights :
                        ~\E j \in report.service : j.check = i.check /\ j.status = i.status /\ j.diagnosis = i.diagnosis}
  <1>1. Once(place, insights) = About(place, new)
    BY DEF Once
  <1>2. \A i \in insights \ new : \E j \in report.service : j.status = i.status /\ j.diagnosis = i.diagnosis
    OBVIOUS
  <1>3. new \subseteq insights
    OBVIOUS
  <1> HIDE DEF new
  <1>4. ResultsOf(report.service) \cup ResultsOf(new) = ResultsOf(report.service) \cup ResultsOf(insights)
    BY <1>2, <1>3 DEF ResultsOf
  <1>5. KindsIn(report.service) \cup KindsIn(new) = KindsIn(report.service) \cup KindsIn(insights)
    BY <1>2, <1>3 DEF KindsIn
  <1>6. Effect(new, ResultsOf(new), KindsIn(new))
    BY DEF Effect
  <1>7. Effect(About(place, new), ResultsOf(new), KindsIn(new))
    BY <1>6, EffectAbout
  <1> QED
    BY <1>1, <1>4, <1>5, <1>7, PathReportIs DEF Adds, Effect

\* What a step says reaches the report of ServiceCheck.
LEMMA ReportsPath ==
  ASSUME OpenInv, NEW insights, NEW next, Says("service", insights, next),
         NEW results, NEW kinds, Adds(insights, results, kinds)
  PROVE  SC!Report(results, kinds)
  <1>1. report'.service = report.service \cup insights
    BY DEF Says, OpenInv, Commands
  <1>2. PathReport' = [results |-> ResultsOf(report.service \cup insights),
                       diagnoses |-> KindsIn(report.service \cup insights)]
    BY <1>1 DEF PathReport, ResultsOf, KindsIn
  <1>3. /\ ResultsOf(report.service \cup insights) = ResultsOf(report.service) \cup ResultsOf(insights)
        /\ KindsIn(report.service \cup insights) = KindsIn(report.service) \cup KindsIn(insights)
    BY DEF ResultsOf, KindsIn
  <1> QED
    BY <1>2, <1>3, PathReportIs DEF Adds, SC!Report

LEMMA KindsAre ==
  /\ KindsOf("none") = {}
  /\ \A diagnosis \in IstioRouting : KindsOf(diagnosis) = {"Istio-routing"}
  /\ \A diagnosis \in IstioCauses : KindsOf(diagnosis) = {"Istio"}
  /\ \A diagnosis \in PathCauses : KindsOf(diagnosis) = {diagnosis}
  <1>1. \A diagnosis \in {"none", "runtime-DNS-resolver"} :
           diagnosis \notin IstioRouting /\ diagnosis \notin IstioCauses /\ diagnosis \notin PathCauses
    BY DEF IstioRouting, IstioCauses, PathCauses
  <1>2. \A diagnosis \in IstioCauses : diagnosis \notin IstioRouting /\ diagnosis \notin PathCauses
    BY DEF IstioRouting, IstioCauses, PathCauses
  <1>3. \A diagnosis \in PathCauses : diagnosis \notin IstioRouting
    BY DEF IstioRouting, PathCauses
  <1>4. KindsOf("none") = {}
    BY <1>1 DEF KindsOf
  <1>5. ASSUME NEW diagnosis \in IstioRouting PROVE KindsOf(diagnosis) = {"Istio-routing"}
    BY <1>1, <1>2, <1>3 DEF KindsOf
  <1>6. ASSUME NEW diagnosis \in IstioCauses PROVE KindsOf(diagnosis) = {"Istio"}
    BY <1>1, <1>2 DEF KindsOf
  <1>7. ASSUME NEW diagnosis \in PathCauses PROVE KindsOf(diagnosis) = {diagnosis}
    BY <1>1, <1>2, <1>3 DEF KindsOf
  <1> QED
    BY <1>4, <1>5, <1>6, <1>7

\* What the objects of Istio say, as ServiceCheck has it.
LEMMA IstioEffect ==
  ASSUME NEW check, NEW diagnosis \in IstioCauses
  PROVE  /\ Effect({Insight(check, "FAIL", diagnosis)}, {"FAIL"}, {"Istio"})
         /\ Effect({Insight(check, "WARN", diagnosis)}, {"uncategorized"}, {"Istio"})
  <1>1. KindsOf(diagnosis) = {"Istio"}
    BY KindsAre
  <1> QED
    BY <1>1, EffectOne

LEMMA RoutingEffect ==
  ASSUME NEW check, NEW diagnosis \in IstioRouting
  PROVE  /\ Effect({Insight(check, "FAIL", diagnosis)}, {"FAIL"}, {"Istio-routing"})
         /\ Effect({Insight(check, "WARN", diagnosis)}, {"uncategorized"}, {"Istio-routing"})
  <1>1. KindsOf(diagnosis) = {"Istio-routing"}
    BY KindsAre
  <1> QED
    BY <1>1, EffectOne

LEMMA PlainEffect ==
  ASSUME NEW check
  PROVE  /\ Effect({Plain(check, "FAIL")}, {"FAIL"}, {}) /\ Effect({Plain(check, "WARN")}, {"uncategorized"}, {})
         /\ Effect({Plain(check, "runtime-unavailable")}, {"runtime-unavailable"}, {})
         /\ \A status \in {"PASS", "INFO", "SKIP"} : Effect({Plain(check, status)}, {}, {})
  <1>1. KindsOf("none") = {}
    BY KindsAre
  <1> QED
    BY <1>1, EffectOne DEF Plain

LEMMA ListEffect ==
  ASSUME NEW outcome
  PROVE  Effect(ListWarning(outcome), {}, {}) \/ Effect(ListWarning(outcome), {"uncategorized"}, {})
  BY PlainEffect, EffectNone DEF ListWarning

\* The findings that ServiceCheck expects after a signal, one by one.
LEMMA FindingsAre ==
  /\ SC!SignalFindings("rbac-denied") =
        {SC!Finding({"FAIL"}, {"Istio"}), SC!Finding({"FAIL", "uncategorized"}, {"Istio"}),
         SC!Finding({"uncategorized"}, {"Istio"}), SC!Finding({"uncategorized"}, {})}
  /\ SC!SignalFindings("jwt-denied") =
        {SC!Finding({"FAIL"}, {"Istio"}), SC!Finding({"FAIL", "uncategorized"}, {"Istio"}),
         SC!Finding({"uncategorized"}, {}), SC!Nothing}
  /\ SC!Nothing \in SC!SignalFindings("no-healthy-upstream")
  /\ "backend" \notin PathReport.diagnoses =>
        {SC!Finding({"uncategorized"}, {}), SC!Finding({"FAIL"}, {"Istio-routing"}),
         SC!Finding({"uncategorized"}, {"Istio-routing"})} \subseteq SC!SignalFindings("no-healthy-upstream")
  /\ PathSource.sidecar => SC!Finding({"FAIL"}, {"Istio"}) \in SC!SignalFindings("upstream-reset")
  /\ IF {"Istio", "Istio-routing"} \cap PathReport.diagnoses # {}
     THEN SC!Nothing \in SC!SignalFindings("upstream-reset")
     ELSE SC!Finding({"uncategorized"}, {"Istio"}) \in SC!SignalFindings("upstream-reset")
  <1>1. SC!SignalFindings("rbac-denied") =
          {SC!Finding({"FAIL"}, {"Istio"}), SC!Finding({"FAIL", "uncategorized"}, {"Istio"}),
           SC!Finding({"uncategorized"}, {"Istio"}), SC!Finding({"uncategorized"}, {})}
    BY DEF SC!SignalFindings, SC!Finding, SC!Warn
  <1>2. SC!SignalFindings("jwt-denied") =
          {SC!Finding({"FAIL"}, {"Istio"}), SC!Finding({"FAIL", "uncategorized"}, {"Istio"}),
           SC!Finding({"uncategorized"}, {}), SC!Nothing}
    BY DEF SC!SignalFindings, SC!Finding, SC!Warn, SC!Nothing
  <1>3. /\ SC!Nothing \in SC!SignalFindings("no-healthy-upstream")
        /\ "backend" \notin PathReport.diagnoses =>
              {SC!Finding({"uncategorized"}, {}), SC!Finding({"FAIL"}, {"Istio-routing"}),
               SC!Finding({"uncategorized"}, {"Istio-routing"})} \subseteq SC!SignalFindings("no-healthy-upstream")
    BY DEF SC!SignalFindings, SC!Finding, SC!Warn, SC!Nothing, SC!When, SC!Diagnosed
  <1>4. /\ PathSource.sidecar => SC!Finding({"FAIL"}, {"Istio"}) \in SC!SignalFindings("upstream-reset")
        /\ IF {"Istio", "Istio-routing"} \cap PathReport.diagnoses # {}
           THEN SC!Nothing \in SC!SignalFindings("upstream-reset")
           ELSE SC!Finding({"uncategorized"}, {"Istio"}) \in SC!SignalFindings("upstream-reset")
    BY DEF SC!SignalFindings, SC!Finding, SC!Warn, SC!Nothing, SC!When, SC!Diagnosed, SC!hasIstioDiagnosis
  <1> QED
    BY <1>1, <1>2, <1>3, <1>4

\* A finding has the effect that ServiceCheck says.
Finds(insights, signal) == \E f \in SC!SignalFindings(signal) : Effect(insights, f.results, f.diagnoses)

LEMMA FoundAs ==
  ASSUME NEW signal, NEW results, NEW kinds, SC!Finding(results, kinds) \in SC!SignalFindings(signal),
         NEW insights, Effect(insights, results, kinds)
  PROVE  Finds(insights, signal)
  <1>1. SC!Finding(results, kinds).results = results /\ SC!Finding(results, kinds).diagnoses = kinds
    BY DEF SC!Finding
  <1> QED
    BY <1>1 DEF Finds

LEMMA JWTEffect ==
  ASSUME NEW m, NEW namespace, NEW targets, NEW status \in {"FAIL", "WARN"}
  PROVE  LET jwt == inspectIstioRequestAuthentication(m, namespace, targets, status)
             result == IF status = "FAIL" THEN "FAIL" ELSE "uncategorized"
         IN  \E warned \in SUBSET {"uncategorized"} :
                 Effect(jwt.insights, (IF jwt.found THEN {result} ELSE {}) \cup warned, IF jwt.found THEN {"Istio"} ELSE {})
  <1> DEFINE jwt == inspectIstioRequestAuthentication(m, namespace, targets, status)
             result == IF status = "FAIL" THEN "FAIL" ELSE "uncategorized"
             found == IF jwt.found THEN {Insight("Istio-JWT", status, "Istio-JWT")} ELSE {}
  <1>1. PICK lost \in {{}, {Plain("Istio-list", "WARN")}} : jwt.insights = lost \cup found
    BY DEF inspectIstioRequestAuthentication, ListWarning
  <1>2. PICK warned \in SUBSET {"uncategorized"} : Effect(lost, warned, {})
    BY PlainEffect, EffectNone
  <1>3. "Istio-JWT" \in IstioCauses
    BY DEF IstioCauses
  <1>4. Effect(found, IF jwt.found THEN {result} ELSE {}, IF jwt.found THEN {"Istio"} ELSE {})
    BY <1>3, IstioEffect, EffectNone
  <1> HIDE DEF jwt, found, result
  <1>5. Effect(jwt.insights, warned \cup (IF jwt.found THEN {result} ELSE {}),
               {} \cup (IF jwt.found THEN {"Istio"} ELSE {}))
    BY <1>1, <1>2, <1>4, EffectBoth
  <1>6. /\ warned \cup (IF jwt.found THEN {result} ELSE {}) = (IF jwt.found THEN {result} ELSE {}) \cup warned
        /\ {} \cup (IF jwt.found THEN {"Istio"} ELSE {}) = IF jwt.found THEN {"Istio"} ELSE {}
    OBVIOUS
  <1> QED
    BY <1>5, <1>6 DEF jwt, result

LEMMA JWTFinds ==
  ASSUME NEW m, NEW namespace, NEW targets
  PROVE  Finds(inspectIstioRequestAuthentication(m, namespace, targets, "FAIL").insights, "jwt-denied")
  <1> DEFINE jwt == inspectIstioRequestAuthentication(m, namespace, targets, "FAIL")
  <1>1. PICK warned \in SUBSET {"uncategorized"} :
            Effect(jwt.insights, (IF jwt.found THEN {"FAIL"} ELSE {}) \cup warned, IF jwt.found THEN {"Istio"} ELSE {})
    BY JWTEffect
  <1>2. warned = {} \/ warned = {"uncategorized"}
    OBVIOUS
  <1>3. /\ {"FAIL"} \cup {} = {"FAIL"} /\ {"FAIL"} \cup {"uncategorized"} = {"FAIL", "uncategorized"}
        /\ {} \cup {"uncategorized"} = {"uncategorized"} /\ {} \cup {} = {}
    OBVIOUS
  <1>4. SC!Nothing = SC!Finding({}, {})
    BY DEF SC!Nothing
  <1> HIDE DEF jwt
  <1>5. CASE jwt.found
    BY <1>1, <1>2, <1>3, <1>5, FoundAs, FindingsAre DEF jwt
  <1>6. CASE ~jwt.found
    BY <1>1, <1>2, <1>3, <1>4, <1>6, FoundAs, FindingsAre DEF jwt
  <1> QED
    BY <1>5, <1>6

\* Blame, a candidate or a list that could not be read, and that a list is partial.
LEMMA AuthorizationFinds ==
  ASSUME NEW m, NEW namespace, NEW targets, NEW r
  PROVE  Finds(inspectIstioAuthorizationPolicy(m, namespace, targets, r), "rbac-denied")
  <1> DEFINE list == PartialList(m, "authorization", TargetPolicyNamespaces(m, namespace))
             selecting == {policy \in Enforced(list.items) : SelectsTarget(policy, targets)}
             jwt == inspectIstioRequestAuthentication(m, namespace, targets, "WARN")
             usesJWT == \E policy \in selecting : \E rule \in policy.rules : istioAuthorizationRuleUsesJWT(rule)
             lost == IF list.failed THEN ListWarning("error") ELSE {}
             denied == {Insight("Istio-authorization", "FAIL", "Istio-deny")}
             other == (IF usesJWT THEN jwt.insights ELSE {})
                          \cup (IF usesJWT /\ jwt.found THEN {} ELSE {Explain(selecting, r)})
             all == inspectIstioAuthorizationPolicy(m, namespace, targets, r)
  <1>1. {"Istio-deny", "Istio-default-deny", "Istio-risky-deny", "Istio-CUSTOM", "Istio-unknown-denial"} \subseteq IstioCauses
    BY DEF IstioCauses
  <1>2. \E warned \in SUBSET {"uncategorized"} : Effect(lost, warned, {})
    BY ListEffect, EffectNone
  <1>3. Effect(denied, {"FAIL"}, {"Istio"})
    BY <1>1, IstioEffect
  <1>4. Effect({Explain(selecting, r)}, {"FAIL"}, {"Istio"}) \/ Effect({Explain(selecting, r)}, {"uncategorized"}, {"Istio"})
    BY <1>1, IstioEffect DEF Explain
  <1>5. \E results \in {{"FAIL"}, {"uncategorized"}, {"FAIL", "uncategorized"}} : Effect(other, results, {"Istio"})
    <2>1. PICK warned \in SUBSET {"uncategorized"} :
              Effect(jwt.insights, (IF jwt.found THEN {"uncategorized"} ELSE {}) \cup warned,
                     IF jwt.found THEN {"Istio"} ELSE {})
      BY JWTEffect
    <2> HIDE DEF jwt, selecting, usesJWT
    <2>2. CASE usesJWT /\ jwt.found
      <3>1. other = jwt.insights /\ {"uncategorized"} \cup warned = {"uncategorized"}
        BY <2>2
      <3> QED
        BY <2>1, <2>2, <3>1
    <2>3. CASE usesJWT /\ ~jwt.found
      <3>1. Effect(jwt.insights, warned, {}) /\ other = jwt.insights \cup {Explain(selecting, r)}
        <4>1. {} \cup warned = warned
          OBVIOUS
        <4> QED
          BY <2>1, <2>3, <4>1
      <3>2. \/ Effect(other, warned \cup {"FAIL"}, {} \cup {"Istio"})
            \/ Effect(other, warned \cup {"uncategorized"}, {} \cup {"Istio"})
        BY <1>4, <3>1, EffectBoth
      <3>3. /\ warned \cup {"FAIL"} \in {{"FAIL"}, {"FAIL", "uncategorized"}} /\ {} \cup {"Istio"} = {"Istio"}
            /\ warned \cup {"uncategorized"} = {"uncategorized"}
        OBVIOUS
      <3> QED
        BY <3>2, <3>3
    <2>4. CASE ~usesJWT
      <3>1. other = {Explain(selecting, r)}
        BY <2>4
      <3> QED
        BY <1>4, <3>1
    <2> QED
      BY <2>2, <2>3, <2>4
  <1>6. all = lost \/ all = lost \cup denied \/ all = lost \cup other
    BY DEF inspectIstioAuthorizationPolicy
  <1>7. \/ Effect(all, {}, {}) /\ all = lost /\ ~list.failed
        \/ \E results \in {{"FAIL"}, {"uncategorized"}, {"FAIL", "uncategorized"}} : Effect(all, results, {"Istio"})
        \/ Effect(all, {"uncategorized"}, {})
    <2> HIDE DEF all, other, denied
    <2>1. CASE all = lost
      <3>1. list.failed => lost = {Plain("Istio-list", "WARN")}
        BY DEF ListWarning
      <3> QED
        BY <2>1, <3>1, EffectNone, PlainEffect
    <2>2. PICK warned \in SUBSET {"uncategorized"} : Effect(lost, warned, {})
      BY <1>2
    <2> HIDE DEF lost, list
    <2>3. /\ warned \cup {"FAIL"} \in {{"FAIL"}, {"FAIL", "uncategorized"}} /\ {} \cup {"Istio"} = {"Istio"}
          /\ warned \cup {"uncategorized"} = {"uncategorized"}
          /\ warned \cup {"FAIL", "uncategorized"} = {"FAIL", "uncategorized"}
      OBVIOUS
    <2>4. CASE all = lost \cup denied
      <3>1. Effect(all, warned \cup {"FAIL"}, {} \cup {"Istio"})
        BY <1>3, <2>2, <2>4, EffectBoth
      <3> QED
        BY <2>3, <3>1
    <2>5. CASE all = lost \cup other
      <3>1. PICK results \in {{"FAIL"}, {"uncategorized"}, {"FAIL", "uncategorized"}} : Effect(other, results, {"Istio"})
        BY <1>5
      <3>2. Effect(all, warned \cup results, {} \cup {"Istio"})
        BY <2>2, <2>5, <3>1, EffectBoth
      <3>3. warned \cup results \in {{"FAIL"}, {"uncategorized"}, {"FAIL", "uncategorized"}}
        BY <2>3
      <3> QED
        BY <2>3, <3>2, <3>3
    <2> QED
      BY <1>6, <2>1, <2>4, <2>5
  <1>8. ~(Effect(all, {}, {}) /\ all = lost /\ ~list.failed)
    <2>1. ASSUME ~list.failed, all = lost PROVE FALSE
      <3>1. all = denied \/ all = other
        BY <2>1 DEF inspectIstioAuthorizationPolicy
      <3>2. lost = {}
        BY <2>1
      <3>3. denied # {}
        OBVIOUS
      <3>4. other # {}
        <4>1. usesJWT /\ jwt.found => Insight("Istio-JWT", "WARN", "Istio-JWT") \in jwt.insights
          BY DEF inspectIstioRequestAuthentication
        <4> HIDE DEF jwt, selecting, usesJWT
        <4> QED
          BY <4>1
      <3> HIDE DEF all, denied, other, lost
      <3> QED
        BY <2>1, <3>1, <3>2, <3>3, <3>4
    <2> QED
      BY <2>1
  <1> HIDE DEF all, lost, denied, other, list
  <1> QED
    BY <1>7, <1>8, FoundAs, FindingsAre DEF all

LEMMA RoutingFinds ==
  ASSUME NEW m, NEW service, NEW targets, NEW r, "backend" \notin PathReport.diagnoses
  PROVE  Finds(inspectIstioTrafficRouting(m, service, targets, r), "no-healthy-upstream")
  <1> DEFINE found == inspectIstioTrafficRouting(m, service, targets, r)
  <1>1. "Istio-subset" \in IstioRouting /\ "Istio-unknown-upstream" \in IstioRouting
    BY DEF IstioRouting
  <1>2. SC!Nothing = SC!Finding({}, {})
    BY DEF SC!Nothing
  <1>3. \/ \E outcome : found = ListWarning(outcome)
        \/ found = {Insight("Istio-routing", "FAIL", "Istio-subset")}
        \/ found = {Insight("Istio-routing", "WARN", "Istio-unknown-upstream")}
    BY DEF inspectIstioTrafficRouting
  <1> HIDE DEF found
  <1>4. \/ Effect(found, {}, {}) \/ Effect(found, {"uncategorized"}, {})
        \/ Effect(found, {"FAIL"}, {"Istio-routing"}) \/ Effect(found, {"uncategorized"}, {"Istio-routing"})
    BY <1>1, <1>3, ListEffect, RoutingEffect
  <1> QED
    BY <1>2, <1>4, FindingsAre, FoundAs DEF found

\* The source pod has a sidecar for ServiceCheck where it is in the mesh.
LEMMA SourceInMesh ==
  ASSUME world.source # None
  PROVE  PathSource.sidecar = InMesh(mesh, world.source) /\ \A place : RequestTo(place).source = world.source
  BY DEF PathSource, InMesh, RequestTo, newIstioHTTPRequest

LEMMA MutualTLSEffect ==
  ASSUME NEW m, NEW service, NEW targets, NEW source, NEW r
  PROVE  LET strict == inspectIstioMTLSReset(m, service, targets, source)
             mismatch == inspectIstioDestinationRuleMTLSMismatch(m, service, targets, r)
             scope == inspectIstioSidecarEgressScope(m, service, source)
         IN  /\ strict # {} => Effect(strict, {"FAIL"}, {"Istio"}) /\ ~InMesh(m, source)
             /\ mismatch # {} => Effect(mismatch, {"FAIL"}, {"Istio"}) /\ InMesh(m, r.source)
             /\ scope # {} => Effect(scope, {"uncategorized"}, {"Istio"})
  <1>1. "Istio-STRICT" \in IstioCauses /\ "Istio-DestinationRule" \in IstioCauses /\ "Istio-Sidecar" \in IstioCauses
    BY DEF IstioCauses
  <1>2. LET strict == inspectIstioMTLSReset(m, service, targets, source)
        IN  strict # {} => Effect(strict, {"FAIL"}, {"Istio"}) /\ ~InMesh(m, source)
    BY <1>1, IstioEffect DEF inspectIstioMTLSReset
  <1>3. LET mismatch == inspectIstioDestinationRuleMTLSMismatch(m, service, targets, r)
        IN  mismatch # {} => Effect(mismatch, {"FAIL"}, {"Istio"}) /\ InMesh(m, r.source)
    BY <1>1, IstioEffect DEF inspectIstioDestinationRuleMTLSMismatch
  <1>4. LET scope == inspectIstioSidecarEgressScope(m, service, source)
        IN  scope # {} => Effect(scope, {"uncategorized"}, {"Istio"})
    BY <1>1, IstioEffect DEF inspectIstioSidecarEgressScope
  <1> QED
    BY <1>2, <1>3, <1>4

LEMMA SignalFinds ==
  ASSUME world.source # None, NEW response, SignalOf(response) # "none", NEW place
  PROVE  Finds(SignalInsights(response, RequestTo(place)), SignalOf(response)) /\ SignalOf(response) \in SC!Signals
  <1> DEFINE r == RequestTo(place)
             found == SignalInsights(response, r)
             mismatch == inspectIstioDestinationRuleMTLSMismatch(mesh, world.service, Targets, r)
  <1>1. SignalOf(response) \in {"jwt-denied", "rbac-denied", "no-healthy-upstream", "upstream-reset"}
    BY DEF SignalOf
  <1>2. SC!Nothing = SC!Finding({}, {})
    BY DEF SC!Nothing
  <1> SUFFICES Finds(found, SignalOf(response))
    BY <1>1 DEF SC!Signals
  <1>3. CASE SignalOf(response) = "rbac-denied"
    BY <1>3, AuthorizationFinds DEF SignalInsights
  <1>4. CASE SignalOf(response) = "jwt-denied"
    BY <1>4, JWTFinds DEF SignalInsights
  <1>5. CASE SignalOf(response) = "no-healthy-upstream"
    <2>1. CASE "backend" \in PathReport.diagnoses
      <3>1. found = {}
        BY <1>5, <2>1 DEF SignalInsights, Blamed
      <3> QED
        BY <1>2, <1>5, <3>1, EffectNone, FoundAs, FindingsAre
    <2>2. CASE "backend" \notin PathReport.diagnoses
      BY <1>5, <2>2, RoutingFinds DEF SignalInsights, Blamed
    <2> QED
      BY <2>1, <2>2
  <1>6. CASE SignalOf(response) = "upstream-reset"
    <2>1. CASE mismatch # {} /\ found = mismatch
      <3>1. Effect(mismatch, {"FAIL"}, {"Istio"}) /\ PathSource.sidecar
        BY <2>1, MutualTLSEffect, SourceInMesh
      <3>2. Effect(found, {"FAIL"}, {"Istio"})
        BY <2>1, <3>1
      <3> HIDE DEF found
      <3> QED
        BY <1>6, <3>1, <3>2, FoundAs, FindingsAre
    <2>2. CASE {"Istio", "Istio-routing"} \cap PathReport.diagnoses # {} /\ found = {}
      BY <1>2, <1>6, <2>2, EffectNone, FoundAs, FindingsAre
    <2>3. CASE /\ {"Istio", "Istio-routing"} \cap PathReport.diagnoses = {}
               /\ found = {Insight("Istio-upstream", "WARN", "Istio-reset")}
      <3>1. Effect(found, {"uncategorized"}, {"Istio"})
        BY <2>3, IstioEffect DEF IstioCauses
      <3> HIDE DEF found
      <3> QED
        BY <1>6, <2>3, <3>1, FoundAs, FindingsAre
    <2> QED
      BY <1>6, <2>1, <2>2, <2>3 DEF SignalInsights, Blamed
  <1> QED
    BY <1>1, <1>3, <1>4, <1>5, <1>6

\* What a route is told to do has a diagnosis where the probe shows it.
RouteEffect(told) ==
    \/ told.runtime = "none" /\ (Effect(told.insights, {}, {}) \/ Effect(told.insights, {"uncategorized"}, {}))
    \/ told.runtime = "WARN" /\ Effect(told.insights, {"uncategorized"}, {"Istio"})
    \/ /\ told.runtime = "FAIL"
       /\ Effect(told.insights, {"FAIL"}, {"Istio"}) \/ Effect(told.insights, {"uncategorized"}, {"Istio"})

LEMMA RouteHasEffect ==
  ASSUME NEW m, NEW service, NEW r, NEW response
  PROVE  RouteEffect(inspectIstioIntentionalRouteBehavior(m, service, r, response))
  <1>1. ASSUME NEW diagnosis \in IstioCauses
        PROVE  \A found : /\ RouteEffect(Told(found, "WARN", "WARN", diagnosis))
                          /\ RouteEffect(Told(found, "FAIL", "FAIL", diagnosis))
                          /\ RouteEffect(Told(found, "FAIL", "WARN", diagnosis))
    BY <1>1, IstioEffect DEF Told, RouteEffect
  <1>2. {"Istio-direct-response", "Istio-redirect", "Istio-abort", "Istio-abort-risk", "Istio-delay", "Istio-delay-risk"}
            \subseteq IstioCauses
    BY DEF IstioCauses
  <1>3. RouteEffect(Untold) /\ \A outcome : RouteEffect([Untold EXCEPT !.insights = ListWarning(outcome)])
    BY EffectNone, ListEffect DEF Untold, RouteEffect
  <1>4. \A percent : Certain(percent) \in {"WARN", "FAIL"}
    BY DEF Certain
  <1>5. ASSUME NEW found PROVE RouteEffect(Shown(found, response))
    BY <1>1, <1>2, <1>3, <1>4 DEF Shown
  <1> QED
    BY <1>3, <1>5 DEF inspectIstioIntentionalRouteBehavior

\* What a probe says, as ServiceCheck has it.
LEMMA ProbeEffect ==
  ASSUME NEW check
  PROVE  /\ Effect({Probed("FAIL")}, {"FAIL"}, {}) /\ Effect({Probed("WARN")}, {"uncategorized"}, {})
         /\ Effect({Probed("runtime-unavailable")}, {"runtime-unavailable"}, {})
         /\ Effect({Probed("PASS")}, {}, {}) /\ Effect({Probed("INFO")}, {}, {})
         /\ Effect({Insight(check, "FAIL", "HTTP")}, {"FAIL"}, {"HTTP"})
         /\ Effect({Insight(check, "FAIL", "DNS")}, {"FAIL"}, {"DNS"})
         /\ Effect({Insight(check, "INFO", "unreachable")}, {}, {"unreachable"})
         /\ Effect({Insight(check, "INFO", "pod-unreachable")}, {}, {"pod-unreachable"})
  <1>1. /\ KindsOf("HTTP") = {"HTTP"} /\ KindsOf("DNS") = {"DNS"} /\ KindsOf("unreachable") = {"unreachable"}
        /\ KindsOf("pod-unreachable") = {"pod-unreachable"}
    BY KindsAre DEF PathCauses
  <1>2. /\ Effect({Probed("FAIL")}, {"FAIL"}, {}) /\ Effect({Probed("WARN")}, {"uncategorized"}, {})
        /\ Effect({Probed("runtime-unavailable")}, {"runtime-unavailable"}, {})
        /\ Effect({Probed("PASS")}, {}, {}) /\ Effect({Probed("INFO")}, {}, {})
    BY PlainEffect DEF Probed
  <1>9. ASSUME NEW diagnosis PROVE Effect({Insight(check, "FAIL", diagnosis)}, {"FAIL"}, KindsOf(diagnosis))
    BY EffectOne
  <1>3. Effect({Insight(check, "FAIL", "HTTP")}, {"FAIL"}, {"HTTP"})
    BY <1>1, <1>9
  <1>4. Effect({Insight(check, "FAIL", "DNS")}, {"FAIL"}, {"DNS"})
    BY <1>1, <1>9
  <1>5. ASSUME NEW diagnosis PROVE Effect({Insight(check, "INFO", diagnosis)}, {}, KindsOf(diagnosis))
    BY EffectOne
  <1>6. Effect({Insight(check, "INFO", "unreachable")}, {}, {"unreachable"})
    BY <1>1, <1>5
  <1>7. Effect({Insight(check, "INFO", "pod-unreachable")}, {}, {"pod-unreachable"})
    BY <1>1, <1>5
  <1> QED
    BY <1>2, <1>3, <1>4, <1>6, <1>7

LEMMA ToolEffect ==
  ASSUME NEW tool \in SUBSET {Plain("resolve", "runtime-unavailable")}
  PROVE  \E lost \in SUBSET SC!ProbeWarn : Effect(tool, lost, {}) /\ (tool = {} => lost = {})
  <1>1. tool = {} \/ tool = {Plain("resolve", "runtime-unavailable")}
    OBVIOUS
  <1>2. {} \in SUBSET SC!ProbeWarn /\ {"runtime-unavailable"} \in SUBSET SC!ProbeWarn
    BY DEF SC!ProbeWarn
  <1> QED
    BY <1>1, <1>2, EffectNone, PlainEffect

\* Three parts of what a step says.
LEMMA AddsThree ==
  ASSUME NEW a, NEW aResults, Effect(a, aResults, {}), NEW b, NEW bResults, Effect(b, bResults, {}),
         NEW c, NEW cResults, NEW kinds, Adds(c, cResults, kinds)
  PROVE  Adds(a \cup b \cup c, aResults \cup bResults \cup cResults, kinds)
  <1>1. Adds(a, aResults, {}) /\ Adds(b, bResults, {})
    BY AddsEffect
  <1>2. Adds(a \cup b, aResults \cup bResults, {} \cup {})
    BY <1>1, AddsBoth
  <1>3. Adds((a \cup b) \cup c, (aResults \cup bResults) \cup cResults, ({} \cup {}) \cup kinds)
    BY <1>2, AddsBoth
  <1>4. ({} \cup {}) \cup kinds = kinds
    OBVIOUS
  <1> QED
    BY <1>3, <1>4

LEMMA EnvoyAnswered ==
  ASSUME OpenInv, world.source # None, NEW response, SignalOf(response) # "none", NEW place,
         NEW tool, NEW lost, Effect(tool, lost, {}), SaysSignal(place, response, tool)
  PROVE  SC!answeredByEnvoy(lost)
  <1> DEFINE signal == SignalOf(response)
             new == IF signal \in signals THEN {} ELSE Once(place, SignalInsights(response, RequestTo(place)))
             insights == tool \cup {Probed("FAIL")} \cup new
  <1>1. signal \in SC!Signals /\ Finds(SignalInsights(response, RequestTo(place)), signal)
    BY SignalFinds
  <1>2. PICK f \in IF signal \in signals THEN {SC!Nothing} ELSE SC!SignalFindings(signal) : Adds(new, f.results, f.diagnoses)
    <2>1. CASE signal \in signals
      <3>1. SC!Nothing.results = {} /\ SC!Nothing.diagnoses = {}
        BY DEF SC!Nothing, SC!Finding
      <3>2. new = {}
        BY <2>1
      <3> QED
        BY <2>1, <3>1, <3>2, EffectNone, AddsEffect
    <2>2. CASE signal \notin signals
      <3>1. PICK f \in SC!SignalFindings(signal) :
                Effect(SignalInsights(response, RequestTo(place)), f.results, f.diagnoses)
        BY <1>1 DEF Finds
      <3>2. Adds(Once(place, SignalInsights(response, RequestTo(place))), f.results, f.diagnoses)
        BY <3>1, AddsOnce
      <3> QED
        BY <2>2, <3>2
    <2> QED
      BY <2>1, <2>2
  <1>3. Says("service", insights, pc) /\ signals' = signals \cup {signal}
    BY DEF SaysSignal
  <1> HIDE DEF signal, new
  <1>4. Adds(insights, lost \cup {"FAIL"} \cup f.results, f.diagnoses)
    BY <1>2, AddsThree, ProbeEffect
  <1> HIDE DEF insights
  <1>5. SC!Report(lost \cup {"FAIL"} \cup f.results, f.diagnoses)
    BY <1>3, <1>4, ReportsPath
  <1> QED
    BY <1>1, <1>2, <1>3, <1>5 DEF SC!answeredByEnvoy

\* Of what a route is told to do, what was said before adds nothing either.
LEMMA AddsShows ==
  ASSUME NEW place, NEW told, NEW results, NEW kinds, Effect(told.insights, results, kinds)
  PROVE  Adds(Shows(place, told), results, kinds)
  <1>1. Adds(Once(place, told.insights), results, kinds)
    BY AddsOnce
  <1>2. Adds(About(place, told.insights), results, kinds)
    BY EffectAbout, AddsEffect
  <1> QED BY <1>1, <1>2 DEF Shows

LEMMA PathAnswered ==
  ASSUME OpenInv, NEW response, NEW place, NEW tool, NEW lost, Effect(tool, lost, {}),
         answeredURL(place, response, tool)
  PROVE  SC!answered(lost)
  <1> DEFINE told == ToldOf(place, response)
             status == IF told.runtime = "none" THEN "PASS" ELSE told.runtime
             insights == tool \cup {Probed(status)} \cup Shows(place, told)
  <1>1. RouteEffect(told)
    BY RouteHasEffect DEF ToldOf
  <1>2. /\ Says("service", insights, pc)
        /\ reached' = IF status = "FAIL" THEN reached ELSE reached \cup {at}
    BY DEF answeredURL
  <1> HIDE DEF told
  <1>3. CASE told.runtime = "none"
    <2>1. PICK warned \in {{}, {"uncategorized"}} : Effect(told.insights, warned, {})
      BY <1>1, <1>3 DEF RouteEffect
    <2>2. Adds(insights, lost \cup {} \cup warned, {})
      BY <1>3, <2>1, AddsShows, AddsThree, ProbeEffect
    <2>3. SC!Report(lost \cup {} \cup warned, {})
      BY <1>2, <2>2, ReportsPath
    <2>4. lost \cup {} \cup {} = lost /\ lost \cup {} \cup {"uncategorized"} = lost \cup {"uncategorized"}
      OBVIOUS
    <2> QED
      BY <1>2, <1>3, <2>1, <2>3, <2>4 DEF SC!answered, SC!Warn
  <1>4. CASE told.runtime = "WARN"
    <2>1. Effect(told.insights, {"uncategorized"}, {"Istio"})
      BY <1>1, <1>4 DEF RouteEffect
    <2>2. Adds(insights, lost \cup {"uncategorized"} \cup {"uncategorized"}, {"Istio"})
      BY <1>4, <2>1, AddsShows, AddsThree, ProbeEffect
    <2>3. SC!Report(lost \cup {"uncategorized"} \cup {"uncategorized"}, {"Istio"})
      BY <1>2, <2>2, ReportsPath
    <2>4. lost \cup {"uncategorized"} \cup {"uncategorized"} = lost \cup {"uncategorized"}
      OBVIOUS
    <2> QED
      BY <1>2, <1>4, <2>3, <2>4 DEF SC!answered, SC!Warn
  <1>5. CASE told.runtime = "FAIL"
    <2>1. PICK result \in {"FAIL", "uncategorized"} : Effect(told.insights, {result}, {"Istio"})
      BY <1>1, <1>5 DEF RouteEffect
    <2>2. Adds(insights, lost \cup {"FAIL"} \cup {result}, {"Istio"})
      BY <1>5, <2>1, AddsShows, AddsThree, ProbeEffect
    <2>3. SC!Report(lost \cup {"FAIL"} \cup {result}, {"Istio"})
      BY <1>2, <2>2, ReportsPath
    <2>4. PICK warned \in SUBSET {"uncategorized"} : lost \cup {"FAIL"} \cup {result} = lost \cup {"FAIL"} \cup warned
      <3>1. lost \cup {"FAIL"} \cup {"FAIL"} = lost \cup {"FAIL"} \cup {}
        OBVIOUS
      <3> QED
        BY <3>1
    <2> QED
      BY <1>2, <1>5, <2>3, <2>4 DEF SC!answered, SC!Warn
  <1> QED
    BY <1>1, <1>3, <1>4, <1>5 DEF RouteEffect

\* The cause that is named for a URL, and the diagnosis that is left to the path.
LEMMA CauseEffect ==
  ASSUME NEW place, NEW response
  PROVE  \E warned \in SUBSET {"uncategorized"} :
             \/ Adds(Explained(place, response), warned, {"Istio"})
             \/ Adds(Explained(place, response), warned \cup {"FAIL"}, {"Istio"})
             \/ Adds(Explained(place, response), warned, SC!When(SC!UnreachableDiagnosed, {"unreachable"}))
  <1> DEFINE r == RequestTo(place)
             told == ToldOf(place, response)
             strict == inspectIstioMTLSReset(mesh, world.service, Targets, world.source)
             mismatch == inspectIstioDestinationRuleMTLSMismatch(mesh, world.service, Targets, r)
             scope == inspectIstioSidecarEgressScope(mesh, world.service, world.source)
             left == IF Excused THEN {} ELSE {Insight("none", "INFO", "unreachable")}
             cause == FailureCause(place, response)
             named == Shows(place, told)
             all == Explained(place, response)
             when == SC!When(SC!UnreachableDiagnosed, {"unreachable"})
  <1>1. RouteEffect(told)
    BY RouteHasEffect DEF ToldOf
  <1>2. /\ strict # {} => Effect(strict, {"FAIL"}, {"Istio"})
        /\ mismatch # {} => Effect(mismatch, {"FAIL"}, {"Istio"})
        /\ scope # {} => Effect(scope, {"uncategorized"}, {"Istio"})
    BY MutualTLSEffect
  <1>3. Effect(left, {}, when)
    <2>1. SC!UnreachableDiagnosed <=> ~Excused
      BY DEF SC!UnreachableDiagnosed, SC!Diagnosed, Excused, Blamed, PathService
    <2> QED
      BY <2>1, ProbeEffect, EffectNone DEF SC!When
  <1>4. \/ strict # {} /\ cause = strict
        \/ mismatch # {} /\ cause = mismatch
        \/ scope # {} /\ cause = scope
        \/ cause = left
    BY DEF FailureCause
  <1>a. all = named \cup (IF told.runtime # "none" THEN {} ELSE Once(place, cause))
    BY DEF Explained
  <1> HIDE DEF told, strict, mismatch, scope, left, cause, all, when
  <1>b. \A results, kinds : Effect(told.insights, results, kinds) => Adds(named, results, kinds)
    BY AddsShows
  <1> HIDE DEF named
  <1>c. \A results, kinds : Effect(cause, results, kinds) => Adds(Once(place, cause), results, kinds)
    BY AddsOnce
  <1>5. CASE told.runtime # "none"
    <2>1. PICK result \in {"FAIL", "uncategorized"} : Effect(told.insights, {result}, {"Istio"})
      BY <1>1, <1>5 DEF RouteEffect
    <2>2. all = named
      BY <1>a, <1>5
    <2>3. Adds(all, {result}, {"Istio"})
      BY <1>b, <2>1, <2>2
    <2>4. {} \cup {"FAIL"} = {"FAIL"} /\ {} \in SUBSET {"uncategorized"} /\ {"uncategorized"} \in SUBSET {"uncategorized"}
      OBVIOUS
    <2> QED
      BY <2>1, <2>3, <2>4 DEF all
  <1>6. CASE told.runtime = "none"
    <2>1. PICK warned \in {{}, {"uncategorized"}} : Effect(told.insights, warned, {})
      BY <1>1, <1>6 DEF RouteEffect
    <2>2. warned \in SUBSET {"uncategorized"} /\ warned \cup {"uncategorized"} \in SUBSET {"uncategorized"}
      OBVIOUS
    <2>3. \A kinds : {} \cup kinds = kinds
      OBVIOUS
    <2>7. ASSUME NEW results, NEW kinds, Effect(cause, results, kinds)
          PROVE  Adds(all, warned \cup results, kinds)
      <3>1. Adds(named, warned, {}) /\ Adds(Once(place, cause), results, kinds)
        BY <1>b, <1>c, <2>1, <2>7
      <3>2. Adds(named \cup Once(place, cause), warned \cup results, {} \cup kinds)
        BY <3>1, AddsBoth
      <3> QED
        BY <1>6, <1>a, <2>3, <3>2
    <2>4. CASE (strict # {} /\ cause = strict) \/ (mismatch # {} /\ cause = mismatch)
      <3>1. Adds(all, warned \cup {"FAIL"}, {"Istio"})
        BY <1>2, <2>4, <2>7
      <3> QED
        BY <2>2, <3>1 DEF all
    <2>5. CASE scope # {} /\ cause = scope
      <3>1. Adds(all, warned \cup {"uncategorized"}, {"Istio"})
        BY <1>2, <2>5, <2>7
      <3> QED
        BY <2>2, <3>1 DEF all
    <2>6. CASE cause = left
      <3>1. Adds(all, warned \cup {}, when)
        BY <1>3, <2>6, <2>7
      <3>2. warned \cup {} = warned
        OBVIOUS
      <3> QED
        BY <2>2, <3>1, <3>2 DEF all, when
    <2> QED
      BY <1>4, <2>4, <2>5, <2>6
  <1> QED
    BY <1>5, <1>6

LEMMA PathFailed ==
  ASSUME OpenInv, NEW response, NEW place, NEW tool, NEW lost, Effect(tool, lost, {}),
         failedURL(place, response, tool)
  PROVE  SC!failed(lost)
  <1> DEFINE cause == Explained(place, response)
  <1>1. CASE response.text = "no-tool"
    <2>1. Says("service", tool \cup {Probed("runtime-unavailable")}, pc)
      BY <1>1 DEF failedURL
    <2>2. Effect(tool \cup {Probed("runtime-unavailable")}, lost \cup {"runtime-unavailable"}, {} \cup {})
      BY ProbeEffect, EffectBoth
    <2>3. SC!Report(lost \cup {"runtime-unavailable"}, {} \cup {})
      BY <2>1, <2>2, AddsEffect, ReportsPath
    <2>4. {} \cup {} = {}
      OBVIOUS
    <2> QED
      BY <2>3, <2>4 DEF SC!failed, SC!ProbeWarn
  <1>2. CASE response.text = "refused"
    <2>1. Says("service", tool \cup {Insight("probe", "FAIL", "HTTP")}, pc)
      BY <1>2 DEF failedURL
    <2>2. Effect(tool \cup {Insight("probe", "FAIL", "HTTP")}, lost \cup {"FAIL"}, {} \cup {"HTTP"})
      BY ProbeEffect, EffectBoth
    <2>3. SC!Report(lost \cup {"FAIL"}, {} \cup {"HTTP"})
      BY <2>1, <2>2, AddsEffect, ReportsPath
    <2>4. {} \cup {"HTTP"} = {"HTTP"}
      OBVIOUS
    <2> QED
      BY <2>3, <2>4 DEF SC!failed
  <1>3. CASE response.text \notin {"no-tool", "refused"}
    <2>1. Says("service", tool \cup ({Probed("FAIL")} \cup cause), pc)
      BY <1>3 DEF failedURL
    <2>2. tool \cup ({Probed("FAIL")} \cup cause) = tool \cup {Probed("FAIL")} \cup cause
      OBVIOUS
    <2>3. PICK warned \in SUBSET {"uncategorized"} :
              \/ Adds(cause, warned, {"Istio"}) \/ Adds(cause, warned \cup {"FAIL"}, {"Istio"})
              \/ Adds(cause, warned, SC!When(SC!UnreachableDiagnosed, {"unreachable"}))
      BY CauseEffect
    <2> HIDE DEF cause
    <2>4. ASSUME NEW results, NEW kinds, Adds(cause, results, kinds)
          PROVE  SC!Report(lost \cup {"FAIL"} \cup results, kinds)
      <3>1. Adds(tool \cup {Probed("FAIL")} \cup cause, lost \cup {"FAIL"} \cup results, kinds)
        BY <2>4, AddsThree, ProbeEffect
      <3> QED
        BY <2>1, <2>2, <3>1, ReportsPath
    <2>5. lost \cup {"FAIL"} \cup (warned \cup {"FAIL"}) = lost \cup {"FAIL"} \cup warned
      OBVIOUS
    <2> QED
      BY <2>3, <2>4, <2>5 DEF SC!failed, SC!Warn
  <1> QED
    BY <1>1, <1>2, <1>3

\* The probes run from a pod, at a port of the Service, after the policies.
PathInv ==
    /\ RuntimeInv
    /\ mesh # None => Chosen(world.service).port # 0
    /\ stage = "target" => pc = "native"
    /\ stage \in {"urls", "pods"} => SC!Probed /\ pc = "finish-service"

\* What ServiceCheck sees of the cluster does not change.
LEMMA PathStays ==
  ASSUME UNCHANGED <<world, flags, mesh>>
  PROVE  /\ UNCHANGED <<PathOptions, PathService, PathPods, PathSource, Chosen(world.service).port>>
         /\ SC!Probed' <=> SC!Probed
  <1>1. UNCHANGED <<PathOptions, PathService, PathPods, PathSource, Chosen(world.service).port>>
    BY DEF PathOptions, PathService, PathPods, PathSource, Targets, Chosen
  <1> QED
    BY <1>1 DEF SC!Probed, SC!PortFound, SC!Panics, SC!Selected, SC!Listed

LEMMA PathInit == RuntimeInit => PathInv
  <1> SUFFICES ASSUME RuntimeInit PROVE PathInv
    OBVIOUS
  <1>1. RuntimeInv /\ pc = "native" /\ stage \notin {"urls", "pods"}
    BY RuntimeInitOpen DEF RuntimeInit, Init
  <1>2. ASSUME mesh # None PROVE Chosen(world.service).port # 0
    <2>1. PICK path \in MeshPaths : path.world = world
      BY <1>2 DEF RuntimeInit
    <2>2. HasChosen(world.service)
      BY <2>1, RuntimeAssumption
    <2>3. world \in World /\ world.service.chosen <= Len(world.service.ports)
      BY CommandsAssumption DEF RuntimeInit, Init
    <2>4. world.service.ports \in Seq(ServicePort) /\ world.service.chosen \in 1..Len(world.service.ports)
      BY <2>2, <2>3 DEF World, Service, HasChosen
    <2>5. world.service.ports[world.service.chosen] \in ServicePort
      BY <2>4
    <2> QED
      BY <2>5 DEF Chosen, ServicePort, PortNumber
  <1> QED
    BY <1>1, <1>2 DEF PathInv

LEMMA PathStep ==
  ASSUME PathInv, [RuntimeNext]_allVars
  PROVE  PathInv'
  <1>1. RuntimeInv'
    BY RuntimeStepKept DEF PathInv
  <1>2. CASE UNCHANGED allVars
    BY <1>1, <1>2, PathStays DEF PathInv, allVars, vars, runtimeVars
  <1>3. CASE mesh = None /\ Next /\ UNCHANGED runtimeVars
    BY <1>1, <1>3 DEF PathInv, RuntimeInv, runtimeVars
  <1>4. CASE mesh # None /\ MeshStep
    <2>1. ASSUME NEW insights, NEW next, Says("service", insights, next), UNCHANGED mesh
          PROVE  UNCHANGED <<world, flags, mesh>> /\ pc' = next
      BY <2>1 DEF Says
    <2>2. CASE targetLayers
      BY <1>1, <1>4, <2>1, <2>2, PathStays DEF PathInv, targetLayers
    <2>3. CASE policyLayers
      <3>1. UNCHANGED <<world, flags, mesh, stage>> /\ stage = "policies"
        BY <2>3 DEF policyLayers, native, calico, host, cilium, Says, runtimeVars
      <3> QED
        BY <1>1, <3>1, PathStays DEF PathInv
    <2>4. CASE checkRuntimePath
      <3>1. UNCHANGED <<world, flags, mesh>> /\ pc' = pc
        BY <2>4 DEF checkRuntimePath, Says
      <3>2. stage' \in {"urls", "done"} /\ (stage' = "urls" => SC!Probed) /\ pc = "finish-service"
        BY <2>4 DEF checkRuntimePath
      <3> QED
        BY <1>1, <3>1, <3>2, PathStays DEF PathInv
    <2>5. CASE probeURL
      <3>1. UNCHANGED <<world, flags, mesh>> /\ pc' = pc
        BY <2>5 DEF probeURL, SaysSignal, answeredURL, failedURL, Says
      <3>2. UNCHANGED stage
        BY <2>5 DEF probeURL
      <3> QED
        BY <1>1, <3>1, <3>2, PathStays DEF PathInv
    <2>6. CASE endOfURLs
      <3>1. UNCHANGED <<world, flags, mesh>> /\ pc' = pc /\ stage = "urls" /\ stage' \in {"pods", "done"}
        BY <2>6 DEF endOfURLs, Says
      <3> QED
        BY <1>1, <3>1, PathStays DEF PathInv
    <2>7. CASE probePod
      <3>1. UNCHANGED <<world, flags, mesh>> /\ pc' = pc
        BY <2>7 DEF probePod, SaysSignal, Says
      <3>2. stage = "pods" /\ stage' \in {"pods", "done"}
        BY <2>7 DEF probePod
      <3> QED
        BY <1>1, <3>1, <3>2, PathStays DEF PathInv
    <2>8. CASE finishRuntime
      <3>1. UNCHANGED <<world, flags, mesh, stage>> /\ stage = "done"
        BY <2>8 DEF finishRuntime, Finish, runtimeVars
      <3> QED
        BY <1>1, <3>1, PathStays DEF PathInv
    <2> QED
      BY <1>4, <2>2, <2>3, <2>4, <2>5, <2>6, <2>7, <2>8 DEF MeshStep
  <1> QED
    BY <1>2, <1>3, <1>4 DEF RuntimeNext

LEMMA PathPodsAre ==
  ASSUME world \in World
  PROVE  /\ Len(PathPods) = Len(Targets) /\ (PathPods = <<>> <=> Targets = <<>>)
         /\ \A i \in DOMAIN Targets : i \in DOMAIN PathPods
  <1>1. Targets \in Seq(Pods)
    BY DEF World, Targets
  <1>2. DOMAIN Targets = 1..Len(Targets) /\ Len(Targets) \in Nat
    BY <1>1
  <1> DEFINE Pod(i) == PathPods[i]
  <1>3. PathPods = [i \in 1..Len(Targets) |-> Pod(i)]
    BY <1>2 DEF PathPods
  <1> HIDE DEF Pod
  <1>4. Len(PathPods) = Len(Targets) /\ DOMAIN PathPods = 1..Len(Targets)
    BY <1>2, <1>3
  <1> QED
    BY <1>1, <1>2, <1>3, <1>4

\* The sources of a path that is probed.
LEMMA ProbedFrom ==
  ASSUME SC!Probed
  PROVE  world.source # None
  BY DEF SC!Probed, PathSource

LEMMA PathStart ==
  ASSUME PathInv, mesh # None, checkRuntimePath
  PROVE  SC!checkRuntimePath
  <1> DEFINE resolver == {Plain("resolv.conf", IF access.resolvConf THEN "PASS" ELSE "WARN")}
             split == IF Blamed({"backend"}) THEN {}
                      ELSE inspectIstioWeightedRouteRisks(mesh, world.service, Targets, RequestTo("name"))
  <1>1. PathLayer = "runtime"
    BY DEF checkRuntimePath, PathLayer
  <1>2. /\ UNCHANGED <<PathOptions, PathService, PathPods, PathSource, Chosen(world.service).port>>
        /\ UNCHANGED <<reached, signals>>
    BY PathStays DEF checkRuntimePath, Says
  <1>3. OpenInv
    BY DEF PathInv, RuntimeInv
  <1>4. CASE SC!Probed
    <2>1. Says("service", resolver \cup About("name", split), pc) /\ stage' = "urls" /\ at' = 1
      BY <1>4 DEF checkRuntimePath
    <2>2. PathLayer' = "urls"
      BY <2>1 DEF PathLayer
    <2>3. PICK warned \in {{}, {"uncategorized"}} : Effect(resolver, warned, {})
      BY PlainEffect
    <2>4. \/ \E more \in {{}, {"uncategorized"}} : Effect(split, more, {})
          \/ "backend" \notin PathReport.diagnoses /\ Effect(split, {"uncategorized"}, {"Istio-routing"})
      <3>1. CASE Blamed({"backend"})
        BY <3>1, EffectNone
      <3>2. CASE ~Blamed({"backend"})
        <4>1. "backend" \notin PathReport.diagnoses
          BY <3>2 DEF Blamed
        <4>2. split \in {{}, {Insight("Istio-routing", "WARN", "Istio-split")}} \/ \E outcome : split = ListWarning(outcome)
          BY <3>2 DEF inspectIstioWeightedRouteRisks
        <4>3. Effect({Insight("Istio-routing", "WARN", "Istio-split")}, {"uncategorized"}, {"Istio-routing"})
          BY RoutingEffect DEF IstioRouting
        <4> HIDE DEF split
        <4> QED
          BY <4>1, <4>2, <4>3, EffectNone, ListEffect
      <3> QED
        BY <3>1, <3>2
    <2> HIDE DEF split, resolver
    <2>5. ASSUME NEW more, NEW kinds, Effect(split, more, kinds) PROVE SC!Report(warned \cup more, {} \cup kinds)
      <3>1. Effect(resolver \cup About("name", split), warned \cup more, {} \cup kinds)
        BY <2>3, <2>5, EffectAbout, EffectBoth
      <3> QED
        BY <1>3, <2>1, <3>1, AddsEffect, ReportsPath
    <2>6. \/ \E all \in SUBSET {"uncategorized"} : SC!Report(all, {})
          \/ "backend" \notin PathReport.diagnoses /\ SC!Report({"uncategorized"}, {"Istio-routing"})
      <3>1. CASE \E more \in {{}, {"uncategorized"}} : Effect(split, more, {})
        <4>1. PICK more \in {{}, {"uncategorized"}} : Effect(split, more, {})
          BY <3>1
        <4>2. SC!Report(warned \cup more, {} \cup {}) /\ {} \cup {} = {} /\ warned \cup more \in SUBSET {"uncategorized"}
          BY <4>1, <2>5
        <4> QED
          BY <4>2
      <3>2. CASE "backend" \notin PathReport.diagnoses /\ Effect(split, {"uncategorized"}, {"Istio-routing"})
        <4>1. SC!Report(warned \cup {"uncategorized"}, {} \cup {"Istio-routing"})
          BY <3>2, <2>5
        <4>2. warned \cup {"uncategorized"} = {"uncategorized"} /\ {} \cup {"Istio-routing"} = {"Istio-routing"}
          OBVIOUS
        <4> QED
          BY <3>2, <4>1, <4>2
      <3> QED
        BY <2>4, <3>1, <3>2
    <2> QED
      BY <1>1, <1>2, <1>4, <2>1, <2>2, <2>6 DEF SC!checkRuntimePath, SC!Warn, SC!Diagnosed
  <1>5. CASE ~SC!Probed
    <2>1. Says("service", {Plain("service-path", "SKIP")}, pc) /\ stage' = "done" /\ UNCHANGED at
      BY <1>5 DEF checkRuntimePath
    <2>2. PathLayer' = "nodePort" /\ SC!After("runtime") = "nodePort"
      BY <2>1 DEF PathLayer, SC!After, SC!Order
    <2>3. ~SC!Panics
      BY DEF SC!Panics, PathInv
    <2>4. SC!Report({}, {})
      BY <1>3, <2>1, PlainEffect, AddsEffect, ReportsPath
    <2>5. SC!Silent
      BY <2>4, PathReportIs DEF SC!Silent, SC!Report
    <2> QED
      BY <1>1, <1>2, <1>5, <2>1, <2>2, <2>3, <2>5 DEF SC!checkRuntimePath
  <1> QED
    BY <1>4, <1>5

LEMMA PathURL ==
  ASSUME PathInv, mesh # None, probeURL
  PROVE  SC!probeURL
  <1>1. PathLayer = "urls" /\ SC!Probed /\ OpenInv
    BY DEF probeURL, PathLayer, PathInv, RuntimeInv
  <1>2. world.source # None
    BY <1>1, ProbedFrom
  <1>3. UNCHANGED <<world, flags, mesh, stage>> /\ at \in 1..SC!NumURLs /\ at' = at + 1
    BY DEF probeURL, SaysSignal, answeredURL, failedURL, Says
  <1>4. UNCHANGED <<PathOptions, PathService, PathPods, PathSource, Chosen(world.service).port, PathLayer>>
    BY <1>3, PathStays DEF PathLayer
  <1>5. SC!NumURLs \in {1, 2}
    BY DEF SC!NumURLs
  <1>6. Place(at) = "name" <=> SC!HasName(at)
    BY <1>3, <1>5 DEF Place, SC!HasName
  <1>7. CASE /\ Place(at) = "name" /\ UNCHANGED <<reached, signals>>
             /\ Says("service", {Insight("resolve", "FAIL", IF Blamed({"runtime-DNS-resolver"}) THEN "none" ELSE "DNS")}, pc)
    <2>1. Effect({Insight("resolve", "FAIL", IF Blamed({"runtime-DNS-resolver"}) THEN "none" ELSE "DNS")}, {"FAIL"},
                 SC!When(~SC!Diagnosed("runtime-DNS-resolver"), {"DNS"}))
      <3>1. CASE "runtime-DNS-resolver" \in PathReport.diagnoses
        BY <3>1, PlainEffect DEF Blamed, SC!When, SC!Diagnosed, Plain
      <3>2. CASE "runtime-DNS-resolver" \notin PathReport.diagnoses
        BY <3>2, ProbeEffect DEF Blamed, SC!When, SC!Diagnosed
      <3> QED
        BY <3>1, <3>2
    <2>2. SC!Report({"FAIL"}, SC!When(~SC!Diagnosed("runtime-DNS-resolver"), {"DNS"}))
      BY <1>1, <1>7, <2>1, AddsEffect, ReportsPath
    <2> QED
      BY <1>1, <1>3, <1>4, <1>6, <1>7, <2>2 DEF SC!probeURL
  <1>8. CASE \E response \in Answers(Place(at)) \cup Failures, tool \in SUBSET {Plain("resolve", "runtime-unavailable")} :
               /\ tool # {} => Place(at) = "name"
               /\ \/ SignalOf(response) # "none" /\ SaysSignal(Place(at), response, tool) /\ UNCHANGED reached
                  \/ /\ SignalOf(response) = "none" /\ response.ok /\ answeredURL(Place(at), response, tool)
                     /\ UNCHANGED signals
                  \/ ~response.ok /\ failedURL(Place(at), response, tool) /\ UNCHANGED <<reached, signals>>
    <2>1. PICK response \in Answers(Place(at)) \cup Failures, tool \in SUBSET {Plain("resolve", "runtime-unavailable")} :
               /\ tool # {} => Place(at) = "name"
               /\ \/ SignalOf(response) # "none" /\ SaysSignal(Place(at), response, tool) /\ UNCHANGED reached
                  \/ /\ SignalOf(response) = "none" /\ response.ok /\ answeredURL(Place(at), response, tool)
                     /\ UNCHANGED signals
                  \/ ~response.ok /\ failedURL(Place(at), response, tool) /\ UNCHANGED <<reached, signals>>
      BY <1>8
    <2>2. PICK lost \in SUBSET SC!ProbeWarn : Effect(tool, lost, {}) /\ (tool = {} => lost = {})
      BY ToolEffect
    <2>3. lost # {} => SC!HasName(at)
      BY <1>6, <2>1, <2>2
    <2>4. \/ SC!answeredByEnvoy(lost) /\ UNCHANGED reached
          \/ SC!answered(lost) /\ UNCHANGED signals
          \/ SC!failed(lost) /\ UNCHANGED <<reached, signals>>
      BY <1>1, <1>2, <2>1, <2>2, EnvoyAnswered, PathAnswered, PathFailed
    <2> QED
      BY <1>1, <1>3, <1>4, <2>3, <2>4 DEF SC!probeURL
  <1> QED
    BY <1>7, <1>8 DEF probeURL

LEMMA PathEnd ==
  ASSUME PathInv, mesh # None, world \in World, endOfURLs
  PROVE  SC!endOfURLs
  <1> DEFINE skipped == SC!DirectPort = 0 \/ Targets = <<>>
             insights == IF SC!DirectPort = 0 THEN {Plain("direct-target-pod", "SKIP")} ELSE {}
  <1>1. PathLayer = "urls" /\ OpenInv
    BY DEF endOfURLs, PathLayer, PathInv, RuntimeInv
  <1>2. UNCHANGED <<PathOptions, PathService, PathPods, PathSource, Chosen(world.service).port>>
    BY PathStays DEF endOfURLs, Says
  <1>3. PathLayer' = IF SC!DirectPort = 0 \/ PathPods = <<>> THEN SC!After("urls") ELSE "direct"
    BY PathPodsAre DEF endOfURLs, PathLayer, SC!After, SC!Order
  <1>4. Says("service", insights, pc)
    BY DEF endOfURLs
  <1>5. Effect(insights, {}, {})
    BY PlainEffect, EffectNone
  <1>6. UNCHANGED PathReport
    BY <1>1, <1>4, <1>5, AddsEffect, ReportsPath, PathReportIs DEF SC!Report
  <1>7. at > SC!NumURLs /\ at' = (IF SC!DirectPort = 0 \/ PathPods = <<>> THEN 0 ELSE 1) /\ UNCHANGED <<reached, signals>>
    BY PathPodsAre DEF endOfURLs
  <1> QED
    BY <1>1, <1>2, <1>3, <1>6, <1>7 DEF SC!endOfURLs

\* A pod that did not answer.
LEMMA PodFailed ==
  ASSUME OpenInv, world.source # None, NEW response, Says("service", failedPod(response), pc)
  PROVE  SC!Silent \/ SC!failedDirectly
  <1> DEFINE strict == IF response.text = "reset" THEN inspectIstioMTLSReset(mesh, world.service, Targets, world.source)
                       ELSE {}
             last == IF Blamed({"Istio", "Istio-routing", "policy", "targetPort-mismatch"}) THEN {}
                     ELSE {Insight("none", "INFO", "pod-unreachable")}
             cause == IF strict # {} THEN strict ELSE last
             shared == reached # {} /\ SC!pathHasIstioSidecar
  <1>1. ASSUME NEW insights, NEW results, NEW kinds, Says("service", insights, pc), Effect(insights, results, kinds)
        PROVE  SC!Report(results, kinds)
    BY <1>1, AddsEffect, ReportsPath
  <1>2. CASE response.text = "no-tool"
    <2>1. failedPod(response) = {Probed("runtime-unavailable")}
      BY <1>2 DEF failedPod
    <2>2. SC!Report({"runtime-unavailable"}, {})
      BY <1>1, <2>1, ProbeEffect
    <2> QED
      BY <2>2 DEF SC!failedDirectly, SC!ProbeWarn
  <1>3. CASE response.text # "no-tool" /\ shared
    <2>1. failedPod(response) = {Probed("INFO")}
      BY <1>3 DEF failedPod
    <2>2. SC!Report({}, {})
      BY <1>1, <2>1, ProbeEffect
    <2> QED
      BY <2>2, PathReportIs DEF SC!Report, SC!Silent
  <1>4. CASE response.text = "refused" /\ ~shared
    <2>1. failedPod(response) = {Insight("probe", "FAIL", "HTTP")}
      BY <1>4 DEF failedPod
    <2>2. SC!Report({"FAIL"}, {"HTTP"})
      BY <1>1, <2>1, ProbeEffect
    <2> QED
      BY <1>4, <2>2 DEF SC!failedDirectly
  <1>5. CASE response.text \notin {"no-tool", "refused"} /\ ~shared
    <2>1. failedPod(response) = {Probed("FAIL")} \cup Once("pod", cause)
      BY <1>5 DEF failedPod
    <2>2. ASSUME NEW kinds, NEW results \in {{}, {"FAIL"}}, Effect(cause, results, kinds) PROVE SC!Report({"FAIL"}, kinds)
      <3> HIDE DEF cause
      <3>1. Adds({Probed("FAIL")}, {"FAIL"}, {}) /\ Adds(Once("pod", cause), results, kinds)
        BY <2>2, AddsEffect, AddsOnce, ProbeEffect
      <3>2. Adds({Probed("FAIL")} \cup Once("pod", cause), {"FAIL"} \cup results, {} \cup kinds)
        BY <3>1, AddsBoth
      <3>3. {"FAIL"} \cup results = {"FAIL"} /\ {} \cup kinds = kinds
        OBVIOUS
      <3> QED
        BY <2>1, <3>2, <3>3, ReportsPath
    <2>3. CASE strict # {}
      <3>1. Effect(cause, {"FAIL"}, {"Istio"}) /\ ~PathSource.sidecar
        BY <2>3, MutualTLSEffect, SourceInMesh
      <3>2. SC!Report({"FAIL"}, {"Istio"})
        BY <2>2, <3>1
      <3> QED
        BY <1>5, <3>1, <3>2 DEF SC!failedDirectly
    <2>4. CASE strict = {}
      <3>1. Effect(cause, {}, SC!When(SC!PodUnreachableDiagnosed, {"pod-unreachable"}))
        <4>1. SC!PodUnreachableDiagnosed <=> ~Blamed({"Istio", "Istio-routing", "policy", "targetPort-mismatch"})
          BY DEF SC!PodUnreachableDiagnosed, SC!Diagnosed, SC!hasIstioDiagnosis, Blamed
        <4> QED
          BY <2>4, <4>1, ProbeEffect, EffectNone DEF SC!When
      <3>2. SC!Report({"FAIL"}, SC!When(SC!PodUnreachableDiagnosed, {"pod-unreachable"}))
        BY <2>2, <3>1
      <3> QED
        BY <1>5, <3>2 DEF SC!failedDirectly
    <2> QED
      BY <2>3, <2>4
  <1> QED
    BY <1>2, <1>3, <1>4, <1>5

LEMMA PathPod ==
  ASSUME PathInv, mesh # None, world \in World, probePod
  PROVE  SC!probePod
  <1>1. PathLayer = "direct" /\ SC!Probed /\ OpenInv
    BY DEF probePod, PathLayer, PathInv, RuntimeInv
  <1>2. world.source # None
    BY <1>1, ProbedFrom
  <1>3. UNCHANGED <<world, flags, mesh, reached>>
    BY DEF probePod, SaysSignal, Says
  <1>4. UNCHANGED <<PathOptions, PathService, PathPods, PathSource, Chosen(world.service).port>>
    BY <1>3, PathStays
  <1>5. /\ at' = IF at < Len(PathPods) THEN at + 1 ELSE 0
        /\ PathLayer' = IF at < Len(PathPods) THEN "direct" ELSE SC!After("direct")
    BY PathPodsAre DEF probePod, PathLayer, SC!After, SC!Order
  <1>6. CASE ~SC!Reachable(PathPods[at])
    <2>1. Says("service", {}, pc) /\ UNCHANGED signals
      BY <1>6 DEF probePod
    <2>2. SC!Silent
      BY <1>1, <2>1, EffectNone, AddsEffect, ReportsPath, PathReportIs DEF SC!Report, SC!Silent
    <2> QED
      BY <1>1, <1>3, <1>4, <1>5, <2>1, <2>2 DEF SC!probePod
  <1>7. CASE SC!Reachable(PathPods[at])
    <2>1. PICK response : IF SignalOf(response) # "none" THEN SaysSignal("pod", response, {})
                          ELSE /\ Says("service", IF response.ok THEN {Probed("PASS")} ELSE failedPod(response), pc)
                               /\ UNCHANGED signals
      BY <1>7 DEF probePod
    <2>2. CASE SignalOf(response) # "none"
      <3>1. SC!answeredByEnvoy({})
        BY <1>1, <1>2, <2>1, <2>2, EnvoyAnswered, EffectNone
      <3> QED
        BY <1>1, <1>3, <1>4, <1>5, <1>7, <3>1 DEF SC!probePod
    <2>3. CASE SignalOf(response) = "none"
      <3>1. SC!Silent \/ SC!failedDirectly
        <4>1. CASE response.ok
          <5>1. Says("service", {Probed("PASS")}, pc)
            BY <2>1, <2>3, <4>1
          <5>2. SC!Report({}, {})
            BY <1>1, <5>1, ProbeEffect, AddsEffect, ReportsPath
          <5> QED
            BY <5>2, PathReportIs DEF SC!Report, SC!Silent
        <4>2. CASE ~response.ok
          BY <1>1, <1>2, <2>1, <2>3, <4>2, PodFailed
        <4> QED
          BY <4>1, <4>2
      <3> QED
        BY <1>1, <1>3, <1>4, <1>5, <1>7, <2>1, <2>3, <3>1 DEF SC!probePod
    <2> QED
      BY <2>2, <2>3
  <1> QED
    BY <1>6, <1>7

(***************************************************************************)
(* Whatever the objects of Istio are, a step of the runtime layer is one   *)
(* that ServiceCheck allows there.                                         *)
(***************************************************************************)
THEOREM RuntimeRefinesCheck == RuntimeSpec => RuntimeRefines
  <1> DEFINE Runs == mesh # None /\ pc = "finish-service" /\ stage # "done"
             Step == Runs => SC!checkRuntimePath \/ SC!probeURL \/ SC!endOfURLs \/ SC!probePod
  <1>1. PathInv /\ SaidInv /\ [RuntimeNext]_allVars => [Step]_allVars
    <2> SUFFICES ASSUME PathInv, SaidInv, RuntimeNext, Runs
                 PROVE  SC!checkRuntimePath \/ SC!probeURL \/ SC!endOfURLs \/ SC!probePod
      OBVIOUS
    <2>1. world \in World
      BY CommandsAssumption DEF SaidInv
    <2>2. MeshStep /\ ~targetLayers /\ ~policyLayers /\ ~finishRuntime
      BY DEF RuntimeNext, PathInv, targetLayers, policyLayers, native, calico, host, cilium, finishRuntime
    <2> QED
      BY <2>1, <2>2, PathStart, PathURL, PathEnd, PathPod DEF MeshStep
  <1>2. RuntimeSpec => []PathInv
    BY PathInit, PathStep, PTL DEF RuntimeSpec
  <1> QED
    BY <1>1, <1>2, VerdictsStay, PTL DEF RuntimeSpec, RuntimeRefines


-------------------------------------------------------------------------------
(* What Istio is blamed for.                                               *)

\* The diagnoses of a set of findings.
Speaks(insights, diagnoses) == \A i \in insights : i.diagnosis \in diagnoses

Denials == {"none", "Istio-JWT", "Istio-deny", "Istio-default-deny", "Istio-risky-deny", "Istio-CUSTOM", "Istio-unknown-denial"}
Behaviors ==
    {"none", "Istio-direct-response", "Istio-redirect", "Istio-abort", "Istio-abort-risk", "Istio-delay",
     "Istio-delay-risk"}
Routings == {"none", "Istio-subset", "Istio-unknown-upstream", "Istio-split"}
Others == {"none", "Istio-JWT", "Istio-reset", "Istio-Sidecar", "Istio-split", "unreachable", "pod-unreachable"}

LEMMA SpeaksOne == ASSUME NEW check, NEW status, NEW diagnoses, NEW diagnosis \in diagnoses
                   PROVE  Speaks({Insight(check, status, diagnosis)}, diagnoses)
  BY DEF Speaks, Insight

LEMMA SpeaksBoth ==
  ASSUME NEW diagnoses, NEW some, NEW others, Speaks(some, diagnoses), Speaks(others, diagnoses)
  PROVE  Speaks(some \cup others, diagnoses)
  BY DEF Speaks

LEMMA SpeaksNothing == ASSUME NEW diagnoses PROVE Speaks({}, diagnoses)
  BY DEF Speaks

LEMMA ListSpeaks == ASSUME NEW diagnoses, "none" \in diagnoses, NEW outcome PROVE Speaks(ListWarning(outcome), diagnoses)
  BY DEF ListWarning, Speaks, Plain, Insight

\* What the objects of Istio may be blamed for.
LEMMA IstioSpeaks ==
  ASSUME NEW m, NEW namespace, NEW service, NEW targets, NEW source, NEW r, NEW response
  PROVE  /\ Speaks(inspectIstioAuthorizationPolicy(m, namespace, targets, r), Denials)
         /\ Speaks(inspectIstioRequestAuthentication(m, namespace, targets, "FAIL").insights, Others)
         /\ Speaks(inspectIstioMTLSReset(m, service, targets, source), {"Istio-STRICT"})
         /\ Speaks(inspectIstioDestinationRuleMTLSMismatch(m, service, targets, r), {"Istio-DestinationRule"})
         /\ Speaks(inspectIstioSidecarEgressScope(m, service, source), Others)
         /\ Speaks(inspectIstioTrafficRouting(m, service, targets, r), Routings)
         /\ Speaks(inspectIstioWeightedRouteRisks(m, service, targets, r), Others)
         /\ Speaks(inspectIstioIntentionalRouteBehavior(m, service, r, response).insights, Behaviors)
  <1>1. /\ \A outcome : Speaks(ListWarning(outcome), Denials) /\ Speaks(ListWarning(outcome), Others)
        /\ \A outcome : Speaks(ListWarning(outcome), Routings) /\ Speaks(ListWarning(outcome), Behaviors)
    BY ListSpeaks DEF Denials, Others, Routings, Behaviors
  <1>2. Speaks({}, Denials) /\ Speaks({}, Others) /\ Speaks({}, Routings)
    BY SpeaksNothing
  <1>3. ASSUME NEW status
        PROVE  /\ Speaks(inspectIstioRequestAuthentication(m, namespace, targets, status).insights, Others)
               /\ Speaks(inspectIstioRequestAuthentication(m, namespace, targets, status).insights, Denials)
    <2>1. Speaks({Insight("Istio-JWT", status, "Istio-JWT")}, Others) /\ Speaks({Insight("Istio-JWT", status, "Istio-JWT")}, Denials)
      BY DEF Speaks, Insight, Others, Denials
    <2> QED BY <1>1, <1>2, <2>1, SpeaksBoth DEF inspectIstioRequestAuthentication
  <1>4. ASSUME NEW selecting PROVE Speaks({Explain(selecting, r)}, Denials)
    BY DEF Explain, Speaks, Insight, Denials
  <1>5. Speaks({Insight("Istio-authorization", "FAIL", "Istio-deny")}, Denials)
    BY DEF Speaks, Insight, Denials
  <1>6. Speaks(inspectIstioAuthorizationPolicy(m, namespace, targets, r), Denials)
    BY <1>1, <1>2, <1>3, <1>4, <1>5, SpeaksBoth DEF inspectIstioAuthorizationPolicy
  <1>7. Speaks(inspectIstioMTLSReset(m, service, targets, source), {"Istio-STRICT"})
    BY DEF inspectIstioMTLSReset, Speaks, Insight
  <1>8. Speaks(inspectIstioDestinationRuleMTLSMismatch(m, service, targets, r), {"Istio-DestinationRule"})
    BY DEF inspectIstioDestinationRuleMTLSMismatch, Speaks, Insight
  <1>9. Speaks({Insight("Istio-Sidecar", "WARN", "Istio-Sidecar")}, Others)
    BY DEF Speaks, Insight, Others
  <1>10. Speaks(inspectIstioSidecarEgressScope(m, service, source), Others)
    BY <1>2, <1>9 DEF inspectIstioSidecarEgressScope
  <1>11. /\ Speaks({Insight("Istio-routing", "FAIL", "Istio-subset")}, Routings)
         /\ Speaks({Insight("Istio-routing", "WARN", "Istio-unknown-upstream")}, Routings)
         /\ Speaks({Insight("Istio-routing", "WARN", "Istio-split")}, Others)
    BY DEF Speaks, Insight, Routings, Others
  <1>12. Speaks(inspectIstioTrafficRouting(m, service, targets, r), Routings)
    BY <1>1, <1>11 DEF inspectIstioTrafficRouting
  <1>13. Speaks(inspectIstioWeightedRouteRisks(m, service, targets, r), Others)
    BY <1>1, <1>2, <1>11 DEF inspectIstioWeightedRouteRisks
  <1>14. Speaks(inspectIstioIntentionalRouteBehavior(m, service, r, response).insights, Behaviors)
    <2> DEFINE Good(told) == Speaks(told.insights, Behaviors)
    <2>1. ASSUME NEW runtime, NEW status, NEW diagnosis \in Behaviors
          PROVE  \A found : Good(Told(found, runtime, status, diagnosis))
      BY DEF Told, Speaks, Insight
    <2>2. Good(Untold) /\ \A outcome : Good([Untold EXCEPT !.insights = ListWarning(outcome)])
      BY <1>1, SpeaksNothing DEF Untold
    <2>3. {"Istio-direct-response", "Istio-redirect", "Istio-abort", "Istio-abort-risk", "Istio-delay",
           "Istio-delay-risk"} \subseteq Behaviors
      BY DEF Behaviors
    <2> HIDE DEF Good
    <2>4. ASSUME NEW found PROVE Good(Shown(found, response))
      BY <2>1, <2>2, <2>3 DEF Shown
    <2>5. Good(inspectIstioIntentionalRouteBehavior(m, service, r, response))
      BY <2>2, <2>4 DEF inspectIstioIntentionalRouteBehavior
    <2> QED BY <2>5 DEF Good
  <1> QED BY <1>3, <1>6, <1>7, <1>8, <1>10, <1>12, <1>13, <1>14

\* Some of the findings has the diagnosis.
Names(insights, diagnosis) == \E i \in insights : i.diagnosis = diagnosis

\* What an object of Istio is blamed for, at a place, is what is found of a request there.
FromIstio(diagnosis, place) ==
    /\ diagnosis \in {"Istio-deny", "Istio-default-deny", "Istio-unknown-denial"} =>
          /\ DeniedTo(place)
          /\ Names(inspectIstioAuthorizationPolicy(mesh, world.namespace, Targets, RequestTo(place)), diagnosis)
    /\ diagnosis = "Istio-STRICT" => inspectIstioMTLSReset(mesh, world.service, Targets, world.source) # {}
    /\ diagnosis = "Istio-DestinationRule" =>
          /\ place \in Authority
          /\ inspectIstioDestinationRuleMTLSMismatch(mesh, world.service, Targets, RequestTo(place)) # {}
    /\ diagnosis \in {"Istio-subset", "Istio-unknown-upstream"} =>
          /\ place \in Authority
          /\ Names(inspectIstioTrafficRouting(mesh, world.service, Targets, RequestTo(place)), diagnosis)
    /\ diagnosis \in {"Istio-direct-response", "Istio-abort"} =>
          /\ place \in {"name", "address"}
          /\ \E response :
                Names(inspectIstioIntentionalRouteBehavior(mesh, world.service, RequestTo(place), response).insights,
                      diagnosis)

Grounded(insights, place) == \A i \in insights : FromIstio(i.diagnosis, place)

LEMMA OthersGrounded ==
  ASSUME NEW insights, NEW place, Speaks(insights, Others)
  PROVE  Grounded(insights, place)
  <1>1. ASSUME NEW diagnosis \in Others PROVE FromIstio(diagnosis, place)
    BY DEF Others, FromIstio
  <1> QED BY <1>1 DEF Grounded, Speaks

LEMMA GroundedBoth ==
  ASSUME NEW place, NEW some, NEW others, Grounded(some, place), Grounded(others, place)
  PROVE  Grounded(some \cup others, place)
  BY DEF Grounded

LEMMA GroundedNothing == ASSUME NEW place PROVE Grounded({}, place)
  BY DEF Grounded

\* Each of the analyses says what it finds.
LEMMA IstioGrounded ==
  ASSUME NEW place \in Authority, NEW response
  PROVE  LET r == RequestTo(place)
         IN  /\ DeniedTo(place) => Grounded(inspectIstioAuthorizationPolicy(mesh, world.namespace, Targets, r), place)
             /\ Grounded(inspectIstioRequestAuthentication(mesh, world.namespace, Targets, "FAIL").insights, place)
             /\ Grounded(inspectIstioMTLSReset(mesh, world.service, Targets, world.source), place)
             /\ Grounded(inspectIstioDestinationRuleMTLSMismatch(mesh, world.service, Targets, r), place)
             /\ Grounded(inspectIstioSidecarEgressScope(mesh, world.service, world.source), place)
             /\ Grounded(inspectIstioTrafficRouting(mesh, world.service, Targets, r), place)
             /\ Grounded(inspectIstioWeightedRouteRisks(mesh, world.service, Targets, r), place)
             /\ place \in {"name", "address"} =>
                   Grounded(inspectIstioIntentionalRouteBehavior(mesh, world.service, r, response).insights, place)
  <1> DEFINE r == RequestTo(place)
             denials == inspectIstioAuthorizationPolicy(mesh, world.namespace, Targets, r)
             tokens == inspectIstioRequestAuthentication(mesh, world.namespace, Targets, "FAIL").insights
             strict == inspectIstioMTLSReset(mesh, world.service, Targets, world.source)
             mismatch == inspectIstioDestinationRuleMTLSMismatch(mesh, world.service, Targets, r)
             scope == inspectIstioSidecarEgressScope(mesh, world.service, world.source)
             routing == inspectIstioTrafficRouting(mesh, world.service, Targets, r)
             split == inspectIstioWeightedRouteRisks(mesh, world.service, Targets, r)
             told == inspectIstioIntentionalRouteBehavior(mesh, world.service, r, response).insights
             one == {"Istio-STRICT"}
             other == {"Istio-DestinationRule"}
  <1>1. /\ Speaks(denials, Denials) /\ Speaks(tokens, Others) /\ Speaks(strict, one) /\ Speaks(mismatch, other)
        /\ Speaks(scope, Others) /\ Speaks(routing, Routings) /\ Speaks(split, Others) /\ Speaks(told, Behaviors)
    BY IstioSpeaks
  <1>2. ASSUME NEW diagnosis
        PROVE  /\ diagnosis \in Denials /\ DeniedTo(place) /\ Names(denials, diagnosis) => FromIstio(diagnosis, place)
               /\ diagnosis \in one /\ strict # {} => FromIstio(diagnosis, place)
               /\ diagnosis \in other /\ mismatch # {} => FromIstio(diagnosis, place)
               /\ diagnosis \in Routings /\ Names(routing, diagnosis) => FromIstio(diagnosis, place)
               /\ diagnosis \in Behaviors /\ place \in {"name", "address"} /\ Names(told, diagnosis)
                      => FromIstio(diagnosis, place)
    <2>1. diagnosis \in Denials /\ DeniedTo(place) /\ Names(denials, diagnosis) => FromIstio(diagnosis, place)
      BY DEF Denials, FromIstio
    <2>2. diagnosis \in one /\ strict # {} => FromIstio(diagnosis, place)
      BY DEF FromIstio
    <2>3. diagnosis \in other /\ mismatch # {} => FromIstio(diagnosis, place)
      BY DEF FromIstio
    <2>4. diagnosis \in Routings /\ Names(routing, diagnosis) => FromIstio(diagnosis, place)
      BY DEF Routings, FromIstio
    <2>5. diagnosis \in Behaviors /\ place \in {"name", "address"} /\ Names(told, diagnosis) => FromIstio(diagnosis, place)
      BY DEF Behaviors, FromIstio
    <2> QED BY <2>1, <2>2, <2>3, <2>4, <2>5
  <1> HIDE DEF r, denials, tokens, strict, mismatch, scope, routing, split, told, one, other
  <1>3. DeniedTo(place) => Grounded(denials, place)
    BY <1>1, <1>2 DEF Grounded, Speaks, Names
  <1>4. Grounded(strict, place) /\ Grounded(mismatch, place) /\ Grounded(routing, place)
    BY <1>1, <1>2 DEF Grounded, Speaks, Names
  <1>5. place \in {"name", "address"} => Grounded(told, place)
    BY <1>1, <1>2 DEF Grounded, Speaks, Names
  <1>6. Grounded(tokens, place) /\ Grounded(scope, place) /\ Grounded(split, place)
    BY <1>1, OthersGrounded
  <1> QED
    BY <1>3, <1>4, <1>5, <1>6 DEF r, denials, tokens, strict, mismatch, scope, routing, split, told


\* What the report blames on objects of Istio is what was found of them.
MeshInv ==
    /\ mesh # None => mesh \in Mesh
    /\ mesh # None => \A i \in report["service"] : i.check \in IstioLayers => FromIstio(i.diagnosis, i.url)

LEMMA FromIstioStays ==
  ASSUME UNCHANGED <<world, mesh>>, NEW diagnosis, NEW place
  PROVE  FromIstio(diagnosis, place)' <=> FromIstio(diagnosis, place)
  BY DEF FromIstio, RequestTo, DeniedTo, Targets

\* New findings of Istio have to be found, the others are of other layers.
Found(insights) == \A i \in insights : i.check \in IstioLayers => FromIstio(i.diagnosis, i.url)

LEMMA SaysFound ==
  ASSUME MeshInv, OpenInv, NEW insights, NEW next, Says("service", insights, next), UNCHANGED mesh,
         mesh # None => Found(insights)
  PROVE  MeshInv'
  <1>1. UNCHANGED <<world, mesh>>
    BY DEF Says
  <1>2. report'["service"] = report["service"] \cup insights
    BY DEF Says, OpenInv, Commands
  <1>3. \A i \in report'["service"] : i \in report["service"] \/ i \in insights
    BY <1>2
  <1> QED
    BY <1>1, <1>3, FromIstioStays DEF MeshInv, Found

LEMMA FoundBoth == ASSUME NEW some, NEW others, Found(some), Found(others) PROVE Found(some \cup others)
  BY DEF Found

LEMMA FoundNothing == Found({})
  BY DEF Found

\* A finding of a layer that is not Istio's.
LEMMA FoundOne ==
  ASSUME NEW check, check \notin IstioLayers, NEW status, NEW diagnosis
  PROVE  Found({Insight(check, status, diagnosis)}) /\ Found({Plain(check, status)})
  BY DEF Found, Insight, Plain

LEMMA OnceFound ==
  ASSUME NEW place, NEW insights, Grounded(insights, place)
  PROVE  Found(Once(place, insights)) /\ Found(About(place, insights))
  BY DEF Found, Grounded, Once, About

LEMMA ShowsFound ==
  ASSUME NEW place, NEW told, Grounded(told.insights, place)
  PROVE  Found(Shows(place, told))
  BY OnceFound DEF Shows

\* The layers of the policies are none of Istio's.
LEMMA PoliciesFound ==
  ASSUME SaidInv, native \/ calico \/ host \/ cilium
  PROVE  \E insights, next : Says("service", insights, next) /\ Found(insights)
  <1>1. world \in World
    BY CommandsAssumption DEF SaidInv
  <1> DEFINE Checks == NativeVerdicts \cup NativeRemarks \cup CalicoVerdicts \cup CalicoRemarks
                           \cup CiliumVerdicts \cup CiliumRemarks \cup {"CNI-policies"}
  <1>2. \A check \in Checks : check \notin IstioLayers
    BY DEF NativeVerdicts, NativeRemarks, CalicoVerdicts, CalicoRemarks, CiliumVerdicts, CiliumRemarks, IstioLayers
  <1>3. /\ NativeVerdicts \cup NativeRemarks \subseteq Checks /\ CalicoVerdicts \cup CalicoRemarks \subseteq Checks
        /\ CiliumVerdicts \cup CiliumRemarks \subseteq Checks /\ CalicoRemarks \subseteq Checks
        /\ "CNI-policies" \in Checks /\ "namespace-labels" \in Checks
    BY DEF NativeRemarks
  <1> HIDE DEF Checks
  <1>4. ASSUME NEW insights, NEW checks, checks \subseteq Checks, Said(insights, checks) PROVE Found(insights)
    BY <1>2, <1>4 DEF Said, Found
  <1>5. CASE native
    <2>1. Found(NativeInsights)
      BY <1>3, <1>4, NativeSays
    <2> QED BY <1>5, <2>1 DEF native
  <1>6. CASE calico
    <2>1. world.fallback \in Fallbacks
      BY <1>1 DEF World
    <2>2. Said(CalicoInsights, CalicoVerdicts \cup CalicoRemarks)
      BY <2>1, CalicoLayerSays DEF CalicoInsights
    <2>3. Found(CalicoInsights)
      BY <1>3, <1>4, <2>2
    <2>4. Found({Plain("CNI-policies", "SKIP")}) /\ Found({Plain("namespace-labels", "WARN")})
      BY <1>2, <1>3, FoundOne
    <2> QED BY <1>6, <2>3, <2>4 DEF calico
  <1>7. CASE host
    <2>1. Found(AnalyzeIngressSurface(world.calico, world.hosts, world.service, access.calico))
      BY <1>3, <1>4, HostLayerSays
    <2> QED BY <1>7, <2>1 DEF host
  <1>8. CASE cilium
    <2>1. access.endpoints \in SUBSET {Plain("Cilium-endpoints", "INFO")}
      BY <1>1 DEF World, Access, access
    <2>2. Said(CiliumInsights, CiliumVerdicts \cup CiliumRemarks)
      BY <2>1, CiliumLayerSays DEF CiliumInsights
    <2>3. Found(CiliumInsights)
      BY <1>3, <1>4, <2>2
    <2> QED BY <1>8, <2>3 DEF cilium
  <1> QED BY <1>5, <1>6, <1>7, <1>8

\* What an answer of Envoy leads to: a denial is inspected where a target denies.
LEMMA SignalGrounded ==
  ASSUME NEW place \in Authority, NEW response \in Answers(place) \cup Failures, SignalOf(response) # "none"
  PROVE  Grounded(SignalInsights(response, RequestTo(place)), place)
  <1>1. SignalOf(response) \in {"jwt-denied", "rbac-denied", "no-healthy-upstream", "upstream-reset"}
    BY DEF SignalOf
  <1>2. SignalOf(response) = "rbac-denied" => DeniedTo(place)
    <2> SUFFICES ASSUME SignalOf(response) = "rbac-denied" PROVE DeniedTo(place)
      OBVIOUS
    <2>1. response.text = "rbac"
      BY DEF SignalOf
    <2>2. \A status, text : Answer(status, text).text = text /\ Failure(text).text = text
      BY DEF Answer, Failure
    <2>3. response \notin Failures
      BY <2>1, <2>2 DEF Failures
    <2>4. response \notin {Answer(status, "") : status \in {200, 302} \cup Configured}
      <3> DEFINE S == {200, 302} \cup Configured
                 empty == ""
      <3>1. empty # "rbac"
        OBVIOUS
      <3> HIDE DEF S, empty
      <3>2. \A status \in S : Answer(status, empty).text = empty
        BY <2>2
      <3>3. \A status \in S : response # Answer(status, empty)
        BY <2>1, <3>1, <3>2
      <3> QED BY <3>3 DEF S, empty
    <2>5. response \notin {Answer(401, "unauthorized"), Answer(503, "no-healthy"), Answer(503, "reset"),
                         Answer(503, "disconnect")}
      BY <2>1, <2>2
    <2>6. response \in Answers(place)
      BY <2>3
    <2> DEFINE plain == {Answer(status, "") : status \in {200, 302} \cup Configured}
               errors == {Answer(401, "unauthorized"), Answer(503, "no-healthy"), Answer(503, "reset"),
                          Answer(503, "disconnect")}
               denials == {Answer(403, "rbac")}
    <2>7. Answers(place) = plain \cup errors \cup (IF DeniedTo(place) THEN denials ELSE {})
      BY DEF Answers
    <2>8. response \notin plain /\ response \notin errors
      BY <2>4, <2>5
    <2> HIDE DEF plain, errors, denials
    <2> QED BY <2>6, <2>7, <2>8
  <1>3. Speaks({Insight("Istio-upstream", "WARN", "Istio-reset")}, Others)
    BY DEF Speaks, Insight, Others
  <1>4. Grounded({Insight("Istio-upstream", "WARN", "Istio-reset")}, place) /\ Grounded({}, place)
    BY <1>3, OthersGrounded, GroundedNothing
  <1> QED
    BY <1>1, <1>2, <1>4, IstioGrounded DEF SignalInsights

LEMMA FailureGrounded ==
  ASSUME NEW place \in {"name", "address"}, NEW response
  PROVE  Found(Explained(place, response))
  <1> DEFINE r == RequestTo(place)
             told == ToldOf(place, response)
             strict == inspectIstioMTLSReset(mesh, world.service, Targets, world.source)
             mismatch == inspectIstioDestinationRuleMTLSMismatch(mesh, world.service, Targets, r)
             scope == inspectIstioSidecarEgressScope(mesh, world.service, world.source)
             last == {Insight("none", "INFO", "unreachable")}
             cause == FailureCause(place, response)
  <1>1. /\ Grounded(told.insights, place) /\ Grounded(strict, place) /\ Grounded(mismatch, place)
        /\ Grounded(scope, place)
    BY IstioGrounded DEF Authority, ToldOf
  <1>2. Speaks(last, Others)
    BY DEF Speaks, Insight, Others
  <1>3. Grounded({}, place) /\ Grounded(last, place)
    BY <1>2, OthersGrounded, GroundedNothing
  <1>4. cause \in {strict, mismatch, scope, last, {}}
    BY DEF FailureCause
  <1> HIDE DEF told, strict, mismatch, scope, last, cause
  <1>5. Grounded(cause, place)
    BY <1>1, <1>3, <1>4
  <1>6. Found(Shows(place, told)) /\ Found(Once(place, cause)) /\ Found({})
    BY <1>1, <1>5, ShowsFound, OnceFound, FoundNothing
  <1> QED
    BY <1>6, FoundBoth DEF Explained, told, cause

LEMMA EnvoyFound ==
  ASSUME MeshInv, OpenInv, UNCHANGED mesh, NEW place \in Authority, NEW response \in Answers(place) \cup Failures,
         SignalOf(response) # "none", NEW tool, Found(tool), SaysSignal(place, response, tool)
  PROVE  MeshInv'
  <1> DEFINE found == IF SignalOf(response) \in signals THEN {}
                      ELSE Once(place, SignalInsights(response, RequestTo(place)))
  <1>1. Found(found)
    BY SignalGrounded, OnceFound, FoundNothing
  <1>2. Found({Probed("FAIL")})
    BY FoundOne DEF Probed, IstioLayers
  <1> HIDE DEF found
  <1>3. Says("service", tool \cup {Probed("FAIL")} \cup found, pc)
    BY DEF SaysSignal, found
  <1>4. Found(tool \cup {Probed("FAIL")} \cup found)
    BY <1>1, <1>2, FoundBoth
  <1> QED BY <1>3, <1>4, SaysFound


LEMMA MeshStepFound ==
  ASSUME MeshInv, SaidInv, OpenInv, mesh # None, MeshStep
  PROVE  MeshInv'
  <1>0. UNCHANGED mesh
    BY DEF MeshStep, targetLayers, policyLayers, checkRuntimePath, probeURL, endOfURLs, probePod, finishRuntime,
           runtimeVars
  <1>1. ASSUME NEW check \in {"target-pods", "service-port", "resolv.conf", "service-path", "probe", "resolve",
                              "direct-target-pod", "none"},
               NEW status, NEW diagnosis
        PROVE  Found({Insight(check, status, diagnosis)}) /\ Found({Plain(check, status)})
    BY FoundOne DEF IstioLayers
  <1>2. Found({})
    BY FoundNothing
  <1>3. ASSUME NEW status PROVE Found({Probed(status)})
    BY <1>1 DEF Probed
  <1>4. CASE targetLayers
    <2> DEFINE Shifted == PathService.headless /\ SC!ResolvedTargetPort \notin {0, SC!Selected.port}
               Mismatch == SC!DeclaredPorts # {}
                           /\ \A p \in SC!DeclaredPorts : ~SC!TargetPortMatches(SC!Selected.target, p)
               Unready == Targets = <<>> \/ \E i \in DOMAIN PathPods : ~PathPods[i].ready
               a1 == IF Unready THEN {Insight("target-pods", "FAIL", "backend")} ELSE {}
               a2 == IF ~SC!Selected.tcp THEN {Insight("service-port", "WARN", "other")} ELSE {}
               a3 == IF Shifted THEN {Insight("service-port", "WARN", "headless")} ELSE {}
               a4 == IF Mismatch THEN {Insight("service-port", "WARN", "targetPort-mismatch")} ELSE {}
               a5 == IF Targets # <<>> /\ SC!DeclaredPorts = {} THEN {Plain("service-port", "WARN")} ELSE {}
    <2>1. Found(a1) /\ Found(a2) /\ Found(a3) /\ Found(a4) /\ Found(a5)
      BY <1>1, <1>2
    <2>2. Says("service", a1 \cup a2 \cup a3 \cup a4 \cup a5, pc)
      BY <1>4 DEF targetLayers
    <2> HIDE DEF a1, a2, a3, a4, a5
    <2>3. Found(a1 \cup a2 \cup a3 \cup a4 \cup a5)
      BY <2>1, FoundBoth
    <2> QED BY <1>0, <2>2, <2>3, SaysFound
  <1>5. CASE policyLayers
    <2>1. native \/ calico \/ host \/ cilium
      BY <1>5 DEF policyLayers
    <2>2. PICK insights, next : Says("service", insights, next) /\ Found(insights)
      BY <2>1, PoliciesFound
    <2> QED BY <1>0, <2>2, SaysFound
  <1>6. CASE checkRuntimePath
    <2> DEFINE resolver == Plain("resolv.conf", IF access.resolvConf THEN "PASS" ELSE "WARN")
               split == IF Blamed({"backend"}) THEN {}
                        ELSE inspectIstioWeightedRouteRisks(mesh, world.service, Targets, RequestTo("name"))
               place == "name"
    <2>1. Found({resolver})
      BY <1>1
    <2>2. Grounded(split, place)
      BY IstioGrounded, GroundedNothing DEF Authority
    <2> HIDE DEF resolver, split, place
    <2>3. Found({resolver} \cup About(place, split))
      BY <2>1, <2>2, OnceFound, FoundBoth
    <2>4. Found({Plain("service-path", "SKIP")})
      BY <1>1
    <2>5. \/ Says("service", {resolver} \cup About(place, split), pc)
          \/ Says("service", {Plain("service-path", "SKIP")}, pc)
      BY <1>6 DEF checkRuntimePath, resolver, split, place
    <2> QED
      BY <1>0, <2>3, <2>4, <2>5, SaysFound
  <1>7. CASE probeURL
    <2> DEFINE place == Place(at)
    <2>0. place \in {"name", "address"}
      <3>1. SC!NumURLs \in {1, 2}
        BY DEF SC!NumURLs
      <3>2. at \in {1, 2}
        BY <1>7, <3>1 DEF probeURL
      <3> QED BY <3>2 DEF Place
    <2>1. CASE \E response \in Answers(place) \cup Failures, tool \in SUBSET {Plain("resolve", "runtime-unavailable")} :
                  \/ SignalOf(response) # "none" /\ SaysSignal(place, response, tool)
                  \/ answeredURL(place, response, tool)
                  \/ failedURL(place, response, tool)
      <3>1. PICK response \in Answers(place) \cup Failures, tool \in SUBSET {Plain("resolve", "runtime-unavailable")} :
               \/ SignalOf(response) # "none" /\ SaysSignal(place, response, tool)
               \/ answeredURL(place, response, tool)
               \/ failedURL(place, response, tool)
        BY <2>1
      <3>2. Found(tool)
        BY <1>1 DEF Found
      <3>3. CASE SignalOf(response) # "none" /\ SaysSignal(place, response, tool)
        <4>1. place \in Authority
          BY <2>0 DEF Authority
        <4> QED BY <1>0, <3>2, <3>3, <4>1, EnvoyFound
      <3>4. CASE answeredURL(place, response, tool)
        <4> DEFINE told == ToldOf(place, response)
                   status == IF told.runtime = "none" THEN "PASS" ELSE told.runtime
        <4>1. Grounded(told.insights, place)
          BY <2>0, IstioGrounded DEF Authority, ToldOf
        <4>2. Found({Probed(status)})
          BY <1>3
        <4>3. Found(Shows(place, told))
          BY <4>1, ShowsFound
        <4>4. Says("service", tool \cup {Probed(status)} \cup Shows(place, told), pc)
          BY <3>4 DEF answeredURL
        <4> HIDE DEF told, status
        <4>5. Found(tool \cup {Probed(status)} \cup Shows(place, told))
          BY <3>2, <4>2, <4>3, FoundBoth
        <4> QED
          BY <1>0, <4>4, <4>5, SaysFound
      <3>5. CASE failedURL(place, response, tool)
        <4> DEFINE found == CASE response.text = "no-tool" -> {Probed("runtime-unavailable")}
                              [] response.text = "refused" -> {Insight("probe", "FAIL", "HTTP")}
                              [] OTHER -> {Probed("FAIL")} \cup Explained(place, response)
        <4>1. Found({Probed("runtime-unavailable")}) /\ Found({Probed("FAIL")}) /\ Found({Insight("probe", "FAIL", "HTTP")})
          BY <1>1, <1>3
        <4>2. Found(Explained(place, response))
          BY <2>0, FailureGrounded
        <4>3. Found(found)
          BY <4>1, <4>2, FoundBoth
        <4>4. Says("service", tool \cup found, pc)
          BY <3>5 DEF failedURL
        <4> HIDE DEF found
        <4>5. Found(tool \cup found)
          BY <3>2, <4>3, FoundBoth
        <4> QED
          BY <1>0, <4>4, <4>5, SaysFound
      <3> QED
        BY <3>1, <3>3, <3>4, <3>5
    <2>2. CASE \E diagnosis \in {"none", "DNS"} : Says("service", {Insight("resolve", "FAIL", diagnosis)}, pc)
      <3>1. PICK diagnosis \in {"none", "DNS"} : Says("service", {Insight("resolve", "FAIL", diagnosis)}, pc)
        BY <2>2
      <3>2. Found({Insight("resolve", "FAIL", diagnosis)})
        BY <1>1
      <3> QED
        BY <1>0, <3>1, <3>2, SaysFound
    <2> QED
      BY <1>7, <2>1, <2>2 DEF probeURL
  <1>8. CASE endOfURLs
    <2>1. Found({Plain("direct-target-pod", "SKIP")})
      BY <1>1
    <2>2. Says("service", {Plain("direct-target-pod", "SKIP")}, pc) \/ Says("service", {}, pc)
      BY <1>8 DEF endOfURLs
    <2> QED
      BY <1>0, <1>2, <2>1, <2>2, SaysFound
  <1>9. CASE probePod
    <2> DEFINE place == "pod"
    <2>0. place \in Authority
      BY DEF Authority
    <2>1. CASE Says("service", {}, pc)
      BY <1>0, <1>2, <2>1, SaysFound
    <2>2. CASE \E response \in Answers(place) \cup Failures : SignalOf(response) # "none" /\ SaysSignal(place, response, {})
      <3> HIDE DEF place
      <3>1. PICK response \in Answers(place) \cup Failures : SignalOf(response) # "none" /\ SaysSignal(place, response, {})
        BY <2>2
      <3> QED BY <1>0, <1>2, <2>0, <3>1, EnvoyFound
    <2>3. CASE \E response \in Answers(place) \cup Failures :
                  Says("service", IF response.ok THEN {Probed("PASS")} ELSE failedPod(response), pc)
      <3>1. PICK response : Says("service", IF response.ok THEN {Probed("PASS")} ELSE failedPod(response), pc)
        BY <2>3
      <3> DEFINE strict == IF response.text = "reset" THEN inspectIstioMTLSReset(mesh, world.service, Targets, world.source)
                           ELSE {}
                 last == IF Blamed({"Istio", "Istio-routing", "policy", "targetPort-mismatch"}) THEN {}
                         ELSE {Insight("none", "INFO", "pod-unreachable")}
      <3> HIDE DEF place
      <3>2. Grounded(strict, place) /\ Grounded(last, place)
        <4>1. Speaks({Insight("none", "INFO", "pod-unreachable")}, Others)
          BY DEF Speaks, Insight, Others
        <4> QED BY <2>0, <4>1, OthersGrounded, IstioGrounded, GroundedNothing
      <3>3. Found(Once(place, IF strict # {} THEN strict ELSE last))
        BY <3>2, OnceFound
      <3>4. /\ Found({Probed("PASS")}) /\ Found({Probed("INFO")}) /\ Found({Probed("FAIL")})
            /\ Found({Probed("runtime-unavailable")}) /\ Found({Insight("probe", "FAIL", "HTTP")})
        BY <1>1, <1>3
      <3> HIDE DEF strict, last
      <3>5. Found(failedPod(response))
        BY <3>3, <3>4, FoundBoth DEF failedPod, strict, last, place
      <3> QED
        BY <1>0, <3>1, <3>4, <3>5, SaysFound
    <2> QED
      BY <1>9, <2>1, <2>2, <2>3 DEF probePod
  <1>10. CASE finishRuntime
    <2>1. UNCHANGED <<world, mesh, report>>
      BY <1>0, <1>10 DEF finishRuntime, Finish
    <2> QED BY <2>1, FromIstioStays DEF MeshInv
  <1> QED
    BY <1>4, <1>5, <1>6, <1>7, <1>8, <1>9, <1>10 DEF MeshStep

(***************************************************************************)
(* What the report blames on objects of Istio is what was found of them,   *)
(* at the place that the finding names: nothing that the session does      *)
(* before or after it changes that.                                        *)
(***************************************************************************)
LEMMA MeshFound == RuntimeSpec => []MeshInv
  <1>1. RuntimeInit => MeshInv
    <2> SUFFICES ASSUME RuntimeInit PROVE MeshInv
      OBVIOUS
    <2>1. mesh # None => mesh \in Mesh
      BY RuntimeAssumption DEF RuntimeInit
    <2>2. report["service"] = {}
      BY DEF RuntimeInit, Init, Commands
    <2> QED BY <2>1, <2>2 DEF MeshInv
  <1>2. MeshInv /\ RuntimeInv /\ SaidInv /\ [RuntimeNext]_allVars => MeshInv'
    <2> SUFFICES ASSUME MeshInv, RuntimeInv, SaidInv, [RuntimeNext]_allVars PROVE MeshInv'
      OBVIOUS
    <2>1. CASE mesh = None /\ UNCHANGED runtimeVars
      BY <2>1 DEF MeshInv, runtimeVars
    <2>2. CASE mesh # None /\ MeshStep
      BY <2>2, MeshStepFound DEF RuntimeInv
    <2>3. CASE UNCHANGED allVars
      BY <2>3, FromIstioStays DEF allVars, vars, runtimeVars, MeshInv
    <2> QED
      BY <2>1, <2>2, <2>3 DEF RuntimeNext
  <1> QED
    BY <1>1, <1>2, OpenWhileProbing, VerdictsStay, PTL DEF RuntimeSpec


\* The hypotheses of the properties are those of the theorems about Istio.
LEMMA PathKnown ==
  ASSUME SaidInv, MeshInv, MeshReadable
  PROVE  /\ mesh \in Mesh /\ mesh.rootRead /\ world.source \in Pods
         /\ world.service.namespace \in Namespaces /\ world.namespace = world.service.namespace
         /\ \A kind \in MeshKinds, n \in Namespaces : mesh.lists[kind][n] = "read"
         /\ Targets \in Seq(Pods)
         /\ \A pod \in ToSet(Targets) : pod \in mesh.sidecars /\ NamespaceOf[pod] = world.service.namespace
         /\ \A pod \in ToSet(Targets) :
               TargetNumbers(Chosen(world.service).target, <<pod>>) = {WorkloadPort(world.service)}
  <1>1. world \in World /\ world.service.namespace = world.namespace
        /\ \A pod \in ToSet(world.targets) : NamespaceOf[pod] = world.namespace
    BY CommandsAssumption DEF SaidInv
  <1>2. world.service.namespace \in Namespaces /\ world.targets \in Seq(Pods) /\ world.source \in Pods \cup {None}
    BY <1>1 DEF World, Service
  <1>3. mesh \in Mesh /\ mesh.rootRead /\ world.source # None /\ ToSet(Targets) \subseteq mesh.sidecars
        /\ \A kind \in MeshKinds, n \in Namespaces : mesh.lists[kind][n] = "read"
    BY DEF MeshInv, MeshReadable, OnePort
  <1> DEFINE target == Chosen(world.service).target
             port == Chosen(world.service).port
             AllPorts == PortsOf(Targets)
  <1>4. ASSUME NEW pod \in ToSet(Targets)
        PROVE  TargetNumbers(Chosen(world.service).target, <<pod>>) = {WorkloadPort(world.service)}
    <2>1. TargetNumbers(target, <<pod>>) # {}
      BY DEF MeshReadable
    <2>2. HasChosen(world.service) /\ (\E number \in Numbers : Numbers = {number}) /\ ServicePorts = Numbers
      BY DEF MeshReadable, OnePort
    <2>3. Numbers = TargetNumbers(target, Targets)
      BY <2>2 DEF Numbers
    <2>4. ServicePorts = {port} \cup TargetNumbers(target, Targets)
      BY <2>2 DEF ServicePorts, Candidates
    <2>5. TargetNumbers(target, Targets) = {port}
      BY <2>2, <2>3, <2>4
    <2>6. PortsOf(<<pod>>) \subseteq PortsOf(Targets)
      <3>1. ToSet(<<pod>>) = {pod} BY DEF ToSet
      <3> QED BY <3>1 DEF PortsOf
    <2>7. WorkloadPort(world.service) = IF target \in PortNames THEN port ELSE target
      BY DEF WorkloadPort
    <2> HIDE DEF target, port
    <2>8. CASE target \in PortNames
      <3>1. TargetNumbers(target, <<pod>>) \subseteq TargetNumbers(target, Targets)
        BY <2>6, <2>8 DEF TargetNumbers
      <3>2. TargetNumbers(target, <<pod>>) = {port}
        BY <2>1, <2>5, <3>1
      <3> QED BY <2>7, <2>8, <3>2 DEF target
    <2>9. CASE target \notin PortNames
      BY <2>7, <2>9 DEF TargetNumbers, target
    <2> QED BY <2>8, <2>9
  <1> QED
    BY <1>1, <1>2, <1>3, <1>4 DEF Targets

LEMMA RequestIs ==
  ASSUME NEW place
  PROVE  RequestTo(place).source = world.source /\ RequestTo(place).port = Chosen(world.service).port
  BY DEF RequestTo, newIstioHTTPRequest

LEMMA PoliciesKnown ==
  ASSUME SaidInv, MeshInv, MeshReadable, PoliciesReadable, ToSet(Targets) # {}
  PROVE  PathReadable(mesh, world.service, Targets, world.source)
  <1>1. "authorization" \in MeshKinds
    BY DEF MeshKinds
  <1>2. world.source \in mesh.sidecars
    BY DEF PoliciesReadable
  <1>3. ASSUME NEW policy \in mesh.authorization
        PROVE  policy.refs = "none" /\ \A rule \in policy.rules : RuleReadable(rule, policy.namespace)
    <2>1. policy.refs = "none"
      BY DEF PoliciesReadable
    <2>2. ASSUME NEW rule \in policy.rules PROVE RuleReadable(rule, policy.namespace)
      BY Zenon DEF PoliciesReadable, RuleReadable, Given
    <2> QED BY <2>1, <2>2
  <1>4. Targets # <<>>
    BY DEF ToSet
  <1> QED
    BY <1>1, <1>2, <1>3, <1>4, PathKnown DEF PathReadable

LEMMA PeeringKnown ==
  ASSUME SaidInv, MeshInv, MeshReadable, PeersReadable
  PROVE  PeersKnown(mesh, world.service, Targets)
  <1>1. "peers" \in MeshKinds
    BY DEF MeshKinds
  <1>2. PeersRead(mesh)
    BY DEF PeersReadable, PeersRead
  <1> QED
    BY <1>1, <1>2, PathKnown DEF PeersKnown

LEMMA RoutingKnown ==
  ASSUME SaidInv, MeshInv, MeshReadable, NEW place \in {"name", "address"}
  PROVE  RoutesKnown(mesh, world.service, RequestTo(place))
  <1>1. "virtualServices" \in MeshKinds /\ "destinationRules" \in MeshKinds
    BY DEF MeshKinds
  <1>2. RoutesReadable(place)
    BY DEF MeshReadable
  <1> DEFINE source == world.source
             r == RequestTo(place)
             routes == RoutesFor(Hosting(mesh, world.service, source), r)
  <1>3. /\ \A vs \in ToSet(mesh.virtualServices) \cup ToSet(mesh.destinationRules) :
               vs.namespace \in ConfigNamespaces(world.service, source)
        /\ Len(routes) <= 1
        /\ \A found \in ToSet(routes) :
              /\ found.route.destinations # <<>>
              /\ \A d \in ToSet(found.route.destinations) : HostMatches(d.host, found.home, world.service) /\ d.weight > 0
    BY <1>2 DEF RoutesReadable
  <1>4. r.source = source
    BY RequestIs
  <1> HIDE DEF r
  <1>5. RoutesKnown(mesh, world.service, r)
    BY <1>1, <1>3, <1>4, PathKnown DEF RoutesKnown
  <1> QED BY <1>5 DEF r


\* A diagnosis has its layer and its status.
LEMMA NamedIs ==
  ASSUME NEW m, NEW namespace, NEW service, NEW targets, NEW r
  PROVE  /\ \A i \in inspectIstioAuthorizationPolicy(m, namespace, targets, r) :
               /\ i.diagnosis = "Istio-deny" => i = Insight("Istio-authorization", "FAIL", "Istio-deny")
               /\ i.diagnosis = "Istio-default-deny" => i = Insight("Istio-authorization", "FAIL", "Istio-default-deny")
               /\ i.diagnosis = "Istio-unknown-denial"
                     => i = Insight("Istio-authorization", "WARN", "Istio-unknown-denial")
         /\ \A i \in inspectIstioTrafficRouting(m, service, targets, r) :
               /\ i.diagnosis = "Istio-subset" => i = Insight("Istio-routing", "FAIL", "Istio-subset")
               /\ i.diagnosis = "Istio-unknown-upstream" => i = Insight("Istio-routing", "WARN", "Istio-unknown-upstream")
  <1> DEFINE Good(i) == /\ i.diagnosis = "Istio-deny" => i = Insight("Istio-authorization", "FAIL", "Istio-deny")
                        /\ i.diagnosis = "Istio-default-deny"
                              => i = Insight("Istio-authorization", "FAIL", "Istio-default-deny")
                        /\ i.diagnosis = "Istio-unknown-denial"
                              => i = Insight("Istio-authorization", "WARN", "Istio-unknown-denial")
                        /\ i.diagnosis = "Istio-subset" => i = Insight("Istio-routing", "FAIL", "Istio-subset")
                        /\ i.diagnosis = "Istio-unknown-upstream"
                              => i = Insight("Istio-routing", "WARN", "Istio-unknown-upstream")
             Meant(insights) == \A i \in insights : Good(i)
  <1>1. /\ Meant({Insight("Istio-authorization", "FAIL", "Istio-deny")}) /\ Meant({})
        /\ Meant({Insight("Istio-routing", "FAIL", "Istio-subset")})
        /\ Meant({Insight("Istio-routing", "WARN", "Istio-unknown-upstream")})
        /\ \A outcome : Meant(ListWarning(outcome))
        /\ \A status : Meant({Insight("Istio-JWT", status, "Istio-JWT")})
    BY DEF ListWarning, Plain, Insight
  <1>2. ASSUME NEW selecting PROVE Meant({Explain(selecting, r)})
    BY DEF Explain, Insight
  <1>3. \A some, others : Meant(some) /\ Meant(others) => Meant(some \cup others)
    OBVIOUS
  <1> HIDE DEF Good, Meant
  <1>4. ASSUME NEW status PROVE Meant(inspectIstioRequestAuthentication(m, namespace, targets, status).insights)
    BY <1>1, <1>3 DEF inspectIstioRequestAuthentication
  <1>5. Meant(inspectIstioAuthorizationPolicy(m, namespace, targets, r))
    BY <1>1, <1>2, <1>3, <1>4 DEF inspectIstioAuthorizationPolicy
  <1>6. Meant(inspectIstioTrafficRouting(m, service, targets, r))
    BY <1>1 DEF inspectIstioTrafficRouting
  <1> QED BY <1>5, <1>6 DEF Meant, Good

\* A denial, or none, that the report blames on AuthorizationPolicies.
LEMMA DenialFound ==
  ASSUME SaidInv, MeshInv, MeshReadable, PoliciesReadable, NEW diagnosis, NEW place, FromIstio(diagnosis, place)
  PROVE  /\ diagnosis = "Istio-deny" =>
               \E pod \in ToSet(Targets) : Hits(mesh, "DENY", pod, world.service, world.source, place)
         /\ diagnosis = "Istio-default-deny" =>
               \E pod \in ToSet(Targets) : AllowsNothing(mesh, pod, world.service, world.source, place)
         /\ diagnosis = "Istio-unknown-denial" => ~Alike(mesh, Targets)
  <1> SUFFICES ASSUME diagnosis \in {"Istio-deny", "Istio-default-deny", "Istio-unknown-denial"}
               PROVE  /\ diagnosis = "Istio-deny" =>
                            \E pod \in ToSet(Targets) : Hits(mesh, "DENY", pod, world.service, world.source, place)
                      /\ diagnosis = "Istio-default-deny" =>
                            \E pod \in ToSet(Targets) : AllowsNothing(mesh, pod, world.service, world.source, place)
                      /\ diagnosis = "Istio-unknown-denial" => ~Alike(mesh, Targets)
    OBVIOUS
  <1> DEFINE r == newIstioHTTPRequest(world.service, world.source, place)
             denials == inspectIstioAuthorizationPolicy(mesh, world.service.namespace, Targets, r)
  <1>1. world.namespace = world.service.namespace /\ world.service.namespace \in Namespaces
    BY PathKnown
  <1>2. DeniedTo(place) /\ Names(denials, diagnosis)
    BY <1>1 DEF FromIstio, RequestTo
  <1>3. PICK pod \in ToSet(Targets) : AccessDenied(mesh, pod, world.service, world.source, place)
    BY <1>2 DEF DeniedTo
  <1>4. PathReadable(mesh, world.service, Targets, world.source)
    BY <1>3, PoliciesKnown
  <1>5. /\ diagnosis = "Istio-deny" => Insight("Istio-authorization", "FAIL", "Istio-deny") \in denials
        /\ diagnosis = "Istio-default-deny" => Insight("Istio-authorization", "FAIL", "Istio-default-deny") \in denials
        /\ diagnosis = "Istio-unknown-denial" => Insight("Istio-authorization", "WARN", "Istio-unknown-denial") \in denials
    <2> HIDE DEF r
    <2> QED BY <1>2, NamedIs DEF Names
  <1>6. diagnosis = "Istio-deny" =>
            \E other \in ToSet(Targets) : Hits(mesh, "DENY", other, world.service, world.source, place)
    BY <1>4, <1>5, DenyBlameTrue
  <1>7. diagnosis = "Istio-default-deny" =>
            \E other \in ToSet(Targets) : AllowsNothing(mesh, other, world.service, world.source, place)
    BY <1>4, <1>5, DefaultDenyTrue
  <1>8. diagnosis = "Istio-unknown-denial" => ~Alike(mesh, Targets)
    BY <1>1, <1>3, <1>4, <1>5, DenialExplained
  <1> QED BY <1>6, <1>7, <1>8

\* A connection that was reset, for want of encryption.
LEMMA EncryptionFound ==
  ASSUME SaidInv, MeshInv, MeshReadable, PeersReadable, NEW diagnosis, NEW place, FromIstio(diagnosis, place)
  PROVE  /\ diagnosis = "Istio-STRICT" =>
               /\ \E pod \in ToSet(Targets) : Strict(mesh, pod, world.service)
               /\ world.source \notin mesh.sidecars
         /\ diagnosis = "Istio-DestinationRule" /\ place \in {"name", "address"} =>
               /\ \E pod \in ToSet(Targets) : Strict(mesh, pod, world.service)
               /\ world.source \in mesh.sidecars
               /\ \E subset \in IF TakenRoute(mesh, world.service, RequestTo(place)) = <<>> THEN {0}
                                ELSE {d.subset : d \in Taken(mesh, world.service, RequestTo(place))} :
                      PlainText(mesh, subset, world.service, world.source)
  <1>1. PeersKnown(mesh, world.service, Targets)
    BY PeeringKnown
  <1>2. ASSUME diagnosis = "Istio-STRICT"
        PROVE  /\ \E pod \in ToSet(Targets) : Strict(mesh, pod, world.service)
               /\ world.source \notin mesh.sidecars
    <2>1. world.source \notin mesh.sidecars /\ EffectiveMode(mesh, world.service, Targets) = "STRICT"
      BY <1>2 DEF FromIstio, inspectIstioMTLSReset, InMesh
    <2> QED BY <1>1, <2>1, StrictTrue
  <1>3. ASSUME diagnosis = "Istio-DestinationRule", place \in {"name", "address"}
        PROVE  /\ \E pod \in ToSet(Targets) : Strict(mesh, pod, world.service)
               /\ world.source \in mesh.sidecars
               /\ \E subset \in IF TakenRoute(mesh, world.service, RequestTo(place)) = <<>> THEN {0}
                                ELSE {d.subset : d \in Taken(mesh, world.service, RequestTo(place))} :
                      PlainText(mesh, subset, world.service, world.source)
    <2> DEFINE r == RequestTo(place)
    <2>1. r.source = world.source /\ r.port = Chosen(world.service).port
      BY RequestIs
    <2>2. inspectIstioDestinationRuleMTLSMismatch(mesh, world.service, Targets, r) # {}
      BY <1>3 DEF FromIstio
    <2>3. RoutesKnown(mesh, world.service, r)
      BY <1>3, RoutingKnown
    <2> HIDE DEF r
    <2>4. /\ r.source \in mesh.sidecars
          /\ \E pod \in ToSet(Targets) : Strict(mesh, pod, world.service)
          /\ \E subset \in IF TakenRoute(mesh, world.service, r) = <<>> THEN {0}
                           ELSE {d.subset : d \in Taken(mesh, world.service, r)} :
                 PlainText(mesh, subset, world.service, r.source)
      BY <1>1, <2>1, <2>2, <2>3, DestinationRuleTrue
    <2> QED BY <2>1, <2>4 DEF r
  <1> QED BY <1>2, <1>3

\* What routes are blamed for.
LEMMA RouteFound ==
  ASSUME SaidInv, MeshInv, MeshReadable, NEW diagnosis, NEW place \in {"name", "address"}, FromIstio(diagnosis, place)
  PROVE  LET r == RequestTo(place)
             route == Head(TakenRoute(mesh, world.service, r)).route
         IN  /\ diagnosis = "Istio-subset" =>
                   \E d \in Taken(mesh, world.service, r) : Dead(mesh, d, world.service, Targets, world.source)
             /\ diagnosis = "Istio-unknown-upstream" /\ RulesFor(mesh, world.service, world.source) # <<>> =>
                   ~\E d \in Taken(mesh, world.service, r) : Dead(mesh, d, world.service, Targets, world.source)
             /\ diagnosis = "Istio-direct-response" => route.direct # 0
             /\ diagnosis = "Istio-abort" => route.abort.percent > 0
  <1> DEFINE r == RequestTo(place)
             route == Head(TakenRoute(mesh, world.service, r)).route
             routing == inspectIstioTrafficRouting(mesh, world.service, Targets, r)
  <1>1. r.source = world.source /\ RoutesKnown(mesh, world.service, r)
    BY RequestIs, RoutingKnown
  <1>2. diagnosis \in {"Istio-subset", "Istio-unknown-upstream"} => Names(routing, diagnosis)
    BY DEF FromIstio
  <1>3. diagnosis \in {"Istio-direct-response", "Istio-abort"} =>
            \E response : Names(inspectIstioIntentionalRouteBehavior(mesh, world.service, r, response).insights, diagnosis)
    BY DEF FromIstio
  <1> HIDE DEF r
  <1>4. /\ diagnosis = "Istio-subset" => Insight("Istio-routing", "FAIL", "Istio-subset") \in routing
        /\ diagnosis = "Istio-unknown-upstream" => Insight("Istio-routing", "WARN", "Istio-unknown-upstream") \in routing
    BY <1>2, NamedIs DEF Names
  <1>5. diagnosis = "Istio-subset" =>
            \E d \in Taken(mesh, world.service, r) : Dead(mesh, d, world.service, Targets, world.source)
    BY <1>1, <1>4, SubsetTrue
  <1>6. diagnosis = "Istio-unknown-upstream" /\ RulesFor(mesh, world.service, world.source) # <<>> =>
            ~\E d \in Taken(mesh, world.service, r) : Dead(mesh, d, world.service, Targets, world.source)
    BY <1>1, <1>4, UpstreamExplained
  <1>7. ASSUME diagnosis \in {"Istio-direct-response", "Istio-abort"}
        PROVE  /\ diagnosis = "Istio-direct-response" => route.direct # 0
               /\ diagnosis = "Istio-abort" => route.abort.percent > 0
    <2>1. PICK response : Names(inspectIstioIntentionalRouteBehavior(mesh, world.service, r, response).insights, diagnosis)
      BY <1>3, <1>7
    <2>2. PICK i \in inspectIstioIntentionalRouteBehavior(mesh, world.service, r, response).insights : i.diagnosis = diagnosis
      BY <2>1 DEF Names
    <2>3. /\ i.diagnosis = "Istio-direct-response" => route.direct # 0
          /\ i.diagnosis = "Istio-abort" => route.abort.percent > 0
      BY <1>1, ToldTrue
    <2> QED BY <2>2, <2>3
  <1> QED BY <1>5, <1>6, <1>7 DEF r

(***************************************************************************)
(* A FAIL that names an object of Istio is true of a target, for every     *)
(* mesh, every Service and whatever the probes meet (istio_authz.go:18-70, *)
(* istio_mtls.go:20-204, istio_traffic.go:20-167).                         *)
(***************************************************************************)
THEOREM MeshBlamedTruly == RuntimeSpec => []MeshBlameTrue
  <1> DEFINE service == world.service
             source == world.source
             taken(i) == Taken(mesh, service, RequestTo(i.url))
             route(i) == TakenRoute(mesh, service, RequestTo(i.url))
             StrictTarget == \E pod \in ToSet(Targets) : Strict(mesh, pod, service)
             Deny(i) == i.diagnosis = "Istio-deny" /\ PoliciesReadable =>
                            \E pod \in ToSet(Targets) : Hits(mesh, "DENY", pod, service, source, i.url)
             Default(i) == i.diagnosis = "Istio-default-deny" /\ PoliciesReadable =>
                            \E pod \in ToSet(Targets) : AllowsNothing(mesh, pod, service, source, i.url)
             Mode(i) == i.diagnosis = "Istio-STRICT" /\ PeersReadable => StrictTarget /\ source \notin mesh.sidecars
             Setting(i) == i.diagnosis = "Istio-DestinationRule" /\ i.url # "pod" /\ PeersReadable =>
                               /\ StrictTarget /\ source \in mesh.sidecars
                               /\ \E subset \in IF route(i) = <<>> THEN {0} ELSE {d.subset : d \in taken(i)} :
                                      PlainText(mesh, subset, service, source)
             Upstream(i) == i.diagnosis = "Istio-subset" /\ i.url # "pod" =>
                                \E d \in taken(i) : Dead(mesh, d, service, Targets, source)
             Direct(i) == i.diagnosis = "Istio-direct-response" => Head(route(i)).route.direct # 0
             Abort(i) == i.diagnosis = "Istio-abort" => Head(route(i)).route.abort.percent > 0
  <1>1. ASSUME SaidInv, MeshInv, MeshReadable, NEW i \in report["service"], i.check \in IstioLayers
        PROVE  Deny(i) /\ Default(i) /\ Mode(i) /\ Setting(i) /\ Upstream(i) /\ Direct(i) /\ Abort(i)
    <2>1. mesh # None
      BY <1>1 DEF MeshReadable
    <2>2. FromIstio(i.diagnosis, i.url)
      BY <1>1, <2>1 DEF MeshInv
    <2>3. i.diagnosis \in {"Istio-direct-response", "Istio-abort"} => i.url \in {"name", "address"}
      BY <2>2 DEF FromIstio
    <2>8. /\ i.diagnosis = "Istio-DestinationRule" /\ i.url # "pod" => i.url \in {"name", "address"}
          /\ i.diagnosis = "Istio-subset" /\ i.url # "pod" => i.url \in {"name", "address"}
      BY <2>2 DEF FromIstio, Authority
    <2>4. Deny(i) /\ Default(i)
      BY <1>1, <2>2, DenialFound
    <2>5. Mode(i)
      BY <1>1, <2>2, EncryptionFound
    <2>6. Setting(i)
      BY <1>1, <2>2, <2>8, EncryptionFound
    <2>7. Upstream(i)
      BY <1>1, <2>2, <2>8, RouteFound
    <2>9. Direct(i) /\ Abort(i)
      BY <1>1, <2>2, <2>3, RouteFound
    <2> QED BY <2>4, <2>5, <2>6, <2>7, <2>9
  <1>2. SaidInv /\ MeshInv => MeshBlameTrue
    BY <1>1 DEF MeshBlameTrue
  <1> QED BY <1>2, MeshFound, VerdictsStay, PTL

(***************************************************************************)
(* A denial, or a missing upstream, that the objects of Istio explain is   *)
(* not called one without a cause, for every mesh (istio_authz.go:48-70,   *)
(* istio_traffic.go:40-79).                                                *)
(***************************************************************************)
THEOREM MeshCausesNamed == RuntimeSpec => []MeshCauseNamed
  <1> DEFINE Denial(i) == i.diagnosis = "Istio-unknown-denial" /\ PoliciesReadable =>
                 \E policy \in mesh.authorization :
                     policy.selects # None /\ policy.selects \cap ToSet(Targets) \notin {{}, ToSet(Targets)}
             Upstream(i) == /\ i.diagnosis = "Istio-unknown-upstream" /\ i.url # "pod"
                            /\ RulesFor(mesh, world.service, world.source) # <<>>
                            => ~\E d \in Taken(mesh, world.service, RequestTo(i.url)) :
                                      Dead(mesh, d, world.service, Targets, world.source)
  <1>1. ASSUME SaidInv, MeshInv, MeshReadable, NEW i \in report["service"], i.check \in IstioLayers
        PROVE  Denial(i) /\ Upstream(i)
    <2>1. mesh # None
      BY <1>1 DEF MeshReadable
    <2>2. FromIstio(i.diagnosis, i.url)
      BY <1>1, <2>1 DEF MeshInv
    <2>3. Denial(i)
      BY <1>1, <2>2, DenialFound DEF Alike
    <2>5. i.diagnosis = "Istio-unknown-upstream" /\ i.url # "pod" => i.url \in {"name", "address"}
      BY <2>2 DEF FromIstio, Authority
    <2>4. Upstream(i)
      BY <1>1, <2>2, <2>5, RouteFound
    <2> QED BY <2>3, <2>4
  <1>2. SaidInv /\ MeshInv => MeshCauseNamed
    BY <1>1 DEF MeshCauseNamed
  <1> QED BY <1>2, MeshFound, VerdictsStay, PTL

=================================================================================
