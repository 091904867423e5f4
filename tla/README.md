# KubeNetMods in TLA+

This directory models the core of `knm`, the network troubleshooting CLI of this
repository, in TLA+. TLC checks the models on small instances, TLAPS proves the
theorems for every value of the constants. `PROJECT.json` lists every component,
run, mutant, finding, hazard and theorem, and maps every definition to its source
lines. Run `tlc -workers 2 -config X.cfg M` for a run of module `M` and
`tlapm M.tla` for a proof module.

## 1. The system

`knm` is one process per command. It reads objects from the Kubernetes API
server, decides what they mean for one traffic path, executes probes in a pod and
writes a report. Nothing is kept between commands except what it leaves in the
cluster: its debug pods. A command is one thread of control; only `check gateway`
takes its lists in concurrent goroutines, which it joins before it looks at one of
them. What else runs concurrently with a command is the cluster, its users, and
other `knm` processes.

| component | source | state | operations |
|---|---|---|---|
| Debug pod lifecycle | `internal/kube/podexec.go`, `ensureGatewayDebugPod` in `internal/check/gateway.go`, the deferred cleanups of `RunService` and `RunEgress` | the pods in the cluster; what the run remembers of the pod it read and created | `EnsureDebugPod`, `DeletePodIfExists`, `ensureGatewayDebugPod` |
| Calico policy decision | `internal/policy/calico/analyze.go` | matches of a path, grouped by policy | `calicoDirectionDecision`, `calicoDNSDecision`, `effectiveCalicoMatchAfterPass` |
| Calico rule matching | `internal/policy/calico/analyze.go` | none (pure) | `ruleMatchesPath`, `ruleMatchesDNSResolver`, `calicoEntityMatchesPod`, host endpoints, profiles |
| Calico blockers | `internal/policy/calico/blockers.go` | insights | `ShowBlockers` |
| Cilium policy decision | `internal/policy/cilium/*.go` | insights | `Analyze`, `AnalyzeDNS`, `AnalyzeExternalEgress`, `ShowBlockers` |
| Native NetworkPolicy | `internal/policy/native/native.go` | none (pure) | `PolicySelectsPod`, `EgressRuleAllows`, `IngressRuleAllows`, `PortsAllow` |
| Service check | `internal/check/service*.go` | the report, the objects read so far | thirteen layers called in order by `RunService` |
| Istio service path | `internal/check/istio*.go` | insights | authorization, mTLS, routing, sidecar scope |
| Egress check | `internal/check/egress.go` | the report | `RunEgress` |
| Gateway check | `internal/check/gateway.go` | the report, caches of Services and endpoints, matched rules | lists, listeners, precedence, grants, backends, probes, dedupe |
| Blockers check | `internal/check/blockers.go` | the report | `RunBlockers` |
| Runtime probes | `internal/runtime/runtime.go`, `internal/check/runtime.go`, `local_http.go` | none (pure) | classification of failures, URL candidates |
| Report and exit status | `internal/model/model.go`, `finishReport` in `internal/cli/cli.go` | results, diagnoses | `Add`, `Diagnose`, exit code |
| Discover | `internal/check/discover.go` | result list | name and label search |
| Text, JSON and HTML output | `internal/report/report.go` | none | rendering |
| Flag parsing | `internal/cli/cli.go` | options | aliases, defaults |
| Client construction | `internal/kube/client.go` | clientsets | kubeconfig |

How they interact: `cli` builds options and calls one `Run...`, which builds a
client, runs its layers one after another over one `model.Report`, and returns
it; `cli` prints it, writes JSON and HTML and derives the exit status. The layers
share the report: later layers read the diagnoses of earlier ones to decide
whether to add theirs. The policy analyzers are called by the service, egress and
blockers checks and return insights.

What is hard:

- **Several actors on one pod name.** Debug pods have default names. Two runs,
  the kubelet, users and a run that was killed act on the same name between any
  two calls of a run. Deletes are by name and graceful; replies are lost.
- **Order.** Calico's verdict depends on the order of tiers, policies and rules,
  and on which matches a Pass skips; Cilium denies before it allows. Gateway
  routes have a precedence. The first diagnosis wins over later ones.
- **Two implementations of one question.** `check service`, `show blockers` and
  `check egress` each decide what a policy does; `check gateway` computes why
  nothing matched with other code than what matches.
- **Partial reads.** Every list may fail, or be of a kind that the cluster does
  not know, and the layers go on with what they have.
- **Combinations.** A verdict is made of several independent reads and decisions;
  a test fixes one combination.

What makes each part correct: a debug pod is deleted only if it is one, is never
left behind by a run that ends, and probes never run in the wrong pod; a policy
verdict agrees with what the policy engine does to the connection; the commands do
not contradict each other; the rule a Gateway serves a request with is the one the
report follows; a check that found a failure ends with a diagnosis and a failing
exit status; a diagnosis is about a layer that failed.

## 2. Modules and the code they model

| module | models | size of an instance |
|---|---|---|
| `Report` | what every command promises of its report and exit status (abstract) | findings, an exit status |
| `DebugPod` | the debug pods of all commands, against an API server with graceful deletes, the kubelet, users and crashes | constants `Run`, `Key`, `Kind` |
| `CalicoDecision` | `calicoDirectionDecision`, `analyzeDNSEgress` and Calico's own evaluation, over tiers | constants `Policy`, `Tier`, `Shapes`, `Layouts` |
| `ServiceCheck` | `RunService` and `finishReport` | constants `Options`, `Services`, `PodLists` |
| `PolicyWorld` | the cluster that policies are read against: pods, namespaces, ports, addresses, DNS | constants `Pods`, `Namespaces`, ... |
| `NativePolicy` | `native.go` and its three readers in `check/` | |
| `CiliumPolicy` | `cilium/analyze.go`, `cilium/blockers.go` | |
| `CalicoPolicy` | rule matching, host policies and blockers of `calico/` | |
| `PolicyEnforcement` | what the network plugins do to a packet (reference semantics) | |
| `PolicyCommands` | the policy layers of `check service`, then `show blockers` or `check egress`; composes the five above | constants `Worlds`, `Asks`, `URLLists`, `Flags` |
| `IstioPath` | `istio*.go`: what is read of a mesh after a probe | constants `Accounts`, `AccountOf`, ... |
| `IstioEnforcement` | what the proxies of a mesh do with a request (reference semantics) | |
| `ServiceRuntime` | `checkRuntimePath` in a mesh; composes `PolicyCommands`, `IstioPath` and `ServiceCheck` | constant `MeshPaths` |
| `GatewayRouting` | listeners, hostnames, matches, scores, grants of `gateway.go` | constants for labels, segments, ... |
| `GatewayAPI` | which rule the Gateway API serves a request with (reference semantics) | |
| `GatewayTraffic` | `check gateway` for one request; composes the two above | constant `Families` |
| `MCDebugPod`, `MCCalicoDecision`, `MCServiceCheck`, `MCPolicyCommands`, `MCServiceRuntime`, `MCGatewayTraffic` | instances for TLC | |
| `DebugPodProofs`, `CalicoProofs`, `ServiceProofs`, `PolicyProofs`, `RuntimeProofs`, `GatewayProofs`, `GatewayChoiceProofs` | theorems | any |
| `SequenceLemmas` | what the other proof modules need of sequences and numbers | |

**DebugPod.** `pods` is what the API server stores under a (namespace, name)
key, with a UID, the KubeNetMods labels, a readiness and a deletion mark. `pc[r]`
is the next API call of run `r`; every call is an action, so that others act
between two of them. `EnsureGet`, `EnsureDelete`, `EnsureCreate` and `Poll` are
`EnsureDebugPod`; `CleanupGet` and `CleanupDelete` are `DeletePodIfExists`, run
for the source key and then for the target key as `RunService` defers them;
`ReuseGet` and `ReuseWait` are `ensureGatewayDebugPod`. A reply of Create or
Delete may be lost after the server acted. The calls of the deferred cleanup
(`CleanupPC`) may also never be answered. Users create unlabelled pods and
delete any, pods end, runs crash at any call. Not modelled: a request that the
server applies long after its client gave up, and users who change labels.

**CalicoDecision.** A policy is its types and its rules, a rule an action and the
destinations it hits (the target, or one of several resolvers); selectors, nets
and ports, which decide what these are, are in `CalicoPolicy`. `Decide` picks the
packet, `Collect` gathers the matches as the loops over policies and rules do,
`FollowPass` is one round of `effectiveCalicoMatchAfterPass`, `FallThrough` and
`Settle` give the verdict. `CalicoVerdict` evaluates the same policies tier by
tier, as Calico documents it and as the code means to. The default action of a
tier is taken as Deny.

**ServiceCheck.** `pc` is the layer that runs next; each layer is one action,
each URL and each pod of the runtime layer one step of its own. Every read of the
API server and every probe gives any answer it can give, independently of the
others, because the cluster changes while the command runs and because the run's
deadline may pass anywhere. `report.results` keeps of every FAIL and WARN result
what the exit status depends on: FAIL, or the category of the WARN.
`report.diagnoses` keeps of every diagnosis the kind that the text fragments in
`service_diagnosis.go` and `service_runtime.go` tell apart: two kinds stand for
the diagnoses of the policies, one each for target port, headless port, backends,
Istio, Istio routing, DNS, HTTP, and the two generic ones, `unreachable` and
`pod unreachable`. The analyses that produce policy and Istio insights may say
anything here that their code can say; `PolicyCommands` computes the former,
`ServiceRuntime` the latter.

**The policy modules.** A label selector is the set of the pods it matches, a
namespace selector the set of namespaces, a CIDR the set of addresses, a Calico
network set the addresses it has; a policy is a record of these, and the readings
of the code are operators of the same names (`EgressRuleAllows`,
`ciliumEgressDecision`, `calicoEntityPortsMatch`, `pathSpecificBlockers`). Ports
keep numbers, names, ranges and protocols, since that is where the readings
differ. `Candidates` are the ports a policy may be written for: that of the
Service and what its target port resolves to. `access` says of each list whether
it is read, absent or fails. An insight is its check, its status (or the category
of a WARN) and the kind of its diagnosis.

**PolicyCommands.** One action per layer: `native`, `calico`, `host`, `cilium` of
`check service`; `startBlockers` to `blockersConclude` of `show blockers`;
`egressSource` to `egressEnd` of `check egress`, one step per URL for its posture
and one for its probe. The cluster (`world`) stays as it is; whether a probe is
answered is limited by `PolicyEnforcement` and otherwise arbitrary. The findings
of each command are kept apart in `report`, so that one can be compared with the
other. `finishService` ends the report of a cluster without a mesh.

**IstioPath and ServiceRuntime.** A mesh is the objects of Istio in the cluster, the
pods that have a sidecar, those that are ready, and the outcome of each list in each
namespace. The operators have the names of the functions they stand for. Path,
headers and query are given on the command line and are the same in every request,
so that a pattern says whether it matches them; the host is not, since a Service is
probed by name, by address and past it by pod. In `ServiceRuntime` a session of a
cluster with a mesh goes on after the policy layers: `targetLayers` and
`policyLayers` leave the diagnoses that the runtime layer asks for,
`checkRuntimePath` looks for routes at risk, `probeURL`, `endOfURLs` and `probePod`
are its loops, with `SaysSignal`, `answeredURL`, `failedURL` and `failedPod` for the
ways a probe can end. What a probe meets is arbitrary except for *access denied*,
which `IstioEnforcement` has to say of a ready target. `ServiceCheck` lets the
analyses of Istio say anything; `RuntimeRefines` shows that every step of
`ServiceRuntime` is a step of it, so that what is proved of its reports
(`RootCauseFirst`) is about these analyses, too.

**GatewayRouting and GatewayTraffic.** A case is a cluster and a command line.
`readOptions`, `reachCluster`, `readLists`, `checkListeners`, `selectRules`,
`checkParents`, `checkExpected`, `checkMirror`, `analyze`, `scan`, `dataplane`,
`probe`, `conclude`, `finishScan`, `dedupe` are the stages of
`scanGatewayTrafficIntent` and `RunGateway` in their order. Services and
EndpointSlices may give another answer at every read; `services` and `ready` are
the caches that keep the first one. Hosts are sequences of labels from the right. A
path is the sequence of its segments and whether its text ends in a slash, because
`gatewayPathPrefixMatches` compares texts; a regular expression is one text that may
be anywhere, in a path or in the name of a gRPC service or method. Diagnoses are told
apart by fragments of their texts, and these carry the message of a condition, which a
controller writes: `says` of a condition is what its message contains of these
fragments by chance, `Says` what the whole text of a diagnosis has. `Lists` are the
twenty lists of `runGatewayScan`, each with its own warning.
`report.problems` counts what `--limit` lets through. `GatewayAPI` takes the
tie-breakers of the Gateway API one by one; the code compares scores. `probed`
has of each listener the addresses that were tried and the implementing Services,
by name and port, that were asked from inside, as the two maps of
`runGatewayHTTPProbes` do; a list of these Services that fails has none.

**Report.** Findings are only added, the exit status is given once, after the last
finding, and follows from all of them under the flags of the command. Each of the
four commands of `PolicyCommands` and `GatewayTraffic` is shown to implement it
(`ServiceReport`, `BlockersReport`, `EgressReport`, `GatewayReport` are instances
with a refinement mapping).

## 3. What the runs check

| run | expect | question and answer |
|---|---|---|
| `debugpod_runs` | pass | Service and egress runs that share a pod name leave no live pod behind (`NoPodLeftBehind`), a leftover of a crashed run is cleared by the next one whose cleanup calls return (`MCLeftoverCleared`), every run gets to its cleanup (`EveryRunGetsToCleanup`). |
| `debugpod_gateway` | pass | A gateway run that reuses pods next to a service run: no probe runs in a pod older than the one created (`TargetNotStale`), no foreign pod that was there to be seen is deleted (`ForeignPodSeenIsKept`). |
| `debugpod_reuse` | violation | While it waits for a terminating debug pod to go, a gateway run takes whatever ready pod appears under the name, an unlabelled one, too (`ReusedPodLabelled`). |
| `debugpod_foreign` | violation | A pod without the labels that took the name after the label check is deleted (`UnownedPodSurvives`). |
| `calico_decision` | pass | The code's verdict is Calico's verdict for paths (`PathAgreesWithCalico`) and resolvers (`DNSAgreesWithCalico`), a Pass skips its tier and nothing else (`OnlyPassSkips`), and following Passes ends (`EveryDecisionEnds`). |
| `calico_silent_tier` | violation | A tier that selects the endpoint and matches nothing does not deny: an Allow of a later tier gives PASS (`SilentTierNotPassed`). |
| `calico_dns_pass` | violation | The resolver decision follows one Pass only: behind two, an Allow of the default tier is not found and the verdict is FAIL (`DNSFollowsEveryPass`). |
| `service_check` | pass | A report does not blame the path for what an earlier layer explains (`RootCauseFirst`), does not blame the network for a probe at a wrong port (`DirectBlameIsAboutTargetPort`); with `--fail-on-warn` status 0 means that every URL was reached (`GreenMeansReached`) and no issue was diagnosed (`PrimaryIssueNeverGreen`). |
| `service_portless` | violation | A Service without ports ends the run in a panic. |
| `service_source_context` | violation | With `--source-context` the source side is looked up in the target's cluster. |
| `policy_commands` | pass | The verdicts of `check service` are those of the engines (`NativeVerdictSound`, `CiliumVerdictSound`, `CalicoVerdictSound`); `show blockers` names a blocker where `check service` sees one (`BlockersExplainPath`); `check egress` agrees on the resolver (`DNSVerdictsAgree`), does not blame a policy for a URL that answered (`ReachedIsNotBlamed`) and explains one that failed (`EgressFailureExplained`); all implement `Report` (`CommandsReport`) and end (`SessionEnds`). In a mesh, a FAIL that names an object of Istio is true of a target pod (`MeshBlameTrue`), no cause is missed that the command could name (`MeshCauseNamed`), and the runtime layer is one that `ServiceCheck` allows (`RuntimeRefines`). |
| `gateway_traffic` | pass | The rule that the report follows is the one the Gateway API serves (`PrecedenceIsGatewayAPI`), the reason for no match is true (`NoMatchReasonTrue`), success is only said where backends, routes, the listeners that end TLS and the expected Service were seen to work (`GreenMeansServed`), what is broken is diagnosed (`BrokenIsExplained`, `WeightedAgrees`), what `--limit` drops is told (`DroppedIsTold`), a probe blames what failed (`ProbeBlameHonest`), dedupe keeps a cause (`DedupeKeepsCause`); the command implements `Report` (`ReportKept`) and ends (`CommandEnds`). |

Every property of a passing run has a mutant in `PROJECT.json`: a plausible slip
in a definition under which TLC finds it violated.

**Bounds.** DebugPod: races are about one name, so one key is enough; two runs
give every pair of commands; one foreign pod can come before, between and after
their calls; two gateway matches are the first that can use a cached pod.
CalicoDecision: two Passes in a row and a rule behind them need three tiers, a
tie needs two policies in one tier; three policies in three tiers give both
(61,908 states). ServiceCheck: the layers are acyclic; two pods give an order of
container ports, two URLs are all there are; the command lines cover each kind of
source except the pod by name, which `service_source_context` has; 1.2 million
states. A Service without ports is left to `service_portless`.
PolicyCommands: some 260 clusters, each with policies of one engine, under two
settings of the flags, and 141 clusters with a mesh (219,232 states, two to three
minutes, most of it to find that each session can go on). Verdicts are about a
source and its targets: one source, two targets with different ports and the DNS
pod in three namespaces are the smallest cluster in which "some target" and "each
target" differ and a peer's namespace matters. Per engine, the policies run through
every kind of peer and of port alone, then in the pairs in which order matters
(deny before allow, one policy before another, a Pass). The meshes are in families
as well: one authorization rule of every form, and the pairs of policies that compete
(on trial or not, of the root namespace, of one target of two); modes of mutual TLS
on every level against a DestinationRule; routes, subsets and faults; Sidecar scopes;
each list unread in each namespace; earlier layers that already have a cause. One
target is enough except where policies or subsets tell two apart, one address except
where the second meets something else. GatewayTraffic: more than
3000 pairs of cluster and command line, in families that each vary one part of a
working cluster (two routes or rules with every pair of matches, hostnames,
listeners, certificates, grants, backends, weights, mirrors, probes, limits,
lists, Services that change between two rounds of probes); precedence is pairwise,
so two candidates are enough (244,364 states, one to two minutes). Prefixes and
requests are taken with and without a slash at their end, and conditions with messages that
have a fragment of another diagnosis.

**Preconditions.** `OrdersTellApart` leaves out tiers and policies of equal
order, `SilentTier` the case of `calico_silent_tier`. `PodsAlike` leaves out pods
that give one named port different numbers: the code asks all of them at the
number of the first. `GreenMeansReached` is about runs that were given a source.
`PrimaryIssueNeverGreen` allows the remark that a Service is an ExternalName,
which is written as a diagnosis. `NativeReadable`, `PeersNameNamespaces`,
`CiliumReadable`, `CalicoReadable` and `OnePort` leave out what section 6 lists:
forms of policies that the code reads otherwise than the engine. `MeshReadable`,
`PoliciesReadable`, `PeersReadable` and `RoutesReadable` do the same for a mesh: every
list is read, every target has a sidecar and the target port of the Service (one
without it is never sent a request), and the oldest PeerAuthentication that selects a
target is listed first. `SeesAll`, `OneLabelWildcards`, `Comparable` and
`OnlyListener` do it for Gateways: `Comparable` leaves out regular expressions, of which
the Gateway API promises nothing, and prefixes that end in a slash (other than "/"), which
code and API read differently (section 6). `Unmixed`, for `DedupeKeepsCause`, leaves out
sets of diagnoses in which one text has two of the fragments that they are told apart by;
`PlainRejections`, for `BrokenIsExplained`, messages that make the report of a rejection
read like a backend or another report like a rejection. That something got to the stage of
`NoMatchReasonTrue` is said of the later stages only where each route has one way to
match, since the code compares routes there and not their entries. The
clusters outside of the preconditions are in the runs; the other properties hold
for them, too. Deadlock is not checked: commands end.

**Fairness.** `DebugPod!FairSpec`: a run that started takes its next step up to its
cleanup, since its calls up to there have the deadline of the command
(`cli.go:456`) and the polls their own, and the kubelet removes pods whose grace
period is over. Nothing is assumed of the calls of the deferred cleanup: they have
`context.Background()` (`service.go:104-105`, `egress.go:63`) and the client has no
timeout, so they need not return. `EveryRunGetsToCleanup` says how far a run gets;
`LeftoverCleared` has as its hypothesis `CleanupReturns`, that these calls are
answered. Nothing is assumed of pods that become ready, of users or of crashes.
`CalicoDecision!FairSpec`: the analyzer is one thread that does not block.
`PolicyCommands!Spec`, `ServiceRuntime!RuntimeSpec` and `GatewayTraffic!Spec`: weak
fairness of the one thread
of the command, whose calls and probes all have timeouts (`cli.go:456`); the cleanup of
debug pods is not part of these modules.

## 4. What is proved

Each theorem is about every value of the constants that the named ASSUMEs of the
modules allow; these say that the constants have their types and, in
`CommandsAssumption` and `TrafficAssumption`, that targets are listed in the
namespace of their Service, that the chosen port is one of its ports, that a Cilium
policy which parses is sanitized as the parser leaves it (and selects pods of its own
namespace), that no policy is of a kind the cluster does not have, that a host of a
URL is no pod, that the Services which implement a Gateway are given for each
Gateway, that no hostname stands for its absence, that there are finitely many
headers and parameters to match, and that a Gateway has finitely many addresses.
`AddressAssumption` says that `AddressOrder` lists all addresses; the order in which
Calico's resolvers are reported is that of their texts.
`RuntimeAssumption` adds that the mesh is one of a Service with a chosen port and that
VirtualServices and DestinationRules are listed namespace by namespace, as
`istio_client.go:35-57` reads them. `SequenceLemmas` has what the proofs need of flattened lists, last and first
indices and elements, none of which the library states.

**Debug pods.**

- `TypeCorrect`, from `TypeInv`: types, and a gateway run at a probe has matches left.
- `TargetIsFresh` and `ForeignPodSafe`, for any number of runs, keys and foreign
  pods. Neither property is inductive: both need `UidInv`, that every UID in the
  cluster and in a run's memory is below `nextUid`, and what each run knows of its
  key at each call. `Aged` says that a step leaves every pod as old as it was or
  puts a new one in its place; all actions have it.
- `NothingLeftBehind`: a service or egress run that ends by itself leaves no live
  pod behind that it created. `LeftInv` says that such a pod still carries the
  labels, which the cleanup asks for, and is not live once the cleanup was there;
  `Doomed`, that no step of anybody takes a deletion back.

**Calico.**

- `TypeCorrect` and `PassSkipsOnlyItsTier`, for any policies, tiers and layouts.
  `FirstIsLeast` shows that the sorted list has a head whatever the matches are;
  `ChaseInv` says that whatever comes before the current match was skipped by a
  Pass of its tier.
- `PathAgreement` and `DNSAgreement`: where the orders tell the policies apart and
  no tier is silent, the verdict of the code is that of the tier-by-tier evaluation,
  for any number of tiers and of Passes. `ChaseOf`, in `AgreeInv`, says that the
  current match is the first of its tier and that each tier before it passes;
  `TierFirst` is that such a match gives the outcome of its tier, `NoneSilent` that
  of the tiers before no one has policies and no match.

**Service check.**

- `TypeCorrect` and `IssueIsNotGreen`: for any command line, Service and pods. The
  strengthening is that a diagnosis other than the ExternalName remark comes with a
  result that makes the strict exit status 1, and that a Service that could not be
  read left a FAIL.
- `CausesFirst`: the strengthening says where in the order of the layers the
  diagnoses of the probes can first appear; from there on no layer adds a cause.
- `GreenIsReached`: `ReachInv` counts through the loop over URLs what has to be a
  finding for each that was not reached.
- `PodBlameIsAboutTarget`: `BlameInv` is that a target port which the pods do not
  have was diagnosed before, and that pods are asked at some port.
  `DirectPortIsTarget` is that this port is the one that the target port means on
  each of them, `SelectedSame` that asking for the chosen port again chooses it.

**Policies.**

- `PolicyProofs!EveryCommandReports` and `RuntimeProofs!EveryRuntimeReports`: each
  command implements `Report`, for every cluster, mesh and command line. `OpenInv`
  is the strengthening: a command whose layers are still to come has no exit
  status, and one that has not started has no finding (`OpenUntilExit`);
  `RuntimeInv` adds that the report is open while probes are to come
  (`OpenWhileProbing`).
- `RuntimeProofs!VerdictsStay`: whatever a report says with the name of a policy
  verdict is what that engine decides on this cluster (`SaidInv`); the steps of
  other layers and commands add none. So a property of a report becomes one of the
  operators of an engine.
- `RuntimeProofs!NativeSoundness`: `NativeVerdictSound` for all NetworkPolicies,
  by `NativeSound`, from `NativeEgressBlame`, `NativeIngressBlame` and the converse
  for a PASS. `NumbersArePorts` is that the numbers compared are those of containers.
- `RuntimeProofs!CiliumSoundness`: `CiliumVerdictSound` for all readable Cilium
  policies. The entries that the code collects from all policies are those of the
  rules that select a pod, sections and policies flattened (`FlattenMembers`), the
  ports and peers it compares hold exactly where those of the plugin do, and the
  order of its questions is that denies win.
- `RuntimeProofs!CalicoSoundness`: `CalicoVerdictSound` for all readable Calico
  policies. `EntityAgrees` is that the source or destination of a rule matches for
  the code exactly if it does for Calico; `OneLeads`, that the sorted matches begin
  with the first rule that holds; `FirstDecides`, that its action is the verdict.
- `RuntimeProofs!BlockersExplained`: `BlockersExplainPath`, over three layers of each
  of two commands. `BlockersInv` is that what a layer of `show blockers` found is in
  the report until it ends; `SaidInv` gives what `check service` decided; the rest
  compares two implementations: `SwappedSection` (the entries of Cilium, whose lists
  of policies have another order), `MatchesReached` and `SomeFirst` (a Calico rule
  that decides is one that the blockers meet).
- `RuntimeProofs!ResolversAgree`: `DNSVerdictsAgree`. The list of `check service` is
  that of `check egress` with policies of the target's namespace before it
  (`RulesConcat`, from `FlattenConcat`); these select no source pod of another
  namespace, so the first hit moves with the rest (`SkippedRules`).
- `RuntimeProofs!ReachedNotBlamed`: `ReachedIsNotBlamed`. `LetOutInv` is that a URL
  that answered is one that the policies let out; each posture that the code fails is
  then one that they refuse.
- `RuntimeProofs!FailuresExplained`: a report of `check egress` that fails a URL has
  a diagnosis. It is inductive once the steps of other commands are known to be
  silent in it (`StepExplained`, `OthersSilent`).
- `RuntimeProofs!CommandsTyped`: types; `Remaining` says that the URLs still to be
  tested are the rest of a list that was given.
- `RuntimeProofs!RuntimeRefinesCheck`: every step of `ServiceRuntime` is a step
  of `ServiceCheck` or a stutter. `Effect` is what the insights of a step leave of
  results and kinds of diagnoses, `Adds` that the report of `ServiceCheck` has just
  these more, `PathInv` what the layers before leave.
- `RuntimeProofs!DenyBlameTrue` and `DefaultDenyTrue`: for all AuthorizationPolicies
  that the code can read, any mesh, source and number of targets, an
  AuthorizationPolicy that is named for a denial, and ALLOW policies that are said to
  allow nothing, are those of some target's proxy and do so. `RuleRead` is that a
  rule which matches for the code holds for the proxy and the other way round,
  `SelectedEnforced` that the policies read are those the proxies enforce, also
  where a list was lost.
- `RuntimeProofs!DenialExplained`: where the targets are under the same policies, a
  denial by the proxies is not reported without a cause; the converse of the two above,
  by `RuleRead` again.
- `RuntimeProofs!StrictTrue` and `DestinationRuleTrue`: the code takes the mode of a
  target port from the first PeerAuthentication that has one, and TLS settings from the
  first DestinationRule that has some; these are `EffectiveMode` and `RequestTLS` of the
  proxies, because the lists keep their order through every selection (`ItemsIn`).
- `RuntimeProofs!SubsetTrue`, `UpstreamExplained` and `ToldTrue`: the code looks at the
  routes of all VirtualServices that match, Istio at the first. `RoutesReadable` makes
  them one, `RoutingFinds` says what the code finds of its destinations.
- `RuntimeProofs!MeshBlamedTruly` and `MeshCausesNamed`: `MeshBlameTrue` and
  `MeshCauseNamed`, for every mesh and whatever the probes meet. The theorems
  above are about one request; a report has the findings of several probes, by
  name, by address and past the Service. `MeshInv` says of each diagnosis of Istio in
  the report that it was found of a request to the place it names, and of a denial that
  the proxies of that place may deny it (`FromIstio`); `Grounded` carries this through
  the operators that sort, drop and join insights, and `MeshFound` through every way a
  probe can end.

**Gateway check** (`GatewayProofs`; from `PrecedenceFollowsAPI` on,
`GatewayChoiceProofs`, which extends it).

- `GatewayReports`: `check gateway` implements `Report`; `ReportInv` is that the
  exit status is given at the end, `AddProblemsGrows` that `--limit` takes nothing
  away that was added.
- `DedupeExplained`: `DedupeKeepsCause`; as long as no text has two fragments
  (`Unmixed`), dedupe leaves for each diagnosis it removes another that explains it.
  `CauseKept` follows the chain of reasons to one that is not itself removed. The
  hypothesis is needed: a text with two fragments can remove itself.
- `AlwaysKept`: the invariant `Kept` that the others stand on, in parts. `PathInv`:
  the selected rules are among the matches and `paths` lists just their candidates
  (`PathsAre`, from `SortedIs`: sorting a finite set of tuples gives a sequence of
  its members, each once). `CacheInv`: a cached answer is one the cluster has, and
  no step changes it (`CachesGrow`). `AnalysisInv`: the analysis of each reference
  so far is what reading it again gives. `ReportTyped` and `ExitTyped`: types.
- `GatewayTypes`: `TypeOK`.
- `GreenIsServed`: `GreenInv` says for each stage that either something else than
  PASS was reported or all that was looked at so far works. It rests on what each
  stage adds to the report (the lemmas `...Adds`; `FlattenMembers` for the lists of
  problems) and on caches that only grow.
- `BrokenExplained` and `WeightsAgree`, from `BackendsKept`: `BackendInv` relates the
  findings of the second round of analysis to the result of the first, and these to
  the diagnoses until after dedupe. `PlacedInv` says which diagnosis can be about
  which part of a route, `RejectionStays` that under `PlainRejections` a diagnosis that
  reports a rejection is not itself removed; so what it removes has a reason left.
- `ProbesBlameHonestly`: `ProbeInv` says of every answer from outside that all
  addresses of its listener were tried and that inside nothing is left to ask, or
  could not be asked; a later round for the same listener can then neither add an
  answer nor a contradicting cause. `RoundIs` is what one round finds.
- `PrecedenceFollowsAPI`: `PrecedenceIsGatewayAPI`, for any routes, Gateways and
  request that code and API read alike (`Comparable`; `PlainPath` is such a path). The Gateway API takes its tie-breakers one by one (`GatewayAPI!Winner`),
  the code sorts candidates by a hostname score and a match score and takes the
  first. `Keyed` are the candidates whose key of seven numbers no other exceeds;
  `MostStep` and `LexConcat` say that one more tie-breaker is one more number of the
  key, `HostKeyIs` and `ScoreIs` that the scores of the code order the same way
  as these keys (the hostname score counts labels, which is why a hostname has one;
  `PathScoreIs`, `BestHTTP` and `BestGRPC` do it for matches, where a path without a
  slash at its end is longer exactly if it has more segments).
  `WaysAre` relates the ways of the API to match an entry of a route to the matches
  that the code collects, `WinnerFirst` finds that the winner is the first of the
  sorted list at its listener, and `Followed` keeps what was selected until it is
  used.
- `DroppedTold`: `DroppedIsTold`, for any limit. The code counts what it adds beyond
  `--limit`; as problems are a set here, the count says what was told only if no
  problem is added twice. `Tidy` is that the problems of one step are apart, `Ahead`
  that those of the steps still to come are of checks that nothing has reported yet,
  `ScanInv` that no reference is scanned twice; so `CountInv`: as many are told as
  were counted, up to the limit. `SuccessInv` is what a success leaves to be dropped.
- `NoMatchReasonsTrue`: `NoMatchReasonTrue`, for any Gateways, routes and request that
  code and API read alike (`Comparable`). The
  code narrows sets of listeners, then of routes, then of routes with a match that
  passes; `PassedIs` says of each stage that one of these sets is empty exactly if
  nothing passes the stages up to there one by one, `PartsHold` that each part of a
  match is asked what the Gateway API asks. `ReasonInv` keeps what was said: while there
  is no path, a reason in the report is the one of this request, and nothing after the
  choice of rules but the end of the report is reached.

Attempts to prove led to changes of the model or its properties where these were
wrong: `DroppedIsTold` said of a success that nothing is dropped, where filters that
match nothing may be; `ProbeBlameHonest` was false where the Services of a Gateway
change between two rounds (now `Steady`); Services were remembered without their
port; `CiliumVerdictSound` did not hold of a container port that UDP and TCP share,
nor `CalicoVerdictSound` of an empty list of `ports` beside `notPorts`
(`calico/analyze.go:1444-1447`), of criteria that an address of the Service meets,
and of network sets that could not be read: these are preconditions now, and listed
in section 6. In a mesh, `IstioEnforcement` took the mode of a namespace from all
PeerAuthentications without a selector where one counts, and a target without the
named port was asked at a port it does not have. `NoMatchReasonTrue` asked for an
entry that passes the first stages, which a route without rules, found by the code at
these stages, does not have.

Only model-checked: liveness (`EveryRunGetsToCleanup`, `MCLeftoverCleared`,
`EveryDecisionEnds`, `SessionEnds`, `CommandEnds`), which this prover does not do.
Every other property of the passing runs is stated by a theorem.

## 5. What is not modelled

- `check gateway` without a request: the general scan over all Gateways and
  routes; ListenerSets, TCPRoutes and UDPRoutes, the policies attached to Gateways
  and the objects of Envoy Gateway. `generic` stands for its verdict.
- Of the Istio service path: patterns of paths, headers and queries character by
  character, the text of findings, and signals as they are recognized in it.
- Runtime probes are I/O; their outcomes are in the models, the recognition of
  outcomes in the text that curl and nslookup print is not.
- The languages of label and Calico selectors: a selector is the set it matches.
- Rendering, flag parsing, client construction and `discover` keep no state and
  decide nothing that another part depends on.

## 6. What the models show about the code

Where the code reads something otherwise than the engine it stands for, a
precondition of section 3 leaves the case out. The repository's documents name
these forms in general terms or not at all, with one exception: `src/README.md:44`
lists port ranges among what is checked of Calico, and `calico/analyze.go:1536-1541`
reads the first number of a range only; `CalicoReadable` leaves ranges in text out.

*Native.* A rule that allows only the port of the Service counts, though the target
port differs. Ingress peers with a podSelector alone match pods of other namespaces
(`native.go:86-102`). `endPort` is ignored. Named ports never match, and a default
deny is reported falsely.

*Cilium.* Posture fails named ports that the path calls ambiguous. An ingress allow
on a named port counts as a miss (`cilium/analyze.go:839`). Paths ignore `toFQDNs`
(1042). `enableDefaultDeny: false` is ignored. `egress: - {}` reads as allow-all.
CIDR groups that cannot be read give FAIL. The resolver verdict never sees
the DNS Service as such (1551) and an allow in one rule hides a deny in a later
one; selectors of `fromRequires` may be satisfied by different pods. An entry for
UDP counts where a target declares the number for UDP as well.

*Calico.* Of a range in text only the first port is read (`calico/analyze.go:1537`).
Ports of an ingress destination are ignored (1332-1380), sources of rules for DNS,
too (1382-1423). A selector without a namespaceSelector matches pods of any
namespace; a network set match precedes notSelector (1590). Where `ports` is there
and empty, `notPorts` is not read (1444-1447). Nets are asked of the address of the
Service, too, which a packet to a pod no longer has, and of network sets that could
not be read `notSelector` excludes none. A resolver that is the
address of a DNS pod stands for all pods of its kind (1996-2009), where the analysis of
Cilium takes that pod alone (`cilium/analyze.go:1579-1583`). Blockers ignore Pass
(`blockers.go:79-173`) and swap source and destination of rules that name ports
only (361-402). Host policies of different HostEndpoints are merged, as are the
policies of all target pods (1001); tiers without a readable order are all 500000
(1790); of two policies of one order the rule index is compared before the name
(1277).

*Egress and blockers.* A policy diagnosis about one URL suppresses the diagnosis of
another (`egress.go:140-147`). A read error of the source fails without a diagnosis
(296). "No policy blocker was identified" is also said when lists failed. On a
failing cluster-wide list `show blockers` returns early where `check service` goes
on. A port `80abc` is read as 80.

*Gateway.* A prefix that ends in a slash, "/abc/", does not match a request for
"/abc" (`gateway.go:5764-5771`), where the Gateway API ignores that slash: such a rule
is not followed, and where nothing else matches the stage named is the path. Method
matches of type RegularExpression are looked for anywhere in a name (5657-5667).
Diagnoses are told apart by fragments such as " backendRef ", " routes to Service " and
" is not accepted by Gateway " (651-722, 786-836) of texts that end in the message of a condition
(3269-3276, 6607-6612). A message that has another fragment counts for both: a diagnosis
of unresolved references that says " backendRef " makes itself superfluous (689), as does
a rejection whose message says so (698), and with it goes the diagnosis of the backend.
`--gateway-class` with a request always fails (`gateway.go:868`).
`--limit` may drop a FAIL and with it the exit status 1 (418-426). With `--gateway`
the other parents of a route are reported missing (3250). A list that failed is
read as empty (4557-4600). Wildcards match one label (5671); `allowedRoutes` and
`parentRef.port` are ignored; a route that its Gateway rejected still takes part
in precedence (5205). Accepted=False of another parent fails the request, and
dedupe then hides the backend (651-722). A certificate missing on one listener
hides "not Programmed" of another. A backend is not broken when its endpoints
could not be read (4352). A debug pod that was not ready is not tried again (3641),
and one that is cached may have ended (3643).

*Istio.* Of VirtualServices and DestinationRules, a list that fails in one namespace
loses those of both (`istio_client.go:35-57`); of AuthorizationPolicies and
RequestAuthentications it is the namespace that comes first (132-174). Objects of
other namespaces are not read. The policies of all target pods are merged, and a
`targetRef` to the Service, which is for waypoints, counts. The identity of a source
is assumed without mutual TLS, rules with other conditions never match
(`istio_authz.go:392-409`), nor does an account that is written with the namespace of
its policy (460). A RequestAuthentication is named before an ALLOW policy that nothing
matches (48), and DENY rules that are "risky" before a CUSTOM policy that matched (56).
Of several PeerAuthentications that select a target the first listed counts, one that
leaves the mode open hides the default of the namespace, port modes count without a
selector and at the port of the Service where the target port has a name
(`istio_mtls.go:177-282`); STRICT is blamed though the target has no sidecar. All
routes that match are considered where Istio takes the first, with destinations of
weight 0 (`istio_traffic.go:20-79`); of a subset whose DestinationRule is missing the
split warning says so (301) and the diagnosis after the probe does not (50). Hosts
with a wildcard match no Service. An answer 401 of the application counts as one of
Envoy where there is a sidecar on the path (`istio.go:23-38`). Backends that were
diagnosed hold back the routing inspection.

*Service and debug pods.* All layers share one deadline (`cli.go:456`): when it
passes, later probes fail as the network would. `selectServicePort` ignores the
protocol (`service_target.go:378`). The calls of the deferred cleanup have
`context.Background()` and no timeout (`service.go:104-105`, `egress.go:63`): one that is
never answered keeps the command from ending, before its report is written. The poll
for readiness reads by name and asks for no labels (`podexec.go:112-122`), so that a pod
that replaced the created one is taken for it. After a graceful delete the create is not
retried (`podexec.go:104`), and an error of the deferred cleanup is dropped
(`service.go:104`).

## 7. What is left

1. The general scan of `check gateway`, against what it says with a request.
2. ListenerSets, TCP and UDP routes in `GatewayTraffic`.
