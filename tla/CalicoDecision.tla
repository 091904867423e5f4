---------------------------- MODULE CalicoDecision ----------------------------
(***************************************************************************)
(* The verdict of the Calico analyzer for one side of a path               *)
(* (calicoDirectionDecision) and for the resolvers of the source pod       *)
(* (analyzeDNSEgress, calicoDNSDecision): which policies apply, which of   *)
(* their rules match, which match decides, and the fall through to the     *)
(* workload profiles.                                                      *)
(*                                                                         *)
(* A rule is its action and the destinations it matches: the selectors,    *)
(* nets and ports of ruleMatchesPath and ruleMatchesDNSResolver are left   *)
(* out.  A destination is a DNS resolver; a path has only destination 1.   *)
(***************************************************************************)
EXTENDS Naturals, Sequences

CONSTANTS
    Policy,      \* policies that select the endpoint, numbered in the order of their names
    Tier,        \* tiers the policies are in
    DefaultTier, \* the tier named "default"
    NumDest,     \* number of resolvers
    Shapes,      \* what a policy may say: see Shape
    NoOrder,     \* spec.order is absent, or the tier could not be read
    Layouts,     \* how policies may be placed in tiers: see Layout
    Endpoints    \* what profiles the endpoints may have

Dest == 1..NumDest
Actions == {"", "allow", "deny", "pass", "log"}
Rules == Seq([action : Actions, hits : SUBSET Dest])

\* The tier of each policy, and spec.order of policies and of tiers.
Layout == [tierOf : [Policy -> Tier], order : [Policy -> Nat \cup {NoOrder}],
           tierSpec : [Tier -> Nat \cup {NoOrder}]]

\* types: whether spec.types lists the direction, does not, or is empty.
Shape == [types : {"listed", "other", "absent"}, rules : Rules]

ASSUME CalicoAssumption ==
    /\ Policy \subseteq Nat
    /\ DefaultTier \in Tier
    /\ NumDest \in Nat \ {0}
    /\ Shapes \subseteq Shape
    /\ NoOrder \notin Nat
    /\ Layouts \subseteq Layout
    /\ Endpoints \subseteq Seq(Seq(Rules)) \ {<<>>}

VARIABLES
    mode,       \* "egress" | "ingress" (a side of a path) | "dns"
    policy,     \* Policy -> Shape
    layout,     \* where the policies are
    endpoints,  \* the profiles of each endpoint: kns.* and ksa.* where they exist
    pc,         \* "start" | "chase" | "done"
    dest,       \* the destination under decision
    matches,    \* the matches of dest
    current,    \* the match the decision has come to, or NoMatch
    followed,   \* a Pass of dest was followed
    verdict     \* "" until decided, then "PASS" | "WARN" | "FAIL"

config == <<mode, policy, layout, endpoints>>
vars == <<mode, policy, layout, endpoints,
          pc, dest, matches, current, followed, verdict>>

NoMatch == [tier |-> DefaultTier, tierOrder |-> 0, order |-> 0, index |-> 0,
            policy |-> 0, action |-> "none"]

Match == [tier : Tier, tierOrder : Nat, order : Nat, index : Nat \ {0},
          policy : Policy, action : {"allow", "deny", "pass"}]

Statuses == {"PASS", "WARN", "FAIL"}

TypeOK ==
    /\ mode \in {"egress", "ingress", "dns"}
    /\ policy \in [Policy -> Shapes]
    /\ layout \in Layouts
    /\ endpoints \in Endpoints
    /\ pc \in {"start", "chase", "done"}
    /\ dest \in Dest
    /\ matches \in SUBSET Match
    /\ current \in Match \cup {NoMatch}
    /\ followed \in BOOLEAN
    /\ verdict \in Statuses \cup {""}

Init ==
    /\ mode \in {"egress", "ingress", "dns"}
    /\ policy \in [Policy -> Shapes]
    /\ layout \in Layouts
    /\ endpoints \in {e \in Endpoints : mode # "ingress" => Len(e) = 1}
    /\ pc = "start"
    /\ dest = 1
    /\ matches = {}
    /\ current = NoMatch
    /\ followed = FALSE
    /\ verdict = ""

-------------------------------------------------------------------------------
(* Which policies and rules apply.                                         *)

PolicyHasType(p) ==
    \/ policy[p].types = "listed"
    \/ policy[p].types = "absent" /\ (mode = "ingress" \/ policy[p].rules # <<>>)

Selected == {p \in Policy : PolicyHasType(p)}

CalicoPolicyOrder(p) == IF layout.order[p] = NoOrder THEN 1000000 ELSE layout.order[p]

CalicoTierOrder(t) ==
    IF layout.tierSpec[t] # NoOrder THEN layout.tierSpec[t]
    ELSE IF t = DefaultTier THEN 1000000 ELSE 500000

ActionOf(rule) == IF rule.action = "" THEN "allow" ELSE rule.action

Hits(rules, d) ==
    {i \in DOMAIN rules : d \in rules[i].hits /\ ActionOf(rules[i]) # "log"}

\* The rules of p that are collected: on a path, none after an allow or a deny.
Collected(p, d) ==
    LET rules == policy[p].rules IN
    {i \in Hits(rules, d) :
        mode = "dns" \/ \A j \in Hits(rules, d) : j < i => ActionOf(rules[j]) = "pass"}

MatchOf(p, i) ==
    [tier |-> layout.tierOf[p], tierOrder |-> CalicoTierOrder(layout.tierOf[p]),
     order |-> CalicoPolicyOrder(p), index |-> i, policy |-> p,
     action |-> ActionOf(policy[p].rules[i])]

Matches(d) == UNION {{MatchOf(p, i) : i \in Collected(p, d)} : p \in Selected}

-------------------------------------------------------------------------------
(* Which match decides.                                                    *)

\* Mutant: the order of a policy comes before the order of its tier.
BeforeByPolicy(m, n) ==
    \/ m.order < n.order
    \/ m.order = n.order /\ m.tierOrder < n.tierOrder
    \/ m.order = n.order /\ m.tierOrder = n.tierOrder /\ m.index < n.index
    \/ /\ m.order = n.order /\ m.tierOrder = n.tierOrder /\ m.index = n.index
       /\ m.policy < n.policy

\* The order of sortRuleMatches.
Before(m, n) ==
    \/ m.tierOrder < n.tierOrder
    \/ m.tierOrder = n.tierOrder /\ m.order < n.order
    \/ m.tierOrder = n.tierOrder /\ m.order = n.order /\ m.index < n.index
    \/ /\ m.tierOrder = n.tierOrder /\ m.order = n.order /\ m.index = n.index
       /\ m.policy < n.policy

First(S) == CHOOSE m \in S : \A n \in S : ~Before(n, m)

\* Mutant: the match after the Pass, of whatever tier.
NextInList == {m \in matches : Before(current, m)}

\* Mutant: the tier of the Pass is not left.
NotBefore == {m \in matches : m.tierOrder >= current.tierOrder}

\* The candidates after a Pass.
Later == {m \in matches : m.tierOrder > current.tierOrder}

\* The profiles of one endpoint, in order; "none" when it has no profile.
ProfileDecision(profiles, d) ==
    LET Decisive == UNION {{<<i, j>> : j \in {j \in Hits(profiles[i], d) :
                                                ActionOf(profiles[i][j]) # "pass"}} :
                               i \in DOMAIN profiles}
        First2 == CHOOSE x \in Decisive : \A y \in Decisive :
                        x[1] < y[1] \/ (x[1] = y[1] /\ x[2] <= y[2])
    IN  IF profiles = <<>> THEN "none"
        ELSE IF Decisive # {} /\ ActionOf(profiles[First2[1]][First2[2]]) = "allow"
        THEN "PASS" ELSE "FAIL"

\* calicoProfileFallbackDecision: the first endpoint that does not pass decides.
Fallback(d) ==
    LET Open == {i \in DOMAIN endpoints : ProfileDecision(endpoints[i], d) # "PASS"}
        FirstOpen == CHOOSE i \in Open : \A j \in Open : i <= j
    IN  IF Open = {} THEN "PASS" ELSE ProfileDecision(endpoints[FirstOpen], d)

OrElse(decision, default) == IF decision = "none" THEN default ELSE decision

-------------------------------------------------------------------------------

\* Mutant: the first resolver that passes decides.
DecideFirst(status) ==
    IF mode = "dns" /\ status # "PASS" /\ dest < NumDest
    THEN /\ dest' = dest + 1
         /\ pc' = "start"
         /\ matches' = {} /\ current' = NoMatch /\ followed' = FALSE
         /\ UNCHANGED <<config, verdict>>
    ELSE /\ verdict' = status
         /\ pc' = "done"
         /\ UNCHANGED <<config, dest, matches, current, followed>>

\* Mutant: one resolver too many.
DecidePastEnd(status) ==
    IF mode = "dns" /\ status = "PASS" /\ dest <= NumDest
    THEN /\ dest' = dest + 1
         /\ pc' = "start"
         /\ matches' = {} /\ current' = NoMatch /\ followed' = FALSE
         /\ UNCHANGED <<config, verdict>>
    ELSE /\ verdict' = status
         /\ pc' = "done"
         /\ UNCHANGED <<config, dest, matches, current, followed>>

\* The verdict of a path, or of the resolver under decision: analyzeDNSEgress
\* goes on to the next resolver until one does not pass.
Decide(status) ==
    IF mode = "dns" /\ status = "PASS" /\ dest < NumDest
    THEN /\ dest' = dest + 1
         /\ pc' = "start"
         /\ matches' = {} /\ current' = NoMatch /\ followed' = FALSE
         /\ UNCHANGED <<config, verdict>>
    ELSE /\ verdict' = status
         /\ pc' = "done"
         /\ UNCHANGED <<config, dest, matches, current, followed>>

\* No policy selects the endpoint.  For DNS a fallback that does not pass
\* decides, and otherwise the next resolver is tried.
NoPolicies ==
    /\ pc = "start"
    /\ Selected = {}
    /\ Decide(OrElse(Fallback(dest), "PASS"))

\* The loops over policies and rules, and sortRuleMatches.
Collect ==
    /\ pc = "start"
    /\ Selected # {}
    /\ matches' = Matches(dest)
    /\ current' = IF matches' = {} THEN NoMatch ELSE First(matches')
    /\ pc' = "chase"
    /\ UNCHANGED <<config, dest, followed, verdict>>

\* One round of effectiveCalicoMatchAfterPass; calicoDNSDecision has one only.
FollowPass ==
    /\ pc = "chase"
    /\ current.action = "pass"
    /\ mode = "dns" => ~followed
    /\ Later # {}
    /\ current' = First(Later)
    /\ followed' = TRUE
    /\ UNCHANGED <<config, pc, dest, matches, verdict>>

\* No tier is left after a Pass: the workload profiles decide.
FallThrough ==
    /\ pc = "chase"
    /\ current.action = "pass"
    /\ mode = "dns" => ~followed
    /\ Later = {}
    /\ Decide(OrElse(Fallback(dest), "WARN"))

\* The match decides; without one, or for a second Pass of calicoDNSDecision,
\* the packet is taken to be denied by default.
Settle ==
    /\ pc = "chase"
    /\ current.action # "pass" \/ (mode = "dns" /\ followed)
    /\ Decide(IF current.action = "allow" THEN "PASS" ELSE "FAIL")

Next == NoPolicies \/ Collect \/ FollowPass \/ FallThrough \/ Settle

Spec == Init /\ [][Next]_vars

\* The analyzer is one thread that does not block.
FairSpec == Spec /\ WF_vars(Next)

-------------------------------------------------------------------------------
(* Calico's own evaluation of the same policies, tier by tier.             *)

UsedTiers == {layout.tierOf[p] : p \in Selected}

\* The rules of tier t that match d, each as a (policy, index) pair.
TierHits(t, d) ==
    UNION {{<<p, i>> : i \in Hits(policy[p].rules, d)} : p \in {q \in Selected : layout.tierOf[q] = t}}

\* Policies are evaluated by order and then by name, their rules as listed.
EvaluatedBefore(x, y) ==
    \/ CalicoPolicyOrder(x[1]) < CalicoPolicyOrder(y[1])
    \/ CalicoPolicyOrder(x[1]) = CalicoPolicyOrder(y[1]) /\ x[1] < y[1]
    \/ x[1] = y[1] /\ x[2] < y[2]

\* What tier t does with a packet to d.  A packet that no rule of a tier
\* matches is dropped at the end of that tier.
TierOutcome(t, d) ==
    LET First2 == CHOOSE x \in TierHits(t, d) :
                      \A y \in TierHits(t, d) : y # x => EvaluatedBefore(x, y)
    IN  IF TierHits(t, d) = {} THEN "deny" ELSE ActionOf(policy[First2[1]].rules[First2[2]])

Reached(t, d) ==
    \A s \in UsedTiers :
        CalicoTierOrder(s) < CalicoTierOrder(t) => TierOutcome(s, d) = "pass"

CalicoVerdict(d) ==
    IF \A t \in UsedTiers : TierOutcome(t, d) = "pass"
    THEN OrElse(Fallback(d), IF UsedTiers = {} THEN "PASS" ELSE "WARN")
    ELSE LET t == CHOOSE t \in UsedTiers : Reached(t, d) /\ TierOutcome(t, d) # "pass"
         IN  IF TierOutcome(t, d) = "allow" THEN "PASS" ELSE "FAIL"

\* The code sorts rules by index before it looks at the names of policies of
\* one order, and leaves all tiers of one order with a Pass.  It tells them
\* apart only when the orders do.
OrdersTellApart ==
    /\ \A s, t \in UsedTiers : CalicoTierOrder(s) = CalicoTierOrder(t) => s = t
    /\ \A p, q \in Selected :
          layout.tierOf[p] = layout.tierOf[q] /\ CalicoPolicyOrder(p) = CalicoPolicyOrder(q) => p = q

\* A packet to d reaches a tier that selects the endpoint without matching it,
\* although some other tier has a matching rule.
SilentTier(d) ==
    /\ \E t \in UsedTiers : Reached(t, d) /\ TierHits(t, d) = {}
    /\ \E t \in UsedTiers : TierHits(t, d) # {}

OnePass(d) ==
    \A s, t \in UsedTiers : TierOutcome(s, d) = "pass" /\ TierOutcome(t, d) = "pass" => s = t

-------------------------------------------------------------------------------
(* Properties.                                                             *)

\* effectiveCalicoMatchAfterPass: a match is passed over only because a Pass
\* at or before it, of the same tier order, sent the packet on to a later one.
OnlyPassSkips ==
    \A m \in matches :
        current \in matches /\ Before(m, current) =>
            \E p \in matches :
                /\ p.action = "pass"
                /\ p.tierOrder = m.tierOrder /\ p.tierOrder < current.tierOrder
                /\ ~Before(m, p)

\* The verdict of calicoDirectionDecision, which sorts the matches of all tiers
\* into one list, is what Calico's tier by tier evaluation does to the packet,
\* as long as the orders tell tiers and policies apart and no tier is silent.
PathAgreesWithCalico ==
    pc = "done" /\ mode # "dns" /\ OrdersTellApart /\ ~SilentTier(1) =>
        verdict = CalicoVerdict(1)

\* analyzeDNSEgress reports PASS only when Calico lets the source pod reach
\* every one of its resolvers, and otherwise the verdict of a resolver that
\* Calico treats so, unless that one needs more than one Pass.
DNSAgreesWithCalico ==
    pc = "done" /\ mode = "dns" /\ OrdersTellApart /\ (\A d \in Dest : ~SilentTier(d)) =>
        /\ verdict = "PASS" => \A d \in Dest : CalicoVerdict(d) = "PASS"
        /\ verdict # "PASS" /\ OnePass(dest) => verdict = CalicoVerdict(dest)

\* The chase of Pass actions ends, whatever the tiers are ordered like.
EveryDecisionEnds == <>(pc = "done")

\* README: KNM checks "Calico tiers, order, allow, deny, pass, default-deny".
\* A packet that reaches a tier whose policies select the endpoint and match
\* nothing is denied at the end of that tier: the path is not reported as one
\* that an Allow rule behind this tier lets pass.
SilentTierNotPassed ==
    pc = "done" /\ mode # "dns" /\ OrdersTellApart /\ SilentTier(1) =>
        ~(verdict = "PASS" /\ current.action = "allow")

\* README: KNM checks "Calico tiers, order, allow, deny, pass" and the "Calico
\* outbound posture" of source pods.  The verdict on a resolver is FAIL for a
\* Pass that another Pass follows only if no tier that the chain of Passes
\* leads to allows the resolver.
DNSFollowsEveryPass ==
    pc = "done" /\ mode = "dns" /\ OrdersTellApart /\ verdict = "FAIL" =>
        \A t \in UsedTiers : Reached(t, dest) => TierOutcome(t, dest) # "allow"

===============================================================================
