----------------------------- MODULE CalicoProofs -----------------------------
(***************************************************************************)
(* Theorems about CalicoDecision, for any policies, tiers and layouts.     *)
(***************************************************************************)
EXTENDS CalicoDecision, SequenceLemmas

-------------------------------------------------------------------------------
(* The order of the matches.                                               *)

\* The keys that sortRuleMatches compares are numbers.
LEMMA MatchFields ==
    ASSUME NEW m \in Match
    PROVE  /\ m.tierOrder \in Nat /\ m.order \in Nat
           /\ m.index \in Nat /\ m.policy \in Nat
BY CalicoAssumption DEF Match

\* Whatever the matches are, one of them comes first: the head of the list
\* that sortRuleMatches sorts.
LEMMA FirstIsLeast ==
    ASSUME NEW S \in SUBSET Match, S # {}
    PROVE  First(S) \in S /\ \A n \in S : ~Before(n, First(S))
<1> DEFINE A == {m.tierOrder : m \in S}
<1>1. PICK a \in S : \A n \in S : a.tierOrder <= n.tierOrder
  <2>1. A \in SUBSET Nat /\ A # {} BY MatchFields
  <2>2. PICK x \in A : \A y \in A : x <= y BY <2>1, LeastNat
  <2> QED BY <2>2
<1> DEFINE S1 == {m \in S : m.tierOrder = a.tierOrder}
           B == {m.order : m \in S1}
<1>2. PICK b \in S1 : \A n \in S1 : b.order <= n.order
  <2>1. B \in SUBSET Nat /\ B # {} BY MatchFields
  <2>2. PICK x \in B : \A y \in B : x <= y BY <2>1, LeastNat
  <2> QED BY <2>2
<1> DEFINE S2 == {m \in S1 : m.order = b.order}
           C == {m.index : m \in S2}
<1>3. PICK c \in S2 : \A n \in S2 : c.index <= n.index
  <2>1. C \in SUBSET Nat /\ C # {} BY MatchFields
  <2>2. PICK x \in C : \A y \in C : x <= y BY <2>1, LeastNat
  <2> QED BY <2>2
<1> DEFINE S3 == {m \in S2 : m.index = c.index}
           D == {m.policy : m \in S3}
<1>4. PICK d \in S3 : \A n \in S3 : d.policy <= n.policy
  <2>1. D \in SUBSET Nat /\ D # {} BY MatchFields
  <2>2. PICK x \in D : \A y \in D : x <= y BY <2>1, LeastNat
  <2> QED BY <2>2
<1>5. d \in S OBVIOUS
<1>6. \A n \in S : ~Before(n, d)
  <2> SUFFICES ASSUME NEW n \in S, Before(n, d) PROVE FALSE OBVIOUS
  <2>1. /\ n.tierOrder \in Nat /\ n.order \in Nat /\ n.index \in Nat /\ n.policy \in Nat
        /\ d.tierOrder \in Nat /\ d.order \in Nat /\ d.index \in Nat /\ d.policy \in Nat
    BY <1>5, MatchFields
  <2>2. d.tierOrder = a.tierOrder /\ d.order = b.order /\ d.index = c.index OBVIOUS
  <2>3. ~(n.tierOrder < d.tierOrder) BY <1>1, <2>1, <2>2
  <2>4. n \in S1 BY <2>1, <2>2, <2>3, <1>1 DEF Before
  <2>5. ~(n.order < d.order) BY <1>2, <2>1, <2>2, <2>4
  <2>6. n \in S2 BY <2>1, <2>2, <2>3, <2>4, <2>5 DEF Before
  <2>7. ~(n.index < d.index) BY <1>3, <2>1, <2>2, <2>6
  <2>8. n \in S3 /\ n.policy < d.policy BY <2>1, <2>2, <2>3, <2>5, <2>6, <2>7 DEF Before
  <2> QED BY <1>4, <2>1, <2>8
<1> QED BY <1>5, <1>6 DEF First

-------------------------------------------------------------------------------
(* Types.                                                                  *)

\* The orders of policies and tiers are numbers, absent ones included.
LEMMA OrdersAreNat ==
    ASSUME TypeOK
    PROVE  /\ \A p \in Policy : CalicoPolicyOrder(p) \in Nat /\ layout.tierOf[p] \in Tier
           /\ \A t \in Tier : CalicoTierOrder(t) \in Nat
<1>1. layout \in Layout BY CalicoAssumption DEF TypeOK
<1>2. /\ layout.tierOf \in [Policy -> Tier]
      /\ layout.order \in [Policy -> Nat \cup {NoOrder}]
      /\ layout.tierSpec \in [Tier -> Nat \cup {NoOrder}]
  BY <1>1 DEF Layout
<1>3. ASSUME NEW p \in Policy PROVE CalicoPolicyOrder(p) \in Nat /\ layout.tierOf[p] \in Tier
  <2>1. layout.order[p] \in Nat \cup {NoOrder} BY <1>2
  <2> QED BY <1>2, <2>1 DEF CalicoPolicyOrder
<1>4. ASSUME NEW t \in Tier PROVE CalicoTierOrder(t) \in Nat
  <2>1. layout.tierSpec[t] \in Nat \cup {NoOrder} BY <1>2
  <2> QED BY <2>1 DEF CalicoTierOrder
<1> QED BY <1>3, <1>4

\* The scan of a policy hits rules of that policy that decide something.
LEMMA HitsAreRules ==
    ASSUME NEW rules \in Rules, NEW d
    PROVE  \A i \in Hits(rules, d) :
               i \in Nat \ {0} /\ ActionOf(rules[i]) \in {"allow", "deny", "pass"}
<1> SUFFICES ASSUME NEW i \in Hits(rules, d)
             PROVE  i \in Nat \ {0} /\ ActionOf(rules[i]) \in {"allow", "deny", "pass"}
  OBVIOUS
<1>1. i \in 1..Len(rules) /\ ActionOf(rules[i]) # "log" BY DEF Hits, Rules
<1>2. rules[i] \in [action : Actions, hits : SUBSET Dest]
  <2>1. rules \in Seq([action : Actions, hits : SUBSET Dest]) BY Zenon DEF Rules
  <2> QED BY <1>1, <2>1, ElementOfSeq, Zenon
<1>3. ActionOf(rules[i]) \in {"allow", "deny", "pass"}
  <2>1. rules[i].action \in Actions BY <1>2
  <2> QED BY <1>1, <2>1 DEF ActionOf, Actions
<1> QED BY <1>1, <1>3

\* Every collected match is well formed.
LEMMA MatchesTyped ==
    ASSUME TypeOK, NEW d
    PROVE  Matches(d) \in SUBSET Match
<1> SUFFICES ASSUME NEW p \in Selected, NEW i \in Collected(p, d)
             PROVE  MatchOf(p, i) \in Match
  BY DEF Matches
<1>1. p \in Policy BY DEF Selected
<1>2. policy[p] \in Shape BY <1>1, CalicoAssumption, Zenon DEF TypeOK
<1>3. policy[p].rules \in Rules BY <1>2 DEF Shape
<1>4. i \in Hits(policy[p].rules, d) BY DEF Collected
<1>5. i \in Nat \ {0} /\ ActionOf(policy[p].rules[i]) \in {"allow", "deny", "pass"}
  BY <1>3, <1>4, HitsAreRules
<1> QED BY <1>1, <1>5, OrdersAreNat DEF MatchOf, Match

\* What the profiles or the default say is a status.
LEMMA FallbackStatus ==
    ASSUME NEW d, NEW default \in Statuses
    PROVE  OrElse(Fallback(d), default) \in Statuses
<1>1. \A profiles : ProfileDecision(profiles, d) \in {"none", "PASS", "FAIL"}
  BY DEF ProfileDecision
<1>2. Fallback(d) \in {"none", "PASS", "FAIL"} BY <1>1 DEF Fallback
<1> QED BY <1>2 DEF OrElse, Statuses

\* What Decide leaves behind, whatever the status.
LEMMA DecideTyped ==
    ASSUME TypeOK, NEW status \in Statuses, Decide(status)
    PROVE  TypeOK' /\ (matches' = {} \/ UNCHANGED <<matches, current>>)
<1>1. CASE mode = "dns" /\ status = "PASS" /\ dest < NumDest
  <2>1. NumDest \in Nat BY CalicoAssumption, Zenon
  <2>2. dest \in 1..NumDest BY DEF TypeOK, Dest
  <2>3. dest' = dest + 1 BY <1>1 DEF Decide
  <2>4. dest' \in Dest BY <1>1, <2>1, <2>2, <2>3 DEF Dest
  <2> QED BY <1>1, <2>4 DEF TypeOK, Decide, config
<1>2. CASE ~(mode = "dns" /\ status = "PASS" /\ dest < NumDest)
  BY <1>2 DEF TypeOK, Decide, config
<1> QED BY <1>1, <1>2

\* Whatever the policies say, every variable keeps its type: the resolver under
\* decision is one of the pod's, and every match that decides was collected.
THEOREM TypeCorrect == Spec => []TypeOK
<1>1. Init => TypeOK
  <2>1. NumDest \in Nat \ {0} BY CalicoAssumption, Zenon
  <2>2. 1 \in Dest BY <2>1 DEF Dest
  <2> QED BY <2>2, Zenon DEF Init, TypeOK
<1>2. TypeOK /\ [Next]_vars => TypeOK'
  <2> SUFFICES ASSUME TypeOK, [Next]_vars PROVE TypeOK' OBVIOUS
  <2>1. CASE NoPolicies
    BY <2>1, FallbackStatus, DecideTyped DEF NoPolicies, Statuses
  <2>2. CASE Collect
    <3>1. matches' \in SUBSET Match BY <2>2, MatchesTyped DEF Collect
    <3>2. current' \in Match \cup {NoMatch} BY <2>2, <3>1, FirstIsLeast DEF Collect
    <3> QED BY <2>2, <3>1, <3>2 DEF Collect, TypeOK, config
  <2>3. CASE FollowPass
    <3>1. Later \in SUBSET Match BY DEF Later, TypeOK
    <3>2. current' \in Match BY <2>3, <3>1, FirstIsLeast DEF FollowPass
    <3> QED BY <2>3, <3>2 DEF FollowPass, TypeOK, config
  <2>4. CASE FallThrough
    BY <2>4, FallbackStatus, DecideTyped DEF FallThrough, Statuses
  <2>5. CASE Settle
    BY <2>5, DecideTyped DEF Settle, Statuses
  <2>6. CASE UNCHANGED vars
    BY <2>6 DEF vars, TypeOK
  <2> QED BY <2>1, <2>2, <2>3, <2>4, <2>5, <2>6 DEF Next
<1> QED BY <1>1, <1>2, PTL DEF Spec

-------------------------------------------------------------------------------
(* What a Pass skips.                                                      *)

\* The inductive invariant: what is skipped, and that the chase only comes to
\* collected matches.
ChaseInv ==
    /\ current \in matches \cup {NoMatch}
    /\ OnlyPassSkips

\* No matches, or the same as before: nothing new is skipped.
LEMMA DecideKeepsChase ==
    ASSUME TypeOK, ChaseInv, NEW status \in Statuses, Decide(status)
    PROVE  ChaseInv'
<1>1. CASE UNCHANGED <<matches, current>>
  BY <1>1 DEF ChaseInv, OnlyPassSkips
<1>2. CASE matches' = {} /\ current' = NoMatch
  BY <1>2 DEF ChaseInv, OnlyPassSkips
<1> QED BY <1>1, <1>2 DEF Decide

\* One round of the chase: a match before the new one is at or before the Pass
\* just followed, or was skipped earlier.
LEMMA FollowKeepsChase ==
    ASSUME TypeOK, ChaseInv, FollowPass
    PROVE  ChaseInv'
<1>1. Later \in SUBSET Match /\ Later # {} /\ current' = First(Later) /\ matches' = matches
  BY DEF FollowPass, Later, TypeOK
<1>2. current' \in Later /\ \A n \in Later : ~Before(n, current')
  BY <1>1, FirstIsLeast
<1>3. current \in matches /\ current.action = "pass"
  BY DEF ChaseInv, FollowPass, NoMatch
<1>4. matches \subseteq Match BY DEF TypeOK
<1>5. ASSUME NEW m \in matches, Before(m, current')
      PROVE  \E p \in matches :
                 /\ p.action = "pass"
                 /\ p.tierOrder = m.tierOrder /\ p.tierOrder < current'.tierOrder
                 /\ ~Before(m, p)
  <2>1. /\ m.tierOrder \in Nat /\ current.tierOrder \in Nat /\ current'.tierOrder \in Nat
        /\ current.tierOrder < current'.tierOrder
    BY <1>2, <1>3, <1>4, MatchFields DEF Later
  <2>2. m.tierOrder <= current.tierOrder
    BY <1>2, <1>5, <2>1 DEF Later
  <2>3. CASE Before(m, current)
    BY <1>3, <2>1, <2>3 DEF ChaseInv, OnlyPassSkips
  <2>4. CASE ~Before(m, current)
    <3>1. m.tierOrder = current.tierOrder BY <2>1, <2>2, <2>4 DEF Before
    <3> QED BY <1>3, <2>1, <2>4, <3>1
  <2> QED BY <2>3, <2>4
<1> QED BY <1>1, <1>2, <1>5 DEF ChaseInv, OnlyPassSkips, Later

\* However many tiers and rules there are, and however their orders coincide,
\* effectiveCalicoMatchAfterPass passes over a match only because of a Pass at
\* or before it, in a tier of its order that precedes the tier decided on.
THEOREM PassSkipsOnlyItsTier == Spec => []OnlyPassSkips
<1>1. Init => ChaseInv
  BY DEF Init, ChaseInv, OnlyPassSkips
<1>2. TypeOK /\ ChaseInv /\ [Next]_vars => ChaseInv'
  <2> SUFFICES ASSUME TypeOK, ChaseInv, [Next]_vars PROVE ChaseInv' OBVIOUS
  <2>1. CASE NoPolicies
    BY <2>1, FallbackStatus, DecideKeepsChase DEF NoPolicies, Statuses
  <2>2. CASE Collect
    <3>1. matches' \in SUBSET Match BY <2>2, MatchesTyped DEF Collect
    <3>2. CASE matches' = {}
      BY <2>2, <3>2 DEF Collect, ChaseInv, OnlyPassSkips
    <3>3. CASE matches' # {}
      <4>1. current' \in matches' /\ \A m \in matches' : ~Before(m, current')
        BY <2>2, <3>1, <3>3, FirstIsLeast DEF Collect
      <4> QED BY <4>1 DEF ChaseInv, OnlyPassSkips
    <3> QED BY <3>2, <3>3
  <2>3. CASE FollowPass
    BY <2>3, FollowKeepsChase
  <2>4. CASE FallThrough
    BY <2>4, FallbackStatus, DecideKeepsChase DEF FallThrough, Statuses
  <2>5. CASE Settle
    BY <2>5, DecideKeepsChase DEF Settle, Statuses
  <2>6. CASE UNCHANGED vars
    BY <2>6 DEF vars, ChaseInv, OnlyPassSkips
  <2> QED BY <2>1, <2>2, <2>3, <2>4, <2>5, <2>6 DEF Next
<1>3. ChaseInv => OnlyPassSkips BY DEF ChaseInv
<1> QED BY <1>1, <1>2, <1>3, TypeCorrect, PTL DEF Spec

-------------------------------------------------------------------------------
(* Agreement with Calico.                                                  *)

\* A rule of a selected policy that hits has numbers as its keys.
LEMMA HitFacts ==
    ASSUME TypeOK, NEW d, NEW p \in Selected, NEW i \in Hits(policy[p].rules, d)
    PROVE  /\ p \in Policy /\ p \in Nat /\ i \in Nat \ {0}
           /\ CalicoPolicyOrder(p) \in Nat /\ layout.tierOf[p] \in UsedTiers
           /\ CalicoTierOrder(layout.tierOf[p]) \in Nat
           /\ ActionOf(policy[p].rules[i]) \in {"allow", "deny", "pass"}
<1>1. p \in Policy BY DEF Selected
<1>2. policy[p] \in Shape BY <1>1, CalicoAssumption, Zenon DEF TypeOK
<1>3. policy[p].rules \in Rules BY <1>2 DEF Shape
<1>4. i \in Nat \ {0} /\ ActionOf(policy[p].rules[i]) \in {"allow", "deny", "pass"}
  BY <1>3, HitsAreRules
<1>5. p \in Nat BY <1>1, CalicoAssumption
<1>6. layout.tierOf[p] \in UsedTiers BY DEF UsedTiers
<1> QED BY <1>1, <1>4, <1>5, <1>6, OrdersAreNat

\* A tier whose policies select the endpoint has an order.
LEMMA UsedTierOrder ==
    ASSUME TypeOK, NEW t \in UsedTiers
    PROVE  CalicoTierOrder(t) \in Nat
BY OrdersAreNat DEF UsedTiers, Selected

\* The first rule of a policy that hits is collected, on a path and for DNS.
LEMMA FirstHitCollected ==
    ASSUME TypeOK, NEW d, NEW p \in Selected, NEW i \in Hits(policy[p].rules, d)
    PROVE  \E j \in Collected(p, d) : \A k \in Hits(policy[p].rules, d) : j <= k
<1> DEFINE H == Hits(policy[p].rules, d)
<1>1. \A k \in H : k \in Nat BY HitFacts
<1> HIDE DEF H
<1>2. PICK j \in H : \A k \in H : j <= k
  <2>1. H \in SUBSET Nat /\ H # {} BY <1>1 DEF H
  <2> QED BY <2>1, LeastNat
<1>3. j \in Collected(p, d)
  <2>1. \A k \in H : ~(k < j) BY <1>1, <1>2
  <2> QED BY <1>2, <2>1 DEF Collected, H
<1> QED BY <1>2, <1>3 DEF H

\* What a match is made of.
LEMMA MatchParts ==
    ASSUME NEW d, NEW m \in Matches(d)
    PROVE  /\ m.policy \in Selected /\ m.index \in Collected(m.policy, d)
           /\ m.index \in Hits(policy[m.policy].rules, d)
           /\ m = MatchOf(m.policy, m.index)
<1>1. PICK p \in Selected : m \in {MatchOf(p, i) : i \in Collected(p, d)} BY DEF Matches
<1>2. PICK i \in Collected(p, d) : m = MatchOf(p, i) BY <1>1
<1>3. m.policy = p /\ m.index = i BY <1>2 DEF MatchOf
<1> QED BY <1>2, <1>3 DEF Collected

\* A rule that hits makes a tier one with hits, and its first makes a match.
LEMMA TierHitParts ==
    ASSUME NEW t, NEW d, NEW x \in TierHits(t, d)
    PROVE  /\ x[1] \in Selected /\ layout.tierOf[x[1]] = t
           /\ x[2] \in Hits(policy[x[1]].rules, d) /\ x = <<x[1], x[2]>>
<1>1. PICK p \in {q \in Selected : layout.tierOf[q] = t} : x \in {<<p, i>> : i \in Hits(policy[p].rules, d)}
  BY DEF TierHits
<1>2. PICK i \in Hits(policy[p].rules, d) : x = <<p, i>> BY <1>1
<1> QED BY <1>1, <1>2

LEMMA TierHasMatch ==
    ASSUME TypeOK, NEW d, NEW t, TierHits(t, d) # {}
    PROVE  \E m \in Matches(d) : m.tier = t /\ m.tierOrder = CalicoTierOrder(t)
<1>1. PICK x : x \in TierHits(t, d) OBVIOUS
<1>2. PICK j \in Collected(x[1], d) : \A k \in Hits(policy[x[1]].rules, d) : j <= k
  <2>1. x[1] \in Selected /\ x[2] \in Hits(policy[x[1]].rules, d) BY <1>1, TierHitParts
  <2> QED BY <2>1, FirstHitCollected
<1>3. MatchOf(x[1], j) \in Matches(d) BY <1>1, <1>2, TierHitParts DEF Matches
<1> QED BY <1>1, <1>3, TierHitParts DEF MatchOf

\* The first match of a tier says what Calico does at that tier.
LEMMA TierFirst ==
    ASSUME TypeOK, OrdersTellApart, NEW d, NEW m \in Matches(d),
           \A n \in Matches(d) : n.tierOrder = m.tierOrder => ~Before(n, m)
    PROVE  /\ m.tier \in UsedTiers /\ TierHits(m.tier, d) # {}
           /\ m.tierOrder = CalicoTierOrder(m.tier) /\ TierOutcome(m.tier, d) = m.action
<1> DEFINE p == m.policy
           i == m.index
           t == m.tier
           x == <<p, i>>
<1>1. p \in Selected /\ i \in Collected(p, d) /\ i \in Hits(policy[p].rules, d) /\ m = MatchOf(p, i)
  BY MatchParts
<1>2. /\ t = layout.tierOf[p] /\ m.tierOrder = CalicoTierOrder(t) /\ m.order = CalicoPolicyOrder(p)
      /\ m.action = ActionOf(policy[p].rules[i])
  BY <1>1 DEF MatchOf
<1>3. /\ p \in Nat /\ i \in Nat /\ CalicoPolicyOrder(p) \in Nat /\ t \in UsedTiers
  BY <1>1, <1>2, HitFacts
<1>4. x \in TierHits(t, d) BY <1>1, <1>2 DEF TierHits
<1>5. ASSUME NEW y \in TierHits(t, d), y # x PROVE EvaluatedBefore(x, y)
  <2>1. /\ y[1] \in Selected /\ layout.tierOf[y[1]] = t
        /\ y[2] \in Hits(policy[y[1]].rules, d) /\ y = <<y[1], y[2]>>
    BY TierHitParts
  <2>2. PICK j \in Collected(y[1], d) : \A k \in Hits(policy[y[1]].rules, d) : j <= k
    BY <2>1, FirstHitCollected
  <2> DEFINE n == MatchOf(y[1], j)
  <2>3. n \in Matches(d) BY <2>1, <2>2 DEF Matches
  <2>4. /\ n.tierOrder = m.tierOrder /\ n.order = CalicoPolicyOrder(y[1]) /\ n.index = j /\ n.policy = y[1]
    BY <1>2, <2>1 DEF MatchOf
  <2>5. ~Before(n, m) BY <2>3, <2>4
  <2>6. j \in Hits(policy[y[1]].rules, d) BY <2>2 DEF Collected
  <2>7. j \in Nat /\ y[1] \in Nat /\ y[2] \in Nat /\ CalicoPolicyOrder(y[1]) \in Nat /\ j <= y[2]
    BY <2>1, <2>2, <2>6, HitFacts
  <2>8. ~(CalicoPolicyOrder(y[1]) < CalicoPolicyOrder(p)) BY <1>2, <2>4, <2>5 DEF Before
  <2>9. CASE CalicoPolicyOrder(y[1]) = CalicoPolicyOrder(p)
    <3>1. y[1] = p BY <1>1, <1>2, <2>1, <2>9 DEF OrdersTellApart
    <3>2. ~(j < i) BY <1>2, <2>4, <2>5, <2>9 DEF Before
    <3>3. y[2] # i BY <1>5, <2>1, <3>1
    <3>4. i < y[2] BY <1>3, <2>7, <3>2, <3>3
    <3> QED BY <3>1, <3>4 DEF EvaluatedBefore
  <2>10. CASE CalicoPolicyOrder(p) < CalicoPolicyOrder(y[1])
    BY <2>10 DEF EvaluatedBefore
  <2> QED BY <1>3, <2>7, <2>8, <2>9, <2>10
<1>6. ASSUME NEW z \in TierHits(t, d), \A y \in TierHits(t, d) : y # z => EvaluatedBefore(z, y)
      PROVE  z = x
  <2> SUFFICES ASSUME z # x PROVE FALSE OBVIOUS
  <2>1. EvaluatedBefore(z, x) /\ EvaluatedBefore(x, z) BY <1>4, <1>5, <1>6
  <2>2. z[1] \in Selected /\ z[2] \in Hits(policy[z[1]].rules, d) BY TierHitParts
  <2>3. z[1] \in Nat /\ z[2] \in Nat /\ CalicoPolicyOrder(z[1]) \in Nat BY <2>2, HitFacts
  <2> QED BY <1>3, <2>1, <2>3 DEF EvaluatedBefore
<1> DEFINE first == CHOOSE z \in TierHits(t, d) : \A y \in TierHits(t, d) : y # z => EvaluatedBefore(z, y)
<1>7. first = x BY <1>4, <1>5, <1>6
<1>8. TierOutcome(t, d) = ActionOf(policy[first[1]].rules[first[2]])
  BY <1>4 DEF TierOutcome
<1>9. TierOutcome(t, d) = m.action
  <2> HIDE DEF first
  <2>1. first[1] = p /\ first[2] = i BY <1>7
  <2> HIDE DEF p, i, t
  <2> QED BY <1>2, <1>8, <2>1
<1> HIDE DEF t
<1>10. t \in UsedTiers /\ TierHits(t, d) # {} /\ m.tierOrder = CalicoTierOrder(t) BY <1>2, <1>3, <1>4
<1> QED BY <1>9, <1>10 DEF t

\* Where every tier with hits below some order passes, and no tier is silent,
\* every tier below it passes: Low is a set of tiers that is closed downwards.
LEMMA NoneSilent ==
    ASSUME TypeOK, NEW d, ~SilentTier(d), NEW Low \in SUBSET UsedTiers,
           \A s \in UsedTiers, t \in Low : CalicoTierOrder(s) < CalicoTierOrder(t) => s \in Low,
           \A t \in Low : TierHits(t, d) # {} => TierOutcome(t, d) = "pass",
           \E t \in UsedTiers : TierHits(t, d) # {}
    PROVE  \A t \in Low : TierOutcome(t, d) = "pass"
<1> DEFINE Silent == {t \in Low : TierHits(t, d) = {}}
           Orders == {CalicoTierOrder(t) : t \in Silent}
<1>1. Silent = {}
  <2> SUFFICES ASSUME Silent # {} PROVE FALSE OBVIOUS
  <2>1. Orders \in SUBSET Nat /\ Orders # {} BY UsedTierOrder
  <2>2. PICK o \in Orders : \A y \in Orders : o <= y BY <2>1, LeastNat
  <2>3. PICK s \in Silent : CalicoTierOrder(s) = o BY <2>2
  <2>4. ASSUME NEW r \in UsedTiers, CalicoTierOrder(r) < CalicoTierOrder(s)
        PROVE  TierOutcome(r, d) = "pass"
    <3>1. r \in Low BY <2>3, <2>4
    <3>2. CalicoTierOrder(r) \in Nat /\ CalicoTierOrder(s) \in Nat BY <2>3, UsedTierOrder
    <3>3. r \notin Silent BY <2>2, <2>3, <2>4, <3>2
    <3> QED BY <3>1, <3>3
  <2>5. SilentTier(d) BY <2>3, <2>4 DEF SilentTier, Reached
  <2> QED BY <2>5
<1> QED BY <1>1

\* A tier that a packet reaches, and that does not pass it on, decides.
LEMMA DecidingTier ==
    ASSUME TypeOK, OrdersTellApart, NEW d, NEW t \in UsedTiers,
           Reached(t, d), TierOutcome(t, d) # "pass"
    PROVE  CalicoVerdict(d) = IF TierOutcome(t, d) = "allow" THEN "PASS" ELSE "FAIL"
<1>1. ASSUME NEW s \in UsedTiers, Reached(s, d), TierOutcome(s, d) # "pass"
      PROVE  s = t
  <2>1. CalicoTierOrder(s) \in Nat /\ CalicoTierOrder(t) \in Nat BY UsedTierOrder
  <2>2. ~(CalicoTierOrder(s) < CalicoTierOrder(t)) BY <1>1 DEF Reached
  <2>3. ~(CalicoTierOrder(t) < CalicoTierOrder(s)) BY <1>1 DEF Reached
  <2> QED BY <2>1, <2>2, <2>3 DEF OrdersTellApart
<1> DEFINE u == CHOOSE s \in UsedTiers : Reached(s, d) /\ TierOutcome(s, d) # "pass"
<1>2. u = t BY <1>1
<1>3. CalicoVerdict(d) = IF TierOutcome(u, d) = "allow" THEN "PASS" ELSE "FAIL"
  BY DEF CalicoVerdict
<1> HIDE DEF u
<1> QED BY <1>2, <1>3

\* Where nothing is selected the profiles decide.
LEMMA NothingSelected ==
    ASSUME NEW d, Selected = {}
    PROVE  CalicoVerdict(d) = OrElse(Fallback(d), "PASS")
<1>1. UsedTiers = {} BY DEF UsedTiers
<1> QED BY <1>1 DEF CalicoVerdict

\* The chase in full: it is over the matches of one destination, the match it has
\* come to is the first of its tier, and every tier before that sent the packet on.
ChaseOf(d) ==
    /\ Selected # {} /\ matches = Matches(d)
    /\ matches = {} => current = NoMatch
    /\ matches # {} =>
          /\ current \in matches
          /\ \A n \in matches : n.tierOrder = current.tierOrder => ~Before(n, current)
          /\ \A t \in UsedTiers :
                TierHits(t, d) # {} /\ CalicoTierOrder(t) < current.tierOrder => TierOutcome(t, d) = "pass"
          /\ followed => \E t \in UsedTiers : TierHits(t, d) # {} /\ CalicoTierOrder(t) < current.tierOrder

\* Nothing comes before the first of all matches, nor does any tier with hits.
LEMMA CollectStarts ==
    ASSUME TypeOK, NEW d, Matches(d) # {}, NEW m, m = First(Matches(d))
    PROVE  /\ m \in Matches(d) /\ \A n \in Matches(d) : ~Before(n, m)
           /\ \A t \in UsedTiers : TierHits(t, d) # {} => ~(CalicoTierOrder(t) < m.tierOrder)
<1>1. m \in Matches(d) /\ \A n \in Matches(d) : ~Before(n, m) BY MatchesTyped, FirstIsLeast
<1>2. ASSUME NEW t \in UsedTiers, TierHits(t, d) # {} PROVE ~(CalicoTierOrder(t) < m.tierOrder)
  <2>1. PICK n \in Matches(d) : n.tierOrder = CalicoTierOrder(t) BY <1>2, TierHasMatch
  <2> QED BY <1>1, <2>1 DEF Before
<1> QED BY <1>1, <1>2

\* A Pass is followed to the first match of a later tier; the tiers up to it pass.
LEMMA FollowGoesOn ==
    ASSUME TypeOK, OrdersTellApart, NEW d, ChaseOf(d), current.action = "pass", Later # {},
           NEW m, m = First(Later)
    PROVE  /\ m \in matches
           /\ \A n \in matches : n.tierOrder = m.tierOrder => ~Before(n, m)
           /\ \A t \in UsedTiers :
                 TierHits(t, d) # {} /\ CalicoTierOrder(t) < m.tierOrder => TierOutcome(t, d) = "pass"
           /\ \E t \in UsedTiers : TierHits(t, d) # {} /\ CalicoTierOrder(t) < m.tierOrder
<1>1. matches # {} /\ matches = Matches(d) /\ matches \in SUBSET Match BY DEF Later, TypeOK, ChaseOf
<1>2. Later \in SUBSET Match BY <1>1 DEF Later
<1>3. m \in Later /\ \A n \in Later : ~Before(n, m) BY <1>2, FirstIsLeast
<1>4. m \in matches /\ current \in matches /\ current.tierOrder < m.tierOrder BY <1>1, <1>3 DEF Later, ChaseOf
<1>5. m.tierOrder \in Nat /\ current.tierOrder \in Nat BY <1>1, <1>4, MatchFields
<1>6. /\ current.tier \in UsedTiers /\ TierHits(current.tier, d) # {}
      /\ current.tierOrder = CalicoTierOrder(current.tier) /\ TierOutcome(current.tier, d) = "pass"
  BY <1>1, <1>4, TierFirst DEF ChaseOf
<1>7. ASSUME NEW n \in matches, n.tierOrder = m.tierOrder PROVE ~Before(n, m)
  BY <1>3, <1>4, <1>7 DEF Later
<1>8. ASSUME NEW t \in UsedTiers, TierHits(t, d) # {}, CalicoTierOrder(t) < m.tierOrder
      PROVE  TierOutcome(t, d) = "pass"
  <2>1. PICK n \in matches : n.tierOrder = CalicoTierOrder(t) BY <1>1, <1>8, TierHasMatch
  <2>2. CalicoTierOrder(t) \in Nat BY UsedTierOrder
  <2>3. n \notin Later BY <1>3, <1>8, <2>1 DEF Before
  <2>4. ~(current.tierOrder < CalicoTierOrder(t)) BY <2>1, <2>3 DEF Later
  <2>5. CASE CalicoTierOrder(t) = current.tierOrder
    BY <1>6, <2>5 DEF OrdersTellApart
  <2>6. CASE CalicoTierOrder(t) < current.tierOrder
    BY <1>1, <1>8, <2>6 DEF ChaseOf
  <2> QED BY <1>5, <2>2, <2>4, <2>5, <2>6
<1> QED BY <1>4, <1>6, <1>7, <1>8

\* A Pass with nothing after it: all tiers pass the packet on to the profiles.
LEMMA FallThroughAgrees ==
    ASSUME TypeOK, OrdersTellApart, NEW d, ~SilentTier(d), ChaseOf(d),
           current.action = "pass", Later = {}
    PROVE  CalicoVerdict(d) = OrElse(Fallback(d), "WARN")
<1>0. matches # {}
  <2>1. NoMatch.action = "none" BY DEF NoMatch
  <2> QED BY <2>1 DEF ChaseOf
<1>1. matches # {} /\ current \in matches /\ matches = Matches(d) /\ matches \in SUBSET Match
  BY <1>0 DEF ChaseOf, TypeOK
<1>2. /\ current.tier \in UsedTiers /\ TierHits(current.tier, d) # {}
      /\ current.tierOrder = CalicoTierOrder(current.tier) /\ TierOutcome(current.tier, d) = "pass"
  BY <1>1, TierFirst DEF ChaseOf
<1>3. ASSUME NEW t \in UsedTiers, TierHits(t, d) # {} PROVE TierOutcome(t, d) = "pass"
  <2>1. PICK n \in matches : n.tierOrder = CalicoTierOrder(t) BY <1>1, <1>3, TierHasMatch
  <2>2. CalicoTierOrder(t) \in Nat /\ current.tierOrder \in Nat BY <1>1, UsedTierOrder, MatchFields
  <2>3. ~(current.tierOrder < CalicoTierOrder(t)) BY <2>1 DEF Later
  <2>4. CASE CalicoTierOrder(t) = current.tierOrder
    BY <1>2, <2>4 DEF OrdersTellApart
  <2>5. CASE CalicoTierOrder(t) < current.tierOrder
    BY <1>1, <1>3, <2>5 DEF ChaseOf
  <2> QED BY <2>2, <2>3, <2>4, <2>5
<1>4. \A t \in UsedTiers : TierOutcome(t, d) = "pass"
  BY <1>2, <1>3, NoneSilent
<1>5. UsedTiers # {} BY <1>2
<1> QED BY <1>4, <1>5 DEF CalicoVerdict

\* A match that is no Pass, or none at all: the tier that decides is its tier.
LEMMA SettleAgrees ==
    ASSUME TypeOK, OrdersTellApart, NEW d, ~SilentTier(d), ChaseOf(d), current.action # "pass"
    PROVE  CalicoVerdict(d) = IF current.action = "allow" THEN "PASS" ELSE "FAIL"
<1>1. CASE matches = {}
  <2>1. \A t : TierHits(t, d) = {} BY <1>1, TierHasMatch DEF ChaseOf
  <2>2. \A t : TierOutcome(t, d) = "deny" BY <2>1 DEF TierOutcome
  <2>3. UsedTiers # {} BY DEF ChaseOf, UsedTiers
  <2>4. current.action = "none" BY <1>1 DEF ChaseOf, NoMatch
  <2> QED BY <2>2, <2>3, <2>4 DEF CalicoVerdict
<1>2. CASE matches # {}
  <2> DEFINE t == current.tier
             Low == {s \in UsedTiers : CalicoTierOrder(s) < CalicoTierOrder(t)}
  <2>1. current \in matches /\ matches = Matches(d) BY <1>2 DEF ChaseOf
  <2>2. /\ t \in UsedTiers /\ TierHits(t, d) # {}
        /\ current.tierOrder = CalicoTierOrder(t) /\ TierOutcome(t, d) = current.action
    BY <1>2, <2>1, TierFirst DEF ChaseOf
  <2>3. \A s \in Low : TierHits(s, d) # {} => TierOutcome(s, d) = "pass"
    BY <1>2, <2>2 DEF ChaseOf
  <2>4. \A r \in UsedTiers, s \in Low : CalicoTierOrder(r) < CalicoTierOrder(s) => r \in Low
    BY <2>2, UsedTierOrder
  <2>5. \A s \in Low : TierOutcome(s, d) = "pass"
    <3> HIDE DEF Low, t
    <3>1. Low \in SUBSET UsedTiers BY DEF Low
    <3> QED BY <2>2, <2>3, <2>4, <3>1, NoneSilent
  <2>6. Reached(t, d) BY <2>5 DEF Reached
  <2> QED BY <2>2, <2>6, DecidingTier
<1> QED BY <1>1, <1>2

\* A second Pass is met only where two tiers pass.
LEMMA SecondPass ==
    ASSUME TypeOK, OrdersTellApart, NEW d, ChaseOf(d), followed, current.action = "pass"
    PROVE  ~OnePass(d)
<1>0. matches # {}
  <2>1. NoMatch.action = "none" BY DEF NoMatch
  <2> QED BY <2>1 DEF ChaseOf
<1>1. matches # {} /\ current \in matches /\ matches = Matches(d) /\ matches \in SUBSET Match
  BY <1>0 DEF ChaseOf, TypeOK
<1>2. /\ current.tier \in UsedTiers /\ current.tierOrder = CalicoTierOrder(current.tier)
      /\ TierOutcome(current.tier, d) = "pass"
  BY <1>1, TierFirst DEF ChaseOf
<1>3. PICK t \in UsedTiers : TierHits(t, d) # {} /\ CalicoTierOrder(t) < current.tierOrder
  BY <1>1 DEF ChaseOf
<1>4. TierOutcome(t, d) = "pass" BY <1>1, <1>3 DEF ChaseOf
<1>5. current.tierOrder \in Nat BY <1>1, MatchFields
<1> QED BY <1>2, <1>3, <1>4, <1>5 DEF OnePass

(***************************************************************************)
(* What is decided is what Calico does, for the destinations that are done *)
(* and along the chase of the one under decision.                          *)
(***************************************************************************)
AgreeInv ==
    OrdersTellApart =>
        /\ pc = "start" => ~followed
        /\ mode # "dns" => dest = 1
        /\ pc = "chase" => ChaseOf(dest)
        /\ mode = "dns" /\ (\A d \in Dest : ~SilentTier(d)) =>
              \A d \in Dest : d < dest => CalicoVerdict(d) = "PASS"
        /\ PathAgreesWithCalico /\ DNSAgreesWithCalico

\* The policies, tiers and profiles do not change, so neither does what Calico does.
LEMMA ConfigKept ==
    ASSUME UNCHANGED config
    PROVE  /\ OrdersTellApart' = OrdersTellApart
           /\ \A d : SilentTier(d)' = SilentTier(d)
           /\ \A d : CalicoVerdict(d)' = CalicoVerdict(d)
           /\ \A d : OnePass(d)' = OnePass(d)
           /\ \A d : Matches(d)' = Matches(d)
           /\ Selected' = Selected
           /\ \A t, d : TierHits(t, d)' = TierHits(t, d) /\ TierOutcome(t, d)' = TierOutcome(t, d)
           /\ \A t : CalicoTierOrder(t)' = CalicoTierOrder(t)
           /\ UsedTiers' = UsedTiers
  BY DEF config, OrdersTellApart, SilentTier, CalicoVerdict, OnePass, Matches, Selected, TierHits, TierOutcome,
     CalicoTierOrder, CalicoPolicyOrder, UsedTiers, Reached, PolicyHasType, EvaluatedBefore, Fallback,
     ProfileDecision, Collected, MatchOf

\* A decision that is Calico's, or that a second Pass makes a FAIL, keeps the agreement.
LEMMA DecideAgrees ==
    ASSUME TypeOK, AgreeInv, pc # "done", NEW status \in Statuses, Decide(status),
           OrdersTellApart /\ ~SilentTier(dest) =>
               \/ status = CalicoVerdict(dest)
               \/ mode = "dns" /\ status = "FAIL" /\ ~OnePass(dest)
    PROVE  AgreeInv'
<1> SUFFICES ASSUME OrdersTellApart' PROVE
        /\ pc' = "start" => ~followed'
        /\ mode' # "dns" => dest' = 1
        /\ pc' = "chase" => ChaseOf(dest)'
        /\ mode' = "dns" /\ (\A d \in Dest : ~SilentTier(d)') =>
              \A d \in Dest : d < dest' => CalicoVerdict(d)' = "PASS"
        /\ PathAgreesWithCalico' /\ DNSAgreesWithCalico'
  BY DEF AgreeInv, Dest
<1>1. UNCHANGED config BY DEF Decide
<1>2. OrdersTellApart /\ mode' = mode /\ mode \in {"egress", "ingress", "dns"}
  BY <1>1, ConfigKept DEF config, TypeOK
<1>3. dest \in 1..NumDest /\ NumDest \in Nat
  <2>1. NumDest \in Nat BY CalicoAssumption, Zenon
  <2> QED BY <2>1 DEF TypeOK, Dest
<1>4. CASE mode = "dns" /\ status = "PASS" /\ dest < NumDest
  <2>1. dest' = dest + 1 /\ pc' = "start" /\ followed' = FALSE BY <1>4 DEF Decide
  <2>2. ASSUME \A d \in Dest : ~SilentTier(d), NEW d \in Dest, d < dest' PROVE CalicoVerdict(d) = "PASS"
    <3>1. dest \in Dest /\ d \in Nat BY <1>3 DEF Dest
    <3>2. CalicoVerdict(dest) = "PASS" BY <1>2, <1>4, <2>2, <3>1
    <3>3. d < dest \/ d = dest BY <1>3, <2>1, <2>2, <3>1
    <3> QED BY <1>2, <1>4, <2>2, <3>2, <3>3 DEF AgreeInv
  <2>3. mode' = "dns" /\ (\A d \in Dest : ~SilentTier(d)') =>
              \A d \in Dest : d < dest' => CalicoVerdict(d)' = "PASS"
    BY <1>1, <2>2, ConfigKept
  <2> QED BY <1>2, <1>4, <2>1, <2>3 DEF PathAgreesWithCalico, DNSAgreesWithCalico
<1>5. CASE ~(mode = "dns" /\ status = "PASS" /\ dest < NumDest)
  <2>1. dest' = dest /\ pc' = "done" /\ verdict' = status BY <1>5 DEF Decide
  <2>2. mode # "dns" => dest = 1 BY <1>2 DEF AgreeInv
  <2>3. ASSUME mode = "dns", \A d \in Dest : ~SilentTier(d)
        PROVE  \A d \in Dest : d < dest => CalicoVerdict(d) = "PASS"
    BY <1>2, <2>3 DEF AgreeInv
  <2>4. dest \in Dest BY <1>3 DEF Dest
  <2>5. PathAgreesWithCalico'
    <3> SUFFICES ASSUME mode # "dns", ~SilentTier(1)' PROVE status = CalicoVerdict(1)'
      BY <1>2, <2>1 DEF PathAgreesWithCalico
    <3>1. ~SilentTier(1) /\ CalicoVerdict(1)' = CalicoVerdict(1) BY <1>1, ConfigKept
    <3> QED BY <1>2, <2>2, <3>1
  <2>6. DNSAgreesWithCalico'
    <3> SUFFICES ASSUME mode = "dns", \A d \in Dest : ~SilentTier(d)'
                 PROVE  /\ status = "PASS" => \A d \in Dest : CalicoVerdict(d)' = "PASS"
                        /\ status # "PASS" /\ OnePass(dest)' => status = CalicoVerdict(dest)'
      BY <1>2, <2>1 DEF DNSAgreesWithCalico, Dest
    <3>1. \A d \in Dest : ~SilentTier(d) BY <1>1, ConfigKept
    <3>2. /\ \A d : CalicoVerdict(d)' = CalicoVerdict(d)
          /\ \A d : OnePass(d)' = OnePass(d)
      BY <1>1, ConfigKept
    <3>3. status = CalicoVerdict(dest) \/ (status = "FAIL" /\ ~OnePass(dest)) BY <1>2, <2>4, <3>1
    <3>4. ASSUME status = "PASS", NEW d \in Dest PROVE CalicoVerdict(d) = "PASS"
      <4>1. dest = NumDest BY <1>3, <1>5, <3>4
      <4>2. d \in Nat /\ d <= NumDest BY <1>3 DEF Dest
      <4>3. d < dest \/ d = dest BY <1>3, <4>1, <4>2
      <4> QED BY <2>3, <3>1, <3>3, <3>4, <4>3
    <3> QED BY <2>1, <3>2, <3>3, <3>4
  <2>7. mode' = "dns" /\ (\A d \in Dest : ~SilentTier(d)') =>
              \A d \in Dest : d < dest' => CalicoVerdict(d)' = "PASS"
    BY <1>1, <1>2, <2>1, <2>3, ConfigKept
  <2> QED BY <1>2, <2>1, <2>2, <2>5, <2>6, <2>7
<1> QED BY <1>4, <1>5

LEMMA AgreeStep == TypeOK /\ TypeOK' /\ AgreeInv /\ [Next]_vars => AgreeInv'
<1> SUFFICES ASSUME TypeOK, TypeOK', AgreeInv, [Next]_vars PROVE AgreeInv' OBVIOUS
<1>1. CASE NoPolicies
  <2>1. OrElse(Fallback(dest), "PASS") = CalicoVerdict(dest) BY <1>1, NothingSelected DEF NoPolicies
  <2>2. OrElse(Fallback(dest), "PASS") \in Statuses BY FallbackStatus DEF Statuses
  <2> QED BY <1>1, <2>1, <2>2, DecideAgrees DEF NoPolicies
<1>2. CASE Collect
  <2>1. UNCHANGED config /\ pc' = "chase" /\ pc = "start" /\ UNCHANGED <<dest, followed>> /\ Selected # {}
    BY <1>2 DEF Collect
  <2>2. /\ matches' = Matches(dest) /\ Matches(dest)' = Matches(dest)
        /\ Selected' = Selected /\ OrdersTellApart' = OrdersTellApart /\ UsedTiers' = UsedTiers
        /\ \A t, d : TierHits(t, d)' = TierHits(t, d)
        /\ \A t : CalicoTierOrder(t)' = CalicoTierOrder(t)
    BY <1>2, <2>1, ConfigKept DEF Collect
  <2>3. current' = IF matches' = {} THEN NoMatch ELSE First(matches') BY <1>2 DEF Collect
  <2>4. ASSUME OrdersTellApart PROVE ChaseOf(dest)'
    <3>1. ~followed' BY <2>1, <2>4 DEF AgreeInv
    <3>2. CASE Matches(dest) = {}
      BY <2>1, <2>2, <2>3, <3>2 DEF ChaseOf
    <3>3. CASE Matches(dest) # {}
      <4>1. current' = First(Matches(dest)) BY <2>2, <2>3, <3>3
      <4>2. /\ current' \in Matches(dest) /\ \A n \in Matches(dest) : ~Before(n, current')
            /\ \A t \in UsedTiers : TierHits(t, dest) # {} => ~(CalicoTierOrder(t) < current'.tierOrder)
        BY <3>3, <4>1, CollectStarts
      <4> QED BY <2>1, <2>2, <3>1, <3>3, <4>2 DEF ChaseOf
    <3> QED BY <3>2, <3>3
  <2>5. mode' = mode BY <2>1 DEF config
  <2>6. /\ \A d : SilentTier(d)' = SilentTier(d)
        /\ \A d : CalicoVerdict(d)' = CalicoVerdict(d)
    BY <2>1, ConfigKept
  <2> QED BY <2>1, <2>2, <2>4, <2>5, <2>6 DEF AgreeInv, PathAgreesWithCalico, DNSAgreesWithCalico
<1>3. CASE FollowPass
  <2>1. UNCHANGED config /\ pc' = "chase" /\ pc = "chase" /\ UNCHANGED <<dest, matches>>
        /\ current.action = "pass" /\ Later # {} /\ current' = First(Later) /\ followed' = TRUE
    BY <1>3 DEF FollowPass
  <2>2. /\ OrdersTellApart' = OrdersTellApart
        /\ \A d : SilentTier(d)' = SilentTier(d)
        /\ \A d : CalicoVerdict(d)' = CalicoVerdict(d)
        /\ \A d : Matches(d)' = Matches(d)
        /\ Selected' = Selected
        /\ \A t, d : TierHits(t, d)' = TierHits(t, d) /\ TierOutcome(t, d)' = TierOutcome(t, d)
        /\ \A t : CalicoTierOrder(t)' = CalicoTierOrder(t)
        /\ UsedTiers' = UsedTiers
    BY <2>1, ConfigKept
  <2>3. ASSUME OrdersTellApart PROVE ChaseOf(dest)'
    <3>1. ChaseOf(dest) BY <2>1, <2>3 DEF AgreeInv
    <3>2. /\ current' \in matches
          /\ \A n \in matches : n.tierOrder = current'.tierOrder => ~Before(n, current')
          /\ \A t \in UsedTiers :
                TierHits(t, dest) # {} /\ CalicoTierOrder(t) < current'.tierOrder => TierOutcome(t, dest) = "pass"
          /\ \E t \in UsedTiers : TierHits(t, dest) # {} /\ CalicoTierOrder(t) < current'.tierOrder
      BY <2>1, <2>3, <3>1, FollowGoesOn
    <3> QED BY <2>1, <2>2, <3>1, <3>2 DEF ChaseOf
  <2>4. mode' = mode BY <2>1 DEF config
  <2> QED BY <2>1, <2>2, <2>3, <2>4 DEF AgreeInv, PathAgreesWithCalico, DNSAgreesWithCalico
<1>4. CASE FallThrough
  <2>1. pc = "chase" /\ current.action = "pass" /\ Later = {} /\ Decide(OrElse(Fallback(dest), "WARN"))
    BY <1>4 DEF FallThrough
  <2>2. OrElse(Fallback(dest), "WARN") \in Statuses BY FallbackStatus DEF Statuses
  <2>3. OrdersTellApart /\ ~SilentTier(dest) => OrElse(Fallback(dest), "WARN") = CalicoVerdict(dest)
    BY <2>1, FallThroughAgrees DEF AgreeInv
  <2> QED BY <2>1, <2>2, <2>3, DecideAgrees
<1>5. CASE Settle
  <2> DEFINE status == IF current.action = "allow" THEN "PASS" ELSE "FAIL"
  <2>1. pc = "chase" /\ Decide(status) /\ (current.action # "pass" \/ (mode = "dns" /\ followed))
    BY <1>5 DEF Settle
  <2>2. status \in Statuses BY DEF Statuses
  <2>3. ASSUME OrdersTellApart, ~SilentTier(dest)
        PROVE  \/ status = CalicoVerdict(dest)
               \/ mode = "dns" /\ status = "FAIL" /\ ~OnePass(dest)
    <3>1. ChaseOf(dest) BY <2>1, <2>3 DEF AgreeInv
    <3>2. CASE current.action # "pass"
      BY <2>3, <3>1, <3>2, SettleAgrees
    <3>3. CASE current.action = "pass"
      <4>1. mode = "dns" /\ ~OnePass(dest) BY <2>1, <2>3, <3>1, <3>3, SecondPass
      <4> QED BY <3>3, <4>1
    <3> QED BY <3>2, <3>3
  <2> HIDE DEF status
  <2> QED BY <2>1, <2>2, <2>3, DecideAgrees
<1>6. CASE UNCHANGED vars
  <2>1. UNCHANGED config /\ UNCHANGED <<pc, dest, matches, current, followed, verdict, mode>>
    BY <1>6 DEF vars, config
  <2>2. /\ OrdersTellApart' = OrdersTellApart
        /\ \A d : SilentTier(d)' = SilentTier(d)
        /\ \A d : CalicoVerdict(d)' = CalicoVerdict(d)
        /\ \A d : OnePass(d)' = OnePass(d)
        /\ \A d : Matches(d)' = Matches(d)
        /\ Selected' = Selected
        /\ \A t, d : TierHits(t, d)' = TierHits(t, d) /\ TierOutcome(t, d)' = TierOutcome(t, d)
        /\ \A t : CalicoTierOrder(t)' = CalicoTierOrder(t)
        /\ UsedTiers' = UsedTiers
    BY <2>1, ConfigKept
  <2>3. ChaseOf(dest) => ChaseOf(dest)' BY <2>1, <2>2 DEF ChaseOf
  <2>4. PathAgreesWithCalico' = PathAgreesWithCalico BY <2>1, <2>2 DEF PathAgreesWithCalico
  <2>5. DNSAgreesWithCalico' = DNSAgreesWithCalico BY <2>1, <2>2 DEF DNSAgreesWithCalico, Dest
  <2> QED BY <2>1, <2>2, <2>3, <2>4, <2>5 DEF AgreeInv, Dest
<1> QED BY <1>1, <1>2, <1>3, <1>4, <1>5, <1>6 DEF Next

LEMMA AgreeInit == Init => AgreeInv
<1> SUFFICES ASSUME Init PROVE AgreeInv OBVIOUS
<1>1. dest = 1 /\ pc = "start" /\ followed = FALSE BY DEF Init
<1>2. NumDest \in Nat BY CalicoAssumption, Zenon
<1>3. \A d \in Dest : ~(d < 1) BY <1>2 DEF Dest
<1> QED BY <1>1, <1>3 DEF AgreeInv, PathAgreesWithCalico, DNSAgreesWithCalico

LEMMA Agreeing == Spec => []AgreeInv
  BY AgreeInit, AgreeStep, TypeCorrect, PTL DEF Spec

(***************************************************************************)
(* For any policies, tiers, orders and profiles: the verdict on a path,    *)
(* which comes from one sorted list of the matches of all tiers, is what   *)
(* Calico does tier by tier, where the orders tell tiers and policies      *)
(* apart and no tier is silent (calico/analyze.go:1044-1151, 1285-1303).   *)
(***************************************************************************)
THEOREM PathAgreement == Spec => []PathAgreesWithCalico
<1>1. AgreeInv => PathAgreesWithCalico BY DEF AgreeInv, PathAgreesWithCalico
<1> QED BY <1>1, Agreeing, PTL

(***************************************************************************)
(* Likewise for DNS: PASS only if Calico lets every resolver be reached,   *)
(* and otherwise the verdict of one that it does not, unless that takes    *)
(* two Passes (calico/analyze.go:818-930).                                 *)
(***************************************************************************)
THEOREM DNSAgreement == Spec => []DNSAgreesWithCalico
<1>1. AgreeInv => DNSAgreesWithCalico BY DEF AgreeInv, DNSAgreesWithCalico
<1> QED BY <1>1, Agreeing, PTL

===============================================================================
