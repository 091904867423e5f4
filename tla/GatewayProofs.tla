----------------------------- MODULE GatewayProofs -----------------------------
(***************************************************************************)
(* Theorems about GatewayTraffic for every cluster and command line: what  *)
(* the report keeps and explains, what a success means and whom a probe    *)
(* blames.                                                                 *)
(***************************************************************************)
EXTENDS GatewayTraffic, SequenceLemmas, FiniteSetTheorems

(***************************************************************************)
(* The report has its three parts, and the exit status is given by the     *)
(* last step only.                                                         *)
(***************************************************************************)
IsReport(r) == r = [results |-> r.results, diagnoses |-> r.diagnoses, problems |-> r.problems]

ReportInv ==
    /\ IsReport(report)
    /\ pc # "done" => exit = Running

\* What is added takes nothing away.
Grows(older, newer) == IsReport(newer) /\ older.results \subseteq newer.results

LEMMA AddGrows ==
  ASSUME NEW sofar, NEW results, NEW diagnoses
  PROVE  Grows(sofar, Add(sofar, results, diagnoses))
  BY DEF IsReport, Grows, Add

LEMMA AddProblemsGrows ==
  ASSUME NEW sofar, NEW problems
  PROVE  Grows(sofar, addProblems(sofar, problems))
  BY DEF IsReport, Grows, addProblems

LEMMA GrowsFurther ==
  ASSUME NEW r, NEW s, NEW t, Grows(r, s), Grows(s, t)
  PROVE  Grows(r, t)
  BY DEF Grows

\* A step that is not the last one.
Continues == Grows(report, report') /\ exit' = exit /\ pc # "done" /\ flags' = flags

LEMMA InitReport == Init => ReportInv
  BY DEF Init, ReportInv, IsReport

LEMMA OptionsContinue ==
  ASSUME ReportInv, readOptions \/ reachCluster \/ readLists \/ checkListeners \/ selectRules
  PROVE  Continues
  <1> USE DEF ReportInv, Continues, input
  <1>0. IsReport(report) /\ Grows(report, report)
    BY DEF Grows
  <1>1. CASE readOptions
    BY <1>0, <1>1, AddGrows DEF readOptions
  <1>2. CASE reachCluster
    BY <1>0, <1>2, AddGrows DEF reachCluster
  <1>3. CASE readLists
    BY <1>0, <1>3, AddProblemsGrows DEF readLists
  <1>4. CASE checkListeners
    BY <1>0, <1>4, AddGrows, AddProblemsGrows, GrowsFurther DEF checkListeners
  <1>5. CASE selectRules
    BY <1>0, <1>5, AddProblemsGrows DEF selectRules, addProblem
  <1> QED
    BY <1>1, <1>2, <1>3, <1>4, <1>5

LEMMA BackendsContinue ==
  ASSUME ReportInv, checkParents \/ checkExpected \/ checkMirror \/ mirrorsDone \/ analyze \/ analyzed \/ scan \/ scanned
  PROVE  Continues
  <1> USE DEF ReportInv, Continues, input
  <1>0. IsReport(report) /\ Grows(report, report)
    BY DEF Grows
  <1>1. CASE checkParents
    BY <1>0, <1>1, AddProblemsGrows DEF checkParents
  <1>2. CASE checkExpected
    BY <1>0, <1>2, AddProblemsGrows DEF checkExpected, addProblem
  <1>3. CASE checkMirror
    BY <1>0, <1>3, AddGrows DEF checkMirror
  <1>4. CASE mirrorsDone
    BY <1>0, <1>4 DEF mirrorsDone
  <1>5. CASE analyze
    BY <1>0, <1>5 DEF analyze
  <1>6. CASE analyzed
    BY <1>0, <1>6 DEF analyzed
  <1>7. CASE scan
    BY <1>0, <1>7, AddProblemsGrows DEF scan, addProblem
  <1>8. CASE scanned
    BY <1>0, <1>8, AddGrows DEF scanned
  <1> QED
    BY <1>1, <1>2, <1>3, <1>4, <1>5, <1>6, <1>7, <1>8

LEMMA RoundGrows ==
  ASSUME ReportInv, NEW outside, NEW list, NEW pod, NEW inside, NEW mesh
  PROVE  Grows(report, Round(outside, list, pod, inside, mesh).report)
  BY AddGrows DEF Round

LEMMA ProbesContinue ==
  ASSUME ReportInv, dataplane \/ dataplaneDone \/ probe \/ cannotProbe \/ probesDone
  PROVE  Continues
  <1> USE DEF ReportInv, Continues, input
  <1>0. IsReport(report) /\ Grows(report, report)
    BY DEF Grows
  <1>1. CASE dataplane
    <2>1. \E results, diagnoses : report' = Add(report, results, diagnoses)
      BY <1>1, Zenon DEF dataplane
    <2>2. pc = "dataplane" /\ UNCHANGED <<flags, exit>>
      BY <1>1 DEF dataplane
    <2> QED
      BY <2>1, <2>2, AddGrows
  <1>2. CASE dataplaneDone
    BY <1>0, <1>2 DEF dataplaneDone
  <1>3. CASE probe
    BY <1>0, <1>3, RoundGrows DEF probe
  <1>4. CASE cannotProbe
    BY <1>0, <1>4, AddGrows DEF cannotProbe
  <1>5. CASE probesDone
    BY <1>0, <1>5 DEF probesDone
  <1> QED
    BY <1>1, <1>2, <1>3, <1>4, <1>5

LEMMA EndContinues ==
  ASSUME ReportInv, conclude \/ finishScan \/ dedupe \/ generic
  PROVE  Continues
  <1> USE DEF ReportInv, Continues, input
  <1>0. IsReport(report) /\ Grows(report, report)
    BY DEF Grows
  <1>1. CASE conclude
    BY <1>0, <1>1, AddGrows DEF conclude
  <1>2. CASE finishScan
    BY <1>0, <1>2, AddGrows, AddProblemsGrows, GrowsFurther DEF finishScan
  <1>3. CASE dedupe
    <2>1. PICK rs, ds, n : report = [results |-> rs, diagnoses |-> ds, problems |-> n]
      BY DEF IsReport
    <2>2. report' = [results |-> rs, diagnoses |-> {d \in ds : ~Redundant(d, ds)}, problems |-> n]
      BY <1>3, <2>1 DEF dedupe
    <2> QED
      BY <1>3, <2>1, <2>2 DEF dedupe, Grows, IsReport
  <1>4. CASE generic
    BY <1>0, <1>4, AddGrows DEF generic
  <1> QED
    BY <1>1, <1>2, <1>3, <1>4

\* Every step but the last adds to the report and gives no exit status.
LEMMA StepsContinue ==
  ASSUME ReportInv, Next
  PROVE  Continues \/ finish
  BY OptionsContinue, BackendsContinue, ProbesContinue, EndContinues DEF Next

LEMMA StepReport ==
  ASSUME ReportInv, [Next]_vars
  PROVE  ReportInv'
  <1>1. CASE UNCHANGED vars
    BY <1>1 DEF ReportInv, IsReport, vars
  <1>2. CASE Continues
    BY <1>2 DEF Continues, ReportInv, Grows, IsReport
  <1>3. CASE finish
    BY <1>3 DEF finish, ReportInv, IsReport
  <1> QED
    BY <1>1, <1>2, <1>3, StepsContinue

(***************************************************************************)
(* Until the command is done it has no exit status.                        *)
(***************************************************************************)
THEOREM NoExitBeforeDone == Spec => []ReportInv
  BY InitReport, StepReport, PTL DEF Spec

(***************************************************************************)
(* check gateway implements Report: whatever the cluster answers, nothing  *)
(* that was reported is taken back, and the exit status, given once, is 0  *)
(* only when nothing reported counts (gateway.go:87-164, cli.go:517-616).  *)
(***************************************************************************)
THEOREM GatewayReports == Spec => ReportKept
  <1> DEFINE Step == GatewayReport!Add \/ GatewayReport!Finish \/ GatewayReport!Abort
  <1>1. Init => GatewayReport!Init
    BY DEF Init, GatewayReport!Init
  <1>2. ReportInv /\ [Next]_vars => [Step]_<<flags, report.results, exit>>
    <2> SUFFICES ASSUME ReportInv, [Next]_vars
                 PROVE  [Step]_<<flags, report.results, exit>>
      OBVIOUS
    <2>1. CASE UNCHANGED vars
      BY <2>1 DEF vars, input
    <2>2. CASE Continues
      BY <2>2 DEF Continues, Grows, ReportInv, GatewayReport!Add
    <2>3. CASE finish
      BY <2>3 DEF finish, input, ReportInv, GatewayReport!Finish
    <2> QED
      BY <2>1, <2>2, <2>3, StepsContinue
  <1> QED
    BY <1>1, <1>2, NoExitBeforeDone, PTL DEF Spec, ReportKept, GatewayReport!Spec

\* Diagnoses are taken away by dedupe alone.
LEMMA OnlyDedupe ==
  ASSUME Next, pc = "dedupe"
  PROVE  dedupe
  BY DEF Next, readOptions, reachCluster, readLists, checkListeners, selectRules, checkParents, checkExpected,
         checkMirror, mirrorsDone, analyze, analyzed, scan, scanned, dataplane, dataplaneDone, probe, cannotProbe,
         probesDone, conclude, finishScan, generic, finish

\* A text with one fragment has no other one.
LEMMA OneFragment ==
  ASSUME NEW diagnoses, Unmixed(diagnoses), NEW d \in diagnoses, NEW x \in Says(d), NEW y \in Says(d)
  PROVE  x = y
  BY DEF Unmixed

\* A diagnosis of a route is taken away for one pair of fragments.
LEMMA RouteRedundant ==
  ASSUME NEW diagnoses, NEW d, d.check \in AboutRoute, Redundant(d, diagnoses)
  PROVE  \E f, g : /\ <<f, g>> \in Outweighed /\ f \in Says(d)
                   /\ \E e \in diagnoses : e.check \in AboutRoute /\ e.about[1] = d.about[1] /\ g \in Says(e)
  <1>1. d.check \notin AboutTLS /\ d.check # "attached"
    BY DEF AboutRoute, AboutTLS
  <1>2. PICK pair \in Outweighed : pair[1] \in Says(d) /\ Beside(d, pair[2], diagnoses)
    BY <1>1 DEF Redundant
  <1>3. pair = <<pair[1], pair[2]>>
    BY DEF Outweighed
  <1> QED
    BY <1>2, <1>3 DEF Beside

\* What explains a diagnosis that is taken away, and is not taken away itself: the
\* Secret at fault, the rejection of a route, or a broken backend of a route that
\* is not rejected.
LEMMA CauseKept ==
  ASSUME NEW diagnoses, Unmixed(diagnoses), NEW d \in diagnoses, Redundant(d, diagnoses)
  PROVE  \E e \in {x \in diagnoses : ~Redundant(x, diagnoses)} :
             \/ "secret" \in Says(e)
             \/ {d.check, e.check} \subseteq AboutRoute /\ e.about[1] = d.about[1]
  <1>1. CASE \E e \in diagnoses : e.check \in AboutTLS /\ "secret" \in Says(e)
    <2>1. PICK e \in diagnoses : e.check \in AboutTLS /\ "secret" \in Says(e)
      BY <1>1
    <2>2. "status" \notin Says(e)
      BY <2>1, OneFragment
    <2>3. e.check \notin AboutRoute /\ e.check # "attached"
      BY <2>1 DEF AboutRoute, AboutTLS
    <2>4. ~Redundant(e, diagnoses)
      BY <2>2, <2>3 DEF Redundant
    <2> QED
      BY <2>1, <2>4
  <1>2. CASE ~\E e \in diagnoses : e.check \in AboutTLS /\ "secret" \in Says(e)
    <2>1. d.check \in AboutRoute
      BY <1>2 DEF Redundant
    <2>2. PICK f, g : /\ <<f, g>> \in Outweighed /\ f \in Says(d)
                      /\ \E e \in diagnoses : e.check \in AboutRoute /\ e.about[1] = d.about[1] /\ g \in Says(e)
      BY <2>1, RouteRedundant
    <2>3. PICK e \in diagnoses : e.check \in AboutRoute /\ e.about[1] = d.about[1] /\ g \in Says(e)
      BY <2>2
    <2>4. CASE Redundant(e, diagnoses)
      <3>1. PICK h, k : /\ <<h, k>> \in Outweighed /\ h \in Says(e)
                        /\ \E c \in diagnoses : c.check \in AboutRoute /\ c.about[1] = e.about[1] /\ k \in Says(c)
        <4>1. e.check \in AboutRoute
          BY <2>3
        <4> QED
          BY <4>1, <2>4, RouteRedundant
      <3>2. PICK c \in diagnoses : c.check \in AboutRoute /\ c.about[1] = e.about[1] /\ k \in Says(c)
        BY <3>1
      <3>3. h = g
        BY <2>3, <3>1, OneFragment
      <3>4. k = "rejection"
        BY <2>2, <3>1, <3>3 DEF Outweighed
      <3>5. \A m \in Says(c) : m = "rejection"
        BY <3>2, <3>4, OneFragment
      <3>6. ~Redundant(c, diagnoses)
        <4> SUFFICES ASSUME Redundant(c, diagnoses) PROVE FALSE
          OBVIOUS
        <4>1. PICK m, n : <<m, n>> \in Outweighed /\ m \in Says(c)
          BY <3>2, RouteRedundant
        <4> QED
          BY <3>5, <4>1 DEF Outweighed
      <3> QED
        BY <2>1, <2>3, <3>2, <3>6
    <2>5. CASE ~Redundant(e, diagnoses)
      BY <2>1, <2>3, <2>5
    <2> QED
      BY <2>4, <2>5
  <1> QED
    BY <1>1, <1>2

(***************************************************************************)
(* Whatever was diagnosed, taking away what says less loses no cause if    *)
(* each text has one fragment: each route keeps a diagnosis, each listener *)
(* one or the Secret at fault (gateway.go:651-722).                        *)
(***************************************************************************)
THEOREM DedupeExplained == Spec => DedupeKeepsCause
  <1>1. ASSUME ReportInv, [Next]_vars, pc = "dedupe", Unmixed(report.diagnoses), ~UNCHANGED vars
        PROVE  /\ report'.diagnoses # {} \/ report.diagnoses = {}
               /\ \A d \in report.diagnoses \ report'.diagnoses : \E e \in report'.diagnoses :
                     \/ "secret" \in Says(e)
                     \/ {d.check, e.check} \subseteq AboutRoute /\ e.about[1] = d.about[1]
    <2>1. PICK rs, ds, n : report = [results |-> rs, diagnoses |-> ds, problems |-> n]
      BY <1>1 DEF ReportInv, IsReport
    <2>2. report.diagnoses = ds /\ report'.diagnoses = {d \in ds : ~Redundant(d, ds)}
      BY <1>1, <2>1, OnlyDedupe DEF dedupe
    <2>3. ASSUME NEW d \in ds \ report'.diagnoses
          PROVE  \E e \in report'.diagnoses :
                    \/ "secret" \in Says(e)
                    \/ {d.check, e.check} \subseteq AboutRoute /\ e.about[1] = d.about[1]
      BY <1>1, <2>2, <2>3, CauseKept
    <2> QED
      BY <2>2, <2>3
  <1> QED
    BY <1>1, NoExitBeforeDone, PTL DEF Spec, DedupeKeepsCause

-------------------------------------------------------------------------------
(* Facts about numbers and about the sequences that the model builds.      *)

(***************************************************************************)
(* The order of sequences of numbers is total, so that Sorted lists a      *)
(* finite set of them: every element, each once.                           *)
(***************************************************************************)
LEMMA LexTotal ==
    ASSUME NEW n \in Nat, NEW s \in [1..n -> Nat], NEW t \in [1..n -> Nat], s # t
    PROVE  LexLess(s, t) \/ LexLess(t, s)
<1> DEFINE D == {i \in 1..n : s[i] # t[i]}
<1>1. D # {} OBVIOUS
<1>2. D \in SUBSET Nat OBVIOUS
<1>3. PICK i \in D : \A j \in D : i <= j
  <2> HIDE DEF D
  <2> QED BY <1>1, <1>2, LeastNat
<1>4. i \in 1..n /\ s[i] # t[i] /\ \A j \in 1..(i - 1) : s[j] = t[j] BY <1>3
<1>5. s[i] < t[i] \/ t[i] < s[i] BY <1>4
<1> QED BY <1>4, <1>5 DEF LexLess

LEMMA LexOrder ==
    ASSUME NEW n \in Nat, NEW s \in [1..n -> Nat], NEW t \in [1..n -> Nat], NEW u \in [1..n -> Nat],
           LexLess(s, t), LexLess(t, u)
    PROVE  LexLess(s, u)
<1>1. PICK i \in 1..n : s[i] < t[i] /\ \A j \in 1..(i - 1) : s[j] = t[j] BY DEF LexLess
<1>2. PICK k \in 1..n : t[k] < u[k] /\ \A j \in 1..(k - 1) : t[j] = u[j] BY DEF LexLess
<1>3. CASE i < k
  <2>1. i \in 1..(k - 1) /\ s[i] < u[i] BY <1>1, <1>2, <1>3
  <2>2. \A j \in 1..(i - 1) : s[j] = u[j] BY <1>1, <1>2, <1>3
  <2> QED BY <2>1, <2>2 DEF LexLess
<1>4. CASE k < i
  <2>1. k \in 1..(i - 1) /\ s[k] < u[k] BY <1>1, <1>2, <1>4
  <2>2. \A j \in 1..(k - 1) : s[j] = u[j] BY <1>1, <1>2, <1>4
  <2> QED BY <2>1, <2>2 DEF LexLess
<1>5. CASE i = k
  <2>1. s[i] < u[i] BY <1>1, <1>2, <1>5
  <2>2. \A j \in 1..(i - 1) : s[j] = u[j] BY <1>1, <1>2, <1>5
  <2> QED BY <2>1, <2>2 DEF LexLess
<1> QED BY <1>3, <1>4, <1>5

\* How many elements come before one.
Before(S, s) == {t \in S : LexLess(t, s)}
Rank(S, s) == Cardinality(Before(S, s))

LEMMA RankIs ==
    ASSUME NEW n \in Nat, NEW S \in SUBSET [1..n -> Nat], IsFiniteSet(S), NEW s \in S
    PROVE  /\ Rank(S, s) \in 0..(Cardinality(S) - 1)
           /\ \A t \in S : LexLess(t, s) => Rank(S, t) < Rank(S, s)
<1>1. ~LexLess(s, s) BY DEF LexLess
<1>2. \A t \in S : IsFiniteSet(Before(S, t)) /\ Cardinality(Before(S, t)) \in Nat
  <2> SUFFICES ASSUME NEW t \in S PROVE IsFiniteSet(Before(S, t)) /\ Cardinality(Before(S, t)) \in Nat OBVIOUS
  <2>1. Before(S, t) \in SUBSET S BY DEF Before
  <2> QED BY <2>1, FS_Subset, FS_CardinalityType
<1>3. Cardinality(S) \in Nat BY FS_CardinalityType
<1>4. Before(S, s) \in SUBSET (S \ {s}) BY <1>1 DEF Before
<1>5. Cardinality(Before(S, s)) <= Cardinality(S \ {s}) /\ Cardinality(S \ {s}) = Cardinality(S) - 1
  BY <1>4, FS_RemoveElement, FS_Subset
<1>6. ASSUME NEW t \in S, LexLess(t, s) PROVE Cardinality(Before(S, t)) < Cardinality(Before(S, s))
  <2>1. ~LexLess(t, t) BY DEF LexLess
  <2>2. Before(S, t) \in SUBSET Before(S, s) BY <1>6, LexOrder DEF Before
  <2>3. t \in Before(S, s) /\ t \notin Before(S, t) BY <1>6, <2>1 DEF Before
  <2>4. Cardinality(Before(S, t)) <= Cardinality(Before(S, s))
        /\ (Cardinality(Before(S, t)) = Cardinality(Before(S, s)) => Before(S, t) = Before(S, s))
    BY <1>2, <2>2, FS_Subset
  <2> QED BY <1>2, <2>3, <2>4
<1> QED BY <1>2, <1>3, <1>5, <1>6 DEF Rank

LEMMA RankOnto ==
    ASSUME NEW n \in Nat, NEW S \in SUBSET [1..n -> Nat], IsFiniteSet(S), NEW k \in 0..(Cardinality(S) - 1)
    PROVE  \E s \in S : Rank(S, s) = k
<1> SUFFICES ASSUME \A s \in S : Rank(S, s) # k PROVE FALSE OBVIOUS
<1> DEFINE size == Cardinality(S)
           f == [s \in S |-> Rank(S, s)]
           T == (0..(size - 1)) \ {k}
<1>1. size \in Nat BY FS_CardinalityType
<1>2. f \in [S -> T] BY RankIs
<1>3. IsFiniteSet(T) /\ Cardinality(T) < size
  <2>1. IsFiniteSet(0..(size - 1)) /\ Cardinality(0..(size - 1)) = size
    BY <1>1, FS_Interval
  <2> DEFINE U == 0..(size - 1)
  <2>2. k \in U OBVIOUS
  <2> HIDE DEF size, U
  <2>3. IsFiniteSet(U \ {k}) /\ Cardinality(U \ {k}) = Cardinality(U) - 1 BY <2>1, <2>2, FS_RemoveElement DEF U
  <2> QED BY <1>1, <2>1, <2>3 DEF U
<1>4. PICK x \in S : \E y \in S : x # y /\ f[x] = f[y]
  <2> HIDE DEF f, T
  <2> QED BY <1>2, <1>3, FS_PigeonHole DEF size
<1>5. PICK y \in S : x # y /\ f[x] = f[y] BY <1>4
<1>6. LexLess(x, y) \/ LexLess(y, x) BY <1>5, LexTotal
<1>7. Rank(S, x) = Rank(S, y) BY <1>5
<1>8. /\ Rank(S, x) \in 0..(size - 1) /\ Rank(S, y) \in 0..(size - 1)
      /\ LexLess(x, y) => Rank(S, x) < Rank(S, y)
      /\ LexLess(y, x) => Rank(S, y) < Rank(S, x)
  BY RankIs, Zenon
<1> QED BY <1>1, <1>6, <1>7, <1>8

LEMMA SortedIs ==
    ASSUME NEW n \in Nat, NEW S \in SUBSET [1..n -> Nat], IsFiniteSet(S)
    PROVE  Sorted(S) \in Seq(S) /\ ToSet(Sorted(S)) = S
<1> DEFINE size == Cardinality(S)
           At(i) == CHOOSE s \in S : Rank(S, s) = i - 1
<1>1. size \in Nat BY FS_CardinalityType
<1>2. \A i \in 1..size : At(i) \in S /\ Rank(S, At(i)) = i - 1
  <2> SUFFICES ASSUME NEW i \in 1..size PROVE At(i) \in S /\ Rank(S, At(i)) = i - 1 OBVIOUS
  <2>1. i - 1 \in 0..(Cardinality(S) - 1) BY <1>1
  <2>2. \E s \in S : Rank(S, s) = i - 1
    <3> DEFINE k == i - 1
    <3> HIDE DEF k
    <3>1. \E s \in S : Rank(S, s) = k BY <2>1, RankOnto DEF k
    <3> QED BY <3>1 DEF k
  <2> QED BY <2>2
<1>3. Sorted(S) = [i \in 1..size |-> At(i)] BY DEF Sorted, Rank, Before
<1> HIDE DEF At
<1>4. Sorted(S) \in Seq(S) /\ DOMAIN Sorted(S) = 1..size BY <1>1, <1>2, <1>3
<1>5. ASSUME NEW s \in S PROVE s \in ToSet(Sorted(S))
  <2> DEFINE i == Rank(S, s) + 1
  <2>0. Rank(S, s) \in 0..(size - 1) BY RankIs, Zenon
  <2>1. i \in 1..size /\ Rank(S, s) = i - 1
    <3> HIDE DEF size
    <3> QED BY <1>1, <2>0
  <2>2. At(i) \in S /\ Rank(S, At(i)) = Rank(S, s) BY <1>2, <2>1
  <2>3. At(i) = s
    <3> SUFFICES ASSUME At(i) # s PROVE FALSE OBVIOUS
    <3>1. LexLess(At(i), s) \/ LexLess(s, At(i))
      <4> HIDE DEF i
      <4> QED BY <2>2, LexTotal
    <3>2. /\ LexLess(At(i), s) => Rank(S, At(i)) < Rank(S, s)
          /\ LexLess(s, At(i)) => Rank(S, s) < Rank(S, At(i))
      <4> HIDE DEF i
      <4> QED BY <2>2, RankIs, Zenon
    <3>3. Rank(S, s) \in Nat BY <2>0
    <3> HIDE DEF i
    <3> QED BY <2>2, <3>1, <3>2, <3>3
  <2>4. Sorted(S)[i] = s BY <1>3, <2>1, <2>3
  <2> QED BY <1>4, <2>1, <2>4 DEF ToSet
<1>6. \A s \in ToSet(Sorted(S)) : s \in S BY <1>4, <1>2, <1>3 DEF ToSet
<1> QED BY <1>4, <1>5, <1>6


-------------------------------------------------------------------------------
(* The objects of a cluster, and finite sets of them.                      *)

LEMMA GatewayParts ==
    ASSUME world \in World, NEW g \in DOMAIN world.gateways
    PROVE  /\ g \in Nat
           /\ world.gateways[g].namespace \in Nat
           /\ world.gateways[g].addresses \in SUBSET Nat
           /\ world.gateways[g].listeners \in Seq(Listener)
           /\ \A l \in DOMAIN world.gateways[g].listeners :
                 l \in Nat /\ world.gateways[g].listeners[l].certificates \in Seq(Certificate)
<1>1. world.gateways \in Seq(Gateway) BY DEF World
<1>2. g \in Nat /\ world.gateways[g] \in Gateway BY <1>1, ElementType
<1> DEFINE gateway == world.gateways[g]
<1>3. gateway.namespace \in Nat /\ gateway.addresses \in SUBSET Nat /\ gateway.listeners \in Seq(Listener)
  BY <1>2 DEF Gateway
<1>4. \A l \in DOMAIN gateway.listeners : l \in Nat /\ gateway.listeners[l] \in Listener
  <2> HIDE DEF gateway
  <2> QED BY <1>3, ElementType
<1>5. \A l \in DOMAIN gateway.listeners : gateway.listeners[l].certificates \in Seq(Certificate)
  BY <1>4 DEF Listener
<1> QED BY <1>2, <1>3, <1>4, <1>5

LEMMA RouteParts ==
    ASSUME world \in World, NEW r \in DOMAIN world.routes
    PROVE  /\ r \in Nat
           /\ world.routes[r].namespace \in Nat
           /\ world.routes[r].parents \in Seq(ParentRef)
           /\ world.routes[r].statuses \in Seq(ParentStatus)
           /\ world.routes[r].rules \in Seq(Rule)
           /\ \A n \in DOMAIN world.routes[r].rules :
                 /\ n \in Nat
                 /\ world.routes[r].rules[n].backends \in Seq(Backend)
                 /\ world.routes[r].rules[n].mirrors \in Seq(Backend)
<1>1. world.routes \in Seq(Route) BY DEF World
<1>2. r \in Nat /\ world.routes[r] \in Route BY <1>1, ElementType
<1> DEFINE route == world.routes[r]
<1>3. /\ route.namespace \in Nat /\ route.parents \in Seq(ParentRef) /\ route.statuses \in Seq(ParentStatus)
      /\ route.rules \in Seq(Rule)
  BY <1>2 DEF Route
<1>4. \A n \in DOMAIN route.rules : n \in Nat /\ route.rules[n] \in Rule
  <2> HIDE DEF route
  <2> QED BY <1>3, ElementType
<1>5. \A n \in DOMAIN route.rules : route.rules[n].backends \in Seq(Backend) /\ route.rules[n].mirrors \in Seq(Backend)
  BY <1>4 DEF Rule
<1> QED BY <1>2, <1>3, <1>4, <1>5

LEMMA SequenceFinite ==
    ASSUME NEW S, NEW s \in Seq(S)
    PROVE  IsFiniteSet(DOMAIN s)
<1>1. DOMAIN s = 1..Len(s) /\ Len(s) \in Nat OBVIOUS
<1> QED BY <1>1, FS_Interval

LEMMA ImageFinite ==
    ASSUME NEW S, IsFiniteSet(S), NEW f, DOMAIN f = S
    PROVE  IsFiniteSet({f[x] : x \in S})
<1> DEFINE g == [x \in S |-> f[x]]
           T == {f[x] : x \in S}
<1>1. g \in Surjection(S, T) BY DEF Surjection
<1> HIDE DEF g, T
<1>2. IsFiniteSet(T) BY <1>1, FS_Surjection
<1> QED BY <1>2 DEF T

LEMMA UnionFinite ==
    ASSUME NEW S, IsFiniteSet(S), NEW f, DOMAIN f = S, \A x \in S : IsFiniteSet(f[x])
    PROVE  IsFiniteSet(UNION {f[x] : x \in S})
<1> DEFINE T == {f[x] : x \in S}
<1>1. IsFiniteSet(T) BY ImageFinite
<1>2. \A t \in T : IsFiniteSet(t) OBVIOUS
<1> HIDE DEF T
<1>3. IsFiniteSet(UNION T) BY <1>1, <1>2, FS_UNION
<1> QED BY <1>3 DEF T

\* Pairs of a number in a finite set and one in the domain of its sequence.
LEMMA PairsFinite ==
    ASSUME NEW S \in SUBSET Nat, IsFiniteSet(S), NEW part, DOMAIN part = S, NEW E, \A x \in S : part[x] \in Seq(E)
    PROVE  IsFiniteSet(UNION {{<<x, y>> : y \in DOMAIN part[x]} : x \in S})
<1> DEFINE f == [x \in S |-> {<<x, y>> : y \in DOMAIN part[x]}]
<1>1. ASSUME NEW x \in S PROVE IsFiniteSet(f[x])
  <2> DEFINE D == DOMAIN part[x]
             h == [y \in D |-> <<x, y>>]
  <2>1. IsFiniteSet(D)
    <3>1. part[x] \in Seq(E) OBVIOUS
    <3> QED BY <3>1, SequenceFinite
  <2>2. IsFiniteSet({h[y] : y \in D})
    <3>1. DOMAIN h = D OBVIOUS
    <3> HIDE DEF h, D
    <3> QED BY <2>1, <3>1, ImageFinite
  <2>3. {h[y] : y \in D} = f[x] OBVIOUS
  <2> QED BY <2>2, <2>3
<1>2. DOMAIN f = S OBVIOUS
<1>3. IsFiniteSet(UNION {f[x] : x \in S})
  <2> HIDE DEF f
  <2> QED BY <1>1, <1>2, UnionFinite
<1>4. UNION {f[x] : x \in S} = UNION {{<<x, y>> : y \in DOMAIN part[x]} : x \in S} OBVIOUS
<1> QED BY <1>3, <1>4


(***************************************************************************)
(* Paths and references are tuples: what \o and SubSeq make of them.       *)
(***************************************************************************)
LEMMA FourAndOne ==
    ASSUME NEW S, NEW a \in S, NEW b \in S, NEW c \in S, NEW d \in S, NEW e \in S
    PROVE  <<a, b, c, d>> \o <<e>> = <<a, b, c, d, e>>
<1> DEFINE s == <<a, b, c, d>> t == <<e>> u == <<a, b, c, d, e>>
<1>1. s \in Seq(S) /\ t \in Seq(S) /\ u \in Seq(S) /\ Len(s) = 4 /\ Len(t) = 1 /\ Len(u) = 5 OBVIOUS
<1>2. s[1] = a /\ s[2] = b /\ s[3] = c /\ s[4] = d /\ t[1] = e /\ u[1] = a /\ u[2] = b /\ u[3] = c /\ u[4] = d /\ u[5] = e OBVIOUS
<1> HIDE DEF s, t, u
<1> DEFINE v == s \o t
<1>3. /\ v \in Seq(S) /\ Len(v) = Len(s) + Len(t)
      /\ \A i \in 1..(Len(s) + Len(t)) : v[i] = IF i <= Len(s) THEN s[i] ELSE t[i - Len(s)]
    BY <1>1, ConcatProperties, Zenon
<1> HIDE DEF v
<1>4. \A i \in 1..5 : v[i] = IF i <= 4 THEN s[i] ELSE t[i - 4] BY <1>1, <1>3
<1>5. v[1] = s[1] /\ v[2] = s[2] /\ v[3] = s[3] /\ v[4] = s[4] /\ v[5] = t[1] BY <1>4
<1>6. \A i \in 1..5 : v[i] = u[i] BY <1>2, <1>5
<1>7. Len(v) = Len(u) /\ v \in Seq(S) /\ u \in Seq(S) /\ \A i \in 1..Len(v) : v[i] = u[i] BY <1>1, <1>3, <1>6
<1>8. v = u BY <1>7, SeqEqual, Zenon
<1> QED BY <1>8 DEF s, t, u, v

LEMMA SubSeqAt ==
    ASSUME NEW S, NEW s \in Seq(S), NEW m \in 1..Len(s), NEW n \in m..Len(s)
    PROVE  /\ SubSeq(s, m, n) \in Seq(S) /\ Len(SubSeq(s, m, n)) = n - m + 1
           /\ \A i \in 1..(n - m + 1) : SubSeq(s, m, n)[i] = s[m + i - 1]
  BY SubSeqProperties

LEMMA LastThree ==
    ASSUME NEW a \in Nat, NEW b \in Nat, NEW c \in Nat, NEW d \in Nat, NEW e \in Nat
    PROVE  SubSeq(<<a, b, c, d, e>>, 3, 5) = <<c, d, e>>
<1> DEFINE u == <<a, b, c, d, e>> v == <<c, d, e>> w == SubSeq(u, 3, 5)
<1>1. u \in Seq(Nat) /\ v \in Seq(Nat) /\ Len(u) = 5 /\ Len(v) = 3 /\ u[3] = c /\ u[4] = d /\ u[5] = e /\ v[1] = c /\ v[2] = d /\ v[3] = e OBVIOUS
<1> HIDE DEF u, v
<1>2. w \in Seq(Nat) /\ Len(w) = 3 /\ \A i \in 1..3 : w[i] = u[3 + i - 1]
  <2>1. 3 \in 1..Len(u) /\ 5 \in 3..Len(u) BY <1>1
  <2>2. 5 - 3 + 1 = 3 OBVIOUS
  <2> QED BY <1>1, <2>1, <2>2, SubSeqAt
<1> HIDE DEF w
<1>3. \A i \in 1..3 : w[i] = v[i] BY <1>1, <1>2
<1>4. w = v BY <1>1, <1>2, <1>3, SeqEqual
<1> QED BY <1>4 DEF u, v, w

LEMMA FirstTwo ==
    ASSUME NEW S, NEW c \in S, NEW d \in S, NEW e \in S
    PROVE  SubSeq(<<c, d, e>>, 1, 2) = <<c, d>>
<1> DEFINE u == <<c, d, e>> v == <<c, d>> w == SubSeq(u, 1, 2)
<1>1. u \in Seq(S) /\ v \in Seq(S) /\ Len(u) = 3 /\ Len(v) = 2 /\ u[1] = c /\ u[2] = d /\ v[1] = c /\ v[2] = d OBVIOUS
<1> HIDE DEF u, v
<1>2. w \in Seq(S) /\ Len(w) = 2 /\ \A i \in 1..2 : w[i] = u[1 + i - 1]
  <2>1. 1 \in 1..Len(u) /\ 2 \in 1..Len(u) BY <1>1
  <2>2. 2 - 1 + 1 = 2 OBVIOUS
  <2> QED BY <1>1, <2>1, <2>2, SubSeqAt
<1> HIDE DEF w
<1>3. \A i \in 1..2 : w[i] = v[i] BY <1>1, <1>2
<1>4. w = v BY <1>1, <1>2, <1>3, SeqEqual
<1> QED BY <1>4 DEF u, v, w

-------------------------------------------------------------------------------
(* The matches of a request and the paths to its backends.                 *)

LEMMA ScopeParts ==
    /\ Parents \in SUBSET DOMAIN world.gateways
    /\ RouteScope \in SUBSET DOMAIN world.routes
BY DEF Parents, Scope, RouteScope

LEMMA ScopeFinite ==
    ASSUME world \in World
    PROVE  IsFiniteSet(Parents) /\ IsFiniteSet(RouteScope)
<1>1. world.gateways \in Seq(Gateway) /\ world.routes \in Seq(Route) BY DEF World
<1>2. IsFiniteSet(DOMAIN world.gateways) /\ IsFiniteSet(DOMAIN world.routes) BY <1>1, SequenceFinite
<1> QED BY <1>2, ScopeParts, FS_Subset

ListenerPairsOf == UNION {{<<g, l>> : l \in DOMAIN world.gateways[g].listeners} : g \in Parents}
RulePairsOf == UNION {{<<r, n>> : n \in DOMAIN world.routes[r].rules} : r \in RouteScope}

LEMMA PairsOfFinite ==
    ASSUME world \in World
    PROVE  IsFiniteSet(ListenerPairsOf) /\ IsFiniteSet(RulePairsOf)
<1>1. IsFiniteSet(ListenerPairsOf)
  <2> DEFINE part == [g \in Parents |-> world.gateways[g].listeners]
  <2>1. DOMAIN part = Parents /\ \A g \in Parents : part[g] \in Seq(Listener) BY ScopeParts, GatewayParts
  <2>2. Parents \in SUBSET Nat BY ScopeParts, GatewayParts
  <2>3. IsFiniteSet(UNION {{<<x, y>> : y \in DOMAIN part[x]} : x \in Parents})
    <3> HIDE DEF part
    <3> QED BY <2>1, <2>2, ScopeFinite, PairsFinite
  <2>4. UNION {{<<x, y>> : y \in DOMAIN part[x]} : x \in Parents} = ListenerPairsOf BY DEF ListenerPairsOf
  <2> QED BY <2>3, <2>4
<1>2. IsFiniteSet(RulePairsOf)
  <2> DEFINE part == [r \in RouteScope |-> world.routes[r].rules]
  <2>1. DOMAIN part = RouteScope /\ \A r \in RouteScope : part[r] \in Seq(Rule) BY ScopeParts, RouteParts
  <2>2. RouteScope \in SUBSET Nat BY ScopeParts, RouteParts
  <2>3. IsFiniteSet(UNION {{<<x, y>> : y \in DOMAIN part[x]} : x \in RouteScope})
    <3> HIDE DEF part
    <3> QED BY <2>1, <2>2, ScopeFinite, PairsFinite
  <2>4. UNION {{<<x, y>> : y \in DOMAIN part[x]} : x \in RouteScope} = RulePairsOf BY DEF RulePairsOf
  <2> QED BY <2>3, <2>4
<1> QED BY <1>1, <1>2

\* A rule that matches the request at a listener that it arrives at.
IsMatch(m) ==
    /\ m = <<m[1], m[2], m[3], m[4]>>
    /\ m[1] \in Parents /\ m[2] \in DOMAIN world.gateways[m[1]].listeners
    /\ m[3] \in RouteScope /\ m[4] \in DOMAIN world.routes[m[3]].rules
    /\ ListenerMatches(world.gateways[m[1]].listeners[m[2]], intent)

LEMMA FoundIsMatch ==
    ASSUME NEW m \in RuleMatchesFound
    PROVE  IsMatch(m)
<1>1. PICK g \in Parents : \E r \in RouteScope : \E l \in DOMAIN world.gateways[g].listeners :
         \E n \in DOMAIN world.routes[r].rules : m = <<g, l, r, n>>
  BY DEF RuleMatchesFound, FindRuleMatches
<1>2. ListenerMatches(world.gateways[m[1]].listeners[m[2]], intent)
  BY DEF RuleMatchesFound, FindRuleMatches
<1> QED BY <1>1, <1>2 DEF IsMatch

LEMMA MatchNumbers ==
    ASSUME world \in World, NEW m, IsMatch(m)
    PROVE  m \in [1..4 -> Nat] /\ m \in Nat \X Nat \X Nat \X Nat
<1>1. m[1] \in Nat /\ m[2] \in Nat /\ m[3] \in Nat /\ m[4] \in Nat
  BY ScopeParts, GatewayParts, RouteParts DEF IsMatch
<1>2. m = <<m[1], m[2], m[3], m[4]>> BY DEF IsMatch
<1> QED BY <1>1, <1>2

LEMMA FoundFinite ==
    ASSUME world \in World
    PROVE  IsFiniteSet(RuleMatchesFound)
<1> DEFINE T == ListenerPairsOf \X RulePairsOf
           f == [m \in RuleMatchesFound |-> <<<<m[1], m[2]>>, <<m[3], m[4]>>>>]
<1>1. IsFiniteSet(T) BY PairsOfFinite, FS_Product
<1>2. \A m \in RuleMatchesFound : f[m] \in T
  <2> SUFFICES ASSUME NEW m \in RuleMatchesFound PROVE f[m] \in T OBVIOUS
  <2>1. IsMatch(m) BY FoundIsMatch
  <2>2. <<m[1], m[2]>> \in ListenerPairsOf BY <2>1 DEF IsMatch, ListenerPairsOf
  <2>3. <<m[3], m[4]>> \in RulePairsOf BY <2>1 DEF IsMatch, RulePairsOf
  <2> QED BY <2>2, <2>3
<1>3. \A m, o \in RuleMatchesFound : f[m] = f[o] => m = o
  <2> SUFFICES ASSUME NEW m \in RuleMatchesFound, NEW o \in RuleMatchesFound, f[m] = f[o] PROVE m = o OBVIOUS
  <2>1. m = <<m[1], m[2], m[3], m[4]>> /\ o = <<o[1], o[2], o[3], o[4]>> BY FoundIsMatch DEF IsMatch
  <2>2. m[1] = o[1] /\ m[2] = o[2] /\ m[3] = o[3] /\ m[4] = o[4] OBVIOUS
  <2> QED BY <2>1, <2>2
<1>4. f \in Injection(RuleMatchesFound, T)
  <2>1. f \in [RuleMatchesFound -> T]
    <3> HIDE DEF T
    <3> QED BY <1>2
  <2> HIDE DEF f, T
  <2> QED BY <1>3, <2>1 DEF Injection, IsInjective
<1> HIDE DEF f, T
<1> QED BY <1>1, <1>4, FS_Injection

\* Those of the rules won.
Candidates(won) ==
    LET BackendsIn(m) == world.routes[m[3]].rules[m[4]].backends IN
    UNION {{m \o <<b>> : b \in {n \in DOMAIN BackendsIn(m) : IsCandidate(BackendsIn(m)[n])}} : m \in won}

LEMMA CandidateParts ==
    ASSUME world \in World, NEW won \in SUBSET RuleMatchesFound, NEW p \in Candidates(won)
    PROVE  \E m \in won : \E b \in DOMAIN world.routes[m[3]].rules[m[4]].backends :
              /\ p = <<m[1], m[2], m[3], m[4], b>> /\ b \in Nat /\ IsMatch(m)
              /\ IsCandidate(world.routes[m[3]].rules[m[4]].backends[b])
<1>1. PICK m \in won : \E b \in DOMAIN world.routes[m[3]].rules[m[4]].backends :
         p = m \o <<b>> /\ IsCandidate(world.routes[m[3]].rules[m[4]].backends[b])
  BY DEF Candidates
<1>2. PICK b \in DOMAIN world.routes[m[3]].rules[m[4]].backends :
         p = m \o <<b>> /\ IsCandidate(world.routes[m[3]].rules[m[4]].backends[b])
  BY <1>1
<1>3. IsMatch(m) BY FoundIsMatch
<1>4. m = <<m[1], m[2], m[3], m[4]>> BY <1>3 DEF IsMatch
<1>5. b \in Nat
  <2>1. world.routes[m[3]].rules[m[4]].backends \in Seq(Backend) BY <1>3, ScopeParts, RouteParts DEF IsMatch
  <2> QED BY <2>1, ElementType
<1>6. m \o <<b>> = <<m[1], m[2], m[3], m[4], b>>
  <2> DEFINE m1 == m[1] m2 == m[2] m3 == m[3] m4 == m[4]
  <2>1. m1 \in Nat /\ m2 \in Nat /\ m3 \in Nat /\ m4 \in Nat
    BY <1>3, ScopeParts, GatewayParts, RouteParts DEF IsMatch
  <2>2. <<m1, m2, m3, m4>> \o <<b>> = <<m1, m2, m3, m4, b>>
    <3>1. ASSUME NEW v, NEW w, NEW x, NEW y, v \in Nat, w \in Nat, x \in Nat, y \in Nat
          PROVE  <<v, w, x, y>> \o <<b>> = <<v, w, x, y, b>>
      BY <1>5, <3>1, FourAndOne
    <3> HIDE DEF m1, m2, m3, m4
    <3> QED BY <2>1, <3>1
  <2> QED BY <1>4, <2>2
<1> QED BY <1>2, <1>3, <1>5, <1>6

LEMMA CandidatesFinite ==
    ASSUME world \in World, NEW won \in SUBSET RuleMatchesFound
    PROVE  IsFiniteSet(Candidates(won)) /\ Candidates(won) \in SUBSET [1..5 -> Nat]
<1>1. IsFiniteSet(won) BY FoundFinite, FS_Subset
<1> DEFINE Extended(m) == {m \o <<b>> : b \in {n \in DOMAIN world.routes[m[3]].rules[m[4]].backends :
                                        IsCandidate(world.routes[m[3]].rules[m[4]].backends[n])}}
           f == [m \in won |-> Extended(m)]
<1>2. ASSUME NEW m \in won PROVE IsFiniteSet(Extended(m))
  <2> DEFINE backends == world.routes[m[3]].rules[m[4]].backends
             D == {n \in DOMAIN backends : IsCandidate(backends[n])}
             h == [b \in D |-> m \o <<b>>]
  <2>1. backends \in Seq(Backend) BY FoundIsMatch, ScopeParts, RouteParts DEF IsMatch
  <2>2. IsFiniteSet(D)
    <3> HIDE DEF backends
    <3>1. D \in SUBSET DOMAIN backends OBVIOUS
    <3> HIDE DEF D
    <3> QED BY <2>1, <3>1, SequenceFinite, FS_Subset
  <2>3. IsFiniteSet({h[b] : b \in D})
    <3>1. DOMAIN h = D OBVIOUS
    <3> HIDE DEF h, D
    <3> QED BY <2>2, <3>1, ImageFinite
  <2>4. {h[b] : b \in D} = Extended(m) OBVIOUS
  <2> QED BY <2>3, <2>4
<1>3. IsFiniteSet(UNION {f[m] : m \in won})
  <2>1. DOMAIN f = won /\ \A m \in won : f[m] = Extended(m) OBVIOUS
  <2> HIDE DEF f, Extended
  <2> QED BY <1>1, <1>2, <2>1, UnionFinite
<1>4. UNION {f[m] : m \in won} = Candidates(won)
  <2>1. \A m \in won : f[m] = Extended(m) OBVIOUS
  <2>2. Candidates(won) = UNION {Extended(m) : m \in won} BY DEF Candidates
  <2> HIDE DEF f, Extended
  <2> QED BY <2>1, <2>2
<1>5. ASSUME NEW p \in Candidates(won) PROVE p \in [1..5 -> Nat]
  <2>1. PICK m \in won : \E b \in DOMAIN world.routes[m[3]].rules[m[4]].backends :
              p = <<m[1], m[2], m[3], m[4], b>> /\ b \in Nat /\ IsMatch(m)
    BY CandidateParts
  <2>2. m[1] \in Nat /\ m[2] \in Nat /\ m[3] \in Nat /\ m[4] \in Nat
    BY <2>1, ScopeParts, GatewayParts, RouteParts DEF IsMatch
  <2> QED BY <2>1, <2>2
<1> QED BY <1>3, <1>4, <1>5

LEMMA PathsAre ==
    ASSUME world \in World, NEW won \in SUBSET RuleMatchesFound
    PROVE  /\ CandidatePaths(world.routes, won) \in Seq(Candidates(won))
           /\ ToSet(CandidatePaths(world.routes, won)) = Candidates(won)
<1>1. CandidatePaths(world.routes, won) = Sorted(Candidates(won)) BY DEF CandidatePaths, Candidates
<1>2. 5 \in Nat OBVIOUS
<1> QED BY <1>1, <1>2, CandidatesFinite, SortedIs


-------------------------------------------------------------------------------
(* What each step has to say.                                              *)

\* Problems of some checks.
ProblemsOf(checks) ==
    [result : [check : checks, about : Seq(Nat), status : {"FAIL"} \cup Warnings], diagnosed : BOOLEAN]

LEMMA WhenIs ==
    ASSUME NEW S, NEW holds \in BOOLEAN, NEW x, holds => x \in S
    PROVE  When(holds, x) \in Seq(S) /\ ToSet(When(holds, x)) = IF holds THEN {x} ELSE {}
<1>1. CASE holds
  <2>1. When(holds, x) = <<x>> BY <1>1 DEF When
  <2>2. <<x>> \in Seq(S) BY <1>1
  <2>3. ToSet(<<x>>) = {x} BY DEF ToSet
  <2> QED BY <1>1, <2>1, <2>2, <2>3
<1>2. CASE ~holds
  <2>1. When(holds, x) = <<>> BY <1>2 DEF When
  <2>2. <<>> \in Seq(S) OBVIOUS
  <2>3. ToSet(<<>>) = {} BY DEF ToSet
  <2> QED BY <1>2, <2>1, <2>2, <2>3
<1> QED BY <1>1, <1>2

LEMMA ProblemType ==
    ASSUME NEW checks, NEW check \in checks, NEW about \in Seq(Nat), NEW status \in {"FAIL"} \cup Warnings,
           NEW diagnosed \in BOOLEAN
    PROVE  Problem(check, about, status, diagnosed) \in ProblemsOf(checks)
BY DEF Problem, ProblemsOf, Result

LEMMA FailType ==
    ASSUME NEW checks, NEW check \in checks, NEW about \in Seq(Nat)
    PROVE  Fail(check, about) \in ProblemsOf(checks)
BY DEF Fail, Problem, ProblemsOf, Result

\* FlattenSeq of one sequence for each element of another.
LEMMA FlattenEach ==
    ASSUME NEW S, NEW E, NEW s \in Seq(E), NEW f, DOMAIN f = DOMAIN s, f = [i \in DOMAIN s |-> f[i]],
           \A i \in DOMAIN s : f[i] \in Seq(S)
    PROVE  /\ FlattenSeq(f) \in Seq(S)
           /\ \A x : x \in ToSet(FlattenSeq(f)) <=> \E i \in DOMAIN s : x \in ToSet(f[i])
<1>1. DOMAIN s = 1..Len(s) /\ Len(s) \in Nat OBVIOUS
<1>2. f \in Seq(Seq(S)) BY <1>1
<1> QED BY <1>2, FlattenMembers

\* A sequence says nothing if it has no elements.
LEMMA EmptyIs ==
    ASSUME NEW S, NEW s \in Seq(S)
    PROVE  Len(s) \in Nat /\ (ToSet(s) = {} <=> Len(s) = 0)
<1>1. DOMAIN s = 1..Len(s) /\ Len(s) \in Nat OBVIOUS
<1>2. CASE Len(s) = 0
  <2>1. DOMAIN s = {} BY <1>1, <1>2
  <2>2. ToSet(s) = {} BY <2>1, Zenon DEF ToSet
  <2> QED BY <1>1, <1>2, <2>2
<1>3. CASE Len(s) # 0
  <2>1. 1 \in DOMAIN s BY <1>1, <1>3
  <2>2. s[1] \in ToSet(s) BY <2>1, Zenon DEF ToSet
  <2> QED BY <1>1, <1>3, <2>2
<1> QED BY <1>2, <1>3

CertificateRefused(g, c) ==
    /\ c.kind
    /\ \/ /\ c.namespace # world.gateways[g].namespace
          /\ ~Granted(Grants, "Gateway", world.gateways[g].namespace, "Secret", c.secret, c.namespace)
       \/ <<c.namespace, c.secret>> \notin world.secrets

ListenerChecks == {"listener-programmed", "listener-refs", "certificate"}

LEMMA ListenerProblemsAre ==
    ASSUME world \in World, NEW g \in Parents, NEW l \in DOMAIN world.gateways[g].listeners
    PROVE  /\ ListenerProblems(g, l) \in Seq(ProblemsOf(ListenerChecks))
           /\ ToSet(ListenerProblems(g, l)) = {} =>
                 /\ "False" \notin {world.gateways[g].listeners[l].programmed, world.gateways[g].listeners[l].resolved}
                 /\ \A i \in DOMAIN world.gateways[g].listeners[l].certificates :
                       ~CertificateRefused(g, world.gateways[g].listeners[l].certificates[i])
<1> DEFINE listener == world.gateways[g].listeners[l]
           certificates == listener.certificates
           P == ProblemsOf(ListenerChecks)
           bad(i) == CertificateRefused(g, certificates[i])
           f == [i \in DOMAIN certificates |-> When(bad(i), Fail("certificate", <<g, l, i>>))]
           s1 == When(listener.programmed = "False", Fail("listener-programmed", <<g, l>>))
           s2 == When(listener.resolved = "False", Fail("listener-refs", <<g, l>>))
           s3 == FlattenSeq(f)
<1>1. g \in Nat /\ l \in Nat /\ certificates \in Seq(Certificate) BY ScopeParts, GatewayParts
<1>2. <<g, l>> \in Seq(Nat) /\ \A i \in Nat : <<g, l, i>> \in Seq(Nat) BY <1>1
<1>3. ListenerProblems(g, l) = (s1 \o s2) \o s3
  BY DEF ListenerProblems, CertificateRefused
<1>4. s1 \in Seq(P) /\ (ToSet(s1) = {} => listener.programmed # "False")
  <2>1. Fail("listener-programmed", <<g, l>>) \in P BY <1>2, FailType DEF ListenerChecks
  <2> HIDE DEF P, listener
  <2> QED BY <2>1, WhenIs
<1>5. s2 \in Seq(P) /\ (ToSet(s2) = {} => listener.resolved # "False")
  <2>1. Fail("listener-refs", <<g, l>>) \in P BY <1>2, FailType DEF ListenerChecks
  <2> HIDE DEF P, listener
  <2> QED BY <2>1, WhenIs
<1>6. s3 \in Seq(P) /\ (ToSet(s3) = {} => \A i \in DOMAIN certificates : ~bad(i))
  <2>1. ASSUME NEW i \in DOMAIN certificates
        PROVE  f[i] \in Seq(P) /\ (bad(i) => ToSet(f[i]) # {})
    <3>1. i \in Nat
      <4> HIDE DEF certificates
      <4> QED BY <1>1, ElementType
    <3>2. Fail("certificate", <<g, l, i>>) \in P BY <1>2, <3>1, FailType DEF ListenerChecks
    <3>3. bad(i) \in BOOLEAN BY DEF CertificateRefused
    <3>4. f[i] = When(bad(i), Fail("certificate", <<g, l, i>>)) OBVIOUS
    <3> DEFINE x == Fail("certificate", <<g, l, i>>)
               b == bad(i)
    <3>5. x \in P BY <3>2
    <3>6. b \in BOOLEAN BY <3>3
    <3>7. f[i] = When(b, x) BY <3>4
    <3>8. bad(i) <=> b OBVIOUS
    <3> HIDE DEF P, f, bad, x, b
    <3>9. When(b, x) \in Seq(P) /\ ToSet(When(b, x)) = IF b THEN {x} ELSE {} BY <3>5, <3>6, WhenIs
    <3> QED BY <3>7, <3>8, <3>9
  <2>2. DOMAIN f = DOMAIN certificates /\ f = [i \in DOMAIN certificates |-> f[i]] OBVIOUS
  <2> HIDE DEF P, f, bad, certificates
  <2>3. /\ FlattenSeq(f) \in Seq(P)
        /\ \A x : x \in ToSet(FlattenSeq(f)) <=> \E i \in DOMAIN certificates : x \in ToSet(f[i])
    BY <1>1, <2>1, <2>2, FlattenEach
  <2> QED BY <2>1, <2>3
<1> HIDE DEF P, s1, s2, s3, bad
<1>7. (s1 \o s2) \o s3 \in Seq(P) /\ ToSet((s1 \o s2) \o s3) = ToSet(s1) \cup ToSet(s2) \cup ToSet(s3)
  <2> DEFINE u == s1 \o s2
  <2>1. u \in Seq(P) /\ ToSet(u) = ToSet(s1) \cup ToSet(s2) BY <1>4, <1>5, ConcatMembers
  <2> HIDE DEF u
  <2>2. u \o s3 \in Seq(P) /\ ToSet(u \o s3) = ToSet(u) \cup ToSet(s3) BY <1>6, <2>1, ConcatMembers
  <2> QED BY <2>1, <2>2 DEF u
<1> QED BY <1>3, <1>4, <1>5, <1>6, <1>7 DEF P, bad


-------------------------------------------------------------------------------
(* What is added to a report.                                              *)

Statuses == {"PASS", "FAIL"} \cup Warnings

Alarmed(results) == \E r \in results : r.status # "PASS"

\* Results and diagnoses of some checks are added to a report; a first problem
\* is not dropped.
Adds(older, newer, checks) ==
    /\ older.results \subseteq newer.results
    /\ \A r \in newer.results : r \in older.results \/ (r.check \in checks /\ r.status \in Statuses)
    /\ older.diagnoses \subseteq newer.diagnoses
    /\ \A d \in newer.diagnoses : d \in older.diagnoses \/ d.check \in checks
    /\ newer.problems \in Nat /\ newer.problems >= older.problems
    /\ newer.problems > 0 => older.problems > 0 \/ Alarmed(newer.results)

LEMMA AddsNothing ==
    ASSUME NEW r, r.problems \in Nat, NEW checks
    PROVE  Adds(r, r, checks)
BY DEF Adds

LEMMA AddsFurther ==
    ASSUME NEW r, NEW s, NEW t, NEW checks, r.problems \in Nat, Adds(r, s, checks), Adds(s, t, checks)
    PROVE  Adds(r, t, checks)
<1>1. t.problems > 0 => r.problems > 0 \/ Alarmed(t.results) BY DEF Adds, Alarmed
<1> QED BY <1>1 DEF Adds

LEMMA AddIs ==
    ASSUME NEW sofar, sofar.problems \in Nat, NEW checks,
           NEW results, \A r \in results : r.check \in checks /\ r.status \in Statuses,
           NEW diagnoses, \A d \in diagnoses : d.check \in checks
    PROVE  /\ Adds(sofar, Add(sofar, results, diagnoses), checks)
           /\ Add(sofar, results, diagnoses).problems = sofar.problems
BY DEF Adds, Add

LEMMA LimitIs ==
    ASSUME opts \in Option
    PROVE  Limit \in Nat /\ Limit >= 1
<1>1. opts.limit \in Int BY DEF Option
<1> QED BY <1>1 DEF Limit

\* A problem is kept as long as there is room.
LEMMA AddProblemsAre ==
    ASSUME opts \in Option, NEW sofar, sofar.problems \in Nat, NEW checks,
           NEW problems \in Seq(ProblemsOf(checks))
    PROVE  /\ Adds(sofar, addProblems(sofar, problems), checks)
           /\ addProblems(sofar, problems).problems = sofar.problems + Len(problems)
           /\ Len(problems) > 0 /\ sofar.problems = 0 => Alarmed(addProblems(sofar, problems).results)
<1> DEFINE room == IF sofar.problems >= Limit THEN 0 ELSE Limit - sofar.problems
           kept == {problems[i] : i \in {j \in DOMAIN problems : j <= room}}
           results == {problem.result : problem \in kept}
           told == {p \in kept : p.diagnosed}
           diagnoses == {Diagnosis(problem.result.check, problem.result.about) : problem \in told}
           after == addProblems(sofar, problems)
<1>0. Len(problems) \in Nat /\ DOMAIN problems = 1..Len(problems) OBVIOUS
<1>1. after = [results |-> sofar.results \cup results, diagnoses |-> sofar.diagnoses \cup diagnoses,
               problems |-> sofar.problems + Len(problems)]
  BY DEF addProblems
<1>2. \A p \in kept : p \in ProblemsOf(checks)
  <2>1. \A i \in DOMAIN problems : problems[i] \in ProblemsOf(checks)
    BY ElementType
  <2> QED BY <2>1
<1>3. \A r \in results : r.check \in checks /\ r.status \in Statuses /\ r.status # "PASS"
  BY <1>2 DEF ProblemsOf, Statuses, Warnings
<1>4. \A d \in diagnoses : d.check \in checks
  <2>1. \A p \in told : p.result.check \in checks BY <1>2 DEF ProblemsOf
  <2> HIDE DEF told
  <2> QED BY <2>1 DEF Diagnosis
<1>5. Len(problems) > 0 /\ sofar.problems = 0 => Alarmed(after.results)
  <2> SUFFICES ASSUME Len(problems) > 0, sofar.problems = 0 PROVE Alarmed(after.results) OBVIOUS
  <2>1. 1 \in DOMAIN problems /\ 1 <= room BY <1>0, LimitIs
  <2>2. problems[1] \in kept BY <2>1
  <2>3. problems[1].result \in results BY <2>2
  <2>4. problems[1].result \in after.results BY <1>1, <2>3
  <2>5. problems[1].result.status # "PASS" BY <1>3, <2>3
  <2> HIDE DEF after, results
  <2> QED BY <2>4, <2>5 DEF Alarmed
<1>6. Adds(sofar, after, checks)
  <2> HIDE DEF results, diagnoses, kept, after
  <2>1. after.problems > 0 => sofar.problems > 0 \/ Len(problems) > 0 BY <1>0, <1>1
  <2> QED BY <1>0, <1>1, <1>3, <1>4, <1>5, <2>1 DEF Adds
<1> QED BY <1>1, <1>5, <1>6

\* Each diagnosis that is new is that of a problem.
LEMMA AddedDiagnoses ==
    ASSUME NEW sofar, NEW problems, NEW d \in addProblems(sofar, problems).diagnoses, d \notin sofar.diagnoses
    PROVE  \E p \in ToSet(problems) : d = Diagnosis(p.result.check, p.result.about)
<1> DEFINE room == IF sofar.problems >= Limit THEN 0 ELSE Limit - sofar.problems
           kept == {problems[i] : i \in {j \in DOMAIN problems : j <= room}}
           told == {p \in kept : p.diagnosed}
<1>1. addProblems(sofar, problems).diagnoses
         = sofar.diagnoses \cup {Diagnosis(p.result.check, p.result.about) : p \in told}
  BY DEF addProblems
<1>2. told \subseteq ToSet(problems) BY DEF ToSet
<1> HIDE DEF told
<1> QED BY <1>1, <1>2

\* One problem, where nothing is dropped.
LEMMA AddProblemIs ==
    ASSUME opts \in Option, NEW sofar, sofar.problems \in Nat, NEW checks, NEW problem \in ProblemsOf(checks)
    PROVE  /\ Adds(sofar, addProblem(sofar, problem), checks)
           /\ addProblem(sofar, problem).problems = sofar.problems + 1
           /\ sofar.problems = 0 => Alarmed(addProblem(sofar, problem).results)
           /\ sofar.problems + 1 <= Limit =>
                 /\ addProblem(sofar, problem).results = sofar.results \cup {problem.result}
                 /\ addProblem(sofar, problem).diagnoses
                       = sofar.diagnoses \cup (IF problem.diagnosed
                                               THEN {Diagnosis(problem.result.check, problem.result.about)} ELSE {})
<1> DEFINE problems == <<problem>>
           room == IF sofar.problems >= Limit THEN 0 ELSE Limit - sofar.problems
           kept == {problems[i] : i \in {j \in DOMAIN problems : j <= room}}
<1>1. problems \in Seq(ProblemsOf(checks)) /\ Len(problems) = 1 /\ DOMAIN problems = {1} /\ problems[1] = problem
  OBVIOUS
<1>2. addProblem(sofar, problem) = addProblems(sofar, problems) BY DEF addProblem
<1>3. ASSUME sofar.problems + 1 <= Limit
      PROVE  /\ addProblems(sofar, problems).results = sofar.results \cup {problem.result}
             /\ addProblems(sofar, problems).diagnoses
                   = sofar.diagnoses \cup (IF problem.diagnosed
                                           THEN {Diagnosis(problem.result.check, problem.result.about)} ELSE {})
  <2>1. 1 <= room BY <1>3, LimitIs
  <2>2. kept = {problem}
    <3>1. {j \in DOMAIN problems : j <= room} = {1} BY <1>1, <2>1
    <3> HIDE DEF room, problems
    <3> QED BY <1>1, <3>1
  <2>3. /\ addProblems(sofar, problems).results = sofar.results \cup {p.result : p \in kept}
        /\ addProblems(sofar, problems).diagnoses
              = sofar.diagnoses \cup {Diagnosis(p.result.check, p.result.about) : p \in {q \in kept : q.diagnosed}}
    BY DEF addProblems
  <2>4. {p.result : p \in kept} = {problem.result} BY <2>2
  <2>5. {Diagnosis(p.result.check, p.result.about) : p \in {q \in kept : q.diagnosed}}
           = IF problem.diagnosed THEN {Diagnosis(problem.result.check, problem.result.about)} ELSE {}
    BY <2>2
  <2> HIDE DEF kept, problems
  <2> QED BY <2>3, <2>4, <2>5
<1> HIDE DEF problems
<1>4. /\ Adds(sofar, addProblems(sofar, problems), checks)
      /\ addProblems(sofar, problems).problems = sofar.problems + Len(problems)
      /\ Len(problems) > 0 /\ sofar.problems = 0 => Alarmed(addProblems(sofar, problems).results)
  BY <1>1, AddProblemsAre
<1>5. Len(problems) = 1 BY <1>1
<1> QED BY <1>2, <1>3, <1>4, <1>5


-------------------------------------------------------------------------------
(* The request, the rules that win and the paths to their backends.        *)

Legal == world \in World /\ opts \in Option /\ DOMAIN world.implementation = DOMAIN world.gateways

Early == {"options", "cluster", "lists", "listeners", "select"}

Chosen ==
    /\ selected \in SUBSET RuleMatchesFound
    /\ paths \in Seq(Candidates(selected)) /\ ToSet(paths) = Candidates(selected)

PathInv ==
    /\ \E family \in Families : world \in family.worlds /\ opts \in family.opts /\ flags \in family.flags
    /\ pc \in Steps
    /\ intent \in Intent \cup {None}
    /\ pc \notin {"options", "exit", "done"} => intent \in Intent
    /\ pc \in Early => selected = {} /\ paths = <<>>
    /\ Chosen
    /\ at \in Nat

LEMMA LegalCases == PathInv => Legal
BY TrafficAssumption DEF PathInv, Legal

LEMMA PortsAre == 80 \in 0..MaxPort /\ 443 \in 0..MaxPort /\ 0 \in 0..MaxPort
<1>1. MaxPort \in Nat /\ 80 <= MaxPort /\ 443 <= MaxPort BY DEF MaxPort
<1> QED BY <1>1

\* The request that a command line describes.
LEMMA IntentType ==
    ASSUME NEW o \in Option, o.host # None
    PROVE  IntentOf(o) \in Intent
<1> DEFINE protocol == IF o.protocol = "auto" THEN InferProtocol(o) ELSE o.protocol
           scheme == IF o.scheme = "none" /\ protocol \in {"http", "https"} THEN protocol ELSE o.scheme
           port == IF o.port # 0 THEN o.port ELSE DefaultPort(o.scheme, protocol)
           path == IF o.path = None THEN Root ELSE o.path
           method == IF o.method = None /\ FamilyOf(protocol) = "HTTPRoute" THEN GET ELSE o.method
<1>1. InferProtocol(o) \in {"http", "https", "grpc", "tls"}
  <2>1. o.scheme \in {"http", "https", "other", "none"} BY DEF Option
  <2>2. CASE o.service # None \/ o.call # None BY <2>2 DEF InferProtocol
  <2>3. CASE o.service = None /\ o.call = None /\ o.scheme \in {"http", "https"} BY <2>3 DEF InferProtocol
  <2>4. CASE o.service = None /\ o.call = None /\ o.scheme \notin {"http", "https"} BY <2>4 DEF InferProtocol
  <2> QED BY <2>2, <2>3, <2>4
<1>2. protocol \in {"http", "https", "grpc", "tls"}
  <2>1. o.protocol \in {"auto", "http", "https", "grpc", "tls"} BY DEF Option
  <2> QED BY <1>1, <2>1
<1> HIDE DEF protocol
<1>3. FamilyOf(protocol) \in Family BY DEF FamilyOf, Family
<1>4. scheme \in {"http", "https", "other", "none"} BY <1>2 DEF Option
<1>5. port \in 0..MaxPort
  <2>1. o.port \in 0..MaxPort BY DEF Option
  <2>2. DefaultPort(o.scheme, protocol) \in {0, 80, 443} BY DEF DefaultPort
  <2> QED BY <2>1, <2>2, PortsAre
<1>6. path \in PathText
  <2>1. o.path \in PathText \cup {None} BY DEF Option
  <2>2. Root \in PathText
    <3>1. <<>> \in Seq(Segments) OBVIOUS
    <3> QED BY <3>1 DEF Root, PathText
  <2> QED BY <2>1, <2>2
<1>7. method \in Methods \cup {None}
  <2>1. o.method \in Methods \cup {None} BY DEF Option
  <2> QED BY <2>1, TrafficAssumption
<1>8. /\ o.host \in Seq(Labels) /\ o.headers \in SUBSET Headers /\ o.params \in SUBSET Params
      /\ o.service \in Name \cup {None} /\ o.call \in Name \cup {None}
  BY DEF Option
<1>9. IntentOf(o) = [protocol |-> protocol, family |-> FamilyOf(protocol), host |-> o.host, scheme |-> scheme,
                     port |-> port, path |-> path, method |-> method, headers |-> o.headers,
                     params |-> o.params, service |-> o.service, call |-> o.call]
  BY DEF IntentOf, protocol
<1> HIDE DEF scheme, port, path, method
<1> QED BY <1>2, <1>3, <1>4, <1>5, <1>6, <1>7, <1>8, <1>9 DEF Intent

LEMMA NoneChosen ==
    ASSUME selected = {}, paths = <<>>
    PROVE  Chosen
<1>1. Candidates(selected) = {} BY DEF Candidates
<1>2. ToSet(<<>>) = {} BY DEF ToSet
<1> QED BY <1>1, <1>2 DEF Chosen

LEMMA InitPath == Init => PathInv
<1> SUFFICES ASSUME Init PROVE PathInv OBVIOUS
<1>1. Chosen BY NoneChosen DEF Init
<1>2. pc = "options" /\ intent = None /\ selected = {} /\ paths = <<>> /\ at = 0 BY DEF Init
<1> QED BY <1>1, <1>2 DEF PathInv, Init, Steps

LEMMA SameRequest ==
    ASSUME UNCHANGED input, UNCHANGED intent
    PROVE  /\ RuleMatchesFound' = RuleMatchesFound /\ Parents' = Parents /\ RouteScope' = RouteScope
           /\ MatchingListeners' = MatchingListeners /\ Secured' = Secured
           /\ \A won : Candidates(won)' = Candidates(won)
BY DEF input, RuleMatchesFound, Parents, Scope, Outcome, Listed, RouteScope, MatchingListeners, Secured, Candidates

\* Most steps leave the choice alone.
Choice == <<input, intent, selected, paths>>

LEMMA SameChoice ==
    ASSUME Chosen, UNCHANGED Choice
    PROVE  Chosen'
<1>1. RuleMatchesFound' = RuleMatchesFound /\ \A won : Candidates(won)' = Candidates(won)
  BY SameRequest DEF Choice
<1>2. Candidates(selected)' = Candidates(selected) BY DEF Candidates, Choice, input
<1> QED BY <1>1, <1>2 DEF Chosen, Choice

LEMMA ChoiceStays ==
    ASSUME PathInv, UNCHANGED Choice, pc' \in Steps, at' \in Nat,
           pc' \in Early => pc \in Early,
           pc' \notin {"options", "exit", "done"} => pc \notin {"options", "exit", "done"}
    PROVE  PathInv'
<1>1. Chosen' BY SameChoice DEF PathInv
<1> QED BY <1>1 DEF PathInv, Choice, input

LEMMA OptionsPath ==
    ASSUME PathInv, readOptions
    PROVE  PathInv'
<1>1. CASE opts.malformed \/ opts.host = None
  <2>1. UNCHANGED Choice /\ pc' = "exit" /\ at' = at BY <1>1 DEF readOptions, Choice
  <2> QED BY <2>1, ChoiceStays DEF PathInv, Steps, Early
<1>2. CASE ~(opts.malformed \/ opts.host = None)
  <2>1. pc' = "cluster" /\ intent' = IntentOf(opts) /\ UNCHANGED <<input, selected, paths, at>>
    BY <1>2 DEF readOptions
  <2>2. pc = "options" BY DEF readOptions
  <2>3. selected' = {} /\ paths' = <<>> BY <2>1, <2>2 DEF PathInv, Early
  <2>4. Chosen'
    <3>1. Candidates(selected)' = {} BY <2>3 DEF Candidates
    <3>2. ToSet(<<>>) = {} BY DEF ToSet
    <3>3. ToSet(paths)' = {} BY <2>3, <3>2 DEF ToSet
    <3>4. selected' \in SUBSET RuleMatchesFound' BY <2>3
    <3>5. paths' \in Seq(Candidates(selected)') BY <2>3
    <3> QED BY <3>1, <3>3, <3>4, <3>5 DEF Chosen
  <2>5. intent' \in Intent BY <1>2, <2>1, IntentType, LegalCases DEF Legal
  <2> QED BY <2>1, <2>3, <2>4, <2>5 DEF PathInv, Steps, input
<1> QED BY <1>1, <1>2

LEMMA SelectPath ==
    ASSUME PathInv, selectRules
    PROVE  PathInv'
<1>1. UNCHANGED <<input, intent, at>> /\ pc = "select" /\ pc' \in {"parents", "finish"} BY DEF selectRules
<1>2. RuleMatchesFound' = RuleMatchesFound /\ \A won : Candidates(won)' = Candidates(won)
  BY <1>1, SameRequest
<1>3. selected' = SelectPrecedenceRules(world.routes, intent, RuleMatchesFound) BY DEF selectRules
<1>4. paths' = CandidatePaths(world.routes, selected') BY DEF selectRules
<1>5. selected' \in SUBSET RuleMatchesFound BY <1>3 DEF SelectPrecedenceRules
<1>6. paths' \in Seq(Candidates(selected')) /\ ToSet(paths') = Candidates(selected')
  <2>1. \A won \in SUBSET RuleMatchesFound :
           /\ CandidatePaths(world.routes, won) \in Seq(Candidates(won))
           /\ ToSet(CandidatePaths(world.routes, won)) = Candidates(won)
    BY LegalCases, PathsAre DEF Legal
  <2> QED BY <1>4, <1>5, <2>1
<1>7. Candidates(selected)' = Candidates(selected') BY <1>1 DEF Candidates, input
<1>8. Chosen' BY <1>2, <1>5, <1>6, <1>7 DEF Chosen
<1> QED BY <1>1, <1>8 DEF PathInv, Steps, Early, input

LEMMA PathStep == PathInv /\ [Next]_vars => PathInv'
<1> SUFFICES ASSUME PathInv, [Next]_vars PROVE PathInv' OBVIOUS
<1>1. CASE readOptions BY <1>1, OptionsPath
<1>2. CASE selectRules BY <1>2, SelectPath
<1>3. CASE reachCluster \/ readLists \/ checkListeners
  <2>1. UNCHANGED Choice /\ at' = at /\ pc \in {"cluster", "lists", "listeners"}
    BY <1>3 DEF reachCluster, readLists, checkListeners, Choice
  <2>2. pc' \in Steps /\ pc' # "options"
    BY <1>3 DEF reachCluster, readLists, checkListeners, Steps
  <2> QED BY <2>1, <2>2, ChoiceStays DEF PathInv, Early
<1>4. CASE checkParents \/ checkExpected \/ checkMirror \/ mirrorsDone
  <2>1. UNCHANGED Choice /\ at' \in Nat /\ pc \in {"parents", "expected", "mirrors"}
    <3>1. CASE checkParents \/ checkExpected BY <3>1 DEF checkParents, checkExpected, Choice, PathInv
    <3>2. CASE checkMirror BY <3>2 DEF checkMirror, Choice, PathInv
    <3>3. CASE mirrorsDone BY <3>3 DEF mirrorsDone, Choice, PathInv
    <3> QED BY <1>4, <3>1, <3>2, <3>3
  <2>2. pc' \in {"expected", "mirrors", "analyze"}
    BY <1>4 DEF checkParents, checkExpected, checkMirror, mirrorsDone
  <2> QED BY <2>1, <2>2, ChoiceStays DEF Early, Steps
<1>5. CASE analyze \/ analyzed \/ scan \/ scanned
  <2>1. UNCHANGED Choice /\ at' \in Nat /\ pc \in {"analyze", "scan"}
    BY <1>5 DEF analyze, analyzed, scan, scanned, Choice, PathInv
  <2>2. pc' \in {"analyze", "scan", "dataplane", "conclude"}
    BY <1>5 DEF analyze, analyzed, scan, scanned
  <2> QED BY <2>1, <2>2, ChoiceStays DEF Early, Steps
<1>6. CASE dataplane \/ dataplaneDone \/ probe \/ cannotProbe \/ probesDone
  <2>1. UNCHANGED Choice /\ at' \in Nat /\ pc \in {"dataplane", "probe"}
    <3>1. CASE dataplane
      <4>1. pc = "dataplane" /\ at' = at + 1 /\ UNCHANGED <<input, intent, selected, paths>>
        BY <3>1, Zenon DEF dataplane
      <4> QED BY <4>1 DEF Choice, PathInv
    <3>2. CASE probe BY <3>2 DEF probe, Choice, PathInv
    <3>3. CASE dataplaneDone \/ cannotProbe \/ probesDone
      BY <3>3 DEF dataplaneDone, cannotProbe, probesDone, Choice, PathInv
    <3> QED BY <1>6, <3>1, <3>2, <3>3
  <2>2. pc' \in {"dataplane", "probe", "conclude"}
    BY <1>6 DEF dataplane, dataplaneDone, probe, cannotProbe, probesDone
  <2> QED BY <2>1, <2>2, ChoiceStays DEF Early, Steps
<1>7. CASE conclude \/ finishScan \/ dedupe \/ generic \/ finish
  <2>1. UNCHANGED Choice /\ at' = at /\ pc \in {"conclude", "finish", "dedupe", "generic", "exit"}
    BY <1>7 DEF conclude, finishScan, dedupe, generic, finish, Choice
  <2>2. pc' \in {"finish", "dedupe", "generic", "exit", "done"} /\ (pc = "exit" => pc' = "done")
    BY <1>7 DEF conclude, finishScan, dedupe, generic, finish
  <2> QED BY <2>1, <2>2, ChoiceStays DEF PathInv, Early, Steps
<1>8. CASE UNCHANGED vars
  <2>1. UNCHANGED Choice /\ pc' = pc /\ at' = at BY <1>8 DEF vars, Choice
  <2> QED BY <2>1, ChoiceStays DEF PathInv
<1> QED BY <1>1, <1>2, <1>3, <1>4, <1>5, <1>6, <1>7, <1>8 DEF Next


-------------------------------------------------------------------------------
(* What is read of Services stays.                                         *)

CacheInv ==
    /\ \A key \in DOMAIN services : services[key] \in ServiceAnswers(key)
    /\ \A key \in DOMAIN ready : ready[key] \in ReadyAnswers(key)

Keeps(older, newer) ==
    DOMAIN older \subseteq DOMAIN newer /\ \A key \in DOMAIN older : newer[key] = older[key]

Counted == {"error", "none", "ready"}

LEMMA AnswersAre ==
    ASSUME world \in World, NEW key
    PROVE  ServiceAnswers(key) \subseteq ServiceView /\ ReadyAnswers(key) \subseteq Counted
<1>1. world.services \subseteq Key \X ServiceView /\ world.ready \subseteq Key \X Counted BY DEF World, Counted
<1>2. Missing \in ServiceView BY DEF Missing, ServiceView
<1>3. \A q \in world.services : q[2] \in ServiceView BY <1>1
<1>4. \A q \in world.ready : q[2] \in Counted BY <1>1
<1> QED BY <1>2, <1>3, <1>4 DEF ServiceAnswers, ReadyAnswers, Answers, Counted

LEMMA SameAnswers ==
    ASSUME world' = world, NEW key
    PROVE  ServiceAnswers(key)' = ServiceAnswers(key) /\ ReadyAnswers(key)' = ReadyAnswers(key)
BY DEF ServiceAnswers, ReadyAnswers

LEMMA ExtendIs ==
    ASSUME NEW cache, NEW more
    PROVE  /\ DOMAIN Extend(cache, more) = DOMAIN cache \cup DOMAIN more
           /\ Keeps(cache, Extend(cache, more))
           /\ \A key \in DOMAIN more : Extend(cache, more)[key] = Recall(cache, key, more[key])
BY DEF Extend, Keeps, Recall

LEMMA RememberIs ==
    ASSUME NEW cache, NEW key, NEW answer
    PROVE  /\ DOMAIN Remember(cache, key, answer) = DOMAIN cache \cup {key}
           /\ Keeps(cache, Remember(cache, key, answer))
           /\ Remember(cache, key, answer)[key] = Recall(cache, key, answer)
<1> DEFINE more == [k \in {key} |-> answer]
<1>1. DOMAIN more = {key} /\ more[key] = answer OBVIOUS
<1>2. Remember(cache, key, answer) = Extend(cache, more) BY DEF Remember
<1> HIDE DEF more
<1> QED BY <1>1, <1>2, ExtendIs

LEMMA KeepsItself == ASSUME NEW cache PROVE Keeps(cache, cache)
BY DEF Keeps

\* What is wrong with a backend whose Service was seen with so many endpoints.
Verdict(backend, namespace, seen, count) ==
    LET reference == ReferenceProblem(backend, intent.family, namespace, Grants)
    IN  IF reference # "none" THEN reference
        ELSE IF ServiceProblem(backend, seen) # "none" THEN ServiceProblem(backend, seen)
        ELSE IF seen.external THEN "external"
        ELSE IF count = "none" THEN "no-endpoints"
        ELSE IF count = "error" THEN "unread" ELSE "none"

KeyOf(backend) == <<backend.namespace, backend.name>>

\* Whether the Service of a backend is read, and then its EndpointSlices.
Asks(backend, namespace) == ReferenceProblem(backend, intent.family, namespace, Grants) = "none"
Counting(backend, namespace, seen) ==
    Asks(backend, namespace) /\ ServiceProblem(backend, seen) = "none" /\ ~seen.external

LEMMA ReadingIs ==
    ASSUME NEW backend, NEW namespace, NEW view, NEW count,
           Recall(ready, KeyOf(backend), count) \in Counted
    PROVE  LET read == AnalyzeBackendRef(backend, namespace, view, count)
               key == KeyOf(backend)
               seen == Recall(services, key, view)
           IN  /\ read.problem = Verdict(backend, namespace, seen, Recall(ready, key, count))
               /\ read.services = IF Asks(backend, namespace) THEN Remember(services, key, view) ELSE services
               /\ read.ready = IF Counting(backend, namespace, seen) THEN Remember(ready, key, count) ELSE ready
BY DEF AnalyzeBackendRef, Verdict, KeyOf, Asks, Counting, Counted

LEMMA NextReadingIs ==
    ASSUME NEW backend, NEW namespace, NEW view, NEW count, UNCHANGED input, UNCHANGED intent,
           Recall(ready', KeyOf(backend), count) \in Counted
    PROVE  AnalyzeBackendRef(backend, namespace, view, count)'.problem
              = Verdict(backend, namespace, Recall(services', KeyOf(backend), view),
                        Recall(ready', KeyOf(backend), count))
<1>1. Grants' = Grants BY DEF Grants, Outcome, Listed, input
<1> QED BY <1>1 DEF AnalyzeBackendRef, Verdict, KeyOf, Counted

\* Recalling an answer gives an answer.
LEMMA RecallIs ==
    ASSUME world \in World, CacheInv, NEW key
    PROVE  /\ \A view \in ServiceAnswers(key) : Recall(services, key, view) \in ServiceAnswers(key)
           /\ \A count \in ReadyAnswers(key) : Recall(ready, key, count) \in ReadyAnswers(key) \cap Counted
BY AnswersAre DEF CacheInv, Recall

LEMMA NextRecallIs ==
    ASSUME world \in World, world' = world, CacheInv', NEW key
    PROVE  /\ \A view \in ServiceAnswers(key) : Recall(services', key, view) \in ServiceAnswers(key)
           /\ \A count \in ReadyAnswers(key) : Recall(ready', key, count) \in ReadyAnswers(key) \cap Counted
<1>1. \A k \in DOMAIN services' : services'[k] \in ServiceAnswers(k) BY SameAnswers DEF CacheInv
<1>2. \A k \in DOMAIN ready' : ready'[k] \in ReadyAnswers(k) BY SameAnswers DEF CacheInv
<1> QED BY <1>1, <1>2, AnswersAre DEF Recall

\* A reading extends the caches with answers.
LEMMA ReadingKeeps ==
    ASSUME world \in World, world' = world, CacheInv, NEW backend, NEW namespace,
           NEW read \in Readings(backend, namespace), services' = read.services, ready' = read.ready
    PROVE  CacheInv' /\ Keeps(services, services') /\ Keeps(ready, ready')
<1> DEFINE key == KeyOf(backend)
<1>1. PICK view \in ServiceAnswers(key), count \in ReadyAnswers(key) :
         read = AnalyzeBackendRef(backend, namespace, view, count)
  BY DEF Readings, KeyOf
<1>2. /\ Recall(services, key, view) \in ServiceAnswers(key)
      /\ Recall(ready, key, count) \in ReadyAnswers(key) \cap Counted
  BY RecallIs
<1>3. /\ services' = services \/ services' = Remember(services, key, view)
      /\ ready' = ready \/ ready' = Remember(ready, key, count)
  BY <1>1, <1>2, ReadingIs
<1> HIDE DEF key
<1> DEFINE more == Remember(services, key, view)
           counted == Remember(ready, key, count)
<1>3a. /\ DOMAIN more = DOMAIN services \cup {key} /\ Keeps(services, more) /\ more[key] = Recall(services, key, view)
      /\ DOMAIN counted = DOMAIN ready \cup {key} /\ Keeps(ready, counted) /\ counted[key] = Recall(ready, key, count)
  BY RememberIs
<1>3b. (services' = services \/ services' = more) /\ (ready' = ready \/ ready' = counted) BY <1>3
<1> HIDE DEF more, counted
<1>4. Keeps(services, services') /\ Keeps(ready, ready') BY <1>3a, <1>3b, KeepsItself
<1>5. /\ \A k \in DOMAIN services' : services'[k] \in ServiceAnswers(k)
      /\ \A k \in DOMAIN ready' : ready'[k] \in ReadyAnswers(k)
  BY <1>2, <1>3a, <1>3b DEF CacheInv, Keeps
<1>6. CacheInv' BY <1>5, SameAnswers DEF CacheInv
<1> QED BY <1>4, <1>6

CachesKept == CacheInv' /\ Keeps(services, services') /\ Keeps(ready, ready')

LEMMA CachesUnchanged ==
    ASSUME CacheInv, world' = world, UNCHANGED caches
    PROVE  CachesKept
BY SameAnswers, KeepsItself DEF CacheInv, caches, CachesKept

LEMMA DataplaneKeeps ==
    ASSUME world \in World, CacheInv, dataplane
    PROVE  CachesKept
<1>1. PICK list \in world.implementation[PathGateways[at]] :
         LET keys == [i \in DOMAIN list.services |-> <<world.gateways[PathGateways[at]].namespace, list.services[i].name>>] IN
         \E read \in [ToSet(keys) -> {"error", "none", "ready"}] :
            (\A key \in ToSet(keys) : read[key] \in ReadyAnswers(key)) /\ ready' = Extend(ready, read)
  BY Zenon DEF dataplane
<1> DEFINE keys == [i \in DOMAIN list.services |-> <<world.gateways[PathGateways[at]].namespace, list.services[i].name>>]
<1>2. PICK read \in [ToSet(keys) -> {"error", "none", "ready"}] :
         (\A key \in ToSet(keys) : read[key] \in ReadyAnswers(key)) /\ ready' = Extend(ready, read)
  BY <1>1
<1>3. world' = world /\ services' = services BY Zenon DEF dataplane, input
<1> DEFINE names == ToSet(keys)
<1> HIDE DEF keys
<1>4. DOMAIN read = names /\ \A key \in names : read[key] \in ReadyAnswers(key) BY <1>2
<1> HIDE DEF names
<1>5. /\ DOMAIN ready' = DOMAIN ready \cup names
      /\ Keeps(ready, ready')
      /\ \A key \in names : ready'[key] = Recall(ready, key, read[key])
  BY <1>2, <1>4, ExtendIs
<1>6. \A k \in DOMAIN ready' : ready'[k] \in ReadyAnswers(k)
  BY <1>4, <1>5 DEF CacheInv, Keeps, Recall
<1>7. CacheInv' BY <1>3, <1>6, SameAnswers DEF CacheInv
<1> QED BY <1>3, <1>5, <1>7, KeepsItself DEF CachesKept

LEMMA CachesGrow ==
    ASSUME world \in World, CacheInv, [Next]_vars
    PROVE  CachesKept
<1>1. CASE dataplane BY <1>1, DataplaneKeeps
<1>2. CASE checkMirror
  <2>1. \E backend, namespace : \E read \in Readings(backend, namespace) :
           services' = read.services /\ ready' = read.ready
    BY <1>2 DEF checkMirror
  <2>2. world' = world BY <1>2 DEF checkMirror, input
  <2> QED BY <2>1, <2>2, ReadingKeeps DEF CachesKept
<1>3. CASE analyze
  <2>1. world' = world BY <1>3 DEF analyze, input
  <2>2. CASE Reported(at)
    <3>1. UNCHANGED caches BY <1>3, <2>2 DEF analyze, caches
    <3> QED BY <2>1, <3>1, CachesUnchanged
  <2>3. CASE ~Reported(at)
    <3>1. \E backend, namespace : \E read \in Readings(backend, namespace) :
             services' = read.services /\ ready' = read.ready
      BY <1>3, <2>3 DEF analyze
    <3> QED BY <2>1, <3>1, ReadingKeeps DEF CachesKept
  <2> QED BY <2>2, <2>3
<1>4. CASE scan
  <2>1. world' = world BY <1>4 DEF scan, input
  <2>2. CASE Reported(at)
    <3>1. UNCHANGED caches BY <1>4, <2>2 DEF scan, caches
    <3> QED BY <2>1, <3>1, CachesUnchanged
  <2>3. CASE ~Reported(at)
    <3>1. \E backend, namespace : \E read \in Readings(backend, namespace) :
             services' = read.services /\ ready' = read.ready
      BY <1>4, <2>3 DEF scan
    <3> QED BY <2>1, <3>1, ReadingKeeps DEF CachesKept
  <2> QED BY <2>2, <2>3
<1>5. CASE readOptions \/ reachCluster \/ readLists \/ checkListeners \/ selectRules \/ checkParents \/ checkExpected
  <2>1. UNCHANGED <<input, caches>>
    BY <1>5 DEF readOptions, reachCluster, readLists, checkListeners, selectRules, checkParents, checkExpected
  <2> QED BY <2>1, CachesUnchanged DEF input
<1>6. CASE mirrorsDone \/ analyzed \/ scanned \/ dataplaneDone \/ cannotProbe \/ probesDone
  <2>1. UNCHANGED <<input, caches>>
    BY <1>6 DEF mirrorsDone, analyzed, scanned, dataplaneDone, cannotProbe, probesDone
  <2> QED BY <2>1, CachesUnchanged DEF input
<1>7. CASE probe
  <2>1. UNCHANGED <<input, caches>> BY <1>7, Zenon DEF probe
  <2> QED BY <2>1, CachesUnchanged DEF input
<1>8. CASE conclude \/ finishScan \/ dedupe \/ generic \/ finish
  <2>1. UNCHANGED <<input, caches>> BY <1>8 DEF conclude, finishScan, dedupe, generic, finish
  <2> QED BY <2>1, CachesUnchanged DEF input
<1>9. CASE UNCHANGED vars BY <1>9, CachesUnchanged DEF vars, input
<1> QED BY <1>1, <1>2, <1>3, <1>4, <1>5, <1>6, <1>7, <1>8, <1>9 DEF Next


-------------------------------------------------------------------------------
(* Each backend is found the same the second time.                         *)

AllOf(i) == {ReferenceOf(paths[j]) : j \in {k \in DOMAIN paths : k < i}}

\* Those that were analyzed, and scanned.
AnalysisInv ==
    /\ DOMAIN analyses \subseteq References
    /\ \A ref \in DOMAIN analyses :
          \A read \in Readings(BackendAt(ref), NamespaceOf(ref)) : read.problem = analyses[ref]
    /\ pc \in Early \cup {"parents", "expected", "mirrors"} => analyses = <<>>
    /\ pc = "analyze" => at >= 1 /\ AllOf(at) \subseteq DOMAIN analyses
    /\ pc \in {"scan", "dataplane", "probe", "conclude"} => References \subseteq DOMAIN analyses

LEMMA ReadAgain ==
    ASSUME world \in World, UNCHANGED input, UNCHANGED intent, CacheInv, CachesKept,
           NEW backend, NEW namespace, NEW problem,
           \A read \in Readings(backend, namespace) : read.problem = problem,
           NEW again \in Readings(backend, namespace)'
    PROVE  again.problem = problem
<1> DEFINE key == KeyOf(backend)
<1>1. world' = world BY DEF input
<1>2. PICK view \in ServiceAnswers(key), count \in ReadyAnswers(key) :
         again = AnalyzeBackendRef(backend, namespace, view, count)'
  <2>1. ServiceAnswers(key)' = ServiceAnswers(key) /\ ReadyAnswers(key)' = ReadyAnswers(key) BY <1>1, SameAnswers
  <2> QED BY <2>1 DEF Readings, KeyOf
<1> DEFINE seen == Recall(services', key, view)
           counted == Recall(ready', key, count)
<1>3. seen \in ServiceAnswers(key) /\ counted \in ReadyAnswers(key) /\ counted \in Counted
  BY <1>1, NextRecallIs DEF CachesKept
<1>4. again.problem = Verdict(backend, namespace, seen, counted) BY <1>2, <1>3, NextReadingIs
<1>5. Recall(services, key, seen) = seen /\ Recall(ready, key, counted) = counted
  BY DEF Recall, CachesKept, Keeps
<1> HIDE DEF seen, counted
<1>6. AnalyzeBackendRef(backend, namespace, seen, counted) \in Readings(backend, namespace)
  BY <1>3 DEF Readings, KeyOf
<1>7. AnalyzeBackendRef(backend, namespace, seen, counted).problem = Verdict(backend, namespace, seen, counted)
  BY <1>3, <1>5, ReadingIs
<1> QED BY <1>4, <1>6, <1>7

\* What was just read is found the same again.
LEMMA ReadTwice ==
    ASSUME world \in World, UNCHANGED input, UNCHANGED intent, CacheInv, CachesKept,
           NEW backend, NEW namespace, NEW read \in Readings(backend, namespace),
           services' = read.services, ready' = read.ready,
           NEW again \in Readings(backend, namespace)'
    PROVE  again.problem = read.problem
<1> DEFINE key == KeyOf(backend)
<1>1. world' = world BY DEF input
<1>2. PICK view2 \in ServiceAnswers(key), count2 \in ReadyAnswers(key) :
         again = AnalyzeBackendRef(backend, namespace, view2, count2)'
  <2>1. ServiceAnswers(key)' = ServiceAnswers(key) /\ ReadyAnswers(key)' = ReadyAnswers(key) BY <1>1, SameAnswers
  <2> QED BY <2>1 DEF Readings, KeyOf
<1>3. PICK view \in ServiceAnswers(key), count \in ReadyAnswers(key) :
         read = AnalyzeBackendRef(backend, namespace, view, count)
  BY DEF Readings, KeyOf
<1> DEFINE seen == Recall(services, key, view)
           counted == Recall(ready, key, count)
           seen2 == Recall(services', key, view2)
           counted2 == Recall(ready', key, count2)
<1>4. counted2 \in Counted /\ counted \in Counted BY <1>1, NextRecallIs, RecallIs DEF CachesKept
<1>5. again.problem = Verdict(backend, namespace, seen2, counted2) BY <1>2, <1>4, NextReadingIs
<1>6. /\ read.problem = Verdict(backend, namespace, seen, counted)
      /\ read.services = IF Asks(backend, namespace) THEN Remember(services, key, view) ELSE services
      /\ read.ready = IF Counting(backend, namespace, seen) THEN Remember(ready, key, count) ELSE ready
  BY <1>3, <1>4, ReadingIs
<1>7. Asks(backend, namespace) => seen2 = seen
  <2>1. /\ DOMAIN Remember(services, key, view) = DOMAIN services \cup {key}
        /\ Remember(services, key, view)[key] = seen
    BY RememberIs
  <2> QED BY <1>6, <2>1 DEF Recall
<1>8. Counting(backend, namespace, seen) => counted2 = counted
  <2>1. /\ DOMAIN Remember(ready, key, count) = DOMAIN ready \cup {key}
        /\ Remember(ready, key, count)[key] = counted
    BY RememberIs
  <2> QED BY <1>6, <2>1 DEF Recall
<1> HIDE DEF seen, counted, seen2, counted2
<1>9. Verdict(backend, namespace, seen2, counted2) = Verdict(backend, namespace, seen, counted)
  BY <1>7, <1>8 DEF Verdict, Asks, Counting
<1> QED BY <1>5, <1>6, <1>9

LEMMA SameReferences ==
    ASSUME UNCHANGED Choice
    PROVE  /\ References' = References /\ \A i : AllOf(i)' = AllOf(i)
           /\ \A ref : BackendAt(ref)' = BackendAt(ref) /\ NamespaceOf(ref)' = NamespaceOf(ref)
BY DEF Choice, input, References, ReferenceOf, AllOf, BackendAt, NamespaceOf, ToSet


LEMMA SameReadings ==
    ASSUME UNCHANGED Choice, NEW ref, NEW b, NEW n, b = BackendAt(ref), n = NamespaceOf(ref)
    PROVE  Readings(BackendAt(ref), NamespaceOf(ref))' = Readings(b, n)'
<1>1. BackendAt(ref)' = b /\ NamespaceOf(ref)' = n BY SameReferences
<1> QED BY <1>1

\* The answers to the references that were analyzed stay the same.
LEMMA AnalysesStay ==
    ASSUME world \in World, UNCHANGED Choice, CacheInv, CachesKept, AnalysisInv,
           NEW ref \in DOMAIN analyses, NEW again \in Readings(BackendAt(ref), NamespaceOf(ref))'
    PROVE  again.problem = analyses[ref]
<1>1. PICK b, n : b = BackendAt(ref) /\ n = NamespaceOf(ref) OBVIOUS
<1>2. again \in Readings(b, n)' BY <1>1, SameReadings
<1>3. PICK p : p = analyses[ref] OBVIOUS
<1>4. \A read \in Readings(b, n) : read.problem = p BY <1>1, <1>3 DEF AnalysisInv
<1>5. UNCHANGED input /\ UNCHANGED intent BY DEF Choice
<1>6. again.problem = p BY <1>2, <1>4, <1>5, ReadAgain
<1> QED BY <1>3, <1>6

\* So does the answer to one that is analyzed now.
LEMMA AnalysisStays ==
    ASSUME world \in World, UNCHANGED Choice, CacheInv, CachesKept, NEW ref,
           NEW read \in Readings(BackendAt(ref), NamespaceOf(ref)),
           services' = read.services, ready' = read.ready,
           NEW again \in Readings(BackendAt(ref), NamespaceOf(ref))'
    PROVE  again.problem = read.problem
<1>1. PICK b, n : b = BackendAt(ref) /\ n = NamespaceOf(ref) OBVIOUS
<1>2. again \in Readings(b, n)' BY <1>1, SameReadings
<1>3. read \in Readings(b, n) BY <1>1
<1>4. UNCHANGED input /\ UNCHANGED intent BY DEF Choice
<1> QED BY <1>2, <1>3, <1>4, ReadTwice

LEMMA AnalysisAgain ==
    ASSUME PathInv, UNCHANGED Choice, CacheInv, CachesKept, AnalysisInv, UNCHANGED analyses,
           pc' \in Early \cup {"parents", "expected", "mirrors"} => analyses = <<>>,
           pc' = "analyze" => at' >= 1 /\ AllOf(at') \subseteq DOMAIN analyses,
           pc' \in {"scan", "dataplane", "probe", "conclude"} => References \subseteq DOMAIN analyses
    PROVE  AnalysisInv'
<1>1. \A ref \in DOMAIN analyses' :
         \A read \in Readings(BackendAt(ref), NamespaceOf(ref))' : read.problem = analyses'[ref]
  BY AnalysesStay, LegalCases DEF Legal
<1>2. References' = References BY SameReferences
<1>3. AllOf(at)' = AllOf(at') BY DEF AllOf, Choice, ReferenceOf
<1> QED BY <1>1, <1>2, <1>3 DEF AnalysisInv

LEMMA AllPaths ==
    ASSUME paths \in Seq(Candidates(selected)), NEW i \in Nat, i >= 1, i \notin DOMAIN paths
    PROVE  AllOf(i) = References
<1>1. DOMAIN paths = 1..Len(paths) /\ Len(paths) \in Nat OBVIOUS
<1>2. {k \in DOMAIN paths : k < i} = DOMAIN paths BY <1>1
<1> QED BY <1>2 DEF AllOf, References, ToSet

LEMMA NextPath ==
    ASSUME paths \in Seq(Candidates(selected)), NEW i \in DOMAIN paths
    PROVE  /\ i \in Nat /\ AllOf(i + 1) = AllOf(i) \cup {ReferenceOf(paths[i])}
           /\ ReferenceOf(paths[i]) \in References
           /\ Reported(i) => ReferenceOf(paths[i]) \in AllOf(i)
<1>1. DOMAIN paths = 1..Len(paths) /\ Len(paths) \in Nat OBVIOUS
<1>2. {k \in DOMAIN paths : k < i + 1} = {k \in DOMAIN paths : k < i} \cup {i} BY <1>1
<1>3. ReferenceOf(paths[i]) \in References BY DEF References, ToSet
<1>4. Reported(i) => ReferenceOf(paths[i]) \in AllOf(i) BY <1>1 DEF Reported, AllOf
<1>5. AllOf(i + 1) = AllOf(i) \cup {ReferenceOf(paths[i])} BY <1>2 DEF AllOf
<1> QED BY <1>1, <1>3, <1>4, <1>5

LEMMA AnalyzeAnalyses ==
    ASSUME PathInv, CacheInv, CachesKept, AnalysisInv, analyze
    PROVE  AnalysisInv'
<1> DEFINE ref == ReferenceOf(paths[at])
<1>1. /\ pc = "analyze" /\ pc' = "analyze" /\ at \in DOMAIN paths /\ at' = at + 1 /\ UNCHANGED Choice
  BY DEF analyze, Choice
<1>2. paths \in Seq(Candidates(selected)) BY DEF PathInv, Chosen
<1>3. /\ at \in Nat /\ AllOf(at + 1) = AllOf(at) \cup {ref} /\ ref \in References
      /\ Reported(at) => ref \in AllOf(at)
  BY <1>1, <1>2, NextPath
<1>4. at >= 1 /\ AllOf(at) \subseteq DOMAIN analyses BY <1>1 DEF AnalysisInv
<1>5. CASE Reported(at)
  <2>1. UNCHANGED analyses BY <1>5 DEF analyze
  <2>2. AllOf(at') \subseteq DOMAIN analyses BY <1>1, <1>3, <1>4, <1>5
  <2>3. at' >= 1 BY <1>1, <1>3
  <2> QED BY <1>1, <2>1, <2>2, <2>3, AnalysisAgain DEF Early
<1>6. CASE ~Reported(at)
  <2>1. PICK read \in Readings(BackendAt(ref), NamespaceOf(ref)) :
           /\ analyses' = Extend(analyses, [r \in {ref} |-> read.problem])
           /\ services' = read.services /\ ready' = read.ready
    BY <1>6 DEF analyze
  <2> DEFINE more == [r \in {ref} |-> read.problem]
  <2>2. DOMAIN more = {ref} /\ more[ref] = read.problem OBVIOUS
  <2>3. analyses' = Extend(analyses, more) BY <2>1
  <2> HIDE DEF more, ref
  <2> DEFINE extended == Extend(analyses, more)
  <2>3a. /\ DOMAIN extended = DOMAIN analyses \cup DOMAIN more
        /\ Keeps(analyses, extended)
        /\ \A x \in DOMAIN more : extended[x] = Recall(analyses, x, more[x])
    BY ExtendIs
  <2>3b. analyses' = extended BY <2>3
  <2> HIDE DEF extended
  <2>4. /\ DOMAIN analyses' = DOMAIN analyses \cup {ref}
        /\ \A x \in DOMAIN analyses : analyses'[x] = analyses[x]
        /\ analyses'[ref] = Recall(analyses, ref, read.problem)
    BY <2>2, <2>3a, <2>3b DEF Keeps
  <2>5. ASSUME NEW x \in DOMAIN analyses', NEW again \in Readings(BackendAt(x), NamespaceOf(x))'
        PROVE  again.problem = analyses'[x]
    <3>1. CASE x \in DOMAIN analyses BY <1>1, <2>4, <2>5, <3>1, AnalysesStay, LegalCases DEF Legal
    <3>2. CASE x \notin DOMAIN analyses
      <4>1. x = ref /\ analyses'[x] = read.problem BY <2>4, <2>5, <3>2 DEF Recall
      <4>2. read \in Readings(BackendAt(x), NamespaceOf(x)) BY <4>1
      <4> QED BY <1>1, <2>1, <2>5, <4>1, <4>2, AnalysisStays, LegalCases DEF Legal
    <3> QED BY <3>1, <3>2
  <2>6. References' = References BY <1>1, SameReferences
  <2>7. AllOf(at)' = AllOf(at') BY <1>1 DEF AllOf, Choice, ReferenceOf
  <2>8. AllOf(at') \subseteq DOMAIN analyses' BY <1>1, <1>3, <1>4, <2>4
  <2>9. at' >= 1 BY <1>1, <1>3
  <2>10. DOMAIN analyses' \subseteq References' BY <1>3, <2>4, <2>6 DEF AnalysisInv
  <2> QED BY <1>1, <2>5, <2>7, <2>8, <2>9, <2>10 DEF AnalysisInv, Early
<1> QED BY <1>5, <1>6

LEMMA AnalysisStep ==
    ASSUME PathInv, CacheInv, AnalysisInv, [Next]_vars
    PROVE  AnalysisInv'
<1>0. world \in World BY LegalCases DEF Legal
<1>1. CachesKept BY <1>0, CachesGrow
<1>2. CASE analyze BY <1>1, <1>2, AnalyzeAnalyses
<1>3. CASE readOptions
  <2>1. pc = "options" /\ analyses' = analyses /\ UNCHANGED <<input, selected, paths>> /\ pc' \in {"cluster", "exit"}
    BY <1>3 DEF readOptions
  <2>2. analyses' = <<>> /\ DOMAIN analyses' = {} BY <2>1 DEF AnalysisInv, Early
  <2> QED BY <2>1, <2>2 DEF AnalysisInv
<1>4. CASE selectRules
  <2>1. pc = "select" /\ analyses' = analyses /\ pc' \in {"parents", "finish"} BY <1>4 DEF selectRules
  <2>2. analyses' = <<>> /\ DOMAIN analyses' = {} BY <2>1 DEF AnalysisInv, Early
  <2> QED BY <2>1, <2>2 DEF AnalysisInv
<1>5. CASE reachCluster \/ readLists \/ checkListeners
  <2>1. UNCHANGED Choice /\ UNCHANGED analyses /\ pc \in Early /\ pc' \in Early \cup {"exit", "generic"}
    BY <1>5 DEF reachCluster, readLists, checkListeners, Choice, Early
  <2> QED BY <1>1, <2>1, AnalysisAgain DEF AnalysisInv, Early
<1>6. CASE checkParents \/ checkExpected \/ checkMirror
  <2>1. UNCHANGED Choice /\ UNCHANGED analyses /\ pc \in {"parents", "expected", "mirrors"}
        /\ pc' \in {"expected", "mirrors"}
    <3>1. CASE checkParents \/ checkExpected BY <3>1 DEF checkParents, checkExpected, Choice
    <3>2. CASE checkMirror BY <3>2 DEF checkMirror, Choice
    <3> QED BY <1>6, <3>1, <3>2
  <2> QED BY <1>1, <2>1, AnalysisAgain DEF AnalysisInv, Early
<1>7. CASE mirrorsDone
  <2>1. UNCHANGED Choice /\ UNCHANGED analyses /\ pc' = "analyze" /\ at' = 1
    BY <1>7 DEF mirrorsDone, Choice
  <2>2. AllOf(1) = {} BY DEF AllOf, PathInv, Chosen
  <2> QED BY <1>1, <2>1, <2>2, AnalysisAgain DEF Early
<1>8. CASE analyzed
  <2>1. UNCHANGED Choice /\ UNCHANGED analyses /\ pc = "analyze" /\ pc' = "scan" /\ at \notin DOMAIN paths
    BY <1>8 DEF analyzed, Choice
  <2>2. AllOf(at) = References BY <2>1, AllPaths DEF AnalysisInv, PathInv, Chosen
  <2>3. References \subseteq DOMAIN analyses BY <2>1, <2>2 DEF AnalysisInv
  <2> QED BY <1>1, <2>1, <2>3, AnalysisAgain DEF Early
<1>9. CASE scan \/ scanned \/ dataplane \/ dataplaneDone \/ probe \/ cannotProbe \/ probesDone
  <2>1. UNCHANGED Choice /\ UNCHANGED analyses /\ pc \in {"scan", "dataplane", "probe"}
        /\ pc' \in {"scan", "dataplane", "probe", "conclude"}
    <3>1. CASE scan BY <3>1, Zenon DEF scan, Choice
    <3>2. CASE scanned BY <3>2 DEF scanned, Choice
    <3>3. CASE dataplane BY <3>3, Zenon DEF dataplane, Choice
    <3>4. CASE probe BY <3>4, Zenon DEF probe, Choice
    <3>5. CASE dataplaneDone \/ cannotProbe \/ probesDone BY <3>5 DEF dataplaneDone, cannotProbe, probesDone, Choice
    <3> QED BY <1>9, <3>1, <3>2, <3>3, <3>4, <3>5
  <2> QED BY <1>1, <2>1, AnalysisAgain DEF AnalysisInv, Early
<1>10. CASE conclude \/ finishScan \/ dedupe \/ generic \/ finish
  <2>1. UNCHANGED Choice /\ UNCHANGED analyses /\ pc' \in {"finish", "dedupe", "generic", "exit", "done"}
    BY <1>10 DEF conclude, finishScan, dedupe, generic, finish, Choice
  <2> QED BY <1>1, <2>1, AnalysisAgain DEF Early
<1>11. CASE UNCHANGED vars
  <2>1. UNCHANGED Choice /\ UNCHANGED analyses /\ pc' = pc /\ at' = at BY <1>11 DEF vars, Choice
  <2> QED BY <1>1, <2>1, AnalysisAgain DEF AnalysisInv
<1> QED BY <1>2, <1>3, <1>4, <1>5, <1>6, <1>7, <1>8, <1>9, <1>10, <1>11 DEF Next


-------------------------------------------------------------------------------
(* The listeners, routes and Gateways of a request.                        *)

LEMMA MatchingAre ==
    ASSUME world \in World
    PROVE  /\ MatchingListeners \in Seq(ListenerPairsOf)
           /\ \A where \in ToSet(MatchingListeners) :
                 /\ where[1] \in Parents /\ where[2] \in DOMAIN world.gateways[where[1]].listeners
                 /\ ListenerMatches(world.gateways[where[1]].listeners[where[2]], intent)
<1> DEFINE found == {where \in UNION {{<<g, l>> : l \in DOMAIN world.gateways[g].listeners} : g \in Parents} :
                        ListenerMatches(world.gateways[where[1]].listeners[where[2]], intent)}
<1>1. MatchingListeners = Sorted(found) BY DEF MatchingListeners
<1>2. /\ found \in SUBSET ListenerPairsOf
      /\ \A where \in found : ListenerMatches(world.gateways[where[1]].listeners[where[2]], intent)
  BY DEF ListenerPairsOf
<1>3. ASSUME NEW where \in ListenerPairsOf
      PROVE  /\ where \in [1..2 -> Nat]
             /\ where[1] \in Parents /\ where[2] \in DOMAIN world.gateways[where[1]].listeners
  <2>1. PICK g \in Parents : \E l \in DOMAIN world.gateways[g].listeners : where = <<g, l>> BY DEF ListenerPairsOf
  <2>2. PICK l \in DOMAIN world.gateways[g].listeners : where = <<g, l>> BY <2>1
  <2>3. g \in Nat /\ l \in Nat BY ScopeParts, GatewayParts
  <2> QED BY <2>2, <2>3
<1> HIDE DEF found
<1>4. IsFiniteSet(found) BY <1>2, PairsOfFinite, FS_Subset
<1>5. found \in SUBSET [1..2 -> Nat] BY <1>2, <1>3
<1>6. Sorted(found) \in Seq(found) /\ ToSet(Sorted(found)) = found
  <2>1. 2 \in Nat OBVIOUS
  <2> QED BY <1>4, <1>5, <2>1, SortedIs
<1>7. Sorted(found) \in Seq(ListenerPairsOf) BY <1>2, <1>6
<1> QED BY <1>1, <1>2, <1>3, <1>6, <1>7

LEMMA FirstPlace ==
    ASSUME NEW S, NEW s \in Seq(S), NEW x \in ToSet(s)
    PROVE  \E i \in DOMAIN s : s[i] = x /\ \A j \in 1..(i - 1) : s[j] # s[i]
<1> DEFINE places == {i \in DOMAIN s : s[i] = x}
<1>1. DOMAIN s = 1..Len(s) /\ Len(s) \in Nat OBVIOUS
<1>2. places \in SUBSET Nat /\ places # {} BY <1>1 DEF ToSet
<1>3. PICK i \in places : \A j \in places : i <= j
  <2> HIDE DEF places
  <2> QED BY <1>2, LeastNat
<1>4. \A j \in 1..(i - 1) : s[j] # x BY <1>1, <1>3
<1> QED BY <1>3, <1>4

LEMMA DistinctIs ==
    ASSUME NEW S, NEW s \in Seq(S)
    PROVE  Distinct(s) \in Seq(S) /\ ToSet(Distinct(s)) = ToSet(s)
<1> DEFINE new(i) == \A j \in 1..(i - 1) : s[j] # s[i]
           f == [i \in DOMAIN s |-> When(new(i), s[i])]
<1>1. Distinct(s) = FlattenSeq(f) BY DEF Distinct
<1>2. DOMAIN f = DOMAIN s /\ f = [i \in DOMAIN s |-> f[i]] OBVIOUS
<1>3. ASSUME NEW i \in DOMAIN s
      PROVE  f[i] \in Seq(S) /\ ToSet(f[i]) = IF new(i) THEN {s[i]} ELSE {}
  <2> DEFINE b == new(i)
             x == s[i]
  <2>1. b \in BOOLEAN /\ x \in S BY ElementType
  <2>2. f[i] = When(b, x) OBVIOUS
  <2>3. b <=> new(i) OBVIOUS
  <2> HIDE DEF b, f, new
  <2>4. When(b, x) \in Seq(S) /\ ToSet(When(b, x)) = IF b THEN {x} ELSE {} BY <2>1, WhenIs
  <2> QED BY <2>2, <2>3, <2>4
<1> HIDE DEF f
<1>4. /\ FlattenSeq(f) \in Seq(S)
      /\ \A x : x \in ToSet(FlattenSeq(f)) <=> \E i \in DOMAIN s : x \in ToSet(f[i])
  BY <1>2, <1>3, FlattenEach
<1>5. \A x : x \in ToSet(s) <=> \E i \in DOMAIN s : new(i) /\ x = s[i] BY FirstPlace DEF ToSet
<1> HIDE DEF new
<1>6. \A x : x \in ToSet(FlattenSeq(f)) <=> x \in ToSet(s)
  <2>1. \A i \in DOMAIN s : \A x : x \in ToSet(f[i]) <=> new(i) /\ x = s[i] BY <1>3
  <2> QED BY <1>4, <1>5, <2>1
<1>7. ToSet(FlattenSeq(f)) = ToSet(s) BY <1>6
<1> QED BY <1>1, <1>4, <1>7

LEMMA PathParts ==
    ASSUME PathInv, NEW i \in DOMAIN paths
    PROVE  /\ paths[i][1] \in Parents /\ paths[i][1] \in Nat
           /\ paths[i][2] \in DOMAIN world.gateways[paths[i][1]].listeners /\ paths[i][2] \in Nat
           /\ paths[i][3] \in RouteScope /\ paths[i][3] \in Nat
           /\ paths[i][4] \in DOMAIN world.routes[paths[i][3]].rules /\ paths[i][4] \in Nat
           /\ paths[i][5] \in DOMAIN world.routes[paths[i][3]].rules[paths[i][4]].backends /\ paths[i][5] \in Nat
           /\ IsCandidate(world.routes[paths[i][3]].rules[paths[i][4]].backends[paths[i][5]])
           /\ paths[i] = <<paths[i][1], paths[i][2], paths[i][3], paths[i][4], paths[i][5]>>
<1>1. world \in World /\ selected \in SUBSET RuleMatchesFound BY LegalCases DEF Legal, PathInv, Chosen
<1>2. paths[i] \in Candidates(selected) BY ElementType DEF PathInv, Chosen
<1>3. PICK m \in selected : \E b \in DOMAIN world.routes[m[3]].rules[m[4]].backends :
              /\ paths[i] = <<m[1], m[2], m[3], m[4], b>> /\ b \in Nat /\ IsMatch(m)
              /\ IsCandidate(world.routes[m[3]].rules[m[4]].backends[b])
  <2> DEFINE p == paths[i]
             won == selected
  <2>1. p \in Candidates(won) /\ won \in SUBSET RuleMatchesFound BY <1>1, <1>2
  <2> HIDE DEF p, won
  <2>2. \E m \in won : \E b \in DOMAIN world.routes[m[3]].rules[m[4]].backends :
              /\ p = <<m[1], m[2], m[3], m[4], b>> /\ b \in Nat /\ IsMatch(m)
              /\ IsCandidate(world.routes[m[3]].rules[m[4]].backends[b])
    BY <1>1, <2>1, CandidateParts
  <2> QED BY <2>2 DEF p, won
<1>4. PICK b \in DOMAIN world.routes[m[3]].rules[m[4]].backends :
              /\ paths[i] = <<m[1], m[2], m[3], m[4], b>> /\ b \in Nat /\ IsMatch(m)
              /\ IsCandidate(world.routes[m[3]].rules[m[4]].backends[b])
  BY <1>3
<1>5. /\ m[1] \in Parents /\ m[2] \in DOMAIN world.gateways[m[1]].listeners
      /\ m[3] \in RouteScope /\ m[4] \in DOMAIN world.routes[m[3]].rules
  BY <1>4 DEF IsMatch
<1>6. m[1] \in Nat /\ m[2] \in Nat /\ m[3] \in Nat /\ m[4] \in Nat
  BY <1>1, <1>5, ScopeParts, GatewayParts, RouteParts
<1>7. paths[i][1] = m[1] /\ paths[i][2] = m[2] /\ paths[i][3] = m[3] /\ paths[i][4] = m[4] /\ paths[i][5] = b
  BY <1>4
<1> QED BY <1>4, <1>5, <1>6, <1>7

\* The rule and the backend that a path leads to.
LEMMA ReferenceParts ==
    ASSUME PathInv, NEW i \in DOMAIN paths
    PROVE  /\ ReferenceOf(paths[i]) = <<paths[i][3], paths[i][4], paths[i][5]>>
           /\ ReferenceOf(paths[i]) \in Seq(Nat)
           /\ SubSeq(ReferenceOf(paths[i]), 1, 2) = <<paths[i][3], paths[i][4]>>
<1> DEFINE a == paths[i][1] b == paths[i][2] c == paths[i][3] d == paths[i][4] e == paths[i][5]
<1>1. a \in Nat /\ b \in Nat /\ c \in Nat /\ d \in Nat /\ e \in Nat /\ paths[i] = <<a, b, c, d, e>> BY PathParts
<1> HIDE DEF a, b, c, d, e
<1>2. ReferenceOf(paths[i]) = SubSeq(<<a, b, c, d, e>>, 3, 5) BY <1>1 DEF ReferenceOf
<1>3. SubSeq(<<a, b, c, d, e>>, 3, 5) = <<c, d, e>>
  <2>1. ASSUME NEW v \in Nat, NEW w \in Nat, NEW x \in Nat, NEW y \in Nat, NEW z \in Nat
        PROVE  SubSeq(<<v, w, x, y, z>>, 3, 5) = <<x, y, z>>
    BY LastThree
  <2> QED BY <1>1, <2>1
<1>4. SubSeq(<<c, d, e>>, 1, 2) = <<c, d>> BY <1>1, FirstTwo
<1>5. <<c, d, e>> \in Seq(Nat) BY <1>1
<1> QED BY <1>2, <1>3, <1>4, <1>5 DEF c, d, e

LEMMA PathRoutesAre ==
    ASSUME PathInv
    PROVE  PathRoutes \in Seq(RouteScope) /\ PathGateways \in Seq(Parents)
<1>1. DOMAIN paths = 1..Len(paths) /\ Len(paths) \in Nat BY DEF PathInv, Chosen
<1> DEFINE routes == [i \in DOMAIN paths |-> paths[i][3]]
           gateways == [i \in DOMAIN paths |-> paths[i][1]]
<1>2. routes \in Seq(RouteScope) BY <1>1, PathParts
<1>3. gateways \in Seq(Parents) BY <1>1, PathParts
<1>4. PathRoutes = Distinct(routes) /\ PathGateways = Distinct(gateways) BY DEF PathRoutes, PathGateways
<1> HIDE DEF routes, gateways
<1>5. Distinct(routes) \in Seq(RouteScope) BY <1>2, DistinctIs
<1>6. Distinct(gateways) \in Seq(Parents) BY <1>3, DistinctIs
<1> QED BY <1>4, <1>5, <1>6


-------------------------------------------------------------------------------
(* What the steps before the backends say.                                 *)

ReportTyped ==
    /\ report.problems \in Nat
    /\ report.problems > 0 => Alarmed(report.results)
    /\ \A r \in report.results : r.status \in Statuses

\* Where nothing alarming is said after problems were added, there were none.
LEMMA QuietProblems ==
    ASSUME opts \in Option, ReportTyped, NEW checks, NEW problems \in Seq(ProblemsOf(checks)),
           report' = addProblems(report, problems), ~Alarmed(report'.results)
    PROVE  ToSet(problems) = {}
<1>1. Adds(report, report', checks) /\ (Len(problems) > 0 /\ report.problems = 0 => Alarmed(report'.results))
  BY AddProblemsAre DEF ReportTyped
<1>2. ~Alarmed(report.results) BY <1>1 DEF Adds, Alarmed
<1>3. report.problems = 0 BY <1>2 DEF ReportTyped
<1>4. Len(problems) = 0 BY <1>1, <1>3, EmptyIs
<1> QED BY <1>4, EmptyIs

LEMMA OptionsAdd ==
    ASSUME ReportTyped, readOptions \/ reachCluster
    PROVE  Adds(report, report', {"options", "context", "namespace"})
<1> DEFINE checks == {"options", "context", "namespace"}
<1>1. report.problems \in Nat BY DEF ReportTyped
<1>2. \A check \in checks : Adds(report, Add(report, {Result(check, <<>>, "FAIL")}, {Diagnosis(check, <<>>)}), checks)
  BY <1>1, AddIs DEF Result, Diagnosis, Statuses
<1>3. Adds(report, report, checks) BY <1>1, AddsNothing
<1>4. CASE readOptions
  <2>1. report' = report \/ report' = Add(report, {Result("options", <<>>, "FAIL")}, {Diagnosis("options", <<>>)})
    BY <1>4 DEF readOptions
  <2> QED BY <1>2, <1>3, <2>1
<1>5. CASE reachCluster
  <2>1. report' = report \/ \E check \in checks :
           report' = Add(report, {Result(check, <<>>, "FAIL")}, {Diagnosis(check, <<>>)})
    BY <1>5 DEF reachCluster
  <2> QED BY <1>2, <1>3, <2>1
<1> QED BY <1>4, <1>5

LEMMA ListsAre == Lists \in Seq(ToSet(Lists))
<1>1. Len(Lists) = 20 /\ DOMAIN Lists = 1..20 BY DEF Lists
<1>2. \A i \in 1..20 : Lists[i] \in ToSet(Lists) BY <1>1, Zenon DEF ToSet
<1>3. Lists = [i \in 1..20 |-> Lists[i]] BY <1>1 DEF Lists
<1> DEFINE E == ToSet(Lists)
<1>4. Lists \in [1..20 -> E] BY <1>2, <1>3
<1> HIDE DEF Lists, E
<1>5. Lists \in Seq(E) BY <1>4, SeqDef
<1> QED BY <1>5 DEF E

LEMMA ListsAdd ==
    ASSUME opts \in Option, ReportTyped, readLists
    PROVE  Adds(report, report', ToSet(Lists))
<1>1. report.problems \in Nat BY DEF ReportTyped
<1> DEFINE Failed(list) == Listed(list) /\ Outcome(list) = "error"
           f == [i \in DOMAIN Lists |-> When(Failed(Lists[i]), Problem(Lists[i], <<>>, "api-inspection", FALSE))]
           P == ProblemsOf(ToSet(Lists))
<1>2. report' = report \/ report' = addProblems(report, FlattenSeq(f)) BY DEF readLists
<1>3. Lists \in Seq(ToSet(Lists)) BY ListsAre
<1>4. ASSUME NEW i \in DOMAIN Lists PROVE f[i] \in Seq(P)
  <2> DEFINE b == Failed(Lists[i])
             x == Problem(Lists[i], <<>>, "api-inspection", FALSE)
  <2>1. b \in BOOLEAN BY DEF Listed
  <2>2. Lists[i] \in ToSet(Lists) BY Zenon DEF ToSet
  <2>3. x \in P
    <3>1. <<>> \in Seq(Nat) /\ "api-inspection" \in {"FAIL"} \cup Warnings BY DEF Warnings
    <3> QED BY <2>2, <3>1, ProblemType
  <2>4. f[i] = When(b, x) OBVIOUS
  <2> HIDE DEF b, x, f, P
  <2> QED BY <2>1, <2>3, <2>4, WhenIs
<1>5. DOMAIN f = DOMAIN Lists /\ f = [i \in DOMAIN Lists |-> f[i]] OBVIOUS
<1> DEFINE problems == FlattenSeq(f)
<1> HIDE DEF f, P
<1>6. problems \in Seq(P) BY <1>3, <1>4, <1>5, FlattenEach
<1> HIDE DEF problems
<1>7. Adds(report, addProblems(report, problems), ToSet(Lists)) BY <1>1, <1>6, AddProblemsAre DEF P
<1>8. Adds(report, report, ToSet(Lists)) BY <1>1, AddsNothing
<1> QED BY <1>2, <1>7, <1>8 DEF problems

SecureChecks == ListenerChecks \cup {"certificate-kind"}

\* A listener that TLS is asked of serves it.
Secure ==
    \A where \in ToSet(MatchingListeners) :
        LET g == world.gateways[where[1]] IN
        g.listeners[where[2]].protocol \in {"HTTPS", "TLS"} => Serves(g, g.listeners[where[2]])

LEMMA GrantsAreReal ==
    ASSUME NEW kind, NEW from, NEW to, NEW name, NEW namespace,
           world \in World, Granted(Grants, kind, from, to, name, namespace)
    PROVE  GrantedByAPI(kind, from, to, name, namespace)
<1>1. PICK grant \in Grants :
         /\ grant.namespace = namespace /\ grant.kind = kind /\ grant.from = from
         /\ grant.to = to /\ grant.name \in {0, name}
  BY DEF Granted
<1>2. grant \in world.grants /\ grant \in Grant BY DEF Grants, World
<1>3. grant = [from |-> grant.from, kind |-> grant.kind, namespace |-> grant.namespace, to |-> grant.to,
               name |-> grant.name]
  BY <1>2 DEF Grant
<1> QED BY <1>1, <1>2, <1>3 DEF GrantedByAPI

LEMMA ListenersAdd ==
    ASSUME Legal, ReportTyped, checkListeners
    PROVE  Adds(report, report', SecureChecks) /\ (~Alarmed(report'.results) => Secure)
<1>0. world \in World /\ opts \in Option /\ report.problems \in Nat BY DEF Legal, ReportTyped
<1> DEFINE Found(where) == IF where \in Secured THEN ListenerProblems(where[1], where[2]) ELSE <<>>
           unknown == UNION {UnknownCertificates(where[1], where[2]) : where \in Secured}
           f == [i \in DOMAIN MatchingListeners |-> Found(MatchingListeners[i])]
           middle == Add(report, unknown, {})
           problems == FlattenSeq(f)
           P == ProblemsOf(SecureChecks)
<1>1. report' = addProblems(middle, problems) BY DEF checkListeners
<1>2. \A r \in unknown : r.check \in SecureChecks /\ r.status \in Statuses /\ r.status # "PASS"
  BY DEF UnknownCertificates, Result, SecureChecks, Statuses, Warnings
<1>3. Adds(report, middle, SecureChecks) /\ middle.problems = report.problems
  <2> HIDE DEF unknown
  <2> QED BY <1>0, <1>2, AddIs
<1>4. MatchingListeners \in Seq(ListenerPairsOf) BY <1>0, MatchingAre
<1>5. ASSUME NEW i \in DOMAIN MatchingListeners
      PROVE  /\ MatchingListeners[i] \in ToSet(MatchingListeners)
             /\ f[i] \in Seq(P)
             /\ ToSet(f[i]) = {} /\ MatchingListeners[i] \in Secured =>
                   ToSet(ListenerProblems(MatchingListeners[i][1], MatchingListeners[i][2])) = {}
  <2> DEFINE where == MatchingListeners[i]
  <2>1. where \in ToSet(MatchingListeners) BY Zenon DEF ToSet
  <2>2. where[1] \in Parents /\ where[2] \in DOMAIN world.gateways[where[1]].listeners BY <1>0, <2>1, MatchingAre
  <2>3. f[i] = IF where \in Secured THEN ListenerProblems(where[1], where[2]) ELSE <<>> OBVIOUS
  <2> HIDE DEF where, f
  <2>4. ListenerProblems(where[1], where[2]) \in Seq(ProblemsOf(ListenerChecks)) BY <1>0, <2>2, ListenerProblemsAre
  <2>5. ProblemsOf(ListenerChecks) \subseteq P BY DEF ProblemsOf, SecureChecks
  <2> HIDE DEF P
  <2>6. ListenerProblems(where[1], where[2]) \in Seq(P) /\ <<>> \in Seq(P) BY <2>4, <2>5
  <2> QED BY <2>1, <2>3, <2>6 DEF where
<1>6. DOMAIN f = DOMAIN MatchingListeners /\ f = [i \in DOMAIN MatchingListeners |-> f[i]] OBVIOUS
<1> HIDE DEF f, unknown
<1>7. /\ problems \in Seq(P)
      /\ \A x : x \in ToSet(problems) <=> \E i \in DOMAIN MatchingListeners : x \in ToSet(f[i])
  <2> HIDE DEF P
  <2> QED BY <1>4, <1>5, <1>6, FlattenEach
<1> HIDE DEF problems, middle
<1>8. /\ Adds(middle, report', SecureChecks)
      /\ Len(problems) > 0 /\ middle.problems = 0 => Alarmed(report'.results)
  <2>1. middle.problems \in Nat BY <1>0, <1>3
  <2> QED BY <1>0, <1>1, <1>7, <2>1, AddProblemsAre
<1>9. Adds(report, report', SecureChecks) BY <1>0, <1>3, <1>8, AddsFurther
<1>10. ASSUME ~Alarmed(report'.results) PROVE Secure
  <2>1. ~Alarmed(middle.results) /\ ~Alarmed(report.results) BY <1>3, <1>8, <1>10 DEF Adds, Alarmed
  <2>2. report.problems = 0 BY <1>0, <2>1 DEF ReportTyped
  <2>3. Len(problems) = 0 BY <1>3, <1>7, <1>8, <1>10, <2>2, EmptyIs
  <2>4. ToSet(problems) = {}
    <3> HIDE DEF P
    <3> QED BY <1>7, <2>3, EmptyIs
  <2>5. unknown = {} BY <1>2, <2>1 DEF middle, Add, Alarmed
  <2> SUFFICES ASSUME NEW where \in ToSet(MatchingListeners),
                      world.gateways[where[1]].listeners[where[2]].protocol \in {"HTTPS", "TLS"}
               PROVE  Serves(world.gateways[where[1]], world.gateways[where[1]].listeners[where[2]])
    BY DEF Secure
  <2>6. where \in Secured BY DEF Secured
  <2>7. PICK i \in DOMAIN MatchingListeners : MatchingListeners[i] = where BY DEF ToSet
  <2>8. ToSet(f[i]) = {} BY <1>7, <2>4
  <2>9. ToSet(ListenerProblems(where[1], where[2])) = {} BY <1>5, <2>6, <2>7, <2>8
  <2> DEFINE g == where[1] l == where[2]
             listener == world.gateways[g].listeners[l]
             certificates == listener.certificates
  <2>10. g \in Parents /\ l \in DOMAIN world.gateways[g].listeners BY <1>0, MatchingAre
  <2>11. /\ "False" \notin {listener.programmed, listener.resolved}
         /\ \A i_1 \in DOMAIN certificates : ~CertificateRefused(g, certificates[i_1])
    <3>1. ASSUME NEW h \in Parents, NEW k \in DOMAIN world.gateways[h].listeners,
                 ToSet(ListenerProblems(h, k)) = {}
          PROVE  /\ "False" \notin {world.gateways[h].listeners[k].programmed, world.gateways[h].listeners[k].resolved}
                 /\ \A i_1 \in DOMAIN world.gateways[h].listeners[k].certificates :
                       ~CertificateRefused(h, world.gateways[h].listeners[k].certificates[i_1])
      BY <1>0, <3>1, ListenerProblemsAre
    <3> QED BY <2>9, <2>10, <3>1
  <2>12. UnknownCertificates(g, l) = {} BY <2>5, <2>6 DEF unknown
  <2>13. \A c \in ToSet(certificates) : c.kind BY <2>12 DEF UnknownCertificates
  <2>14. ASSUME NEW c \in ToSet(certificates)
         PROVE  /\ <<c.namespace, c.secret>> \in world.secrets
                /\ c.namespace = world.gateways[g].namespace
                   \/ GrantedByAPI("Gateway", world.gateways[g].namespace, "Secret", c.secret, c.namespace)
    <3>1. ~CertificateRefused(g, c)
      <4>1. PICK j \in DOMAIN certificates : certificates[j] = c BY DEF ToSet
      <4> QED BY <2>11, <4>1
    <3>2. c.kind BY <2>13
    <3> QED BY <1>0, <3>1, <3>2, GrantsAreReal DEF CertificateRefused
  <2> QED BY <2>11, <2>13, <2>14 DEF Serves
<1> QED BY <1>9, <1>10


Reasons == {"no-gateways", "listener-port", "listener", "attached", "hostname", "path", "method", "headers",
            "params", "service", "call", "backend"}

LEMMA ReasonIs ==
    ASSUME NEW inScope, NEW among
    PROVE  NoMatchReason(world.gateways, inScope, world.routes, among, intent) \in Reasons
<1>1. \A routes, some, given : HTTPReason(routes, some, given) \in Reasons BY DEF HTTPReason, Reasons
<1>2. \A routes, some, given : GRPCReason(routes, some, given) \in Reasons BY DEF GRPCReason, Reasons
<1> QED BY <1>1, <1>2 DEF NoMatchReason, Reasons

LEMMA SelectAdds ==
    ASSUME opts \in Option, ReportTyped, selectRules
    PROVE  Adds(report, report', Reasons \cup {"redirect"})
<1> DEFINE checks == Reasons \cup {"redirect"}
<1>1. report.problems \in Nat BY DEF ReportTyped
<1>2. Adds(report, report, checks) BY <1>1, AddsNothing
<1>3. ASSUME NEW check \in checks PROVE Adds(report, addProblem(report, Fail(check, <<>>)), checks)
  <2>1. <<>> \in Seq(Nat) OBVIOUS
  <2>2. Fail(check, <<>>) \in ProblemsOf(checks)
    <3> HIDE DEF checks
    <3> QED BY <1>3, <2>1, FailType
  <2> HIDE DEF checks
  <2> QED BY <1>1, <2>2, AddProblemIs
<1>4. report' = report \/ \E check \in checks : report' = addProblem(report, Fail(check, <<>>))
  <2>1. NoMatchReason(world.gateways, Parents, world.routes, RouteScope, intent) \in Reasons BY ReasonIs
  <2> QED BY <2>1 DEF selectRules
<1> QED BY <1>2, <1>3, <1>4

RouteChecks == {"parent", "rejected", "unresolved", "partial", "no-status", "not-accepted"}

\* The status of a parent holds nothing against the route.
StatusFine(status) == "False" \notin {status.accepted, status.resolved} /\ status.partial # "True"

\* What is said of a status names it: the route and the number of the status.
StatusChecks == {"rejected", "unresolved", "partial"}
Placed(check, about) ==
    check \in StatusChecks =>
        \E r \in DOMAIN world.routes : \E i \in DOMAIN world.routes[r].statuses : about = <<r, i>>
AllPlaced(problems) == \A p \in ToSet(problems) : Placed(p.result.check, p.result.about)

LEMMA StatusProblemsAre ==
    ASSUME world \in World, NEW r \in DOMAIN world.routes, NEW i \in DOMAIN world.routes[r].statuses
    PROVE  /\ StatusProblems(r, i) \in Seq(ProblemsOf(RouteChecks))
           /\ AllPlaced(StatusProblems(r, i))
           /\ ToSet(StatusProblems(r, i)) = {} => StatusFine(world.routes[r].statuses[i])
<1> DEFINE status == world.routes[r].statuses[i]
           P == ProblemsOf(RouteChecks)
           b1 == status.accepted = "False"
           b2 == status.resolved = "False"
           b3 == status.partial = "True"
           x1 == Fail("rejected", <<r, i>>)
           x2 == Fail("unresolved", <<r, i>>)
           x3 == Problem("partial", <<r, i>>, "WARN", TRUE)
           s1 == When(b1, x1)
           s2 == When(b2, x2)
           s3 == When(b3, x3)
<1>1. StatusProblems(r, i) = (s1 \o s2) \o s3 BY DEF StatusProblems
<1>2. r \in Nat /\ i \in Nat
  <2>1. r \in Nat /\ world.routes[r].statuses \in Seq(ParentStatus) BY RouteParts
  <2> QED BY <2>1, ElementType
<1>3. <<r, i>> \in Seq(Nat) BY <1>2
<1>4. x1 \in P /\ x2 \in P BY <1>3, FailType DEF RouteChecks
<1>5. x3 \in P
  <2>1. "WARN" \in {"FAIL"} \cup Warnings /\ "partial" \in RouteChecks BY DEF Warnings, RouteChecks
  <2> QED BY <1>3, <2>1, ProblemType
<1>6. b1 \in BOOLEAN /\ b2 \in BOOLEAN /\ b3 \in BOOLEAN OBVIOUS
<1>7. ~b1 /\ ~b2 /\ ~b3 => StatusFine(status) BY DEF StatusFine
<1>10. \A x \in {x1, x2, x3} : Placed(x.result.check, x.result.about)
  <2>1. \A check : Placed(check, <<r, i>>) BY DEF Placed
  <2>2. x1.result.about = <<r, i>> /\ x2.result.about = <<r, i>> /\ x3.result.about = <<r, i>>
    BY DEF Fail, Problem, Result
  <2> HIDE DEF x1, x2, x3
  <2> QED BY <2>1, <2>2
<1> HIDE DEF P, b1, b2, b3, x1, x2, x3
<1>8. /\ s1 \in Seq(P) /\ (b1 => ToSet(s1) # {}) /\ ToSet(s1) \subseteq {x1}
      /\ s2 \in Seq(P) /\ (b2 => ToSet(s2) # {}) /\ ToSet(s2) \subseteq {x2}
      /\ s3 \in Seq(P) /\ (b3 => ToSet(s3) # {}) /\ ToSet(s3) \subseteq {x3}
  <2>1. s1 \in Seq(P) /\ ToSet(s1) = IF b1 THEN {x1} ELSE {} BY <1>4, <1>6, WhenIs
  <2>2. s2 \in Seq(P) /\ ToSet(s2) = IF b2 THEN {x2} ELSE {} BY <1>4, <1>6, WhenIs
  <2>3. s3 \in Seq(P) /\ ToSet(s3) = IF b3 THEN {x3} ELSE {} BY <1>5, <1>6, WhenIs
  <2> QED BY <2>1, <2>2, <2>3
<1> HIDE DEF s1, s2, s3
<1>9. (s1 \o s2) \o s3 \in Seq(P) /\ ToSet((s1 \o s2) \o s3) = ToSet(s1) \cup ToSet(s2) \cup ToSet(s3)
  <2> DEFINE u == s1 \o s2
  <2>1. u \in Seq(P) /\ ToSet(u) = ToSet(s1) \cup ToSet(s2) BY <1>8, ConcatMembers
  <2> HIDE DEF u
  <2>2. u \o s3 \in Seq(P) /\ ToSet(u \o s3) = ToSet(u) \cup ToSet(s3) BY <1>8, <2>1, ConcatMembers
  <2> QED BY <2>1, <2>2 DEF u
<1>11. AllPlaced((s1 \o s2) \o s3) BY <1>8, <1>9, <1>10 DEF AllPlaced
<1> QED BY <1>1, <1>7, <1>8, <1>9, <1>11 DEF P

LEMMA RouteProblemsAre ==
    ASSUME world \in World, NEW r \in DOMAIN world.routes
    PROVE  /\ RouteProblems(r) \in Seq(ProblemsOf(RouteChecks))
           /\ AllPlaced(RouteProblems(r))
           /\ ToSet(RouteProblems(r)) = {} =>
                 \A i \in DOMAIN world.routes[r].statuses : StatusFine(world.routes[r].statuses[i])
<1> DEFINE route == world.routes[r]
           statuses == route.statuses
           P == ProblemsOf(RouteChecks)
           Lost(parent) == parent.kind /\ parent.gateway # 0 /\ parent.gateway \notin Parents
           f == [i \in DOMAIN route.parents |-> When(Lost(route.parents[i]), Fail("parent", <<r, i>>))]
           missing == FlattenSeq(f)
           said == \E i \in DOMAIN statuses : statuses[i].accepted # "absent"
           h == [i \in DOMAIN statuses |-> StatusProblems(r, i)]
           about == FlattenSeq(h)
           none == Problem("no-status", <<r>>, "WARN", TRUE)
           last == Problem("not-accepted", <<r>>, "WARN", TRUE)
           rest == IF statuses = <<>> THEN <<none>> ELSE IF said THEN about ELSE Append(about, last)
<1>1. RouteProblems(r) = missing \o rest BY DEF RouteProblems
<1>2. r \in Nat /\ route.parents \in Seq(ParentRef) /\ statuses \in Seq(ParentStatus) BY RouteParts
<1>3. none \in P /\ last \in P
  <2>1. "WARN" \in {"FAIL"} \cup Warnings /\ "no-status" \in RouteChecks /\ "not-accepted" \in RouteChecks
    BY DEF Warnings, RouteChecks
  <2>2. <<r>> \in Seq(Nat) BY <1>2
  <2> QED BY <2>1, <2>2, ProblemType
<1>10. Placed("no-status", <<r>>) /\ Placed("not-accepted", <<r>>) /\ \A where : Placed("parent", where)
  BY DEF Placed, StatusChecks
<1>11. /\ Placed(none.result.check, none.result.about) /\ Placed(last.result.check, last.result.about)
  BY <1>10 DEF Problem, Result
<1>4. missing \in Seq(P) /\ AllPlaced(missing)
  <2> DEFINE parents == route.parents
  <2>1. ASSUME NEW i \in DOMAIN parents
        PROVE  f[i] \in Seq(P) /\ \A p \in ToSet(f[i]) : Placed(p.result.check, p.result.about)
    <3> DEFINE b == Lost(parents[i])
               x == Fail("parent", <<r, i>>)
    <3>1. parents[i] \in ParentRef /\ i \in Nat BY <1>2, <2>1, ElementType
    <3>2. b \in BOOLEAN BY <3>1 DEF ParentRef
    <3>3. <<r, i>> \in Seq(Nat) BY <1>2, <3>1
    <3>4. x \in P BY <3>3, FailType DEF RouteChecks
    <3>5. f[i] = When(b, x) OBVIOUS
    <3>6. Placed(x.result.check, x.result.about) BY <1>10 DEF Fail, Problem, Result
    <3> HIDE DEF b, x, f, P
    <3>7. When(b, x) \in Seq(P) /\ ToSet(When(b, x)) = IF b THEN {x} ELSE {} BY <3>2, <3>4, WhenIs
    <3> QED BY <3>5, <3>6, <3>7
  <2>2. DOMAIN f = DOMAIN parents /\ f = [i \in DOMAIN parents |-> f[i]] OBVIOUS
  <2>3. parents \in Seq(ParentRef) BY <1>2
  <2> HIDE DEF f, P, parents
  <2>4. /\ FlattenSeq(f) \in Seq(P)
        /\ \A x : x \in ToSet(FlattenSeq(f)) <=> \E i \in DOMAIN parents : x \in ToSet(f[i])
    BY <2>1, <2>2, <2>3, FlattenEach
  <2> QED BY <2>1, <2>4 DEF AllPlaced
<1>5. ASSUME NEW i \in DOMAIN statuses
      PROVE  h[i] \in Seq(P) /\ AllPlaced(h[i]) /\ (ToSet(h[i]) = {} => StatusFine(statuses[i]))
  <2>1. h[i] = StatusProblems(r, i) OBVIOUS
  <2> HIDE DEF h
  <2> QED BY <2>1, StatusProblemsAre
<1>6. DOMAIN h = DOMAIN statuses /\ h = [i \in DOMAIN statuses |-> h[i]] OBVIOUS
<1> HIDE DEF h, f, P, route, none, last, missing
<1>7. /\ about \in Seq(P)
      /\ \A x : x \in ToSet(about) <=> \E i \in DOMAIN statuses : x \in ToSet(h[i])
  <2> DEFINE all == statuses
  <2>1. all \in Seq(ParentStatus) /\ DOMAIN h = DOMAIN all /\ h = [i \in DOMAIN all |-> h[i]]
        /\ \A i \in DOMAIN all : h[i] \in Seq(P)
    BY <1>2, <1>5, <1>6
  <2> HIDE DEF all
  <2>2. /\ FlattenSeq(h) \in Seq(P)
        /\ \A x : x \in ToSet(FlattenSeq(h)) <=> \E i \in DOMAIN all : x \in ToSet(h[i])
    BY <2>1, FlattenEach
  <2> QED BY <2>2 DEF all
<1>12. AllPlaced(about) BY <1>5, <1>7 DEF AllPlaced
<1> HIDE DEF about
<1>8. rest \in Seq(P) /\ AllPlaced(rest) /\ (ToSet(rest) = {} => ToSet(about) = {})
  <2>1. CASE statuses = <<>>
    <3>1. rest = <<none>> BY <2>1
    <3>2. ToSet(<<none>>) = {none} BY DEF ToSet
    <3> HIDE DEF rest
    <3> QED BY <1>3, <1>11, <3>1, <3>2 DEF AllPlaced
  <2>2. CASE statuses # <<>> /\ said BY <1>7, <1>12, <2>2
  <2>3. CASE statuses # <<>> /\ ~said
    <3>1. rest = Append(about, last) BY <2>3
    <3> HIDE DEF rest
    <3>2. Append(about, last) = about \o <<last>> BY <1>3, <1>7
    <3>3. <<last>> \in Seq(P) BY <1>3
    <3>4. about \o <<last>> \in Seq(P) /\ ToSet(about \o <<last>>) = ToSet(about) \cup ToSet(<<last>>)
      <4> DEFINE t == <<last>>
      <4>1. t \in Seq(P) BY <3>3
      <4> HIDE DEF t
      <4>2. about \o t \in Seq(P) /\ ToSet(about \o t) = ToSet(about) \cup ToSet(t) BY <1>7, <4>1, ConcatMembers
      <4> QED BY <4>2 DEF t
    <3>5. ToSet(<<last>>) = {last} BY DEF ToSet
    <3>6. AllPlaced(about \o <<last>>) BY <1>11, <1>12, <3>4, <3>5 DEF AllPlaced
    <3> QED BY <3>1, <3>2, <3>4, <3>6
  <2> QED BY <2>1, <2>2, <2>3
<1> HIDE DEF rest
<1>9. missing \o rest \in Seq(P) /\ ToSet(missing \o rest) = ToSet(missing) \cup ToSet(rest)
  BY <1>4, <1>8, ConcatMembers
<1>13. AllPlaced(missing \o rest) BY <1>4, <1>8, <1>9 DEF AllPlaced
<1> QED BY <1>1, <1>5, <1>7, <1>8, <1>9, <1>13 DEF P, route

\* The routes of the paths have no status against them.
RoutesFine == \A r \in ToSet(PathRoutes) : \A status \in ToSet(world.routes[r].statuses) : StatusFine(status)

LEMMA ParentsAdd ==
    ASSUME PathInv, ReportTyped, checkParents
    PROVE  /\ Adds(report, report', RouteChecks)
           /\ \A d \in report'.diagnoses : d \in report.diagnoses \/ Placed(d.check, d.about)
           /\ ~Alarmed(report'.results) => RoutesFine
<1>1. world \in World /\ opts \in Option /\ report.problems \in Nat BY LegalCases DEF Legal, ReportTyped
<1> DEFINE f == [i \in DOMAIN PathRoutes |-> RouteProblems(PathRoutes[i])]
           problems == FlattenSeq(f)
           P == ProblemsOf(RouteChecks)
<1>2. report' = addProblems(report, problems) BY DEF checkParents
<1>3. PathRoutes \in Seq(RouteScope) BY PathRoutesAre
<1>4. ASSUME NEW i \in DOMAIN PathRoutes
      PROVE  /\ f[i] \in Seq(P) /\ AllPlaced(f[i])
             /\ ToSet(f[i]) = {} =>
                   \A j \in DOMAIN world.routes[PathRoutes[i]].statuses :
                      StatusFine(world.routes[PathRoutes[i]].statuses[j])
  <2> DEFINE r == PathRoutes[i]
  <2>1. r \in DOMAIN world.routes BY <1>3, ElementType, ScopeParts
  <2>2. f[i] = RouteProblems(r) OBVIOUS
  <2> HIDE DEF f, r
  <2>3. RouteProblems(r) \in Seq(P) /\ AllPlaced(RouteProblems(r)) /\ (ToSet(RouteProblems(r)) = {} =>
                 \A j \in DOMAIN world.routes[r].statuses : StatusFine(world.routes[r].statuses[j]))
    BY <1>1, <2>1, RouteProblemsAre
  <2> QED BY <2>2, <2>3 DEF r
<1>5. DOMAIN f = DOMAIN PathRoutes /\ f = [i \in DOMAIN PathRoutes |-> f[i]] OBVIOUS
<1> HIDE DEF f, P
<1>6. /\ problems \in Seq(P)
      /\ \A x : x \in ToSet(problems) <=> \E i \in DOMAIN PathRoutes : x \in ToSet(f[i])
  BY <1>3, <1>4, <1>5, FlattenEach
<1>9. AllPlaced(problems) BY <1>4, <1>6 DEF AllPlaced
<1> HIDE DEF problems
<1>10. \A d \in report'.diagnoses : d \in report.diagnoses \/ Placed(d.check, d.about)
  <2>1. ASSUME NEW d \in report'.diagnoses, d \notin report.diagnoses
        PROVE  \E p \in ToSet(problems) : d = Diagnosis(p.result.check, p.result.about)
    BY <1>2, <2>1, AddedDiagnoses
  <2> QED BY <1>9, <2>1 DEF AllPlaced, Diagnosis
<1>7. Adds(report, report', RouteChecks) BY <1>1, <1>2, <1>6, AddProblemsAre DEF P
<1>8. ASSUME ~Alarmed(report'.results) PROVE RoutesFine
  <2>1. ToSet(problems) = {} BY <1>1, <1>2, <1>6, <1>8, QuietProblems DEF P
  <2>2. \A i \in DOMAIN PathRoutes : ToSet(f[i]) = {} BY <1>6, <2>1
  <2> SUFFICES ASSUME NEW r \in ToSet(PathRoutes), NEW status \in ToSet(world.routes[r].statuses)
               PROVE  StatusFine(status)
    BY DEF RoutesFine
  <2>3. PICK i \in DOMAIN PathRoutes : PathRoutes[i] = r BY DEF ToSet
  <2>4. PICK j \in DOMAIN world.routes[r].statuses : world.routes[r].statuses[j] = status BY DEF ToSet
  <2> QED BY <1>4, <2>2, <2>3, <2>4
<1> QED BY <1>7, <1>8, <1>10


\* Where a Service is expected, some path leads to it.
ExpectedMet == opts.expect[2] # 0 => \E ref \in References : Expected(BackendAt(ref))

LEMMA ExpectedAdds ==
    ASSUME opts \in Option, ReportTyped, checkExpected
    PROVE  Adds(report, report', {"expected"}) /\ (~Alarmed(report'.results) => ExpectedMet)
<1>1. report.problems \in Nat BY DEF ReportTyped
<1>2. CASE opts.expect[2] = 0 \/ \E ref \in References : Expected(BackendAt(ref))
  <2>1. report' = report /\ ExpectedMet BY <1>2 DEF checkExpected, ExpectedMet
  <2> QED BY <1>1, <2>1, AddsNothing
<1>3. CASE ~(opts.expect[2] = 0 \/ \E ref \in References : Expected(BackendAt(ref)))
  <2> DEFINE problem == Fail("expected", <<>>)
  <2>1. report' = addProblem(report, problem) BY <1>3 DEF checkExpected
  <2>2. problem \in ProblemsOf({"expected"})
    <3>1. <<>> \in Seq(Nat) /\ "expected" \in {"expected"} OBVIOUS
    <3> QED BY <3>1, FailType
  <2> HIDE DEF problem
  <2>3. /\ Adds(report, addProblem(report, problem), {"expected"})
        /\ report.problems = 0 => Alarmed(addProblem(report, problem).results)
    BY <1>1, <2>2, AddProblemIs
  <2>4. report.problems # 0 => Alarmed(report.results) BY <1>1 DEF ReportTyped
  <2>5. Alarmed(report'.results) BY <2>1, <2>3, <2>4 DEF Adds, Alarmed
  <2> QED BY <2>1, <2>3, <2>5
<1> QED BY <1>2, <1>3

LEMMA MirrorAdds ==
    ASSUME ReportTyped, checkMirror
    PROVE  Adds(report, report', {"mirror"})
<1>1. report.problems \in Nat BY DEF ReportTyped
<1>2. PICK ref : report' = report
                 \/ report' = Add(report, {Result("mirror", ref, "conditional-routing")}, {Diagnosis("mirror", ref)})
  BY DEF checkMirror
<1>3. Adds(report, report, {"mirror"}) BY <1>1, AddsNothing
<1>4. Adds(report, Add(report, {Result("mirror", ref, "conditional-routing")}, {Diagnosis("mirror", ref)}), {"mirror"})
  BY <1>1, AddIs DEF Result, Diagnosis, Statuses, Warnings
<1> QED BY <1>2, <1>3, <1>4

BackendChecks == {"backend", "endpoints"}

LEMMA BackendProblemType ==
    ASSUME NEW ref \in Seq(Nat), NEW problem
    PROVE  BackendProblem(ref, problem) \in ProblemsOf(BackendChecks)
<1> DEFINE told == ~Mixed(SubSeq(ref, 1, 2))
<1>1. told \in BOOLEAN OBVIOUS
<1>2. "unsupported-ref" \in {"FAIL"} \cup Warnings /\ "api-inspection" \in {"FAIL"} \cup Warnings
      /\ "backend" \in BackendChecks /\ "endpoints" \in BackendChecks
  BY DEF Warnings, BackendChecks
<1>3. CASE problem = "kind"
  <2>1. BackendProblem(ref, problem) = Problem("backend", ref, "unsupported-ref", told) BY <1>3 DEF BackendProblem
  <2> HIDE DEF told
  <2> QED BY <1>1, <1>2, <2>1, ProblemType
<1>4. CASE problem = "unread"
  <2>1. BackendProblem(ref, problem) = Problem("endpoints", ref, "api-inspection", FALSE) BY <1>4 DEF BackendProblem
  <2> QED BY <1>2, <2>1, ProblemType
<1>5. CASE problem \notin {"kind", "unread"}
  <2>1. BackendProblem(ref, problem) = Problem("backend", ref, "FAIL", told) BY <1>5 DEF BackendProblem
  <2> HIDE DEF told
  <2> QED BY <1>1, <1>2, <2>1, ProblemType
<1> QED BY <1>3, <1>4, <1>5

LEMMA ScanAdds ==
    ASSUME PathInv, ReportTyped, scan
    PROVE  Adds(report, report', BackendChecks)
<1>1. opts \in Option /\ report.problems \in Nat BY LegalCases DEF Legal, ReportTyped
<1> DEFINE ref == ReferenceOf(paths[at])
<1>2. at \in DOMAIN paths BY DEF scan
<1>3. ref \in Seq(Nat) BY <1>2, ReferenceParts
<1>4. report' = report \/ \E problem : report' = addProblem(report, BackendProblem(ref, problem))
  BY DEF scan
<1>5. Adds(report, report, BackendChecks) BY <1>1, AddsNothing
<1> HIDE DEF ref
<1>6. ASSUME NEW problem PROVE Adds(report, addProblem(report, BackendProblem(ref, problem)), BackendChecks)
  BY <1>1, <1>3, BackendProblemType, AddProblemIs
<1> QED BY <1>4, <1>5, <1>6

LEMMA ScannedAdds ==
    ASSUME ReportTyped, scanned
    PROVE  Adds(report, report', {"weighted"})
<1> DEFINE rules == {SubSeq(ref, 1, 2) : ref \in DOMAIN analyses}
           broken == {ref \in DOMAIN analyses : Mixed(SubSeq(ref, 1, 2)) /\ Broken(analyses[ref])}
           results == {Result("weighted", rule, "conditional-routing") : rule \in {r \in rules : Mixed(r)}}
           diagnoses == {Diagnosis("weighted", ref) : ref \in broken}
<1>1. report' = Add(report, results, diagnoses) BY DEF scanned
<1>2. \A r \in results : r.check \in {"weighted"} /\ r.status \in Statuses BY DEF Result, Statuses, Warnings
<1>3. \A d \in diagnoses : d.check \in {"weighted"} BY DEF Diagnosis
<1> HIDE DEF results, diagnoses
<1>4. Adds(report, Add(report, results, diagnoses), {"weighted"}) BY <1>2, <1>3, AddIs DEF ReportTyped
<1> QED BY <1>1, <1>4

LEMMA DataplaneAdds ==
    ASSUME ReportTyped, dataplane
    PROVE  Adds(report, report', {"services", "dataplane"})
<1> DEFINE checks == {"services", "dataplane"}
           g == PathGateways[at]
           KeysOf(list) == [i \in DOMAIN list.services |-> <<world.gateways[g].namespace, list.services[i].name>>]
           CountsOf(list, read) == [i \in DOMAIN KeysOf(list) |-> Recall(ready, KeysOf(list)[i], read[KeysOf(list)[i]])]
           EmptyOf(list, read) == {i \in DOMAIN CountsOf(list, read) : CountsOf(list, read)[i] = "none"}
<1>1. PICK list \in world.implementation[g] :
         \E read \in [ToSet(KeysOf(list)) -> {"error", "none", "ready"}] :
            report' = Add(report, DataplaneResults(g, list, CountsOf(list, read)),
                          {Diagnosis("dataplane", <<g>>) :
                              x \in IF report.diagnoses = {} THEN EmptyOf(list, read) ELSE {}})
  BY Zenon DEF dataplane
<1>2. PICK counts, empty :
         report' = Add(report, DataplaneResults(g, list, counts),
                       {Diagnosis("dataplane", <<g>>) : x \in IF report.diagnoses = {} THEN empty ELSE {}})
  BY <1>1, Zenon
<1> DEFINE results == DataplaneResults(g, list, counts)
           diagnoses == {Diagnosis("dataplane", <<g>>) : x \in IF report.diagnoses = {} THEN empty ELSE {}}
<1>3. \A r \in results : r.check \in checks /\ r.status \in Statuses
  BY DEF DataplaneResults, Result, Statuses, Warnings
<1>4. \A d \in diagnoses : d.check \in checks BY DEF Diagnosis
<1>5. report' = Add(report, results, diagnoses) BY <1>2
<1> HIDE DEF results, diagnoses, checks
<1>6. Adds(report, Add(report, results, diagnoses), checks) BY <1>3, <1>4, AddIs DEF ReportTyped
<1> QED BY <1>5, <1>6 DEF checks

RoundChecks == {"dial", "outside", "in-cluster", "debug-pod"} \cup ProbeChecks

LEMMA CannotAdds ==
    ASSUME ReportTyped, cannotProbe
    PROVE  Adds(report, report', {"probe"})
<1> DEFINE results == Skipped("probe", <<paths[at][1]>>)
<1>1. report' = Add(report, results, {}) BY DEF cannotProbe
<1>2. \A r \in results : r.check \in {"probe"} /\ r.status \in Statuses BY DEF Skipped, Result, Statuses, Warnings
<1> HIDE DEF results
<1>3. Adds(report, Add(report, results, {}), {"probe"})
  <2>1. \A d \in {} : d.check \in {"probe"} OBVIOUS
  <2> QED BY <1>2, <2>1, AddIs DEF ReportTyped
<1> QED BY <1>1, <1>3

LEMMA ConcludeAdds ==
    ASSUME ReportTyped, conclude
    PROVE  /\ Adds(report, report', {"matched-backends"})
           /\ \/ report' = report /\ Alarmed(report.results)
              \/ report' = Add(report, {Result("matched-backends", <<>>, "PASS")}, {}) /\ ~Alarmed(report.results)
<1> DEFINE results == {Result("matched-backends", <<>>, "PASS")}
<1>1. \/ report' = report /\ \E r \in report.results : r.status \in Warnings \cup {"FAIL"}
      \/ report' = Add(report, results, {}) /\ ~\E r \in report.results : r.status \in Warnings \cup {"FAIL"}
  BY DEF conclude
<1>2. (\E r \in report.results : r.status \in Warnings \cup {"FAIL"}) <=> Alarmed(report.results)
  BY DEF ReportTyped, Statuses, Alarmed, Warnings
<1>3. Adds(report, report, {"matched-backends"}) BY AddsNothing DEF ReportTyped
<1>4. \A r \in results : r.check \in {"matched-backends"} /\ r.status \in Statuses BY DEF Result, Statuses
<1> HIDE DEF results
<1>5. Adds(report, Add(report, results, {}), {"matched-backends"})
  <2>1. \A d \in {} : d.check \in {"matched-backends"} OBVIOUS
  <2> QED BY <1>4, <2>1, AddIs DEF ReportTyped
<1> QED BY <1>1, <1>2, <1>3, <1>5 DEF results

FilterChecks == {"class-filter", "gateway-filter", "route-filter"}
EndChecks == FilterChecks \cup {"limit"}

LEMMA MissesAre == FilterMisses \in Seq(ProblemsOf(FilterChecks))
<1> DEFINE P == ProblemsOf(FilterChecks)
           x1 == Fail("class-filter", <<>>)
           x2 == Fail("gateway-filter", <<>>)
           x3 == Fail("route-filter", <<>>)
           s1 == IF opts.class # 0 THEN <<x1>> ELSE <<>>
           s2 == IF opts.gateways # None /\ InNamespace(Scope("Gateway")) = {} THEN <<x2>> ELSE <<>>
           s3 == IF opts.routes # None /\ RouteScope = {} THEN <<x3>> ELSE <<>>
<1>1. x1 \in P /\ x2 \in P /\ x3 \in P
  <2>1. <<>> \in Seq(Nat) OBVIOUS
  <2> QED BY <2>1, FailType DEF FilterChecks
<1>2. FilterMisses = (s1 \o s2) \o s3 BY DEF FilterMisses
<1> HIDE DEF P, x1, x2, x3
<1>3. <<x1>> \in Seq(P) /\ <<x2>> \in Seq(P) /\ <<x3>> \in Seq(P) /\ <<>> \in Seq(P) BY <1>1
<1>4. s1 \in Seq(P) /\ s2 \in Seq(P) /\ s3 \in Seq(P) BY <1>3
<1> HIDE DEF s1, s2, s3
<1>5. (s1 \o s2) \o s3 \in Seq(P) BY <1>4
<1> QED BY <1>2, <1>5 DEF P

LEMMA FinishAdds ==
    ASSUME opts \in Option, ReportTyped, finishScan
    PROVE  Adds(report, report', EndChecks)
<1> DEFINE all == addProblems(report, FilterMisses)
<1>1. report.problems \in Nat BY DEF ReportTyped
<1>2. report' = Add(all, Truncated(all), {}) BY DEF finishScan
<1>3. FilterMisses \in Seq(ProblemsOf(EndChecks))
  <2>1. ProblemsOf(FilterChecks) \subseteq ProblemsOf(EndChecks) BY DEF ProblemsOf, EndChecks
  <2> QED BY <2>1, MissesAre
<1>4. Adds(report, all, EndChecks) BY <1>1, <1>3, AddProblemsAre
<1> HIDE DEF all
<1>5. all.problems \in Nat BY <1>4 DEF Adds
<1> DEFINE results == Truncated(all)
<1>6. \A r \in results : r.check \in EndChecks /\ r.status \in Statuses
  BY DEF Truncated, Result, EndChecks, Statuses, Warnings
<1> HIDE DEF results
<1>7. Adds(all, Add(all, results, {}), EndChecks)
  <2>1. \A d \in {} : d.check \in EndChecks OBVIOUS
  <2> QED BY <1>5, <1>6, <2>1, AddIs
<1> QED BY <1>1, <1>2, <1>4, <1>7, AddsFurther DEF results

LEMMA GenericAdds ==
    ASSUME ReportTyped, generic
    PROVE  Adds(report, report', {"generic"})
<1> DEFINE diagnoses == {Diagnosis("generic", <<>>)}
<1>1. report' = report \/ report' = Add(report, {}, diagnoses) BY DEF generic
<1>2. Adds(report, report, {"generic"}) BY AddsNothing DEF ReportTyped
<1>3. \A d \in diagnoses : d.check \in {"generic"} BY DEF Diagnosis
<1> HIDE DEF diagnoses
<1>4. Adds(report, Add(report, {}, diagnoses), {"generic"})
  <2>1. \A r \in {} : r.check \in {"generic"} /\ r.status \in Statuses OBVIOUS
  <2> QED BY <1>3, <2>1, AddIs DEF ReportTyped
<1> QED BY <1>1, <1>2, <1>4


-------------------------------------------------------------------------------
(* What a step may say, and the types of what it keeps.                    *)

ListNames ==
    {"GatewayClass", "Gateway", "parents", "HTTPRoute", "GRPCRoute", "TLSRoute", "TCPRoute", "UDPRoute", "ListenerSet",
     "BackendTLSPolicy", "XBackendTrafficPolicy", "Backend", "BackendTrafficPolicy", "ClientTrafficPolicy",
     "SecurityPolicy", "EnvoyExtensionPolicy", "EnvoyPatchPolicy", "EnvoyProxy", "HTTPRouteFilter", "ReferenceGrant"}

LEMMA NamesAre == ToSet(Lists) = ListNames
<1>1. DOMAIN Lists = 1..20 BY DEF Lists
<1>2. /\ Lists[1] = "GatewayClass" /\ Lists[2] = "Gateway" /\ Lists[3] = "parents"
      /\ Lists[4] = "HTTPRoute" /\ Lists[5] = "GRPCRoute" /\ Lists[6] = "TLSRoute"
      /\ Lists[7] = "TCPRoute" /\ Lists[8] = "UDPRoute" /\ Lists[9] = "ListenerSet"
      /\ Lists[10] = "BackendTLSPolicy" /\ Lists[11] = "XBackendTrafficPolicy" /\ Lists[12] = "Backend"
      /\ Lists[13] = "BackendTrafficPolicy" /\ Lists[14] = "ClientTrafficPolicy" /\ Lists[15] = "SecurityPolicy"
      /\ Lists[16] = "EnvoyExtensionPolicy" /\ Lists[17] = "EnvoyPatchPolicy" /\ Lists[18] = "EnvoyProxy"
      /\ Lists[19] = "HTTPRouteFilter" /\ Lists[20] = "ReferenceGrant"
  BY DEF Lists
<1> HIDE DEF Lists
<1>3. \A i \in 1..20 :
         \/ i = 1 \/ i = 2 \/ i = 3 \/ i = 4 \/ i = 5 \/ i = 6 \/ i = 7 \/ i = 8 \/ i = 9 \/ i = 10
         \/ i = 11 \/ i = 12 \/ i = 13 \/ i = 14 \/ i = 15 \/ i = 16 \/ i = 17 \/ i = 18 \/ i = 19 \/ i = 20
  OBVIOUS
<1>4. ToSet(Lists) \subseteq ListNames BY <1>1, <1>2, <1>3 DEF ToSet, ListNames
<1>5. ListNames \subseteq ToSet(Lists) BY <1>1, <1>2 DEF ToSet, ListNames
<1> QED BY <1>4, <1>5

SideChecks ==
    ListNames \cup SecureChecks
        \cup {"options", "context", "namespace", "expected", "mirror", "services", "dataplane", "probe", "generic"}

PlainChecks == SideChecks \cup RouteChecks

SpecialChecks ==
    {"backend", "endpoints", "weighted", "matched-backends", "dial", "outside", "in-cluster", "debug-pod",
     "client-path", "address", "inside", "upstream", "mesh", "class-filter", "gateway-filter", "route-filter", "limit"}

LEMMA PlainIsNotSpecial == PlainChecks \cap SpecialChecks = {}
BY DEF PlainChecks, SideChecks, SpecialChecks, ListNames, SecureChecks, ListenerChecks, RouteChecks

LEMMA AddsMore ==
    ASSUME NEW older, NEW newer, NEW checks, NEW more, Adds(older, newer, checks), checks \subseteq more
    PROVE  Adds(older, newer, more)
BY DEF Adds

LEMMA SideAdds ==
    ASSUME PathInv, ReportTyped,
           \/ readOptions \/ reachCluster \/ readLists \/ checkListeners \/ checkExpected
           \/ checkMirror \/ mirrorsDone \/ analyze \/ analyzed \/ dataplane \/ dataplaneDone
           \/ cannotProbe \/ probesDone \/ generic \/ finish \/ UNCHANGED vars
    PROVE  Adds(report, report', SideChecks)
<1>0. Legal /\ opts \in Option /\ report.problems \in Nat BY LegalCases DEF Legal, ReportTyped
<1>1. CASE readOptions \/ reachCluster BY <1>1, OptionsAdd, AddsMore DEF SideChecks
<1>2. CASE readLists
  <2>1. Adds(report, report', ListNames) BY <1>0, <1>2, ListsAdd, NamesAre
  <2> QED BY <2>1, AddsMore DEF SideChecks
<1>3. CASE checkListeners
  <2>1. Adds(report, report', SecureChecks) BY <1>0, <1>3, ListenersAdd
  <2> QED BY <2>1, AddsMore DEF SideChecks
<1>4. CASE checkExpected
  <2>1. Adds(report, report', {"expected"}) BY <1>0, <1>4, ExpectedAdds
  <2> QED BY <2>1, AddsMore DEF SideChecks
<1>5. CASE checkMirror
  <2>1. Adds(report, report', {"mirror"}) BY <1>5, MirrorAdds
  <2> QED BY <2>1, AddsMore DEF SideChecks
<1>6. CASE dataplane
  <2>1. Adds(report, report', {"services", "dataplane"}) BY <1>6, DataplaneAdds
  <2> QED BY <2>1, AddsMore DEF SideChecks
<1>7. CASE cannotProbe
  <2>1. Adds(report, report', {"probe"}) BY <1>7, CannotAdds
  <2> QED BY <2>1, AddsMore DEF SideChecks
<1>8. CASE generic
  <2>1. Adds(report, report', {"generic"}) BY <1>8, GenericAdds
  <2> QED BY <2>1, AddsMore DEF SideChecks
<1>9. CASE mirrorsDone \/ analyze \/ analyzed \/ dataplaneDone \/ probesDone \/ finish \/ UNCHANGED vars
  <2>1. report' = report
    BY <1>9 DEF mirrorsDone, analyze, analyzed, dataplaneDone, probesDone, finish, vars
  <2> QED BY <1>0, <2>1, AddsNothing
<1> QED BY <1>1, <1>2, <1>3, <1>4, <1>5, <1>6, <1>7, <1>8, <1>9

LEMMA PlainAdds ==
    ASSUME PathInv, ReportTyped,
           \/ readOptions \/ reachCluster \/ readLists \/ checkListeners \/ checkParents \/ checkExpected
           \/ checkMirror \/ mirrorsDone \/ analyze \/ analyzed \/ dataplane \/ dataplaneDone
           \/ cannotProbe \/ probesDone \/ generic \/ finish \/ UNCHANGED vars
    PROVE  Adds(report, report', PlainChecks)
<1>1. CASE checkParents
  <2>1. Adds(report, report', RouteChecks) BY <1>1, ParentsAdd
  <2> QED BY <2>1, AddsMore DEF PlainChecks
<1>2. CASE \/ readOptions \/ reachCluster \/ readLists \/ checkListeners \/ checkExpected
           \/ checkMirror \/ mirrorsDone \/ analyze \/ analyzed \/ dataplane \/ dataplaneDone
           \/ cannotProbe \/ probesDone \/ generic \/ finish \/ UNCHANGED vars
  <2>1. Adds(report, report', SideChecks) BY <1>2, SideAdds
  <2> QED BY <2>1, AddsMore DEF PlainChecks
<1> QED BY <1>1, <1>2

-------------------------------------------------------------------------------
(* One round of probes.                                                    *)

PortAt(where) ==
    LET listener == world.gateways[where[1]].listeners[where[2]]
    IN  IF listener.port # 0 THEN listener.port ELSE intent.port

\* The Services of a list that a probe from inside would ask.
InClusterAt(where, list) == {<<where[1], where[2]>> \o service : service \in ServicesForPort(list, PortAt(where))}

Tried(where) == \A a \in world.gateways[where[1]].addresses : <<where[1], where[2], a>> \in probed

\* Nothing is left to ask from inside.
Exhausted(where) ==
    \A list \in world.implementation[where[1]] : ~list.error => InClusterAt(where, list) \subseteq probed

LEMMA ServicesNumbers ==
    ASSUME NEW list \in Implementation, NEW port \in Nat, NEW service \in ServicesForPort(list, port)
    PROVE  service \in Nat \X Nat
<1>1. list.services \in Seq([name : Nat, ports : Seq(Nat)]) BY DEF Implementation
<1>2. \A i \in DOMAIN list.services : list.services[i].name \in Nat /\ list.services[i].ports \in Seq(Nat)
  <2> DEFINE services_1 == list.services
  <2>1. \A i \in DOMAIN services_1 : services_1[i] \in [name : Nat, ports : Seq(Nat)]
    <3> HIDE DEF services_1
    <3>1. services_1 \in Seq([name : Nat, ports : Seq(Nat)]) BY <1>1 DEF services_1
    <3> QED BY <3>1, ElementType
  <2> QED BY <2>1
<1>3. \A i \in DOMAIN list.services : Len(list.services[i].ports) = 1 => list.services[i].ports[1] \in Nat
  <2>1. \A s \in Seq(Nat) : Len(s) = 1 => s[1] \in Nat OBVIOUS
  <2> QED BY <1>2, <2>1
<1> QED BY <1>2, <1>3 DEF ServicesForPort


\* More tuples.
LEMMA TwoAndTwo ==
    ASSUME NEW S, NEW a \in S, NEW b \in S, NEW c \in S, NEW d \in S
    PROVE  <<a, b>> \o <<c, d>> = <<a, b, c, d>>
<1> DEFINE s == <<a, b>> t == <<c, d>> u == <<a, b, c, d>>
<1>1. s \in Seq(S) /\ t \in Seq(S) /\ u \in Seq(S) /\ Len(s) = 2 /\ Len(t) = 2 /\ Len(u) = 4 OBVIOUS
<1>2. s[1] = a /\ s[2] = b /\ t[1] = c /\ t[2] = d /\ u[1] = a /\ u[2] = b /\ u[3] = c /\ u[4] = d OBVIOUS
<1> HIDE DEF s, t, u
<1> DEFINE v == s \o t
<1>3. /\ v \in Seq(S) /\ Len(v) = Len(s) + Len(t)
      /\ \A i \in 1..(Len(s) + Len(t)) : v[i] = IF i <= Len(s) THEN s[i] ELSE t[i - Len(s)]
    BY <1>1, ConcatProperties, Zenon
<1> HIDE DEF v
<1>4. \A i \in 1..4 : v[i] = IF i <= 2 THEN s[i] ELSE t[i - 2] BY <1>1, <1>3
<1>5. v[1] = s[1] /\ v[2] = s[2] /\ v[3] = t[1] /\ v[4] = t[2] BY <1>4
<1>6. \A i \in 1..4 : v[i] = u[i] BY <1>2, <1>5
<1>7. Len(v) = Len(u) /\ v \in Seq(S) /\ u \in Seq(S) /\ \A i \in 1..Len(v) : v[i] = u[i] BY <1>1, <1>3, <1>6
<1>8. v = u BY <1>7, SeqEqual, Zenon
<1> QED BY <1>8 DEF s, t, u, v

LEMMA TwoOfTwo ==
    ASSUME NEW S, NEW c \in S, NEW d \in S
    PROVE  SubSeq(<<c, d>>, 1, 2) = <<c, d>>
<1> DEFINE v == <<c, d>> w == SubSeq(v, 1, 2)
<1>1. v \in Seq(S) /\ Len(v) = 2 OBVIOUS
<1> HIDE DEF v
<1>2. w \in Seq(S) /\ Len(w) = 2 /\ \A i \in 1..2 : w[i] = v[1 + i - 1]
  <2>1. 1 \in 1..Len(v) /\ 2 \in 1..Len(v) BY <1>1
  <2>2. 2 - 1 + 1 = 2 OBVIOUS
  <2>3. SubSeq(v, 1, 2) \in Seq(S) /\ Len(SubSeq(v, 1, 2)) = 2 - 1 + 1
        /\ \A i \in 1..(2 - 1 + 1) : SubSeq(v, 1, 2)[i] = v[1 + i - 1]
    BY <1>1, <2>1, SubSeqAt
  <2> QED BY <2>2, <2>3
<1> HIDE DEF w
<1>3. \A i \in 1..2 : w[i] = v[i] BY <1>2
<1>4. w = v BY <1>1, <1>2, <1>3, SeqEqual
<1> QED BY <1>4 DEF v, w


-------------------------------------------------------------------------------
(* What one round of probes says.                                          *)

Where == <<paths[at][1], paths[at][2]>>

\* What is found from outside, at some addresses.
TriedNow(outside) ==
    IF opts.dial = "invalid" THEN Skipped("dial", Where)
    ELSE {Result("outside", <<paths[at][1], paths[at][2], a>>, outside[a]) : a \in DOMAIN outside}

AddressesOf(outside) == {<<paths[at][1], paths[at][2], a>> : a \in DOMAIN outside}

\* That a diagnosis of this round is justified by what it found.
Blames(check, outside, list, more) ==
    /\ check \in {"client-path", "address"} => HasFail(TriedNow(outside)) /\ ~Passed(TriedNow(outside))
    /\ check = "client-path" => Result("inside", Where, "PASS") \in more
    /\ check = "inside" =>
          /\ Result("inside", Where, "FAIL") \in more
          /\ ~Passed(TriedNow(outside))
          /\ ~list.error /\ ~(InClusterAt(Where, list) \subseteq probed)

InsideChecks == {"in-cluster", "debug-pod", "inside", "mesh"}

Finds(outside, list, round, more, diagnoses, asked, pods) ==
    /\ round.report = Add(report, TriedNow(outside) \cup more, diagnoses)
    /\ round.probed = probed \cup AddressesOf(outside) \cup asked
    /\ round.debugPods = debugPods \cup pods
    /\ asked \subseteq InClusterAt(Where, list) /\ pods \subseteq {world.gateways[paths[at][1]].namespace}
    /\ IsFiniteSet(more) /\ \A r \in more : r.check \in InsideChecks /\ r.status \in Statuses
    /\ \/ Result("in-cluster", Where, "WARN") \in more
       \/ ~list.error /\ InClusterAt(Where, list) \subseteq probed \cup asked
    /\ \/ diagnoses = {}
       \/ /\ report.diagnoses = {}
          /\ \E check \in ProbeChecks : diagnoses = {Diagnosis(check, Where)} /\ Blames(check, outside, list, more)

LEMMA RoundIs ==
    ASSUME NEW outside, NEW list, NEW pod, NEW inside \in {"PASS", "upstream", "FAIL"}, NEW mesh
    PROVE  \E more, diagnoses, asked, pods :
              Finds(outside, list, Round(outside, list, pod, inside, mesh), more, diagnoses, asked, pods)
<1> DEFINE namespace == world.gateways[paths[at][1]].namespace
           found == ServicesForPort(list, PathPort)
           inCluster == {Where \o service : service \in found}
           addresses == AddressesOf(outside)
           tried == TriedNow(outside)
           round == Round(outside, list, pod, inside, mesh)
           blame(check) == ClientBlame(check, Where, tried)
           hasPod == namespace \in debugPods \/ pod
           silent == report.diagnoses = {}
           outcome ==
            CASE inside = "PASS" ->
                    [results |-> {Result("inside", Where, "PASS")}, diagnoses |-> blame("client-path")]
              [] inside = "upstream" ->
                    [results |-> {Result("inside", Where, "PASS")}
                                     \cup (IF silent /\ mesh THEN {Result("mesh", Where, "FAIL")} ELSE {}),
                     diagnoses |-> IF silent THEN {Diagnosis(IF mesh THEN "mesh" ELSE "upstream", Where)} ELSE {}]
              [] inside = "FAIL" ->
                    [results |-> {Result("inside", Where, "FAIL")},
                     diagnoses |-> IF silent /\ ~Passed(tried) THEN {Diagnosis("inside", Where)} ELSE {}]
<1>1. InClusterAt(Where, list) = inCluster
  <2>1. Where[1] = paths[at][1] /\ Where[2] = paths[at][2] BY DEF Where
  <2>2. PortAt(Where) = PathPort BY <2>1 DEF PortAt, PathPort, PathListener
  <2> QED BY <2>1, <2>2 DEF InClusterAt, Where
<1>2. round =
         IF list.error \/ found = {}
         THEN [report |-> Add(report, tried \cup Skipped("in-cluster", Where), blame("address")),
               probed |-> probed \cup addresses, debugPods |-> debugPods]
         ELSE IF inCluster \subseteq probed
         THEN [report |-> Add(report, tried, {}), probed |-> probed \cup addresses, debugPods |-> debugPods]
         ELSE IF ~hasPod
         THEN [report |-> Add(report, tried \cup Skipped("debug-pod", <<namespace>>), blame("address")),
               probed |-> probed \cup addresses \cup inCluster, debugPods |-> debugPods]
         ELSE [report |-> Add(report, tried \cup outcome.results, outcome.diagnoses),
               probed |-> probed \cup addresses \cup inCluster, debugPods |-> debugPods \cup {namespace}]
  BY Zenon DEF Round, TriedNow, AddressesOf, Where
<1>3. ASSUME NEW check \in {"client-path", "address"}
      PROVE  \/ blame(check) = {}
             \/ /\ report.diagnoses = {} /\ blame(check) = {Diagnosis(check, Where)}
                /\ HasFail(TriedNow(outside)) /\ ~Passed(TriedNow(outside))
  BY DEF ClientBlame
<1>4. "client-path" \in ProbeChecks /\ "address" \in ProbeChecks /\ "inside" \in ProbeChecks
      /\ "upstream" \in ProbeChecks /\ "mesh" \in ProbeChecks
  BY DEF ProbeChecks
<1> HIDE DEF tried, addresses, inCluster, blame, round, hasPod
<1>5. CASE list.error \/ found = {}
  <2> DEFINE more == Skipped("in-cluster", Where)
             diagnoses == blame("address")
  <2>1. round = [report |-> Add(report, tried \cup more, diagnoses), probed |-> probed \cup addresses,
                 debugPods |-> debugPods]
    BY <1>2, <1>5
  <2>2. \A r \in more : r.check \in InsideChecks /\ r.status \in Statuses
    BY DEF Skipped, Result, InsideChecks, Statuses, Warnings
  <2>3. Result("in-cluster", Where, "WARN") \in more BY DEF Skipped
  <2>6. IsFiniteSet(more) BY FS_Singleton DEF Skipped
  <2>4. \/ diagnoses = {}
        \/ /\ report.diagnoses = {} /\ diagnoses = {Diagnosis("address", Where)}
           /\ Blames("address", outside, list, more)
    BY <1>3 DEF Blames
  <2> HIDE DEF more, diagnoses
  <2>5. Finds(outside, list, round, more, diagnoses, {}, {})
    BY <1>4, <2>1, <2>2, <2>3, <2>4, <2>6 DEF Finds, tried, addresses
  <2> QED BY <2>5 DEF round
<1>6. CASE ~(list.error \/ found = {}) /\ inCluster \subseteq probed
  <2>1. round = [report |-> Add(report, tried, {}), probed |-> probed \cup addresses, debugPods |-> debugPods]
    BY <1>2, <1>6
  <2>2. tried \cup {} = tried OBVIOUS
  <2>4. IsFiniteSet({}) BY FS_EmptySet
  <2>3. Finds(outside, list, round, {}, {}, {}, {})
    BY <1>1, <1>6, <2>1, <2>2, <2>4 DEF Finds, tried, addresses
  <2> QED BY <2>3 DEF round
<1>7. CASE ~(list.error \/ found = {}) /\ ~(inCluster \subseteq probed) /\ ~hasPod
  <2> DEFINE more == Skipped("debug-pod", <<namespace>>)
             diagnoses == blame("address")
  <2>1. round = [report |-> Add(report, tried \cup more, diagnoses),
                 probed |-> probed \cup addresses \cup inCluster, debugPods |-> debugPods]
    BY <1>2, <1>7
  <2>2. \A r \in more : r.check \in InsideChecks /\ r.status \in Statuses
    BY DEF Skipped, Result, InsideChecks, Statuses, Warnings
  <2>3. IsFiniteSet(more) BY FS_Singleton DEF Skipped
  <2>4. \/ diagnoses = {}
        \/ /\ report.diagnoses = {} /\ diagnoses = {Diagnosis("address", Where)}
           /\ Blames("address", outside, list, more)
    BY <1>3 DEF Blames
  <2> HIDE DEF more, diagnoses
  <2>5. Finds(outside, list, round, more, diagnoses, inCluster, {})
    BY <1>1, <1>4, <1>7, <2>1, <2>2, <2>3, <2>4 DEF Finds, tried, addresses
  <2> QED BY <2>5 DEF round
<1>8. CASE ~(list.error \/ found = {}) /\ ~(inCluster \subseteq probed) /\ hasPod
  <2> DEFINE more == outcome.results
             diagnoses == outcome.diagnoses
  <2>1. round = [report |-> Add(report, tried \cup more, diagnoses),
                 probed |-> probed \cup addresses \cup inCluster, debugPods |-> debugPods \cup {namespace}]
    BY <1>2, <1>8
  <2>2. /\ \A r \in more : r.check \in InsideChecks /\ r.status \in Statuses
        /\ \/ diagnoses = {}
           \/ /\ report.diagnoses = {}
              /\ \E check \in ProbeChecks :
                    diagnoses = {Diagnosis(check, Where)} /\ Blames(check, outside, list, more)
    <3>1. CASE inside = "PASS"
      <4>1. more = {Result("inside", Where, "PASS")} /\ diagnoses = blame("client-path") BY <3>1
      <4> HIDE DEF more, diagnoses
      <4>2. blame("client-path") # {} => Blames("client-path", outside, list, more) BY <1>3, <4>1 DEF Blames
      <4> QED BY <1>3, <1>4, <4>1, <4>2 DEF Result, InsideChecks, Statuses
    <3>2. CASE inside = "upstream"
      <4>1. /\ more = {Result("inside", Where, "PASS")}
                          \cup (IF silent /\ mesh THEN {Result("mesh", Where, "FAIL")} ELSE {})
            /\ diagnoses = IF silent THEN {Diagnosis(IF mesh THEN "mesh" ELSE "upstream", Where)} ELSE {}
        BY <3>2
      <4> HIDE DEF more, diagnoses
      <4>2. Blames("mesh", outside, list, more) /\ Blames("upstream", outside, list, more) BY DEF Blames
      <4>3. \A r \in more : r.check \in InsideChecks /\ r.status \in Statuses
        BY <4>1 DEF Result, InsideChecks, Statuses
      <4> QED BY <1>4, <4>1, <4>2, <4>3
    <3>3. CASE inside = "FAIL"
      <4>1. /\ more = {Result("inside", Where, "FAIL")}
            /\ diagnoses = IF silent /\ ~Passed(tried) THEN {Diagnosis("inside", Where)} ELSE {}
        BY <3>3
      <4> HIDE DEF more, diagnoses
      <4>2. ~Passed(tried) => Blames("inside", outside, list, more)
        BY <1>1, <1>8, <4>1 DEF Blames, tried
      <4> QED BY <1>4, <4>1, <4>2 DEF Result, InsideChecks, Statuses
    <3> QED BY <3>1, <3>2, <3>3
  <2>4. IsFiniteSet(more)
    <3> DEFINE all == ({Result("inside", Where, "PASS")} \cup {Result("inside", Where, "FAIL")})
                          \cup {Result("mesh", Where, "FAIL")}
    <3>1. IsFiniteSet(all) BY FS_Singleton, FS_Union
    <3>2. more \in SUBSET all OBVIOUS
    <3> HIDE DEF all, more
    <3> QED BY <3>1, <3>2, FS_Subset
  <2> HIDE DEF more, diagnoses
  <2>3. Finds(outside, list, round, more, diagnoses, inCluster, {namespace})
    BY <1>1, <1>8, <2>1, <2>2, <2>4 DEF Finds, tried, addresses
  <2> QED BY <2>3 DEF round
<1> QED BY <1>5, <1>6, <1>7, <1>8


\* The addresses that were not tried at this listener.
Fresh == {a \in world.gateways[paths[at][1]].addresses : <<paths[at][1], paths[at][2], a>> \notin probed}

LEMMA ImplementationIs ==
    ASSUME Legal, NEW g \in DOMAIN world.gateways
    PROVE  world.implementation[g] \subseteq Implementation
<1>1. world.implementation \in Seq(SUBSET Implementation) BY DEF Legal, World
<1>2. g \in DOMAIN world.implementation BY DEF Legal
<1> HIDE DEF Implementation
<1>3. world.implementation[g] \in SUBSET Implementation
  <2> DEFINE s == world.implementation
             S == SUBSET Implementation
  <2>1. s \in Seq(S) /\ g \in DOMAIN s BY <1>1, <1>2
  <2> HIDE DEF s, S
  <2>2. s[g] \in S BY <2>1, ElementType
  <2> QED BY <2>2 DEF s, S
<1> QED BY <1>3

\* What a probe found and said.
ProbeFinds(outside, list, after, more, diagnoses, asked, pods) ==
    /\ outside \in [Fresh -> {"PASS", "FAIL"}]
    /\ list \in world.implementation[paths[at][1]] /\ list \in Implementation
    /\ Finds(outside, list, after, more, diagnoses, asked, pods)

LEMMA ProbeIs ==
    ASSUME PathInv, probe
    PROVE  \E outside, list, after, more, diagnoses, asked, pods :
              /\ ProbeFinds(outside, list, after, more, diagnoses, asked, pods)
              /\ report' = after.report /\ probed' = after.probed /\ debugPods' = after.debugPods
<1>1. PICK outside \in [Fresh -> {"PASS", "FAIL"}], list \in world.implementation[paths[at][1]], pod \in BOOLEAN,
           inside \in {"PASS", "upstream", "FAIL"}, mesh \in BOOLEAN :
         LET round == Round(outside, list, pod, inside, mesh)
         IN  report' = round.report /\ probed' = round.probed /\ debugPods' = round.debugPods
  BY Zenon DEF probe, Fresh
<1>2. PICK after : after = Round(outside, list, pod, inside, mesh) OBVIOUS
<1>3. report' = after.report /\ probed' = after.probed /\ debugPods' = after.debugPods BY <1>1, <1>2
<1>4. at \in DOMAIN paths BY DEF probe
<1>5. world.implementation[paths[at][1]] \subseteq Implementation
  <2>1. paths[at][1] \in DOMAIN world.gateways BY <1>4, PathParts, ScopeParts, LegalCases DEF Legal
  <2> QED BY <2>1, ImplementationIs, LegalCases
<1>6. PICK more, diagnoses, asked, pods : Finds(outside, list, after, more, diagnoses, asked, pods)
  <2>1. \E more, diagnoses, asked, pods :
           Finds(outside, list, Round(outside, list, pod, inside, mesh), more, diagnoses, asked, pods)
    BY RoundIs
  <2> QED BY <1>2, <2>1
<1> HIDE DEF Implementation
<1>7. ProbeFinds(outside, list, after, more, diagnoses, asked, pods) BY <1>5, <1>6 DEF ProbeFinds
<1> QED BY <1>3, <1>7

LEMMA PortIs ==
    ASSUME PathInv, pc = "probe", NEW i \in DOMAIN paths
    PROVE  PortAt(<<paths[i][1], paths[i][2]>>) \in Nat
<1> DEFINE g == paths[i][1] l == paths[i][2]
<1>1. g \in Parents /\ l \in DOMAIN world.gateways[g].listeners BY PathParts
<1>2. world.gateways[g].listeners \in Seq(Listener) BY <1>1, ScopeParts, GatewayParts, LegalCases DEF Legal
<1>3. world.gateways[g].listeners[l].port \in Nat
  <2> DEFINE listeners == world.gateways[g].listeners
  <2>1. listeners \in Seq(Listener) /\ l \in DOMAIN listeners BY <1>1, <1>2
  <2> HIDE DEF listeners
  <2>2. listeners[l] \in Listener BY <2>1, ElementType
  <2>3. listeners[l].port \in 0..MaxPort BY <2>2 DEF Listener
  <2> QED BY <2>3 DEF listeners
<1>4. intent.port \in 0..MaxPort BY DEF PathInv, Intent
<1>5. <<g, l>>[1] = g /\ <<g, l>>[2] = l OBVIOUS
<1> QED BY <1>3, <1>4, <1>5 DEF PortAt

LEMMA InClusterNumbers ==
    ASSUME PathInv, pc = "probe", NEW i \in DOMAIN paths, NEW list \in Implementation
    PROVE  \A x \in InClusterAt(<<paths[i][1], paths[i][2]>>, list) :
              x \in Seq(Nat) /\ \E a \in Nat, b \in Nat : x = <<paths[i][1], paths[i][2], a, b>>
<1> DEFINE where == <<paths[i][1], paths[i][2]>>
           port == PortAt(where)
<1>1. port \in Nat BY PortIs
<1>2. paths[i][1] \in Nat /\ paths[i][2] \in Nat BY PathParts
<1>3. where[1] = paths[i][1] /\ where[2] = paths[i][2] OBVIOUS
<1> SUFFICES ASSUME NEW x \in InClusterAt(where, list)
             PROVE  x \in Seq(Nat) /\ \E a \in Nat, b \in Nat : x = <<paths[i][1], paths[i][2], a, b>>
  OBVIOUS
<1> HIDE DEF where, port
<1>4. PICK service \in ServicesForPort(list, port) : x = <<where[1], where[2]>> \o service
  BY DEF InClusterAt, port
<1>5. service \in Nat \X Nat BY <1>1, ServicesNumbers
<1>6. PICK a \in Nat, b \in Nat : service = <<a, b>> BY <1>5
<1>7. x = <<paths[i][1], paths[i][2], a, b>>
  <2> DEFINE c == paths[i][1] d == paths[i][2]
  <2>1. c \in Nat /\ d \in Nat /\ x = <<c, d>> \o <<a, b>> BY <1>2, <1>3, <1>4, <1>6
  <2> HIDE DEF c, d
  <2>2. x = <<c, d, a, b>> BY <2>1, TwoAndTwo
  <2> QED BY <2>2 DEF c, d
<1> QED BY <1>2, <1>7

LEMMA ProbeAdds ==
    ASSUME PathInv, ReportTyped, probe
    PROVE  Adds(report, report', RoundChecks)
<1>1. PICK outside, list, after, more, diagnoses, asked, pods :
         /\ ProbeFinds(outside, list, after, more, diagnoses, asked, pods)
         /\ report' = after.report
  BY ProbeIs
<1> DEFINE results == TriedNow(outside) \cup more
<1>2. report' = Add(report, results, diagnoses) BY <1>1 DEF ProbeFinds, Finds
<1>3. \A r \in TriedNow(outside) : r.check \in RoundChecks /\ r.status \in Statuses
  BY <1>1 DEF TriedNow, ProbeFinds, Skipped, Result, RoundChecks, Statuses, Warnings
<1>4. \A r \in more : r.check \in RoundChecks /\ r.status \in Statuses
  BY <1>1 DEF ProbeFinds, Finds, InsideChecks, RoundChecks, ProbeChecks
<1>5. \A d \in diagnoses : d.check \in RoundChecks BY <1>1 DEF ProbeFinds, Finds, Diagnosis, RoundChecks
<1>6. \A r \in results : r.check \in RoundChecks /\ r.status \in Statuses BY <1>3, <1>4
<1> HIDE DEF results
<1>7. Adds(report, Add(report, results, diagnoses), RoundChecks) BY <1>5, <1>6, AddIs DEF ReportTyped
<1> QED BY <1>2, <1>7

LEMMA ProbeTypes ==
    ASSUME PathInv, probe, probed \subseteq Seq(Nat), debugPods \subseteq Nat
    PROVE  probed' \subseteq Seq(Nat) /\ debugPods' \subseteq Nat
<1>1. PICK outside, list, after, more, diagnoses, asked, pods :
         /\ ProbeFinds(outside, list, after, more, diagnoses, asked, pods)
         /\ probed' = after.probed /\ debugPods' = after.debugPods
  BY ProbeIs
<1>2. pc = "probe" /\ at \in DOMAIN paths BY DEF probe
<1>3. probed' = probed \cup AddressesOf(outside) \cup asked /\ debugPods' = debugPods \cup pods
  BY <1>1 DEF ProbeFinds, Finds
<1>4. paths[at][1] \in Nat /\ paths[at][2] \in Nat /\ paths[at][1] \in DOMAIN world.gateways
  BY <1>2, PathParts, ScopeParts, LegalCases DEF Legal
<1>5. world.gateways[paths[at][1]].addresses \in SUBSET Nat /\ world.gateways[paths[at][1]].namespace \in Nat
  BY <1>4, GatewayParts, LegalCases DEF Legal
<1>6. DOMAIN outside = Fresh BY <1>1 DEF ProbeFinds
<1>7. AddressesOf(outside) \subseteq Seq(Nat)
  <2> DEFINE g == paths[at][1] l == paths[at][2]
  <2>1. g \in Nat /\ l \in Nat /\ \A a \in DOMAIN outside : a \in Nat BY <1>4, <1>5, <1>6 DEF Fresh
  <2>2. AddressesOf(outside) = {<<g, l, a>> : a \in DOMAIN outside} BY DEF AddressesOf
  <2> HIDE DEF g, l
  <2>3. \A a \in DOMAIN outside : <<g, l, a>> \in Seq(Nat) BY <2>1
  <2> QED BY <2>2, <2>3
<1>8. asked \subseteq InClusterAt(Where, list) /\ pods \subseteq {world.gateways[paths[at][1]].namespace}
      /\ list \in Implementation
  BY <1>1 DEF ProbeFinds, Finds
<1> HIDE DEF Implementation
<1>9. \A x \in InClusterAt(Where, list) : x \in Seq(Nat) BY <1>2, <1>8, InClusterNumbers DEF Where
<1> QED BY <1>3, <1>5, <1>7, <1>8, <1>9


-------------------------------------------------------------------------------
(* Types.                                                                  *)

LEMMA AddsTyped ==
    ASSUME ReportTyped, NEW checks, Adds(report, report', checks)
    PROVE  ReportTyped'
<1>1. report'.problems \in Nat /\ \A r \in report'.results : r.status \in Statuses BY DEF ReportTyped, Adds
<1>2. report'.problems > 0 => Alarmed(report'.results)
  <2>1. Alarmed(report.results) => Alarmed(report'.results) BY DEF Adds, Alarmed
  <2> QED BY <2>1 DEF ReportTyped, Adds
<1> QED BY <1>1, <1>2 DEF ReportTyped

LEMMA DedupeKeepsResults ==
    ASSUME ReportInv, dedupe
    PROVE  report'.results = report.results /\ report'.problems = report.problems
           /\ report'.diagnoses = {d \in report.diagnoses : ~Redundant(d, report.diagnoses)}
BY DEF dedupe, ReportInv, IsReport

LEMMA TypedStep ==
    ASSUME PathInv, ReportInv, ReportTyped, [Next]_vars
    PROVE  ReportTyped'
<1>0. opts \in Option BY LegalCases DEF Legal
<1>1. CASE selectRules
  <2>1. Adds(report, report', Reasons \cup {"redirect"}) BY <1>0, <1>1, SelectAdds
  <2> QED BY <2>1, AddsTyped
<1>2. CASE scan BY <1>2, ScanAdds, AddsTyped
<1>3. CASE scanned BY <1>3, ScannedAdds, AddsTyped
<1>4. CASE probe BY <1>4, ProbeAdds, AddsTyped
<1>5. CASE conclude
  <2>1. Adds(report, report', {"matched-backends"}) BY <1>5, ConcludeAdds
  <2> QED BY <2>1, AddsTyped
<1>6. CASE finishScan BY <1>0, <1>6, FinishAdds, AddsTyped
<1>7. CASE dedupe BY <1>7, DedupeKeepsResults DEF ReportTyped
<1>8. CASE \/ readOptions \/ reachCluster \/ readLists \/ checkListeners \/ checkParents \/ checkExpected
           \/ checkMirror \/ mirrorsDone \/ analyze \/ analyzed \/ dataplane \/ dataplaneDone
           \/ cannotProbe \/ probesDone \/ generic \/ finish \/ UNCHANGED vars
  BY <1>8, PlainAdds, AddsTyped
<1> QED BY <1>1, <1>2, <1>3, <1>4, <1>5, <1>6, <1>7, <1>8 DEF Next

ExitTyped == probed \subseteq Seq(Nat) /\ debugPods \subseteq Nat /\ exit \in {0, 1, Running}

LEMMA ExitStep ==
    ASSUME PathInv, ExitTyped, [Next]_vars
    PROVE  ExitTyped'
<1>1. CASE probe
  <2>1. exit' = exit BY <1>1, Zenon DEF probe
  <2> QED BY <1>1, <2>1, ProbeTypes DEF ExitTyped
<1>2. CASE finish BY <1>2 DEF finish, ExitTyped, probing
<1>3. CASE UNCHANGED <<probing, exit>> BY <1>3 DEF ExitTyped, probing
<1>4. CASE readOptions \/ reachCluster \/ readLists \/ checkListeners \/ selectRules \/ checkParents \/ checkExpected
  BY <1>3, <1>4 DEF readOptions, reachCluster, readLists, checkListeners, selectRules, checkParents, checkExpected
<1>5. CASE checkMirror BY <1>3, <1>5 DEF checkMirror
<1>6. CASE analyze BY <1>3, <1>6 DEF analyze
<1>7. CASE scan BY <1>3, <1>7 DEF scan
<1>8. CASE dataplane
  <2>1. UNCHANGED <<probing, exit>> BY <1>8, Zenon DEF dataplane
  <2> QED BY <1>3, <2>1
<1>9. CASE mirrorsDone \/ analyzed \/ scanned \/ dataplaneDone \/ cannotProbe \/ probesDone
  BY <1>3, <1>9 DEF mirrorsDone, analyzed, scanned, dataplaneDone, cannotProbe, probesDone
<1>10. CASE conclude \/ finishScan \/ dedupe \/ generic
  BY <1>3, <1>10 DEF conclude, finishScan, dedupe, generic
<1>11. CASE UNCHANGED vars BY <1>3, <1>11 DEF vars
<1> QED BY <1>1, <1>2, <1>4, <1>5, <1>6, <1>7, <1>8, <1>9, <1>10, <1>11 DEF Next

\* What is known of every state.
Kept == PathInv /\ CacheInv /\ AnalysisInv /\ ReportInv /\ ReportTyped /\ ExitTyped

LEMMA InitKept == Init => Kept
<1> SUFFICES ASSUME Init PROVE Kept OBVIOUS
<1>1. PathInv /\ ReportInv BY InitPath, InitReport
<1>2. services = <<>> /\ ready = <<>> /\ analyses = <<>> /\ pc = "options" BY DEF Init
<1>3. CacheInv BY <1>2 DEF CacheInv
<1>4. AnalysisInv BY <1>2 DEF AnalysisInv
<1>5. ReportTyped BY DEF Init, ReportTyped
<1>6. ExitTyped BY DEF Init, ExitTyped
<1> QED BY <1>1, <1>3, <1>4, <1>5, <1>6 DEF Kept

LEMMA KeptStep == Kept /\ [Next]_vars => Kept'
<1> SUFFICES ASSUME Kept, [Next]_vars PROVE Kept' OBVIOUS
<1>1. world \in World BY LegalCases DEF Kept, Legal
<1>2. CachesKept BY <1>1, CachesGrow DEF Kept
<1>3. PathInv' /\ ReportInv' BY PathStep, StepReport DEF Kept
<1>4. AnalysisInv' BY AnalysisStep DEF Kept
<1>5. ReportTyped' BY TypedStep DEF Kept
<1>6. ExitTyped' BY ExitStep DEF Kept
<1> QED BY <1>2, <1>3, <1>4, <1>5, <1>6 DEF Kept, CachesKept

(***************************************************************************)
(* In every state the request, the rules that win and their paths belong   *)
(* together, what was read stays, and the analysis of each reference is    *)
(* what reading about it again would give.                                 *)
(***************************************************************************)
THEOREM AlwaysKept == Spec => []Kept
<1>1. Init => Kept BY InitKept
<1>2. Kept /\ [Next]_vars => Kept' BY KeptStep
<1> QED BY <1>1, <1>2, PTL DEF Spec

\* Each reference was found to be one of the kinds of broken or working.
LEMMA AnalysesTyped ==
    ASSUME Kept, NEW ref \in DOMAIN analyses
    PROVE  analyses[ref] \in Problems
<1>1. PICK b, n : b = BackendAt(ref) /\ n = NamespaceOf(ref) OBVIOUS
<1> DEFINE key == KeyOf(b)
<1>2. ServiceAnswers(key) # {} /\ ReadyAnswers(key) # {} BY DEF ServiceAnswers, ReadyAnswers, Answers
<1>3. PICK view, count : view \in ServiceAnswers(key) /\ count \in ReadyAnswers(key) BY <1>2
<1>4. AnalyzeBackendRef(b, n, view, count) \in Readings(b, n) BY <1>3 DEF Readings, KeyOf
<1>5. Recall(ready, key, count) \in Counted
  <2>1. world \in World BY LegalCases DEF Kept, Legal
  <2> QED BY <1>3, <2>1, RecallIs DEF Kept
<1>6. AnalyzeBackendRef(b, n, view, count).problem
         = Verdict(b, n, Recall(services, key, view), Recall(ready, key, count))
  BY <1>5, ReadingIs
<1>7. \A seen, many : Verdict(b, n, seen, many) \in Problems
  <2>1. ReferenceProblem(b, intent.family, n, Grants) \in Problems BY DEF ReferenceProblem, Problems
  <2>2. \A seen : ServiceProblem(b, seen) \in Problems BY DEF ServiceProblem, Problems
  <2> QED BY <2>1, <2>2 DEF Verdict, Problems
<1>8. analyses[ref] = AnalyzeBackendRef(b, n, view, count).problem BY <1>1, <1>4 DEF Kept, AnalysisInv
<1> QED BY <1>6, <1>7, <1>8

(***************************************************************************)
(* Every variable keeps its type: the rules that win and their paths are   *)
(* made of places in the cluster, the caches hold answers that the cluster *)
(* gives, every verdict is one of the known ones (gateway.go:3400-3504). *)
(***************************************************************************)
THEOREM GatewayTypes == Spec => []TypeOK
<1>1. Kept => TypeOK
  <2> SUFFICES ASSUME Kept PROVE TypeOK OBVIOUS
  <2>1. world \in World BY LegalCases DEF Kept, Legal
  <2>2. selected \in SUBSET (Nat \X Nat \X Nat \X Nat)
    BY <2>1, FoundIsMatch, MatchNumbers DEF Kept, PathInv, Chosen
  <2>3. paths \in Seq(Nat \X Nat \X Nat \X Nat \X Nat)
    <3>1. DOMAIN paths = 1..Len(paths) /\ Len(paths) \in Nat /\ paths = [i \in 1..Len(paths) |-> paths[i]]
      BY DEF Kept, PathInv, Chosen
    <3>2. \A i \in DOMAIN paths : paths[i] \in Nat \X Nat \X Nat \X Nat \X Nat
      <4> SUFFICES ASSUME NEW i \in DOMAIN paths PROVE paths[i] \in Nat \X Nat \X Nat \X Nat \X Nat OBVIOUS
      <4> DEFINE a == paths[i][1] b == paths[i][2] c == paths[i][3] d == paths[i][4] e == paths[i][5]
      <4>1. a \in Nat /\ b \in Nat /\ c \in Nat /\ d \in Nat /\ e \in Nat /\ paths[i] = <<a, b, c, d, e>>
        BY PathParts DEF Kept
      <4> HIDE DEF a, b, c, d, e
      <4> QED BY <4>1
    <3> QED BY <3>1, <3>2
  <2>4. /\ \A r \in report.results : r.status \in {"PASS", "FAIL"} \cup Warnings
        /\ report.problems \in Nat
    BY DEF Kept, ReportTyped, Statuses
  <2>5. DOMAIN analyses \subseteq References /\ \A ref \in DOMAIN analyses : analyses[ref] \in Problems
    BY AnalysesTyped DEF Kept, AnalysisInv
  <2>6. /\ \E family \in Families : world \in family.worlds /\ opts \in family.opts /\ flags \in family.flags
        /\ pc \in Steps /\ intent \in Intent \cup {None} /\ at \in Nat
    BY DEF Kept, PathInv
  <2>7. /\ \A key \in DOMAIN services : services[key] \in ServiceAnswers(key)
        /\ \A key \in DOMAIN ready : ready[key] \in ReadyAnswers(key)
    BY DEF Kept, CacheInv
  <2>8. probed \subseteq Seq(Nat) /\ debugPods \subseteq Nat /\ exit \in {0, 1, Running} BY DEF Kept, ExitTyped
  <2> QED BY <2>2, <2>3, <2>4, <2>5, <2>6, <2>7, <2>8 DEF TypeOK
<1>2. Spec => []Kept BY AlwaysKept
<1> QED BY <1>1, <1>2, PTL


-------------------------------------------------------------------------------
(* What a report without warning means.                                    *)

LEMMA AskedWell ==
    ASSUME world \in World, NEW backend, NEW namespace, Asks(backend, namespace)
    PROVE  /\ backend.kind /\ backend.name # 0 /\ backend.port # 0
           /\ \/ backend.namespace = namespace
              \/ GrantedByAPI(intent.family, namespace, "Service", backend.name, backend.namespace)
<1>1. CASE backend.name = 0 BY <1>1 DEF Asks, ReferenceProblem
<1>2. CASE backend.name # 0 /\ ~backend.kind BY <1>2 DEF Asks, ReferenceProblem
<1>3. CASE backend.name # 0 /\ backend.kind
  <2>1. \/ backend.namespace = namespace
        \/ Granted(Grants, intent.family, namespace, "Service", backend.name, backend.namespace)
    BY <1>3 DEF Asks, ReferenceProblem
  <2>2. backend.port # 0 BY <1>3, <2>1 DEF Asks, ReferenceProblem
  <2> QED BY <1>3, <2>1, <2>2, GrantsAreReal
<1> QED BY <1>1, <1>2, <1>3

\* A backend that was read and found to have nothing wrong works.
LEMMA ReadWorks ==
    ASSUME world \in World, UNCHANGED input, UNCHANGED intent, CacheInv,
           NEW backend, NEW namespace, NEW read \in Readings(backend, namespace),
           services' = read.services, ready' = read.ready, read.problem \in {"none", "external"}
    PROVE  Works(backend, namespace)'
<1> DEFINE key == KeyOf(backend)
<1>1. PICK view \in ServiceAnswers(key), count \in ReadyAnswers(key) :
         read = AnalyzeBackendRef(backend, namespace, view, count)
  BY DEF Readings, KeyOf
<1> DEFINE seen == Recall(services, key, view)
           counted == Recall(ready, key, count)
<1>2. seen \in ServiceAnswers(key) /\ counted \in Counted BY RecallIs
<1>3. /\ read.problem = Verdict(backend, namespace, seen, counted)
      /\ read.services = IF Asks(backend, namespace) THEN Remember(services, key, view) ELSE services
      /\ read.ready = IF Counting(backend, namespace, seen) THEN Remember(ready, key, count) ELSE ready
  BY <1>1, <1>2, ReadingIs
<1>4. /\ DOMAIN Remember(services, key, view) = DOMAIN services \cup {key}
      /\ Remember(services, key, view)[key] = seen
      /\ DOMAIN Remember(ready, key, count) = DOMAIN ready \cup {key}
      /\ Remember(ready, key, count)[key] = counted
  BY RememberIs
<1> HIDE DEF seen, counted
<1>5. Asks(backend, namespace)
  <2>1. ReferenceProblem(backend, intent.family, namespace, Grants) \notin {"external"} BY DEF ReferenceProblem
  <2> QED BY <1>3, <2>1 DEF Verdict, Asks
<1>6. ServiceProblem(backend, seen) = "none"
  <2>1. ServiceProblem(backend, seen) \notin {"external"} BY DEF ServiceProblem
  <2> QED BY <1>3, <1>5, <2>1 DEF Verdict, Asks
<1>7. seen.found /\ backend.port \in seen.ports
  <2>1. CASE ~seen.found BY <1>6, <2>1 DEF ServiceProblem
  <2>2. CASE seen.found /\ backend.port \notin seen.ports BY <1>6, <2>2 DEF ServiceProblem
  <2> QED BY <2>1, <2>2
<1>8. seen.external \/ (Counting(backend, namespace, seen) /\ counted = "ready")
  BY <1>2, <1>3, <1>5, <1>6 DEF Verdict, Asks, Counting, Counted
<1>9. key \in DOMAIN services' /\ services'[key] = seen BY <1>3, <1>4, <1>5
<1>10. seen.external \/ (key \in DOMAIN ready' /\ ready'[key] = "ready") BY <1>3, <1>4, <1>8
<1>11. /\ backend.kind /\ backend.name # 0 /\ backend.port # 0
       /\ \/ backend.namespace = namespace
          \/ GrantedByAPI(intent.family, namespace, "Service", backend.name, backend.namespace)
  BY <1>5, AskedWell
<1>12. intent' = intent /\ world' = world BY DEF input
<1>13. key = <<backend.namespace, backend.name>> BY DEF KeyOf
<1> HIDE DEF key
<1> QED BY <1>7, <1>9, <1>10, <1>11, <1>12, <1>13 DEF Works, GrantedByAPI

LEMMA WorksOn ==
    ASSUME UNCHANGED input, UNCHANGED intent, CachesKept, NEW backend, NEW namespace, Works(backend, namespace)
    PROVE  Works(backend, namespace)'
BY DEF Works, GrantedByAPI, CachesKept, Keeps, input

AllWork(refs) == \A ref \in refs : Works(BackendAt(ref), NamespaceOf(ref))

LEMMA AllWorkOn ==
    ASSUME UNCHANGED Choice, CachesKept, NEW refs, AllWork(refs)
    PROVE  \A ref \in refs : Works(BackendAt(ref), NamespaceOf(ref))'
<1> SUFFICES ASSUME NEW ref \in refs PROVE Works(BackendAt(ref), NamespaceOf(ref))' OBVIOUS
<1>1. PICK b, n : b = BackendAt(ref) /\ n = NamespaceOf(ref) OBVIOUS
<1>2. BackendAt(ref)' = b /\ NamespaceOf(ref)' = n BY <1>1, SameReferences
<1>3. Works(b, n) BY <1>1 DEF AllWork
<1>4. UNCHANGED input /\ UNCHANGED intent BY DEF Choice
<1>5. Works(b, n)' BY <1>3, <1>4, WorksOn
<1> QED BY <1>2, <1>5

AfterListeners ==
    {"select", "parents", "expected", "mirrors", "analyze", "scan", "dataplane", "probe", "conclude"}
AfterParents == AfterListeners \ {"select", "parents"}
AfterExpected == AfterParents \ {"expected"}
AfterScan == {"dataplane", "probe", "conclude"}
AtEnd == {"finish", "dedupe", "generic", "exit", "done"}

\* What was looked at worked, as long as nothing else is said; success is said
\* at the end only, and then all of it.
GreenInv ==
    /\ pc = "scan" => at >= 1
    /\ ~Alarmed(report.results) =>
          /\ pc \in AfterListeners => Secure
          /\ pc \in AfterParents => RoutesFine
          /\ pc \in AfterExpected => ExpectedMet
          /\ pc = "scan" => AllWork(AllOf(at))
          /\ pc \in AfterScan => AllWork(References)
    /\ Said("matched-backends") =>
          /\ pc \in AtEnd /\ Secure /\ RoutesFine /\ ExpectedMet /\ AllWork(References)
          /\ \A r \in report.results : r.status = "PASS" \/ r.check \in EndChecks

LEMMA SameSecure ==
    ASSUME UNCHANGED input, UNCHANGED intent, Secure
    PROVE  Secure'
<1>1. ToSet(MatchingListeners)' = ToSet(MatchingListeners) BY SameRequest DEF ToSet
<1>2. world' = world BY DEF input
<1>3. ASSUME NEW gateway, NEW listener PROVE Serves(gateway, listener)' = Serves(gateway, listener)
  BY <1>2 DEF Serves, GrantedByAPI
<1> QED BY <1>1, <1>2, <1>3 DEF Secure

LEMMA SameGreen ==
    ASSUME UNCHANGED Choice
    PROVE  (Secure => Secure') /\ (RoutesFine => RoutesFine') /\ (ExpectedMet => ExpectedMet')
<1>1. UNCHANGED input /\ UNCHANGED intent BY DEF Choice
<1>2. Secure => Secure' BY <1>1, SameSecure
<1>3. PathRoutes' = PathRoutes BY DEF Choice, PathRoutes
<1>4. RoutesFine => RoutesFine' BY <1>1, <1>3 DEF RoutesFine, input, ToSet
<1>5. ExpectedMet => ExpectedMet' BY <1>1, SameReferences DEF ExpectedMet, Expected, input
<1> QED BY <1>2, <1>4, <1>5


LEMMA StillQuiet ==
    ASSUME NEW checks, Adds(report, report', checks), ~Alarmed(report'.results)
    PROVE  ~Alarmed(report.results)
BY DEF Adds, Alarmed

LEMMA NotSaidYet ==
    ASSUME NEW checks, Adds(report, report', checks), NEW check, check \notin checks, Said(check)'
    PROVE  Said(check)
BY DEF Adds, Said

LEMMA GreenStays ==
    ASSUME GreenInv, CachesKept, UNCHANGED Choice,
           pc' = "scan" => at' >= 1,
           ~Alarmed(report'.results) =>
              /\ pc' \in AfterListeners => Secure
              /\ pc' \in AfterParents => RoutesFine
              /\ pc' \in AfterExpected => ExpectedMet
              /\ pc' = "scan" => AllWork(AllOf(at))'
              /\ pc' \in AfterScan => AllWork(References),
           Said("matched-backends")' =>
              /\ pc' \in AtEnd /\ Secure /\ RoutesFine /\ ExpectedMet /\ AllWork(References)
              /\ \A r \in report'.results : r.status = "PASS" \/ r.check \in EndChecks
    PROVE  GreenInv'
<1>1. (Secure => Secure') /\ (RoutesFine => RoutesFine') /\ (ExpectedMet => ExpectedMet') BY SameGreen
<1>2. AllWork(References) => AllWork(References)'
  <2> SUFFICES ASSUME AllWork(References) PROVE AllWork(References)' OBVIOUS
  <2>1. PICK refs : refs = References OBVIOUS
  <2>2. \A ref \in refs : Works(BackendAt(ref), NamespaceOf(ref))' BY <2>1, AllWorkOn
  <2>3. References' = refs BY <2>1, SameReferences
  <2> QED BY <2>2, <2>3 DEF AllWork
<1> QED BY <1>1, <1>2 DEF GreenInv

\* The steps between, which look at nothing of this.
LEMMA GreenPlain ==
    ASSUME GreenInv, CachesKept, UNCHANGED Choice, pc \notin AtEnd, pc' # "scan",
           NEW checks, Adds(report, report', checks), "matched-backends" \notin checks,
           pc' \in AfterListeners => pc \in AfterListeners, pc' \in AfterParents => pc \in AfterParents,
           pc' \in AfterExpected => pc \in AfterExpected, pc' \in AfterScan => pc \in AfterScan
    PROVE  GreenInv'
<1>1. ~Said("matched-backends")' BY NotSaidYet DEF GreenInv
<1>2. ~Alarmed(report'.results) => ~Alarmed(report.results) BY StillQuiet
<1> QED BY <1>1, <1>2, GreenStays DEF GreenInv

\* Those before the listeners, and those that end the command early.
LEMMA GreenNone ==
    ASSUME GreenInv, pc \notin AtEnd, pc' \notin AfterListeners,
           NEW checks, Adds(report, report', checks), "matched-backends" \notin checks
    PROVE  GreenInv'
<1>1. ~Said("matched-backends")' BY NotSaidYet DEF GreenInv
<1>2. pc' \notin AfterParents /\ pc' \notin AfterExpected /\ pc' \notin AfterScan /\ pc' # "scan"
  BY DEF AfterListeners, AfterParents, AfterExpected, AfterScan
<1> QED BY <1>1, <1>2 DEF GreenInv

\* Those at the end.
LEMMA GreenEnd ==
    ASSUME GreenInv, CachesKept, UNCHANGED Choice, pc \in AtEnd, pc' \in AtEnd,
           \A r \in report'.results : r \in report.results \/ r.check \in EndChecks
    PROVE  GreenInv'
<1>1. /\ pc' \notin AfterListeners /\ pc' \notin AfterParents /\ pc' \notin AfterExpected
      /\ pc' \notin AfterScan /\ pc' # "scan"
  BY DEF AtEnd, AfterListeners, AfterParents, AfterExpected, AfterScan
<1>2. Said("matched-backends")' => Said("matched-backends") BY DEF Said, EndChecks, FilterChecks
<1>3. Said("matched-backends")' => \A r \in report'.results : r.status = "PASS" \/ r.check \in EndChecks
  BY <1>2 DEF GreenInv
<1> QED BY <1>1, <1>2, <1>3, GreenStays DEF GreenInv

LEMMA GreenScan ==
    ASSUME Kept, CachesKept, GreenInv, scan
    PROVE  GreenInv'
<1>0. PICK ref : ref = ReferenceOf(paths[at]) OBVIOUS
<1>1. /\ pc = "scan" /\ pc' = "scan" /\ at \in DOMAIN paths /\ at' = at + 1 /\ UNCHANGED Choice
  BY DEF scan, Choice
<1>2. paths \in Seq(Candidates(selected)) /\ PathInv BY DEF Kept, PathInv, Chosen
<1>3. /\ at \in Nat /\ AllOf(at + 1) = AllOf(at) \cup {ref} /\ (Reported(at) => ref \in AllOf(at))
  BY <1>0, <1>1, <1>2, NextPath
<1>4. Adds(report, report', BackendChecks) BY <1>2, ScanAdds DEF Kept
<1>5. "matched-backends" \notin BackendChecks BY DEF BackendChecks
<1>6. ~Said("matched-backends")' BY <1>1, <1>4, <1>5, NotSaidYet DEF GreenInv, AtEnd
<1>7. ASSUME ~Alarmed(report'.results)
      PROVE  Secure /\ RoutesFine /\ ExpectedMet /\ AllWork(AllOf(at))'
  <2>1. ~Alarmed(report.results) BY <1>4, <1>7, StillQuiet
  <2>2. Secure /\ RoutesFine /\ ExpectedMet /\ AllWork(AllOf(at))
    BY <1>1, <2>1 DEF GreenInv, AfterListeners, AfterParents, AfterExpected
  <2>3. PICK refs : refs = AllOf(at) OBVIOUS
  <2>4. \A x \in refs : Works(BackendAt(x), NamespaceOf(x))' BY <1>1, <2>2, <2>3, AllWorkOn
  <2>5. Works(BackendAt(ref), NamespaceOf(ref))'
    <3>1. CASE Reported(at)
      <4>1. ref \in refs BY <1>3, <2>3, <3>1
      <4> QED BY <2>4, <4>1
    <3>2. CASE ~Reported(at)
      <4>1. PICK read \in Readings(BackendAt(ref), NamespaceOf(ref)) :
               /\ report' = IF read.problem \in {"none", "external"} THEN report
                            ELSE addProblem(report, BackendProblem(ref, read.problem))
               /\ services' = read.services /\ ready' = read.ready
        BY <1>0, <3>2 DEF scan
      <4>2. read.problem \in {"none", "external"}
        <5> SUFFICES ASSUME read.problem \notin {"none", "external"} PROVE FALSE OBVIOUS
        <5> DEFINE problem == BackendProblem(ref, read.problem)
        <5>1. report' = addProblem(report, problem) BY <4>1
        <5>2. problem \in ProblemsOf(BackendChecks) BY <1>0, <1>1, <1>2, ReferenceParts, BackendProblemType
        <5> HIDE DEF problem
        <5>3. report.problems \in Nat /\ report.problems = 0 BY <2>1 DEF Kept, ReportTyped
        <5>4. opts \in Option BY <1>2, LegalCases DEF Legal
        <5>5. Alarmed(addProblem(report, problem).results) BY <5>2, <5>3, <5>4, AddProblemIs
        <5> QED BY <1>7, <5>1, <5>5
      <4>3. PICK b, n : b = BackendAt(ref) /\ n = NamespaceOf(ref) OBVIOUS
      <4>4. world \in World /\ UNCHANGED input /\ UNCHANGED intent BY <1>1, <1>2, LegalCases DEF Legal, Choice
      <4>5. read \in Readings(b, n) BY <4>3
      <4>6. Works(b, n)' BY <4>1, <4>2, <4>4, <4>5, ReadWorks DEF Kept
      <4>7. BackendAt(ref)' = b /\ NamespaceOf(ref)' = n BY <1>1, <4>3, SameReferences
      <4> QED BY <4>6, <4>7
    <3> QED BY <3>1, <3>2
  <2>6. AllOf(at)' = refs \cup {ref}
    <3>1. AllOf(at)' = AllOf(at') BY <1>1 DEF AllOf, Choice, ReferenceOf
    <3> QED BY <1>1, <1>3, <2>3, <3>1
  <2>7. AllWork(AllOf(at))'
    <3>1. \A x \in AllOf(at)' : Works(BackendAt(x), NamespaceOf(x))' BY <2>4, <2>5, <2>6
    <3> QED BY <3>1 DEF AllWork
  <2> QED BY <2>2, <2>7
<1>8. pc' \notin AfterScan /\ at' >= 1 BY <1>1, <1>3 DEF AfterScan
<1> QED BY <1>1, <1>6, <1>7, <1>8, GreenStays


LEMMA GreenFirst ==
    ASSUME Kept, CachesKept, GreenInv,
           readOptions \/ reachCluster \/ readLists \/ checkListeners \/ selectRules \/ checkParents \/ checkExpected
    PROVE  GreenInv'
<1>0. PathInv /\ ReportTyped /\ Legal BY LegalCases DEF Kept
<1>1. "matched-backends" \notin PlainChecks BY PlainIsNotSpecial DEF SpecialChecks
<1>2. CASE readOptions \/ reachCluster \/ readLists
  <2>1. Adds(report, report', PlainChecks) BY <1>0, <1>2, PlainAdds
  <2>2. pc \notin AtEnd /\ pc' \notin AfterListeners
    BY <1>2 DEF readOptions, reachCluster, readLists, AtEnd, AfterListeners
  <2> QED BY <1>1, <2>1, <2>2, GreenNone
<1>3. CASE checkListeners
  <2>1. pc = "listeners" /\ pc' = "select" /\ UNCHANGED Choice BY <1>3 DEF checkListeners, Choice
  <2>2. Adds(report, report', PlainChecks) BY <1>0, <1>3, PlainAdds
  <2>3. ~Said("matched-backends")' BY <1>1, <2>1, <2>2, NotSaidYet DEF GreenInv, AtEnd
  <2>4. ~Alarmed(report'.results) => Secure BY <1>0, <1>3, ListenersAdd
  <2>5. pc' \notin AfterParents /\ pc' \notin AfterExpected /\ pc' \notin AfterScan /\ pc' # "scan"
    BY <2>1 DEF AfterParents, AfterExpected, AfterScan
  <2> QED BY <2>1, <2>3, <2>4, <2>5, GreenStays
<1>4. CASE selectRules
  <2>1. Adds(report, report', Reasons \cup {"redirect"}) BY <1>0, <1>4, SelectAdds DEF Legal
  <2>2. "matched-backends" \notin Reasons \cup {"redirect"} BY DEF Reasons
  <2>3. pc = "select" /\ pc' \in {"parents", "finish"} /\ UNCHANGED input /\ UNCHANGED intent
    BY <1>4 DEF selectRules
  <2>4. CASE pc' = "finish"
    <3>1. pc \notin AtEnd /\ pc' \notin AfterListeners BY <2>3, <2>4 DEF AtEnd, AfterListeners
    <3> QED BY <2>1, <2>2, <3>1, GreenNone
  <2>5. CASE pc' = "parents"
    <3>1. ~Said("matched-backends")' BY <2>1, <2>2, <2>3, NotSaidYet DEF GreenInv, AtEnd
    <3>2. ~Alarmed(report'.results) => Secure
      BY <2>1, <2>3, StillQuiet DEF GreenInv, AfterListeners
    <3>3. Secure => Secure' BY <2>3, SameSecure
    <3>4. pc' \notin AfterParents /\ pc' \notin AfterExpected /\ pc' \notin AfterScan /\ pc' # "scan"
      BY <2>5 DEF AfterParents, AfterExpected, AfterScan
    <3> QED BY <3>1, <3>2, <3>3, <3>4 DEF GreenInv
  <2> QED BY <2>3, <2>4, <2>5
<1>5. CASE checkParents
  <2>1. pc = "parents" /\ pc' = "expected" /\ UNCHANGED Choice BY <1>5 DEF checkParents, Choice
  <2>2. Adds(report, report', PlainChecks) BY <1>0, <1>5, PlainAdds
  <2>3. ~Said("matched-backends")' BY <1>1, <2>1, <2>2, NotSaidYet DEF GreenInv, AtEnd
  <2>4. ~Alarmed(report'.results) => Secure BY <2>1, <2>2, StillQuiet DEF GreenInv, AfterListeners
  <2>5. ~Alarmed(report'.results) => RoutesFine BY <1>0, <1>5, ParentsAdd
  <2>6. pc' \notin AfterExpected /\ pc' \notin AfterScan /\ pc' # "scan"
    BY <2>1 DEF AfterExpected, AfterScan
  <2> QED BY <2>1, <2>3, <2>4, <2>5, <2>6, GreenStays
<1>6. CASE checkExpected
  <2>1. pc = "expected" /\ pc' = "mirrors" /\ UNCHANGED Choice BY <1>6 DEF checkExpected, Choice
  <2>2. Adds(report, report', PlainChecks) BY <1>0, <1>6, PlainAdds
  <2>3. ~Said("matched-backends")' BY <1>1, <2>1, <2>2, NotSaidYet DEF GreenInv, AtEnd
  <2>4. ~Alarmed(report'.results) => Secure /\ RoutesFine
    BY <2>1, <2>2, StillQuiet DEF GreenInv, AfterListeners, AfterParents
  <2>5. ~Alarmed(report'.results) => ExpectedMet BY <1>0, <1>6, ExpectedAdds DEF Legal
  <2>6. pc' \notin AfterScan /\ pc' # "scan" BY <2>1 DEF AfterScan
  <2> QED BY <2>1, <2>3, <2>4, <2>5, <2>6, GreenStays
<1> QED BY <1>2, <1>3, <1>4, <1>5, <1>6

LEMMA GreenBackends ==
    ASSUME Kept, CachesKept, GreenInv, checkMirror \/ mirrorsDone \/ analyze \/ analyzed \/ scan \/ scanned
    PROVE  GreenInv'
<1>0. PathInv /\ ReportTyped BY DEF Kept
<1>1. "matched-backends" \notin PlainChecks BY PlainIsNotSpecial DEF SpecialChecks
<1>2. CASE checkMirror \/ mirrorsDone \/ analyze
  <2>1. Adds(report, report', PlainChecks) BY <1>0, <1>2, PlainAdds
  <2>2. UNCHANGED Choice /\ pc \in {"mirrors", "analyze"} /\ pc' \in {"mirrors", "analyze"}
    <3>1. CASE checkMirror BY <3>1 DEF checkMirror, Choice
    <3>2. CASE mirrorsDone BY <3>2 DEF mirrorsDone, Choice
    <3>3. CASE analyze BY <3>3 DEF analyze, Choice
    <3> QED BY <1>2, <3>1, <3>2, <3>3
  <2>3. /\ pc \notin AtEnd /\ pc' # "scan" /\ pc' \notin AfterScan
        /\ pc \in AfterListeners /\ pc \in AfterParents /\ pc \in AfterExpected
    BY <2>2 DEF AtEnd, AfterListeners, AfterParents, AfterExpected, AfterScan
  <2> QED BY <1>1, <2>1, <2>2, <2>3, GreenPlain
<1>3. CASE analyzed
  <2>1. Adds(report, report', PlainChecks) BY <1>0, <1>3, PlainAdds
  <2>2. UNCHANGED Choice /\ pc = "analyze" /\ pc' = "scan" /\ at' = 1 BY <1>3 DEF analyzed, Choice
  <2>3. ~Said("matched-backends")' BY <1>1, <2>1, <2>2, NotSaidYet DEF GreenInv, AtEnd
  <2>4. ~Alarmed(report'.results) => Secure /\ RoutesFine /\ ExpectedMet
    BY <2>1, <2>2, StillQuiet DEF GreenInv, AfterListeners, AfterParents, AfterExpected
  <2>5. AllWork(AllOf(at))'
    <3>1. AllOf(at)' = AllOf(at') BY <2>2 DEF AllOf, Choice, ReferenceOf
    <3>2. AllOf(1) = {} BY <1>0 DEF AllOf, PathInv, Chosen
    <3>3. AllOf(at)' = {} BY <2>2, <3>1, <3>2
    <3> QED BY <3>3 DEF AllWork
  <2>6. pc' \notin AfterScan BY <2>2 DEF AfterScan
  <2> QED BY <2>2, <2>3, <2>4, <2>5, <2>6, GreenStays
<1>4. CASE scan BY <1>4, GreenScan
<1>5. CASE scanned
  <2>1. Adds(report, report', {"weighted"}) BY <1>0, <1>5, ScannedAdds
  <2>2. UNCHANGED Choice /\ pc = "scan" /\ at \notin DOMAIN paths /\ pc' \in {"dataplane", "conclude"}
    BY <1>5 DEF scanned, Choice
  <2>3. ~Said("matched-backends")' BY <2>1, <2>2, NotSaidYet DEF GreenInv, AtEnd
  <2>4. AllOf(at) = References BY <1>0, <2>2, AllPaths DEF PathInv, Chosen, GreenInv
  <2>5. ~Alarmed(report'.results) => Secure /\ RoutesFine /\ ExpectedMet /\ AllWork(References)
    BY <2>1, <2>2, <2>4, StillQuiet DEF GreenInv, AfterListeners, AfterParents, AfterExpected
  <2>6. pc' # "scan" BY <2>2
  <2> QED BY <2>2, <2>3, <2>5, <2>6, GreenStays
<1> QED BY <1>2, <1>3, <1>4, <1>5

LEMMA GreenLast ==
    ASSUME Kept, CachesKept, GreenInv,
           \/ dataplane \/ dataplaneDone \/ probe \/ cannotProbe \/ probesDone
           \/ conclude \/ finishScan \/ dedupe \/ generic \/ finish
    PROVE  GreenInv'
<1>0. PathInv /\ ReportTyped /\ ReportInv /\ opts \in Option BY LegalCases DEF Kept, Legal
<1>1. "matched-backends" \notin PlainChecks BY PlainIsNotSpecial DEF SpecialChecks
<1>2. CASE dataplane \/ dataplaneDone \/ probe \/ cannotProbe \/ probesDone
  <2>1. UNCHANGED Choice /\ pc \in AfterScan /\ pc' \in AfterScan
    <3>1. CASE dataplane BY <3>1, Zenon DEF dataplane, Choice, AfterScan
    <3>2. CASE probe BY <3>2, Zenon DEF probe, Choice, AfterScan
    <3>3. CASE dataplaneDone \/ cannotProbe \/ probesDone
      BY <3>3 DEF dataplaneDone, cannotProbe, probesDone, Choice, AfterScan
    <3> QED BY <1>2, <3>1, <3>2, <3>3
  <2>2. \E checks : Adds(report, report', checks) /\ "matched-backends" \notin checks
    <3>1. CASE probe
      <4>1. Adds(report, report', RoundChecks) BY <1>0, <3>1, ProbeAdds
      <4>2. "matched-backends" \notin RoundChecks BY DEF RoundChecks, ProbeChecks
      <4> QED BY <4>1, <4>2
    <3>2. CASE dataplane \/ dataplaneDone \/ cannotProbe \/ probesDone
      <4>1. Adds(report, report', PlainChecks) BY <1>0, <3>2, PlainAdds
      <4> QED BY <1>1, <4>1
    <3> QED BY <1>2, <3>1, <3>2
  <2>3. /\ pc \notin AtEnd /\ pc' # "scan"
        /\ pc \in AfterListeners /\ pc \in AfterParents /\ pc \in AfterExpected
    BY <2>1 DEF AtEnd, AfterListeners, AfterParents, AfterExpected, AfterScan
  <2> QED BY <2>1, <2>2, <2>3, GreenPlain
<1>3. CASE conclude
  <2>1. UNCHANGED Choice /\ pc = "conclude" /\ pc' = "finish" BY <1>3 DEF conclude, Choice
  <2>2. \/ report' = report /\ Alarmed(report.results)
        \/ report' = Add(report, {Result("matched-backends", <<>>, "PASS")}, {}) /\ ~Alarmed(report.results)
    BY <1>0, <1>3, ConcludeAdds
  <2>3. ~Said("matched-backends") BY <2>1 DEF GreenInv, AtEnd
  <2>4. Said("matched-backends")' =>
           /\ Secure /\ RoutesFine /\ ExpectedMet /\ AllWork(References)
           /\ \A r \in report'.results : r.status = "PASS" \/ r.check \in EndChecks
    <3>1. CASE report' = report BY <2>3, <3>1 DEF Said
    <3>2. CASE report' = Add(report, {Result("matched-backends", <<>>, "PASS")}, {}) /\ ~Alarmed(report.results)
      <4>1. Secure /\ RoutesFine /\ ExpectedMet /\ AllWork(References)
        BY <2>1, <3>2 DEF GreenInv, AfterListeners, AfterParents, AfterExpected, AfterScan
      <4>2. report'.results = report.results \cup {Result("matched-backends", <<>>, "PASS")} BY <3>2 DEF Add
      <4>3. \A r \in report'.results : r.status = "PASS" BY <3>2, <4>2 DEF Alarmed, Result
      <4> QED BY <4>1, <4>3
    <3> QED BY <2>2, <3>1, <3>2
  <2>5. /\ pc' \in AtEnd /\ pc' # "scan" /\ pc' \notin AfterListeners /\ pc' \notin AfterParents
        /\ pc' \notin AfterExpected /\ pc' \notin AfterScan
    BY <2>1 DEF AtEnd, AfterListeners, AfterParents, AfterExpected, AfterScan
  <2> QED BY <2>1, <2>4, <2>5, GreenStays
<1>4. CASE finishScan \/ dedupe \/ generic \/ finish
  <2>1. UNCHANGED Choice /\ pc \in AtEnd /\ pc' \in AtEnd
    BY <1>4 DEF finishScan, dedupe, generic, finish, Choice, AtEnd
  <2>2. \A r \in report'.results : r \in report.results \/ r.check \in EndChecks
    <3>1. CASE finishScan
      <4>1. Adds(report, report', EndChecks) BY <1>0, <3>1, FinishAdds
      <4> QED BY <4>1 DEF Adds
    <3>2. CASE dedupe BY <1>0, <3>2, DedupeKeepsResults
    <3>3. CASE generic BY <3>3 DEF generic, Add
    <3>4. CASE finish BY <3>4 DEF finish
    <3> QED BY <1>4, <3>1, <3>2, <3>3, <3>4
  <2> QED BY <2>1, <2>2, GreenEnd
<1> QED BY <1>2, <1>3, <1>4

LEMMA GreenStep == Kept /\ GreenInv /\ [Next]_vars => GreenInv'
<1> SUFFICES ASSUME Kept, GreenInv, [Next]_vars PROVE GreenInv' OBVIOUS
<1>1. CachesKept
  <2>1. world \in World BY LegalCases DEF Kept, Legal
  <2> QED BY <2>1, CachesGrow DEF Kept
<1>2. CASE UNCHANGED vars
  <2>1. UNCHANGED <<pc, at, report>> /\ UNCHANGED Choice BY <1>2 DEF vars, Choice
  <2>2. Said("matched-backends")' = Said("matched-backends") /\ report' = report BY <2>1 DEF Said
  <2>3. pc = "scan" /\ AllWork(AllOf(at)) => AllWork(AllOf(at))'
    <3> SUFFICES ASSUME AllWork(AllOf(at)) PROVE AllWork(AllOf(at))' OBVIOUS
    <3>1. PICK refs : refs = AllOf(at) OBVIOUS
    <3>2. \A ref \in refs : Works(BackendAt(ref), NamespaceOf(ref))' BY <1>1, <2>1, <3>1, AllWorkOn
    <3>3. AllOf(at)' = refs BY <2>1, <3>1 DEF AllOf, Choice, ReferenceOf
    <3> QED BY <3>2, <3>3 DEF AllWork
  <2> QED BY <1>1, <2>1, <2>2, <2>3, GreenStays DEF GreenInv
<1> QED BY <1>1, <1>2, GreenFirst, GreenBackends, GreenLast DEF Next

(***************************************************************************)
(* Success is said only of a request whose way is open from its listeners  *)
(* to a ready endpoint of every backend, whatever the cluster answers and  *)
(* in whatever order its objects are read (gateway.go:3400-3504).          *)
(***************************************************************************)
THEOREM GreenIsServed == Spec => []GreenMeansServed
<1>1. Init => GreenInv
  <2> SUFFICES ASSUME Init PROVE GreenInv OBVIOUS
  <2>1. pc = "options" /\ report.results = {} BY DEF Init
  <2> QED BY <2>1 DEF GreenInv, Said, AfterListeners, AfterParents, AfterExpected, AfterScan
<1>2. Kept /\ GreenInv /\ [Next]_vars => GreenInv' BY GreenStep
<1>3. Kept /\ GreenInv => GreenMeansServed
  <2> SUFFICES ASSUME Kept, GreenInv, Said("matched-backends")
               PROVE  /\ \A r \in report.results : r.status = "PASS" \/ r.check \in EndChecks
                      /\ AllWork(References) /\ Secure /\ RoutesFine
                      /\ opts.expect[2] # 0 =>
                            \E ref \in References : Expected(BackendAt(ref)) /\ BackendAt(ref).weight # 0
    BY DEF GreenMeansServed, EndChecks, FilterChecks, AllWork, Secure, RoutesFine, StatusFine
  <2>1. ASSUME NEW ref \in References PROVE BackendAt(ref).weight # 0
    <3>1. PICK i \in DOMAIN paths : ref = ReferenceOf(paths[i]) BY DEF References, ToSet
    <3>2. ref = <<paths[i][3], paths[i][4], paths[i][5]>> BY <3>1, ReferenceParts DEF Kept
    <3>3. BackendAt(ref) = world.routes[paths[i][3]].rules[paths[i][4]].backends[paths[i][5]]
      BY <3>2 DEF BackendAt
    <3>4. IsCandidate(world.routes[paths[i][3]].rules[paths[i][4]].backends[paths[i][5]])
      BY PathParts DEF Kept
    <3> QED BY <3>3, <3>4 DEF IsCandidate
  <2> QED BY <2>1 DEF GreenInv, ExpectedMet
<1>4. Spec => []Kept BY AlwaysKept
<1> QED BY <1>1, <1>2, <1>3, <1>4, PTL DEF Spec


-------------------------------------------------------------------------------
(* What is said of broken backends.                                        *)

BeforeScan == Early \cup {"parents", "expected", "mirrors", "analyze"}
RuleOf(ref) == SubSeq(ref, 1, 2)

\* ref has its own diagnosis, or one reports that its route is rejected.
RejectionOf(ref, d) == d.check \in AboutRoute /\ d.about[1] = ref[1] /\ "rejection" \in Says(d)
Explained(ref) ==
    \/ Diagnosed("backend", ref)
    \/ PlainRejections => \E d \in report.diagnoses : RejectionOf(ref, d)

\* Nothing is said of backends before the scan; then each broken one is blamed
\* when its path was reached, and explained, at the latest with its group.
BackendInv ==
    /\ pc \in BeforeScan =>
          /\ ~Said("backend")
          /\ \A d \in report.diagnoses : d.check \notin {"backend", "weighted"}
    /\ pc = "scan" => at >= 1 /\ \A d \in report.diagnoses : d.check # "weighted"
    /\ pc = "scan" /\ Complete =>
          \A ref \in References :
             /\ Blamed(ref) <=> ref \in AllOf(at) /\ Broken(analyses[ref])
             /\ ref \in AllOf(at) /\ Broken(analyses[ref]) /\ ~Mixed(RuleOf(ref)) => Explained(ref)
    /\ pc \in AfterScan \cup AtEnd => References \subseteq DOMAIN analyses
    /\ pc \in AfterScan \cup AtEnd /\ Complete =>
          \A ref \in References :
             /\ Blamed(ref) <=> Broken(analyses[ref])
             /\ Diagnosed("weighted", ref) <=> Broken(analyses[ref]) /\ Mixed(RuleOf(ref))
             /\ Broken(analyses[ref]) /\ ~Mixed(RuleOf(ref)) => Explained(ref)

\* What diagnoses say depends on the cluster alone.
LEMMA SameTexts ==
    ASSUME UNCHANGED input
    PROVE  /\ PlainRejections' = PlainRejections
           /\ \A ref, d : RejectionOf(ref, d)' = RejectionOf(ref, d)
BY DEF input, PlainRejections, RejectionOf, Says, Message

LEMMA MoreExplained ==
    ASSUME UNCHANGED input, report.diagnoses \subseteq report'.diagnoses, NEW ref, Explained(ref)
    PROVE  Explained(ref)'
<1>1. CASE Diagnosed("backend", ref) BY <1>1 DEF Explained, Diagnosed, Diagnosis
<1>2. CASE PlainRejections => \E d \in report.diagnoses : RejectionOf(ref, d)
  <2>1. PlainRejections' => \E d \in report'.diagnoses : RejectionOf(ref, d)' BY <1>2, SameTexts
  <2> QED BY <2>1 DEF Explained
<1> QED BY <1>1, <1>2 DEF Explained

LEMMA SameLimit == ASSUME UNCHANGED input PROVE Limit' = Limit
BY DEF Limit, input

\* What is added of other checks changes none of this.
LEMMA SameBlame ==
    ASSUME UNCHANGED input,
           NEW checks, Adds(report, report', checks), "backend" \notin checks, "weighted" \notin checks, NEW ref
    PROVE  /\ Blamed(ref)' <=> Blamed(ref)
           /\ Diagnosed("weighted", ref)' <=> Diagnosed("weighted", ref)
           /\ Explained(ref) => Explained(ref)'
<1>1. Blamed(ref)' <=> Blamed(ref) BY DEF Adds, Blamed
<1>2. Diagnosed("weighted", ref)' <=> Diagnosed("weighted", ref) BY DEF Adds, Diagnosed, Diagnosis
<1>3. Explained(ref) => Explained(ref)' BY MoreExplained DEF Adds
<1> QED BY <1>1, <1>2, <1>3

LEMMA StillComplete ==
    ASSUME Kept, NEW checks, Adds(report, report', checks), UNCHANGED input, Complete'
    PROVE  Complete
<1>1. Limit' = Limit /\ Limit \in Nat BY SameLimit, LimitIs, LegalCases DEF Kept, Legal
<1>2. report.problems \in Nat BY DEF Kept, ReportTyped
<1> QED BY <1>1, <1>2 DEF Adds, Complete

LEMMA SameMixed ==
    ASSUME UNCHANGED analyses, NEW rule
    PROVE  Mixed(rule)' = Mixed(rule)
BY DEF Mixed, OfRule, Broken

LEMMA BlameStays ==
    ASSUME Kept, BackendInv, UNCHANGED Choice, UNCHANGED analyses,
           pc \in AfterScan \cup AtEnd, pc' \in AfterScan \cup AtEnd,
           NEW checks, Adds(report, report', checks), "backend" \notin checks, "weighted" \notin checks
    PROVE  BackendInv'
<1>1. UNCHANGED input /\ References' = References BY SameReferences DEF Choice
<1>2. pc' \notin BeforeScan /\ pc' # "scan" BY DEF AfterScan, AtEnd, BeforeScan, Early
<1>3. ASSUME Complete', NEW ref \in References
      PROVE  /\ Blamed(ref)' <=> Broken(analyses'[ref])
             /\ Diagnosed("weighted", ref)' <=> Broken(analyses'[ref]) /\ Mixed(RuleOf(ref))'
             /\ Broken(analyses'[ref]) /\ ~Mixed(RuleOf(ref))' => Explained(ref)'
  <2>1. Complete BY <1>1, <1>3, StillComplete
  <2>2. Mixed(RuleOf(ref))' = Mixed(RuleOf(ref)) BY SameMixed DEF RuleOf
  <2>3. /\ Blamed(ref) <=> Broken(analyses[ref])
        /\ Diagnosed("weighted", ref) <=> Broken(analyses[ref]) /\ Mixed(RuleOf(ref))
        /\ Broken(analyses[ref]) /\ ~Mixed(RuleOf(ref)) => Explained(ref)
    BY <1>3, <2>1 DEF BackendInv
  <2>4. /\ Blamed(ref)' <=> Blamed(ref)
        /\ Diagnosed("weighted", ref)' <=> Diagnosed("weighted", ref)
        /\ Explained(ref) => Explained(ref)'
    BY <1>1, SameBlame
  <2>5. analyses' = analyses OBVIOUS
  <2> QED BY <2>2, <2>3, <2>4, <2>5
<1>4. References' \subseteq DOMAIN analyses' BY <1>1 DEF BackendInv
<1> QED BY <1>1, <1>2, <1>3, <1>4 DEF BackendInv, Broken

\* Before the scan, and where the command ends without one.
LEMMA BlameNone ==
    ASSUME Kept, BackendInv, pc \in BeforeScan, pc' \in BeforeScan,
           NEW checks, Adds(report, report', checks), "backend" \notin checks, "weighted" \notin checks
    PROVE  BackendInv'
<1>1. pc' # "scan" /\ pc' \notin AfterScan \cup AtEnd BY DEF BeforeScan, Early, AfterScan, AtEnd
<1>2. ~Said("backend")' BY NotSaidYet DEF BackendInv
<1>3. \A d \in report'.diagnoses : d.check \notin {"backend", "weighted"} BY DEF Adds, BackendInv
<1> QED BY <1>1, <1>2, <1>3 DEF BackendInv

LEMMA BlameNobody ==
    ASSUME paths' = <<>>, pc' \in AtEnd
    PROVE  BackendInv'
<1>1. References' = {} BY DEF References, ToSet
<1>2. pc' # "scan" /\ pc' \notin BeforeScan BY DEF BeforeScan, Early, AtEnd
<1> QED BY <1>1, <1>2 DEF BackendInv


\* The references that were looked at up to the next path; a reading of one
\* finds what the analysis found.
LEMMA ScanReads ==
    ASSUME Kept, scan, ~Reported(at), NEW ref, ref = ReferenceOf(paths[at])
    PROVE  /\ ref \in DOMAIN analyses /\ analyses[ref] \in Problems
           /\ report' = IF analyses[ref] \in {"none", "external"} THEN report
                        ELSE addProblem(report, BackendProblem(ref, analyses[ref]))
<1>1. PICK read \in Readings(BackendAt(ref), NamespaceOf(ref)) :
         report' = IF read.problem \in {"none", "external"} THEN report
                   ELSE addProblem(report, BackendProblem(ref, read.problem))
  BY DEF scan
<1>2. pc = "scan" /\ at \in DOMAIN paths BY DEF scan
<1>3. ref \in References BY <1>2 DEF References, ToSet
<1>4. ref \in DOMAIN analyses BY <1>2, <1>3 DEF Kept, AnalysisInv
<1>5. read.problem = analyses[ref] BY <1>1, <1>4 DEF Kept, AnalysisInv
<1>6. analyses[ref] \in Problems BY <1>4, AnalysesTyped
<1> QED BY <1>1, <1>4, <1>5, <1>6

LEMMA BlameScan ==
    ASSUME Kept, BackendInv, scan
    PROVE  BackendInv'
<1>1. /\ pc = "scan" /\ pc' = "scan" /\ at \in DOMAIN paths /\ at' = at + 1
      /\ UNCHANGED Choice /\ UNCHANGED analyses /\ UNCHANGED input
  BY DEF scan, Choice
<1>2. paths \in Seq(Candidates(selected)) /\ PathInv /\ ReportTyped BY DEF Kept, PathInv, Chosen
<1>3. PICK ref : ref = ReferenceOf(paths[at]) OBVIOUS
<1>4. at \in Nat /\ AllOf(at + 1) = AllOf(at) \cup {ref} /\ (Reported(at) => ref \in AllOf(at))
  BY <1>1, <1>2, <1>3, NextPath
<1>5. AllOf(at)' = AllOf(at) \cup {ref}
  <2>1. AllOf(at)' = AllOf(at') BY <1>1 DEF AllOf, Choice, ReferenceOf
  <2> QED BY <1>1, <1>4, <2>1
<1>6. Adds(report, report', BackendChecks) BY <1>2, ScanAdds
<1>7. References' = References BY <1>1, SameReferences
<1>8. \A d \in report'.diagnoses : d.check # "weighted" BY <1>1, <1>6 DEF BackendInv, Adds, BackendChecks
<1>9. \A r : Mixed(r)' = Mixed(r) BY <1>1, SameMixed
<1>10. ASSUME Complete', NEW x \in References
       PROVE  /\ Blamed(x)' <=> x \in AllOf(at)' /\ Broken(analyses[x])
              /\ x \in AllOf(at)' /\ Broken(analyses[x]) /\ ~Mixed(RuleOf(x)) => Explained(x)'
  <2>1. Complete BY <1>1, <1>6, <1>10, StillComplete
  <2>2. /\ Blamed(x) <=> x \in AllOf(at) /\ Broken(analyses[x])
        /\ x \in AllOf(at) /\ Broken(analyses[x]) /\ ~Mixed(RuleOf(x)) => Explained(x)
    BY <1>1, <1>10, <2>1 DEF BackendInv
  <2>3. Explained(x) => Explained(x)' BY <1>1, <1>6, MoreExplained DEF Adds
  <2>4. CASE Reported(at)
    <3>1. report' = report BY <2>4 DEF scan
    <3>2. AllOf(at)' = AllOf(at) BY <1>4, <1>5, <2>4
    <3>3. Blamed(x)' <=> Blamed(x) BY <3>1 DEF Blamed
    <3> QED BY <2>2, <2>3, <3>2, <3>3
  <2>5. CASE ~Reported(at)
    <3> DEFINE found == analyses[ref]
               problem == BackendProblem(ref, found)
    <3>1. found \in Problems /\ report' = IF found \in {"none", "external"} THEN report ELSE addProblem(report, problem)
      BY <1>3, <2>5, ScanReads
    <3>2. problem \in ProblemsOf(BackendChecks) BY <1>1, <1>2, <1>3, ReferenceParts, BackendProblemType
    <3>3. problem = CASE found = "kind"   -> Problem("backend", ref, "unsupported-ref", ~Mixed(RuleOf(ref)))
                      [] found = "unread" -> Problem("endpoints", ref, "api-inspection", FALSE)
                      [] OTHER            -> Problem("backend", ref, "FAIL", ~Mixed(RuleOf(ref)))
      BY DEF BackendProblem, RuleOf
    <3> HIDE DEF problem, found
    <3>4. CASE found \in {"none", "external"}
      <4>1. report' = report /\ ~Broken(found) BY <3>1, <3>4 DEF Broken
      <4>2. Blamed(x)' <=> Blamed(x) BY <4>1 DEF Blamed
      <4> QED BY <1>5, <2>2, <2>3, <4>1, <4>2 DEF found
    <3>5. CASE found \notin {"none", "external"}
      <4>1. report' = addProblem(report, problem) BY <3>1, <3>5
      <4>2. report.problems \in Nat /\ opts \in Option BY <1>2, LegalCases DEF ReportTyped, Legal
      <4>3. report'.problems = report.problems + 1 BY <3>2, <4>1, <4>2, AddProblemIs
      <4>4. report.problems + 1 <= Limit
        <5>1. Limit' = Limit BY <1>1, SameLimit
        <5> QED BY <1>10, <4>3, <5>1 DEF Complete
      <4>5. /\ addProblem(report, problem).results = report.results \cup {problem.result}
            /\ addProblem(report, problem).diagnoses
                  = report.diagnoses \cup (IF problem.diagnosed
                                           THEN {Diagnosis(problem.result.check, problem.result.about)} ELSE {})
        BY <3>2, <4>2, <4>4, AddProblemIs
      <4>6. CASE found = "unread"
        <5>1. problem = Problem("endpoints", ref, "api-inspection", FALSE) BY <3>3, <4>6
        <5>2. ~Broken(found) BY <4>6 DEF Broken
        <5>3. Blamed(x)' <=> Blamed(x) BY <4>1, <4>5, <5>1 DEF Blamed, Problem, Result
        <5> QED BY <1>5, <2>2, <2>3, <5>2, <5>3 DEF found
      <4>7. CASE found # "unread"
        <5>1. \E status : problem = Problem("backend", ref, status, ~Mixed(RuleOf(ref)))
          <6>1. CASE found = "kind" BY <3>3, <6>1
          <6>2. CASE found # "kind" BY <3>3, <4>7, <6>2
          <6> QED BY <6>1, <6>2
        <5>2. Broken(found) BY <3>5, <4>7 DEF Broken
        <5>3. problem.result.check = "backend" /\ problem.result.about = ref
              /\ (~Mixed(RuleOf(ref)) => problem.diagnosed)
          <6>1. PICK status, b : problem = Problem("backend", ref, status, b) /\ b = ~Mixed(RuleOf(ref)) BY <5>1
          <6>2. problem.result.check = "backend" /\ problem.result.about = ref /\ problem.diagnosed = b
            BY <6>1 DEF Problem, Result
          <6> QED BY <6>1, <6>2, Zenon
        <5>4. report'.results = report.results \cup {problem.result} BY <4>1, <4>5
        <5>5. Blamed(x)' <=> Blamed(x) \/ x = ref BY <5>3, <5>4 DEF Blamed
        <5>6. ~Mixed(RuleOf(ref)) => Explained(ref)'
          <6>1. ~Mixed(RuleOf(ref)) => Diagnosis("backend", ref) \in report'.diagnoses BY <4>1, <4>5, <5>3
          <6> QED BY <6>1 DEF Explained, Diagnosed
        <5> QED BY <1>5, <2>2, <2>3, <5>2, <5>5, <5>6 DEF found
      <4> QED BY <4>6, <4>7
    <3> QED BY <3>4, <3>5
  <2> QED BY <2>4, <2>5
<1>11. pc' \notin BeforeScan /\ pc' \notin AfterScan \cup AtEnd
  BY <1>1 DEF BeforeScan, Early, AfterScan, AtEnd
<1>12. at' >= 1 BY <1>1, <1>4
<1>13. \A x : Mixed(RuleOf(x))' = Mixed(RuleOf(x)) BY <1>9 DEF RuleOf
<1> QED BY <1>1, <1>7, <1>8, <1>10, <1>11, <1>12, <1>13 DEF BackendInv, Broken

LEMMA BlameScanned ==
    ASSUME Kept, BackendInv, scanned
    PROVE  BackendInv'
<1>1. /\ pc = "scan" /\ pc' \in {"dataplane", "conclude"} /\ at \notin DOMAIN paths
      /\ UNCHANGED Choice /\ UNCHANGED analyses /\ UNCHANGED input
  BY DEF scanned, Choice
<1>2. paths \in Seq(Candidates(selected)) /\ at \in Nat /\ ReportTyped BY DEF Kept, PathInv, Chosen
<1>3. AllOf(at) = References BY <1>1, <1>2, AllPaths DEF BackendInv
<1>4. References \subseteq DOMAIN analyses BY <1>1 DEF Kept, AnalysisInv
<1>5. Adds(report, report', {"weighted"}) BY <1>2, ScannedAdds
<1> DEFINE broken == {ref \in DOMAIN analyses : Mixed(SubSeq(ref, 1, 2)) /\ Broken(analyses[ref])}
           diagnoses == {Diagnosis("weighted", ref) : ref \in broken}
<1>6. report'.diagnoses = report.diagnoses \cup diagnoses BY DEF scanned, Add
<1>7. References' = References BY <1>1, SameReferences
<1>8. \A x : Mixed(RuleOf(x))' = Mixed(RuleOf(x)) BY <1>1, SameMixed DEF RuleOf
<1>9. ASSUME Complete', NEW x \in References
      PROVE  /\ Blamed(x)' <=> Broken(analyses[x])
             /\ Diagnosed("weighted", x)' <=> Broken(analyses[x]) /\ Mixed(RuleOf(x))
             /\ Broken(analyses[x]) /\ ~Mixed(RuleOf(x)) => Explained(x)'
  <2>1. Complete BY <1>1, <1>5, <1>9, StillComplete
  <2>2. /\ Blamed(x) <=> Broken(analyses[x])
        /\ Broken(analyses[x]) /\ ~Mixed(RuleOf(x)) => Explained(x)
    BY <1>1, <1>3, <1>9, <2>1 DEF BackendInv
  <2>3. Explained(x) => Explained(x)' BY <1>1, <1>5, MoreExplained DEF Adds
  <2>4. Blamed(x)' <=> Blamed(x) BY <1>5 DEF Adds, Blamed
  <2>5. Diagnosed("weighted", x)' <=> x \in broken
    <3>1. Diagnosis("weighted", x) \notin report.diagnoses BY <1>1 DEF BackendInv, Diagnosis
    <3>2. Diagnosis("weighted", x) \in diagnoses <=> x \in broken BY DEF Diagnosis
    <3> HIDE DEF diagnoses, broken
    <3> QED BY <1>6, <3>1, <3>2 DEF Diagnosed
  <2>6. x \in broken <=> Broken(analyses[x]) /\ Mixed(RuleOf(x)) BY <1>4, <1>9 DEF RuleOf
  <2> HIDE DEF broken
  <2> QED BY <2>2, <2>3, <2>4, <2>5, <2>6
<1>10. pc' \notin BeforeScan /\ pc' # "scan" BY <1>1 DEF BeforeScan, Early
<1> QED BY <1>1, <1>4, <1>7, <1>8, <1>9, <1>10 DEF BackendInv, Broken

\* A diagnosis of a status names one.
PlacedInv == \A d \in report.diagnoses : Placed(d.check, d.about)

LEMMA SamePlaces ==
    ASSUME UNCHANGED world, NEW check, NEW about, Placed(check, about)
    PROVE  Placed(check, about)'
BY DEF Placed

LEMMA InputStays == ASSUME [Next]_vars PROVE UNCHANGED input
<1>1. CASE readOptions \/ reachCluster \/ readLists \/ checkListeners \/ selectRules \/ checkParents \/ checkExpected
  BY <1>1 DEF readOptions, reachCluster, readLists, checkListeners, selectRules, checkParents, checkExpected
<1>2. CASE checkMirror BY <1>2 DEF checkMirror
<1>3. CASE analyze BY <1>3 DEF analyze
<1>4. CASE scan BY <1>4 DEF scan
<1>5. CASE dataplane BY <1>5, Zenon DEF dataplane
<1>6. CASE probe BY <1>6, Zenon DEF probe
<1>7. CASE mirrorsDone \/ analyzed \/ scanned \/ dataplaneDone \/ cannotProbe \/ probesDone
  BY <1>7 DEF mirrorsDone, analyzed, scanned, dataplaneDone, cannotProbe, probesDone
<1>8. CASE conclude \/ finishScan \/ dedupe \/ generic \/ finish
  BY <1>8 DEF conclude, finishScan, dedupe, generic, finish
<1>9. CASE UNCHANGED vars BY <1>9 DEF vars
<1> QED BY <1>1, <1>2, <1>3, <1>4, <1>5, <1>6, <1>7, <1>8, <1>9 DEF Next

LEMMA PlacedStep ==
    ASSUME Kept, PlacedInv, [Next]_vars
    PROVE  PlacedInv'
<1>0. PathInv /\ ReportInv /\ ReportTyped /\ opts \in Option BY LegalCases DEF Kept, Legal
<1>1. UNCHANGED world BY InputStays DEF input
<1>2. ASSUME NEW checks, Adds(report, report', checks), checks \cap StatusChecks = {} PROVE PlacedInv'
  <2> SUFFICES ASSUME NEW d \in report'.diagnoses PROVE Placed(d.check, d.about)' BY DEF PlacedInv
  <2>1. CASE d \in report.diagnoses BY <1>1, <2>1, SamePlaces DEF PlacedInv
  <2>2. CASE d \notin report.diagnoses BY <1>2, <2>2 DEF Adds, Placed
  <2> QED BY <2>1, <2>2
<1>3. CASE \/ readOptions \/ reachCluster \/ readLists \/ checkListeners \/ checkExpected
           \/ checkMirror \/ mirrorsDone \/ analyze \/ analyzed \/ dataplane \/ dataplaneDone
           \/ cannotProbe \/ probesDone \/ generic \/ finish \/ UNCHANGED vars
  <2>1. Adds(report, report', SideChecks) BY <1>0, <1>3, SideAdds
  <2>2. SideChecks \cap StatusChecks = {} BY DEF SideChecks, StatusChecks, ListNames, SecureChecks, ListenerChecks
  <2> QED BY <1>2, <2>1, <2>2
<1>4. CASE checkParents
  <2> SUFFICES ASSUME NEW d \in report'.diagnoses PROVE Placed(d.check, d.about)' BY DEF PlacedInv
  <2>1. d \in report.diagnoses \/ Placed(d.check, d.about) BY <1>0, <1>4, ParentsAdd
  <2>2. Placed(d.check, d.about) BY <2>1 DEF PlacedInv
  <2> QED BY <1>1, <2>2, SamePlaces
<1>5. CASE selectRules
  <2>1. Adds(report, report', Reasons \cup {"redirect"}) BY <1>0, <1>5, SelectAdds
  <2>2. (Reasons \cup {"redirect"}) \cap StatusChecks = {} BY DEF Reasons, StatusChecks
  <2> QED BY <1>2, <2>1, <2>2
<1>6. CASE scan
  <2>1. Adds(report, report', BackendChecks) BY <1>0, <1>6, ScanAdds
  <2>2. BackendChecks \cap StatusChecks = {} BY DEF BackendChecks, StatusChecks
  <2> QED BY <1>2, <2>1, <2>2
<1>7. CASE scanned
  <2>1. Adds(report, report', {"weighted"}) BY <1>0, <1>7, ScannedAdds
  <2>2. {"weighted"} \cap StatusChecks = {} BY DEF StatusChecks
  <2> QED BY <1>2, <2>1, <2>2
<1>8. CASE probe
  <2>1. Adds(report, report', RoundChecks) BY <1>0, <1>8, ProbeAdds
  <2>2. RoundChecks \cap StatusChecks = {} BY DEF RoundChecks, ProbeChecks, StatusChecks
  <2> QED BY <1>2, <2>1, <2>2
<1>9. CASE conclude
  <2>1. Adds(report, report', {"matched-backends"}) BY <1>0, <1>9, ConcludeAdds
  <2>2. {"matched-backends"} \cap StatusChecks = {} BY DEF StatusChecks
  <2> QED BY <1>2, <2>1, <2>2
<1>10. CASE finishScan
  <2>1. Adds(report, report', EndChecks) BY <1>0, <1>10, FinishAdds
  <2>2. EndChecks \cap StatusChecks = {} BY DEF EndChecks, FilterChecks, StatusChecks
  <2> QED BY <1>2, <2>1, <2>2
<1>11. CASE dedupe
  <2>1. report'.diagnoses \subseteq report.diagnoses BY <1>0, <1>11, DedupeKeepsResults
  <2> QED BY <1>1, <2>1, SamePlaces DEF PlacedInv
<1> QED BY <1>3, <1>4, <1>5, <1>6, <1>7, <1>8, <1>9, <1>10, <1>11 DEF Next

\* Of plain texts one that reports a rejection says nothing else, and stays.
LEMMA RejectionAlone ==
    ASSUME PlainRejections, PlacedInv, NEW d \in report.diagnoses, d.check \in AboutRoute, "rejection" \in Says(d)
    PROVE  \A x \in Says(d) : x = "rejection"
<1>1. CASE d.check \in StatusChecks
  <2>1. PICK r \in DOMAIN world.routes : \E i \in DOMAIN world.routes[r].statuses : d.about = <<r, i>>
    BY <1>1 DEF PlacedInv, Placed
  <2>2. PICK i \in DOMAIN world.routes[r].statuses : d.about = <<r, i>> BY <2>1
  <2> DEFINE status == world.routes[r].statuses[i]
             says == status.says
  <2>3. /\ says.accepted \subseteq {"rejection"}
        /\ "rejection" \in says.resolved \cup {"reference"} => says.resolved \cup {"reference"} = {"rejection"}
        /\ "rejection" \in says.partial => says.partial = {"rejection"}
    <3>1. world.routes[r] \in ToSet(world.routes) /\ status \in ToSet(world.routes[r].statuses) BY DEF ToSet
    <3> HIDE DEF status
    <3> QED BY <3>1 DEF PlainRejections
  <2>4. d.about[1] = r /\ d.about[2] = i BY <2>2
  <2> HIDE DEF says
  <2>5. CASE d.check = "rejected"
    <3>1. Says(d) = {"rejection"} \cup says.accepted BY <2>4, <2>5 DEF Says, OwnText, Message, says
    <3> QED BY <2>3, <3>1
  <2>6. CASE d.check = "unresolved"
    <3>1. Says(d) = {"reference"} \cup says.resolved BY <2>4, <2>6 DEF Says, OwnText, Message, says
    <3> QED BY <2>3, <3>1
  <2>7. CASE d.check = "partial"
    <3>1. Says(d) = {} \cup says.partial BY <2>4, <2>7 DEF Says, OwnText, Message, says
    <3> QED BY <2>3, <3>1
  <2> QED BY <1>1, <2>5, <2>6, <2>7 DEF StatusChecks
<1>2. CASE d.check \notin StatusChecks
  <2>1. Message(d) = {} BY <1>2 DEF Message, StatusChecks, AboutRoute
  <2>2. "rejection" \notin OwnText(d.check) BY <1>2 DEF OwnText, StatusChecks, AboutRoute
  <2> QED BY <2>1, <2>2 DEF Says
<1> QED BY <1>1, <1>2

LEMMA RejectionStays ==
    ASSUME PlainRejections, PlacedInv, NEW d \in report.diagnoses, d.check \in AboutRoute, "rejection" \in Says(d)
    PROVE  ~Redundant(d, report.diagnoses)
<1> SUFFICES ASSUME Redundant(d, report.diagnoses) PROVE FALSE OBVIOUS
<1>1. PICK f, g : <<f, g>> \in Outweighed /\ f \in Says(d) BY RouteRedundant
<1>2. f = "rejection" BY <1>1, RejectionAlone
<1> QED BY <1>1, <1>2 DEF Outweighed

LEMMA OnlyRejection ==
    ASSUME NEW diagnoses, NEW d \in diagnoses, d.check = "backend", Redundant(d, diagnoses)
    PROVE  \E e \in diagnoses : RejectionOf(d.about, e)
<1>1. d.check \in AboutRoute BY DEF AboutRoute
<1>2. PICK f, g : /\ <<f, g>> \in Outweighed /\ f \in Says(d)
                  /\ \E e \in diagnoses :
                        e.check \in AboutRoute /\ e.about[1] = d.about[1] /\ g \in Says(e)
  BY <1>1, RouteRedundant
<1>3. Says(d) = {"concrete"} BY DEF Says, OwnText, Message
<1>4. g = "rejection" BY <1>2, <1>3 DEF Outweighed
<1> QED BY <1>2, <1>4 DEF RejectionOf

\* What dedupe takes away of a backend, the rejection of its route explains.
LEMMA BlameDedupe ==
    ASSUME Kept, BackendInv, PlacedInv, dedupe
    PROVE  BackendInv'
<1>1. /\ pc = "dedupe" /\ pc' = "generic" /\ UNCHANGED Choice /\ UNCHANGED analyses /\ UNCHANGED input
  BY DEF dedupe, Choice
<1>2. /\ report'.results = report.results /\ report'.problems = report.problems
      /\ report'.diagnoses = {d \in report.diagnoses : ~Redundant(d, report.diagnoses)}
  BY DedupeKeepsResults DEF Kept
<1>3. References' = References /\ Limit' = Limit BY <1>1, SameReferences, SameLimit
<1>4. \A x : Mixed(RuleOf(x))' = Mixed(RuleOf(x)) BY <1>1, SameMixed DEF RuleOf
<1>5. \A d \in report.diagnoses : d.check = "weighted" => d \in report'.diagnoses
  <2> SUFFICES ASSUME NEW d \in report.diagnoses, d.check = "weighted", Redundant(d, report.diagnoses) PROVE FALSE
    BY <1>2
  <2>1. Says(d) = {} BY DEF Says, OwnText, Message
  <2>2. d.check \in AboutRoute BY DEF AboutRoute
  <2>3. PICK f, g : <<f, g>> \in Outweighed /\ f \in Says(d) BY <2>2, RouteRedundant
  <2> QED BY <2>1, <2>3
<1>6. ASSUME NEW x
      PROVE  /\ Blamed(x)' <=> Blamed(x)
             /\ Diagnosed("weighted", x)' <=> Diagnosed("weighted", x)
             /\ Explained(x) => Explained(x)'
  <2>1. Blamed(x)' <=> Blamed(x) BY <1>2 DEF Blamed
  <2>2. Diagnosed("weighted", x)' <=> Diagnosed("weighted", x) BY <1>2, <1>5 DEF Diagnosed, Diagnosis
  <2>3. ASSUME Explained(x) PROVE Explained(x)'
    <3>1. ASSUME PlainRejections, NEW d \in report.diagnoses, RejectionOf(x, d)
          PROVE  \E e \in report'.diagnoses : RejectionOf(x, e)'
      <4>1. ~Redundant(d, report.diagnoses) BY <3>1, RejectionStays DEF RejectionOf
      <4>2. d \in report'.diagnoses BY <1>2, <4>1
      <4> QED BY <1>1, <3>1, <4>2, SameTexts
    <3>2. CASE PlainRejections => \E d \in report.diagnoses : RejectionOf(x, d)
      <4>1. PlainRejections' => \E e \in report'.diagnoses : RejectionOf(x, e)' BY <1>1, <3>1, <3>2, SameTexts
      <4> QED BY <4>1 DEF Explained
    <3>3. CASE Diagnosed("backend", x)
      <4> DEFINE d == Diagnosis("backend", x)
      <4>1. d \in report.diagnoses /\ d.check = "backend" /\ d.about = x BY <3>3 DEF Diagnosed, Diagnosis
      <4> HIDE DEF d
      <4>2. CASE Redundant(d, report.diagnoses)
        <5>1. \E e \in report.diagnoses : RejectionOf(x, e) BY <4>1, <4>2, OnlyRejection
        <5> QED BY <3>2, <5>1
      <4>3. CASE ~Redundant(d, report.diagnoses)
        <5>1. d \in report'.diagnoses BY <1>2, <4>1, <4>3
        <5> QED BY <5>1 DEF Explained, Diagnosed, d
      <4> QED BY <4>2, <4>3
    <3> QED BY <2>3, <3>2, <3>3 DEF Explained
  <2> QED BY <2>1, <2>2, <2>3
<1>7. Complete' => Complete BY <1>2, <1>3 DEF Complete
<1>8. /\ pc \in AfterScan \cup AtEnd /\ pc' \in AfterScan \cup AtEnd
      /\ pc' \notin BeforeScan /\ pc' # "scan"
  BY <1>1 DEF AfterScan, AtEnd, BeforeScan, Early
<1> QED BY <1>1, <1>3, <1>4, <1>6, <1>7, <1>8 DEF BackendInv, Broken


LEMMA BlameFirst ==
    ASSUME Kept, CachesKept, BackendInv,
           \/ readOptions \/ reachCluster \/ readLists \/ checkListeners \/ selectRules \/ checkParents
           \/ checkExpected \/ checkMirror \/ mirrorsDone \/ analyze \/ analyzed
    PROVE  BackendInv'
<1>0. PathInv /\ ReportTyped /\ Legal BY LegalCases DEF Kept
<1>1. "backend" \notin PlainChecks /\ "weighted" \notin PlainChecks BY PlainIsNotSpecial DEF SpecialChecks
<1>2. CASE readOptions \/ reachCluster \/ readLists \/ checkListeners
  <2>1. Adds(report, report', PlainChecks) BY <1>0, <1>2, PlainAdds
  <2>2. /\ pc \in Early /\ UNCHANGED paths /\ pc' \in Early \cup {"exit", "generic"}
    BY <1>2 DEF readOptions, reachCluster, readLists, checkListeners, Early
  <2>3. pc \in BeforeScan /\ paths' = <<>> BY <1>0, <2>2 DEF BeforeScan, PathInv
  <2>4. CASE pc' \in Early BY <1>1, <2>1, <2>3, <2>4, BlameNone DEF BeforeScan
  <2>5. CASE pc' \in {"exit", "generic"} BY <2>3, <2>5, BlameNobody DEF AtEnd
  <2> QED BY <2>2, <2>4, <2>5
<1>3. CASE selectRules
  <2>1. pc = "select" /\ pc' \in {"parents", "finish"} BY <1>3 DEF selectRules
  <2>2. pc' = "finish" => paths' = <<>> BY <1>3 DEF selectRules
  <2>3. pc' = "parents" => report' = report BY <1>3 DEF selectRules
  <2>4. CASE pc' = "parents"
    <3>1. Adds(report, report', {}) BY <1>0, <2>3, <2>4, AddsNothing DEF ReportTyped
    <3> QED BY <2>1, <2>4, <3>1, BlameNone DEF BeforeScan, Early
  <2>5. CASE pc' = "finish" BY <2>2, <2>5, BlameNobody DEF AtEnd
  <2> QED BY <2>1, <2>4, <2>5
<1>4. CASE checkParents \/ checkExpected \/ checkMirror \/ mirrorsDone \/ analyze
  <2>1. Adds(report, report', PlainChecks) BY <1>0, <1>4, PlainAdds
  <2>2. pc \in BeforeScan /\ pc' \in BeforeScan
    <3>1. CASE checkParents BY <3>1 DEF checkParents, BeforeScan
    <3>2. CASE checkExpected BY <3>2 DEF checkExpected, BeforeScan
    <3>3. CASE checkMirror BY <3>3 DEF checkMirror, BeforeScan
    <3>4. CASE mirrorsDone BY <3>4 DEF mirrorsDone, BeforeScan
    <3>5. CASE analyze BY <3>5 DEF analyze, BeforeScan
    <3> QED BY <1>4, <3>1, <3>2, <3>3, <3>4, <3>5
  <2> QED BY <1>1, <2>1, <2>2, BlameNone
<1>5. CASE analyzed
  <2>1. pc = "analyze" /\ pc' = "scan" /\ at' = 1 /\ UNCHANGED <<report, Choice>> BY <1>5 DEF analyzed, Choice
  <2>2. ~Said("backend") /\ \A d \in report.diagnoses : d.check \notin {"backend", "weighted"}
    BY <2>1 DEF BackendInv, BeforeScan
  <2>3. AllOf(at)' = {}
    <3>1. AllOf(at)' = AllOf(at') BY <2>1 DEF AllOf, Choice, ReferenceOf
    <3>2. AllOf(1) = {} BY <1>0 DEF AllOf, PathInv, Chosen
    <3> QED BY <2>1, <3>1, <3>2
  <2>4. \A x : ~Blamed(x)' BY <2>1, <2>2 DEF Said, Blamed
  <2>5. pc' \notin BeforeScan /\ pc' \notin AfterScan \cup AtEnd
    BY <2>1 DEF BeforeScan, Early, AfterScan, AtEnd
  <2>6. \A d \in report'.diagnoses : d.check # "weighted" BY <2>1, <2>2
  <2> QED BY <2>1, <2>3, <2>4, <2>5, <2>6 DEF BackendInv
<1> QED BY <1>2, <1>3, <1>4, <1>5

LEMMA BlameLast ==
    ASSUME Kept, BackendInv,
           \/ dataplane \/ dataplaneDone \/ probe \/ cannotProbe \/ probesDone
           \/ conclude \/ finishScan \/ generic \/ finish
    PROVE  BackendInv'
<1>0. PathInv /\ ReportTyped /\ opts \in Option BY LegalCases DEF Kept, Legal
<1>1. "backend" \notin PlainChecks /\ "weighted" \notin PlainChecks BY PlainIsNotSpecial DEF SpecialChecks
<1>2. UNCHANGED Choice /\ UNCHANGED analyses /\ pc \in AfterScan \cup AtEnd /\ pc' \in AfterScan \cup AtEnd
  <2>1. CASE dataplane BY <2>1, Zenon DEF dataplane, Choice, AfterScan
  <2>2. CASE probe BY <2>2, Zenon DEF probe, Choice, AfterScan
  <2>3. CASE dataplaneDone \/ cannotProbe \/ probesDone
    BY <2>3 DEF dataplaneDone, cannotProbe, probesDone, Choice, AfterScan
  <2>4. CASE conclude \/ finishScan \/ generic \/ finish
    BY <2>4 DEF conclude, finishScan, generic, finish, Choice, AfterScan, AtEnd
  <2> QED BY <2>1, <2>2, <2>3, <2>4
<1>3. \E checks : Adds(report, report', checks) /\ "backend" \notin checks /\ "weighted" \notin checks
  <2>1. CASE probe
    <3>1. Adds(report, report', RoundChecks) BY <1>0, <2>1, ProbeAdds
    <3>2. "backend" \notin RoundChecks /\ "weighted" \notin RoundChecks BY DEF RoundChecks, ProbeChecks
    <3> QED BY <3>1, <3>2
  <2>2. CASE conclude
    <3>1. Adds(report, report', {"matched-backends"}) BY <1>0, <2>2, ConcludeAdds
    <3> QED BY <3>1
  <2>3. CASE finishScan
    <3>1. Adds(report, report', EndChecks) BY <1>0, <2>3, FinishAdds
    <3>2. "backend" \notin EndChecks /\ "weighted" \notin EndChecks BY DEF EndChecks, FilterChecks
    <3> QED BY <3>1, <3>2
  <2>4. CASE dataplane \/ dataplaneDone \/ cannotProbe \/ probesDone \/ generic \/ finish
    <3>1. Adds(report, report', PlainChecks) BY <1>0, <2>4, PlainAdds
    <3> QED BY <1>1, <3>1
  <2> QED BY <2>1, <2>2, <2>3, <2>4
<1> QED BY <1>2, <1>3, BlameStays

LEMMA BlameStutter ==
    ASSUME BackendInv, UNCHANGED vars
    PROVE  BackendInv'
<1>1. UNCHANGED <<pc, at, report, analyses>> /\ UNCHANGED Choice /\ UNCHANGED input BY DEF vars, Choice
<1>2. References' = References /\ AllOf(at)' = AllOf(at) /\ Limit' = Limit
  <2>1. AllOf(at)' = AllOf(at) BY <1>1 DEF AllOf, Choice, ReferenceOf
  <2> QED BY <1>1, <2>1, SameReferences, SameLimit
<1>3. ASSUME NEW x
      PROVE  /\ Mixed(RuleOf(x))' = Mixed(RuleOf(x)) /\ Blamed(x)' = Blamed(x) /\ (Explained(x) => Explained(x)')
             /\ Diagnosed("weighted", x)' = Diagnosed("weighted", x)
  BY <1>1, SameMixed, MoreExplained DEF RuleOf, Blamed, Diagnosed
<1>4. Said("backend")' = Said("backend") /\ Complete' = Complete BY <1>1, <1>2 DEF Said, Complete
<1> QED BY <1>1, <1>2, <1>3, <1>4 DEF BackendInv, Broken

LEMMA BackendStep == Kept /\ BackendInv /\ PlacedInv /\ [Next]_vars => BackendInv'
<1> SUFFICES ASSUME Kept, BackendInv, PlacedInv, [Next]_vars PROVE BackendInv' OBVIOUS
<1>1. CachesKept
  <2>1. world \in World BY LegalCases DEF Kept, Legal
  <2> QED BY <2>1, CachesGrow DEF Kept
<1> QED BY <1>1, BlameFirst, BlameScan, BlameScanned, BlameLast, BlameDedupe, BlameStutter DEF Next

(***************************************************************************)
(* In every state the diagnoses of backends are those of the references    *)
(* that were looked at so far.                                             *)
(***************************************************************************)
THEOREM BackendsKept == Spec => [](Kept /\ BackendInv)
<1>1. Init => BackendInv
  <2> SUFFICES ASSUME Init PROVE BackendInv OBVIOUS
  <2>1. pc = "options" /\ report.results = {} /\ report.diagnoses = {} BY DEF Init
  <2> QED BY <2>1 DEF BackendInv, Said, AfterScan, AtEnd
<1>2. Kept /\ BackendInv /\ PlacedInv /\ [Next]_vars => BackendInv' BY BackendStep
<1>3. Spec => []Kept BY AlwaysKept
<1>4. Init => PlacedInv BY DEF Init, PlacedInv
<1>5. Kept /\ PlacedInv /\ [Next]_vars => PlacedInv' BY PlacedStep
<1> QED BY <1>1, <1>2, <1>3, <1>4, <1>5, PTL DEF Spec

(***************************************************************************)
(* Every broken backend is explained: the second round of analysis finds   *)
(* what the first one found, whatever is read in between, and dedupe takes *)
(* a backend's diagnosis away only beside one of its route's rejection,    *)
(* which stays as long as the texts that report rejections report nothing  *)
(* else (gateway.go:3453-3491, 6337-6380, 651-722).                        *)
(***************************************************************************)
THEOREM BrokenExplained == Spec => []BrokenIsExplained
<1>1. Kept /\ BackendInv => BrokenIsExplained
  <2> SUFFICES ASSUME BackendInv, pc = "done", Complete, PlainRejections, NEW ref \in References, Blamed(ref)
               PROVE  \/ Diagnosed("backend", ref) \/ Diagnosed("weighted", ref)
                      \/ \E d \in report.diagnoses :
                            d.check \in AboutRoute /\ d.about[1] = ref[1] /\ "rejection" \in Says(d)
    BY DEF BrokenIsExplained
  <2> QED BY DEF BackendInv, AtEnd, Explained, RejectionOf
<1> QED BY <1>1, BackendsKept, PTL

(***************************************************************************)
(* A rule is said to split a request exactly if it has good and broken     *)
(* backends, and then each broken one gets that diagnosis (4376-4440).     *)
(***************************************************************************)
THEOREM WeightsAgree == Spec => []WeightedAgrees
<1>1. Kept /\ BackendInv => WeightedAgrees
  <2> SUFFICES ASSUME Kept, BackendInv, pc = "done", Complete,
                      NEW rule \in {SubSeq(ref, 1, 2) : ref \in References}
               PROVE  {ref \in Backends(rule) : Diagnosed("weighted", ref)}
                         = IF {ref \in Backends(rule) : Blamed(ref)} = Backends(rule) THEN {}
                           ELSE {ref \in Backends(rule) : Blamed(ref)}
    BY DEF WeightedAgrees
  <2> DEFINE bad == {ref \in Backends(rule) : Blamed(ref)}
             told == {ref \in Backends(rule) : Diagnosed("weighted", ref)}
  <2>1. DOMAIN analyses = References BY DEF Kept, AnalysisInv, BackendInv, AtEnd
  <2>2. \A ref \in References :
           /\ Blamed(ref) <=> Broken(analyses[ref])
           /\ Diagnosed("weighted", ref) <=> Broken(analyses[ref]) /\ Mixed(RuleOf(ref))
    BY DEF BackendInv, AtEnd
  <2>3. \A ref \in Backends(rule) : ref \in References /\ RuleOf(ref) = rule BY DEF Backends, OfRule, RuleOf
  <2>4. Mixed(rule) <=> (\E ref \in Backends(rule) : Blamed(ref)) /\ (\E ref \in Backends(rule) : ~Blamed(ref))
    BY <2>1, <2>2 DEF Mixed, Backends
  <2>5. told = IF Mixed(rule) THEN bad ELSE {} BY <2>2, <2>3
  <2>6. CASE bad = Backends(rule) BY <2>4, <2>5, <2>6
  <2>7. CASE bad # Backends(rule) BY <2>4, <2>5, <2>7
  <2> QED BY <2>6, <2>7
<1> QED BY <1>1, BackendsKept, PTL


-------------------------------------------------------------------------------
(* Whom a probe blames.                                                    *)

\* The listeners that the paths start at, each with its Gateway.
Places == {<<paths[i][1], paths[i][2]>> : i \in DOMAIN paths}

LEMMA PlaceParts ==
    ASSUME PathInv, NEW where \in Places
    PROVE  /\ where[1] \in Nat /\ where[2] \in Nat /\ where = <<where[1], where[2]>>
           /\ where[1] \in DOMAIN world.gateways /\ world.gateways[where[1]].addresses \subseteq Nat
           /\ \A a \in Nat : SubSeq(<<where[1], where[2], a>>, 1, 2) = where
           /\ SubSeq(where, 1, 2) = where
<1>1. PICK i \in DOMAIN paths : where = <<paths[i][1], paths[i][2]>> BY DEF Places
<1>2. paths[i][1] \in Nat /\ paths[i][2] \in Nat /\ paths[i][1] \in Parents BY PathParts
<1>3. where[1] = paths[i][1] /\ where[2] = paths[i][2] BY <1>1
<1>4. where[1] \in Nat /\ where[2] \in Nat /\ where = <<where[1], where[2]>> BY <1>1, <1>2, <1>3
<1>5. where[1] \in DOMAIN world.gateways BY <1>2, <1>3, ScopeParts, LegalCases DEF Legal
<1>6. world.gateways[where[1]].addresses \subseteq Nat BY <1>5, GatewayParts, LegalCases DEF Legal
<1>7. \A a \in Nat : SubSeq(<<where[1], where[2], a>>, 1, 2) = <<where[1], where[2]>> BY <1>4, FirstTwo
<1>8. SubSeq(<<where[1], where[2]>>, 1, 2) = <<where[1], where[2]>> BY <1>4, TwoOfTwo
<1>9. SubSeq(where, 1, 2) = where BY <1>4, <1>8
<1> QED BY <1>4, <1>5, <1>6, <1>7, <1>9

\* Every address was tried, and inside there was nothing to ask or nothing is
\* left to ask.
Covered(where) ==
    /\ Tried(where)
    /\ Steady(where[1]) => Result("in-cluster", where, "WARN") \in report.results \/ Exhausted(where)

Honest(d) ==
    /\ d.check \in {"client-path", "address"} => Of("outside", d.about, "FAIL") /\ ~Of("outside", d.about, "PASS")
    /\ d.check = "client-path" => Of("inside", d.about, "PASS")
    /\ d.check = "inside" =>
          /\ Of("inside", d.about, "FAIL")
          /\ Of("outside", d.about, "PASS") /\ Steady(d.about[1]) => Of("in-cluster", d.about, "WARN")

\* What was found from outside, and the cause that a probe found.
IsOutside(r) == \E where \in Places : \E a \in Nat : r.about = <<where[1], where[2], a>> /\ Covered(where)
IsCause(d) == d.about \in Places /\ Tried(d.about) /\ Honest(d)

NoProbe == ~Said("outside") /\ \A d \in report.diagnoses : d.check \notin ProbeChecks

ProbeInv ==
    /\ pc \notin {"probe", "conclude"} \cup AtEnd => NoProbe
    /\ \A r \in report.results : r.check = "outside" => IsOutside(r)
    /\ \A d \in report.diagnoses : d.check \in ProbeChecks => IsCause(d)
    /\ \A d, e \in report.diagnoses : d.check \in ProbeChecks /\ e.check \in ProbeChecks => d = e

LEMMA NoProbeFine ==
    ASSUME NoProbe'
    PROVE  ProbeInv'
BY DEF NoProbe, ProbeInv, Said

LEMMA StillNoProbe ==
    ASSUME NoProbe, NEW checks, Adds(report, report', checks), checks \cap ({"outside"} \cup ProbeChecks) = {}
    PROVE  NoProbe'
BY DEF NoProbe, Adds, Said

\* Where more is asked, what was asked stays so.
LEMMA AskedStays ==
    ASSUME UNCHANGED input, UNCHANGED intent, probed \subseteq probed', report.results \subseteq report'.results,
           NEW where
    PROVE  /\ Tried(where) => Tried(where)'
           /\ Exhausted(where) => Exhausted(where)'
           /\ Covered(where) => Covered(where)'
           /\ Steady(where[1])' = Steady(where[1])
           /\ \A list : InClusterAt(where, list)' = InClusterAt(where, list)
<1>1. world' = world /\ intent' = intent BY DEF input
<1>2. Tried(where) => Tried(where)' BY <1>1 DEF Tried
<1>3. ASSUME NEW list PROVE InClusterAt(where, list)' = InClusterAt(where, list)
  BY <1>1 DEF InClusterAt, PortAt
<1>4. Exhausted(where) => Exhausted(where)' BY <1>1, <1>3 DEF Exhausted
<1>5. \A g : Steady(g)' = Steady(g) BY <1>1 DEF Steady
<1>6. Steady(where[1])' = Steady(where[1]) BY <1>5
<1>7. Covered(where) => Covered(where)' BY <1>2, <1>4, <1>6 DEF Covered
<1> QED BY <1>2, <1>3, <1>4, <1>6, <1>7

\* A step that finds nothing outside of this cause and takes nothing back.
LEMMA HonestStays ==
    ASSUME UNCHANGED input, report.results \subseteq report'.results, NEW d, Honest(d),
           \A r \in report'.results :
              r.check = "outside" /\ SubSeq(r.about, 1, 2) = d.about => r \in report.results
    PROVE  Honest(d)'
<1>1. \A status : Of("outside", d.about, status)' <=> Of("outside", d.about, status) BY DEF Of
<1>2. \A check, status : Of(check, d.about, status) => Of(check, d.about, status)' BY DEF Of
<1>3. Steady(d.about[1])' = Steady(d.about[1]) BY DEF Steady, input
<1> QED BY <1>1, <1>2, <1>3 DEF Honest

LEMMA ProbeQuiet ==
    ASSUME ProbeInv, UNCHANGED Choice, UNCHANGED probing, pc \in {"probe", "conclude"} \cup AtEnd,
           pc' \in {"probe", "conclude"} \cup AtEnd,
           report.results \subseteq report'.results,
           \A r \in report'.results : r.check = "outside" => r \in report.results,
           \A d \in report'.diagnoses : d.check \in ProbeChecks => d \in report.diagnoses
    PROVE  ProbeInv'
<1>1. UNCHANGED input /\ UNCHANGED intent /\ probed' = probed BY DEF Choice, probing
<1>2. Places' = Places BY DEF Places, Choice
<1>3. \A where : (Tried(where) => Tried(where)') /\ (Covered(where) => Covered(where)') BY <1>1, AskedStays
<1>4. ASSUME NEW r \in report'.results, r.check = "outside" PROVE IsOutside(r)'
  <2>1. IsOutside(r) BY <1>4 DEF ProbeInv
  <2> QED BY <1>2, <1>3, <2>1 DEF IsOutside
<1>5. ASSUME NEW d \in report'.diagnoses, d.check \in ProbeChecks PROVE IsCause(d)'
  <2>1. IsCause(d) BY <1>5 DEF ProbeInv
  <2>2. Honest(d)' BY <1>1, <2>1, HonestStays DEF IsCause
  <2> QED BY <1>2, <1>3, <2>1, <2>2 DEF IsCause
<1> QED BY <1>4, <1>5 DEF ProbeInv


LEMMA ProbeProbe ==
    ASSUME PathInv, ProbeInv, probe
    PROVE  ProbeInv'
<1>1. PICK outside, list, after, more, diagnoses, asked, pods :
         /\ ProbeFinds(outside, list, after, more, diagnoses, asked, pods)
         /\ report' = after.report /\ probed' = after.probed
  BY ProbeIs
<1>2. PICK w : w = Where OBVIOUS
<1>3. PICK tried : tried = TriedNow(outside) OBVIOUS
<1>4. /\ pc = "probe" /\ pc' = "probe" /\ at \in DOMAIN paths
      /\ input' = input /\ intent' = intent /\ paths' = paths
  BY Zenon DEF probe
<1>5. w \in Places /\ w = <<paths[at][1], paths[at][2]>> BY <1>2, <1>4 DEF Places, Where
<1>6. w[1] = paths[at][1] /\ w[2] = paths[at][2] /\ w = <<w[1], w[2]>> BY <1>5
<1>7. /\ DOMAIN outside = {a \in world.gateways[w[1]].addresses : <<w[1], w[2], a>> \notin probed}
      /\ \A a \in DOMAIN outside : outside[a] \in {"PASS", "FAIL"}
      /\ list \in world.implementation[w[1]]
  BY <1>1, <1>6 DEF ProbeFinds, Fresh
<1>8. Finds(outside, list, after, more, diagnoses, asked, pods) BY <1>1 DEF ProbeFinds
<1>9. /\ report'.results = report.results \cup tried \cup more
      /\ report'.diagnoses = report.diagnoses \cup diagnoses
      /\ probed' = probed \cup {<<w[1], w[2], a>> : a \in DOMAIN outside} \cup asked
      /\ \A r \in more : r.check \in InsideChecks
  BY <1>1, <1>3, <1>6, <1>8 DEF Finds, Add, AddressesOf
<1>10. \/ Result("in-cluster", w, "WARN") \in more
       \/ ~list.error /\ InClusterAt(w, list) \subseteq probed \cup asked
  BY <1>2, <1>8 DEF Finds
<1>11. \/ diagnoses = {}
       \/ /\ report.diagnoses = {}
          /\ \E check \in ProbeChecks : diagnoses = {Diagnosis(check, w)} /\ Blames(check, outside, list, more)
  BY <1>2, <1>8 DEF Finds
<1>12. \/ tried = {Result("dial", w, "WARN")}
       \/ tried = {Result("outside", <<w[1], w[2], a>>, outside[a]) : a \in DOMAIN outside}
  BY <1>2, <1>3, <1>6 DEF TriedNow, Skipped
<1>13. /\ \A r \in tried : r.check = "outside" => \E a \in DOMAIN outside : r.about = <<w[1], w[2], a>>
       /\ \A r \in tried : r.status \in {"PASS", "FAIL"} => r.check = "outside"
  BY <1>12 DEF Result
<1>14. \A r \in more : r.check # "outside" BY <1>9 DEF InsideChecks
<1>15. /\ w[1] \in DOMAIN world.gateways /\ world.gateways[w[1]].addresses \subseteq Nat
       /\ \A a \in Nat : SubSeq(<<w[1], w[2], a>>, 1, 2) = w
       /\ SubSeq(w, 1, 2) = w
  BY <1>5, <1>6, PlaceParts
<1>16. probed \subseteq probed' /\ report.results \subseteq report'.results BY <1>9
<1>17. world' = world BY <1>4 DEF input
<1>18. Tried(w)' BY <1>7, <1>9, <1>17 DEF Tried
<1>19. ASSUME NEW where
       PROVE  /\ Tried(where) => Tried(where)'
              /\ Exhausted(where) => Exhausted(where)'
              /\ Covered(where) => Covered(where)'
              /\ Steady(where[1])' = Steady(where[1])
              /\ \A l : InClusterAt(where, l)' = InClusterAt(where, l)
  BY <1>4, <1>16, AskedStays
<1>20. Covered(w)'
  <2>1. CASE Result("in-cluster", w, "WARN") \in more
    <3>1. Result("in-cluster", w, "WARN") \in report'.results BY <1>9, <2>1
    <3> QED BY <1>18, <3>1 DEF Covered
  <2>2. CASE ~list.error /\ InClusterAt(w, list) \subseteq probed \cup asked
    <3>1. InClusterAt(w, list) \subseteq probed' BY <1>9, <2>2
    <3>2. Steady(w[1])' => Exhausted(w)'
      <4> SUFFICES ASSUME Steady(w[1])', NEW l \in world.implementation[w[1]], ~l.error
                   PROVE  InClusterAt(w, l)' \subseteq probed'
        BY <1>17 DEF Exhausted
      <4>1. l = list BY <1>7, <1>17, <2>2 DEF Steady
      <4>2. InClusterAt(w, l)' = InClusterAt(w, l) BY <1>19
      <4> QED BY <3>1, <4>1, <4>2
    <3> QED BY <1>18, <3>2 DEF Covered
  <2> QED BY <1>10, <2>1, <2>2
<1>21. Places' = Places BY <1>4 DEF Places
<1>22. ASSUME NEW r \in report'.results, r.check = "outside" PROVE IsOutside(r)'
  <2>1. CASE r \in report.results
    <3>1. PICK where \in Places : \E a \in Nat : r.about = <<where[1], where[2], a>> /\ Covered(where)
      BY <1>22, <2>1 DEF ProbeInv, IsOutside
    <3>2. Covered(where)' BY <1>19, <3>1
    <3> QED BY <1>21, <3>1, <3>2 DEF IsOutside
  <2>2. CASE r \in tried
    <3>1. PICK a \in DOMAIN outside : r.about = <<w[1], w[2], a>> BY <1>13, <1>22, <2>2
    <3>2. a \in Nat BY <1>7, <1>15
    <3> QED BY <1>5, <1>20, <1>21, <3>1, <3>2 DEF IsOutside
  <2> QED BY <1>9, <1>14, <1>22, <2>1, <2>2

<1>23. ASSUME NEW status, Of("outside", w, status) PROVE Covered(w)
  <2>1. PICK r \in report.results : r.check = "outside" /\ SubSeq(r.about, 1, 2) = w BY <1>23 DEF Of
  <2>2. PICK where \in Places : \E a \in Nat : r.about = <<where[1], where[2], a>> /\ Covered(where)
    BY <2>1 DEF ProbeInv, IsOutside
  <2>3. where = w BY <2>1, <2>2, PlaceParts
  <2> QED BY <2>2, <2>3
<1>24. Tried(w) => DOMAIN outside = {} BY <1>7 DEF Tried
<1>25. ASSUME NEW d \in report.diagnoses, d.check \in ProbeChecks PROVE IsCause(d)'
  <2>1. d.about \in Places /\ Tried(d.about) /\ Honest(d) BY <1>25 DEF ProbeInv, IsCause
  <2>2. ASSUME NEW r \in report'.results, r.check = "outside", SubSeq(r.about, 1, 2) = d.about
        PROVE  r \in report.results
    <3> SUFFICES ASSUME r \in tried PROVE FALSE BY <1>9, <1>14, <2>2
    <3>1. PICK a \in DOMAIN outside : r.about = <<w[1], w[2], a>> BY <1>13, <2>2
    <3>2. a \in Nat BY <1>7, <1>15
    <3>3. d.about = w BY <1>15, <2>2, <3>1, <3>2
    <3> QED BY <1>24, <2>1, <3>1, <3>3
  <2>3. Honest(d)' BY <1>4, <1>16, <2>1, <2>2, HonestStays
  <2>4. Tried(d.about)' BY <1>19, <2>1
  <2> QED BY <1>21, <2>1, <2>3, <2>4 DEF IsCause
<1>26. ASSUME NEW check \in ProbeChecks, Blames(check, outside, list, more), NEW d, d = Diagnosis(check, w)
       PROVE  IsCause(d)'
  <2>1. d.check = check /\ d.about = w BY <1>26 DEF Diagnosis
  <2>2. Of("outside", w, "PASS")' /\ ~Passed(tried) => Covered(w)
    <3> SUFFICES ASSUME Of("outside", w, "PASS")', ~Passed(tried) PROVE Covered(w) OBVIOUS
    <3>1. PICK r \in report'.results : r.check = "outside" /\ SubSeq(r.about, 1, 2) = w /\ r.status = "PASS"
      BY DEF Of
    <3>2. r \notin tried BY <3>1 DEF Passed
    <3>3. r \in report.results BY <1>9, <1>14, <3>1, <3>2
    <3> QED BY <1>23, <3>1, <3>3 DEF Of
  <2>3. ASSUME NEW status, Result("inside", w, status) \in more PROVE Of("inside", w, status)'
    <3>1. Result("inside", w, status) \in report'.results BY <1>9, <2>3
    <3> QED BY <1>15, <3>1 DEF Of, Result
  <2>4. CASE check \in {"client-path", "address"}
    <3>1. HasFail(tried) /\ ~Passed(tried) /\ (check = "client-path" => Result("inside", w, "PASS") \in more)
      BY <1>2, <1>3, <1>26, <2>4 DEF Blames
    <3>2. PICK r \in tried : r.status = "FAIL" BY <3>1 DEF HasFail
    <3>3. r.check = "outside" BY <1>13, <3>2
    <3>4. PICK a \in DOMAIN outside : r.about = <<w[1], w[2], a>> BY <1>13, <3>2, <3>3
    <3>5. SubSeq(r.about, 1, 2) = w BY <1>7, <1>15, <3>4
    <3>6. Of("outside", w, "FAIL")' BY <1>9, <3>2, <3>3, <3>5 DEF Of
    <3>7. ~Of("outside", w, "PASS")' BY <1>24, <2>2, <3>1, <3>4 DEF Covered
    <3>8. check = "client-path" => Of("inside", w, "PASS")' BY <2>3, <3>1
    <3>9. Honest(d)' BY <2>1, <2>4, <3>6, <3>7, <3>8 DEF Honest
    <3> QED BY <1>5, <1>18, <1>21, <2>1, <3>9 DEF IsCause
  <2>5. CASE check = "inside"
    <3>1. /\ Result("inside", w, "FAIL") \in more /\ ~Passed(tried)
          /\ ~list.error /\ ~(InClusterAt(w, list) \subseteq probed)
      BY <1>2, <1>3, <1>26, <2>5 DEF Blames
    <3>2. Of("inside", w, "FAIL")' BY <2>3, <3>1
    <3>3. ~Exhausted(w) BY <1>7, <3>1 DEF Exhausted
    <3>4. Of("outside", w, "PASS")' /\ Steady(w[1])' => Of("in-cluster", w, "WARN")'
      <4> SUFFICES ASSUME Of("outside", w, "PASS")', Steady(w[1])' PROVE Of("in-cluster", w, "WARN")' OBVIOUS
      <4>1. Covered(w) /\ Steady(w[1]) BY <1>19, <2>2, <3>1
      <4>2. Result("in-cluster", w, "WARN") \in report.results BY <3>3, <4>1 DEF Covered
      <4>3. Result("in-cluster", w, "WARN") \in report'.results BY <1>16, <4>2
      <4> QED BY <1>15, <4>3 DEF Of, Result
    <3>5. Honest(d)' BY <2>1, <2>5, <3>2, <3>4 DEF Honest
    <3> QED BY <1>5, <1>18, <1>21, <2>1, <3>5 DEF IsCause
  <2>6. CASE check \in {"upstream", "mesh"}
    <3>1. Honest(d)' BY <2>1, <2>6 DEF Honest
    <3> QED BY <1>5, <1>18, <1>21, <2>1, <3>1 DEF IsCause
  <2> QED BY <2>4, <2>5, <2>6 DEF ProbeChecks
<1>27. ASSUME NEW d \in report'.diagnoses, d.check \in ProbeChecks PROVE IsCause(d)'
  <2>1. CASE d \in report.diagnoses BY <1>25, <1>27, <2>1
  <2>2. CASE d \in diagnoses BY <1>11, <1>26, <2>2
  <2> QED BY <1>9, <1>27, <2>1, <2>2
<1>28. \A d, e \in report'.diagnoses : d.check \in ProbeChecks /\ e.check \in ProbeChecks => d = e
  BY <1>9, <1>11 DEF ProbeInv
<1>29. pc' \in {"probe", "conclude"} \cup AtEnd BY <1>4
<1> QED BY <1>22, <1>27, <1>28, <1>29 DEF ProbeInv


LEMMA ProbeFirst ==
    ASSUME Kept, ProbeInv,
           \/ readOptions \/ reachCluster \/ readLists \/ checkListeners \/ selectRules \/ checkParents
           \/ checkExpected \/ checkMirror \/ mirrorsDone \/ analyze \/ analyzed \/ scan \/ scanned
           \/ dataplane \/ dataplaneDone
    PROVE  ProbeInv'
<1>0. PathInv /\ ReportTyped /\ opts \in Option BY LegalCases DEF Kept, Legal
<1>1. pc \notin {"probe", "conclude"} \cup AtEnd
  <2>1. CASE dataplane BY <2>1, Zenon DEF dataplane, AtEnd
  <2>2. CASE readOptions \/ reachCluster \/ readLists \/ checkListeners \/ selectRules
    BY <2>2 DEF readOptions, reachCluster, readLists, checkListeners, selectRules, AtEnd
  <2>3. CASE checkParents \/ checkExpected \/ checkMirror \/ mirrorsDone
    BY <2>3 DEF checkParents, checkExpected, checkMirror, mirrorsDone, AtEnd
  <2>4. CASE analyze \/ analyzed \/ scan \/ scanned \/ dataplaneDone
    BY <2>4 DEF analyze, analyzed, scan, scanned, dataplaneDone, AtEnd
  <2> QED BY <2>1, <2>2, <2>3, <2>4
<1>2. NoProbe BY <1>1 DEF ProbeInv
<1>3. \E checks : Adds(report, report', checks) /\ checks \cap ({"outside"} \cup ProbeChecks) = {}
  <2>1. CASE \/ readOptions \/ reachCluster \/ readLists \/ checkListeners \/ checkParents \/ checkExpected
             \/ checkMirror \/ mirrorsDone \/ analyze \/ analyzed \/ dataplane \/ dataplaneDone
    <3>1. Adds(report, report', PlainChecks) BY <1>0, <2>1, PlainAdds
    <3>2. PlainChecks \cap ({"outside"} \cup ProbeChecks) = {}
      BY PlainIsNotSpecial DEF SpecialChecks, ProbeChecks
    <3> QED BY <3>1, <3>2
  <2>2. CASE selectRules
    <3>1. Adds(report, report', Reasons \cup {"redirect"}) BY <1>0, <2>2, SelectAdds
    <3>2. (Reasons \cup {"redirect"}) \cap ({"outside"} \cup ProbeChecks) = {} BY DEF Reasons, ProbeChecks
    <3> QED BY <3>1, <3>2
  <2>3. CASE scan
    <3>1. Adds(report, report', BackendChecks) BY <1>0, <2>3, ScanAdds
    <3>2. BackendChecks \cap ({"outside"} \cup ProbeChecks) = {} BY DEF BackendChecks, ProbeChecks
    <3> QED BY <3>1, <3>2
  <2>4. CASE scanned
    <3>1. Adds(report, report', {"weighted"}) BY <1>0, <2>4, ScannedAdds
    <3>2. {"weighted"} \cap ({"outside"} \cup ProbeChecks) = {} BY DEF ProbeChecks
    <3> QED BY <3>1, <3>2
  <2> QED BY <2>1, <2>2, <2>3, <2>4
<1> QED BY <1>2, <1>3, StillNoProbe, NoProbeFine

LEMMA ProbeLast ==
    ASSUME Kept, ProbeInv, cannotProbe \/ probesDone \/ conclude \/ finishScan \/ dedupe \/ generic \/ finish
    PROVE  ProbeInv'
<1>0. PathInv /\ ReportTyped /\ ReportInv /\ opts \in Option BY LegalCases DEF Kept, Legal
<1>1. /\ UNCHANGED Choice /\ UNCHANGED probing
      /\ pc \in {"probe", "conclude"} \cup AtEnd /\ pc' \in {"probe", "conclude"} \cup AtEnd
  <2>1. CASE cannotProbe \/ probesDone BY <2>1 DEF cannotProbe, probesDone, Choice
  <2>2. CASE conclude \/ finishScan \/ dedupe \/ generic \/ finish
    BY <2>2 DEF conclude, finishScan, dedupe, generic, finish, Choice, AtEnd
  <2> QED BY <2>1, <2>2
<1>2. CASE dedupe
  <2>1. report'.results = report.results
        /\ report'.diagnoses = {d \in report.diagnoses : ~Redundant(d, report.diagnoses)}
    BY <1>0, <1>2, DedupeKeepsResults
  <2> QED BY <1>1, <2>1, ProbeQuiet
<1>3. CASE ~dedupe
  <2>1. \E checks : Adds(report, report', checks) /\ checks \cap ({"outside"} \cup ProbeChecks) = {}
    <3>1. CASE cannotProbe \/ probesDone \/ generic \/ finish
      <4>1. Adds(report, report', PlainChecks) BY <1>0, <3>1, PlainAdds
      <4>2. PlainChecks \cap ({"outside"} \cup ProbeChecks) = {}
        BY PlainIsNotSpecial DEF SpecialChecks, ProbeChecks
      <4> QED BY <4>1, <4>2
    <3>2. CASE conclude
      <4>1. Adds(report, report', {"matched-backends"}) BY <1>0, <3>2, ConcludeAdds
      <4>2. {"matched-backends"} \cap ({"outside"} \cup ProbeChecks) = {} BY DEF ProbeChecks
      <4> QED BY <4>1, <4>2
    <3>3. CASE finishScan
      <4>1. Adds(report, report', EndChecks) BY <1>0, <3>3, FinishAdds
      <4>2. EndChecks \cap ({"outside"} \cup ProbeChecks) = {} BY DEF EndChecks, FilterChecks, ProbeChecks
      <4> QED BY <4>1, <4>2
    <3> QED BY <1>3, <3>1, <3>2, <3>3
  <2>2. PICK checks : Adds(report, report', checks) /\ checks \cap ({"outside"} \cup ProbeChecks) = {} BY <2>1
  <2>3. /\ report.results \subseteq report'.results
        /\ \A r \in report'.results : r.check = "outside" => r \in report.results
        /\ \A d \in report'.diagnoses : d.check \in ProbeChecks => d \in report.diagnoses
    BY <2>2 DEF Adds
  <2> QED BY <1>1, <2>3, ProbeQuiet
<1> QED BY <1>2, <1>3

LEMMA ProbeStep == Kept /\ ProbeInv /\ [Next]_vars => ProbeInv'
<1> SUFFICES ASSUME Kept, ProbeInv, [Next]_vars PROVE ProbeInv' OBVIOUS
<1>1. CASE probe BY <1>1, ProbeProbe DEF Kept
<1>2. CASE UNCHANGED vars
  <2>1. UNCHANGED <<pc, report>> /\ UNCHANGED Choice /\ UNCHANGED probing BY <1>2 DEF vars, Choice
  <2>2. CASE pc \in {"probe", "conclude"} \cup AtEnd BY <2>1, <2>2, ProbeQuiet
  <2>3. CASE pc \notin {"probe", "conclude"} \cup AtEnd
    <3>1. NoProbe' BY <2>1, <2>3 DEF ProbeInv, NoProbe, Said
    <3> QED BY <3>1, NoProbeFine
  <2> QED BY <2>2, <2>3
<1> QED BY <1>1, <1>2, ProbeFirst, ProbeLast DEF Next

(***************************************************************************)
(* A probe blames the path of the client, the addresses or the Gateway     *)
(* only for what it found, in however many rounds a listener is asked, and *)
(* one cause at most is found by probes (gateway.go:3564-3693).            *)
(***************************************************************************)
THEOREM ProbesBlameHonestly == Spec => []ProbeBlameHonest
<1>1. Init => ProbeInv
  <2> SUFFICES ASSUME Init PROVE ProbeInv OBVIOUS
  <2>1. pc = "options" /\ report.results = {} /\ report.diagnoses = {} BY DEF Init
  <2> QED BY <2>1 DEF ProbeInv, NoProbe, Said
<1>2. Kept /\ ProbeInv /\ [Next]_vars => ProbeInv' BY ProbeStep
<1>3. ProbeInv => ProbeBlameHonest
  <2> SUFFICES ASSUME ProbeInv PROVE ProbeBlameHonest OBVIOUS
  <2> DEFINE runtime == {d \in report.diagnoses : d.check \in ProbeChecks}
  <2>1. Cardinality(runtime) <= 1
    <3>1. CASE runtime = {} BY <3>1, FS_EmptySet
    <3>2. CASE runtime # {}
      <4>1. PICK d \in runtime : TRUE BY <3>2
      <4>2. runtime = {d} BY <4>1 DEF ProbeInv
      <4> HIDE DEF runtime
      <4>3. Cardinality({d}) = 1 BY FS_Singleton
      <4> QED BY <4>2, <4>3
    <3> QED BY <3>1, <3>2
  <2>2. \A d \in runtime : Honest(d) BY DEF ProbeInv, IsCause
  <2> QED BY <2>1, <2>2 DEF ProbeBlameHonest, Honest
<1>4. Spec => []Kept BY AlwaysKept
<1> QED BY <1>1, <1>2, <1>3, <1>4, PTL DEF Spec

=================================================================================
