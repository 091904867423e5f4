---------------------------- MODULE DebugPodProofs ----------------------------
(***************************************************************************)
(* Theorems about DebugPod for every set of runs, every sharing of keys    *)
(* and every number of foreign pods.                                       *)
(***************************************************************************)
EXTENDS DebugPod, TLAPS

(***************************************************************************)
(* Type correctness.  NextMatch counts matches, so the bound of the        *)
(* counter needs to be known of every run that may still call it.          *)
(***************************************************************************)

ActivePC == {"start", "reuseGet", "reuseWait", "ensureGet", "ensureDelete",
             "ensureCreate", "poll", "probe"}

MatchesLeft == \A r \in Run : pc[r] \in ActivePC => matches[r] < MaxMatches

TypeInv == TypeOK /\ MatchesLeft

ClusterType ==
    /\ pods \in [Key -> Pod \cup {NoPod}]
    /\ nextUid \in Uid
    /\ userPods \in 0..MaxUserPods

RunType ==
    /\ pc \in [Run -> PC]
    /\ checked \in [Run -> Nat]
    /\ mine \in [Run -> Nat]
    /\ target \in [Run -> Nat]
    /\ labelled \in [Run -> BOOLEAN]
    /\ matches \in [Run -> 0..MaxMatches]
    /\ cleanErr \in [Run -> BOOLEAN]
    /\ MatchesLeft

\* The type invariant is one of the cluster and one of the runs.
LEMMA TypeInvSplit == TypeInv <=> ClusterType /\ RunType
  BY DEF TypeInv, TypeOK, ClusterType, RunType

\* It holds before any run starts.
LEMMA InitType == Init => TypeInv
  BY DebugPodAssumption
     DEF Init, TypeInv, TypeOK, MatchesLeft, PC, DeletePC, FinalPC, Uid

\* Moving a run to another step keeps the types when it has matches left.
LEMMA GotoType ==
  ASSUME RunType, NEW r \in Run, NEW step \in PC, Goto(r, step),
         step \in ActivePC => matches[r] < MaxMatches, UNCHANGED matches
  PROVE  pc' \in [Run -> PC] /\ matches' \in [Run -> 0..MaxMatches] /\ MatchesLeft'
  BY DEF RunType, Goto, MatchesLeft

\* Going on with the next match of a gateway check keeps the types.
LEMMA NextMatchType ==
  ASSUME RunType, NEW r \in Run, NEW c \in BOOLEAN, pc[r] \in ActivePC, NextMatch(r, c)
  PROVE  pc' \in [Run -> PC] /\ matches' \in [Run -> 0..MaxMatches] /\ MatchesLeft'
  BY DebugPodAssumption
     DEF RunType, NextMatch, Goto, MatchesLeft, PC, DeletePC, FinalPC, ActivePC

\* So does giving up the debug pod of a match or of the run.
LEMMA NoDebugPodType ==
  ASSUME RunType, NEW r \in Run, pc[r] \in ActivePC, NoDebugPod(r)
  PROVE  pc' \in [Run -> PC] /\ matches' \in [Run -> 0..MaxMatches] /\ MatchesLeft'
  <1>1. CASE Kind[r] = "gateway"
    BY <1>1, NextMatchType DEF NoDebugPod
  <1>2. CASE Kind[r] # "gateway"
    BY <1>2, GotoType DEF NoDebugPod, PC, ActivePC
  <1>3. QED
    BY <1>1, <1>2

\* So does a call that fails.
LEMMA FailType ==
  ASSUME RunType, NEW r \in Run, pc[r] \in ActivePC, Fail(r)
  PROVE  RunType'
  BY NoDebugPodType DEF Fail, RunType

\* So does going on to the next step.
LEMMA ProceedType ==
  ASSUME RunType, NEW r \in Run, NEW step \in PC, Proceed(r, step),
         step \in ActivePC => pc[r] \in ActivePC
  PROVE  RunType'
  <1>1. step \in ActivePC => matches[r] < MaxMatches
    BY DEF RunType, MatchesLeft
  <1>2. QED
    BY <1>1, GotoType DEF Proceed, RunType

\* So does taking a pod as the debug pod of the run.
LEMMA HaveDebugPodType ==
  ASSUME RunType, NEW r \in Run, pc[r] \in ActivePC, NEW p \in Pod, HaveDebugPod(r, p)
  PROVE  RunType'
  <1>1. pc' \in [Run -> PC] /\ matches' \in [Run -> 0..MaxMatches] /\ MatchesLeft'
    BY GotoType DEF HaveDebugPod, RunType, MatchesLeft, PC
  <1>2. QED
    BY <1>1 DEF HaveDebugPod, RunType, Pod, Uid

\* The pod a Delete leaves under its key is again a pod, or none.
LEMMA DeleteType ==
  ASSUME ClusterType, NEW k \in Key, DeleteByName(k)
  PROVE  ClusterType'
  BY DEF ClusterType, DeleteByName, AfterDelete, Pod

\* A step that leaves the cluster alone keeps its types.
LEMMA UnchangedCluster ==
  ASSUME ClusterType, UNCHANGED clusterVars
  PROVE  ClusterType'
  BY DEF ClusterType, clusterVars

\* A step that leaves the runs alone keeps their types.
LEMMA UnchangedRun ==
  ASSUME RunType, UNCHANGED runVars
  PROVE  RunType'
  BY DEF RunType, runVars, MatchesLeft

\* A pod that is created has the next uid.
LEMMA CreateType ==
  ASSUME ClusterType, NEW k \in Key, NEW b \in BOOLEAN,
         pods' = [pods EXCEPT ![k] = NewPod(b)], nextUid' = nextUid + 1
  PROVE  pods' \in [Key -> Pod \cup {NoPod}] /\ nextUid' \in Uid
  BY DEF ClusterType, NewPod, Pod, Uid

\* Every step of a run keeps the types.
LEMMA StepType ==
  ASSUME ClusterType, RunType, NEW r \in Run, Step(r)
  PROVE  ClusterType' /\ RunType'
  <1> USE DebugPodAssumption
  <1>k. SourceKey[r] \in Key /\ CallKey(r) \in Key
    BY DEF CallKey
  <1>p. pods[SourceKey[r]] # NoPod => pods[SourceKey[r]] \in Pod
    BY <1>k DEF ClusterType
  <1>q. pods[CallKey(r)] # NoPod => pods[CallKey(r)] \in Pod
    BY <1>k DEF ClusterType
  <1>a. AfterCleanup(r) \in PC \ ActivePC
    BY DEF AfterCleanup, PC, FinalPC, ActivePC
  <1>e. CleanupError(r) => RunType'
    <2> SUFFICES ASSUME CleanupError(r)
                 PROVE  RunType'
      OBVIOUS
    <2>1. pc' \in [Run -> PC] /\ matches' \in [Run -> 0..MaxMatches] /\ MatchesLeft'
      BY <1>a, GotoType DEF CleanupError
    <2>2. QED
      BY <2>1 DEF CleanupError, RunType
  <1>1. CASE StartNoClient(r) \/ StartNoDebugPod(r) \/ StartDebugPod(r)
    BY <1>1, ProceedType, UnchangedCluster
       DEF StartNoClient, StartNoDebugPod, StartDebugPod, PC, FinalPC, ActivePC
  <1>2. CASE ReuseGet(r)
    <2>1. pc[r] \in ActivePC
      BY <1>2 DEF ReuseGet, ActivePC
    <2>2. Fail(r) => RunType'
      BY <2>1, FailType
    <2>3. Proceed(r, "reuseWait") \/ Proceed(r, "ensureGet") => RunType'
      BY <2>1, ProceedType DEF PC, ActivePC
    <2>4. IsKubeNetModsDebugPod(pods[SourceKey[r]])
            /\ HaveDebugPod(r, pods[SourceKey[r]]) => RunType'
      BY <1>p, <2>1, HaveDebugPodType DEF IsKubeNetModsDebugPod
    <2>5. QED
      BY <1>2, <2>2, <2>3, <2>4, UnchangedCluster DEF ReuseGet
  <1>3. CASE ReuseWait(r)
    <2>1. pc[r] \in ActivePC
      BY <1>3 DEF ReuseWait, ActivePC
    <2>2. Fail(r) => RunType'
      BY <2>1, FailType
    <2>3. Proceed(r, "ensureGet") => RunType'
      BY <2>1, ProceedType DEF PC, ActivePC
    <2>4. Usable(pods[SourceKey[r]]) /\ HaveDebugPod(r, pods[SourceKey[r]]) => RunType'
      BY <1>p, <2>1, HaveDebugPodType DEF Usable
    <2>5. QED
      BY <1>3, <2>2, <2>3, <2>4, UnchangedCluster DEF ReuseWait
  <1>4. CASE EnsureGet(r)
    <2>1. pc[r] \in ActivePC
      BY <1>4 DEF EnsureGet, ActivePC
    <2>2. Fail(r) => RunType'
      BY <2>1, FailType
    <2>3. Proceed(r, "ensureCreate") => RunType'
      BY <2>1, ProceedType DEF PC, ActivePC
    <2>4. ASSUME IsKubeNetModsDebugPod(pods[SourceKey[r]]),
                 checked' = [checked EXCEPT ![r] = pods[SourceKey[r]].uid],
                 Goto(r, "ensureDelete"),
                 UNCHANGED <<mine, target, labelled, matches, cleanErr>>
          PROVE  RunType'
      <3>1. pc' \in [Run -> PC] /\ matches' \in [Run -> 0..MaxMatches] /\ MatchesLeft'
        BY <2>1, <2>4, GotoType DEF RunType, MatchesLeft, PC, DeletePC
      <3>2. QED
        BY <1>p, <2>4, <3>1 DEF RunType, IsKubeNetModsDebugPod, Pod, Uid
    <2>5. QED
      BY <1>4, <2>2, <2>3, <2>4, UnchangedCluster DEF EnsureGet
  <1>5. CASE EnsureDelete(r)
    <2>1. pc[r] \in ActivePC
      BY <1>5 DEF EnsureDelete, ActivePC
    <2>2. Fail(r) => RunType'
      BY <2>1, FailType
    <2>3. Proceed(r, "ensureCreate") => RunType'
      BY <2>1, ProceedType DEF PC, ActivePC
    <2>4. QED
      BY <1>5, <1>k, <2>2, <2>3, UnchangedCluster, DeleteType DEF EnsureDelete
  <1>6. CASE EnsureCreate(r)
    <2>1. pc[r] \in ActivePC
      BY <1>6 DEF EnsureCreate, ActivePC
    <2>2. CASE Fail(r) /\ UNCHANGED clusterVars
      BY <2>1, <2>2, FailType, UnchangedCluster
    <2>3. CASE ~(Fail(r) /\ UNCHANGED clusterVars)
      <3>1. /\ pods' = [pods EXCEPT ![SourceKey[r]] = NewPod(TRUE)]
            /\ nextUid' = nextUid + 1
            /\ mine' = [mine EXCEPT ![r] = nextUid]
            /\ (Goto(r, "poll") /\ UNCHANGED matches) \/ NoDebugPod(r)
            /\ UNCHANGED <<userPods, checked, target, labelled, cleanErr>>
        BY <1>6, <2>3 DEF EnsureCreate
      <3>2. ClusterType'
        BY <1>k, <3>1, CreateType DEF ClusterType
      <3>3. pc' \in [Run -> PC] /\ matches' \in [Run -> 0..MaxMatches] /\ MatchesLeft'
        BY <2>1, <3>1, GotoType, NoDebugPodType DEF RunType, MatchesLeft, PC
      <3>4. QED
        BY <3>1, <3>2, <3>3 DEF RunType, ClusterType, Uid
    <2>4. QED
      BY <2>2, <2>3
  <1>7. CASE Poll(r)
    <2>1. pc[r] \in ActivePC
      BY <1>7 DEF Poll, ActivePC
    <2>2. Fail(r) => RunType'
      BY <2>1, FailType
    <2>3. pods[SourceKey[r]] # NoPod /\ HaveDebugPod(r, pods[SourceKey[r]]) => RunType'
      BY <1>p, <2>1, HaveDebugPodType
    <2>4. QED
      BY <1>7, <2>2, <2>3, UnchangedCluster DEF Poll
  <1>8. CASE Probe(r)
    <2>1. pc[r] \in ActivePC
      BY <1>8 DEF Probe, ActivePC
    <2>2. pc' \in [Run -> PC] /\ matches' \in [Run -> 0..MaxMatches] /\ MatchesLeft'
      BY <1>8, <2>1, NextMatchType, GotoType DEF Probe, PC, ActivePC
    <2>3. QED
      BY <1>8, <2>2, UnchangedCluster DEF Probe, RunType
  <1>9. CASE CleanupGet(r)
    <2>1. Proceed(r, AfterCleanup(r)) => RunType'
      BY <1>a, ProceedType
    <2>2. ASSUME IsKubeNetModsDebugPod(pods[CallKey(r)]),
                 checked' = [checked EXCEPT ![r] = pods[CallKey(r)].uid],
                 Goto(r, IF pc[r] = "srcGet" THEN "srcDelete" ELSE "tgtDelete"),
                 UNCHANGED <<mine, target, labelled, matches, cleanErr>>
          PROVE  RunType'
      <3>1. pc' \in [Run -> PC] /\ matches' \in [Run -> 0..MaxMatches] /\ MatchesLeft'
        BY <2>2, GotoType DEF PC, DeletePC, ActivePC
      <3>2. QED
        BY <1>q, <2>2, <3>1 DEF RunType, IsKubeNetModsDebugPod, Pod, Uid
    <2>3. QED
      BY <1>9, <1>e, <2>1, <2>2, UnchangedCluster DEF CleanupGet
  <1>10. CASE CleanupDelete(r)
    <2>1. Proceed(r, AfterCleanup(r)) => RunType'
      BY <1>a, ProceedType
    <2>2. QED
      BY <1>10, <1>e, <1>k, <2>1, UnchangedCluster, DeleteType DEF CleanupDelete
  <1>11. QED
    BY <1>1, <1>2, <1>3, <1>4, <1>5, <1>6, <1>7, <1>8, <1>9, <1>10 DEF Step

\* So does what the kubelet, a user or a kill of the run does.
LEMMA EnvironmentType ==
  ASSUME ClusterType, RunType, Environment
  PROVE  ClusterType' /\ RunType'
  <1>1. CASE \E r \in Run : Crash(r)
    BY <1>1, ProceedType, UnchangedCluster DEF Crash, PC, FinalPC, ActivePC
  <1>2. ASSUME NEW k \in Key,
               KubeletStarts(k) \/ PodEnds(k) \/ KubeletRemoves(k)
        PROVE  ClusterType' /\ RunType'
    <2>1. RunType'
      BY <1>2, UnchangedRun DEF KubeletStarts, PodEnds, KubeletRemoves
    <2>2. ClusterType'
      BY <1>2 DEF KubeletStarts, PodEnds, KubeletRemoves, ClusterType, Pod
    <2>3. QED
      BY <2>1, <2>2
  <1>3. ASSUME NEW k \in Key, UserDeletes(k)
        PROVE  ClusterType' /\ RunType'
    BY <1>3, DeleteType, UnchangedRun DEF UserDeletes
  <1>4. ASSUME NEW k \in Key, UserCreates(k)
        PROVE  ClusterType' /\ RunType'
    <2>1. pods' \in [Key -> Pod \cup {NoPod}] /\ nextUid' \in Uid
      BY <1>4, CreateType DEF UserCreates
    <2>2. userPods' \in 0..MaxUserPods
      BY <1>4, DebugPodAssumption DEF UserCreates, ClusterType
    <2>3. QED
      BY <1>4, <2>1, <2>2, UnchangedRun DEF UserCreates, ClusterType
  <1>5. QED
    BY <1>1, <1>2, <1>3, <1>4 DEF Environment

\* The type invariant is inductive.
LEMMA TypeStep == TypeInv /\ [Next]_vars => TypeInv'
  <1> SUFFICES ASSUME ClusterType, RunType, [Next]_vars
               PROVE  ClusterType' /\ RunType'
    BY TypeInvSplit DEF TypeInv, TypeOK, MatchesLeft, ClusterType, RunType
  <1>1. CASE \E r \in Run : Step(r)
    BY <1>1, StepType
  <1>2. CASE Environment
    BY <1>2, EnvironmentType
  <1>3. CASE UNCHANGED vars
    BY <1>3, UnchangedCluster, UnchangedRun DEF vars, clusterVars, runVars
  <1>4. QED
    BY <1>1, <1>2, <1>3 DEF Next

\* Every variable keeps its type: in particular a gateway run never counts
\* more matches than it has, whichever of its debug pod attempts fail.
THEOREM TypeCorrect == Spec => []TypeOK
  <1>1. Spec => []TypeInv
    BY InitType, TypeStep, PTL DEF Spec
  <1>2. TypeInv => TypeOK
    BY DEF TypeInv
  <1>3. QED
    BY <1>1, <1>2, PTL

(***************************************************************************)
(* UIDs order the pods of a key by age.  What a run knows is bounded by    *)
(* the UIDs given so far, and the pod a key holds only ever gets younger.  *)
(***************************************************************************)

UidBound == \A k \in Key : pods[k] # NoPod => pods[k].uid < nextUid

\* The key of a run holds nothing older than the pod the run created.
MineFloor(r) == pods[SourceKey[r]] # NoPod => pods[SourceKey[r]].uid >= mine[r]

\* A pod without the labels that is about to be deleted is younger than the
\* pod whose labels were read.
CheckFloor(r) ==
    pc[r] \in DeletePC /\ pods[CallKey(r)] # NoPod =>
        pods[CallKey(r)].uid > checked[r] \/ pods[CallKey(r)].owned

\* EnsureDebugPod has created a pod after it looked at the leftover.
Created(r) ==
    pc[r] = "poll" \/ (pc[r] = "probe" /\ Kind[r] # "gateway") => mine[r] > checked[r]

\* Only ensureGatewayDebugPod reuses a pod.
ReuseOnly(r) == pc[r] \in {"reuseGet", "reuseWait"} => Kind[r] = "gateway"

RunInv(r) ==
    /\ ReuseOnly(r)
    /\ checked[r] < nextUid
    /\ mine[r] < nextUid
    /\ MineFloor(r)
    /\ CheckFloor(r)
    /\ Created(r)
    /\ pc[r] = "probe" => target[r] >= mine[r]

UidInv == UidBound /\ \A r \in Run : RunInv(r)

\* A step that leaves every pod as old as it was, or puts a new one in its place.
Aged ==
    /\ nextUid' = nextUid \/ nextUid' = nextUid + 1
    /\ \A k \in Key :
          pods'[k] # NoPod =>
              \/ /\ pods[k] # NoPod
                 /\ pods'[k].uid = pods[k].uid
                 /\ pods'[k].owned = pods[k].owned
              \/ pods'[k].uid = nextUid /\ nextUid' = nextUid + 1

Same(r) ==
    pc'[r] = pc[r] /\ checked'[r] = checked[r] /\ mine'[r] = mine[r] /\ target'[r] = target[r]

\* A delete lets no younger pod appear under a key.
LEMMA AgedDelete ==
  ASSUME ClusterType, NEW k \in Key, DeleteByName(k)
  PROVE  Aged
  BY DEF ClusterType, DeleteByName, AfterDelete, Pod, Aged

\* A pod that is created is younger than every one before it.
LEMMA AgedCreate ==
  ASSUME ClusterType, NEW k \in Key, NEW b \in BOOLEAN,
         pods' = [pods EXCEPT ![k] = NewPod(b)], nextUid' = nextUid + 1
  PROVE  Aged
  BY DEF ClusterType, NewPod, Pod, Aged

\* Nothing ages while the cluster stays as it is.
LEMMA AgedUnchanged ==
  ASSUME ClusterType, UNCHANGED clusterVars
  PROVE  Aged
  BY DEF ClusterType, clusterVars, Aged

\* Under every key the pods only become younger, whoever steps.
LEMMA AgedNext ==
  ASSUME ClusterType, [Next]_vars
  PROVE  Aged
  <1> USE DebugPodAssumption
  <1>1. ASSUME NEW r \in Run, EnsureDelete(r) \/ CleanupDelete(r)
        PROVE  Aged
    BY <1>1, AgedDelete, AgedUnchanged DEF EnsureDelete, CleanupDelete, CallKey
  <1>2. ASSUME NEW r \in Run, EnsureCreate(r)
        PROVE  Aged
    BY <1>2, AgedCreate, AgedUnchanged DEF EnsureCreate
  <1>3. ASSUME NEW r \in Run, Step(r), ~EnsureDelete(r), ~CleanupDelete(r), ~EnsureCreate(r)
        PROVE  Aged
    <2>1. UNCHANGED clusterVars
      BY <1>3
         DEF Step, StartNoClient, StartNoDebugPod, StartDebugPod, ReuseGet, ReuseWait,
             EnsureGet, Poll, Probe, CleanupGet
    <2>2. QED
      BY <2>1, AgedUnchanged
  <1>4. ASSUME NEW k \in Key, KubeletStarts(k) \/ PodEnds(k) \/ KubeletRemoves(k)
        PROVE  Aged
    BY <1>4 DEF KubeletStarts, PodEnds, KubeletRemoves, ClusterType, Pod, Aged
  <1>5. ASSUME NEW k \in Key, UserDeletes(k) \/ UserCreates(k)
        PROVE  Aged
    BY <1>5, AgedDelete, AgedCreate DEF UserDeletes, UserCreates
  <1>6. ASSUME NEW r \in Run, Crash(r)
        PROVE  Aged
    BY <1>6, AgedUnchanged DEF Crash
  <1>7. CASE UNCHANGED vars
    BY <1>7, AgedUnchanged DEF vars, clusterVars
  <1>8. QED
    BY <1>1, <1>2, <1>3, <1>4, <1>5, <1>6, <1>7 DEF Next, Environment

\* So no uid ever reaches the next one to be handed out.
LEMMA UidBoundStep ==
  ASSUME ClusterType, UidBound, Aged
  PROVE  UidBound'
  BY DEF ClusterType, UidBound, Aged, Pod, Uid

\* What other runs and the environment do cannot spoil what a run knows.
LEMMA RunInvKept ==
  ASSUME ClusterType, RunType, ClusterType', RunType', UidBound, Aged,
         NEW r \in Run, RunInv(r), Same(r)
  PROVE  RunInv(r)'
  <1> USE DebugPodAssumption DEF Same, RunInv, ReuseOnly
  <1>1. checked'[r] < nextUid' /\ mine'[r] < nextUid'
    BY DEF Aged, ClusterType, RunType, Uid
  <1>2. MineFloor(r)'
    BY DEF MineFloor, Aged, ClusterType, RunType, Uid, Pod
  <1>3. CallKey(r)' = CallKey(r) /\ CallKey(r) \in Key
    BY DEF CallKey
  <1>4. CheckFloor(r)'
    BY <1>3 DEF CheckFloor, Aged, ClusterType, RunType, Uid, Pod
  <1>5. Created(r)'
    BY DEF Created
  <1>6. QED
    BY <1>1, <1>2, <1>4, <1>5

\* A run that gives up, goes on or ends knows no less than before, as long as
\* it neither deletes nor uses a pod next.
LEMMA RunInvMoved ==
  ASSUME ClusterType, RunType, ClusterType', RunType', UidBound, Aged,
         NEW r \in Run, RunInv(r), pc'[r] \notin DeletePC \cup {"poll", "probe"},
         UNCHANGED <<checked, mine, target>>, ReuseOnly(r)'
  PROVE  RunInv(r)'
  <1> USE DebugPodAssumption DEF RunInv
  <1>1. checked'[r] < nextUid' /\ mine'[r] < nextUid'
    BY DEF Aged, ClusterType, RunType, Uid
  <1>2. MineFloor(r)'
    BY DEF MineFloor, Aged, ClusterType, RunType, Uid, Pod
  <1>3. CheckFloor(r)' /\ Created(r)'
    BY DEF CheckFloor, Created
  <1>4. QED
    BY <1>1, <1>2, <1>3

\* A run whose call fails neither deletes nor waits nor probes next.
LEMMA FailMoves ==
  ASSUME RunType, NEW r \in Run, Fail(r)
  PROVE  /\ pc'[r] \notin DeletePC \cup {"poll", "probe"}
         /\ UNCHANGED <<checked, mine, target>>
         /\ ReuseOnly(r)'
  BY DEF ReuseOnly, Fail, NoDebugPod, NextMatch, Goto, RunType, DeletePC

\* The run chooses the pod its key holds.
LEMMA RunInvChosen ==
  ASSUME ClusterType, RunType, UidBound, NEW r \in Run, RunInv(r),
         Kind[r] # "gateway" => mine[r] > checked[r],
         pods[SourceKey[r]] # NoPod,
         HaveDebugPod(r, pods[SourceKey[r]]), UNCHANGED clusterVars
  PROVE  RunInv(r)'
  BY DebugPodAssumption
     DEF HaveDebugPod, Goto, RunInv, ReuseOnly, MineFloor, CheckFloor, Created, DeletePC,
         clusterVars, RunType, ClusterType

\* The run has read the labels of the pod it will delete.
LEMMA RunInvChecked ==
  ASSUME ClusterType, RunType, UidBound, NEW r \in Run, RunInv(r),
         NEW step \in DeletePC, Goto(r, step), CallKey(r)' = CallKey(r),
         IsKubeNetModsDebugPod(pods[CallKey(r)]),
         checked' = [checked EXCEPT ![r] = pods[CallKey(r)].uid],
         UNCHANGED <<mine, target>>, UNCHANGED clusterVars
  PROVE  RunInv(r)'
  <1> USE DebugPodAssumption DEF RunInv
  <1>1. CallKey(r) \in Key
    BY DEF CallKey
  <1>2. checked'[r] < nextUid' /\ mine'[r] < nextUid'
    BY <1>1 DEF UidBound, IsKubeNetModsDebugPod, RunType, clusterVars
  <1>3. MineFloor(r)'
    BY DEF MineFloor, clusterVars
  <1>4. CheckFloor(r)'
    BY DEF CheckFloor, IsKubeNetModsDebugPod, clusterVars
  <1>5. Created(r)' /\ ReuseOnly(r)' /\ (pc'[r] = "probe" => target'[r] >= mine'[r])
    BY DEF Created, ReuseOnly, Goto, RunType, DeletePC
  <1>6. QED
    BY <1>2, <1>3, <1>4, <1>5

\* What a run knows about the ages of its pods survives its own steps.
LEMMA StepKnows ==
  ASSUME ClusterType, RunType, ClusterType', RunType', UidBound, Aged,
         NEW r \in Run, RunInv(r), Step(r)
  PROVE  RunInv(r)'
  <1> USE DebugPodAssumption
  <1>m. ASSUME NEW step \in PC \ (DeletePC \cup {"poll", "probe"}), Proceed(r, step),
               step \in {"reuseGet", "reuseWait"} => Kind[r] = "gateway"
        PROVE  RunInv(r)'
    BY <1>m, RunInvMoved DEF Proceed, Goto, RunType, ReuseOnly
  <1>f. Fail(r) => RunInv(r)'
    BY FailMoves, RunInvMoved
  <1>a. AfterCleanup(r) \in PC \ (DeletePC \cup {"poll", "probe", "reuseGet", "reuseWait"})
    BY DEF AfterCleanup, PC, FinalPC, DeletePC
  <1>e. CleanupError(r) => RunInv(r)'
    BY <1>a, RunInvMoved DEF CleanupError, Goto, RunType, ReuseOnly
  <1>1. CASE StartNoClient(r) \/ StartNoDebugPod(r) \/ StartDebugPod(r)
    BY <1>1, <1>m DEF StartNoClient, StartNoDebugPod, StartDebugPod, PC, FinalPC, DeletePC
  <1>2. CASE ReuseGet(r)
    <2>1. Kind[r] = "gateway"
      BY <1>2 DEF ReuseGet, RunInv, ReuseOnly
    <2>2. Proceed(r, "reuseWait") \/ Proceed(r, "ensureGet") => RunInv(r)'
      BY <1>m, <2>1 DEF PC, DeletePC
    <2>3. IsKubeNetModsDebugPod(pods[SourceKey[r]]) /\ UNCHANGED clusterVars
            /\ HaveDebugPod(r, pods[SourceKey[r]]) => RunInv(r)'
      BY <2>1, RunInvChosen DEF IsKubeNetModsDebugPod
    <2>4. QED
      BY <1>2, <1>f, <2>2, <2>3 DEF ReuseGet
  <1>3. CASE ReuseWait(r)
    <2>1. Kind[r] = "gateway"
      BY <1>3 DEF ReuseWait, RunInv, ReuseOnly
    <2>2. Proceed(r, "ensureGet") => RunInv(r)'
      BY <1>m DEF PC, DeletePC
    <2>3. Usable(pods[SourceKey[r]]) /\ UNCHANGED clusterVars
            /\ HaveDebugPod(r, pods[SourceKey[r]]) => RunInv(r)'
      BY <2>1, RunInvChosen DEF Usable
    <2>4. QED
      BY <1>3, <1>f, <2>2, <2>3 DEF ReuseWait
  <1>4. CASE EnsureGet(r)
    <2>1. Proceed(r, "ensureCreate") => RunInv(r)'
      BY <1>m DEF PC, DeletePC
    <2>2. pc[r] = "ensureGet" /\ CallKey(r) = SourceKey[r]
      BY <1>4 DEF EnsureGet, CallKey
    <2>3. Goto(r, "ensureDelete") => CallKey(r)' = SourceKey[r]
      BY DEF Goto, CallKey, RunType
    <2>4. ASSUME IsKubeNetModsDebugPod(pods[SourceKey[r]]), UNCHANGED clusterVars,
                 checked' = [checked EXCEPT ![r] = pods[SourceKey[r]].uid],
                 Goto(r, "ensureDelete"), UNCHANGED <<mine, target>>
          PROVE  RunInv(r)'
      BY <2>2, <2>3, <2>4, RunInvChecked DEF DeletePC
    <2>5. QED
      BY <1>4, <1>f, <2>1, <2>4 DEF EnsureGet
  <1>5. CASE EnsureDelete(r)
    <2>1. Proceed(r, "ensureCreate") => RunInv(r)'
      BY <1>m DEF PC, DeletePC
    <2>2. QED
      BY <1>5, <1>f, <2>1 DEF EnsureDelete
  <1>6. CASE EnsureCreate(r)
    <2>1. CASE Fail(r)
      BY <1>f, <2>1
    <2>2. CASE ~Fail(r)
      <3>1. /\ pods' = [pods EXCEPT ![SourceKey[r]] = NewPod(TRUE)]
            /\ nextUid' = nextUid + 1
            /\ mine' = [mine EXCEPT ![r] = nextUid]
            /\ Goto(r, "poll") \/ NoDebugPod(r)
            /\ UNCHANGED <<checked, target>>
        BY <1>6, <2>2 DEF EnsureCreate
      <3>2. checked'[r] < mine'[r] /\ mine'[r] < nextUid'
        BY <3>1 DEF RunInv, RunType, ClusterType, Uid
      <3>3. MineFloor(r)'
        BY <3>1 DEF MineFloor, NewPod, RunType, ClusterType, Uid, Pod
      <3>4. pc'[r] \notin DeletePC \cup {"probe"} /\ ReuseOnly(r)'
        BY <3>1 DEF NoDebugPod, NextMatch, Goto, ReuseOnly, RunType, DeletePC
      <3>5. CheckFloor(r)' /\ Created(r)'
        BY <3>2, <3>4 DEF CheckFloor, Created, RunType
      <3>6. checked'[r] < nextUid'
        BY <3>2 DEF RunType, ClusterType, Uid
      <3>7. QED
        BY <3>2, <3>3, <3>4, <3>5, <3>6 DEF RunInv
    <2>3. QED
      BY <2>1, <2>2
  <1>7. CASE Poll(r)
    <2>1. mine[r] > checked[r]
      BY <1>7 DEF Poll, RunInv, Created
    <2>2. pods[SourceKey[r]] # NoPod /\ UNCHANGED clusterVars
            /\ HaveDebugPod(r, pods[SourceKey[r]]) => RunInv(r)'
      BY <2>1, RunInvChosen
    <2>3. QED
      BY <1>7, <1>f, <2>2 DEF Poll
  <1>8. CASE Probe(r)
    <2>1. CASE pc'[r] = "probe"
      BY <1>8, <2>1, RunInvKept DEF Probe, Same
    <2>2. CASE pc'[r] # "probe"
      <3>1. pc'[r] \notin DeletePC \cup {"poll", "probe"} /\ ReuseOnly(r)'
        BY <1>8, <2>2 DEF Probe, NextMatch, Goto, ReuseOnly, RunType, DeletePC
      <3>2. QED
        BY <1>8, <3>1, RunInvMoved DEF Probe
    <2>3. QED
      BY <2>1, <2>2
  <1>9. CASE CleanupGet(r)
    <2>1. Proceed(r, AfterCleanup(r)) => RunInv(r)'
      BY <1>a, <1>m
    <2>2. ASSUME IsKubeNetModsDebugPod(pods[CallKey(r)]), UNCHANGED clusterVars,
                 checked' = [checked EXCEPT ![r] = pods[CallKey(r)].uid],
                 Goto(r, IF pc[r] = "srcGet" THEN "srcDelete" ELSE "tgtDelete"),
                 UNCHANGED <<mine, target>>
          PROVE  RunInv(r)'
      <3>1. CallKey(r)' = CallKey(r)
        BY <1>9, <2>2 DEF CleanupGet, CallKey, Goto, RunType
      <3>2. QED
        BY <2>2, <3>1, RunInvChecked DEF DeletePC
    <2>3. QED
      BY <1>9, <1>e, <2>1, <2>2 DEF CleanupGet
  <1>10. CASE CleanupDelete(r)
    <2>1. Proceed(r, AfterCleanup(r)) => RunInv(r)'
      BY <1>a, <1>m
    <2>2. QED
      BY <1>10, <1>e, <2>1 DEF CleanupDelete
  <1>11. QED
    BY <1>1, <1>2, <1>3, <1>4, <1>5, <1>6, <1>7, <1>8, <1>9, <1>10 DEF Step

\* A step of one run is no step of another.
LEMMA StepOther ==
  ASSUME RunType, NEW r \in Run, NEW s \in Run, s # r, Step(r) \/ Crash(r)
  PROVE  Same(s)
  <1>1. /\ \A step : Goto(r, step) => pc'[s] = pc[s]
        /\ NoDebugPod(r) => pc'[s] = pc[s]
    BY DEF Goto, NoDebugPod, NextMatch, RunType
  <1>2. /\ Fail(r) => Same(s)
        /\ \A step : Proceed(r, step) => Same(s)
        /\ \A p : HaveDebugPod(r, p) => Same(s)
        /\ CleanupError(r) => Same(s)
    BY <1>1 DEF Fail, Proceed, HaveDebugPod, CleanupError, Same, RunType
  <1>3. CASE EnsureGet(r) \/ CleanupGet(r)
    BY <1>1, <1>2, <1>3 DEF EnsureGet, CleanupGet, Same, RunType
  <1>4. CASE EnsureCreate(r)
    BY <1>1, <1>2, <1>4 DEF EnsureCreate, Same, RunType
  <1>5. CASE Probe(r)
    BY <1>1, <1>5 DEF Probe, NextMatch, Goto, Same, RunType
  <1>6. CASE \/ StartNoClient(r) \/ StartNoDebugPod(r) \/ StartDebugPod(r)
             \/ ReuseGet(r) \/ ReuseWait(r) \/ EnsureDelete(r) \/ Poll(r)
             \/ CleanupDelete(r) \/ Crash(r)
    BY <1>2, <1>6
       DEF StartNoClient, StartNoDebugPod, StartDebugPod, ReuseGet, ReuseWait,
           EnsureDelete, Poll, CleanupDelete, Crash
  <1>7. QED
    BY <1>3, <1>4, <1>5, <1>6 DEF Step

\* No run knows anything at first.
LEMMA UidInvInit == Init => UidInv
  BY DebugPodAssumption
     DEF Init, UidInv, UidBound, RunInv, ReuseOnly, MineFloor, CheckFloor, Created, DeletePC

\* What the runs know survives every step of anyone.
LEMMA UidInvStep == TypeInv /\ UidInv /\ [Next]_vars => UidInv'
  <1> SUFFICES ASSUME ClusterType, RunType, ClusterType', RunType', UidInv, [Next]_vars
               PROVE  UidInv'
    BY TypeStep, TypeInvSplit
       DEF TypeInv, TypeOK, MatchesLeft, ClusterType, RunType
  <1>1. Aged
    BY AgedNext
  <1>2. UidBound'
    BY <1>1, UidBoundStep DEF UidInv
  <1>3. ASSUME NEW s \in Run, Same(s)
        PROVE  RunInv(s)'
    BY <1>1, <1>3, RunInvKept DEF UidInv
  <1>4. ASSUME NEW r \in Run, Step(r), NEW s \in Run
        PROVE  RunInv(s)'
    BY <1>1, <1>3, <1>4, StepKnows, StepOther DEF UidInv
  <1>5. ASSUME NEW r \in Run, Crash(r), NEW s \in Run
        PROVE  RunInv(s)'
    <2>1. CASE s # r
      BY <1>3, <1>5, <2>1, StepOther
    <2>2. CASE s = r
      <3>1. pc'[r] = "crashed" /\ UNCHANGED <<checked, mine, target>>
        BY <1>5 DEF Crash, Proceed, Goto, RunType
      <3>2. QED
        BY <1>1, <2>2, <3>1, RunInvMoved DEF UidInv, ReuseOnly, DeletePC
    <2>3. QED
      BY <2>1, <2>2
  <1>6. ASSUME NEW k \in Key, NEW s \in Run,
               \/ KubeletStarts(k) \/ PodEnds(k) \/ KubeletRemoves(k)
               \/ UserDeletes(k) \/ UserCreates(k)
        PROVE  RunInv(s)'
    BY <1>3, <1>6
       DEF KubeletStarts, PodEnds, KubeletRemoves, UserDeletes, UserCreates, runVars, Same
  <1>7. ASSUME NEW s \in Run, UNCHANGED vars
        PROVE  RunInv(s)'
    BY <1>3, <1>7 DEF vars, Same
  <1>8. QED
    BY <1>2, <1>4, <1>5, <1>6, <1>7 DEF UidInv, Next, Environment

\* In every reachable state the types and the ages are right.
LEMMA UidInvariant == Spec => [](TypeInv /\ UidInv)
  BY InitType, TypeStep, UidInvInit, UidInvStep, PTL DEF Spec

\* Whatever other runs, users and the kubelet do between its calls, a run
\* that created a debug pod never executes its probes in an older one: the
\* leftover that EnsureDebugPod deleted gracefully and that stays Ready for
\* its grace period cannot be taken for the new pod.
THEOREM TargetIsFresh == Spec => []TargetNotStale
  <1>1. UidInv => TargetNotStale
    BY DEF UidInv, RunInv, Created, TargetNotStale
  <1>2. QED
    BY <1>1, UidInvariant, PTL

\* A pod without the KubeNetMods labels that a run saw, or could have seen,
\* when it read the labels is never deleted by that run.
THEOREM ForeignPodSafe == Spec => ForeignPodSeenIsKept
  <1>1. ASSUME TypeInv, UidInv, NEW r \in Run, NEW k \in Key, Deletes(r, k), ~pods[k].owned
        PROVE  pods[k].uid > checked[r]
    BY <1>1 DEF UidInv, RunInv, CheckFloor, Deletes
  <1>2. TypeInv /\ UidInv /\ [Next]_vars =>
          [\A r \in Run, k \in Key :
              Deletes(r, k) /\ ~pods[k].owned => pods[k].uid > checked[r]]_vars
    BY <1>1
  <1>3. QED
    BY <1>2, UidInvariant, PTL DEF Spec, ForeignPodSeenIsKept


(***************************************************************************)
(* No pod is left behind.  The pod a run created carries the labels for as *)
(* long as it is stored, so the cleanup cannot take it for a foreign one,  *)
(* and a pod that is being deleted stays so until it is gone.              *)
(***************************************************************************)

\* The pod the run created is stored under its key and not being deleted.
Live(r) == LET p == pods[SourceKey[r]] IN p # NoPod /\ ~p.terminating /\ p.uid = mine[r]

\* The cleanup of SourceKey lies behind the run.
Cleaned(r) == pc[r] \in {"tgtGet", "tgtDelete", "done"}

\* The deferred cleanup is owed: gateway runs leave their pod for reuse.
Owes(r) == Kind[r] # "gateway" /\ ~cleanErr[r]

LeftInv(r) ==
    /\ pc[r] = "start" => mine[r] = 0
    /\ \A k \in Key : pods[k] # NoPod /\ pods[k].uid = mine[r] => pods[k].owned
    /\ Owes(r) /\ Cleaned(r) => ~Live(r)

\* A step that does not take a deletion back.
Doomed ==
    \A k \in Key :
        pods[k] # NoPod /\ pods[k].terminating /\ pods'[k] # NoPod => pods'[k].terminating

\* What a delete leaves under a key is being deleted.
LEMMA DeleteDooms ==
  ASSUME ClusterType, NEW k \in Key, DeleteByName(k)
  PROVE  Doomed /\ (pods'[k] # NoPod => pods'[k].terminating)
  BY DEF ClusterType, DeleteByName, AfterDelete, Pod, Doomed

\* Nobody takes a deletion back.
LEMMA DoomedNext ==
  ASSUME ClusterType, [Next]_vars
  PROVE  Doomed
  <1> USE DebugPodAssumption
  <1>u. UNCHANGED clusterVars => Doomed
    BY DEF clusterVars, Doomed
  <1>1. ASSUME NEW r \in Run, EnsureDelete(r) \/ CleanupDelete(r)
        PROVE  Doomed
    BY <1>1, <1>u, DeleteDooms DEF EnsureDelete, CleanupDelete, CallKey
  <1>2. ASSUME NEW r \in Run, EnsureCreate(r)
        PROVE  Doomed
    BY <1>2, <1>u DEF EnsureCreate, ClusterType, Doomed
  <1>3. ASSUME NEW r \in Run, Step(r), ~EnsureDelete(r), ~CleanupDelete(r), ~EnsureCreate(r)
        PROVE  Doomed
    <2>1. UNCHANGED clusterVars
      BY <1>3
         DEF Step, StartNoClient, StartNoDebugPod, StartDebugPod, ReuseGet, ReuseWait,
             EnsureGet, Poll, Probe, CleanupGet
    <2>2. QED
      BY <2>1, <1>u
  <1>4. ASSUME NEW k \in Key, KubeletStarts(k) \/ PodEnds(k) \/ KubeletRemoves(k)
        PROVE  Doomed
    BY <1>4 DEF KubeletStarts, PodEnds, KubeletRemoves, ClusterType, Pod, Doomed
  <1>5. ASSUME NEW k \in Key, UserDeletes(k) \/ UserCreates(k)
        PROVE  Doomed
    BY <1>5, DeleteDooms DEF UserDeletes, UserCreates, ClusterType, Doomed
  <1>6. ASSUME NEW r \in Run, Crash(r)
        PROVE  Doomed
    BY <1>6, <1>u DEF Crash
  <1>7. CASE UNCHANGED vars
    BY <1>7, <1>u DEF vars, clusterVars
  <1>8. QED
    BY <1>1, <1>2, <1>3, <1>4, <1>5, <1>6, <1>7 DEF Next, Environment

\* A step that creates no pod for the run, and leads it past its cleanup only
\* when its pod is gone, being deleted, or the cleanup failed.
LEMMA LeftKept ==
  ASSUME ClusterType, RunType, ClusterType', Aged, Doomed,
         NEW r \in Run, LeftInv(r), mine[r] < nextUid,
         mine'[r] = mine[r], pc'[r] = "start" => pc[r] = "start",
         cleanErr[r] => cleanErr'[r],
         Owes(r)' /\ Cleaned(r)' => Cleaned(r) \/ ~Live(r) \/ ~Live(r)'
  PROVE  LeftInv(r)'
  <1> USE DebugPodAssumption
  <1>1. ASSUME NEW k \in Key, pods'[k] # NoPod, pods'[k].uid = mine[r]
        PROVE  pods[k] # NoPod /\ pods[k].uid = mine[r] /\ pods'[k].owned = pods[k].owned
    BY <1>1 DEF Aged, ClusterType, RunType, Uid
  <1>2. \A k \in Key : pods'[k] # NoPod /\ pods'[k].uid = mine'[r] => pods'[k].owned
    BY <1>1 DEF LeftInv
  <1>3. Live(r)' => Live(r)
    BY <1>1 DEF Live, Doomed, ClusterType, Pod
  <1>4. Owes(r)' /\ Cleaned(r)' => ~Live(r)'
    BY <1>3 DEF LeftInv, Owes
  <1>5. QED
    BY <1>2, <1>4 DEF LeftInv

\* A run that is not yet through with its cleanup owes nothing yet.
LEMMA LeftMoved ==
  ASSUME ClusterType, RunType, ClusterType', Aged, Doomed,
         NEW r \in Run, LeftInv(r), mine[r] < nextUid,
         UNCHANGED <<mine, cleanErr>>, pc'[r] # "start",
         Kind[r] = "gateway" \/ ~Cleaned(r)'
  PROVE  LeftInv(r)'
  BY LeftKept DEF Owes

\* A failed call of a run leads a service or egress run into its cleanup.
LEMMA FailLeads ==
  ASSUME RunType, NEW r \in Run, Fail(r)
  PROVE  /\ UNCHANGED <<mine, cleanErr>>
         /\ pc'[r] # "start"
         /\ Kind[r] = "gateway" \/ ~Cleaned(r)'
  BY DEF Fail, NoDebugPod, NextMatch, Goto, RunType, Cleaned

\* No step of a run makes it forget the pod it owes.
LEMMA StepLeaves ==
  ASSUME ClusterType, RunType, ClusterType', RunType', UidInv, Aged, Doomed,
         NEW r \in Run, LeftInv(r), Step(r)
  PROVE  LeftInv(r)'
  <1> USE DebugPodAssumption
  <1>k. SourceKey[r] \in Key /\ TargetKey[r] \in Key
    OBVIOUS
  <1>0. mine[r] < nextUid
    BY DEF UidInv, RunInv
  <1>f. Fail(r) => LeftInv(r)'
    BY <1>0, FailLeads, LeftMoved
  <1>p. ASSUME NEW step \in {"reuseGet", "reuseWait", "ensureGet", "ensureCreate", "srcGet"},
               Proceed(r, step)
        PROVE  LeftInv(r)'
    BY <1>0, <1>p, LeftMoved DEF Proceed, Goto, RunType, Cleaned
  <1>h. ASSUME NEW p, HaveDebugPod(r, p)
        PROVE  LeftInv(r)'
    BY <1>0, <1>h, LeftMoved DEF HaveDebugPod, Goto, RunType, Cleaned
  <1>c. AfterCleanup(r) \in {"tgtGet", "done"}
    BY DEF AfterCleanup
  <1>e. ASSUME CleanupError(r), pc[r] \in {"srcGet", "tgtGet", "srcDelete", "tgtDelete"}
        PROVE  LeftInv(r)'
    <2>1. /\ mine'[r] = mine[r] /\ pc'[r] # "start"
          /\ cleanErr'[r] = (cleanErr[r] \/ pc[r] \in {"srcGet", "srcDelete"})
      BY <1>c, <1>e DEF CleanupError, Goto, RunType
    <2>2. Owes(r)' => Cleaned(r)
      BY <1>e, <2>1 DEF Owes, Cleaned
    <2>3. QED
      BY <1>0, <2>1, <2>2, LeftKept
  <1>a. ASSUME Proceed(r, AfterCleanup(r)), Cleaned(r) \/ ~Live(r) \/ ~Live(r)'
        PROVE  LeftInv(r)'
    <2>1. mine'[r] = mine[r] /\ cleanErr'[r] = cleanErr[r] /\ pc'[r] # "start"
      BY <1>a, <1>c DEF Proceed, Goto, RunType
    <2>2. QED
      BY <1>0, <1>a, <2>1, LeftKept
  <1>1. CASE StartNoClient(r)
    <2>1. /\ mine'[r] = mine[r] /\ cleanErr'[r] = cleanErr[r]
          /\ pc[r] = "start" /\ pc'[r] # "start"
      BY <1>1 DEF StartNoClient, Proceed, Goto, RunType
    <2>2. ~Live(r)
      BY <1>k, <2>1 DEF LeftInv, Live, ClusterType, Pod, Uid
    <2>3. QED
      BY <1>0, <2>1, <2>2, LeftKept
  <1>2. CASE StartNoDebugPod(r) \/ StartDebugPod(r)
    BY <1>2, <1>p DEF StartNoDebugPod, StartDebugPod
  <1>3. CASE ReuseGet(r) \/ ReuseWait(r)
    BY <1>3, <1>f, <1>p, <1>h DEF ReuseGet, ReuseWait
  <1>4. CASE EnsureGet(r)
    <2>1. ASSUME Goto(r, "ensureDelete"), UNCHANGED <<mine, cleanErr>>
          PROVE  LeftInv(r)'
      BY <1>0, <2>1, LeftMoved DEF Goto, RunType, Cleaned
    <2>2. QED
      BY <1>4, <1>f, <1>p, <2>1 DEF EnsureGet
  <1>5. CASE EnsureDelete(r)
    BY <1>5, <1>f, <1>p DEF EnsureDelete
  <1>6. CASE EnsureCreate(r)
    <2>1. CASE Fail(r)
      BY <1>f, <2>1
    <2>2. CASE ~Fail(r)
      <3>1. /\ pods' = [pods EXCEPT ![SourceKey[r]] = NewPod(TRUE)]
            /\ mine' = [mine EXCEPT ![r] = nextUid]
            /\ Goto(r, "poll") \/ NoDebugPod(r)
            /\ UNCHANGED cleanErr
        BY <1>6, <2>2 DEF EnsureCreate
      <3>2. pc'[r] # "start" /\ (Kind[r] = "gateway" \/ ~Cleaned(r)')
        BY <3>1 DEF NoDebugPod, NextMatch, Goto, RunType, Cleaned
      <3>3. ASSUME NEW k \in Key, pods'[k] # NoPod, pods'[k].uid = mine'[r]
            PROVE  pods'[k].owned
        BY <3>1, <3>3 DEF NewPod, UidInv, UidBound, ClusterType, RunType, Pod, Uid
      <3>4. QED
        BY <3>2, <3>3 DEF LeftInv, Owes
    <2>3. QED
      BY <2>1, <2>2
  <1>7. CASE Poll(r)
    BY <1>7, <1>f, <1>h DEF Poll
  <1>8. CASE Probe(r)
    <2>1. /\ UNCHANGED <<mine, cleanErr>> /\ pc'[r] # "start"
          /\ Kind[r] = "gateway" \/ ~Cleaned(r)'
      BY <1>8 DEF Probe, NextMatch, Goto, RunType, Cleaned
    <2>2. QED
      BY <1>0, <2>1, LeftMoved
  <1>9. CASE CleanupGet(r)
    <2>1. pc[r] \in {"srcGet", "tgtGet"}
      BY <1>9 DEF CleanupGet
    <2>2. ASSUME ~IsKubeNetModsDebugPod(pods[CallKey(r)])
          PROVE  Cleaned(r) \/ ~Live(r)
      BY <1>k, <2>1, <2>2 DEF CallKey, IsKubeNetModsDebugPod, LeftInv, Live, Cleaned
    <2>3. ASSUME Goto(r, IF pc[r] = "srcGet" THEN "srcDelete" ELSE "tgtDelete"),
                 UNCHANGED <<mine, cleanErr>>
          PROVE  LeftInv(r)'
      <3>1. mine'[r] = mine[r] /\ cleanErr'[r] = cleanErr[r] /\ pc'[r] # "start"
        BY <2>3 DEF Goto, RunType
      <3>2. Cleaned(r)' => Cleaned(r)
        BY <2>1, <2>3 DEF Goto, RunType, Cleaned
      <3>3. QED
        BY <1>0, <3>1, <3>2, LeftKept
    <2>4. QED
      BY <1>9, <1>e, <1>a, <2>1, <2>2, <2>3 DEF CleanupGet
  <1>10. CASE CleanupDelete(r)
    <2>1. pc[r] \in {"srcDelete", "tgtDelete"}
      BY <1>10 DEF CleanupDelete
    <2>2. CallKey(r) = IF pc[r] = "srcDelete" THEN SourceKey[r] ELSE TargetKey[r]
      BY <2>1 DEF CallKey
    <2>3. ASSUME DeleteByName(CallKey(r))
          PROVE  Cleaned(r) \/ ~Live(r)'
      <3>1. CASE pc[r] = "tgtDelete"
        BY <3>1 DEF Cleaned
      <3>2. CASE pc[r] = "srcDelete"
        BY <1>k, <2>2, <2>3, <3>2, DeleteDooms DEF Live
      <3>3. QED
        BY <2>1, <3>1, <3>2
    <2>4. ASSUME pods[CallKey(r)] = NoPod
          PROVE  Cleaned(r) \/ ~Live(r)
      BY <2>1, <2>2, <2>4 DEF Cleaned, Live
    <2>5. QED
      BY <1>10, <1>e, <1>a, <2>1, <2>3, <2>4 DEF CleanupDelete
  <1>11. QED
    BY <1>1, <1>2, <1>3, <1>4, <1>5, <1>6, <1>7, <1>8, <1>9, <1>10 DEF Step

\* A step of one run does not touch the cleanup of another.
LEMMA StepCleans ==
  ASSUME RunType, NEW r \in Run, NEW s \in Run, s # r, Step(r) \/ Crash(r)
  PROVE  cleanErr'[s] = cleanErr[s]
  <1>1. /\ Fail(r) => UNCHANGED cleanErr
        /\ \A step : Proceed(r, step) => UNCHANGED cleanErr
        /\ \A p : HaveDebugPod(r, p) => UNCHANGED cleanErr
    BY DEF Fail, Proceed, HaveDebugPod
  <1>2. CleanupError(r) => cleanErr'[s] = cleanErr[s]
    BY DEF CleanupError, RunType
  <1>3. QED
    BY <1>1, <1>2
       DEF Step, StartNoClient, StartNoDebugPod, StartDebugPod, ReuseGet, ReuseWait,
           EnsureGet, EnsureDelete, EnsureCreate, Poll, Probe, CleanupGet, CleanupDelete, Crash

\* Nothing is left behind before anything is created.
LEMMA LeftInit == Init => \A r \in Run : LeftInv(r)
  BY DebugPodAssumption DEF Init, LeftInv, Live, Cleaned

\* No step of anyone leaves a pod behind.
LEMMA LeftStep ==
  TypeInv /\ UidInv /\ (\A r \in Run : LeftInv(r)) /\ [Next]_vars => (\A r \in Run : LeftInv(r))'
  <1> SUFFICES ASSUME ClusterType, RunType, ClusterType', RunType', UidInv, [Next]_vars,
                      \A r \in Run : LeftInv(r), NEW s \in Run
               PROVE  LeftInv(s)'
    BY TypeStep, TypeInvSplit
       DEF TypeInv, TypeOK, MatchesLeft, ClusterType, RunType
  <1>0. Aged /\ Doomed /\ mine[s] < nextUid
    BY AgedNext, DoomedNext DEF UidInv, RunInv
  <1>1. ASSUME Same(s), cleanErr'[s] = cleanErr[s]
        PROVE  LeftInv(s)'
    BY <1>0, <1>1, LeftKept DEF Same, Cleaned
  <1>2. ASSUME NEW r \in Run, Step(r)
        PROVE  LeftInv(s)'
    BY <1>0, <1>1, <1>2, StepLeaves, StepOther, StepCleans
  <1>3. ASSUME NEW r \in Run, Crash(r)
        PROVE  LeftInv(s)'
    <2>1. CASE s # r
      BY <1>1, <1>3, <2>1, StepOther, StepCleans
    <2>2. CASE s = r
      <3>1. pc'[s] = "crashed" /\ UNCHANGED <<mine, cleanErr>>
        BY <1>3, <2>2 DEF Crash, Proceed, Goto, RunType
      <3>2. QED
        BY <1>0, <3>1, LeftMoved DEF Cleaned
    <2>3. QED
      BY <2>1, <2>2
  <1>4. ASSUME NEW k \in Key,
               \/ KubeletStarts(k) \/ PodEnds(k) \/ KubeletRemoves(k)
               \/ UserDeletes(k) \/ UserCreates(k)
        PROVE  LeftInv(s)'
    BY <1>1, <1>4
       DEF KubeletStarts, PodEnds, KubeletRemoves, UserDeletes, UserCreates, runVars, Same
  <1>5. CASE UNCHANGED vars
    BY <1>1, <1>5 DEF vars, Same
  <1>6. QED
    BY <1>2, <1>3, <1>4, <1>5 DEF Next, Environment

\* A service or egress run that ends by itself leaves no live pod behind that
\* it created, whether or not the reply to its Create was lost, however its
\* polls end and whoever else deletes or creates pods under the same key in
\* between, unless the Get or the Delete of its own cleanup failed.
THEOREM NothingLeftBehind == Spec => []NoPodLeftBehind
  <1>1. (\A r \in Run : LeftInv(r)) => NoPodLeftBehind
    BY DEF LeftInv, Owes, Cleaned, Live, NoPodLeftBehind
  <1>2. QED
    BY <1>1, UidInvariant, LeftInit, LeftStep, PTL DEF Spec

===============================================================================
