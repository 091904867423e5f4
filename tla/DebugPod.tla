------------------------------- MODULE DebugPod -------------------------------
(***************************************************************************)
(* The life of the debug pods that knm creates, reuses and deletes.        *)
(*                                                                         *)
(* A Key is a (namespace, pod name) pair of the API server: at most one    *)
(* pod is stored under it.  A Run is one knm process.  Runs of kind        *)
(* "service" (RunService) and "egress" (RunEgress) were started with       *)
(* --use-debug-pod, runs of kind "gateway" with --probe.  Every API call   *)
(* is one action, so that other runs, the kubelet and the users of the     *)
(* cluster act between two calls of a run.                                 *)
(***************************************************************************)
EXTENDS Naturals

CONSTANTS
    Run,          \* knm processes
    Key,          \* (namespace, pod name) pairs
    NoPod,        \* what a key holds when no pod is stored under it
    Kind,         \* Run -> "service" | "egress" | "gateway"
    SourceKey,    \* Run -> the key of opts.SourceDebugPod / opts.DebugPodName
    TargetKey,    \* Run -> the key of opts.TargetDebugPod (service runs)
    MaxUserPods,  \* bound: pods created by somebody else than knm
    MaxMatches    \* bound: matches a gateway run probes from inside the cluster

Kinds == {"service", "egress", "gateway"}

ASSUME DebugPodAssumption ==
    /\ Kind \in [Run -> Kinds]
    /\ SourceKey \in [Run -> Key]
    /\ TargetKey \in [Run -> Key]
    /\ MaxUserPods \in Nat
    /\ MaxMatches \in Nat \ {0}

VARIABLES
    pods,      \* Key -> the stored pod, or NoPod
    nextUid,   \* the UID the API server gives to the next pod
    userPods,  \* how many pods somebody else created
    pc,        \* Run -> the next API call of the run
    checked,   \* Run -> UID of the pod whose labels the run read last
    mine,      \* Run -> UID of the pod the run created last, 0 if none
    target,    \* Run -> UID of the pod the run executes its probes in, 0 if none
    labelled,  \* Run -> whether that pod carried the labels when it was chosen
    matches,   \* Run -> gateway matches handled so far
    cleanErr   \* Run -> an API call of the cleanup of SourceKey failed

clusterVars == <<pods, nextUid, userPods>>
runVars == <<pc, checked, mine, target, labelled, matches, cleanErr>>
vars == <<pods, nextUid, userPods, pc, checked, mine, target, labelled,
          matches, cleanErr>>

Uid == Nat \ {0}

\* owned: both labels of IsKubeNetModsDebugPod are set.
\* Ready stands for phase Running with condition Ready, Ended for the phases
\* Succeeded and Failed, Pending for every other status.
Pod == [uid : Uid, owned : BOOLEAN, status : {"Pending", "Ready", "Ended"},
        terminating : BOOLEAN]

DeletePC == {"ensureDelete", "srcDelete", "tgtDelete"}
CleanupPC == {"srcGet", "srcDelete", "tgtGet", "tgtDelete"}
FinalPC == {"done", "crashed"}
PC == {"start", "reuseGet", "reuseWait", "ensureGet", "ensureCreate", "poll",
       "probe", "srcGet", "tgtGet"} \cup DeletePC \cup FinalPC

IsKubeNetModsDebugPod(p) == p # NoPod /\ p.owned

Usable(p) == p # NoPod /\ ~p.terminating /\ p.status = "Ready"

\* The key the next API call of r is about.
CallKey(r) == IF pc[r] \in {"tgtGet", "tgtDelete"} THEN TargetKey[r] ELSE SourceKey[r]

NewPod(owned) ==
    [uid |-> nextUid, owned |-> owned, status |-> "Pending", terminating |-> FALSE]

\* What the API server may leave of pod p after a Delete: a running pod stays
\* for its grace period, a finished or not yet scheduled one may go at once.
AfterDelete(p) ==
    {[p EXCEPT !.terminating = TRUE]} \cup (IF p.status = "Ready" THEN {} ELSE {NoPod})

TypeOK ==
    /\ pods \in [Key -> Pod \cup {NoPod}]
    /\ nextUid \in Uid
    /\ userPods \in 0..MaxUserPods
    /\ pc \in [Run -> PC]
    /\ checked \in [Run -> Nat]
    /\ mine \in [Run -> Nat]
    /\ target \in [Run -> Nat]
    /\ labelled \in [Run -> BOOLEAN]
    /\ matches \in [Run -> 0..MaxMatches]
    /\ cleanErr \in [Run -> BOOLEAN]

Init ==
    /\ pods = [k \in Key |-> NoPod]
    /\ nextUid = 1
    /\ userPods = 0
    /\ pc = [r \in Run |-> "start"]
    /\ checked = [r \in Run |-> 0]
    /\ mine = [r \in Run |-> 0]
    /\ target = [r \in Run |-> 0]
    /\ labelled = [r \in Run |-> FALSE]
    /\ matches = [r \in Run |-> 0]
    /\ cleanErr = [r \in Run |-> FALSE]

-------------------------------------------------------------------------------
(* Where a run goes next.                                                  *)

Goto(r, step) == pc' = [pc EXCEPT ![r] = step]

\* Mutant: the loop runs past the last match.
NextMatchUnbounded(r, cached) ==
    /\ matches' = [matches EXCEPT ![r] = @ + 1]
    /\ Goto(r, "done") \/ Goto(r, IF cached THEN "probe" ELSE "reuseGet")

\* The loop of runGatewayHTTPProbes: the next match reuses the cached target
\* of the namespace, or asks for a debug pod again when there is none.
NextMatch(r, cached) ==
    /\ matches' = [matches EXCEPT ![r] = @ + 1]
    /\ \/ Goto(r, "done")
       \/ /\ matches[r] + 1 < MaxMatches
          /\ Goto(r, IF cached THEN "probe" ELSE "reuseGet")

\* Mutant: the failed run returns before its cleanup.
NoDebugPodNoCleanup(r) ==
    IF Kind[r] = "gateway"
    THEN NextMatch(r, FALSE)
    ELSE Goto(r, "done") /\ UNCHANGED matches

\* The debug pod could not be had: service and egress runs report it, skip
\* their probes and reach the deferred cleanup.
NoDebugPod(r) ==
    IF Kind[r] = "gateway"
    THEN NextMatch(r, FALSE)
    ELSE Goto(r, "srcGet") /\ UNCHANGED matches

HaveDebugPod(r, p) ==
    /\ target' = [target EXCEPT ![r] = p.uid]
    /\ labelled' = [labelled EXCEPT ![r] = p.owned]
    /\ Goto(r, "probe")
    /\ UNCHANGED <<checked, mine, matches, cleanErr>>

Fail(r) ==
    /\ NoDebugPod(r)
    /\ UNCHANGED <<checked, mine, target, labelled, cleanErr>>

Proceed(r, step) ==
    /\ Goto(r, step)
    /\ UNCHANGED <<checked, mine, target, labelled, matches, cleanErr>>

-------------------------------------------------------------------------------
(* RunService and RunEgress up to the debug pod.                           *)

\* No client: the report is returned before the cleanup is deferred.
StartNoClient(r) ==
    /\ pc[r] = "start"
    /\ Proceed(r, "done")
    /\ UNCHANGED clusterVars

\* The run needs no debug pod after all (a source workload was named, the
\* source namespace is unreadable), but the cleanup is deferred already.
StartNoDebugPod(r) ==
    /\ pc[r] = "start"
    /\ Kind[r] # "gateway"
    /\ Proceed(r, "srcGet")
    /\ UNCHANGED clusterVars

StartDebugPod(r) ==
    /\ pc[r] = "start"
    /\ Proceed(r, IF Kind[r] = "gateway" THEN "reuseGet" ELSE "ensureGet")
    /\ UNCHANGED clusterVars

-------------------------------------------------------------------------------
(* ensureGatewayDebugPod.                                                  *)

ReuseGet(r) ==
    /\ pc[r] = "reuseGet"
    /\ LET p == pods[SourceKey[r]] IN
       \/ Fail(r)  \* an API error other than NotFound
       \/ /\ p # NoPod /\ ~IsKubeNetModsDebugPod(p)
          /\ Fail(r)
       \/ /\ IsKubeNetModsDebugPod(p) /\ Usable(p)
          /\ HaveDebugPod(r, p)
       \/ /\ IsKubeNetModsDebugPod(p) /\ p.terminating
          /\ Proceed(r, "reuseWait")
       \/ /\ p = NoPod
          /\ Proceed(r, "ensureGet")
       \/ /\ IsKubeNetModsDebugPod(p) /\ ~p.terminating /\ ~Usable(p)
          /\ Proceed(r, "ensureGet")
    /\ UNCHANGED clusterVars

\* One poll of the loop that waits for a terminating pod to go.  A poll that
\* finds it still there changes nothing.
ReuseWait(r) ==
    /\ pc[r] = "reuseWait"
    /\ LET p == pods[SourceKey[r]] IN
       \/ Fail(r)  \* an API error, or the context of the run ended
       \/ /\ p = NoPod
          /\ Proceed(r, "ensureGet")
       \/ /\ Usable(p)
          /\ HaveDebugPod(r, p)
       \/ Proceed(r, "ensureGet")  \* the deadline of the loop passed
    /\ UNCHANGED clusterVars

-------------------------------------------------------------------------------
(* EnsureDebugPod.                                                         *)

\* Mutant: whatever pod holds the name is replaced.
EnsureGetUnchecked(r) ==
    /\ pc[r] = "ensureGet"
    /\ LET p == pods[SourceKey[r]] IN
       IF p = NoPod
       THEN Proceed(r, "ensureCreate")
       ELSE /\ checked' = [checked EXCEPT ![r] = p.uid]
            /\ Goto(r, "ensureDelete")
            /\ UNCHANGED <<mine, target, labelled, matches, cleanErr>>
    /\ UNCHANGED clusterVars

EnsureGet(r) ==
    /\ pc[r] = "ensureGet"
    /\ LET p == pods[SourceKey[r]] IN
       \/ Fail(r)  \* an API error other than NotFound
       \/ /\ p # NoPod /\ ~IsKubeNetModsDebugPod(p)
          /\ Fail(r)
       \/ /\ IsKubeNetModsDebugPod(p)
          /\ checked' = [checked EXCEPT ![r] = p.uid]
          /\ Goto(r, "ensureDelete")
          /\ UNCHANGED <<mine, target, labelled, matches, cleanErr>>
       \/ /\ p = NoPod
          /\ Proceed(r, "ensureCreate")
    /\ UNCHANGED clusterVars

\* Delete by name reaches whatever pod the key holds now.
DeleteByName(k) ==
    /\ pods[k] # NoPod
    /\ \E p \in AfterDelete(pods[k]) : pods' = [pods EXCEPT ![k] = p]
    /\ UNCHANGED <<nextUid, userPods>>

EnsureDelete(r) ==
    /\ pc[r] = "ensureDelete"
    /\ \/ /\ DeleteByName(SourceKey[r])
          /\ Proceed(r, "ensureCreate") \/ Fail(r)  \* Fail: the reply is lost
       \/ /\ pods[SourceKey[r]] = NoPod
          /\ Proceed(r, "ensureCreate")
          /\ UNCHANGED clusterVars
       \/ Fail(r) /\ UNCHANGED clusterVars

\* Mutant: AlreadyExists is taken for success.
EnsureCreateTolerant(r) ==
    /\ pc[r] = "ensureCreate"
    /\ \/ /\ pods[SourceKey[r]] = NoPod
          /\ pods' = [pods EXCEPT ![SourceKey[r]] = NewPod(TRUE)]
          /\ nextUid' = nextUid + 1
          /\ mine' = [mine EXCEPT ![r] = nextUid]
          /\ Goto(r, "poll")
          /\ UNCHANGED <<userPods, checked, target, labelled, matches, cleanErr>>
       \/ /\ pods[SourceKey[r]] # NoPod
          /\ Proceed(r, "poll")
          /\ UNCHANGED clusterVars

EnsureCreate(r) ==
    /\ pc[r] = "ensureCreate"
    /\ \/ /\ pods[SourceKey[r]] = NoPod
          /\ pods' = [pods EXCEPT ![SourceKey[r]] = NewPod(TRUE)]
          /\ nextUid' = nextUid + 1
          /\ mine' = [mine EXCEPT ![r] = nextUid]
          /\ \/ Goto(r, "poll") /\ UNCHANGED matches
             \/ NoDebugPod(r)  \* created, but the reply is lost
          /\ UNCHANGED <<userPods, checked, target, labelled, cleanErr>>
       \/ Fail(r) /\ UNCHANGED clusterVars  \* AlreadyExists or another error

\* Mutant: the poll has no deadline.
PollForever(r) ==
    /\ pc[r] = "poll"
    /\ LET p == pods[SourceKey[r]] IN
       \/ /\ p # NoPod /\ p.status = "Ended"
          /\ Fail(r)
       \/ /\ p # NoPod /\ p.status = "Ready"
          /\ HaveDebugPod(r, p)
    /\ UNCHANGED clusterVars

\* One poll for readiness.  Get errors and a pod that is not ready leave the
\* run where it is; the timeout ends the wait at any time.
Poll(r) ==
    /\ pc[r] = "poll"
    /\ LET p == pods[SourceKey[r]] IN
       \/ /\ p # NoPod /\ p.status = "Ended"
          /\ Fail(r)
       \/ /\ p # NoPod /\ p.status = "Ready"
          /\ HaveDebugPod(r, p)
       \/ Fail(r)  \* the timeout
    /\ UNCHANGED clusterVars

\* The probes execute commands in the pod by name and leave the API objects alone.
Probe(r) ==
    /\ pc[r] = "probe"
    /\ \/ Kind[r] = "gateway" /\ NextMatch(r, TRUE)
       \/ Kind[r] # "gateway" /\ Goto(r, "srcGet") /\ UNCHANGED matches
    /\ UNCHANGED <<checked, mine, target, labelled, cleanErr>>
    /\ UNCHANGED clusterVars

-------------------------------------------------------------------------------
(* The deferred DeletePodIfExists calls.                                   *)

AfterCleanup(r) ==
    IF Kind[r] = "service" /\ pc[r] \in {"srcGet", "srcDelete"} THEN "tgtGet" ELSE "done"

\* The error is discarded; only the cleanup of SourceKey is remembered.
CleanupError(r) ==
    /\ cleanErr' = [cleanErr EXCEPT ![r] = @ \/ pc[r] \in {"srcGet", "srcDelete"}]
    /\ Goto(r, AfterCleanup(r))
    /\ UNCHANGED <<checked, mine, target, labelled, matches>>

\* Mutant: only the pod of this very run is cleaned up.
CleanupGetOwn(r) ==
    /\ pc[r] \in {"srcGet", "tgtGet"}
    /\ LET p == pods[CallKey(r)] IN
       \/ CleanupError(r)
       \/ /\ ~(p # NoPod /\ p.uid = mine[r])
          /\ Proceed(r, AfterCleanup(r))
       \/ /\ p # NoPod /\ p.uid = mine[r]
          /\ checked' = [checked EXCEPT ![r] = p.uid]
          /\ Goto(r, IF pc[r] = "srcGet" THEN "srcDelete" ELSE "tgtDelete")
          /\ UNCHANGED <<mine, target, labelled, matches, cleanErr>>
    /\ UNCHANGED clusterVars

CleanupGet(r) ==
    /\ pc[r] \in {"srcGet", "tgtGet"}
    /\ LET p == pods[CallKey(r)] IN
       \/ CleanupError(r)
       \/ /\ ~IsKubeNetModsDebugPod(p)
          /\ Proceed(r, AfterCleanup(r))
       \/ /\ IsKubeNetModsDebugPod(p)
          /\ checked' = [checked EXCEPT ![r] = p.uid]
          /\ Goto(r, IF pc[r] = "srcGet" THEN "srcDelete" ELSE "tgtDelete")
          /\ UNCHANGED <<mine, target, labelled, matches, cleanErr>>
    /\ UNCHANGED clusterVars

CleanupDelete(r) ==
    /\ pc[r] \in {"srcDelete", "tgtDelete"}
    /\ \/ /\ DeleteByName(CallKey(r))
          /\ Proceed(r, AfterCleanup(r))
       \/ /\ pods[CallKey(r)] = NoPod
          /\ Proceed(r, AfterCleanup(r))
          /\ UNCHANGED clusterVars
       \/ CleanupError(r) /\ UNCHANGED clusterVars

-------------------------------------------------------------------------------
(* The rest of the world.                                                  *)

\* SIGINT, SIGKILL or a panic: main installs no handler and no defer runs.
Crash(r) ==
    /\ pc[r] \notin FinalPC \cup {"start"}
    /\ Proceed(r, "crashed")
    /\ UNCHANGED clusterVars

KubeletStarts(k) ==
    /\ pods[k] # NoPod
    /\ pods[k].status = "Pending" /\ ~pods[k].terminating
    /\ pods' = [pods EXCEPT ![k].status = "Ready"]
    /\ UNCHANGED <<nextUid, userPods, runVars>>

\* The container of a pod exits or cannot run.
PodEnds(k) ==
    /\ pods[k] # NoPod
    /\ pods[k].status # "Ended"
    /\ pods' = [pods EXCEPT ![k].status = "Ended"]
    /\ UNCHANGED <<nextUid, userPods, runVars>>

KubeletRemoves(k) ==
    /\ pods[k] # NoPod
    /\ pods[k].terminating
    /\ pods' = [pods EXCEPT ![k] = NoPod]
    /\ UNCHANGED <<nextUid, userPods, runVars>>

\* kubectl delete, an eviction, a controller.
UserDeletes(k) ==
    /\ pods[k] # NoPod
    /\ ~pods[k].terminating
    /\ DeleteByName(k)
    /\ UNCHANGED runVars

\* Somebody creates a pod of their own under the key.
UserCreates(k) ==
    /\ pods[k] = NoPod
    /\ userPods < MaxUserPods
    /\ pods' = [pods EXCEPT ![k] = NewPod(FALSE)]
    /\ nextUid' = nextUid + 1
    /\ userPods' = userPods + 1
    /\ UNCHANGED runVars

-------------------------------------------------------------------------------

Step(r) ==
    \/ StartNoClient(r) \/ StartNoDebugPod(r) \/ StartDebugPod(r)
    \/ ReuseGet(r) \/ ReuseWait(r)
    \/ EnsureGet(r) \/ EnsureDelete(r) \/ EnsureCreate(r) \/ Poll(r)
    \/ Probe(r)
    \/ CleanupGet(r) \/ CleanupDelete(r)

Environment ==
    \/ \E r \in Run : Crash(r)
    \/ \E k \in Key : \/ KubeletStarts(k) \/ PodEnds(k) \/ KubeletRemoves(k)
                      \/ UserDeletes(k) \/ UserCreates(k)

Next == (\E r \in Run : Step(r)) \/ Environment

Spec == Init /\ [][Next]_vars

\* The calls of a run have the deadline of its command, and its waits one of
\* their own; the deferred cleanup has context.Background() and none, so that
\* its calls may never return.  The kubelet removes pods whose grace period is
\* over.  Nothing is assumed of pods becoming ready, of users, or of crashes.
Fairness ==
    /\ \A r \in Run : WF_vars(pc[r] \notin CleanupPC \cup {"start"} /\ Step(r))
    /\ \A k \in Key : WF_vars(KubeletRemoves(k))

FairSpec == Spec /\ Fairness

-------------------------------------------------------------------------------
(* Properties.                                                             *)

\* This step is a Delete call of r that changed the pod under k.
Deletes(r, k) ==
    /\ pc[r] \in DeletePC /\ pc'[r] # pc[r] /\ CallKey(r) = k
    /\ pods[k] # NoPod /\ pods'[k] # pods[k]

\* A Delete is by name and without a UID precondition.  Even so a run can
\* only take away a pod without the KubeNetMods labels when that pod was
\* created after the run looked: a foreign pod that was there to be seen by
\* the Get is safe from EnsureDebugPod and DeletePodIfExists.
ForeignPodSeenIsKept ==
    [][\A r \in Run, k \in Key :
          Deletes(r, k) /\ ~pods[k].owned => pods[k].uid > checked[r]]_vars

\* EnsureDebugPod deletes a leftover pod gracefully and polls by name.  The pod
\* it returns as ready is never older than the pod the run created, and that
\* one is newer than the leftover, which stays Ready for its grace period and
\* would answer the poll.  A gateway run may reuse a pod it did not create.
TargetNotStale ==
    \A r \in Run :
        pc[r] = "probe" =>
            /\ target[r] >= mine[r]
            /\ Kind[r] # "gateway" => mine[r] > checked[r]

\* ensureGatewayDebugPod refuses to reuse a pod without the labels: a pod that
\* is there before the run creates its own is probed from only with them,
\* whether the first Get finds it or the wait for a terminating pod.
ReusedPodLabelled ==
    [][\A r \in Run :
          pc[r] \in {"reuseGet", "reuseWait"} /\ pc'[r] = "probe" => labelled'[r]]_vars

\* No run deletes a pod that does not carry the labels.
UnownedPodSurvives ==
    [][\A r \in Run, k \in Key : Deletes(r, k) => pods[k].owned]_vars

\* A service or egress run that ends by itself leaves no live pod behind that
\* it created, not even when its Create succeeded and the reply was lost,
\* unless the cleanup calls themselves failed.
NoPodLeftBehind ==
    \A r \in Run :
        LET p == pods[SourceKey[r]] IN
        pc[r] = "done" /\ ~cleanErr[r] /\ Kind[r] # "gateway" /\ p # NoPod /\ ~p.terminating
            => p.uid # mine[r]

\* Every run that is under way gets as far as its cleanup or ends, although
\* pods may never become ready and others act on its pod.  That the cleanup
\* itself ends cannot be said: its calls have no deadline.
EveryRunGetsToCleanup ==
    \A r \in Run : pc[r] # "start" ~> pc[r] \in CleanupPC \cup FinalPC

\* The calls of the deferred cleanup of r are answered.
CleanupReturns(r) == WF_vars(CleanupGet(r) \/ CleanupDelete(r))

\* A debug pod with UID u that is left from a crashed run is gone after the
\* next service or egress run on the same key, whatever that run meets on its
\* way, unless it crashes itself or its cleanup calls fail or never return.
LeftoverCleared(u) ==
    \A r \in Run :
        LET Left == LET p == pods[SourceKey[r]] IN p # NoPod /\ p.owned /\ p.uid = u
        IN  CleanupReturns(r) =>
                ((pc[r] = "ensureGet" /\ Kind[r] # "gateway" /\ Left)
                    ~> (~Left \/ pc[r] = "crashed" \/ cleanErr[r]))

===============================================================================
