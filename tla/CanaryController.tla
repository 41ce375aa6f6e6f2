-------------------------- MODULE CanaryController --------------------------
(***************************************************************************)
(* The canary-release controller (controller/controller): it runs a proxy  *)
(* Deployment for every live CanaryRelease, removes it when the transition *)
(* has finished, deletes a CanaryRelease whose Release is gone, and copies *)
(* the status of the proxy's pods into the CanaryRelease.                  *)
(*                                                                         *)
(* The module follows the objects of one CanaryRelease name through its    *)
(* incarnations (uids).  The queue is keyed by object, not by name, so     *)
(* that several Workers may handle the same CanaryRelease at once; each    *)
(* runs syncCanaryRelease one API call per step.  As in CanaryProxy the    *)
(* informer caches lag, and calls fail or lose their reply.                *)
(*                                                                         *)
(* The traffic of the first incarnation (TrafficRouting) belongs to its    *)
(* proxy, which CanarySystem adds; no step of this module moves it.        *)
(***************************************************************************)
EXTENDS Naturals, FiniteSets

CONSTANTS
    Workers,       \* queue workers (5)
    Names,         \* Deployment names with the label of the CanaryRelease
    Prefixed,      \* those that start with the name of the proxy
    Own,           \* the name the controller generates
    UserOps,       \* which user operations this instance explores
    MaxOps,        \* bound: user operations
    MaxUid,        \* bound: incarnations of the CanaryRelease
    MaxFaults,     \* bound: failing API calls
    MaxRestarts,   \* bound: restarts of the controller
    MaxRetries,    \* requeues of a failed item before it is dropped (3)
    UpdateSteps,   \* attempts of UpdateCRWithRetries (5)
    PodsLag,       \* may the deployment cache be older than the pod cache?
    Services,      \* names in cr.Spec.Service
    Attempts       \* of the proxy to give the services back (5)

None == "None"
Deprecated == "Deprecated"

\* Names are numbered in their alphabetical order: the generated name is a
\* prefix of all the other prefixed ones.
ASSUME NamesAssumption ==
    /\ IsFiniteSet(Names) /\ Names \subseteq Nat \ {0}
    /\ Prefixed \subseteq Names /\ Own \in Prefixed
    /\ \A n \in Prefixed : Own <= n
ASSUME BoundsAssumption ==
    /\ MaxOps \in Nat /\ MaxFaults \in Nat /\ MaxRestarts \in Nat
    /\ MaxRetries \in Nat
    /\ MaxUid \in Nat \ {0} /\ UpdateSteps \in Nat \ {0}
    /\ PodsLag \in BOOLEAN
    /\ UserOps \subseteq {"deprecate", "delete", "recreate", "deleteRelease",
                          "moveRelease", "restartPod"}

VARIABLES
    cr, release, deploy, pod,                        \* API server
    crCache, releaseCache, deployCache, podCache,    \* listers
    current, podsSeen,    \* crCache, podCache have the latest resourceVersions
    queue, w,                                        \* controller process
    lastUid, ops, faults, restarts,                  \* bounds
    route, served, attempt, listed, abandoned        \* traffic

theCR == <<cr, current>>
thePods == <<pod, podsSeen>>
api == <<theCR, release, deploy, thePods>>
caches == <<crCache, releaseCache, deployCache, podCache>>
traffic == <<route, served, attempt, listed, abandoned>>
bounds == <<lastUid, ops, restarts>>
env == <<bounds, traffic>>
controller == <<api, caches, queue, w, bounds, faults>>
vars == <<controller, traffic>>

Uids == 1..MaxUid
Pods == [Uids -> {"none", "starting", "ready", "doomed"}]

\* Status.Proxy: the active Deployment (0 in a new CanaryRelease) and which
\* pods are ready.
Statuses == [active : Names \cup {0}, ready : SUBSET Uids]

\* uid 0 is "not found".
CanaryReleases == [uid : 0..MaxUid, tr : {None, Deprecated},
                   phase : {None, Deprecated}, proxy : Statuses]

NoPods == [u \in Uids |-> "none"]
NoStatus == [active |-> 0, ready |-> {}]
NoCR == [uid |-> 0, tr |-> None, phase |-> None, proxy |-> NoStatus]

Items == [uid : Uids, n : 0..MaxRetries]
Pcs == {"idle", "deprecate", "delete", "cleanup", "sync", "creating",
        "create", "syncStatus", "update"}

\* A worker: where it is, its item, its copy cr of the CanaryRelease, the
\* claimed Deployments still to delete, the active one, the status to store,
\* the attempts made to store it.
WorkerStates ==
    [pc : Pcs, item : Items, cr : CanaryReleases,
     todo : SUBSET Names, active : Names \cup {0}, status : Statuses,
     tries : 0..UpdateSteps]

Idle == [pc |-> "idle", item |-> [uid |-> 1, n |-> 0], cr |-> NoCR,
         todo |-> {}, active |-> 0, status |-> NoStatus,
         tries |-> 0]

TypeOK ==
    /\ cr \in CanaryReleases /\ crCache \in CanaryReleases
    /\ release \in {"ok", "moved", "gone"} /\ releaseCache \in {"ok", "moved", "gone"}
    /\ deploy \in [Names -> 0..MaxUid] /\ deployCache \in [Names -> 0..MaxUid]
    /\ pod \in Pods /\ podCache \in Pods
    /\ current \in BOOLEAN /\ podsSeen \in BOOLEAN
    /\ queue \subseteq Items
    /\ w \in [Workers -> WorkerStates]
    /\ lastUid \in Uids
    /\ ops \in 0..MaxOps /\ faults \in 0..MaxFaults /\ restarts \in 0..MaxRestarts

\* How far the first CanaryRelease has come.
Stage == IF cr.uid # 1 THEN "gone"
         ELSE IF cr.phase # None THEN "ended"
         ELSE IF cr.tr # None THEN "ending" ELSE "running"

Routing == INSTANCE TrafficRouting WITH stage <- Stage

\* The controller starts, or starts again, with synced caches.  Deployments
\* of former controllers may be there.
Init ==
    /\ cr = [NoCR EXCEPT !.uid = 1] /\ release = "ok"
    /\ deploy \in [Names -> {0, 1}] /\ pod = NoPods
    /\ crCache = cr /\ current = TRUE /\ podsSeen = TRUE /\ releaseCache = release
    /\ deployCache = deploy /\ podCache = pod
    /\ queue = {[uid |-> 1, n |-> 0]} /\ w = [i \in Workers |-> Idle]
    /\ lastUid = 1 /\ ops = MaxOps /\ faults = MaxFaults /\ restarts = MaxRestarts
    /\ Routing!Init

----------------------------------------------------------------------------
(***************************************************************************)
(* Informers and their handlers                                            *)
(***************************************************************************)

Enqueue(c) == IF c.uid = 0 THEN {} ELSE {[uid |-> c.uid, n |-> 0]}

updateCanaryReleaseOfSpec(old, cur) == IF old.tr = cur.tr THEN {} ELSE Enqueue(cur)

\* Only a change of the spec or of the phase counts.
updateCanaryRelease(old, cur) ==
    IF old.tr = cur.tr /\ old.phase = cur.phase THEN {} ELSE Enqueue(cur)

\* The watch delivers the deletion of one CanaryRelease before the next one.
RefreshCR ==
    LET deleted == crCache.uid \notin {0, cr.uid} IN
    /\ ~current /\ current' = (~deleted \/ cr.uid = 0)
    /\ crCache' = IF deleted THEN NoCR ELSE cr
    /\ queue' = queue \cup
         (CASE deleted -> Enqueue(crCache)
            [] crCache.uid = 0 -> Enqueue(cr)
            [] OTHER -> updateCanaryRelease(crCache, cr))
    /\ UNCHANGED <<cr, release, deploy, thePods, releaseCache, deployCache, podCache, w, env, faults>>

deleteReleaseIsIgnored == {}
deleteRelease == Enqueue(crCache)

\* There is a handler for deleted Releases only.
RefreshRelease ==
    /\ releaseCache # release /\ releaseCache' = release
    /\ queue' = queue \cup (IF release = "gone" THEN deleteRelease ELSE {})
    /\ UNCHANGED <<api, crCache, deployCache, podCache, w, env, faults>>

\* There is none for Deployments.
RefreshDeployments ==
    /\ deployCache # deploy /\ deployCache' = deploy
    /\ UNCHANGED <<api, crCache, releaseCache, podCache, queue, w, env, faults>>

\* A pod belongs to the CanaryRelease its label names, of whatever uid.
RefreshPods ==
    /\ ~podsSeen /\ podsSeen' = TRUE /\ podCache' = pod
    /\ PodsLag \/ deployCache = deploy
    /\ queue' = queue \cup Enqueue(crCache)
    /\ UNCHANGED <<theCR, release, deploy, pod, crCache, releaseCache, deployCache, w, env, faults>>

----------------------------------------------------------------------------
(***************************************************************************)
(* syncCanaryRelease, in worker i                                          *)
(***************************************************************************)

\* A write that reaches the API server.
Write(c) == cr' = c /\ current' = FALSE
Latest == cr.uid # 0 /\ current

At(i, label) == w[i].pc = label
Goto(i, label) == w' = [w EXCEPT ![i].pc = label]

Fault == faults > 0 /\ faults' = faults - 1
NoFault == UNCHANGED faults
MayFail(inevitable) == (inevitable /\ NoFault) \/ Fault

\* The queue retries a failed item until MaxRetries.
mayRetryOnceMore(n) == n <= MaxRetries
mayRetry(n) == n < MaxRetries
Return(i, err) ==
    /\ w' = [w EXCEPT ![i] = Idle]
    /\ queue' = IF err /\ mayRetry(w[i].item.n)
                THEN queue \cup {[w[i].item EXCEPT !.n = @ + 1]} ELSE queue
Succeed(i) == Return(i, FALSE) /\ NoFault
Fail(i, inevitable) == Return(i, TRUE) /\ MayFail(inevitable)

Start(i, label, it, c) ==
    w' = [w EXCEPT ![i] = [Idle EXCEPT !.pc = label, !.item = it, !.cr = c]]

\* The Deployments that the lister shows as owned by this uid, and of these
\* the first that is prefixed: sync keeps it, the others are unexpected.
lookupByGeneratedName(uid) == {n \in {Own} : deployCache[n] = uid}
getDeploymentsForCanaryRelease(uid) == {n \in Names : deployCache[n] = uid}
First(list) == {n \in list \cap Prefixed : \A m \in list \cap Prefixed : n <= m}
unexpectedButPrefixed(list) == list \ Prefixed
unexpected(list) == list \ First(list)

\* cleanup and sync, up to their first call.
StartCleanup(i, it, uid) ==
    w' = [w EXCEPT ![i] = [Idle EXCEPT !.pc = "cleanup", !.item = it,
                            !.cr = [NoCR EXCEPT !.uid = uid],
                            !.todo = getDeploymentsForCanaryRelease(uid)]]
StartSync(i, it, c) ==
    LET list == getDeploymentsForCanaryRelease(c.uid) IN
    \E active \in IF First(list) = {} THEN {0} ELSE First(list) :
        w' = [w EXCEPT ![i] = [Idle EXCEPT !.pc = "sync", !.item = it, !.cr = c,
                                !.todo = unexpected(list), !.active = active]]

\* "only if the canary release status clearly point out it finished
\* transition then we can cleanup it"
finishedOnceRequested(c) == c.tr # None
finished(c) == c.phase # None

syncCanaryRelease(i, it) ==
    LET c == crCache IN
    /\ At(i, "idle") /\ it \in queue
    /\ queue' = queue \ {it}
    /\ \/ c.uid = 0 /\ StartCleanup(i, it, it.uid)
       \/ c.uid # 0 /\ c.uid # it.uid /\ UNCHANGED w
       \/ /\ c.uid # 0 /\ c.uid = it.uid
          /\ \/ finished(c) /\ StartCleanup(i, it, c.uid)
             \/ /\ ~finished(c)
                /\ CASE releaseCache = "gone" -> Start(i, "delete", it, c)
                     [] releaseCache = "moved" -> Start(i, "deprecate", it, c)
                     [] releaseCache = "ok" -> StartSync(i, it, c)
    /\ UNCHANGED <<api, caches, env, faults>>

\* A patch without a resourceVersion, decided on the copy.
deprecate(i) ==
    /\ At(i, "deprecate")
    /\ \/ w[i].cr.tr # None /\ Succeed(i) /\ UNCHANGED theCR
       \/ /\ w[i].cr.tr = None /\ cr.uid # 0
          /\ Write([cr EXCEPT !.tr = Deprecated])
          /\ Succeed(i) \/ Fail(i, FALSE)
       \/ w[i].cr.tr = None /\ Fail(i, cr.uid = 0) /\ UNCHANGED theCR
    /\ UNCHANGED <<release, deploy, thePods, caches, env>>

\* By name, whatever object has the name now.
delete(i) ==
    /\ At(i, "delete")
    /\ \/ /\ cr.uid # 0 /\ Write(NoCR)
          /\ Succeed(i) \/ Fail(i, FALSE)
       \/ Fail(i, cr.uid = 0) /\ UNCHANGED theCR
    /\ UNCHANGED <<release, deploy, thePods, caches, env>>

\* The Deployments are sorted by name.
sortByName(i, n) == n \in w[i].todo /\ \A m \in w[i].todo : n <= m

\* They are deleted by name.  cleanup stops at the first error.
cleanup(i, n) ==
    /\ At(i, "cleanup") /\ sortByName(i, n)
    /\ \/ /\ deploy[n] # 0 /\ deploy' = [deploy EXCEPT ![n] = 0]
          /\ \/ /\ w' = [w EXCEPT ![i].todo = @ \ {n}]
                /\ UNCHANGED queue /\ NoFault
             \/ Fail(i, FALSE)
       \/ Fail(i, deploy[n] = 0) /\ UNCHANGED deploy
    /\ UNCHANGED <<theCR, release, thePods, caches, env>>

cleanupDone(i) ==
    /\ At(i, "cleanup") /\ w[i].todo = {} /\ Succeed(i)
    /\ UNCHANGED <<api, caches, env>>

\* sync ignores the errors of these deletions.
deleteUnexpected(i, n) ==
    /\ At(i, "sync") /\ sortByName(i, n)
    /\ w' = [w EXCEPT ![i].todo = @ \ {n}]
    /\ \/ deploy' = [deploy EXCEPT ![n] = 0] /\ NoFault
       \/ UNCHANGED deploy /\ Fault
    /\ UNCHANGED <<theCR, release, thePods, caches, queue, env>>

\* addCondition(Creating): it lands if the lister is up to date; its error is
\* ignored, and nothing here reads conditions.
creating(i) ==
    /\ At(i, "sync") /\ w[i].todo = {} /\ w[i].active = 0
    /\ Goto(i, "create")
    /\ \/ Latest /\ Write(cr) /\ NoFault
       \/ UNCHANGED theCR /\ MayFail(~Latest)
    /\ UNCHANGED <<release, deploy, thePods, caches, queue, env>>

\* An existing Deployment of the name is an error, whoever owns it.  A pod of
\* a former Deployment is not taken over: it is going to be removed.
create(i) ==
    /\ At(i, "create")
    /\ \/ /\ deploy[Own] = 0 /\ deploy' = [deploy EXCEPT ![Own] = w[i].cr.uid]
          /\ \/ /\ w' = [w EXCEPT ![i].pc = "sync", ![i].active = Own]
                /\ UNCHANGED queue /\ NoFault
             \/ Fail(i, FALSE)
          /\ pod' = [pod EXCEPT ![w[i].cr.uid] = IF @ = "none" THEN @ ELSE "doomed"]
          /\ UNCHANGED podsSeen
       \/ Fail(i, deploy[Own] # 0) /\ UNCHANGED <<deploy, thePods>>
    /\ UNCHANGED <<theCR, release, caches, env>>

\* The status is compared with the copy of the CanaryRelease.
syncStatus(i) ==
    LET status == [active |-> w[i].active,
                   ready |-> {u \in Uids : podCache[u] = "ready"}]
    IN
    /\ At(i, "sync") /\ w[i].todo = {} /\ w[i].active # 0
    /\ \/ w[i].cr.proxy = status /\ Succeed(i)
       \/ /\ w[i].cr.proxy # status
          /\ w' = [w EXCEPT ![i].pc = "update", ![i].status = status]
          /\ UNCHANGED queue /\ NoFault
    /\ UNCHANGED <<api, caches, env>>

\* Without the check of the resourceVersion the cached copy wins.
updateOverwrites(i) ==
    /\ At(i, "update")
    /\ \/ /\ crCache.uid # 0 /\ cr.uid # 0
          /\ Write([crCache EXCEPT !.proxy = w[i].status]) /\ Succeed(i)
       \/ Fail(i, crCache.uid = 0 \/ cr.uid = 0) /\ UNCHANGED theCR
    /\ UNCHANGED <<release, deploy, thePods, caches, env>>

\* One attempt of UpdateCRWithRetries to store it; a conflict is retried.
update(i) ==
    LET conflict == crCache.uid # 0 /\ cr.uid # 0 /\ ~Latest IN
    /\ At(i, "update")
    /\ \/ /\ Latest
          /\ Write([cr EXCEPT !.proxy = w[i].status])
          /\ Succeed(i) \/ Fail(i, FALSE)
       \/ /\ conflict /\ w[i].tries + 1 < UpdateSteps
          /\ w' = [w EXCEPT ![i].tries = @ + 1]
          /\ UNCHANGED <<theCR, queue>> /\ NoFault
       \/ /\ Fail(i, ~Latest /\ ~(conflict /\ w[i].tries + 1 < UpdateSteps))
          /\ UNCHANGED theCR
    /\ UNCHANGED <<release, deploy, thePods, caches, env>>

\* Run, after the controller was stopped or crashed.
Restart ==
    /\ restarts > 0 /\ restarts' = restarts - 1
    /\ w' = [i \in Workers |-> Idle]
    /\ crCache' = cr /\ releaseCache' = release
    /\ deployCache' = deploy /\ podCache' = pod
    /\ queue' = Enqueue(cr)
    /\ current' = TRUE /\ podsSeen' = TRUE
    /\ UNCHANGED <<cr, release, deploy, pod, lastUid, ops, faults, traffic>>

----------------------------------------------------------------------------
(***************************************************************************)
(* External: users, the proxy, the Deployment and ReplicaSet controllers,  *)
(* the garbage collector                                                   *)
(***************************************************************************)

Operation(op) == op \in UserOps /\ ops > 0 /\ ops' = ops - 1
UserUnchanged == UNCHANGED <<deploy, caches, queue, w, faults, restarts, traffic>>

UserDeprecates ==
    /\ Operation("deprecate") /\ cr.uid # 0 /\ cr.tr = None
    /\ Write([cr EXCEPT !.tr = Deprecated])
    /\ UserUnchanged /\ UNCHANGED <<release, thePods, lastUid>>

UserDeletes ==
    /\ Operation("delete") /\ cr.uid # 0 /\ Write(NoCR)
    /\ UserUnchanged /\ UNCHANGED <<release, thePods, lastUid>>

UserRecreates ==
    /\ Operation("recreate") /\ cr.uid = 0 /\ lastUid < MaxUid
    /\ lastUid' = lastUid + 1
    /\ Write([NoCR EXCEPT !.uid = lastUid + 1])
    /\ UserUnchanged /\ UNCHANGED <<release, thePods>>

UserChangesRelease(to) ==
    /\ Operation(IF to = "gone" THEN "deleteRelease" ELSE "moveRelease")
    /\ release # "gone" /\ release # to /\ release' = to
    /\ UserUnchanged /\ UNCHANGED <<theCR, thePods, lastUid>>

RestartPod(u) ==
    /\ Operation("restartPod") /\ pod[u] = "ready"
    /\ pod' = [pod EXCEPT ![u] = "starting"] /\ podsSeen' = FALSE
    /\ UserUnchanged /\ UNCHANGED <<theCR, release, lastUid>>

\* The proxy ends its cleanup with a patch of the phase (CanaryProxy).
ProxyFinishes ==
    /\ cr.uid # 0 /\ cr.tr # None /\ cr.phase = None /\ pod[cr.uid] = "ready"
    /\ Write([cr EXCEPT !.phase = cr.tr])
    /\ UNCHANGED <<release, deploy, thePods, caches, queue, w, env, faults>>

PodController(u) ==
    LET wanted == \E n \in Names : deploy[n] = u IN
    /\ pod' = [pod EXCEPT ![u] = IF ~wanted \/ @ = "doomed" THEN "none"
                                 ELSE IF @ = "none" THEN "starting" ELSE "ready"]
    /\ pod' # pod /\ podsSeen' = FALSE
    /\ UNCHANGED <<theCR, release, deploy, caches, queue, w, env, faults>>

GarbageCollector(n) ==
    /\ deploy[n] \notin {0, cr.uid}
    /\ deploy' = [deploy EXCEPT ![n] = 0]
    /\ UNCHANGED <<theCR, release, thePods, caches, queue, w, env, faults>>

----------------------------------------------------------------------------

Worker(i) ==
    \/ \E it \in queue : syncCanaryRelease(i, it)
    \/ deprecate(i) \/ delete(i)
    \/ \E n \in Names : cleanup(i, n) \/ deleteUnexpected(i, n)
    \/ cleanupDone(i) \/ creating(i) \/ create(i) \/ syncStatus(i) \/ update(i)

Informers == RefreshCR \/ RefreshRelease \/ RefreshDeployments \/ RefreshPods

User == \/ UserDeprecates \/ UserDeletes \/ UserRecreates
        \/ \E to \in {"moved", "gone"} : UserChangesRelease(to)
        \/ \E u \in Uids : RestartPod(u)

Cluster == \/ ProxyFinishes
           \/ \E u \in Uids : PodController(u)
           \/ \E n \in Names : GarbageCollector(n)

Next == (\E i \in Workers : Worker(i)) \/ Informers \/ Restart \/ User \/ Cluster

Spec == Init /\ [][Next]_vars

\* Everything but the users, faults and restarts keeps going.
FairSpec ==
    /\ Spec
    /\ \A i \in Workers : WF_vars(Worker(i))
    /\ WF_vars(RefreshCR) /\ WF_vars(RefreshRelease)
    /\ WF_vars(RefreshDeployments) /\ WF_vars(RefreshPods)
    /\ WF_vars(ProxyFinishes)
    /\ \A u \in Uids : WF_vars(PodController(u))
    /\ \A n \in Names : WF_vars(GarbageCollector(n))

----------------------------------------------------------------------------
(***************************************************************************)
(* Properties                                                              *)
(***************************************************************************)

Live == cr.uid = 1 /\ cr.phase = None
HasProxy(uid) == \E n \in Prefixed : deploy[n] = uid

\* A CanaryRelease that has not ended keeps its proxy: workers that act on
\* stale copies and lists, or clean up the unexpected Deployments, never
\* delete its last one (canary.go:210-215, 286-300).
ProxyIsKept == [][Live /\ HasProxy(1) /\ cr' = cr => HasProxy(1)']_vars

\* The pod of its proxy runs on, too: it is not stopped, nor marked for it by
\* a Deployment created over that of its own, before the end (canary.go:
\* 210-215, 302-309).  This is what CanaryProxy assumes of SIGTERM.
ProxyRunsOn ==
    [][Live /\ HasProxy(1) /\ pod[1] \in {"starting", "ready"} /\ cr' = cr
         => pod'[1] \in {"starting", "ready"}]_vars

\* A CanaryRelease gets a proxy for as long as it has not ended and its
\* Release is there in its version (canary.go:302-309).
LiveGetsProxy == <>[](Live /\ release = "ok" => HasProxy(1))

\* "there may be many valid deployments. But we only need one"
\* (canary.go:289): in the end no second Deployment is left.
OneProxyIsLeft ==
    <>[](Live /\ release = "ok" => Cardinality({n \in Names : deploy[n] = 1}) <= 1)

\* After its end the proxy is removed for good, also one that a worker with
\* an old copy creates behind the cleanup of another (canary.go:210-215).
FinishedLosesProxy ==
    <>[](cr.uid = 1 /\ cr.phase # None => \A n \in Names : deploy[n] = 0)

\* A CanaryRelease that has not ended is deleted when its Release is
\* (canary.go:217-223).
ReleaseGoneDeletes == Live /\ release = "gone" ~> ~Live

(***************************************************************************)
(* A comment that the code does not keep; a run of its own refutes it.     *)
(***************************************************************************)

\* canary.go:210: "only if the canary release status clearly point out it
\* finished transition then we can cleanup it".  The cleanup of a deleted
\* CanaryRelease deletes by name (canary.go:265), and may hit the Deployment
\* that another worker has created for its successor meanwhile.
OnlyFinishedIsCleanedUp ==
    [][cr.uid # 0 /\ cr.phase = None /\ HasProxy(cr.uid) /\ cr' = cr
         => HasProxy(cr.uid)']_vars

=============================================================================
