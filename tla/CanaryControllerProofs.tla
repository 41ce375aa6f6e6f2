----------------------- MODULE CanaryControllerProofs -----------------------
(***************************************************************************)
(* Theorems about CanaryController, for every set of Deployment names and  *)
(* all bounds: its variables keep their types, and with any number of      *)
(* workers a live CanaryRelease keeps its proxy and the pod of it.  The    *)
(* invariants are those of [Next]_controller, which allows others to move  *)
(* the traffic (CanarySystem).                                             *)
(***************************************************************************)
EXTENDS CanaryController, FiniteSetTheorems, WellFoundedInduction, TLAPS

USE NamesAssumption, BoundsAssumption

(***************************************************************************)
(* Type correctness                                                        *)
(***************************************************************************)

LEMMA NoneType == NoCR \in CanaryReleases /\ NoStatus \in Statuses
  BY DEF NoCR, NoStatus, CanaryReleases, Statuses

LEMMA IdleType == Idle \in WorkerStates /\ Idle.pc = "idle" /\ Idle.todo = {}
  BY NoneType DEF Idle, WorkerStates, Items, Uids, Pcs

LEMMA EnqueueType ==
    ASSUME NEW c \in CanaryReleases
    PROVE  Enqueue(c) \subseteq Items /\ \A it \in Enqueue(c) : it.uid = c.uid
  BY DEF Enqueue, CanaryReleases, Items, Uids

LEMMA ReturnType ==
    ASSUME w \in [Workers -> WorkerStates], queue \subseteq Items,
           NEW i \in Workers, NEW err \in BOOLEAN, Return(i, err)
    PROVE  /\ w' \in [Workers -> WorkerStates] /\ queue' \subseteq Items
           /\ w' = [w EXCEPT ![i] = Idle]
           /\ \A it \in queue' : it \in queue \/ it.uid = w[i].item.uid
  <1>1. w' \in [Workers -> WorkerStates]
    BY IdleType DEF Return
  <1>2. w[i].item \in Items
    BY DEF WorkerStates
  <1>3. mayRetry(w[i].item.n) => [w[i].item EXCEPT !.n = @ + 1] \in Items
    BY <1>2 DEF Items, mayRetry
  <1>4. [w[i].item EXCEPT !.n = @ + 1].uid = w[i].item.uid
    BY <1>2 DEF Items
  <1> QED
    BY <1>1, <1>3, <1>4 DEF Return

LEMMA FaultType ==
    ASSUME faults \in 0..MaxFaults, Fault \/ NoFault
    PROVE  faults' \in 0..MaxFaults
  BY DEF Fault, NoFault

\* A worker ends its item, with or without an error.
Ends(i) == (Return(i, TRUE) \/ Return(i, FALSE)) /\ (Fault \/ NoFault)

\* The two ways for the state of the workers to stay well-typed.
WorkType == w \in [Workers -> WorkerStates] /\ queue \subseteq Items
            /\ faults \in 0..MaxFaults

LEMMA EndsType ==
    ASSUME WorkType, NEW i \in Workers, Ends(i)
    PROVE  WorkType'
  <1>1. faults' \in 0..MaxFaults
    BY FaultType DEF WorkType, Ends
  <1> QED
    BY <1>1, ReturnType DEF WorkType, Ends

\* What the API server and the caches hold.
ApiType ==
    /\ cr \in CanaryReleases /\ release \in {"ok", "moved", "gone"}
    /\ deploy \in [Names -> 0..MaxUid] /\ pod \in Pods
    /\ current \in BOOLEAN /\ podsSeen \in BOOLEAN

CacheType ==
    /\ crCache \in CanaryReleases /\ releaseCache \in {"ok", "moved", "gone"}
    /\ deployCache \in [Names -> 0..MaxUid] /\ podCache \in Pods

EnvType == lastUid \in Uids /\ ops \in 0..MaxOps /\ restarts \in 0..MaxRestarts

LEMMA TypeParts == TypeOK <=> ApiType /\ CacheType /\ WorkType /\ EnvType
  BY DEF TypeOK, ApiType, CacheType, WorkType, EnvType

LEMMA TypeNext ==
    ASSUME ApiType', CacheType', WorkType', EnvType'
    PROVE  TypeOK'
  BY DEF TypeOK, ApiType, CacheType, WorkType, EnvType

LEMMA ApiSame == ASSUME ApiType, UNCHANGED api PROVE ApiType'
  BY DEF ApiType, api, theCR, thePods

LEMMA CacheSame == ASSUME CacheType, UNCHANGED caches PROVE CacheType'
  BY DEF CacheType, caches

LEMMA BoundsSame == ASSUME EnvType, UNCHANGED bounds PROVE EnvType'
  BY DEF EnvType, bounds

LEMMA EnvSame == ASSUME EnvType, UNCHANGED env PROVE EnvType'
  BY BoundsSame DEF env

LEMMA WorkSame == ASSUME WorkType, UNCHANGED <<queue, w, faults>> PROVE WorkType'
  BY DEF WorkType

\* Write stores a well-typed CanaryRelease.
LEMMA WriteType ==
    ASSUME cr \in CanaryReleases
    PROVE  /\ [cr EXCEPT !.tr = Deprecated] \in CanaryReleases
           /\ [cr EXCEPT !.phase = cr.tr] \in CanaryReleases
           /\ \A st \in Statuses : [cr EXCEPT !.proxy = st] \in CanaryReleases
           /\ \A u \in Uids : [NoCR EXCEPT !.uid = u] \in CanaryReleases
  BY NoneType DEF CanaryReleases, Uids

LEMMA StartType ==
    ASSUME TypeOK, NEW i \in Workers, NEW it \in queue, syncCanaryRelease(i, it)
    PROVE  WorkType'
  <1>0. it \in Items /\ crCache \in CanaryReleases /\ it.uid \in Uids
    BY DEF TypeOK, Items
  <1>1. \A uid \in 0..MaxUid : [NoCR EXCEPT !.uid = uid] \in CanaryReleases
    BY NoneType DEF CanaryReleases
  <1>2. queue' \subseteq Items /\ UNCHANGED faults /\ faults \in 0..MaxFaults
    BY DEF TypeOK, syncCanaryRelease
  <1>3. ASSUME NEW uid \in 0..MaxUid, StartCleanup(i, it, uid)
        PROVE  w' \in [Workers -> WorkerStates]
    <2>1. getDeploymentsForCanaryRelease(uid) \in SUBSET Names
      BY DEF getDeploymentsForCanaryRelease
    <2>2. [Idle EXCEPT !.pc = "cleanup", !.item = it, !.cr = [NoCR EXCEPT !.uid = uid],
                       !.todo = getDeploymentsForCanaryRelease(uid)] \in WorkerStates
      BY <1>0, <1>1, <2>1, IdleType DEF WorkerStates, Pcs
    <2> QED
      BY <1>3, <2>2 DEF StartCleanup, TypeOK
  <1>4. ASSUME StartSync(i, it, crCache)
        PROVE  w' \in [Workers -> WorkerStates]
    <2> DEFINE list == getDeploymentsForCanaryRelease(crCache.uid)
    <2>1. list \in SUBSET Names /\ unexpected(list) \in SUBSET Names /\ First(list) \subseteq Names
      BY DEF getDeploymentsForCanaryRelease, unexpected, First
    <2>2. PICK active \in IF First(list) = {} THEN {0} ELSE First(list) :
            w' = [w EXCEPT ![i] = [Idle EXCEPT !.pc = "sync", !.item = it, !.cr = crCache,
                                    !.todo = unexpected(list), !.active = active]]
      BY <1>4 DEF StartSync
    <2>3. active \in Names \cup {0}
      BY <2>1
    <2>4. [Idle EXCEPT !.pc = "sync", !.item = it, !.cr = crCache,
                       !.todo = unexpected(list), !.active = active] \in WorkerStates
      BY <1>0, <2>1, <2>3, IdleType DEF WorkerStates, Pcs
    <2> QED
      BY <2>2, <2>4 DEF TypeOK
  <1>5. ASSUME NEW label \in {"delete", "deprecate"}, Start(i, label, it, crCache)
        PROVE  w' \in [Workers -> WorkerStates]
    <2>1. [Idle EXCEPT !.pc = label, !.item = it, !.cr = crCache] \in WorkerStates
      BY <1>0, IdleType DEF WorkerStates, Pcs
    <2> QED
      BY <1>5, <2>1 DEF Start, TypeOK
  <1>6. crCache.uid \in 0..MaxUid /\ it.uid \in 0..MaxUid
    BY <1>0 DEF CanaryReleases, Uids
  <1>7. \/ StartCleanup(i, it, it.uid) \/ StartCleanup(i, it, crCache.uid)
        \/ StartSync(i, it, crCache) \/ UNCHANGED w
        \/ Start(i, "delete", it, crCache) \/ Start(i, "deprecate", it, crCache)
    <2>1. releaseCache \in {"ok", "moved", "gone"}
      BY DEF TypeOK
    <2> QED
      BY <2>1 DEF syncCanaryRelease
  <1> QED
    BY <1>2, <1>3, <1>4, <1>5, <1>6, <1>7 DEF WorkType, TypeOK

LEMMA WorkerType ==
    ASSUME TypeOK, NEW i \in Workers, Worker(i)
    PROVE  TypeOK'
<1>0. ApiType /\ CacheType /\ WorkType /\ EnvType
  BY TypeParts
<1>1. w[i] \in WorkerStates /\ w[i].cr \in CanaryReleases /\ w[i].status \in Statuses
  BY <1>0 DEF WorkType, WorkerStates
<1>2. CASE \E it \in queue : syncCanaryRelease(i, it)
  <2>1. PICK it \in queue : syncCanaryRelease(i, it)
    BY <1>2
  <2>2. WorkType'
    BY <2>1, StartType
  <2> QED
    BY <1>0, <2>1, <2>2, ApiSame, CacheSame, EnvSame, TypeNext DEF syncCanaryRelease
<1>3. CASE deprecate(i) \/ delete(i)
  <2>1. UNCHANGED <<release, deploy, thePods, caches, env>>
    BY <1>3 DEF deprecate, delete
  <2>2. Ends(i)
    BY <1>3 DEF deprecate, delete, Ends, Succeed, Fail, MayFail
  <2>3. \/ UNCHANGED theCR
        \/ current' = FALSE /\ cr' \in {NoCR, [cr EXCEPT !.tr = Deprecated]}
    BY <1>3 DEF deprecate, delete, Write
  <2>4. ApiType'
    BY <1>0, <2>1, <2>3, NoneType, WriteType DEF ApiType, theCR, thePods
  <2> QED
    BY <1>0, <2>1, <2>2, <2>4, EndsType, CacheSame, EnvSame, TypeNext
<1>4. CASE \E n \in Names : cleanup(i, n) \/ deleteUnexpected(i, n)
  <2>1. PICK n \in Names : cleanup(i, n) \/ deleteUnexpected(i, n)
    BY <1>4
  <2>2. UNCHANGED <<theCR, release, thePods, caches, env>>
    BY <2>1 DEF cleanup, deleteUnexpected
  <2>3. deploy' = deploy \/ deploy' = [deploy EXCEPT ![n] = 0]
    BY <2>1 DEF cleanup, deleteUnexpected
  <2>4. ApiType'
    BY <1>0, <2>2, <2>3 DEF ApiType, theCR, thePods
  <2>5. \/ Ends(i)
        \/ /\ w' = [w EXCEPT ![i].todo = @ \ {n}]
           /\ UNCHANGED queue /\ (Fault \/ NoFault)
    BY <2>1 DEF cleanup, deleteUnexpected, Ends, Fail, MayFail
  <2>6. ASSUME w' = [w EXCEPT ![i].todo = @ \ {n}], UNCHANGED queue, Fault \/ NoFault
        PROVE  WorkType'
    <3>1. [w[i] EXCEPT !.todo = @ \ {n}] \in WorkerStates
      BY <1>1 DEF WorkerStates
    <3>2. w' \in [Workers -> WorkerStates]
      BY <1>0, <2>6, <3>1 DEF WorkType
    <3>3. queue' = queue /\ faults' \in 0..MaxFaults
      BY <1>0, <2>6, FaultType DEF WorkType
    <3> QED
      BY <1>0, <3>2, <3>3 DEF WorkType
  <2>7. WorkType'
    <3>1. CASE Ends(i)
      BY <1>0, <3>1, EndsType
    <3> QED
      BY <2>5, <2>6, <3>1
  <2> QED
    BY <1>0, <2>2, <2>4, <2>7, CacheSame, EnvSame, TypeNext
<1>5. CASE cleanupDone(i)
  BY <1>0, <1>5, EndsType, ApiSame, CacheSame, EnvSame, TypeNext DEF cleanupDone, Succeed, Ends
<1>6. CASE creating(i)
  <2>1. UNCHANGED <<release, deploy, thePods, caches, queue, env>>
    BY <1>6 DEF creating
  <2>2. cr' = cr /\ current' \in BOOLEAN
    BY <1>0, <1>6 DEF creating, Write, theCR, ApiType
  <2>3. ApiType'
    BY <1>0, <2>1, <2>2 DEF ApiType, thePods
  <2>4. [w[i] EXCEPT !.pc = "create"] \in WorkerStates
    BY <1>1 DEF WorkerStates, Pcs
  <2>5. w' \in [Workers -> WorkerStates]
    BY <1>0, <1>6, <2>4 DEF creating, Goto, WorkType
  <2>6. Fault \/ NoFault
    BY <1>6 DEF creating, MayFail
  <2>7. WorkType'
    BY <1>0, <2>1, <2>5, <2>6, FaultType DEF WorkType
  <2> QED
    BY <1>0, <2>1, <2>3, <2>7, CacheSame, EnvSame, TypeNext
<1>7. CASE create(i)
  <2>1. UNCHANGED <<theCR, release, caches, env>>
    BY <1>7 DEF create
  <2>2. w[i].cr.uid \in 0..MaxUid /\ Own \in Names
    BY <1>1 DEF CanaryReleases
  <2>3. deploy' = deploy \/ deploy' = [deploy EXCEPT ![Own] = w[i].cr.uid]
    BY <1>7 DEF create
  <2>4. pod' \in Pods /\ podsSeen' = podsSeen
    <3>1. podsSeen' = podsSeen
      BY <1>7 DEF create, thePods
    <3>2. \/ pod' = pod
          \/ pod' = [pod EXCEPT ![w[i].cr.uid] = IF @ = "none" THEN @ ELSE "doomed"]
      BY <1>7 DEF create, thePods
    <3> QED
      BY <1>0, <3>1, <3>2 DEF ApiType, Pods
  <2>5. ApiType'
    BY <1>0, <2>1, <2>2, <2>3, <2>4 DEF ApiType, theCR
  <2>6. [[w[i] EXCEPT !.pc = "sync"] EXCEPT !.active = Own] \in WorkerStates
    BY <1>1, <2>2 DEF WorkerStates, Pcs
  <2>7. \/ Ends(i)
        \/ /\ w' = [w EXCEPT ![i].pc = "sync", ![i].active = Own]
           /\ UNCHANGED queue /\ NoFault
    BY <1>7 DEF create, Ends, Fail, MayFail
  <2>8. ASSUME w' = [w EXCEPT ![i].pc = "sync", ![i].active = Own],
               UNCHANGED queue, NoFault
        PROVE  WorkType'
    <3>1. w' \in [Workers -> WorkerStates]
      BY <1>0, <2>6, <2>8 DEF WorkType
    <3>2. queue' = queue /\ faults' \in 0..MaxFaults
      BY <1>0, <2>8, FaultType DEF WorkType
    <3> QED
      BY <1>0, <3>1, <3>2 DEF WorkType
  <2> QED
    BY <1>0, <2>1, <2>5, <2>7, <2>8, EndsType, CacheSame, EnvSame, TypeNext
<1>8. CASE syncStatus(i)
  <2> DEFINE status == [active |-> w[i].active,
                        ready |-> {u \in Uids : podCache[u] = "ready"}]
  <2>1. UNCHANGED <<api, caches, env>>
    BY <1>8 DEF syncStatus
  <2>2. [[w[i] EXCEPT !.pc = "update"] EXCEPT !.status = status] \in WorkerStates
    <3>1. status \in Statuses
      BY <1>1 DEF WorkerStates, Statuses
    <3> HIDE DEF status
    <3> QED
      BY <1>1, <3>1 DEF WorkerStates, Pcs
  <2>3. \/ Ends(i)
        \/ /\ w' = [w EXCEPT ![i].pc = "update", ![i].status = status]
           /\ UNCHANGED queue /\ NoFault
    BY <1>8 DEF syncStatus, Ends, Succeed
  <2> HIDE DEF status
  <2>4. ASSUME w' = [w EXCEPT ![i].pc = "update", ![i].status = status],
               UNCHANGED queue, NoFault
        PROVE  WorkType'
    <3>1. w' \in [Workers -> WorkerStates]
      BY <1>0, <2>2, <2>4 DEF WorkType
    <3>2. queue' = queue /\ faults' \in 0..MaxFaults
      BY <1>0, <2>4, FaultType DEF WorkType
    <3> QED
      BY <1>0, <3>1, <3>2 DEF WorkType
  <2> QED
    BY <1>0, <2>1, <2>3, <2>4, EndsType, ApiSame, CacheSame, EnvSame, TypeNext
<1>9. CASE update(i)
  <2>1. UNCHANGED <<release, deploy, thePods, caches, env>>
    BY <1>9 DEF update
  <2>2. \/ UNCHANGED theCR
        \/ current' = FALSE /\ cr' = [cr EXCEPT !.proxy = w[i].status]
    BY <1>9 DEF update, Write
  <2>3. ApiType'
    BY <1>0, <1>1, <2>1, <2>2, WriteType DEF ApiType, theCR, thePods
  <2>4. \/ Ends(i)
        \/ /\ w[i].tries + 1 < UpdateSteps /\ w' = [w EXCEPT ![i].tries = @ + 1]
           /\ UNCHANGED queue /\ NoFault
    BY <1>9 DEF update, Ends, Succeed, Fail, MayFail
  <2>5. ASSUME w[i].tries + 1 < UpdateSteps, w' = [w EXCEPT ![i].tries = @ + 1],
               UNCHANGED queue, NoFault
        PROVE  WorkType'
    <3>1. [w[i] EXCEPT !.tries = @ + 1] \in WorkerStates
      BY <1>1, <2>5 DEF WorkerStates
    <3>2. w' \in [Workers -> WorkerStates]
      BY <1>0, <2>5, <3>1 DEF WorkType
    <3>3. queue' = queue /\ faults' \in 0..MaxFaults
      BY <1>0, <2>5, FaultType DEF WorkType
    <3> QED
      BY <1>0, <3>2, <3>3 DEF WorkType
  <2> QED
    BY <1>0, <2>1, <2>3, <2>4, <2>5, EndsType, CacheSame, EnvSame, TypeNext
<1> QED
  BY <1>2, <1>3, <1>4, <1>5, <1>6, <1>7, <1>8, <1>9 DEF Worker

LEMMA InformersType ==
    ASSUME TypeOK, Informers
    PROVE  TypeOK'
<1>0. ApiType /\ CacheType /\ WorkType /\ EnvType
  BY TypeParts
<1>1. CASE RefreshCR
  <2>1. CacheType' /\ ApiType'
    BY <1>0, <1>1, NoneType DEF RefreshCR, CacheType, ApiType, thePods
  <2>2. Enqueue(crCache) \subseteq Items /\ Enqueue(cr) \subseteq Items
    BY <1>0, EnqueueType DEF ApiType, CacheType
  <2>3. queue' \subseteq Items
    BY <1>0, <1>1, <2>2 DEF RefreshCR, updateCanaryRelease, WorkType
  <2>4. WorkType' /\ EnvType'
    BY <1>0, <1>1, <2>3 DEF RefreshCR, WorkType, EnvType, env, bounds
  <2> QED
    BY <2>1, <2>4, TypeNext
<1>2. CASE RefreshRelease
  <2>1. queue' \subseteq Items
    BY <1>0, <1>2, EnqueueType DEF RefreshRelease, deleteRelease, WorkType, CacheType
  <2>2. WorkType' /\ EnvType' /\ CacheType'
    BY <1>0, <1>2, <2>1, EnvSame DEF RefreshRelease, WorkType, CacheType, ApiType
  <2> QED
    BY <1>0, <1>2, <2>2, ApiSame, TypeNext DEF RefreshRelease
<1>3. CASE RefreshDeployments
  <2>1. WorkType' /\ EnvType' /\ CacheType'
    BY <1>0, <1>3, EnvSame, WorkSame DEF RefreshDeployments, CacheType, ApiType
  <2> QED
    BY <1>0, <1>3, <2>1, ApiSame, TypeNext DEF RefreshDeployments
<1>4. CASE RefreshPods
  <2>1. queue' \subseteq Items
    BY <1>0, <1>4, EnqueueType DEF RefreshPods, WorkType, CacheType
  <2>2. WorkType' /\ EnvType' /\ CacheType' /\ ApiType'
    BY <1>0, <1>4, <2>1, EnvSame DEF RefreshPods, WorkType, CacheType, ApiType, theCR
  <2> QED
    BY <2>2, TypeNext
<1> QED
  BY <1>1, <1>2, <1>3, <1>4 DEF Informers

LEMMA RestartType ==
    ASSUME TypeOK, Restart
    PROVE  TypeOK'
<1>0. ApiType /\ CacheType /\ WorkType /\ EnvType
  BY TypeParts
<1>1. ApiType' /\ CacheType' /\ EnvType'
  BY <1>0 DEF Restart, ApiType, CacheType, EnvType
<1>2. WorkType'
  BY <1>0, IdleType, EnqueueType DEF Restart, WorkType, ApiType
<1> QED
  BY <1>1, <1>2, TypeNext

LEMMA UserType ==
    ASSUME TypeOK, User
    PROVE  TypeOK'
<1>0. ApiType /\ CacheType /\ WorkType /\ EnvType
  BY TypeParts
<1>1. \/ UserDeprecates \/ UserDeletes \/ UserRecreates
      \/ \E to \in {"moved", "gone"} : UserChangesRelease(to)
      \/ \E u \in Uids : RestartPod(u)
  BY DEF User
<1>2. UNCHANGED <<deploy, caches, queue, w, faults, restarts>>
  BY <1>1 DEF UserDeprecates, UserDeletes, UserRecreates, UserChangesRelease, RestartPod,
              UserUnchanged
<1>3. CacheType' /\ WorkType'
  BY <1>0, <1>2, CacheSame, WorkSame
<1>4. ops' \in 0..MaxOps
  BY <1>0, <1>1 DEF UserDeprecates, UserDeletes, UserRecreates, UserChangesRelease, RestartPod,
              Operation, EnvType
<1>5. lastUid' \in Uids
  BY <1>0, <1>1 DEF UserDeprecates, UserDeletes, UserRecreates, UserChangesRelease, RestartPod,
              EnvType, Uids
<1>6. \/ UNCHANGED theCR
      \/ current' = FALSE /\ cr' \in {NoCR, [cr EXCEPT !.tr = Deprecated]}
      \/ \E u \in Uids : current' = FALSE /\ cr' = [NoCR EXCEPT !.uid = u]
  BY <1>0, <1>1, <1>5 DEF UserDeprecates, UserDeletes, UserRecreates, UserChangesRelease,
              RestartPod, Write
<1>7. cr' \in CanaryReleases /\ current' \in BOOLEAN
  BY <1>0, <1>6, NoneType, WriteType DEF ApiType, theCR
<1>8. release' \in {"ok", "moved", "gone"} /\ pod' \in Pods /\ podsSeen' \in BOOLEAN
  BY <1>0, <1>1 DEF UserDeprecates, UserDeletes, UserRecreates, UserChangesRelease, RestartPod,
              ApiType, Pods, thePods
<1> QED
  BY <1>0, <1>2, <1>3, <1>4, <1>5, <1>7, <1>8, TypeNext DEF ApiType, EnvType

LEMMA ClusterType ==
    ASSUME TypeOK, Cluster
    PROVE  TypeOK'
<1>0. ApiType /\ CacheType /\ WorkType /\ EnvType
  BY TypeParts
<1>1. UNCHANGED <<caches, queue, w, env, faults>>
  BY DEF Cluster, ProxyFinishes, PodController, GarbageCollector
<1>2. CacheType' /\ WorkType' /\ EnvType'
  BY <1>0, <1>1, CacheSame, WorkSame, EnvSame
<1>3. CASE ProxyFinishes
  BY <1>0, <1>2, <1>3, WriteType, TypeNext DEF ProxyFinishes, Write, ApiType, thePods
<1>4. ASSUME NEW u \in Uids, PodController(u)
      PROVE  TypeOK'
  <2>1. pod' \in Pods
    BY <1>0, <1>4 DEF PodController, ApiType, Pods
  <2> QED
    BY <1>0, <1>2, <1>4, <2>1, TypeNext DEF PodController, ApiType, theCR
<1>5. ASSUME NEW n \in Names, GarbageCollector(n)
      PROVE  TypeOK'
  BY <1>0, <1>2, <1>5, TypeNext DEF GarbageCollector, ApiType, theCR, thePods
<1> QED
  BY <1>3, <1>4, <1>5 DEF Cluster

LEMMA TypeInit == Init => TypeOK
<1> SUFFICES ASSUME Init PROVE TypeOK
  OBVIOUS
<1>1. 1 \in Uids /\ NoPods \in Pods /\ {[uid |-> 1, n |-> 0]} \subseteq Items
  BY DEF Uids, NoPods, Pods, Items
<1>2. [NoCR EXCEPT !.uid = 1] \in CanaryReleases
  BY <1>1, NoneType DEF CanaryReleases, Uids
<1>3. w \in [Workers -> WorkerStates]
  BY IdleType DEF Init
<1>4. deploy \in [Names -> 0..MaxUid]
  BY <1>1 DEF Init, Uids
<1>5. ops \in 0..MaxOps /\ faults \in 0..MaxFaults /\ restarts \in 0..MaxRestarts
  BY DEF Init
<1> QED
  BY <1>1, <1>2, <1>3, <1>4, <1>5 DEF Init, TypeOK

LEMMA TypeInductive == TypeOK /\ [Next]_controller => TypeOK'
<1> SUFFICES ASSUME TypeOK, [Next]_controller PROVE TypeOK'
  OBVIOUS
<1>1. CASE UNCHANGED controller
  BY <1>1, TypeParts, ApiSame, CacheSame, BoundsSame, WorkSame, TypeNext DEF controller
<1>2. CASE Next
  BY <1>2, WorkerType, InformersType, RestartType, UserType, ClusterType DEF Next
<1> QED
  BY <1>1, <1>2

LEMMA ControllerSteps == [Next]_vars => [Next]_controller
  BY DEF vars

\* Every variable keeps its type, whatever the users, the failing calls, the
\* restarts and the interleaving of the workers.
THEOREM TypeCorrect == Spec => []TypeOK
  BY TypeInit, TypeInductive, ControllerSteps, PTL DEF Spec

(***************************************************************************)
(* What a step does to the Deployments and to a worker                     *)
(***************************************************************************)

\* A prefixed Deployment of this uid that comes before n.
Smaller(n, uid) == \E m \in Prefixed : m < n /\ deploy[m] = uid

\* A Deployment that a list shows is there, or was deleted when an earlier
\* one was there.
HasFirst(f, uid) == deploy[f] = uid \/ Smaller(f, uid)
CachedHasFirst(uid) == \A f \in Prefixed : deployCache[f] = uid => HasFirst(f, uid)

\* A prefixed Deployment that a worker is to delete is not the first one.
UnexpectedIsNotFirst(i, uid) == \A n \in w[i].todo \cap Prefixed : Smaller(n, uid)

\* A step that leaves the first Deployment of this uid.
KeepsFirst(uid) ==
    \A f \in Prefixed : /\ Smaller(f, uid) => Smaller(f, uid)'
                        /\ HasFirst(f, uid) => HasFirst(f, uid)'

LEMMA KeepsSame == ASSUME NEW uid, UNCHANGED deploy PROVE KeepsFirst(uid)
  BY DEF KeepsFirst, Smaller, HasFirst

LEMMA KeepsCreate ==
    ASSUME NEW uid \in Uids, deploy \in [Names -> 0..MaxUid], NEW n \in Names, NEW v,
           deploy[n] = 0, deploy' = [deploy EXCEPT ![n] = v]
    PROVE  KeepsFirst(uid)
<1>1. \A m \in Prefixed : deploy[m] = uid => deploy'[m] = uid
  BY DEF Uids
<1> QED
  BY <1>1 DEF KeepsFirst, Smaller, HasFirst

\* The deletion of a Deployment, unless it is the first one.
LEMMA KeepsDelete ==
    ASSUME NEW uid \in Uids, deploy \in [Names -> 0..MaxUid], NEW n \in Names,
           deploy' = [deploy EXCEPT ![n] = 0],
           n \in Prefixed /\ deploy[n] = uid => Smaller(n, uid)
    PROVE  KeepsFirst(uid)
<1>1. \A m \in Prefixed : m # n /\ deploy[m] = uid => deploy'[m] = uid
  OBVIOUS
<1>2. \A m \in Prefixed : m \in Nat
  OBVIOUS
<1>3. n \in Prefixed /\ deploy[n] = uid => \E k \in Prefixed : k < n /\ deploy'[k] = uid
  BY <1>1, <1>2 DEF Smaller
<1>4. ASSUME NEW f \in Prefixed, Smaller(f, uid)
      PROVE  Smaller(f, uid)'
  <2>1. PICK m \in Prefixed : m < f /\ deploy[m] = uid
    BY <1>4 DEF Smaller
  <2>2. CASE m # n
    BY <1>1, <2>1, <2>2 DEF Smaller
  <2>3. CASE m = n
    BY <1>2, <1>3, <2>1, <2>3 DEF Smaller
  <2> QED
    BY <2>2, <2>3
<1>5. ASSUME NEW f \in Prefixed, deploy[f] = uid
      PROVE  HasFirst(f, uid)'
  BY <1>1, <1>3, <1>5 DEF HasFirst, Smaller
<1> QED
  BY <1>4, <1>5 DEF KeepsFirst, HasFirst

LEMMA KeepsProxy ==
    ASSUME NEW uid, KeepsFirst(uid), HasProxy(uid)
    PROVE  HasProxy(uid)'
  BY DEF KeepsFirst, HasProxy, HasFirst, Smaller

LEMMA KeepsCached ==
    ASSUME NEW uid, KeepsFirst(uid), CachedHasFirst(uid), UNCHANGED deployCache
    PROVE  CachedHasFirst(uid)'
  BY DEF KeepsFirst, CachedHasFirst

LEMMA KeepsUnexpected ==
    ASSUME NEW uid, KeepsFirst(uid), NEW i, UnexpectedIsNotFirst(i, uid),
           w'[i].todo \subseteq w[i].todo
    PROVE  UnexpectedIsNotFirst(i, uid)'
  BY DEF KeepsFirst, UnexpectedIsNotFirst

\* What getDeploymentsForCanaryRelease returns, and what sync deletes of it.
LEMMA StartUnexpected ==
    ASSUME NEW uid, NEW i \in Workers, CachedHasFirst(uid), UNCHANGED deploy,
           w'[i].todo = unexpected(getDeploymentsForCanaryRelease(uid))
    PROVE  UnexpectedIsNotFirst(i, uid)'
<1> DEFINE list == getDeploymentsForCanaryRelease(uid)
<1> SUFFICES ASSUME NEW n \in unexpected(list) \cap Prefixed
             PROVE  Smaller(n, uid)
  BY DEF UnexpectedIsNotFirst, Smaller
<1>1. PICK m \in list \cap Prefixed : ~(n <= m)
  BY DEF unexpected, First
<1>2. deployCache[m] = uid
  BY <1>1 DEF getDeploymentsForCanaryRelease
<1>3. HasFirst(m, uid)
  BY <1>1, <1>2 DEF CachedHasFirst
<1>4. \A k \in Prefixed : k \in Nat
  OBVIOUS
<1>5. m \in Prefixed /\ n \in Prefixed
  OBVIOUS
<1> HIDE DEF list
<1>6. m < n
  <2>1. m \in Nat /\ n \in Nat
    BY <1>4, <1>5
  <2> QED
    BY <1>1, <2>1
<1> QED
  BY <1>3, <1>4, <1>5, <1>6 DEF HasFirst, Smaller

\* A step of a worker that is not at the start of its item.
Continues(i) ==
    \/ deprecate(i) \/ delete(i)
    \/ \E n \in Names : cleanup(i, n) \/ deleteUnexpected(i, n)
    \/ cleanupDone(i) \/ creating(i) \/ create(i) \/ syncStatus(i) \/ update(i)

\* It leaves the other workers alone, ends its item or goes on with it, and
\* puts back no item but its own.
Moves(i) ==
    /\ \A j \in Workers \ {i} : w'[j] = w[j]
    /\ \A it \in queue' : it \in queue \/ it.uid = w[i].item.uid
    /\ \/ w'[i] = Idle
       \/ /\ w'[i].item = w[i].item /\ w'[i].cr = w[i].cr
          /\ w'[i].todo \subseteq w[i].todo
          /\ \/ w'[i].pc = w[i].pc /\ w[i].pc # "create"
             \/ w'[i].pc = "update"
             \/ w[i].pc = "sync" /\ w'[i].pc = "create"
             \/ w[i].pc = "create" /\ w'[i].pc = "sync"

LEMMA ContinuesMoves ==
    ASSUME TypeOK, NEW i \in Workers, Continues(i)
    PROVE  Moves(i)
<1>1. ASSUME Return(i, TRUE) \/ Return(i, FALSE)
      PROVE  Moves(i)
  BY <1>1, ReturnType DEF TypeOK, Moves
<1>2. w[i] \in WorkerStates /\ w \in [Workers -> WorkerStates]
  BY DEF TypeOK
<1>3. ASSUME NEW n \in Names, cleanup(i, n) \/ deleteUnexpected(i, n)
      PROVE  Moves(i)
  <2>1. \/ Return(i, TRUE) \/ Return(i, FALSE)
        \/ /\ w[i].pc \in {"cleanup", "sync"} /\ UNCHANGED queue
           /\ w' = [w EXCEPT ![i].todo = @ \ {n}]
    BY <1>3 DEF cleanup, deleteUnexpected, Fail, At
  <2>2. ASSUME w[i].pc \in {"cleanup", "sync"}, w' = [w EXCEPT ![i].todo = @ \ {n}],
               UNCHANGED queue
        PROVE  Moves(i)
    BY <1>2, <2>2 DEF WorkerStates, Moves
  <2> QED
    BY <1>1, <2>1, <2>2
<1>4. ASSUME creating(i)
      PROVE  Moves(i)
  <2>1. w[i].pc = "sync" /\ UNCHANGED queue /\ w' = [w EXCEPT ![i].pc = "create"]
    BY <1>4 DEF creating, Goto, At
  <2> QED
    BY <1>2, <2>1 DEF WorkerStates, Moves
<1>5. ASSUME create(i)
      PROVE  Moves(i)
  <2>1. \/ Return(i, TRUE) \/ Return(i, FALSE)
        \/ /\ w[i].pc = "create" /\ UNCHANGED queue
           /\ w' = [w EXCEPT ![i].pc = "sync", ![i].active = Own]
    BY <1>5 DEF create, Fail, At
  <2>2. ASSUME w[i].pc = "create", w' = [w EXCEPT ![i].pc = "sync", ![i].active = Own],
               UNCHANGED queue
        PROVE  Moves(i)
    BY <1>2, <2>2 DEF WorkerStates, Moves
  <2> QED
    BY <1>1, <2>1, <2>2
<1>6. ASSUME syncStatus(i)
      PROVE  Moves(i)
  <2> DEFINE status == [active |-> w[i].active,
                        ready |-> {u \in Uids : podCache[u] = "ready"}]
  <2>1. \/ Return(i, FALSE)
        \/ UNCHANGED queue /\ w' = [w EXCEPT ![i].pc = "update", ![i].status = status]
    BY <1>6 DEF syncStatus, Succeed
  <2> HIDE DEF status
  <2>2. ASSUME w' = [w EXCEPT ![i].pc = "update", ![i].status = status], UNCHANGED queue
        PROVE  Moves(i)
    BY <1>2, <2>2 DEF WorkerStates, Moves
  <2> QED
    BY <1>1, <2>1, <2>2
<1>7. ASSUME update(i)
      PROVE  Moves(i)
  <2>1. \/ Return(i, TRUE) \/ Return(i, FALSE)
        \/ /\ w[i].pc = "update" /\ UNCHANGED queue
           /\ w' = [w EXCEPT ![i].tries = @ + 1]
    BY <1>7 DEF update, Succeed, Fail, At
  <2>2. ASSUME w[i].pc = "update", w' = [w EXCEPT ![i].tries = @ + 1], UNCHANGED queue
        PROVE  Moves(i)
    BY <1>2, <2>2 DEF WorkerStates, Moves
  <2> QED
    BY <1>1, <2>1, <2>2
<1>8. ASSUME deprecate(i) \/ delete(i) \/ cleanupDone(i)
      PROVE  Moves(i)
  BY <1>1, <1>8 DEF deprecate, delete, cleanupDone, Succeed, Fail
<1> QED
  BY <1>3, <1>4, <1>5, <1>6, <1>7, <1>8 DEF Continues

\* Nothing a worker is about to delete is the first Deployment of uid.
NoneOf(uid) == \A n \in Names : deploy[n] # uid
Spares(i, uid) ==
    /\ w[i].pc = "cleanup" => NoneOf(uid)
    /\ w[i].pc = "sync" =>
           \A n \in w[i].todo \cap Prefixed : deploy[n] = uid => Smaller(n, uid)

LEMMA NextKeepsFirst ==
    ASSUME TypeOK, NEW uid \in Uids, cr.uid = uid, Next, \A i \in Workers : Spares(i, uid)
    PROVE  KeepsFirst(uid)
<1>0. deploy \in [Names -> 0..MaxUid]
  BY DEF TypeOK
<1>1. CASE UNCHANGED deploy
  BY <1>1, KeepsSame
<1>2. ASSUME NEW i \in Workers, NEW n \in Names, cleanup(i, n) \/ deleteUnexpected(i, n)
      PROVE  KeepsFirst(uid)
  <2>1. UNCHANGED deploy \/ deploy' = [deploy EXCEPT ![n] = 0]
    BY <1>2 DEF cleanup, deleteUnexpected
  <2>2. n \in Prefixed /\ deploy[n] = uid => Smaller(n, uid)
    BY <1>2 DEF cleanup, deleteUnexpected, At, Spares, NoneOf, sortByName
  <2> QED
    BY <1>0, <1>1, <2>1, <2>2, KeepsDelete
<1>3. ASSUME NEW i \in Workers, create(i)
      PROVE  KeepsFirst(uid)
  <2>1. \/ UNCHANGED deploy
        \/ deploy[Own] = 0 /\ deploy' = [deploy EXCEPT ![Own] = w[i].cr.uid]
    BY <1>3 DEF create
  <2>2. Own \in Names
    OBVIOUS
  <2> QED
    BY <1>0, <1>1, <2>1, <2>2, KeepsCreate
<1>4. ASSUME NEW n \in Names, GarbageCollector(n)
      PROVE  KeepsFirst(uid)
  <2>1. deploy[n] # uid /\ deploy' = [deploy EXCEPT ![n] = 0]
    BY <1>4 DEF GarbageCollector
  <2> QED
    BY <1>0, <2>1, KeepsDelete
<1>5. ASSUME NEW i \in Workers,
             \/ \E it \in queue : syncCanaryRelease(i, it)
             \/ deprecate(i) \/ delete(i) \/ cleanupDone(i) \/ creating(i)
             \/ syncStatus(i) \/ update(i)
      PROVE  UNCHANGED deploy
  BY <1>5 DEF syncCanaryRelease, deprecate, delete, cleanupDone, creating, syncStatus,
              update, api
<1>6. Informers \/ Restart \/ User => UNCHANGED deploy
  BY DEF Informers, RefreshCR, RefreshRelease, RefreshDeployments, RefreshPods, Restart, User,
         UserDeprecates, UserDeletes, UserRecreates, UserChangesRelease, RestartPod,
         UserUnchanged, api
<1>7. ProxyFinishes \/ (\E u \in Uids : PodController(u)) => UNCHANGED deploy
  BY DEF ProxyFinishes, PodController
<1> QED
  BY <1>1, <1>2, <1>3, <1>4, <1>5, <1>6, <1>7 DEF Next, Worker, Cluster

(***************************************************************************)
(* With any number of workers the first CanaryRelease keeps its proxy      *)
(* until it ends.                                                          *)
(*                                                                         *)
(* While it is live its cached copy is a live one, so no worker cleans up, *)
(* and a list that a worker took, however old, has a Deployment before     *)
(* each one it is to delete: the chain of earlier ones never ends in a     *)
(* deleted one.                                                            *)
(***************************************************************************)

KeptWorker(i) ==
    /\ w[i].item.uid = 1 /\ w[i].pc # "cleanup"
    /\ w[i].pc \in {"sync", "create"} => UnexpectedIsNotFirst(i, 1)

KeptInv ==
    Live =>
        /\ crCache.uid = 1 /\ crCache.phase = None
        /\ \A it \in queue : it.uid = 1
        /\ \A i \in Workers : KeptWorker(i)
        /\ CachedHasFirst(1)

LEMMA KeptInit == Init => KeptInv
<1> SUFFICES ASSUME Init PROVE KeptInv
  OBVIOUS
<1>1. crCache.uid = 1 /\ crCache.phase = None
  BY NoneType DEF Init, CanaryReleases, NoCR
<1>2. \A i \in Workers : w[i] = Idle
  BY DEF Init
<1>3. \A i \in Workers : KeptWorker(i)
  BY <1>2, IdleType DEF KeptWorker, Idle
<1>4. CachedHasFirst(1)
  BY DEF Init, CachedHasFirst, HasFirst
<1> QED
  BY <1>1, <1>3, <1>4 DEF Init, KeptInv

\* How a step changes the CanaryRelease.
LEMMA CrSteps ==
    ASSUME Next
    PROVE  \/ UNCHANGED cr \/ cr' = NoCR \/ UserRecreates
           \/ cr' = [cr EXCEPT !.tr = Deprecated]
           \/ cr.tr # None /\ cr' = [cr EXCEPT !.phase = cr.tr]
           \/ \E st : cr' = [cr EXCEPT !.proxy = st]
<1>1. ASSUME NEW i \in Workers, Worker(i)
      PROVE  \/ UNCHANGED cr \/ cr' = NoCR \/ cr' = [cr EXCEPT !.tr = Deprecated]
             \/ \E st : cr' = [cr EXCEPT !.proxy = st]
  BY <1>1 DEF Worker, syncCanaryRelease, deprecate, delete, cleanup, deleteUnexpected,
              cleanupDone, creating, create, syncStatus, update, Write, api, theCR
<1>2. Informers \/ Restart => UNCHANGED cr
  BY DEF Informers, RefreshCR, RefreshRelease, RefreshDeployments, RefreshPods, Restart,
         api, theCR
<1>3. User => \/ UNCHANGED cr \/ cr' = NoCR \/ UserRecreates
              \/ cr' = [cr EXCEPT !.tr = Deprecated]
  BY DEF User, UserDeprecates, UserDeletes, UserChangesRelease, RestartPod, Write, theCR
<1>4. Cluster => UNCHANGED cr \/ (cr.tr # None /\ cr' = [cr EXCEPT !.phase = cr.tr])
  BY DEF Cluster, ProxyFinishes, PodController, GarbageCollector, Write, theCR
<1> QED
  BY <1>1, <1>2, <1>3, <1>4 DEF Next

\* A CanaryRelease that has not ended was there and had not, or is new.
LEMMA NotEndedBefore ==
    ASSUME TypeOK, Next, cr'.uid # 0, cr'.phase = None
    PROVE  \/ cr.uid = cr'.uid /\ cr.phase = None
           \/ UserRecreates
<1>1. cr \in CanaryReleases
  BY DEF TypeOK
<1>2. cr' # NoCR
  BY DEF NoCR
<1>3. \/ UNCHANGED cr \/ cr' = [cr EXCEPT !.tr = Deprecated]
      \/ \E st : cr' = [cr EXCEPT !.proxy = st]
      => cr'.uid = cr.uid /\ cr'.phase = cr.phase
  BY <1>1 DEF CanaryReleases
<1>4. ~(cr.tr # None /\ cr' = [cr EXCEPT !.phase = cr.tr])
  BY <1>1 DEF CanaryReleases
<1> QED
  BY <1>2, <1>3, <1>4, CrSteps

\* What has ended does not live again.
LEMMA LiveBefore ==
    ASSUME TypeOK, Next, Live'
    PROVE  Live
<1>1. lastUid \in Nat /\ lastUid >= 1
  BY DEF TypeOK, Uids
<1>2. UserRecreates => cr'.uid = lastUid + 1
  BY DEF UserRecreates, Write, NoCR
<1> QED
  BY <1>1, <1>2, NotEndedBefore DEF Live

\* A worker that starts an item of a live CanaryRelease.
LEMMA StartKept ==
    ASSUME TypeOK, Live, KeptInv, NEW i \in Workers, NEW it \in queue,
           syncCanaryRelease(i, it)
    PROVE  KeptWorker(i)'
<1>1. it.uid = 1 /\ crCache.uid = 1 /\ crCache.phase = None /\ CachedHasFirst(1)
  BY DEF KeptInv
<1>2. KeptWorker(i) /\ w[i].pc = "idle" /\ UNCHANGED deploy
  BY DEF KeptInv, syncCanaryRelease, At, api
<1>3. w \in [Workers -> WorkerStates] /\ Idle \in WorkerStates
  BY IdleType DEF TypeOK
<1>4. \/ UNCHANGED w \/ StartSync(i, it, crCache)
      \/ Start(i, "delete", it, crCache) \/ Start(i, "deprecate", it, crCache)
  <2>1. releaseCache \in {"ok", "moved", "gone"}
    BY DEF TypeOK
  <2>2. ~finished(crCache) /\ crCache.uid # 0 /\ crCache.uid = it.uid
    BY <1>1 DEF finished
  <2> QED
    BY <2>1, <2>2 DEF syncCanaryRelease
<1>5. CASE UNCHANGED w
  BY <1>2, <1>5 DEF KeptWorker
<1>6. ASSUME NEW label \in {"delete", "deprecate"}, Start(i, label, it, crCache)
      PROVE  KeptWorker(i)'
  BY <1>1, <1>3, <1>6 DEF Start, KeptWorker, WorkerStates
<1>7. CASE StartSync(i, it, crCache)
  <2>1. /\ w'[i].pc = "sync" /\ w'[i].item = it
        /\ w'[i].todo = unexpected(getDeploymentsForCanaryRelease(1))
    BY <1>1, <1>3, <1>7 DEF StartSync, WorkerStates
  <2>2. UnexpectedIsNotFirst(i, 1)'
    BY <1>1, <1>2, <2>1, StartUnexpected
  <2> QED
    BY <1>1, <2>1, <2>2 DEF KeptWorker
<1> QED
  BY <1>4, <1>5, <1>6, <1>7

LEMMA StartOthers ==
    ASSUME TypeOK, NEW i \in Workers, NEW it \in queue, syncCanaryRelease(i, it)
    PROVE  \A j \in Workers \ {i} : w'[j] = w[j]
<1>1. w \in [Workers -> WorkerStates] /\ releaseCache \in {"ok", "moved", "gone"}
  BY DEF TypeOK
<1>2. \/ StartCleanup(i, it, it.uid) \/ StartCleanup(i, it, crCache.uid)
      \/ StartSync(i, it, crCache) \/ UNCHANGED w
      \/ Start(i, "delete", it, crCache) \/ Start(i, "deprecate", it, crCache)
  BY <1>1 DEF syncCanaryRelease
<1> QED
  BY <1>1, <1>2 DEF StartCleanup, StartSync, Start

\* A worker goes on, with an item of a live CanaryRelease.
LEMMA ContinueKept ==
    ASSUME TypeOK, NEW i \in Workers, KeptWorker(i), KeepsFirst(1), Continues(i)
    PROVE  KeptWorker(i)'
<1>1. Moves(i)
  BY ContinuesMoves
<1>2. CASE w'[i] = Idle
  BY <1>2, IdleType DEF KeptWorker, Idle
<1>3. CASE w'[i] # Idle
  <2>1. w'[i].todo \subseteq w[i].todo /\ w'[i].item = w[i].item
    BY <1>1, <1>3 DEF Moves
  <2>2. w'[i].pc \in {"sync", "create"} => w[i].pc \in {"sync", "create"}
    BY <1>1, <1>3 DEF Moves
  <2>3. w'[i].pc # "cleanup"
    BY <1>1, <1>3 DEF Moves, KeptWorker
  <2>4. w'[i].pc \in {"sync", "create"} => UnexpectedIsNotFirst(i, 1)'
    BY <2>1, <2>2, KeepsUnexpected DEF KeptWorker
  <2> QED
    BY <2>1, <2>3, <2>4 DEF KeptWorker
<1> QED
  BY <1>2, <1>3

LEMMA KeptNext ==
    ASSUME TypeOK, Live, KeptInv, Next
    PROVE  KeepsFirst(1)
<1>1. 1 \in Uids /\ cr.uid = 1
  BY DEF Uids, Live
<1>2. \A i \in Workers : Spares(i, 1)
  BY DEF KeptInv, KeptWorker, Spares, UnexpectedIsNotFirst
<1> QED
  BY <1>1, <1>2, NextKeepsFirst

LEMMA KeptInductive == TypeOK /\ KeptInv /\ [Next]_controller => KeptInv'
<1> SUFFICES ASSUME TypeOK, KeptInv, [Next]_controller, Live'
             PROVE  /\ crCache'.uid = 1 /\ crCache'.phase = None
                    /\ \A it \in queue' : it.uid = 1
                    /\ \A i \in Workers : KeptWorker(i)'
                    /\ CachedHasFirst(1)'
  BY DEF KeptInv
<1>1. CASE UNCHANGED controller
  <2>1. UNCHANGED <<cr, crCache, deploy, deployCache, queue, w>>
    BY <1>1 DEF controller, api, caches, theCR
  <2>2. Live
    BY <2>1 DEF Live
  <2>3. \A i \in Workers : KeptWorker(i) => KeptWorker(i)'
    BY <2>1 DEF KeptWorker, UnexpectedIsNotFirst, Smaller
  <2>4. CachedHasFirst(1) => CachedHasFirst(1)'
    BY <2>1 DEF CachedHasFirst, HasFirst, Smaller
  <2> QED
    BY <2>1, <2>2, <2>3, <2>4 DEF KeptInv
<1> SUFFICES ASSUME Next
             PROVE  /\ crCache'.uid = 1 /\ crCache'.phase = None
                    /\ \A it \in queue' : it.uid = 1
                    /\ \A i \in Workers : KeptWorker(i)'
                    /\ CachedHasFirst(1)'
  BY <1>1
<1>2. Live
  BY LiveBefore
<1>3. /\ crCache.uid = 1 /\ crCache.phase = None
      /\ \A it \in queue : it.uid = 1
      /\ \A i \in Workers : KeptWorker(i)
      /\ CachedHasFirst(1)
  BY <1>2 DEF KeptInv
<1>4. KeepsFirst(1)
  BY <1>2, KeptNext
<1>5. crCache \in CanaryReleases /\ cr \in CanaryReleases /\ cr.uid = 1 /\ cr.phase = None
  BY <1>2 DEF TypeOK, Live
<1>6. Enqueue(cr) \subseteq {it \in Items : it.uid = 1}
      /\ Enqueue(crCache) \subseteq {it \in Items : it.uid = 1}
  BY <1>3, <1>5, EnqueueType
<1>7. UNCHANGED w => \A i \in Workers : KeptWorker(i)'
  <2> SUFFICES ASSUME UNCHANGED w, NEW i \in Workers PROVE KeptWorker(i)'
    OBVIOUS
  <2>1. UnexpectedIsNotFirst(i, 1) => UnexpectedIsNotFirst(i, 1)'
    BY <1>4, KeepsUnexpected
  <2> QED
    BY <1>3, <2>1 DEF KeptWorker
<1>8. UNCHANGED deployCache => CachedHasFirst(1)'
  BY <1>3, <1>4, KeepsCached
<1>9. UNCHANGED deploy /\ deployCache' = deploy => CachedHasFirst(1)'
  BY DEF CachedHasFirst, HasFirst
<1>10. ASSUME NEW i \in Workers, NEW it \in queue, syncCanaryRelease(i, it)
       PROVE  \A j \in Workers : KeptWorker(j)'
  <2>1. KeptWorker(i)'
    BY <1>2, <1>10, StartKept
  <2>2. ASSUME NEW j \in Workers \ {i} PROVE KeptWorker(j)'
    <3>1. w'[j] = w[j]
      BY <1>10, StartOthers
    <3>2. UnexpectedIsNotFirst(j, 1) => UnexpectedIsNotFirst(j, 1)'
      BY <1>4, <3>1, KeepsUnexpected
    <3> QED
      BY <1>3, <3>1, <3>2 DEF KeptWorker
  <2> QED
    BY <2>1, <2>2
<1>11. ASSUME NEW i \in Workers, Continues(i)
       PROVE  (\A j \in Workers : KeptWorker(j)') /\ \A it \in queue' : it.uid = 1
  <2>1. Moves(i) /\ w[i].item.uid = 1
    BY <1>3, <1>11, ContinuesMoves DEF KeptWorker
  <2>2. KeptWorker(i)'
    BY <1>3, <1>4, <1>11, ContinueKept
  <2>3. ASSUME NEW j \in Workers \ {i} PROVE KeptWorker(j)'
    <3>1. w'[j] = w[j]
      BY <2>1 DEF Moves
    <3>2. UnexpectedIsNotFirst(j, 1) => UnexpectedIsNotFirst(j, 1)'
      BY <1>4, <3>1, KeepsUnexpected
    <3> QED
      BY <1>3, <3>1, <3>2 DEF KeptWorker
  <2>4. \A it \in queue' : it.uid = 1
    BY <1>3, <2>1 DEF Moves
  <2> QED
    BY <2>2, <2>3, <2>4
<1>12. CASE \E i \in Workers : Worker(i)
  <2>1. PICK i \in Workers : Worker(i)
    BY <1>12
  <2>2. UNCHANGED caches
    BY <2>1 DEF Worker, syncCanaryRelease, deprecate, delete, cleanup, deleteUnexpected,
                cleanupDone, creating, create, syncStatus, update
  <2>3. CASE Continues(i)
    BY <1>3, <1>8, <1>11, <2>2, <2>3 DEF caches
  <2>4. CASE \E it \in queue : syncCanaryRelease(i, it)
    <3>1. queue' \subseteq queue
      BY <2>4 DEF syncCanaryRelease
    <3> QED
      BY <1>3, <1>8, <1>10, <2>2, <2>4, <3>1 DEF caches
  <2> QED
    BY <2>1, <2>3, <2>4 DEF Worker, Continues
<1>13. CASE Informers
  <2>1. CASE RefreshCR
    <3>1. crCache' = cr /\ UNCHANGED <<w, deployCache>>
      BY <1>3, <1>5, <2>1 DEF RefreshCR
    <3>2. queue' \subseteq queue \cup Enqueue(cr) \cup Enqueue(crCache)
      BY <2>1 DEF RefreshCR, updateCanaryRelease
    <3> QED
      BY <1>3, <1>5, <1>6, <1>7, <1>8, <3>1, <3>2
  <2>2. CASE RefreshRelease \/ RefreshPods
    <3>1. UNCHANGED <<crCache, deployCache, w>>
      BY <2>2 DEF RefreshRelease, RefreshPods
    <3>2. queue' \subseteq queue \cup Enqueue(crCache)
      BY <2>2 DEF RefreshRelease, RefreshPods, deleteRelease
    <3> QED
      BY <1>3, <1>6, <1>7, <1>8, <3>1, <3>2
  <2>3. CASE RefreshDeployments
    <3>1. UNCHANGED <<crCache, deploy, queue, w>> /\ deployCache' = deploy
      BY <2>3 DEF RefreshDeployments, api
    <3> QED
      BY <1>3, <1>7, <1>9, <3>1
  <2> QED
    BY <1>13, <2>1, <2>2, <2>3 DEF Informers
<1>14. CASE Restart
  <2>1. crCache' = cr /\ queue' = Enqueue(cr) /\ UNCHANGED deploy /\ deployCache' = deploy
    BY <1>14 DEF Restart
  <2>2. \A i \in Workers : w'[i] = Idle
    BY <1>14 DEF Restart
  <2>3. \A i \in Workers : KeptWorker(i)'
    BY <2>2, IdleType DEF KeptWorker, Idle
  <2> QED
    BY <1>5, <1>6, <1>9, <2>1, <2>3
<1>15. CASE User \/ Cluster
  <2>1. UNCHANGED <<caches, queue, w>>
    BY <1>15 DEF User, UserDeprecates, UserDeletes, UserRecreates, UserChangesRelease, RestartPod,
           UserUnchanged, Cluster, ProxyFinishes, PodController, GarbageCollector
  <2> QED
    BY <1>3, <1>7, <1>8, <2>1 DEF caches
<1> QED
  BY <1>12, <1>13, <1>14, <1>15 DEF Next

\* A CanaryRelease that has not ended keeps its proxy: no interleaving of the
\* workers, no stale list and no failing or repeated deletion of unexpected
\* Deployments removes its last one (canary.go:210-215, 286-300).
THEOREM ProxyStaysKept == Spec => ProxyIsKept
<1>1. TypeOK /\ KeptInv /\ [Next]_vars
      => [Live /\ HasProxy(1) /\ cr' = cr => HasProxy(1)']_vars
  <2> SUFFICES ASSUME TypeOK, KeptInv, Next, Live, HasProxy(1)
               PROVE  HasProxy(1)'
    OBVIOUS
  <2> QED
    BY KeptNext, KeepsProxy
<1> QED
  BY <1>1, TypeInit, TypeInductive, ControllerSteps, KeptInit, KeptInductive, PTL
     DEF Spec, ProxyIsKept

(***************************************************************************)
(* The pod of the first CanaryRelease runs on until it ends.               *)
(*                                                                         *)
(* A Deployment created over another one of the CanaryRelease would doom   *)
(* its pod.  It has the generated name, which is free then, so the other   *)
(* one has another name: only the generated one is ever created, so that   *)
(* every other Deployment has been in the cache from the start, and a      *)
(* worker that creates has seen that there is none.                        *)
(***************************************************************************)

\* A finite set of naturals has a least element: of the sets of elements
\* below one, a smallest.
LEMMA Least ==
    ASSUME NEW S \in SUBSET Nat, IsFiniteSet(S), S # {}
    PROVE  \E n \in S : \A m \in S : n <= m
<1> DEFINE Below(n) == {m \in S : m < n}
           Cuts == {Below(n) : n \in S}
<1>0. \A n \in S : Below(n) \subseteq S
  OBVIOUS
<1>1. Cuts \subseteq FiniteSubsetsOf(S) /\ Cuts # {}
  <2> HIDE DEF Below
  <2>1. \A T \in SUBSET S : IsFiniteSet(T)
    BY FS_Subset
  <2>2. \A n \in S : Below(n) \in FiniteSubsetsOf(S)
    BY <1>0, <2>1 DEF FiniteSubsetsOf
  <2>3. \E n : n \in S
    OBVIOUS
  <2> HIDE NamesAssumption, BoundsAssumption
  <2> QED BY <2>2, <2>3
<1>2. IsWellFoundedOn(StrictSubsetOrdering(S), FiniteSubsetsOf(S))
  BY FS_StrictSubsetOrderingWellFounded
<1>3. PICK C \in Cuts : \A D \in Cuts : <<D, C>> \notin StrictSubsetOrdering(S)
  <2> HIDE DEF Cuts
  <2> QED BY <1>1, <1>2, WFMin
<1>4. PICK n \in S : C = Below(n)
  OBVIOUS
<1>5. ASSUME NEW m \in S, m < n PROVE FALSE
  <2>1. m \in Nat /\ n \in Nat
    OBVIOUS
  <2>2. \A k \in S : k \in Nat
    OBVIOUS
  <2>3. \A k \in S : k < m => k < n
    BY <1>5, <2>1, <2>2
  <2>4. Below(m) \subseteq Below(n)
    BY <2>3
  <2>5. m \in Below(n) /\ m \notin Below(m)
    BY <1>5, <2>1
  <2>6. <<Below(m), Below(n)>> \in StrictSubsetOrdering(S)
    <3> HIDE DEF Below
    <3> QED BY <1>0, <2>4, <2>5 DEF StrictSubsetOrdering
  <2> QED BY <1>3, <1>4, <2>6
<1>6. \A m \in S : m \in Nat /\ n \in Nat
  OBVIOUS
<1> QED BY <1>5, <1>6

OwnOnly == \A n \in Prefixed \ {Own} : deploy[n] # 1

\* A worker that has found no Deployment to keep.
Creates(i) == w[i].pc = "create" \/ (w[i].pc = "sync" /\ w[i].active = 0)

OthersCached == \A n \in Prefixed \ {Own} : deploy[n] = 1 => deployCache[n] = 1

PodInv == Live => OthersCached /\ \A i \in Workers : Creates(i) => OwnOnly

LEMMA OthersOnlyGo ==
    ASSUME TypeOK, Next, NEW n \in Names \ {Own}
    PROVE  deploy'[n] \in {deploy[n], 0}
<1>0. deploy \in [Names -> 0..MaxUid] /\ Own \in Names
  BY DEF TypeOK
<1>1. ASSUME NEW i \in Workers, create(i)
      PROVE  deploy'[n] = deploy[n]
  BY <1>0, <1>1 DEF create
<1>2. ASSUME NEW m \in Names,
             GarbageCollector(m) \/ \E i \in Workers : cleanup(i, m) \/ deleteUnexpected(i, m)
      PROVE  deploy'[n] \in {deploy[n], 0}
  BY <1>0, <1>2 DEF GarbageCollector, cleanup, deleteUnexpected
<1>3. ASSUME NEW i \in Workers,
             \/ \E it \in queue : syncCanaryRelease(i, it)
             \/ deprecate(i) \/ delete(i) \/ cleanupDone(i) \/ creating(i)
             \/ syncStatus(i) \/ update(i)
      PROVE  UNCHANGED deploy
  BY <1>3 DEF syncCanaryRelease, deprecate, delete, cleanupDone, creating, syncStatus,
              update, api
<1>4. Informers \/ Restart \/ User => UNCHANGED deploy
  BY DEF Informers, RefreshCR, RefreshRelease, RefreshDeployments, RefreshPods, Restart, User,
         UserDeprecates, UserDeletes, UserRecreates, UserChangesRelease, RestartPod,
         UserUnchanged, api
<1>5. ProxyFinishes \/ (\E u \in Uids : PodController(u)) => UNCHANGED deploy
  BY DEF ProxyFinishes, PodController
<1> QED
  BY <1>1, <1>2, <1>3, <1>4, <1>5 DEF Next, Worker, Cluster

\* The cached Deployments are those there were, or become those there are.
LEMMA CacheSteps ==
    ASSUME Next
    PROVE  UNCHANGED deployCache \/ (deployCache' = deploy /\ UNCHANGED deploy)
<1>1. ASSUME NEW i \in Workers, Worker(i)
      PROVE  UNCHANGED deployCache
  BY <1>1 DEF Worker, syncCanaryRelease, deprecate, delete, cleanup, deleteUnexpected,
              cleanupDone, creating, create, syncStatus, update, caches
<1>2. Informers \/ Restart => UNCHANGED deployCache \/ (deployCache' = deploy /\ UNCHANGED deploy)
  BY DEF Informers, RefreshCR, RefreshRelease, RefreshDeployments, RefreshPods, Restart, api
<1>3. User \/ Cluster => UNCHANGED deployCache
  BY DEF User, UserDeprecates, UserDeletes, UserRecreates, UserChangesRelease, RestartPod,
         UserUnchanged, Cluster, ProxyFinishes, PodController, GarbageCollector, caches
<1> QED
  BY <1>1, <1>2, <1>3 DEF Next

\* A worker creates a Deployment only when its list had none to keep.
LEMMA CreatesSteps ==
    ASSUME TypeOK, NEW i \in Workers, Continues(i), Creates(i)'
    PROVE  Creates(i)
<1>1. w \in [Workers -> WorkerStates] /\ Idle.pc = "idle" /\ Own # 0
  BY IdleType DEF TypeOK
<1>2. ASSUME Return(i, TRUE) \/ Return(i, FALSE) PROVE FALSE
  BY <1>1, <1>2 DEF Return, Creates
<1>3. ASSUME NEW n \in Names, cleanup(i, n) \/ deleteUnexpected(i, n)
      PROVE  Creates(i)
  <2>1. w' = [w EXCEPT ![i].todo = @ \ {n}]
    BY <1>2, <1>3 DEF cleanup, deleteUnexpected, Fail
  <2>2. w'[i].pc = w[i].pc /\ w'[i].active = w[i].active
    BY <1>1, <2>1 DEF WorkerStates
  <2> QED
    BY <2>2 DEF Creates
<1>4. CASE creating(i)
  BY <1>4 DEF creating, At, Creates
<1>5. CASE create(i)
  BY <1>5 DEF create, At, Creates
<1>6. ASSUME syncStatus(i) PROVE FALSE
  <2> DEFINE status == [active |-> w[i].active,
                        ready |-> {u \in Uids : podCache[u] = "ready"}]
  <2>1. w' = [w EXCEPT ![i].pc = "update", ![i].status = status]
    BY <1>2, <1>6 DEF syncStatus, Succeed
  <2> HIDE DEF status
  <2> QED
    BY <1>1, <2>1 DEF Creates, WorkerStates
<1>7. ASSUME update(i) PROVE FALSE
  <2>1. w' = [w EXCEPT ![i].tries = @ + 1] /\ w[i].pc = "update"
    BY <1>2, <1>7 DEF update, Succeed, Fail, At
  <2> QED
    BY <1>1, <2>1 DEF Creates, WorkerStates
<1>8. ASSUME deprecate(i) \/ delete(i) \/ cleanupDone(i) PROVE FALSE
  BY <1>2, <1>8 DEF deprecate, delete, cleanupDone, Succeed, Fail
<1> QED
  BY <1>3, <1>4, <1>5, <1>6, <1>7, <1>8 DEF Continues

\* A list without a Deployment to keep has no prefixed one.
LEMMA FirstIsThere ==
    ASSUME NEW list \in SUBSET Names, list \cap Prefixed # {}
    PROVE  First(list) # {}
<1>1. IsFiniteSet(list \cap Prefixed)
  BY FS_Subset
<1>2. PICK n \in list \cap Prefixed : \A m \in list \cap Prefixed : n <= m
  BY <1>1, Least
<1> QED
  BY <1>2 DEF First

LEMMA StartCreates ==
    ASSUME TypeOK, NEW i \in Workers, NEW it \in queue, syncCanaryRelease(i, it), Creates(i)'
    PROVE  \A n \in Prefixed : deployCache[n] # crCache.uid
<1>1. /\ w \in [Workers -> WorkerStates] /\ releaseCache \in {"ok", "moved", "gone"}
      /\ Idle.pc = "idle" /\ w[i].pc = "idle"
  BY IdleType DEF TypeOK, syncCanaryRelease, At
<1>2. \/ StartCleanup(i, it, it.uid) \/ StartCleanup(i, it, crCache.uid)
      \/ UNCHANGED w \/ StartSync(i, it, crCache)
      \/ Start(i, "delete", it, crCache) \/ Start(i, "deprecate", it, crCache)
  BY <1>1 DEF syncCanaryRelease
<1>3. StartSync(i, it, crCache)
  <2>1. ASSUME NEW u, StartCleanup(i, it, u) PROVE w'[i].pc = "cleanup"
    BY <1>1, <2>1, IdleType DEF StartCleanup, WorkerStates
  <2>2. ASSUME NEW label, Start(i, label, it, crCache) PROVE w'[i].pc = label
    BY <1>1, <2>2, IdleType DEF Start, WorkerStates
  <2> QED
    BY <1>1, <1>2, <2>1, <2>2 DEF Creates
<1> DEFINE list == getDeploymentsForCanaryRelease(crCache.uid)
<1>4. PICK active \in IF First(list) = {} THEN {0} ELSE First(list) :
          w' = [w EXCEPT ![i] = [Idle EXCEPT !.pc = "sync", !.item = it, !.cr = crCache,
                                  !.todo = unexpected(list), !.active = active]]
  BY <1>3 DEF StartSync
<1>5. w'[i].pc = "sync" /\ w'[i].active = active
  BY <1>1, <1>4, IdleType DEF WorkerStates
<1>6. First(list) = {}
  BY <1>4, <1>5 DEF Creates, First
<1>7. list \in SUBSET Names
  BY DEF getDeploymentsForCanaryRelease
<1>8. list \cap Prefixed = {}
  <2> HIDE DEF list
  <2> QED BY <1>6, <1>7, FirstIsThere
<1> QED
  BY <1>8 DEF getDeploymentsForCanaryRelease

LEMMA PodInit == Init => PodInv
  BY IdleType DEF Init, PodInv, OthersCached, Creates

LEMMA PodInductive == TypeOK /\ KeptInv /\ PodInv /\ [Next]_controller => PodInv'
<1>1. CASE UNCHANGED controller
  BY <1>1 DEF controller, api, caches, theCR, PodInv, Live, OthersCached, Creates, OwnOnly
<1> SUFFICES ASSUME TypeOK, KeptInv, PodInv, Next, Live'
             PROVE  OthersCached' /\ \A i \in Workers : Creates(i)' => OwnOnly'
  BY <1>1 DEF PodInv
<1>2. Live
  BY LiveBefore
<1>3. \A n \in Prefixed \ {Own} : deploy'[n] = 1 => deploy[n] = 1
  BY OthersOnlyGo
<1>4. OthersCached'
  <2>1. OthersCached
    BY <1>2 DEF PodInv
  <2> QED
    BY <1>3, <2>1, CacheSteps DEF OthersCached
<1>5. OwnOnly => OwnOnly'
  BY <1>3 DEF OwnOnly
<1>6. ASSUME NEW i \in Workers, w'[i] = w[i], Creates(i)' PROVE OwnOnly'
  BY <1>2, <1>5, <1>6 DEF PodInv, Creates
<1>7. ASSUME NEW i \in Workers, Worker(i), NEW j \in Workers, Creates(j)'
      PROVE  OwnOnly'
  <2>1. CASE Continues(i)
    <3>1. Moves(i)
      BY <2>1, ContinuesMoves
    <3>2. CASE j = i
      BY <1>2, <1>5, <1>7, <2>1, <3>2, CreatesSteps DEF PodInv
    <3> QED
      BY <1>6, <1>7, <3>1, <3>2 DEF Moves
  <2>2. ASSUME NEW it \in queue, syncCanaryRelease(i, it)
        PROVE  OwnOnly'
    <3>1. CASE j = i
      <4>1. \A n \in Prefixed : deployCache[n] # 1
        BY <1>2, <1>7, <2>2, <3>1, StartCreates DEF KeptInv
      <4>2. OwnOnly
        BY <1>2, <4>1 DEF PodInv, OthersCached, OwnOnly
      <4> QED
        BY <1>5, <4>2
    <3> QED
      BY <1>6, <1>7, <2>2, <3>1, StartOthers
  <2> QED
    BY <1>7, <2>1, <2>2 DEF Worker, Continues
<1>8. CASE Restart
  <2>1. \A i \in Workers : w'[i] = Idle
    BY <1>8 DEF Restart
  <2> QED
    BY <1>4, <2>1, IdleType DEF Creates
<1>9. CASE Informers \/ User \/ Cluster
  <2>1. UNCHANGED w
    BY <1>9 DEF Informers, RefreshCR, RefreshRelease, RefreshDeployments, RefreshPods, User,
           UserDeprecates, UserDeletes, UserRecreates, UserChangesRelease, RestartPod,
           UserUnchanged, Cluster, ProxyFinishes, PodController, GarbageCollector
  <2> QED
    BY <1>4, <1>6, <2>1
<1> QED
  BY <1>4, <1>7, <1>8, <1>9 DEF Next

\* A step does not stop the pod of a live CanaryRelease that has its proxy.
LEMMA PodStep ==
    ASSUME TypeOK, KeptInv, PodInv, Next, Live, HasProxy(1), pod[1] \in {"starting", "ready"}
    PROVE  pod'[1] \in {"starting", "ready"}
<1>0. pod \in Pods /\ 1 \in Uids
  BY DEF TypeOK, Uids
<1>1. ASSUME NEW i \in Workers, create(i)
      PROVE  pod'[1] \in {"starting", "ready"}
  <2>1. CASE UNCHANGED pod
    BY <2>1
  <2>2. CASE deploy[Own] = 0
    <3>1. OwnOnly
      BY <1>1 DEF PodInv, Creates, create, At
    <3> QED
      BY <2>2, <3>1 DEF OwnOnly, HasProxy
  <2> QED
    BY <1>1, <2>1, <2>2 DEF create, thePods
<1>2. ASSUME NEW i \in Workers, Worker(i), ~create(i)
      PROVE  UNCHANGED pod
  BY <1>2 DEF Worker, syncCanaryRelease, deprecate, delete, cleanup, deleteUnexpected,
              cleanupDone, creating, syncStatus, update, api, thePods
<1>3. Informers \/ Restart => UNCHANGED pod
  BY DEF Informers, RefreshCR, RefreshRelease, RefreshDeployments, RefreshPods, Restart, api,
         thePods
<1>4. CASE User
  BY <1>0, <1>4 DEF User, UserDeprecates, UserDeletes, UserRecreates, UserChangesRelease,
     RestartPod, thePods, Pods
<1>5. ASSUME NEW u \in Uids, PodController(u)
      PROVE  pod'[1] \in {"starting", "ready"}
  <2>1. \E n \in Names : deploy[n] = 1
    BY DEF HasProxy
  <2> QED
    BY <1>0, <1>5, <2>1 DEF PodController, Pods
<1>6. CASE ProxyFinishes \/ \E n \in Names : GarbageCollector(n)
  BY <1>6 DEF ProxyFinishes, GarbageCollector, thePods
<1> QED
  BY <1>1, <1>2, <1>3, <1>4, <1>5, <1>6 DEF Next, Cluster

LEMMA PodInvariant == Spec => [](TypeOK /\ KeptInv /\ PodInv)
  BY TypeInit, TypeInductive, ControllerSteps, KeptInit, KeptInductive, PodInit, PodInductive, PTL DEF Spec

\* Before the end no worker stops the proxy of the first CanaryRelease or
\* puts another one in its place (canary.go:210-215, 302-309).
THEOREM ProxyStaysUp == Spec => ProxyRunsOn
<1>1. TypeOK /\ KeptInv /\ PodInv /\ [Next]_vars
      => [Live /\ HasProxy(1) /\ pod[1] \in {"starting", "ready"} /\ cr' = cr
            => pod'[1] \in {"starting", "ready"}]_vars
  BY PodStep
<1> QED
  BY <1>1, PodInvariant, PTL DEF Spec, ProxyRunsOn

=============================================================================
