------------------------- MODULE CanaryProxyProofs -------------------------
(***************************************************************************)
(* What CanaryProxy guarantees for every set of services and configs and   *)
(* every bound: type correctness, and from an inductive invariant that the *)
(* backends of a service taken over stay alive.                            *)
(***************************************************************************)
EXTENDS CanaryProxy, TLAPS

\* Every variable keeps its type, and the config the worker syncs is a real
\* one: the type invariant with the part about configs it needs.
TypeInv == TypeOK /\ ConfigsKnown

LEMMA IdleType == Idle \in Workers /\ NoCR \in CanaryReleases /\ NoRelease \in Releases
                  /\ NoSvcs \in [Services -> SvcObjs]
BY BoundsAssumption DEF Idle, Workers, NoCR, NoRelease, NoSvcs, CanaryReleases, Releases,
   SvcObjs, Items, Pcs, SyncPcs, CleanupPcs, Transitions, Results, Absent, None

LEMMA InitType == Init => TypeInv
<1> SUFFICES ASSUME Init PROVE TypeInv
  OBVIOUS
<1>1. cr \in CanaryReleases /\ cr.cfg \in Cfgs
  <2>1. PICK c \in Cfgs : cr = [NoCR EXCEPT !.uid = 1, !.cfg = c, !.ver = 1]
    BY DEF Init
  <2>2. cr = [uid |-> 1, cfg |-> c, tr |-> None, ver |-> 1, phase |-> None,
              manifest |-> FALSE]
    BY <2>1 DEF NoCR
  <2> QED BY <2>2, BoundsAssumption DEF CanaryReleases, Transitions
<1>2. rel \in Releases
  BY DEF Init, Releases
<1>3. svc \in [Services -> SvcObjs]
  BY DEF Init, SvcObjs
<1>4. forked \in [Services -> 0..MaxUid] /\ canary \in [Services -> BOOLEAN]
      /\ forkedCache \in [Services -> 0..MaxUid] /\ canaryCache \in [Services -> BOOLEAN]
  BY BoundsAssumption DEF Init, NoForked, NoCanary
<1>5. /\ w = Idle /\ queue = {} /\ crCache = NoCR /\ relCache = NoRelease
      /\ svcCache = NoSvcs /\ workload = Absent /\ proc = "down"
      /\ runningConfig = NoCfg /\ nginxConfig = NoCfg /\ exiting = FALSE
      /\ abandoned = {} /\ lastUid = 1
      /\ faults = MaxFaults
  BY DEF Init
<1>6. TypeOK
  <2>1. /\ w \in Workers /\ crCache \in CanaryReleases /\ relCache \in Releases
        /\ svcCache \in [Services -> SvcObjs]
    BY <1>5, IdleType
  <2>2. /\ workload \in Workloads /\ proc \in {"down", "up", "term", "stopping"}
        /\ queue \subseteq Items /\ exiting \in BOOLEAN
        /\ runningConfig \in Cfgs \cup {NoCfg} /\ nginxConfig \in Cfgs \cup {NoCfg}
        /\ abandoned \subseteq Services
    BY <1>5 DEF Workloads
  <2>3. /\ lastUid \in 1..MaxUid /\ ops \in Budgets /\ faults \in 0..MaxFaults
        /\ crashes \in Nat
    BY <1>5, BoundsAssumption, PlansAssumption DEF Init
  <2> QED BY <1>1, <1>2, <1>3, <1>4, <2>1, <2>2, <2>3 DEF TypeOK
<1>7. ConfigsKnown
  BY <1>1, <1>5 DEF ConfigsKnown, Idle, SyncPcs, NoCR
<1> QED BY <1>6, <1>7 DEF TypeInv


\* The ways the worker moves on keep its type.
LEMMA GotoType ==
    ASSUME w \in Workers, NEW p \in Pcs, Goto(p)
    PROVE  w' \in Workers
BY DEF Goto, Workers

LEMMA LoopType ==
    ASSUME w \in Workers, NEW p \in Pcs, NEW set \in SUBSET Services, Loop(p, set)
    PROVE  w' \in Workers
BY DEF Loop, Workers

LEMMA NextType ==
    ASSUME w \in Workers, NEW s \in Services, Next1(s)
    PROVE  w' \in Workers
BY DEF Next1, Workers

LEMMA ReportType ==
    ASSUME w \in Workers, NEW r \in Results, Report(r)
    PROVE  w' \in Workers
BY IdleType DEF Report, Workers, Pcs

LEMMA ReturnType ==
    ASSUME w \in Workers, queue \subseteq Items, NEW err \in BOOLEAN, Return(err)
    PROVE  w' \in Workers /\ queue' \subseteq Items
<1>1. w' \in Workers
  BY IdleType DEF Return
<1>2. w.item \in Items
  BY DEF Workers
<1>3. w.item.n < MaxRetries => [w.item EXCEPT !.n = @ + 1] \in Items
  BY <1>2, BoundsAssumption DEF Items
<1> QED BY <1>1, <1>3 DEF Return

\* Handlers enqueue CanaryReleases.
LEMMA NewItemType ==
    ASSUME NEW c \in CanaryReleases
    PROVE  NewItem(c) \in Items
BY BoundsAssumption DEF NewItem, Items

LEMMA FaultType ==
    ASSUME faults \in 0..MaxFaults, Fault \/ NoFault
    PROVE  faults' \in 0..MaxFaults
BY BoundsAssumption DEF Fault, NoFault

LEMMA TakeOverType ==
    ASSUME NEW o \in SvcObjs, NEW t \in Layouts, NEW u \in 1..MaxUid, NEW n \in Nat
    PROVE  /\ [o EXCEPT !.target = t, !.owners = @ \cup {u}] \in SvcObjs
           /\ [[o EXCEPT !.target = t, !.owners = @ \cup {u}] EXCEPT !.rv = n] \in SvcObjs
<1>1. o.owners \cup {u} \in SUBSET (1..MaxUid)
  BY DEF SvcObjs
<1> DEFINE os == o.owners \cup {u}
<1> HIDE DEF os
<1>2. os \in SUBSET (1..MaxUid)
  BY <1>1 DEF os
<1>3. [o EXCEPT !.target = t, !.owners = os] \in SvcObjs
  BY <1>2 DEF SvcObjs
<1>4. [[o EXCEPT !.target = t, !.owners = os] EXCEPT !.rv = n] \in SvcObjs
  BY <1>3 DEF SvcObjs
<1> QED BY <1>3, <1>4 DEF os

\* Writes of a Release and of an original service.
LEMMA ReleaseType ==
    ASSUME NEW r \in Releases, NEW n \in Nat, NEW m \in Nat
    PROVE  /\ [r EXCEPT !.rev = n] \in Releases
           /\ [r EXCEPT !.rev = n, !.dirty = TRUE, !.rv = m] \in Releases
           /\ [r EXCEPT !.ver = n, !.dirty = FALSE, !.rv = m] \in Releases
           /\ [r EXCEPT !.exists = FALSE, !.rv = m] \in Releases
           /\ [r EXCEPT !.dirty = TRUE, !.rv = m] \in Releases
           /\ r.rev + 1 \in Nat /\ r.ver + 1 \in Nat /\ r.rv + 1 \in Nat
<1>1. r.rev \in Nat /\ r.ver \in Nat /\ r.rv \in Nat
  BY DEF Releases
<1>2. r.rev + 1 \in Nat /\ r.ver + 1 \in Nat /\ r.rv + 1 \in Nat
  BY <1>1
<1> QED BY <1>2 DEF Releases

LEMMA ResetType ==
    ASSUME NEW o \in SvcObjs
    PROVE  [o EXCEPT !.owners = {}, !.rv = @ + 1] \in SvcObjs
<1>1. o.rv \in Nat
  BY DEF SvcObjs
<1>2. o.rv + 1 \in Nat
  BY <1>1
<1> DEFINE n == o.rv + 1
<1> HIDE DEF n
<1>3. ASSUME n \in Nat PROVE [o EXCEPT !.owners = {}, !.rv = n] \in SvcObjs
  BY <1>3 DEF SvcObjs
<1> QED BY <1>2, <1>3 DEF n

LEMMA InformersType == TypeInv /\ Informers => TypeInv'
<1> SUFFICES ASSUME TypeInv, Informers PROVE TypeInv'
  OBVIOUS
<1> USE DEF TypeInv, TypeOK
<1>1. CASE RefreshCR
  <2>1. queue' \subseteq Items
    BY <1>1, NewItemType DEF RefreshCR, addCanaryRelease, updateCanaryRelease, deleteCanaryRelease
  <2> QED BY <1>1, <2>1 DEF RefreshCR, ConfigsKnown, api, env
<1>2. CASE RefreshRelease
  <2>1. queue' \subseteq Items
    BY <1>2, NewItemType DEF RefreshRelease, updateRelease, deleteRelease
  <2> QED BY <1>2, <2>1 DEF RefreshRelease, ConfigsKnown, api, env
<1>3. CASE RefreshServices
  BY <1>3 DEF RefreshServices, ConfigsKnown, api, env, memory
<1> QED BY <1>1, <1>2, <1>3 DEF Informers


LEMMA DispatchType ==
    ASSUME TypeInv, NEW it \in queue, syncCanaryRelease(it)
    PROVE  TypeInv'
<1> USE DEF TypeInv, TypeOK
<1>1. it \in Items /\ it.obj \in CanaryReleases
  BY DEF Items
<1>2. w' \in Workers
  <2>1. \A p \in Pcs, c \in CanaryReleases :
           [w EXCEPT !.pc = p, !.item = it, !.cr = c] \in Workers
    BY <1>1 DEF Workers
  <2>2. {"cleanup", "deprecate", "render"} \subseteq Pcs
    BY DEF Pcs, SyncPcs, CleanupPcs
  <2>3. \/ w' = w
        \/ \E p \in {"cleanup", "deprecate", "render"}, c \in CanaryReleases :
              w' = [w EXCEPT !.pc = p, !.item = it, !.cr = c]
    BY <1>1 DEF syncCanaryRelease, Start, fresh, gone
  <2>4. ASSUME NEW p \in {"cleanup", "deprecate", "render"}, NEW c \in CanaryReleases,
               w' = [w EXCEPT !.pc = p, !.item = it, !.cr = c]
        PROVE  w' \in Workers
    BY <2>1, <2>2, <2>4
  <2>5. w \in Workers
    OBVIOUS
  <2> HIDE DEF TypeInv, TypeOK
  <2> QED BY <2>3, <2>4, <2>5
<1>3. w'.pc \in SyncPcs => w'.cr.uid # 0 /\ w'.cr.cfg \in Cfgs
  BY DEF syncCanaryRelease, Start, fresh, gone, At, Workers, SyncPcs, ConfigsKnown
<1>4. w'.pc # "takeOver"
  BY DEF syncCanaryRelease, Start, fresh, gone, At, Workers
<1> QED BY <1>2, <1>3, <1>4 DEF syncCanaryRelease, ConfigsKnown, api, caches, env

\* How two steps of a sync leave the worker.
LEMMA RenderFields ==
    ASSUME w \in Workers, renderService
    PROVE  w'.pc = "report" \/ (w'.pc = "updateObjects" /\ w'.cr = w.cr)
BY DEF renderService, Report, Idle, Workers

LEMMA PatchFields ==
    ASSUME w \in Workers, patchManifest
    PROVE  w'.pc = "report" \/ (w'.pc = "createForked" /\ w'.cr = w.cr)
<1>1. Report("Error") \/ Report("Available") \/ Loop("createForked", Services)
  BY DEF patchManifest
<1> QED BY <1>1 DEF Report, Loop, Idle, Workers

LEMMA SyncType == TypeInv /\ (Sync \/ deprecate \/ report) => TypeInv'
<1> SUFFICES ASSUME TypeInv, Sync \/ deprecate \/ report PROVE TypeInv'
  OBVIOUS
<1> USE DEF TypeInv, TypeOK, ConfigsKnown
<1>e. "Error" \in Results /\ "Available" \in Results
  BY DEF Results
<1>p. {"updateObjects", "patchManifest", "createForked", "takeOver"} \subseteq Pcs
  BY DEF Pcs, SyncPcs
<1>1. CASE deprecate
  <2>1. w' \in Workers /\ queue' \subseteq Items
    BY <1>1, ReportType, ReturnType DEF deprecate, Workers, CanaryReleases, Results
  <2>2. w'.pc \notin SyncPcs
    <3>1. (\E r \in Results : Report(r)) \/ (\E e \in BOOLEAN : Return(e))
      BY <1>1 DEF deprecate, Workers, CanaryReleases, Results
    <3>2. ASSUME NEW r \in Results, Report(r) PROVE w'.pc = "report"
      BY <3>2 DEF Report, Idle
    <3>3. ASSUME NEW e \in BOOLEAN, Return(e) PROVE w'.pc = "idle"
      BY <3>3 DEF Return, Idle
    <3> QED BY <3>1, <3>2, <3>3 DEF SyncPcs
  <2>3. cr' \in CanaryReleases /\ (cr'.uid # 0 => cr'.cfg \in Cfgs)
    BY <1>1 DEF deprecate, CanaryReleases, Transitions
  <2>4. faults' \in 0..MaxFaults
    BY <1>1, FaultType DEF deprecate, MayFail
  <2> QED BY <1>1, <2>1, <2>2, <2>3, <2>4 DEF deprecate, caches, env, SyncPcs
<1>2. CASE report
  <2>1. w' \in Workers /\ queue' \subseteq Items
    BY <1>2, ReturnType DEF report
  <2>2. w'.pc \notin SyncPcs
    BY <1>2 DEF report, Return, Idle, SyncPcs
  <2> QED BY <1>2, <2>1, <2>2 DEF report, api, caches, env, SyncPcs
<1>3. CASE renderService
  <2>1. w' \in Workers
    BY <1>3, <1>e, <1>p, ReportType DEF renderService, Workers
  <2>2. w'.pc # "takeOver" /\ (w'.pc \in SyncPcs => w'.cr = w.cr)
    BY <1>3, RenderFields DEF renderService, At, SyncPcs
  <2> QED BY <1>3, <2>1, <2>2 DEF renderService, api, caches, memory, env, At, SyncPcs
<1>4. CASE updateObjects
  <2>1. w' \in Workers
    BY <1>4, <1>e, <1>p, ReportType, GotoType DEF updateObjects
  <2>2. w'.pc # "takeOver" /\ (w'.pc \in SyncPcs => w'.cr = w.cr)
    BY <1>4 DEF updateObjects, Report, Goto, Idle, SyncPcs, Workers, At
  <2>3. canary' \in [Services -> BOOLEAN] /\ workload' \in Workloads
    BY <1>4 DEF updateObjects, Workloads
  <2>4. faults' \in 0..MaxFaults
    BY <1>4, FaultType DEF updateObjects
  <2> QED BY <1>4, <2>1, <2>2, <2>3, <2>4 DEF updateObjects, caches, memory, env, At, SyncPcs
<1>5. CASE patchManifest
  <2>1. w' \in Workers
    BY <1>5, <1>e, <1>p, ReportType, LoopType DEF patchManifest
  <2>2. w'.pc # "takeOver" /\ (w'.pc \in SyncPcs => w'.cr = w.cr)
    BY <1>5, <1>p, PatchFields DEF patchManifest, At, SyncPcs
  <2>3. cr' \in CanaryReleases /\ (cr'.uid # 0 => cr'.cfg \in Cfgs)
    BY <1>5 DEF patchManifest, CanaryReleases
  <2>4. faults' \in 0..MaxFaults
    BY <1>5, FaultType DEF patchManifest, MayFail
  <2> QED BY <1>5, <2>1, <2>2, <2>3, <2>4 DEF patchManifest, caches, memory, env, At, SyncPcs
<1>6. ASSUME NEW s \in Services, createForked(s) PROVE TypeInv'
  <2>1. w' \in Workers
    BY <1>6, <1>e, ReportType, NextType DEF createForked, createFailed
  <2>2. w'.pc # "takeOver" /\ (w'.pc \in SyncPcs => w'.cr = w.cr)
    BY <1>6 DEF createForked, createFailed, Report, Next1, Idle, SyncPcs, Workers, At
  <2>3. forked' \in [Services -> 0..MaxUid]
    BY <1>6 DEF createForked, createFailed, Workers, CanaryReleases
  <2>4. faults' \in 0..MaxFaults
    BY <1>6, FaultType DEF createForked, createFailed
  <2> QED BY <1>6, <2>1, <2>2, <2>3, <2>4 DEF createForked, createFailed, caches, memory, env, At, SyncPcs
<1>7. CASE OnUpdate
  <2>1. w' \in Workers
    BY <1>7, <1>e, <1>p, ReportType, LoopType DEF OnUpdate, allForked, reload
  <2>2. /\ w'.pc \in SyncPcs => w'.cr = w.cr
        /\ w'.pc = "takeOver" => nginxConfig' = w'.cr.cfg
    BY <1>7 DEF OnUpdate, allForked, reload, Report, Loop, Idle, SyncPcs, Workers, At
  <2>3. w.cr.cfg \in Cfgs
    BY <1>7 DEF OnUpdate, allForked, reload, At, SyncPcs
  <2>4. faults' \in 0..MaxFaults
    BY <1>7, FaultType DEF OnUpdate, allForked, reload
  <2>5. nginxConfig' \in Cfgs \cup {NoCfg}
    BY <1>7, <2>3 DEF OnUpdate, allForked, reload
  <2> QED BY <1>7, <2>1, <2>2, <2>3, <2>4, <2>5 DEF OnUpdate, allForked, reload, api, caches, env, At, SyncPcs
<1>8. ASSUME NEW s \in Services, takeOver(s) PROVE TypeInv'
  <2> DEFINE changed == [w.held[s] EXCEPT !.target = LayoutOf[w.cr.cfg],
                                          !.owners = @ \cup {w.cr.uid}]
  <2>1. w' \in Workers
    BY <1>8, <1>e, ReportType, NextType DEF takeOver
  <2>2. /\ w'.pc \in SyncPcs => w'.cr = w.cr
        /\ nginxConfig' = w.cr.cfg
    BY <1>8 DEF takeOver, Report, Next1, Idle, SyncPcs, Workers, At, memory
  <2>3. LayoutOf[w.cr.cfg] \in Layouts
    BY <1>8, LayoutAssumption DEF takeOver, At, SyncPcs
  <2>4. faults' \in 0..MaxFaults
    BY <1>8, FaultType DEF takeOver, MayFail
  <2>5. w.held[s] \in SvcObjs /\ svc[s] \in SvcObjs
    BY DEF Workers
  <2>6. changed \in SvcObjs /\ [changed EXCEPT !.rv = svc[s].rv + 1] \in SvcObjs
    <3>1. w.cr.uid \in 1..MaxUid
      BY <1>8 DEF takeOver, At, SyncPcs, Workers, CanaryReleases
    <3>2. svc[s].rv + 1 \in Nat
      BY <2>5 DEF SvcObjs
    <3> QED BY <3>1, <3>2, <2>3, <2>5, TakeOverType
  <2>7. svc' \in [Services -> SvcObjs] /\ svcCache' \in [Services -> SvcObjs]
    BY <1>8, <2>6 DEF takeOver
  <2> QED BY <1>8, <2>1, <2>2, <2>4, <2>7 DEF takeOver, memory, env, At, SyncPcs
<1>9. CASE setRunningConfig
  <2>1. w' \in Workers
    BY <1>9, <1>e, ReportType DEF setRunningConfig
  <2>2. w'.pc \notin SyncPcs
    BY <1>9 DEF setRunningConfig, Report, Idle, SyncPcs
  <2>3. runningConfig' \in Cfgs
    BY <1>9 DEF setRunningConfig, At, SyncPcs
  <2> QED BY <1>9, <2>1, <2>2, <2>3 DEF setRunningConfig, api, caches, env, SyncPcs
<1> QED BY <1>1, <1>2, <1>3, <1>4, <1>5, <1>6, <1>7, <1>8, <1>9 DEF Sync


LEMMA RecoveredLeavesSync ==
    ASSUME w \in Workers, recovered(TRUE) \/ recovered(FALSE)
    PROVE  w'.pc \in {"updateRelease", "deleteManifest", "report"}
<1>1. Goto("updateRelease") \/ Goto("deleteManifest") \/ Report("Error")
  BY DEF recovered, adoptionGoesOn
<1> QED BY <1>1 DEF Goto, Report, Idle, Workers

\* No step of _cleanup leads into a sync.
LEMMA CleanupLeavesSync ==
    ASSUME w \in Workers, Cleanup
    PROVE  w'.pc \notin SyncPcs
<1> USE DEF At, Workers, Goto, Loop, Next1, Report, Idle, SyncPcs
<1>1. CASE cleanup
  <2>1. \/ Report(w.cr.tr) \/ Goto("deprecate") \/ Goto("patchPhase")
        \/ w' = [w EXCEPT !.pc = "getSvcs", !.transition = Adopted, !.tries = 0,
                           !.release = relCache]
        \/ w' = [w EXCEPT !.pc = "getSvcs", !.transition = Deprecated, !.tries = 0]
    BY <1>1 DEF cleanup
  <2> QED BY <2>1
<1>2. CASE getSvcs BY <1>2 DEF getSvcs
<1>3. ASSUME NEW s \in Services, recoverSvcs(s) PROVE w'.pc \notin SyncPcs
  <2>1. \/ Next1(s) /\ w.pc = "recover"
        \/ w' = [w EXCEPT !.pc = "getSvcs", !.tries = @ + 1]
        \/ recovered(FALSE)
    BY <1>3 DEF recoverSvcs, failed
  <2>2. CASE recovered(FALSE)
    BY <2>2, RecoveredLeavesSync
  <2> QED BY <2>1, <2>2
<1>4. CASE recoverDone
  <2>1. recovered(TRUE) /\ w \in Workers
    BY <1>4 DEF recoverDone
  <2>2. w'.pc \in {"updateRelease", "deleteManifest", "report"}
    <3> HIDE DEF Workers
    <3> QED BY <2>1, RecoveredLeavesSync
  <2> QED BY <2>2
<1>5. CASE applyToRelease
  <2>1. Goto("patchOwners") \/ Report("Error")
    BY <1>5 DEF applyToRelease, releaseFailed
  <2> QED BY <2>1
<1>6. CASE patchOwners
  <2>1. Report("Error") \/ \E set \in SUBSET Services : Loop("resetOwner", set)
    BY <1>6 DEF patchOwners
  <2> QED BY <2>1
<1>7. CASE resetOwnerDone BY <1>7 DEF resetOwnerDone
<1>8. CASE deleteManifest BY <1>8 DEF deleteManifest
<1>9. CASE deleteForkedDone BY <1>9 DEF deleteForkedDone
<1>10. CASE deleteCanaryDone BY <1>10 DEF deleteCanaryDone
<1>11. CASE patchPhase BY <1>11 DEF patchPhase
<1>12. ASSUME NEW s \in Services, resetOwner(s) PROVE w'.pc \notin SyncPcs
  BY <1>12 DEF resetOwner
<1>13. ASSUME NEW s \in Services, deleteForked(s) PROVE w'.pc \notin SyncPcs
  BY <1>13 DEF deleteForked
<1>14. ASSUME NEW s \in Services, deleteCanary(s) PROVE w'.pc \notin SyncPcs
  BY <1>14 DEF deleteCanary
<1> QED BY <1>1, <1>2, <1>3, <1>4, <1>5, <1>6, <1>7, <1>8, <1>9, <1>10, <1>11,
           <1>12, <1>13, <1>14 DEF Cleanup

LEMMA RecoveredType ==
    ASSUME w \in Workers, abandoned \subseteq Services, NEW ok \in BOOLEAN, recovered(ok)
    PROVE  w' \in Workers /\ abandoned' \subseteq Services
<1>1. {"updateRelease", "deleteManifest"} \subseteq Pcs /\ "Error" \in Results
  BY DEF Pcs, CleanupPcs, Results
<1> QED BY <1>1, GotoType, ReportType DEF recovered, adoptionGoesOn

LEMMA CleanupType == TypeInv /\ Cleanup => TypeInv'
<1> SUFFICES ASSUME TypeInv, Cleanup PROVE TypeInv'
  OBVIOUS
<1> USE DEF TypeInv, TypeOK, ConfigsKnown
<1>e. "Error" \in Results /\ w.cr.tr \in Results
  BY DEF Results, Workers, CanaryReleases
<1>p. CleanupPcs \subseteq Pcs /\ "deprecate" \in Pcs
  BY DEF Pcs
<1>s. w'.pc \notin SyncPcs /\ w'.pc # "takeOver"
  BY CleanupLeavesSync DEF SyncPcs
<1>1. CASE cleanup
  <2>1. w' \in Workers
    <3>1. {"deprecate", "patchPhase", "getSvcs"} \subseteq Pcs /\ 0 \in 0..RecoverSteps
      BY <1>p, BoundsAssumption DEF CleanupPcs
    <3>2. \A r \in Releases : [w EXCEPT !.pc = "getSvcs", !.transition = Adopted,
                                        !.tries = 0, !.release = r] \in Workers
      BY <3>1 DEF Workers, Transitions
    <3>3. [w EXCEPT !.pc = "getSvcs", !.transition = Deprecated, !.tries = 0] \in Workers
      BY <3>1 DEF Workers, Transitions
    <3> QED BY <1>1, <1>e, <3>1, <3>2, <3>3, GotoType, ReportType DEF cleanup
  <2> QED BY <1>1, <1>s, <2>1 DEF cleanup, api, caches, memory, env
<1>2. CASE getSvcs
  <2>1. w' \in Workers
    BY <1>2, <1>p DEF getSvcs, Workers, CleanupPcs
  <2> QED BY <1>2, <1>s, <2>1 DEF getSvcs, api, caches, memory, env
<1>3. ASSUME NEW s \in Services, recoverSvcs(s) PROVE TypeInv'
  <2>1. w.held[s] \in SvcObjs /\ svc[s] \in SvcObjs
    BY DEF Workers
  <2>2. svc' \in [Services -> SvcObjs]
    <3>1. ASSUME NEW t \in {Canary, Origin}, NEW os \in SUBSET (1..MaxUid)
          PROVE  [target |-> t, owners |-> os, rv |-> svc[s].rv + 1] \in SvcObjs
      BY <2>1 DEF SvcObjs
    <3>2. w.held[s].owners \in SUBSET (1..MaxUid)
          /\ w.held[s].owners \ {w.cr.uid} \in SUBSET (1..MaxUid)
      BY <2>1 DEF SvcObjs
    <3>3. svc' = svc \/ \E o \in SvcObjs : svc' = [svc EXCEPT ![s] = o]
      BY <1>3, <3>1, <3>2 DEF recoverSvcs
    <3> QED BY <3>3
  <2>3. w.tries + 1 < RecoverSteps => [w EXCEPT !.pc = "getSvcs", !.tries = @ + 1] \in Workers
    <3>1. w.tries \in 0..RecoverSteps /\ "getSvcs" \in Pcs
      BY <1>p DEF Workers, CleanupPcs
    <3>2. w.tries + 1 < RecoverSteps => w.tries + 1 \in 0..RecoverSteps
      BY <3>1, BoundsAssumption
    <3> QED BY <3>1, <3>2 DEF Workers
  <2>4. w' \in Workers /\ abandoned' \subseteq Services
    BY <1>3, <2>3, RecoveredType, NextType DEF recoverSvcs, failed
  <2>5. faults' \in 0..MaxFaults
    BY <1>3, FaultType DEF recoverSvcs, MayFail
  <2> QED BY <1>3, <1>s, <2>2, <2>4, <2>5 DEF recoverSvcs, caches, memory, env
<1>4. CASE recoverDone
  <2>1. w' \in Workers /\ abandoned' \subseteq Services
    BY <1>4, RecoveredType DEF recoverDone
  <2> QED BY <1>4, <1>s, <2>1 DEF recoverDone, api, caches, memory, env
<1>5. CASE applyToRelease
  <2>1. w' \in Workers
    BY <1>5, <1>e, <1>p, GotoType, ReportType DEF applyToRelease, releaseFailed, CleanupPcs
  <2>2. w.release \in Releases
    BY DEF Workers
  <2>3. rel' \in Releases /\ relCache' \in Releases
    <3>1. w.release.rev + 1 \in Nat /\ rel.rv + 1 \in Nat
      BY <2>2, ReleaseType
    <3>2. [w.release EXCEPT !.rev = @ + 1] \in Releases
      BY <2>2, <3>1, ReleaseType
    <3>3. [[w.release EXCEPT !.rev = @ + 1] EXCEPT !.dirty = TRUE, !.rv = rel.rv + 1]
            \in Releases
      BY <3>1, <3>2, ReleaseType
    <3> QED BY <1>5, <3>2, <3>3 DEF applyToRelease, releaseFailed
  <2>4. faults' \in 0..MaxFaults
    BY <1>5, FaultType DEF applyToRelease, releaseFailed, MayFail
  <2> QED BY <1>5, <1>s, <2>1, <2>3, <2>4 DEF applyToRelease, releaseFailed, memory, env
<1>6. CASE patchOwners
  <2>1. w' \in Workers
    BY <1>6, <1>e, <1>p, LoopType, ReportType DEF patchOwners, CleanupPcs
  <2>2. workload' \in Workloads
    BY <1>6 DEF patchOwners, Workloads
  <2>3. faults' \in 0..MaxFaults
    BY <1>6, FaultType DEF patchOwners, MayFail
  <2> QED BY <1>6, <1>s, <2>1, <2>2, <2>3 DEF patchOwners, caches, memory, env
<1>7. ASSUME NEW s \in Services, resetOwner(s) PROVE TypeInv'
  <2>1. w' \in Workers
    BY <1>7, NextType DEF resetOwner
  <2>2. svc' \in [Services -> SvcObjs]
    <3>1. [svc[s] EXCEPT !.owners = {}, !.rv = @ + 1] \in SvcObjs
      BY ResetType
    <3>2. svc' = svc \/ \E o \in SvcObjs : svc' = [svc EXCEPT ![s] = o]
      BY <1>7, <3>1 DEF resetOwner
    <3> QED BY <3>2
  <2>3. faults' \in 0..MaxFaults
    BY <1>7, FaultType DEF resetOwner, MayFail
  <2> QED BY <1>7, <1>s, <2>1, <2>2, <2>3 DEF resetOwner, caches, memory, env
<1>8. CASE resetOwnerDone
  <2>1. w' \in Workers
    BY <1>8, <1>p, LoopType DEF resetOwnerDone, CleanupPcs, Workers
  <2> QED BY <1>8, <1>s, <2>1 DEF resetOwnerDone, api, caches, memory, env
<1>9. CASE deleteManifest
  <2>1. w' \in Workers
    BY <1>9, <1>p, LoopType DEF deleteManifest, CleanupPcs, Workers
  <2>2. canary' \in [Services -> BOOLEAN] /\ workload' \in Workloads
    BY <1>9 DEF deleteManifest, Workloads, NoCanary
  <2>3. faults' \in 0..MaxFaults
    BY <1>9, FaultType DEF deleteManifest
  <2> QED BY <1>9, <1>s, <2>1, <2>2, <2>3 DEF deleteManifest, caches, memory, env
<1>10. ASSUME NEW s \in Services, deleteForked(s) PROVE TypeInv'
  <2>1. w' \in Workers
    BY <1>10, NextType DEF deleteForked
  <2>2. forked' \in [Services -> 0..MaxUid]
    BY <1>10, BoundsAssumption DEF deleteForked
  <2>3. faults' \in 0..MaxFaults
    BY <1>10, FaultType DEF deleteForked
  <2> QED BY <1>10, <1>s, <2>1, <2>2, <2>3 DEF deleteForked, caches, memory, env
<1>11. CASE deleteForkedDone
  <2>1. w' \in Workers
    BY <1>11, <1>p, LoopType, GotoType DEF deleteForkedDone, CleanupPcs, Workers
  <2> QED BY <1>11, <1>s, <2>1 DEF deleteForkedDone, api, caches, memory, env
<1>12. ASSUME NEW s \in Services, deleteCanary(s) PROVE TypeInv'
  <2>1. w' \in Workers
    BY <1>12, NextType DEF deleteCanary
  <2>2. canary' \in [Services -> BOOLEAN]
    BY <1>12 DEF deleteCanary
  <2>3. faults' \in 0..MaxFaults
    BY <1>12, FaultType DEF deleteCanary
  <2> QED BY <1>12, <1>s, <2>1, <2>2, <2>3 DEF deleteCanary, caches, memory, env
<1>13. CASE deleteCanaryDone
  <2>1. w' \in Workers
    BY <1>13, <1>p, GotoType DEF deleteCanaryDone, CleanupPcs
  <2> QED BY <1>13, <1>s, <2>1 DEF deleteCanaryDone, api, caches, memory, env
<1>14. CASE patchPhase
  <2>1. w' \in Workers
    BY <1>14, <1>e, ReportType DEF patchPhase
  <2>2. cr' \in CanaryReleases /\ (cr'.uid # 0 => cr'.cfg \in Cfgs)
    BY <1>14 DEF patchPhase, CanaryReleases, Workers
  <2>3. faults' \in 0..MaxFaults
    BY <1>14, FaultType DEF patchPhase, MayFail
  <2> QED BY <1>14, <1>s, <2>1, <2>2, <2>3 DEF patchPhase, caches, memory, env
<1> QED BY <1>1, <1>2, <1>3, <1>4, <1>5, <1>6, <1>7, <1>8, <1>9, <1>10, <1>11,
           <1>12, <1>13, <1>14 DEF Cleanup

LEMMA OthersType ==
    TypeInv /\ (Process \/ User \/ ReleaseController \/ GarbageCollector) => TypeInv'
<1> SUFFICES ASSUME TypeInv, Process \/ User \/ ReleaseController \/ GarbageCollector
             PROVE  TypeInv'
  OBVIOUS
<1> USE DEF TypeInv, TypeOK, ConfigsKnown
<1>1. CASE Run
  <2>1. queue' \subseteq Items
    BY <1>1, NewItemType DEF Run, addCanaryRelease
  <2> QED BY <1>1, <2>1 DEF Run, api, env
<1>2. CASE handleSigterm
  BY <1>2, BoundsAssumption DEF handleSigterm, api, caches
<1>3. CASE waitForCleanup
  BY <1>3 DEF waitForCleanup, api, caches, env
<1>4. CASE Exit \/ Crash
  <2>1. Down /\ crashes' \in Nat
    BY <1>4, BoundsAssumption DEF Exit, Crash
  <2>2. NoForked \in [Services -> 0..MaxUid] /\ NoCanary \in [Services -> BOOLEAN]
    BY BoundsAssumption DEF NoForked, NoCanary
  <2>3. Idle.pc = "idle" /\ NoCR.uid = 0
    BY DEF Idle, NoCR
  <2> QED BY <2>1, <2>2, <2>3, IdleType DEF Down, api, SyncPcs
<1>5. CASE User
  <2>1. ASSUME NEW op, Operation(op) PROVE ops' \in Budgets
    BY <2>1 DEF Operation, Budgets
  <2>2. ASSUME NEW c \in Cfgs, UserEdits(c) PROVE TypeInv'
    <3>1. cr' \in CanaryReleases /\ (cr'.uid # 0 => cr'.cfg \in Cfgs)
      BY <2>2 DEF UserEdits, CanaryReleases
    <3> QED BY <2>1, <2>2, <3>1 DEF UserEdits, UserUnchanged, caches, memory
  <2>3. ASSUME NEW c \in Cfgs, UserRecreates(c) PROVE TypeInv'
    <3>1. lastUid' \in 1..MaxUid /\ lastUid' = lastUid + 1
      BY <2>3, BoundsAssumption DEF UserRecreates
    <3>2. cr' = [uid |-> lastUid', cfg |-> c, tr |-> None, ver |-> rel.ver,
                 phase |-> None, manifest |-> FALSE]
      BY <2>3, <3>1 DEF UserRecreates, NoCR
    <3>3. rel.ver \in Nat
      BY DEF Releases
    <3>4. cr' \in CanaryReleases /\ cr'.cfg \in Cfgs
      BY <3>1, <3>2, <3>3 DEF CanaryReleases, Transitions
    <3> QED BY <2>1, <2>3, <3>1, <3>4 DEF UserRecreates, UserUnchanged, caches, memory
  <2>4. ASSUME NEW t \in {Adopted, Deprecated}, UserEnds(t) PROVE TypeInv'
    <3>1. cr' \in CanaryReleases /\ (cr'.uid # 0 => cr'.cfg \in Cfgs)
      BY <2>4 DEF UserEnds, CanaryReleases, Transitions
    <3> QED BY <2>1, <2>4, <3>1 DEF UserEnds, UserUnchanged, caches, memory
  <2>5. CASE UserDeletes
    <3>1. cr' \in CanaryReleases /\ cr'.uid = 0
      BY <2>5, IdleType DEF UserDeletes, NoCR
    <3> QED BY <2>1, <2>5, <3>1 DEF UserDeletes, UserUnchanged, caches, memory
  <2>6. CASE UserUpdatesRelease
    <3>1. rel' \in Releases
      BY <2>6, ReleaseType DEF UserUpdatesRelease
    <3> QED BY <2>1, <2>6, <3>1 DEF UserUpdatesRelease, UserUnchanged, caches, memory
  <2>7. CASE UserDeletesRelease
    <3>1. rel' \in Releases
      BY <2>7, ReleaseType DEF UserDeletesRelease
    <3> QED BY <2>1, <2>7, <3>1 DEF UserDeletesRelease, UserUnchanged, caches, memory
  <2> QED BY <1>5, <2>2, <2>3, <2>4, <2>5, <2>6, <2>7 DEF User
<1>6. CASE ReleaseController
  <2>1. rel' \in Releases
    <3>1. [rel EXCEPT !.ver = @ + 1, !.dirty = FALSE, !.rv = @ + 1] \in Releases
      BY ReleaseType
    <3> QED BY <1>6, <3>1 DEF ReleaseController
  <2> QED BY <1>6, <2>1 DEF ReleaseController, caches, memory, env
<1>7. CASE GarbageCollector
  <2>1. /\ forked' \in [Services -> 0..MaxUid] /\ canary' \in [Services -> BOOLEAN]
        /\ svc' \in [Services -> SvcObjs] /\ workload' \in Workloads
    <3>1. \A s \in Services :
             [target |-> Absent, owners |-> {}, rv |-> svc[s].rv] \in SvcObjs
      BY DEF SvcObjs
    <3>2. svc' \in [Services -> SvcObjs]
      BY <1>7, <3>1 DEF GarbageCollector
    <3>3. forked' \in [Services -> 0..MaxUid]
      <4>1. 0 \in 0..MaxUid
        BY BoundsAssumption
      <4>2. forked' = forked \/ \E s \in Services : forked' = [forked EXCEPT ![s] = 0]
        BY <1>7 DEF GarbageCollector
      <4> QED BY <4>1, <4>2
    <3>4. canary' \in [Services -> BOOLEAN] /\ workload' \in Workloads
      BY <1>7 DEF GarbageCollector, NoCanary, Workloads
    <3> QED BY <3>2, <3>3, <3>4
  <2> QED BY <1>7, <2>1 DEF GarbageCollector, caches, memory, env
<1> QED BY <1>1, <1>2, <1>3, <1>4, <1>5, <1>6, <1>7 DEF Process

LEMMA TypeInductive == TypeInv /\ [Next]_vars => TypeInv'
<1> SUFFICES ASSUME TypeInv, [Next]_vars PROVE TypeInv'
  OBVIOUS
<1>1. CASE Next
  BY <1>1, InformersType, SyncType, CleanupType, OthersType, DispatchType DEF Next, Worker
<1>2. CASE UNCHANGED vars
  BY <1>2 DEF vars, api, caches, memory, env, TypeInv, TypeOK, ConfigsKnown
<1> QED BY <1>1, <1>2

\* Every variable keeps its type in every behaviour of the proxy, its cluster
\* and its users.
THEOREM TypeCorrect == Spec => []TypeOK
<1> QED BY InitType, TypeInductive, PTL DEF Spec, TypeInv

----------------------------------------------------------------------------
(***************************************************************************)
(* BackendsInv: one lemma per group of actions, one step per action        *)
(***************************************************************************)

\* The part of the types these proofs use.
LEMMA ShapeOfState ==
    ASSUME TypeInv
    PROVE  /\ w \in Workers /\ svc \in [Services -> SvcObjs]
           /\ svcCache \in [Services -> SvcObjs]
           /\ forked \in [Services -> 0..MaxUid] /\ canary \in [Services -> BOOLEAN]
           /\ cr \in CanaryReleases /\ crCache \in CanaryReleases
           /\ abandoned \subseteq Services
           /\ w.forkedList \subseteq Services /\ w.canaryList \subseteq Services
BY DEF TypeInv, TypeOK, Workers

LEMMA InformersFirst ==
    ASSUME FirstInv, cr.uid = 1, Informers
    PROVE  FirstInv'
<1> USE DEF FirstInv, SeesFirst, Prepared, Recovered, passedOver, Halves, Ended, Released, Taken,
            Protected, api, env, memory, Running
<1>1. CASE RefreshCR
  BY <1>1 DEF RefreshCR, CleanupPcs, SyncPcs
<1>2. CASE RefreshRelease
  BY <1>2 DEF RefreshRelease
<1>3. CASE RefreshServices
  BY <1>3 DEF RefreshServices
<1> QED BY <1>1, <1>2, <1>3 DEF Informers

\* What the ways the worker moves on do to its local variables.
Same == /\ w'.cr = w.cr /\ w'.transition = w.transition
        /\ w'.forkedList = w.forkedList /\ w'.canaryList = w.canaryList /\ w'.held = w.held

LEMMA GotoFields ==
    ASSUME w \in Workers, NEW p, Goto(p)
    PROVE  w'.pc = p /\ Same /\ w'.todo = w.todo
BY DEF Goto, Workers, Same

LEMMA LoopFields ==
    ASSUME w \in Workers, NEW p, NEW set, Loop(p, set)
    PROVE  w'.pc = p /\ Same /\ w'.todo = set
BY DEF Loop, Workers, Same

LEMMA NextFields ==
    ASSUME w \in Workers, NEW s, Next1(s)
    PROVE  w'.pc = w.pc /\ Same /\ w'.todo = w.todo \ {s}
BY DEF Next1, Workers, Same

LEMMA ReportFields ==
    ASSUME NEW r, Report(r)
    PROVE  w'.pc = "report"
BY DEF Report, Idle

LEMMA ReturnFields ==
    ASSUME NEW e, Return(e)
    PROVE  w'.pc = "idle"
BY DEF Return, Idle

LEMMA DispatchFirst ==
    ASSUME TypeInv, FirstInv, cr.uid = 1, NEW it \in queue, syncCanaryRelease(it)
    PROVE  FirstInv'
<1>1. /\ proc # "down" /\ w.pc = "idle" /\ crCache.uid = 1
      /\ UNCHANGED <<api, caches, proc, abandoned>>
  BY DEF syncCanaryRelease, At, FirstInv, SeesFirst
<1>2. \/ w' = w
      \/ \E p \in {"cleanup", "deprecate", "render"} :
            /\ w' = [w EXCEPT !.pc = p, !.item = it, !.cr = crCache]
            /\ p = "cleanup" <=> crCache.tr # None
  BY <1>1 DEF syncCanaryRelease, Start, fresh, gone
<1>3. \/ w'.pc = "idle"
      \/ /\ w'.pc \in {"cleanup", "deprecate", "render"} /\ w'.cr = crCache
         /\ w'.pc = "cleanup" <=> crCache.tr # None
  BY <1>1, <1>2, ShapeOfState DEF Workers
<1> QED BY <1>1, <1>3 DEF FirstInv, SeesFirst, Prepared, Recovered, passedOver, Halves, Ended, Released,
            Taken, Protected, api, caches, SyncPcs, CleanupPcs

LEMMA SyncFirst ==
    ASSUME TypeInv, FirstInv, cr.uid = 1, Sync \/ deprecate \/ report
    PROVE  FirstInv'
<1> USE ShapeOfState DEF FirstInv, SeesFirst, Prepared, Recovered, passedOver, Halves, Ended, Released,
            Taken, Protected, api, caches, memory, env, At
<1>1. CASE deprecate
  <2>1. w'.pc \in {"idle", "report"}
    BY <1>1, ReportFields, ReturnFields DEF deprecate
  <2>2. cr'.uid = 1 /\ cr'.phase = cr.phase /\ (cr.tr # None => cr'.tr # None)
    BY <1>1 DEF deprecate, CanaryReleases, Deprecated, None
  <2> QED BY <1>1, <2>1, <2>2 DEF deprecate, CleanupPcs, SyncPcs
<1>2. CASE report
  BY <1>2, ReturnFields DEF report, CleanupPcs, SyncPcs
<1>3. CASE renderService
  <2>1. w'.pc = "report" \/ (w'.pc = "updateObjects" /\ w'.cr = w.cr)
    BY <1>3, RenderFields
  <2> QED BY <1>3, <2>1 DEF renderService, CleanupPcs, SyncPcs
<1>4. CASE updateObjects
  <2>1. w'.pc = "report" \/ (w'.pc = "patchManifest" /\ Same /\ \A s \in Services : canary'[s])
    BY <1>4, ReportFields, GotoFields DEF updateObjects
  <2>2. \A s \in Services : canary[s] => canary'[s]
    BY <1>4 DEF updateObjects
  <2> QED BY <1>4, <2>1, <2>2 DEF updateObjects, CleanupPcs, SyncPcs, Same
<1>5. CASE patchManifest
  <2>1. w'.pc = "report" \/ (w'.pc = "createForked" /\ Same /\ w'.todo = Services)
    BY <1>5, ReportFields, LoopFields DEF patchManifest
  <2>2. cr'.uid = 1 /\ cr'.phase = cr.phase /\ cr'.tr = cr.tr
    BY <1>5 DEF patchManifest, CanaryReleases
  <2> QED BY <1>5, <2>1, <2>2 DEF patchManifest, CleanupPcs, SyncPcs, Same
<1>6. ASSUME NEW s \in Services, createForked(s) PROVE FirstInv'
  <2>1. \/ w'.pc = "report"
        \/ w'.pc = "createForked" /\ Same /\ w'.todo = w.todo \ {s} /\ forked'[s] # 0
    BY <1>6, ReportFields, NextFields DEF createForked, createFailed, SyncPcs
  <2>2. \A t \in Services : forked'[t] \in {0, 1} /\ (forked[t] # 0 => forked'[t] # 0)
    BY <1>6 DEF createForked, createFailed
  <2>3. \A t \in Services : canary[t]
    BY <1>6 DEF createForked, createFailed
  <2> QED BY <1>6, <2>1, <2>2, <2>3 DEF createForked, createFailed, CleanupPcs, SyncPcs, Same
<1>7. CASE OnUpdate
  <2>1. w'.pc = "report" \/ (w'.pc = "takeOver" /\ Same /\ w'.todo = Services)
    BY <1>7, ReportFields, LoopFields DEF OnUpdate, allForked, reload
  <2> QED BY <1>7, <2>1 DEF OnUpdate, allForked, reload, CleanupPcs, SyncPcs, Same
<1>8. ASSUME NEW s \in Services, takeOver(s) PROVE FirstInv'
  <2>1. w.pc = "takeOver" /\ (w'.pc = "report" \/ (w'.pc = "takeOver" /\ Same))
    BY <1>8, ReportFields, NextFields DEF takeOver
  <2>2. \A t \in Services : canary[t] /\ forked[t] # 0
    BY <2>1
  <2>3. LayoutOf[w.cr.cfg] # Absent
    BY <2>1, LayoutAssumption DEF TypeInv, ConfigsKnown, SyncPcs
  <2>4. \A t \in Services : svc'[t].target # Absent => svcCache'[t].target # Absent
    <3> DEFINE changed == [w.held[s] EXCEPT !.target = LayoutOf[w.cr.cfg],
                                            !.owners = @ \cup {w.cr.uid}]
    <3>1. w.held[s] \in SvcObjs
      BY DEF Workers
    <3>2. changed.target # Absent
      BY <2>3, <3>1 DEF SvcObjs
    <3>3. svcCache' = svcCache \/ svcCache' = [svcCache EXCEPT ![s] = changed]
      BY <1>8 DEF takeOver
    <3>4. \A t \in Services : svcCache[t].target # Absent => svcCache'[t].target # Absent
      BY <3>2, <3>3
    <3>5. \A t \in Services : svc'[t].target # Absent => svc[t].target # Absent
      BY <1>8 DEF takeOver
    <3>6. proc # "down"
      BY <1>8 DEF takeOver
    <3> QED BY <3>4, <3>5, <3>6
  <2> QED BY <1>8, <2>1, <2>2, <2>4 DEF takeOver, CleanupPcs, SyncPcs, Same
<1>9. CASE setRunningConfig
  BY <1>9, ReportFields DEF setRunningConfig, CleanupPcs, SyncPcs
<1> QED BY <1>1, <1>2, <1>3, <1>4, <1>5, <1>6, <1>7, <1>8, <1>9 DEF Sync

LEMMA CleanupFirst ==
    ASSUME TypeInv, FirstInv, cr.uid = 1, Cleanup
    PROVE  FirstInv'
<1> USE ShapeOfState DEF FirstInv, SeesFirst, Prepared, Recovered, passedOver, Halves, Ended, Released,
            Taken, Protected, api, caches, memory, env, At
<1>1. CASE cleanup
  <2>1. \/ w'.pc = "report"
        \/ w'.pc \in {"deprecate", "patchPhase"} /\ Same
        \/ w'.pc = "getSvcs" /\ w'.cr = w.cr
    BY <1>1, ReportFields, GotoFields DEF cleanup, Workers
  <2> QED BY <1>1, <2>1 DEF cleanup, CleanupPcs, SyncPcs, Same
<1>2. CASE getSvcs
  <2> DEFINE canaries == {s \in Services : canaryCache[s]}
             forks == {s \in Services : forkedCache[s] # 0}
             originals == {s \in Services : svcCache[s].target # Absent}
  <2>1. /\ w'.pc = "recover" /\ w'.cr = w.cr /\ w'.transition = w.transition
        /\ w'.canaryList = canaries /\ w'.forkedList = forks /\ w'.held = svcCache
        /\ w'.todo = originals \cap (IF w.transition = Adopted THEN canaries ELSE forks)
    BY <1>2 DEF getSvcs, Workers
  <2>2. ASSUME NEW s \in canaries, s \notin originals PROVE Released(s)
    BY <1>2, <2>2, LayoutAssumption DEF getSvcs
  <2>3. ASSUME NEW s \in forks, s \notin canaries PROVE Released(s)
    BY <1>2, <2>3 DEF getSvcs
  <2> QED BY <1>2, <2>1, <2>2, <2>3 DEF getSvcs, CleanupPcs, SyncPcs
<1>3. ASSUME NEW s \in Services, recoverSvcs(s) PROVE FirstInv'
  <2>1. /\ w.pc = "recover" /\ proc # "down"
        /\ UNCHANGED <<cr, crCache, proc, forked, canary, svcCache, forkedCache, canaryCache>>
    BY <1>3 DEF recoverSvcs
  <2> DEFINE new == [target |-> IF w.transition = Adopted THEN Canary ELSE Origin,
                     owners |-> IF w.transition = Adopted THEN w.held[s].owners
                                ELSE w.held[s].owners \ {w.cr.uid},
                     rv |-> svc[s].rv + 1]
  <2>2. svc' = svc \/ (svc[s].target # Absent /\ svc' = [svc EXCEPT ![s] = new])
    BY <1>3 DEF recoverSvcs
  <2>n. new.target \in {Canary, Origin}
    OBVIOUS
  <2>3. \A t \in Services : /\ svc'[t].target # Absent => svc[t].target # Absent
                            /\ Taken(t)' => Taken(t)
    <3> HIDE DEF new
    <3> QED BY <2>2, <2>n, LayoutAssumption DEF Origin, Canary, Absent
  <2>4. \/ /\ Next1(s) /\ abandoned' = abandoned \ {s} /\ ~Taken(s)'
        \/ /\ w' = [w EXCEPT !.pc = "getSvcs", !.tries = @ + 1] /\ abandoned' = abandoned
        \/ recovered(FALSE)
    <3>1. \/ /\ Next1(s) /\ abandoned' = abandoned \ {s} /\ svc' = [svc EXCEPT ![s] = new]
          \/ /\ w' = [w EXCEPT !.pc = "getSvcs", !.tries = @ + 1] /\ abandoned' = abandoned
          \/ recovered(FALSE)
      BY <1>3 DEF recoverSvcs, failed
    <3>2. ASSUME svc' = [svc EXCEPT ![s] = new] PROVE ~Taken(s)'
      <4>1. svc'[s].target \in {Canary, Origin}
        <5> HIDE DEF new
        <5> QED BY <2>n, <3>2
      <4> QED BY <4>1, LayoutAssumption
    <3> QED BY <3>1, <3>2
  <2>5. CASE Next1(s) /\ abandoned' = abandoned \ {s} /\ ~Taken(s)'
    <3>1. w'.pc = "recover" /\ Same /\ w'.todo = w.todo \ {s}
      BY <2>1, <2>5, NextFields
    <3>2. \A t \in Services : Released(t) => Released(t)'
      BY <2>3, <2>5
    <3>3. Released(s)'
      BY <2>5
    <3>4. Recovered'
      <4>1. \A t \in Services : passedOver(t)' <=> passedOver(t)
        BY <3>1 DEF Same
      <4> QED BY <2>1, <3>1, <3>2, <3>3, <4>1 DEF Same
    <3>5. /\ Prepared' /\ SeesFirst' /\ Halves' /\ (cr.phase # None => Ended)'
          /\ \A t \in Services : Protected(t)'
      BY <2>1, <2>3, <3>1, <3>2 DEF CleanupPcs, SyncPcs, Same
    <3> QED BY <2>1, <3>4, <3>5 DEF CleanupPcs, SyncPcs, Same
  <2>6. CASE w' = [w EXCEPT !.pc = "getSvcs", !.tries = @ + 1] /\ abandoned' = abandoned
    <3>1. w'.pc = "getSvcs" /\ w'.cr = w.cr
      BY <2>6 DEF Workers
    <3> QED BY <2>1, <2>3, <2>6, <3>1 DEF CleanupPcs, SyncPcs
  <2>7. CASE recovered(FALSE)
    <3>1. \/ w.transition = Adopted /\ w'.pc = "report" /\ abandoned' = abandoned
          \/ /\ w.transition # Adopted /\ w'.pc = "deleteManifest" /\ Same
             /\ abandoned' = abandoned \cup {t \in Services : svc'[t].target \in Layouts}
      BY <2>7, ReportFields, GotoFields DEF recovered, adoptionGoesOn
    <3> QED BY <2>1, <2>3, <3>1 DEF CleanupPcs, SyncPcs, Same
  <2> QED BY <2>4, <2>5, <2>6, <2>7
<1>4. CASE recoverDone
  <2>1. recovered(TRUE) /\ w.pc = "recover" /\ proc # "down" /\ w.todo = {}
        /\ UNCHANGED <<api, caches, memory>>
    BY <1>4 DEF recoverDone
  <2>2. \/ /\ w.transition = Adopted /\ w'.pc = "updateRelease" /\ Same
           /\ abandoned' = abandoned
        \/ /\ w.transition # Adopted /\ w'.pc = "deleteManifest" /\ Same
           /\ abandoned' = abandoned \cup
                {t \in Services : svc'[t].target \in Layouts /\ passedOver(t)}
    BY <2>1, GotoFields DEF recovered, adoptionGoesOn
  <2> QED BY <2>1, <2>2 DEF CleanupPcs, SyncPcs, Same
<1>5. CASE applyToRelease
  <2>1. w'.pc = "report" \/ (w'.pc = "patchOwners" /\ Same)
    BY <1>5, ReportFields, GotoFields DEF applyToRelease, releaseFailed
  <2> QED BY <1>5, <2>1 DEF applyToRelease, releaseFailed, CleanupPcs, SyncPcs, Same
<1>6. CASE patchOwners
  <2>1. w'.pc = "report" \/ (w'.pc = "resetOwner" /\ Same)
    BY <1>6, ReportFields, LoopFields DEF patchOwners
  <2> QED BY <1>6, <2>1 DEF patchOwners, CleanupPcs, SyncPcs, Same
<1>7. ASSUME NEW s \in Services, resetOwner(s) PROVE FirstInv'
  <2>1. w'.pc = "resetOwner" /\ Same
    BY <1>7, NextFields DEF resetOwner
  <2>2. \A t \in Services : svc'[t].target = svc[t].target
    <3> DEFINE new == [svc[s] EXCEPT !.owners = {}, !.rv = @ + 1]
    <3>1. svc' = svc \/ svc' = [svc EXCEPT ![s] = new]
      BY <1>7 DEF resetOwner
    <3>2. new.target = svc[s].target
      BY DEF SvcObjs
    <3> HIDE DEF new
    <3> QED BY <3>1, <3>2
  <2>3. /\ w.pc = "resetOwner" /\ proc # "down"
        /\ UNCHANGED <<cr, crCache, proc, forked, canary, svcCache, forkedCache, canaryCache,
                      abandoned>>
    BY <1>7 DEF resetOwner
  <2>4. \A t \in Services : Released(t)' <=> Released(t)
    BY <2>2, <2>3
  <2>5. Recovered'
    BY <2>1, <2>3, <2>4 DEF Same
  <2>6. SeesFirst'
    BY <2>1, <2>2, <2>3 DEF CleanupPcs, Same
  <2>7. Prepared' /\ Halves' /\ (cr.phase # None => Ended)'
    BY <2>1, <2>3, <2>4 DEF SyncPcs
  <2>8. \A t \in Services : Protected(t)'
    BY <2>3, <2>4
  <2> QED BY <2>5, <2>6, <2>7, <2>8
<1>8. CASE resetOwnerDone
  <2>1. w'.pc = "deleteForked" /\ Same /\ w'.todo = w.forkedList
    BY <1>8, LoopFields DEF resetOwnerDone
  <2> QED BY <1>8, <2>1 DEF resetOwnerDone, CleanupPcs, SyncPcs, Same
<1>9. CASE deleteManifest
  <2>1. w'.pc = "deleteForked" /\ Same /\ w'.todo = w.forkedList
    BY <1>9, LoopFields DEF deleteManifest
  <2> QED BY <1>9, <2>1 DEF deleteManifest, CleanupPcs, SyncPcs, Same
<1>10. ASSUME NEW s \in Services, deleteForked(s) PROVE FirstInv'
  <2>1. w.pc = "deleteForked" /\ w'.pc = "deleteForked" /\ Same /\ w'.todo = w.todo \ {s}
    BY <1>10, NextFields DEF deleteForked
  <2>2. Released(s)
    BY <1>10, <2>1 DEF deleteForked
  <2>3. \A t \in Services : /\ forked'[t] \in {0, 1}
                            /\ forked'[t] # 0 => forked[t] # 0
                            /\ t # s => forked'[t] = forked[t]
    BY <1>10 DEF deleteForked
  <2> QED BY <1>10, <2>1, <2>2, <2>3 DEF deleteForked, CleanupPcs, SyncPcs, Same
<1>11. CASE deleteForkedDone
  <2>1. \/ w'.pc = "patchPhase" /\ Same
        \/ w.transition = Adopted /\ w'.pc = "deleteCanary" /\ Same /\ w'.todo = w.canaryList
    BY <1>11, LoopFields, GotoFields DEF deleteForkedDone
  <2> QED BY <1>11, <2>1 DEF deleteForkedDone, CleanupPcs, SyncPcs, Same
<1>12. ASSUME NEW s \in Services, deleteCanary(s) PROVE FirstInv'
  <2>1. w.pc = "deleteCanary" /\ w'.pc = "deleteCanary" /\ Same /\ w'.todo = w.todo \ {s}
    BY <1>12, NextFields DEF deleteCanary
  <2>2. Released(s)
    BY <1>12, <2>1 DEF deleteCanary
  <2>3. \A t \in Services : t # s => canary'[t] = canary[t]
    BY <1>12 DEF deleteCanary
  <2> QED BY <1>12, <2>1, <2>2, <2>3 DEF deleteCanary, CleanupPcs, SyncPcs, Same
<1>13. CASE deleteCanaryDone
  <2>1. w'.pc = "patchPhase" /\ Same
    BY <1>13, GotoFields DEF deleteCanaryDone
  <2> QED BY <1>13, <2>1 DEF deleteCanaryDone, CleanupPcs, SyncPcs, Same
<1>14. CASE patchPhase
  <2>1. w.pc = "patchPhase" /\ w'.pc = "report" /\ proc # "down"
    BY <1>14, ReportFields DEF patchPhase
  <2>2. cr'.uid = 1 /\ cr'.tr = cr.tr /\ cr.tr # None
    BY <1>14 DEF patchPhase, CanaryReleases, CleanupPcs
  <2> QED BY <1>14, <2>1, <2>2 DEF patchPhase, CleanupPcs, SyncPcs
<1> QED BY <1>1, <1>2, <1>3, <1>4, <1>5, <1>6, <1>7, <1>8, <1>9, <1>10, <1>11,
           <1>12, <1>13, <1>14 DEF Cleanup

LEMMA OthersFirst ==
    ASSUME TypeInv, FirstInv, cr.uid = 1, cr'.uid = 1,
           Process \/ User \/ ReleaseController \/ GarbageCollector
    PROVE  FirstInv'
<1> USE ShapeOfState DEF FirstInv, SeesFirst, Prepared, Recovered, passedOver, Halves, Ended, Released,
            Taken, Protected, api, caches, memory, env
<1>1. CASE Run
  BY <1>1 DEF Run, SyncPcs, CleanupPcs
<1>2. CASE handleSigterm
  BY <1>2 DEF handleSigterm
<1>3. CASE waitForCleanup
  BY <1>3 DEF waitForCleanup
<1>4. CASE Exit \/ Crash
  <2>1. /\ w'.pc = "idle" /\ proc' = "down" /\ UNCHANGED <<api, abandoned>>
        /\ \A s \in Services : forkedCache'[s] = 0
    BY <1>4 DEF Exit, Crash, Down, Idle, NoForked
  <2> QED BY <2>1 DEF SyncPcs, CleanupPcs
<1>5. CASE User
  <2>1. /\ UserUnchanged
        /\ cr'.tr # cr.tr => cr'.tr # None
        /\ cr'.phase = cr.phase
    <3>1. ASSUME NEW c \in Cfgs, UserEdits(c) PROVE <2>1
      BY <3>1 DEF UserEdits, CanaryReleases
    <3>2. ASSUME NEW c \in Cfgs, UserRecreates(c) PROVE FALSE
      BY <3>2 DEF UserRecreates
    <3>3. ASSUME NEW t \in {Adopted, Deprecated}, UserEnds(t) PROVE <2>1
      BY <3>3 DEF UserEnds, CanaryReleases, Adopted, Deprecated, None
    <3>4. CASE UserDeletes
      BY <3>4 DEF UserDeletes, NoCR
    <3>5. CASE UserUpdatesRelease
      BY <3>5 DEF UserUpdatesRelease
    <3>6. CASE UserDeletesRelease
      BY <3>6 DEF UserDeletesRelease
    <3> QED BY <1>5, <3>1, <3>2, <3>3, <3>4, <3>5, <3>6 DEF User
  <2> QED BY <2>1 DEF UserUnchanged
<1>6. CASE ReleaseController
  BY <1>6 DEF ReleaseController
<1>7. CASE GarbageCollector
  <2>1. /\ UNCHANGED <<cr, crCache, proc, forked, canary, svcCache, forkedCache, canaryCache,
                      w, abandoned>>
        /\ svc' = svc \/ \E s \in Services :
              svc' = [svc EXCEPT ![s] = [target |-> Absent, owners |-> {}, rv |-> svc[s].rv]]
    <3>1. ASSUME NEW s \in Services, forked[s] # 0, forked[s] # cr.uid PROVE FALSE
      BY <3>1
    <3>2. UNCHANGED <<cr, crCache, proc, svcCache, forkedCache, canaryCache, w, abandoned>>
      BY <1>7 DEF GarbageCollector
    <3> HIDE DEF FirstInv
    <3> QED BY <1>7, <3>1, <3>2 DEF GarbageCollector
  <2>2. \A s \in Services : svc'[s].target \in {svc[s].target, Absent}
    BY <2>1
  <2>3. \A s \in Services : Released(s) => Released(s)'
    BY <2>1, <2>2, LayoutAssumption
  <2>4. Recovered'
    BY <2>1, <2>3
  <2>5. Halves'
    BY <2>1, <2>3
  <2>6. SeesFirst'
    BY <2>1, <2>2
  <2>7. Prepared' /\ (cr.phase # None => Ended)' /\ \A s \in Services : Protected(s)'
    BY <2>1, <2>3
  <2> QED BY <2>4, <2>5, <2>6, <2>7
<1> QED BY <1>1, <1>2, <1>3, <1>4, <1>5, <1>6, <1>7 DEF Process

\* The first CanaryRelease does not come back: its name may, its uid is new.
LEMMA FirstBefore ==
    ASSUME TypeInv, Next, cr'.uid = 1
    PROVE  cr.uid = 1
<1> USE ShapeOfState DEF api
<1>1. ASSUME UNCHANGED cr PROVE cr.uid = 1
  BY <1>1
<1>2. CASE Informers
  BY <1>2, <1>1 DEF Informers, RefreshCR, RefreshRelease, RefreshServices
<1>3. CASE \E it \in queue : syncCanaryRelease(it)
  BY <1>3, <1>1 DEF syncCanaryRelease
<1>4. CASE deprecate
  BY <1>4 DEF deprecate, CanaryReleases
<1>5. CASE report
  BY <1>5 DEF report
<1>6. CASE Sync
  <2>1. CASE patchManifest
    BY <2>1 DEF patchManifest, CanaryReleases
  <2> QED BY <1>6, <1>1, <2>1 DEF Sync, renderService, updateObjects, createForked, OnUpdate,
                takeOver, setRunningConfig
<1>7. CASE Cleanup
  <2>1. CASE patchPhase
    BY <2>1 DEF patchPhase, CanaryReleases
  <2>2. CASE cleanup \/ getSvcs \/ recoverDone \/ applyToRelease \/ patchOwners
    BY <2>2, <1>1 DEF cleanup, getSvcs, recoverDone, applyToRelease, patchOwners
  <2>3. CASE \E s \in Services : recoverSvcs(s) \/ resetOwner(s) \/ deleteForked(s) \/ deleteCanary(s)
    BY <2>3, <1>1 DEF recoverSvcs, resetOwner, deleteForked, deleteCanary
  <2>4. CASE resetOwnerDone \/ deleteManifest \/ deleteForkedDone \/ deleteCanaryDone
    BY <2>4, <1>1 DEF resetOwnerDone, deleteManifest, deleteForkedDone, deleteCanaryDone
  <2> QED BY <1>7, <2>1, <2>2, <2>3, <2>4 DEF Cleanup
<1>8. CASE Process
  BY <1>8, <1>1 DEF Process, Run, handleSigterm, waitForCleanup, Exit, Crash, Down
<1>9. CASE User
  <2>1. ASSUME NEW c \in Cfgs, UserEdits(c) PROVE cr.uid = 1
    BY <2>1 DEF UserEdits, CanaryReleases
  <2>2. ASSUME NEW c \in Cfgs, UserRecreates(c) PROVE FALSE
    <3>1. lastUid \in 1..MaxUid
      BY DEF TypeInv, TypeOK
    <3>2. cr'.uid = lastUid + 1
      BY <2>2 DEF UserRecreates, NoCR
    <3> QED BY <3>1, <3>2, BoundsAssumption
  <2>3. ASSUME NEW t \in {Adopted, Deprecated}, UserEnds(t) PROVE cr.uid = 1
    BY <2>3 DEF UserEnds, CanaryReleases
  <2>4. CASE UserDeletes
    BY <2>4 DEF UserDeletes, NoCR
  <2>5. CASE UserUpdatesRelease \/ UserDeletesRelease
    BY <2>5 DEF UserUpdatesRelease, UserDeletesRelease
  <2> QED BY <1>9, <2>1, <2>2, <2>3, <2>4, <2>5 DEF User
<1>10. CASE ReleaseController \/ GarbageCollector
  BY <1>10 DEF ReleaseController, GarbageCollector
<1> QED BY <1>2, <1>3, <1>4, <1>5, <1>6, <1>7, <1>8, <1>9, <1>10 DEF Next, Worker

LEMMA BackendsInit == Init => BackendsInv
<1> SUFFICES ASSUME Init PROVE FirstInv
  BY DEF BackendsInv
<1>1. /\ w.pc = "idle" /\ proc = "down" /\ cr.phase = None
      /\ \A s \in Services : svc[s].target = Origin /\ forked[s] = 0 /\ forkedCache[s] = 0
  BY DEF Init, Idle, NoForked, NoCR
<1> QED BY <1>1, LayoutAssumption DEF FirstInv, SeesFirst, Prepared, Recovered, Halves,
      Protected, Released, Taken, SyncPcs, CleanupPcs

LEMMA BackendsInductive ==
    ASSUME TypeInv, BackendsInv, [Next]_vars
    PROVE  BackendsInv'
<1> SUFFICES ASSUME cr'.uid = 1 PROVE FirstInv'
  BY DEF BackendsInv
<1>1. CASE Next
  <2>1. cr.uid = 1 /\ FirstInv
    BY <1>1, FirstBefore DEF BackendsInv
  <2>2. ASSUME NEW it \in queue, syncCanaryRelease(it) PROVE FirstInv'
    BY <2>1, <2>2, DispatchFirst
  <2> QED BY <1>1, <2>1, <2>2, InformersFirst, SyncFirst, CleanupFirst, OthersFirst
             DEF Next, Worker
<1>2. CASE UNCHANGED vars
  BY <1>2 DEF BackendsInv, vars, api, caches, memory, FirstInv, SeesFirst, Prepared, Recovered,
      passedOver, Halves, Ended, Protected, Released, Taken
<1> QED BY <1>1, <1>2

LEMMA Invariants == Spec => [](TypeInv /\ BackendsInv)
<1>1. TypeInv /\ BackendsInv /\ [Next]_vars => TypeInv' /\ BackendsInv'
  BY TypeInductive, BackendsInductive
<1> QED BY InitType, BackendsInit, <1>1, PTL DEF Spec

\* While the first CanaryRelease exists, a service that leads to the proxy has
\* both services nginx forwards to: takeOver comes after createForked and
\* updateObjects, and _cleanup deletes only what it gave back or abandoned.
THEOREM BackendsStayAlive == Spec => []BackendsAlive
<1>1. BackendsInv => BackendsAlive
  BY DEF BackendsInv, FirstInv, Protected, Released, BackendsAlive
<1> QED BY Invariants, <1>1, PTL

\* Only takeOver points a service at the proxy.
LEMMA OnlyTakeOver ==
    ASSUME TypeInv, Next, NEW s \in Services, Taken(s)', svc'[s].target # svc[s].target
    PROVE  takeOver(s)
<1> USE ShapeOfState DEF api, Taken
<1>1. ASSUME UNCHANGED svc PROVE FALSE
  BY <1>1
<1>2. CASE Informers
  BY <1>2, <1>1 DEF Informers, RefreshCR, RefreshRelease, RefreshServices
<1>3. CASE \E it \in queue : syncCanaryRelease(it)
  BY <1>3, <1>1 DEF syncCanaryRelease
<1>4. CASE deprecate \/ report
  BY <1>4, <1>1 DEF deprecate, report
<1>5. CASE Sync
  <2>1. ASSUME NEW t \in Services, takeOver(t), t # s PROVE FALSE
    BY <2>1 DEF takeOver
  <2> QED BY <1>5, <1>1, <2>1 DEF Sync, renderService, updateObjects, patchManifest,
                createForked, OnUpdate, setRunningConfig
<1>6. CASE Cleanup
  <2>1. ASSUME NEW t \in Services, recoverSvcs(t) PROVE FALSE
    <3> DEFINE new == [target |-> IF w.transition = Adopted THEN Canary ELSE Origin,
                       owners |-> IF w.transition = Adopted THEN w.held[t].owners
                                  ELSE w.held[t].owners \ {w.cr.uid},
                       rv |-> svc[t].rv + 1]
    <3>1. svc' = svc \/ svc' = [svc EXCEPT ![t] = new]
      BY <2>1 DEF recoverSvcs
    <3>2. new.target \in {Canary, Origin}
      OBVIOUS
    <3> HIDE DEF new
    <3> QED BY <3>1, <3>2, LayoutAssumption
  <2>2. ASSUME NEW t \in Services, resetOwner(t) PROVE FALSE
    <3> DEFINE new == [svc[t] EXCEPT !.owners = {}, !.rv = @ + 1]
    <3>1. svc' = svc \/ svc' = [svc EXCEPT ![t] = new]
      BY <2>2 DEF resetOwner
    <3>2. new.target = svc[t].target
      BY DEF SvcObjs
    <3> HIDE DEF new
    <3> QED BY <3>1, <3>2
  <2>3. CASE cleanup \/ getSvcs \/ recoverDone \/ applyToRelease \/ patchOwners
    BY <2>3, <1>1 DEF cleanup, getSvcs, recoverDone, applyToRelease, patchOwners
  <2>4. CASE \E t \in Services : deleteForked(t) \/ deleteCanary(t)
    BY <2>4, <1>1 DEF deleteForked, deleteCanary
  <2>5. CASE resetOwnerDone \/ deleteManifest \/ deleteForkedDone \/ deleteCanaryDone
             \/ patchPhase
    BY <2>5, <1>1 DEF resetOwnerDone, deleteManifest, deleteForkedDone, deleteCanaryDone,
       patchPhase
  <2> QED BY <1>6, <2>1, <2>2, <2>3, <2>4, <2>5 DEF Cleanup
<1>7. CASE Process
  BY <1>7, <1>1 DEF Process, Run, handleSigterm, waitForCleanup, Exit, Crash, Down
<1>8. CASE User
  BY <1>8, <1>1 DEF User, UserEdits, UserRecreates, UserEnds, UserDeletes, UserUpdatesRelease,
     UserDeletesRelease, UserUnchanged
<1>9. CASE ReleaseController
  BY <1>9, <1>1 DEF ReleaseController
<1>10. CASE GarbageCollector
  <2>1. svc' = svc \/ \E t \in Services :
              svc' = [svc EXCEPT ![t] = [target |-> Absent, owners |-> {}, rv |-> svc[t].rv]]
    BY <1>10 DEF GarbageCollector
  <2>2. svc'[s].target \in {svc[s].target, Absent}
    BY <2>1
  <2> QED BY <2>2, LayoutAssumption
<1> QED BY <1>2, <1>3, <1>4, <1>5, <1>6, <1>7, <1>8, <1>9, <1>10 DEF Next, Worker

\* _sync never points a service at upstream ports that nginx does not run.
THEOREM TakeoversArePrepared == Spec => TakeoverIsPrepared
<1> DEFINE A == \A s \in Services :
                   svc'[s].target \in Layouts /\ svc'[s].target # svc[s].target
                   => nginxConfig # NoCfg /\ LayoutOf[nginxConfig] = svc'[s].target
<1>1. TypeInv /\ [Next]_vars => [A]_vars
  <2> SUFFICES ASSUME TypeInv, Next, NEW s \in Services,
                      svc'[s].target \in Layouts, svc'[s].target # svc[s].target
               PROVE  nginxConfig # NoCfg /\ LayoutOf[nginxConfig] = svc'[s].target
    OBVIOUS
  <2>1. takeOver(s)
    BY OnlyTakeOver DEF Taken
  <2>2. nginxConfig = w.cr.cfg /\ w.cr.cfg \in Cfgs
    BY <2>1 DEF takeOver, At, TypeInv, ConfigsKnown, SyncPcs
  <2> DEFINE changed == [w.held[s] EXCEPT !.target = LayoutOf[w.cr.cfg],
                                          !.owners = @ \cup {w.cr.uid}]
  <2>3. w.held[s] \in SvcObjs
    BY ShapeOfState DEF Workers
  <2>4. changed \in [target : {LayoutOf[w.cr.cfg]}, owners : {changed.owners}, rv : {changed.rv}]
    BY <2>3 DEF SvcObjs
  <2>5. svc' = [svc EXCEPT ![s] = [changed EXCEPT !.rv = svc[s].rv + 1]]
    BY <2>1 DEF takeOver
  <2>6. svc'[s].target = LayoutOf[w.cr.cfg]
    <3> HIDE DEF changed
    <3> QED BY <2>4, <2>5, ShapeOfState
  <2> QED BY <2>2, <2>6, LayoutAssumption
<1> QED BY Invariants, <1>1, PTL DEF Spec, TakeoverIsPrepared

\* After its final phase no service is taken over for the first CanaryRelease.
THEOREM PhaseStaysFinal == Spec => PhaseIsFinal
<1> DEFINE A == cr.uid = 1 /\ cr.phase # None => \A s \in Services : Taken(s)' => Taken(s)
<1>1. TypeInv /\ BackendsInv /\ [Next]_vars => [A]_vars
  <2> SUFFICES ASSUME TypeInv, BackendsInv, Next, cr.uid = 1, cr.phase # None,
                      NEW s \in Services, Taken(s)'
               PROVE  Taken(s)
    OBVIOUS
  <2>1. w.pc # "takeOver"
    BY DEF BackendsInv, FirstInv, Ended, SyncPcs
  <2>2. CASE svc'[s].target # svc[s].target
    BY <2>1, <2>2, OnlyTakeOver DEF takeOver, At
  <2>3. CASE svc'[s].target = svc[s].target
    BY <2>3 DEF Taken
  <2> QED BY <2>2, <2>3
<1> QED BY Invariants, <1>1, PTL DEF Spec, PhaseIsFinal

\* The invariant of the proofs, itself checked in a run.
THEOREM BackendsInvariant == Spec => []BackendsInv
<1> QED BY Invariants, PTL

=============================================================================
