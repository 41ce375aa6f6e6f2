----------------------- MODULE CanaryProxyRefinement -----------------------
(***************************************************************************)
(* CanaryProxy implements TrafficRouting: every step is one of its steps   *)
(* or changes nothing it speaks of.  The proof rests on the invariant of   *)
(* CanaryProxyProofs.                                                      *)
(***************************************************************************)
EXTENDS CanaryProxyProofs

Simulates == Routing!Next \/ UNCHANGED Routing!vars

\* How routes read in the two modules.
LEMMA RouteMeans ==
    ASSUME NEW t \in Layouts \cup {Origin, Canary, Absent}
    PROVE  /\ RouteOf(t) = "split" <=> t \in Layouts
           /\ RouteOf(t) = "absent" <=> t = Absent
           /\ t = Origin => RouteOf(t) = "original"
           /\ t = Canary => RouteOf(t) = "canary"
<1>1. Origin # Canary /\ Origin # Absent /\ Canary # Absent
  BY DEF Origin, Canary, Absent
<1> QED BY <1>1, LayoutAssumption DEF RouteOf

LEMMA SplitMeans ==
    ASSUME TypeInv
    PROVE  Routing!Split = {s \in Services : Taken(s)}
BY ShapeOfState, RouteMeans DEF Routing!Split, Taken, SvcObjs

\* The worker is making no attempt to recover the services.
Outside == w.pc \notin {"getSvcs", "recover"}

\* No attempt begins, ends or lists anything.
Steady == UNCHANGED <<Attempt, Listed>>

LEMMA OutsideMeans == Outside => Attempt = 0 /\ Listed = Services
BY DEF Outside, Attempt, Listed

LEMMA OutsideStays == Outside /\ Outside' => Steady
BY DEF Outside, Steady, Attempt, Listed

LEMMA SameWorker == UNCHANGED w => Steady
BY DEF Steady, Attempt, Listed, passedOver

LEMMA Unseen ==
    ASSUME UNCHANGED <<cr, svc, forked, canary, abandoned>>, Steady
    PROVE  Simulates
BY DEF Simulates, Routing!vars, Stage, Steady

\* Steps that change only the CanaryRelease.
LEMMA StageStep ==
    ASSUME TypeInv, cr.uid = 1, cr'.uid = 1, Steady,
           UNCHANGED <<svc, forked, canary, abandoned>>,
           \/ cr'.tr = cr.tr /\ cr'.phase = cr.phase
           \/ cr'.tr # None /\ cr'.phase = cr.phase
           \/ cr'.tr = cr.tr /\ cr.tr # None /\ cr'.phase # None
    PROVE  Simulates
BY DEF Simulates, Routing!vars, Routing!Next, Routing!Advance, Routing!Advances, Stage, Steady

\* Steps of a sync that add a side to some services.
LEMMA PrepareStep ==
    ASSUME Stage \in {"running", "ending"}, Outside, Steady, UNCHANGED <<cr, svc, abandoned>>,
           \A s \in Services : forked[s] # 0 /\ canary[s] => forked'[s] # 0 /\ canary'[s]
    PROVE  Simulates
<1>1. Routing!Prepare
  BY OutsideMeans DEF Routing!Prepare, Stage, Steady
<1> QED BY <1>1 DEF Simulates, Routing!Next

\* Steps of a cleanup that take a side from some services.
LEMMA DiscardStep ==
    ASSUME TypeInv, Stage \in {"ending", "ended"}, Outside, Steady,
           UNCHANGED <<cr, svc, abandoned>>,
           \A s \in Services :
              /\ forked'[s] # 0 /\ canary'[s] => forked[s] # 0 /\ canary[s]
              /\ forked[s] # 0 /\ canary[s] /\ ~Released(s) => forked'[s] # 0 /\ canary'[s]
    PROVE  Simulates
<1>1. Routing!Discard
  BY SplitMeans, OutsideMeans DEF Routing!Discard, Routing!CleaningUp, Stage, Released, Steady
<1> QED BY <1>1 DEF Simulates, Routing!Next

\* A service whose target stays the same keeps its route.
LEMMA RoutesSame ==
    ASSUME TypeInv, NEW s \in Services, NEW o \in SvcObjs, o.target = svc[s].target,
           svc' = [svc EXCEPT ![s] = o], UNCHANGED <<cr, forked, canary, abandoned>>, Steady
    PROVE  Simulates
<1>1. \A t \in Services : svc'[t].target = svc[t].target
  BY ShapeOfState
<1> QED BY <1>1 DEF Simulates, Routing!vars, Stage, Steady

\* A sync makes no attempt to recover anything.
LEMMA SyncOutside ==
    ASSUME TypeInv, Sync
    PROVE  Outside /\ Steady
<1> USE ShapeOfState DEF At
<1>1. w.pc \in SyncPcs
  BY DEF Sync, renderService, updateObjects, patchManifest, createForked, OnUpdate, takeOver,
     setRunningConfig, SyncPcs
<1>2. w'.pc \in SyncPcs \cup {"report"}
  <2>1. CASE renderService \/ patchManifest
    BY <2>1, RenderFields, PatchFields DEF SyncPcs
  <2>2. CASE updateObjects
    BY <2>2, ReportFields, GotoFields DEF updateObjects, SyncPcs
  <2>3. ASSUME NEW s \in Services, createForked(s) \/ takeOver(s)
        PROVE  w'.pc \in SyncPcs \cup {"report"}
    BY <1>1, <2>3, ReportFields, NextFields DEF createForked, createFailed, takeOver
  <2>4. CASE OnUpdate \/ setRunningConfig
    BY <2>4, ReportFields, LoopFields DEF OnUpdate, setRunningConfig, SyncPcs
  <2> QED BY <2>1, <2>2, <2>3, <2>4 DEF Sync
<1>3. Outside /\ Outside'
  BY <1>1, <1>2 DEF Outside, SyncPcs
<1> QED BY <1>3, OutsideStays

LEMMA SyncSimulates ==
    ASSUME TypeInv, FirstInv, cr.uid = 1, Sync
    PROVE  Simulates
<1> USE ShapeOfState, SyncOutside DEF At, api, memory, caches
<1>1. Stage \in {"running", "ending"}
  BY DEF Sync, renderService, updateObjects, patchManifest, createForked, OnUpdate, takeOver,
     setRunningConfig, FirstInv, Ended, SyncPcs, Stage
<1>2. CASE renderService \/ OnUpdate \/ setRunningConfig
  BY <1>2, Unseen DEF renderService, OnUpdate, setRunningConfig
<1>3. CASE updateObjects
  BY <1>1, <1>3, PrepareStep DEF updateObjects
<1>4. CASE patchManifest
  BY <1>4, StageStep DEF patchManifest, CanaryReleases
<1>5. ASSUME NEW s \in Services, createForked(s)
      PROVE  Simulates
  <2>1. w.cr.uid # 0
    BY <1>5 DEF createForked, TypeInv, ConfigsKnown, SyncPcs
  <2> QED BY <1>1, <1>5, <2>1, PrepareStep DEF createForked
<1>6. ASSUME NEW s \in Services, takeOver(s)
      PROVE  Simulates
  <2>1. CASE UNCHANGED svc
    BY <1>6, <2>1, Unseen DEF takeOver
  <2>2. CASE ~UNCHANGED svc
    <3> DEFINE changed == [w.held[s] EXCEPT !.target = LayoutOf[w.cr.cfg],
                                            !.owners = @ \cup {w.cr.uid}]
               o == [changed EXCEPT !.rv = svc[s].rv + 1]
    <3>1. w.cr.cfg \in Cfgs /\ w.cr.uid = 1
      BY <1>6 DEF takeOver, TypeInv, ConfigsKnown, FirstInv, SeesFirst, SyncPcs
    <3>2. svc' = [svc EXCEPT ![s] = o] /\ svc[s].target # Absent
      BY <1>6, <2>2 DEF takeOver
    <3>3. o \in SvcObjs /\ o.target = LayoutOf[w.cr.cfg]
      <4>1. w.held[s] \in SvcObjs /\ svc[s].rv + 1 \in Nat /\ LayoutOf[w.cr.cfg] \in Layouts
        BY <3>1, LayoutAssumption DEF Workers, SvcObjs
      <4>2. changed \in [target : {LayoutOf[w.cr.cfg]}, owners : {changed.owners},
                         rv : {changed.rv}]
        BY <4>1 DEF SvcObjs
      <4>3. w.cr.uid \in 1..MaxUid
        BY <3>1, BoundsAssumption
      <4>4. o \in SvcObjs
        BY <4>1, <4>3, TakeOverType, Zenon
      <4> HIDE DEF changed
      <4> QED BY <4>2, <4>4
    <3>4. forked[s] # 0 /\ canary[s]
      BY <1>6 DEF takeOver, FirstInv, Prepared
    <3> HIDE DEF o, changed
    <3>5. RouteOf(o.target) = "split" /\ RouteOf(svc[s].target) # "absent"
      BY <3>1, <3>2, <3>3, RouteMeans, LayoutAssumption DEF SvcObjs
    <3>6. Routing!TakeOver(s)
      BY <1>1, <1>6, <3>2, <3>4, <3>5, OutsideMeans
         DEF takeOver, Routing!TakeOver, Stage, Steady
    <3> QED BY <3>6 DEF Simulates, Routing!Next
  <2> QED BY <2>1, <2>2
<1> QED BY <1>2, <1>3, <1>4, <1>5, <1>6 DEF Sync

\* The end of recovering, and what it leaves behind.
LEMMA RecoveredEnds ==
    ASSUME TypeInv, NEW ok \in BOOLEAN, recovered(ok)
    PROVE  /\ w'.pc \in {"updateRelease", "deleteManifest", "report"} /\ Outside'
           /\ Attempt' = 0 /\ Listed' = Services
           /\ abandoned' \in {abandoned,
                abandoned \cup {s \in Services : Taken(s)' /\ (ok => passedOver(s))}}
<1>1. w'.pc \in {"updateRelease", "deleteManifest", "report"}
  BY ShapeOfState, RecoveredLeavesSync
<1> QED BY <1>1 DEF recovered, Taken, Outside, Attempt, Listed

\* An attempt that has failed is followed by another, or is the last.
LEMMA AttemptFails ==
    ASSUME TypeInv, w.pc = "recover", NEW s \in Services, failed(s)
    PROVE  /\ Listed' = Services
           /\ \/ Attempt < RecoverSteps /\ Attempt' = Attempt + 1 /\ UNCHANGED abandoned
              \/ /\ Attempt >= RecoverSteps /\ Attempt' = 0
                 /\ abandoned' \in {abandoned, abandoned \cup {t \in Services : Taken(t)'}}
<1>1. w.tries \in 0..RecoverSteps /\ RecoverSteps \in Nat
  BY ShapeOfState, BoundsAssumption DEF Workers
<1>2. CASE recovered(FALSE) /\ w.tries + 1 >= RecoverSteps
  BY <1>1, <1>2, RecoveredEnds DEF Attempt
<1>3. CASE /\ w.tries + 1 < RecoverSteps /\ UNCHANGED abandoned
           /\ w' = [w EXCEPT !.pc = "getSvcs", !.tries = @ + 1]
  <2>1. w'.pc = "getSvcs" /\ w'.tries = w.tries + 1
    BY <1>3, ShapeOfState DEF Workers
  <2> QED BY <1>1, <1>3, <2>1 DEF Attempt, Listed
<1> QED BY <1>2, <1>3 DEF failed

\* The steps of a cleanup that attempt to recover the services, and those
\* that do not.
Recovery == cleanup \/ getSvcs \/ (\E s \in Services : recoverSvcs(s)) \/ recoverDone

LEMMA CleanupOutside ==
    ASSUME TypeInv, Cleanup
    PROVE  Recovery \/ (Outside /\ Steady)
<1> USE ShapeOfState DEF At
<1>1. SUFFICES ASSUME ~Recovery PROVE Outside /\ Outside'
  BY OutsideStays
<1>2. Outside
  BY <1>1 DEF Recovery, Cleanup, applyToRelease, patchOwners, resetOwner, resetOwnerDone,
     deleteManifest, deleteForked, deleteForkedDone, deleteCanary, deleteCanaryDone, patchPhase,
     Outside
<1>3. \A p : Goto(p) \/ Report(p) => w'.pc \in {p, "report"}
  BY GotoFields, ReportFields
<1>4. \A p, set : Loop(p, set) => w'.pc = p
  BY LoopFields
<1>5. \A s : Next1(s) => w'.pc = w.pc
  BY NextFields
<1>6. CASE applyToRelease
  BY <1>2, <1>3, <1>6, ReportFields DEF applyToRelease, releaseFailed, Outside
<1>7. CASE patchOwners
  BY <1>2, <1>4, <1>7, ReportFields DEF patchOwners, Outside
<1>8. ASSUME NEW s \in Services, resetOwner(s) \/ deleteForked(s) \/ deleteCanary(s)
      PROVE  Outside /\ Outside'
  BY <1>2, <1>5, <1>8 DEF resetOwner, deleteForked, deleteCanary, Outside
<1>9. CASE resetOwnerDone \/ deleteManifest
  BY <1>2, <1>4, <1>9 DEF resetOwnerDone, deleteManifest, Outside
<1>10. CASE deleteForkedDone \/ deleteCanaryDone
  BY <1>2, <1>3, <1>4, <1>10 DEF deleteForkedDone, deleteCanaryDone, Outside
<1>11. CASE patchPhase
  BY <1>2, <1>11, ReportFields DEF patchPhase, Outside
<1> QED BY <1>1, <1>6, <1>7, <1>8, <1>9, <1>10, <1>11 DEF Cleanup, Recovery

\* Within a cleanup the end of the CanaryRelease has been requested.
LEMMA CleanupRequested ==
    ASSUME TypeInv, FirstInv, cr.uid = 1, w.pc \in CleanupPcs
    PROVE  Stage \in {"ending", "ended"} /\ Routing!CleaningUp
BY DEF FirstInv, SeesFirst, CleanupPcs, Stage, Routing!CleaningUp

LEMMA RecoverySimulates ==
    ASSUME TypeInv, TypeInv', FirstInv, cr.uid = 1, Recovery
    PROVE  Simulates
<1> USE ShapeOfState DEF At, api
<1>0. Routing!CleaningUp
  BY CleanupRequested DEF Recovery, cleanup, getSvcs, recoverSvcs, recoverDone, CleanupPcs
<1>1. CASE cleanup
  <2>1. UNCHANGED <<cr, svc, forked, canary, abandoned>> /\ Outside
    BY <1>1 DEF cleanup, Outside
  <2>2. \/ Report(w.cr.tr) \/ Goto("deprecate") \/ Goto("patchPhase")
        \/ w'.pc = "getSvcs" /\ w'.tries = 0
    BY <1>1 DEF cleanup, Workers
  <2>3. CASE w'.pc = "getSvcs" /\ w'.tries = 0
    <3>1. Routing!Begin
      BY <1>0, <2>1, <2>3, OutsideMeans DEF Routing!Begin, Stage, Attempt, Listed
    <3> QED BY <3>1 DEF Simulates, Routing!Next, Routing!Recover
  <2>4. CASE Report(w.cr.tr) \/ Goto("deprecate") \/ Goto("patchPhase")
    <3>1. Outside'
      BY <2>4, GotoFields, ReportFields DEF Outside
    <3> QED BY <2>1, <3>1, OutsideStays, Unseen
  <2> QED BY <2>2, <2>3, <2>4
<1>2. CASE getSvcs
  <2>1. w.pc = "getSvcs" /\ w'.pc = "recover" /\ w'.tries = w.tries
        /\ UNCHANGED <<cr, svc, forked, canary, abandoned>>
    BY <1>2 DEF getSvcs, Workers
  <2>2. w.tries \in Nat
    BY BoundsAssumption DEF Workers
  <2>3. Routing!List
    BY <1>0, <2>1, <2>2 DEF Routing!List, Routing!Recovering, Stage, Attempt, Listed
  <2> QED BY <2>3 DEF Simulates, Routing!Next, Routing!Recover
<1>3. ASSUME w.pc = "recover"
      PROVE  Routing!Recovering /\ Routing!Split' = {t \in Services : Taken(t)'}
  <2>1. w.tries \in Nat
    BY BoundsAssumption DEF Workers
  <2>2. Routing!Split' = {t \in Services : Taken(t)'}
    BY RouteMeans DEF Routing!Split, Taken, TypeInv, TypeOK, SvcObjs
  <2> QED BY <1>0, <1>3, <2>1, <2>2 DEF Routing!Recovering, Attempt
<1>4. CASE recoverDone
  <2>1. recovered(TRUE) /\ w.pc = "recover" /\ UNCHANGED <<cr, svc, forked, canary>>
    BY <1>4 DEF recoverDone
  <2>2. {t \in Services : Taken(t)' /\ passedOver(t)} = Routing!Split \ Listed
    BY <2>1, SplitMeans DEF Taken, Listed
  <2>3. Routing!End
    BY <1>3, <2>1, <2>2, RecoveredEnds DEF Routing!End, Stage
  <2> QED BY <2>3 DEF Simulates, Routing!Next, Routing!Recover
<1>5. ASSUME NEW s \in Services, recoverSvcs(s)
      PROVE  Simulates
  <2> DEFINE target == IF w.transition = Adopted THEN Canary ELSE Origin
             owners == IF w.transition = Adopted THEN w.held[s].owners
                                                 ELSE w.held[s].owners \ {w.cr.uid}
             o == [target |-> target, owners |-> owners, rv |-> svc[s].rv + 1]
             to == IF w.transition = Adopted THEN "canary" ELSE "original"
  <2>1. w.pc = "recover" /\ s \in w.todo /\ UNCHANGED <<cr, forked, canary>>
    BY <1>5 DEF recoverSvcs
  <2>2. s \in Listed
    BY <2>1 DEF FirstInv, Recovered, Listed
  <2>3. ASSUME svc[s].target # Absent, svc' = [svc EXCEPT ![s] = o]
        PROVE  Routing!Changes(s, to)
    <3>1. RouteOf(svc[s].target) # "absent" /\ RouteOf(target) = to
      BY <2>3, RouteMeans DEF SvcObjs
    <3>2. o.target = target
      OBVIOUS
    <3>3. [t \in Services |-> RouteOf(svc'[t].target)]
            = [[t \in Services |-> RouteOf(svc[t].target)] EXCEPT ![s] = to]
      <4> HIDE DEF o, to, target
      <4> QED BY <2>3, <3>1, <3>2
    <3> HIDE DEF o, to, target
    <3> QED BY <3>1, <3>3 DEF Routing!Changes
  <2>4. \/ /\ Next1(s) /\ abandoned' = abandoned \ {s}
           /\ svc[s].target # Absent /\ svc' = [svc EXCEPT ![s] = o]
        \/ /\ failed(s)
           /\ UNCHANGED svc \/ (svc[s].target # Absent /\ svc' = [svc EXCEPT ![s] = o])
    BY <1>5 DEF recoverSvcs
  <2>5. to \in {"original", "canary"}
    OBVIOUS
  <2> HIDE DEF o, to
  <2>6. CASE /\ Next1(s) /\ abandoned' = abandoned \ {s}
             /\ svc[s].target # Absent /\ svc' = [svc EXCEPT ![s] = o]
    <3>1. Steady
      <4>1. w'.pc = "recover" /\ Same /\ w'.tries = w.tries
        BY <2>1, <2>6, NextFields DEF Next1, Workers
      <4> QED BY <2>1, <4>1 DEF Steady, Attempt, Listed, Same, passedOver
    <3>2. Routing!GiveBack(s, to)
      BY <1>3, <2>1, <2>2, <2>3, <2>6, <3>1 DEF Routing!GiveBack, Stage, Steady
    <3> QED BY <2>5, <3>2 DEF Simulates, Routing!Next, Routing!Recover
  <2>7. CASE /\ failed(s)
             /\ UNCHANGED svc \/ (svc[s].target # Absent /\ svc' = [svc EXCEPT ![s] = o])
    <3>1. \/ UNCHANGED [t \in Services |-> RouteOf(svc[t].target)]
          \/ \E t \in Listed, r \in {"original", "canary"} : Routing!Changes(t, r)
      BY <2>2, <2>3, <2>5, <2>7
    <3>2. UNCHANGED <<Stage, {t \in Services : forked[t] # 0 /\ canary[t]}>>
      BY <2>1 DEF Stage
    <3>3. Routing!Fail
      BY <1>3, <2>1, <2>7, <3>1, <3>2, AttemptFails DEF Routing!Fail
    <3> QED BY <3>3 DEF Simulates, Routing!Next, Routing!Recover
  <2> QED BY <2>4, <2>6, <2>7
<1> QED BY <1>1, <1>2, <1>4, <1>5 DEF Recovery

LEMMA CleanupSimulates ==
    ASSUME TypeInv, TypeInv', FirstInv, cr.uid = 1, Cleanup
    PROVE  Simulates
<1>0. SUFFICES ASSUME Outside, Steady PROVE Simulates
  BY RecoverySimulates, CleanupOutside
<1> USE ShapeOfState DEF At, api, memory, caches
<1>1. Stage \in {"ending", "ended"} /\ w.cr.tr # None /\ cr.tr # None /\ w.cr.uid = 1
  BY DEF Cleanup, cleanup, getSvcs, recoverSvcs, recoverDone, applyToRelease, patchOwners,
     resetOwner, resetOwnerDone, deleteManifest, deleteForked, deleteForkedDone, deleteCanary,
     deleteCanaryDone, patchPhase, FirstInv, SeesFirst, CleanupPcs, Stage
<1>2. CASE Recovery
  BY <1>2, RecoverySimulates
<1>3. CASE applyToRelease \/ patchOwners
  BY <1>0, <1>3, Unseen DEF applyToRelease, patchOwners
<1>4. CASE resetOwnerDone \/ deleteForkedDone \/ deleteCanaryDone
  BY <1>0, <1>4, Unseen DEF resetOwnerDone, deleteForkedDone, deleteCanaryDone
<1>6. ASSUME NEW s \in Services, resetOwner(s)
      PROVE  Simulates
  <2> DEFINE o == [svc[s] EXCEPT !.owners = {}, !.rv = @ + 1]
  <2>1. o \in SvcObjs /\ o.target = svc[s].target
    BY ResetType DEF SvcObjs
  <2>2. UNCHANGED svc \/ svc' = [svc EXCEPT ![s] = o]
    BY <1>6 DEF resetOwner
  <2> HIDE DEF o
  <2> QED BY <1>0, <1>6, <2>1, <2>2, RoutesSame, Unseen DEF resetOwner
<1>7. CASE deleteManifest
  BY <1>0, <1>1, <1>7, DiscardStep DEF deleteManifest, FirstInv, Recovered, NoCanary
<1>8. ASSUME NEW s \in Services, deleteForked(s)
      PROVE  Simulates
  <2>1. Released(s)
    BY <1>8 DEF deleteForked, FirstInv, Recovered
  <2> QED BY <1>0, <1>1, <1>8, <2>1, DiscardStep DEF deleteForked
<1>9. ASSUME NEW s \in Services, deleteCanary(s)
      PROVE  Simulates
  <2>1. Released(s)
    BY <1>9 DEF deleteCanary, FirstInv, Recovered
  <2> QED BY <1>0, <1>1, <1>9, <2>1, DiscardStep DEF deleteCanary
<1>10. CASE patchPhase
  BY <1>0, <1>1, <1>10, StageStep DEF patchPhase, CanaryReleases
<1> QED BY <1>2, <1>3, <1>4, <1>6, <1>7, <1>8, <1>9, <1>10 DEF Cleanup, Recovery

LEMMA OthersSimulate ==
    ASSUME TypeInv, TypeInv', FirstInv, cr.uid = 1, cr'.uid = 1,
           Process \/ User \/ ReleaseController \/ GarbageCollector
    PROVE  Simulates
<1> USE ShapeOfState DEF api, memory, caches
<1>1. CASE Process
  <2>1. UNCHANGED <<cr, svc, forked, canary, abandoned>>
    BY <1>1 DEF Process, Run, handleSigterm, waitForCleanup, Exit, Crash, Down
  <2>2. CASE UNCHANGED w
    BY <2>1, <2>2, SameWorker, Unseen
  <2>3. CASE ~UNCHANGED w
    <3>1. w'.pc = "idle" /\ Outside'
      BY <1>1, <2>3 DEF Process, Run, handleSigterm, waitForCleanup, Exit, Crash, Down, Idle,
         Outside
    <3>2. CASE Outside
      BY <2>1, <3>1, <3>2, OutsideStays, Unseen
    <3>3. CASE ~Outside
      <4>1. w.tries \in Nat
        BY BoundsAssumption DEF Workers
      <4>2. Routing!Recovering
        BY <3>3, <4>1, CleanupRequested DEF Routing!Recovering, Outside, Attempt, CleanupPcs
      <4>3. Routing!End
        BY <2>1, <3>1, <4>2 DEF Routing!End, Stage, Attempt, Listed
      <4> QED BY <4>3 DEF Simulates, Routing!Next, Routing!Recover
    <3> QED BY <3>2, <3>3
  <2> QED BY <2>2, <2>3
<1>0. ASSUME User \/ ReleaseController \/ GarbageCollector PROVE Steady
  BY <1>0, SameWorker DEF User, UserEdits, UserRecreates, UserEnds, UserDeletes,
     UserUpdatesRelease, UserDeletesRelease, UserUnchanged, ReleaseController, GarbageCollector
<1>2. CASE User
  <2>1. ASSUME NEW c \in Cfgs, UserEdits(c) PROVE Simulates
    BY <1>0, <1>2, <2>1, StageStep DEF UserEdits, UserUnchanged, CanaryReleases
  <2>2. ASSUME NEW t \in {Adopted, Deprecated}, UserEnds(t) PROVE Simulates
    BY <1>0, <1>2, <2>2, StageStep DEF UserEnds, UserUnchanged, CanaryReleases, Adopted, Deprecated, None
  <2>3. CASE UserUpdatesRelease \/ UserDeletesRelease
    BY <1>0, <1>2, <2>3, Unseen DEF UserUpdatesRelease, UserDeletesRelease, UserUnchanged
  <2>4. CASE UserDeletes
    BY <2>4 DEF UserDeletes, NoCR
  <2> QED BY <1>2, <2>1, <2>2, <2>3, <2>4 DEF User, UserRecreates
<1>3. CASE ReleaseController
  BY <1>0, <1>3, Unseen DEF ReleaseController
<1>4. CASE GarbageCollector
  <2>1. \A s \in Services : forked[s] \in {0, cr.uid}
    BY DEF FirstInv, SeesFirst
  <2>2. PICK s \in Services :
          /\ svc' = [svc EXCEPT ![s] = [target |-> Absent, owners |-> {}, rv |-> svc[s].rv]]
          /\ UNCHANGED <<cr, forked, canary, abandoned>>
    BY <1>4, <2>1 DEF GarbageCollector
  <2>3. RouteOf(Absent) = "absent"
    BY RouteMeans
  <2>4. Routing!Lose(s)
    BY <1>0, <1>4, <2>2, <2>3 DEF Routing!Lose, Stage, Steady
  <2> QED BY <2>4 DEF Simulates, Routing!Next
<1> QED BY <1>1, <1>2, <1>3, <1>4

LEMMA FirstSimulates ==
    ASSUME TypeInv, TypeInv', FirstInv, cr.uid = 1, cr'.uid = 1, Next
    PROVE  Simulates
<1> USE ShapeOfState DEF api, caches
<1>1. CASE Informers
  BY <1>1, SameWorker, Unseen DEF Informers, RefreshCR, RefreshRelease, RefreshServices
<1>2. ASSUME NEW it \in queue, syncCanaryRelease(it) PROVE Simulates
  <2>1. CASE UNCHANGED w
    BY <1>2, <2>1, SameWorker, Unseen DEF syncCanaryRelease
  <2>2. CASE ~UNCHANGED w
    <3>1. Outside /\ Outside'
      BY <1>2, <2>2 DEF syncCanaryRelease, Start, gone, At, Outside, Workers
    <3> QED BY <1>2, <3>1, OutsideStays, Unseen DEF syncCanaryRelease
  <2> QED BY <2>1, <2>2
<1>3. CASE deprecate
  <2>1. Outside /\ Outside'
    BY <1>3, ReportFields, ReturnFields DEF deprecate, At, Outside
  <2> QED BY <1>3, <2>1, OutsideStays, StageStep DEF deprecate, CanaryReleases, Deprecated, None
<1>4. CASE report
  <2>1. Outside /\ Outside'
    BY <1>4, ReturnFields DEF report, At, Outside
  <2> QED BY <1>4, <2>1, OutsideStays, Unseen DEF report
<1> QED BY <1>1, <1>2, <1>3, <1>4, SyncSimulates, CleanupSimulates, OthersSimulate
        DEF Next, Worker

\* From the deletion of the first CanaryRelease on, nothing is promised.
LEMMA DeletedSimulates ==
    ASSUME TypeInv, Next, cr'.uid # 1
    PROVE  Simulates
<1>1. CASE cr.uid # 1
  <2>1. Routing!Gone
    BY <1>1 DEF Routing!Gone, Stage
  <2> QED BY <2>1 DEF Simulates, Routing!Next
<1>2. CASE cr.uid = 1
  <2> USE ShapeOfState DEF api
  <2>1. UserDeletes
    <3>1. ~UNCHANGED cr
      BY <1>2
    <3>2. CASE Informers \/ Process \/ ReleaseController \/ GarbageCollector
      BY <3>1, <3>2 DEF Informers, RefreshCR, RefreshRelease, RefreshServices, Process, Run,
         handleSigterm, waitForCleanup, Exit, Crash, Down, ReleaseController, GarbageCollector
    <3>3. CASE (\E it \in queue : syncCanaryRelease(it)) \/ report
      BY <3>1, <3>3 DEF syncCanaryRelease, report
    <3>4. CASE deprecate \/ patchManifest \/ patchPhase
      BY <1>2, <3>1, <3>4 DEF deprecate, patchManifest, patchPhase, CanaryReleases
    <3>5. CASE Sync /\ ~patchManifest
      BY <3>1, <3>5 DEF Sync, renderService, updateObjects, createForked, OnUpdate, takeOver,
         setRunningConfig
    <3>6. CASE Cleanup /\ ~patchPhase
      BY <3>1, <3>6 DEF Cleanup, cleanup, getSvcs, recoverSvcs, recoverDone, applyToRelease,
         patchOwners, resetOwner, resetOwnerDone, deleteManifest, deleteForked,
         deleteForkedDone, deleteCanary, deleteCanaryDone
    <3>7. CASE User
      BY <1>2, <3>1, <3>7 DEF User, UserEdits, UserRecreates, UserEnds, UserUpdatesRelease,
         UserDeletesRelease, UserUnchanged, CanaryReleases
    <3> QED BY <3>2, <3>3, <3>4, <3>5, <3>6, <3>7 DEF Next, Worker
  <2>2. Steady
    BY <2>1, SameWorker DEF UserDeletes, UserUnchanged
  <2>3. Routing!Advance
    BY <1>2, <2>1, <2>2
       DEF UserDeletes, UserUnchanged, NoCR, Routing!Advance, Routing!Advances, Stage, Steady
  <2> QED BY <2>3 DEF Simulates, Routing!Next
<1> QED BY <1>1, <1>2

LEMMA InitSimulates == Init => Routing!Init
<1> SUFFICES ASSUME Init PROVE Routing!Init
  OBVIOUS
<1>1. /\ cr.uid = 1 /\ cr.tr = None /\ cr.phase = None /\ abandoned = {}
      /\ \A s \in Services : svc[s].target = Origin /\ forked[s] = 0
  BY DEF Init, NoCR, NoForked
<1>2. RouteOf(Origin) = "original"
  BY RouteMeans
<1>3. Attempt = 0 /\ Listed = Services
  BY OutsideMeans DEF Init, Idle, Outside
<1> QED BY <1>1, <1>2, <1>3 DEF Routing!Init, Stage

\* Whatever the users, the caches, the faults and the crashes do, the proxy
\* moves the traffic of the first CanaryRelease only as TrafficRouting allows.
THEOREM ProxyImplementsRouting == Spec => ImplementsRouting
<1>1. TypeInv /\ BackendsInv /\ TypeInv' /\ [Next]_vars => [Routing!Next]_Routing!vars
  <2> SUFFICES ASSUME TypeInv, BackendsInv, TypeInv', [Next]_vars PROVE Simulates
    BY DEF Simulates
  <2>1. CASE UNCHANGED vars
    BY <2>1, SameWorker, Unseen DEF vars, api
  <2>2. CASE Next /\ cr'.uid # 1
    BY <2>2, DeletedSimulates
  <2>3. CASE Next /\ cr'.uid = 1
    <3>1. cr.uid = 1 /\ FirstInv
      BY <2>3, FirstBefore DEF BackendsInv
    <3> QED BY <2>3, <3>1, FirstSimulates
  <2> QED BY <2>1, <2>2, <2>3
<1> QED BY Invariants, InitSimulates, <1>1, PTL DEF Spec, ImplementsRouting, Routing!Spec

=============================================================================
