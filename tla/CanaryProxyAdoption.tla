------------------------ MODULE CanaryProxyAdoption ------------------------
(***************************************************************************)
(* What an adoption writes, when it may count as done, and what a former   *)
(* incarnation of the CanaryRelease may still undo, proved of every        *)
(* incarnation.                                                            *)
(***************************************************************************)
EXTENDS CanaryProxyProofs

(***************************************************************************)
(* AdoptedIsApplied, of every incarnation.  The invariant follows the      *)
(* revision from the Release through its cached copy into the worker, and  *)
(* the transition from the CanaryRelease to the phase.                     *)
(***************************************************************************)

AppliedPcs == {"patchOwners", "resetOwner", "deleteForked", "deleteCanary", "patchPhase"}

AdoptionInv ==
    /\ rel.rev >= 1
    /\ relCache.exists => relCache.rev >= 1
    /\ w.pc \in {"getSvcs", "recover", "updateRelease"} /\ w.transition = Adopted
         => w.release.rev >= 1
    /\ w.pc \in {"updateRelease", "patchOwners", "resetOwner", "deleteCanary"}
         => w.transition = Adopted
    /\ w.pc \in CleanupPcs \ {"cleanup"} /\ w.cr.tr = Adopted => w.transition = Adopted
    /\ w.pc = "deleteManifest" => w.transition # Adopted
    /\ w.pc \in AppliedPcs /\ w.transition = Adopted /\ w.cr.tr = Adopted => rel.rev > 1
    /\ AdoptedIsApplied

Grows == rel' = rel \/ (rel'.rev \in Nat /\ rel'.rev >= rel.rev)
LeavesCleanup == w' = w \/ w'.pc \notin CleanupPcs \ {"cleanup"}
KeepsPhase == cr'.phase # Adopted \/ cr'.phase = cr.phase

\* Any step that leaves the cleanup, the Release and the phase alone.
LEMMA AdoptionElsewhere ==
    ASSUME TypeInv, AdoptionInv, LeavesCleanup, Grows, KeepsPhase,
           relCache' \in {relCache, rel, NoRelease}
    PROVE  AdoptionInv'
<1>1. rel.rev \in Nat /\ NoRelease.exists = FALSE
  BY DEF TypeInv, TypeOK, Releases, NoRelease
<1> QED BY <1>1 DEF AdoptionInv, AdoptedIsApplied, AppliedPcs, CleanupPcs, LeavesCleanup, Grows,
            KeepsPhase

\* In particular one that only ends the handler or starts another.
LEMMA AdoptionLeft ==
    ASSUME TypeInv, AdoptionInv, w'.pc \notin CleanupPcs \ {"cleanup"},
           UNCHANGED <<cr, rel, relCache>>
    PROVE  AdoptionInv'
BY AdoptionElsewhere DEF LeavesCleanup, Grows, KeepsPhase

LEMMA AdoptionSame ==
    ASSUME AdoptionInv, UNCHANGED <<cr, rel, relCache, w>>
    PROVE  AdoptionInv'
BY DEF AdoptionInv, AdoptedIsApplied

LEMMA AdoptionCleanup ==
    ASSUME TypeInv, AdoptionInv, Cleanup
    PROVE  AdoptionInv'
<1> USE ShapeOfState DEF At, api, caches, memory
<1>0. /\ w \in Workers /\ rel \in Releases /\ relCache \in Releases /\ cr \in CanaryReleases
      /\ w.release \in Releases
  BY DEF TypeInv, TypeOK, Workers
<1>n. rel.rev \in Nat /\ w.release.rev \in Nat
  BY <1>0 DEF Releases
<1>r. ASSUME UNCHANGED <<cr, rel, relCache>>, w'.pc \in {"report", "deprecate"}
      PROVE  AdoptionInv'
  <2>1. w'.pc \notin CleanupPcs \ {"cleanup"}
    BY <1>r DEF CleanupPcs
  <2> QED BY <1>r, <2>1, AdoptionLeft
<1>1. CASE cleanup
  <2>1. CASE Report(w.cr.tr) \/ Goto("deprecate")
    <3>1. w'.pc \in {"report", "deprecate"}
      BY <2>1, <1>0, ReportFields, GotoFields
    <3>2. UNCHANGED <<cr, rel, relCache>>
      BY <1>1 DEF cleanup
    <3> QED BY <3>1, <3>2, <1>r
  <2>0. UNCHANGED <<cr, rel, relCache>> /\ AdoptedIsApplied'
    BY <1>1 DEF cleanup, AdoptionInv, AdoptedIsApplied
  <2>2. CASE /\ ~moved
             /\ w' = [w EXCEPT !.pc = "getSvcs", !.transition = Adopted, !.tries = 0,
                               !.release = relCache]
    <3>1. w'.pc = "getSvcs" /\ w'.transition = Adopted /\ w'.release = relCache
      BY <1>0, <2>2 DEF Workers
    <3> QED BY <2>0, <2>2, <3>1 DEF moved, AdoptionInv, AppliedPcs
  <2>3. CASE /\ w.cr.tr # Adopted
             /\ w' = [w EXCEPT !.pc = "getSvcs", !.transition = Deprecated, !.tries = 0]
    <3>1. /\ w'.pc = "getSvcs" /\ w'.transition # Adopted /\ w'.cr = w.cr
      BY <1>0, <2>3 DEF Workers, Adopted, Deprecated
    <3> QED BY <2>0, <2>3, <3>1 DEF AdoptionInv, AppliedPcs
  <2>4. CASE w.cr.tr # Adopted /\ Goto("patchPhase")
    <3>1. w'.pc = "patchPhase" /\ w'.cr = w.cr
      BY <1>0, <2>4 DEF Goto, Workers
    <3> QED BY <2>0, <2>4, <3>1 DEF AdoptionInv, AppliedPcs
  <2>5. \/ Report(w.cr.tr) \/ Goto("deprecate")
        \/ /\ ~moved
           /\ w' = [w EXCEPT !.pc = "getSvcs", !.transition = Adopted, !.tries = 0,
                             !.release = relCache]
        \/ /\ w.cr.tr # Adopted
           /\ w' = [w EXCEPT !.pc = "getSvcs", !.transition = Deprecated, !.tries = 0]
        \/ w.cr.tr # Adopted /\ Goto("patchPhase")
    BY <1>1 DEF cleanup, None, Adopted, Deprecated
  <2> QED BY <2>1, <2>2, <2>3, <2>4, <2>5
<1>2. CASE getSvcs
  BY <1>0, <1>2 DEF getSvcs, Workers, AdoptionInv, AdoptedIsApplied, AppliedPcs, CleanupPcs
<1>3. ASSUME NEW ok \in BOOLEAN, recovered(ok), w.pc = "recover",
             UNCHANGED <<cr, rel, relCache>>
      PROVE  AdoptionInv'
  <2>1. CASE Report("Error")
    BY <1>3, <1>r, <2>1, ReportFields
  <2>2. CASE ~Report("Error")
    BY <1>0, <1>3, <2>2 DEF recovered, adoptionGoesOn, Goto, Workers, AdoptionInv,
       AdoptedIsApplied, AppliedPcs, CleanupPcs
  <2> QED BY <2>1, <2>2
<1>4. CASE recoverDone
  BY <1>3, <1>4 DEF recoverDone
<1>5. ASSUME NEW s \in Services, recoverSvcs(s)
      PROVE  AdoptionInv'
  <2>1. \/ Next1(s)
        \/ w' = [w EXCEPT !.pc = "getSvcs", !.tries = @ + 1]
        \/ recovered(FALSE)
    BY <1>5 DEF recoverSvcs, failed
  <2>2. CASE Next1(s)
    BY <1>0, <1>5, <2>2 DEF recoverSvcs, Next1, Workers, AdoptionInv, AdoptedIsApplied,
       AppliedPcs, CleanupPcs
  <2>3. CASE w' = [w EXCEPT !.pc = "getSvcs", !.tries = @ + 1]
    BY <1>0, <1>5, <2>3 DEF recoverSvcs, Workers, AdoptionInv, AdoptedIsApplied, AppliedPcs,
       CleanupPcs
  <2> QED BY <1>3, <1>5, <2>1, <2>2, <2>3 DEF recoverSvcs
<1>6. CASE applyToRelease
  <2> DEFINE changed == [w.release EXCEPT !.rev = @ + 1]
  <2>0. w.release.rev >= 1
    BY <1>6 DEF applyToRelease, AdoptionInv
  <2>1. changed \in Releases /\ changed.rev = w.release.rev + 1 /\ changed.rev > 1
    BY <1>0, <1>n, <2>0 DEF Releases
  <2>2. rel' = rel \/ rel'.rev = changed.rev
    BY <1>6, <2>1 DEF applyToRelease, Releases
  <2>3. relCache' \in {changed, relCache} /\ UNCHANGED cr
    BY <1>6 DEF applyToRelease
  <2>4. Report("Error") \/ (Goto("patchOwners") /\ rel'.rev = changed.rev)
    BY <1>6, <2>1 DEF applyToRelease, releaseFailed, Releases
  <2>5. CASE Report("Error")
    <3>1. w'.pc = "report"
      BY <2>5, ReportFields
    <3>2. changed.rev \in Nat
      BY <2>1 DEF Releases
    <3> HIDE DEF changed
    <3> QED BY <1>n, <2>1, <2>2, <2>3, <3>1, <3>2
            DEF AdoptionInv, AdoptedIsApplied, AppliedPcs, CleanupPcs
  <2>6. CASE Goto("patchOwners") /\ rel'.rev = changed.rev
    <3>1. w'.pc = "patchOwners" /\ w'.transition = w.transition /\ w'.cr = w.cr
      BY <1>0, <2>6, GotoFields DEF Same
    <3>2. w.transition = Adopted
      BY <1>6 DEF applyToRelease, AdoptionInv
    <3>3. changed.rev \in Nat
      BY <2>1 DEF Releases
    <3> HIDE DEF changed
    <3> QED BY <1>n, <2>1, <2>3, <2>6, <3>1, <3>2, <3>3
            DEF AdoptionInv, AdoptedIsApplied, AppliedPcs, CleanupPcs
  <2> QED BY <2>4, <2>5, <2>6
<1>7. CASE UNCHANGED <<rel, relCache, cr>> /\ w'.cr = w.cr /\ w'.transition = w.transition
           /\ w.pc \in AppliedPcs
           /\ w'.pc \in AppliedPcs
           /\ (w'.pc \in {"patchOwners", "resetOwner", "deleteCanary"} => w.transition = Adopted)
  BY <1>7 DEF AdoptionInv, AdoptedIsApplied, AppliedPcs, CleanupPcs
<1>8. CASE patchOwners
  BY <1>0, <1>8, <1>7, <1>r, LoopFields, ReportFields
     DEF patchOwners, AdoptionInv, AppliedPcs, Same
<1>9. ASSUME NEW s \in Services, resetOwner(s) \/ deleteForked(s) \/ deleteCanary(s)
      PROVE  AdoptionInv'
  BY <1>0, <1>9, <1>7, NextFields DEF resetOwner, deleteForked, deleteCanary, AdoptionInv,
     AppliedPcs, Same
<1>10. CASE resetOwnerDone \/ deleteForkedDone \/ deleteCanaryDone
  BY <1>0, <1>10, <1>7, LoopFields, GotoFields DEF resetOwnerDone, deleteForkedDone,
     deleteCanaryDone, AdoptionInv, AppliedPcs, Same
<1>11. CASE deleteManifest
  <2>1. w'.pc = "deleteForked" /\ Same /\ UNCHANGED <<cr, rel, relCache>> /\ w.pc = "deleteManifest"
    BY <1>0, <1>11, LoopFields DEF deleteManifest
  <2> QED BY <2>1 DEF Same, AdoptionInv, AdoptedIsApplied, AppliedPcs, CleanupPcs
<1>12. CASE patchPhase
  <2>1. w'.pc = "report" /\ UNCHANGED <<rel, relCache>>
    BY <1>12, ReportFields DEF patchPhase
  <2>2. cr'.phase = cr.phase \/ (cr'.phase = w.cr.tr /\ w.pc = "patchPhase")
    BY <1>0, <1>12 DEF patchPhase, CanaryReleases
  <2> QED BY <2>1, <2>2 DEF AdoptionInv, AdoptedIsApplied, AppliedPcs, CleanupPcs
<1> QED BY <1>1, <1>2, <1>4, <1>5, <1>6, <1>8, <1>9, <1>10, <1>11, <1>12 DEF Cleanup

LEMMA AdoptionInductive ==
    ASSUME TypeInv, AdoptionInv, [Next]_vars
    PROVE  AdoptionInv'
<1> USE DEF api, caches, memory, At
<1>0. /\ w \in Workers /\ rel \in Releases /\ cr \in CanaryReleases
      /\ rel.rev \in Nat
  BY DEF TypeInv, TypeOK, Releases
<1>l. ASSUME UNCHANGED <<cr, rel, relCache>>,
             w' = w \/ w'.pc \in SyncPcs \cup {"idle", "report", "cleanup", "deprecate"}
      PROVE  AdoptionInv'
  <2>1. w' = w \/ w'.pc \notin CleanupPcs \ {"cleanup"}
    BY <1>l DEF SyncPcs, CleanupPcs
  <2> QED BY <1>l, <2>1, AdoptionLeft, AdoptionSame
<1>1. CASE Informers
  <2>1. LeavesCleanup /\ Grows /\ KeepsPhase /\ relCache' \in {relCache, rel, NoRelease}
    BY <1>1 DEF Informers, RefreshCR, RefreshRelease, RefreshServices, LeavesCleanup, Grows,
       KeepsPhase
  <2> QED BY <2>1, AdoptionElsewhere
<1>2. ASSUME NEW it \in queue, syncCanaryRelease(it)
      PROVE  AdoptionInv'
  <2>1. w' = w \/ w'.pc \in {"cleanup", "deprecate", "render"}
    BY <1>0, <1>2 DEF syncCanaryRelease, Start, gone, Workers
  <2>2. UNCHANGED <<cr, rel, relCache>>
    BY <1>2 DEF syncCanaryRelease
  <2> QED BY <2>1, <2>2, <1>l DEF SyncPcs
<1>3. CASE deprecate
  <2>1. w'.pc \in {"idle", "report"}
    BY <1>3, ReportFields, ReturnFields DEF deprecate
  <2>2. cr'.phase = cr.phase /\ UNCHANGED <<rel, relCache>>
    BY <1>0, <1>3 DEF deprecate, CanaryReleases
  <2>3. LeavesCleanup /\ Grows /\ KeepsPhase
    BY <2>1, <2>2 DEF LeavesCleanup, Grows, KeepsPhase, CleanupPcs
  <2> QED BY <2>2, <2>3, AdoptionElsewhere
<1>4. CASE report
  <2>1. w'.pc = "idle" /\ UNCHANGED <<cr, rel, relCache>>
    BY <1>4, ReturnFields DEF report
  <2> QED BY <2>1, <1>l
<1>5. CASE Sync
  <2>1. w'.pc \in SyncPcs \cup {"report"}
    BY <1>0, <1>5, GotoFields, LoopFields, NextFields, ReportFields
       DEF Sync, renderService, updateObjects, patchManifest, createForked, createFailed,
           OnUpdate, takeOver, setRunningConfig, SyncPcs, Workers
  <2>2. UNCHANGED <<rel, relCache>> /\ cr'.phase = cr.phase
    BY <1>0, <1>5 DEF Sync, renderService, updateObjects, patchManifest, createForked, OnUpdate,
       takeOver, setRunningConfig, CanaryReleases
  <2>3. LeavesCleanup /\ Grows /\ KeepsPhase
    BY <2>1, <2>2 DEF LeavesCleanup, Grows, KeepsPhase, SyncPcs, CleanupPcs
  <2> QED BY <2>2, <2>3, AdoptionElsewhere
<1>6. CASE Cleanup
  BY <1>6, AdoptionCleanup
<1>7. CASE Process
  <2>1. w' = w \/ w'.pc = "idle"
    BY <1>7 DEF Process, Run, handleSigterm, waitForCleanup, Exit, Crash, Down, Idle
  <2>2. UNCHANGED <<cr, rel>> /\ relCache' \in {relCache, rel, NoRelease}
    BY <1>7 DEF Process, Run, handleSigterm, waitForCleanup, Exit, Crash, Down
  <2>3. LeavesCleanup /\ Grows /\ KeepsPhase
    BY <2>1, <2>2 DEF LeavesCleanup, Grows, KeepsPhase, CleanupPcs
  <2> QED BY <2>2, <2>3, AdoptionElsewhere
<1>8. CASE User
  <2>1. UNCHANGED <<w, relCache>>
    BY <1>8 DEF User, UserEdits, UserRecreates, UserEnds, UserDeletes, UserUpdatesRelease,
       UserDeletesRelease, UserUnchanged
  <2>2. KeepsPhase
    <3>1. None # Adopted
      BY DEF None, Adopted
    <3>2. ASSUME NEW c \in Cfgs, UserEdits(c) PROVE cr'.phase = cr.phase
      BY <1>0, <3>2 DEF UserEdits, CanaryReleases
    <3>3. ASSUME NEW c \in Cfgs, UserRecreates(c) PROVE cr'.phase = None
      BY <3>3 DEF UserRecreates, NoCR
    <3>4. ASSUME NEW t \in {Adopted, Deprecated}, UserEnds(t) PROVE cr'.phase = cr.phase
      BY <1>0, <3>4 DEF UserEnds, CanaryReleases
    <3>5. CASE UserDeletes
      BY <3>1, <3>5 DEF UserDeletes, NoCR, KeepsPhase
    <3>6. CASE UserUpdatesRelease \/ UserDeletesRelease
      BY <3>6 DEF UserUpdatesRelease, UserDeletesRelease, KeepsPhase
    <3> QED BY <1>8, <3>1, <3>2, <3>3, <3>4, <3>5, <3>6 DEF User, KeepsPhase
  <2>3. Grows
    <3>1. CASE UNCHANGED rel
      BY <3>1 DEF Grows
    <3>2. CASE UserUpdatesRelease
      BY <1>0, <3>2 DEF UserUpdatesRelease, Grows, Releases
    <3>3. CASE UserDeletesRelease
      BY <1>0, <3>3 DEF UserDeletesRelease, Grows, Releases
    <3> QED BY <1>8, <3>1, <3>2, <3>3 DEF User, UserEdits, UserRecreates, UserEnds, UserDeletes
  <2> QED BY <2>1, <2>2, <2>3, AdoptionElsewhere DEF LeavesCleanup
<1>9. CASE ReleaseController
  <2>1. rel'.rev = rel.rev /\ UNCHANGED <<w, relCache, cr>>
    BY <1>0, <1>9 DEF ReleaseController, Releases
  <2>2. LeavesCleanup /\ Grows /\ KeepsPhase
    BY <1>0, <2>1 DEF LeavesCleanup, Grows, KeepsPhase
  <2> QED BY <2>1, <2>2, AdoptionElsewhere
<1>10. CASE GarbageCollector
  BY <1>10, AdoptionSame DEF GarbageCollector
<1>11. CASE UNCHANGED vars
  BY <1>11, AdoptionSame DEF vars
<1> QED BY <1>1, <1>2, <1>3, <1>4, <1>5, <1>6, <1>7, <1>8, <1>9, <1>10, <1>11 DEF Next, Worker

\* No phase says Adopted before the canary's config is in the Release: an error
\* on the way ends the cleanup with the phase unset (proxy.go:939-984).
THEOREM AdoptedOnlyIfApplied == Spec => []AdoptedIsApplied
<1>1. Init => AdoptionInv
  BY DEF Init, AdoptionInv, AdoptedIsApplied, Idle, NoCR, NoRelease, AppliedPcs, CleanupPcs,
     None, Adopted
<1>2. TypeInv /\ AdoptionInv /\ [Next]_vars => AdoptionInv'
  BY AdoptionInductive
<1>3. AdoptionInv => AdoptedIsApplied
  BY DEF AdoptionInv
<1> QED BY Invariants, <1>1, <1>2, <1>3, PTL DEF Spec

----------------------------------------------------------------------------
(***************************************************************************)
(* AdoptsItsVersion.  The invariant says that a copy of the Release with   *)
(* the current resourceVersion has the current version; the full Update    *)
(* that an adoption sends succeeds only with such a copy.                  *)
(***************************************************************************)

Sound(r) == r.rv <= rel.rv /\ (r.rv = rel.rv => r.ver = rel.ver)

VersionInv ==
    /\ rel.rv >= 1
    /\ Sound(relCache) /\ Sound(w.release)
    /\ w.pc \in {"getSvcs", "recover", "updateRelease"} /\ w.transition = Adopted
         => w.release.ver = w.cr.ver

ReleaseMoves == rel' = rel \/ rel'.rv = rel.rv + 1

LEMMA ReleaseStep ==
    ASSUME TypeInv, Next
    PROVE  ReleaseMoves
<1> USE DEF api, ReleaseMoves
<1>0. rel \in Releases
  BY DEF TypeInv, TypeOK
<1>1. ASSUME UNCHANGED rel PROVE ReleaseMoves
  BY <1>1
<1>2. CASE Informers \/ (\E it \in queue : syncCanaryRelease(it)) \/ deprecate \/ report
  BY <1>2 DEF Informers, RefreshCR, RefreshRelease, RefreshServices, syncCanaryRelease,
     deprecate, report
<1>3. CASE Sync
  BY <1>3 DEF Sync, renderService, updateObjects, patchManifest, createForked, OnUpdate,
     takeOver, setRunningConfig
<1>4. CASE applyToRelease
  BY <1>0, <1>4 DEF applyToRelease, TypeInv, TypeOK, Workers, Releases
<1>5. CASE Cleanup /\ ~applyToRelease
  BY <1>5 DEF Cleanup, cleanup, getSvcs, recoverSvcs, recoverDone, patchOwners, resetOwner,
     resetOwnerDone, deleteManifest, deleteForked, deleteForkedDone, deleteCanary,
     deleteCanaryDone, patchPhase
<1>6. CASE Process \/ GarbageCollector
  BY <1>6 DEF Process, Run, handleSigterm, waitForCleanup, Exit, Crash, Down, GarbageCollector
<1>7. CASE User
  BY <1>0, <1>7 DEF User, UserEdits, UserRecreates, UserEnds, UserDeletes, UserUpdatesRelease,
     UserDeletesRelease, Releases
<1>8. CASE ReleaseController
  BY <1>0, <1>8 DEF ReleaseController, Releases
<1> QED BY <1>2, <1>3, <1>4, <1>5, <1>6, <1>7, <1>8 DEF Next, Worker

AdoptionVersion(worker) ==
    worker.pc \in {"getSvcs", "recover", "updateRelease"} /\ worker.transition = Adopted
    => worker.release.ver = worker.cr.ver

\* What a step does to the copies, and to the worker that holds one.
CopiesMove ==
    /\ \/ relCache' \in {relCache, rel', NoRelease}
       \/ relCache'.rv = w.release.rv /\ relCache'.ver = w.release.ver
    /\ w'.release \in {w.release, relCache, NoRelease}
    /\ AdoptionVersion(w')

LEMMA CopiesStaySound ==
    ASSUME TypeInv, TypeInv', VersionInv, ReleaseMoves, CopiesMove
    PROVE  VersionInv'
<1>1. /\ rel \in Releases /\ rel' \in Releases /\ relCache \in Releases /\ relCache' \in Releases
      /\ w.release \in Releases /\ w'.release \in Releases
  BY DEF TypeInv, TypeOK, Workers
<1>2. rel'.rv >= 1 /\ NoRelease.rv = 0
  BY <1>1 DEF ReleaseMoves, VersionInv, Releases, NoRelease
<1>3. ASSUME NEW r \in Releases, Sound(r), NEW q \in Releases, q.rv = r.rv, q.ver = r.ver
      PROVE  q.rv <= rel'.rv /\ (q.rv = rel'.rv => q.ver = rel'.ver)
  BY <1>1, <1>3 DEF Sound, ReleaseMoves, Releases
<1>4. Sound(relCache)'
  BY <1>1, <1>2, <1>3 DEF CopiesMove, Sound, VersionInv, Releases
<1>5. Sound(w.release)'
  BY <1>1, <1>2, <1>3 DEF CopiesMove, Sound, VersionInv, Releases
<1> QED BY <1>2, <1>4, <1>5 DEF VersionInv, CopiesMove, AdoptionVersion

LEMMA CopiesOfCleanup ==
    ASSUME TypeInv, VersionInv, Cleanup
    PROVE  CopiesMove
<1> USE DEF At, caches, memory, api
<1>0. w \in Workers /\ AdoptionVersion(w) /\ w.release \in Releases
  BY DEF TypeInv, TypeOK, VersionInv, AdoptionVersion, Workers
<1>p. ASSUME NEW r, Report(r)
      PROVE  w'.release = NoRelease /\ AdoptionVersion(w')
  <2>1. w'.pc = "report" /\ w'.release = NoRelease
    BY <1>p DEF Report, Idle
  <2> QED BY <2>1 DEF AdoptionVersion
<1>g. ASSUME NEW p \in {"deprecate", "patchPhase", "resetOwner", "deleteForked", "deleteCanary"},
             Goto(p) \/ \E set : Loop(p, set)
      PROVE  w'.release = w.release /\ AdoptionVersion(w')
  <2>1. w'.pc = p /\ w'.release = w.release
    BY <1>0, <1>g DEF Goto, Loop, Workers
  <2> QED BY <2>1 DEF AdoptionVersion
<1>1. CASE cleanup
  <2>1. UNCHANGED relCache
    BY <1>1 DEF cleanup
  <2>2. CASE Report(w.cr.tr) \/ Goto("deprecate") \/ Goto("patchPhase")
    BY <1>p, <1>g, <2>1, <2>2 DEF CopiesMove
  <2>3. CASE /\ ~moved
             /\ w' = [w EXCEPT !.pc = "getSvcs", !.transition = Adopted, !.tries = 0,
                               !.release = relCache]
    <3>1. w'.release = relCache /\ w'.cr = w.cr
      BY <1>0, <2>3 DEF Workers
    <3> QED BY <2>1, <2>3, <3>1 DEF moved, AdoptionVersion, CopiesMove
  <2>4. CASE w' = [w EXCEPT !.pc = "getSvcs", !.transition = Deprecated, !.tries = 0]
    <3>1. w'.release = w.release /\ w'.transition # Adopted
      BY <1>0, <2>4 DEF Workers, Adopted, Deprecated
    <3> QED BY <2>1, <3>1 DEF AdoptionVersion, CopiesMove
  <2> QED BY <1>1, <2>2, <2>3, <2>4 DEF cleanup
<1>2. CASE getSvcs
  BY <1>0, <1>2 DEF getSvcs, Workers, AdoptionVersion, CopiesMove
<1>3. ASSUME NEW ok \in BOOLEAN, recovered(ok), w.pc = "recover"
      PROVE  w'.release \in {w.release, NoRelease} /\ AdoptionVersion(w')
  BY <1>0, <1>3 DEF recovered, adoptionGoesOn, Report, Goto, Idle, Workers, AdoptionVersion
<1>4. CASE recoverDone
  BY <1>3, <1>4 DEF recoverDone, CopiesMove
<1>5. ASSUME NEW s \in Services, recoverSvcs(s)
      PROVE  CopiesMove
  <2>1. \/ Next1(s)
        \/ w' = [w EXCEPT !.pc = "getSvcs", !.tries = @ + 1]
        \/ recovered(FALSE)
    BY <1>5 DEF recoverSvcs, failed
  <2>2. UNCHANGED relCache /\ w.pc = "recover"
    BY <1>5 DEF recoverSvcs, failed
  <2>3. CASE Next1(s) \/ w' = [w EXCEPT !.pc = "getSvcs", !.tries = @ + 1]
    BY <1>0, <2>2, <2>3 DEF Next1, Workers, AdoptionVersion, CopiesMove
  <2> QED BY <1>3, <2>1, <2>2, <2>3 DEF CopiesMove
<1>6. CASE applyToRelease
  <2> DEFINE changed == [w.release EXCEPT !.rev = @ + 1]
  <2>1. changed.rv = w.release.rv /\ changed.ver = w.release.ver
    BY <1>0 DEF Releases
  <2>2. relCache' \in {changed, relCache}
    BY <1>6 DEF applyToRelease
  <2>3. Goto("patchOwners") \/ Report("Error")
    BY <1>6 DEF applyToRelease, releaseFailed
  <2>4. w'.release \in {w.release, NoRelease} /\ AdoptionVersion(w')
    BY <1>0, <2>3 DEF Goto, Report, Idle, Workers, AdoptionVersion
  <2> HIDE DEF changed
  <2> QED BY <2>1, <2>2, <2>4 DEF CopiesMove
<1>7. CASE patchOwners \/ resetOwnerDone \/ deleteManifest \/ deleteForkedDone
           \/ deleteCanaryDone \/ patchPhase
  <2>1. UNCHANGED relCache
    BY <1>7 DEF patchOwners, resetOwnerDone, deleteManifest, deleteForkedDone,
       deleteCanaryDone, patchPhase
  <2>2. \/ \E r : Report(r)
        \/ \E p \in {"resetOwner", "deleteForked", "deleteCanary"} : \E set : Loop(p, set)
        \/ Goto("patchPhase")
    BY <1>7 DEF patchOwners, resetOwnerDone, deleteManifest, deleteForkedDone,
       deleteCanaryDone, patchPhase
  <2> QED BY <1>p, <1>g, <2>1, <2>2 DEF CopiesMove
<1>8. ASSUME NEW s \in Services, resetOwner(s) \/ deleteForked(s) \/ deleteCanary(s)
      PROVE  CopiesMove
  BY <1>0, <1>8 DEF resetOwner, deleteForked, deleteCanary, Next1, Workers, AdoptionVersion,
     CopiesMove
<1> QED BY <1>1, <1>2, <1>4, <1>5, <1>6, <1>7, <1>8 DEF Cleanup

LEMMA VersionInductive ==
    ASSUME TypeInv, TypeInv', VersionInv, [Next]_vars
    PROVE  VersionInv'
<1> USE DEF At, caches, memory, api
<1>0. w \in Workers /\ AdoptionVersion(w)
  BY DEF TypeInv, TypeOK, VersionInv, AdoptionVersion
<1>1. CASE Next
  <2> SUFFICES CopiesMove
    BY <1>1, ReleaseStep, CopiesStaySound
  <2>1. CASE Informers
    BY <1>0, <2>1 DEF Informers, RefreshCR, RefreshRelease, RefreshServices, CopiesMove
  <2>2. ASSUME NEW it \in queue, syncCanaryRelease(it)
        PROVE  CopiesMove
    BY <1>0, <2>2 DEF syncCanaryRelease, Start, gone, Workers, AdoptionVersion, CopiesMove
  <2>3. CASE deprecate \/ report
    <3>1. ASSUME NEW err, Return(err) PROVE w'.pc = "idle" /\ w'.release = NoRelease
      BY <3>1 DEF Return, Idle
    <3>2. ASSUME NEW r, Report(r) PROVE w'.pc = "report" /\ w'.release = NoRelease
      BY <3>2 DEF Report, Idle
    <3>3. UNCHANGED relCache /\ w'.pc \in {"idle", "report"} /\ w'.release = NoRelease
      BY <2>3, <3>1, <3>2 DEF deprecate, report
    <3> QED BY <3>3 DEF AdoptionVersion, CopiesMove
  <2>4. CASE Sync
    <3>1. UNCHANGED relCache
      BY <2>4 DEF Sync, renderService, updateObjects, patchManifest, createForked, OnUpdate,
         takeOver, setRunningConfig
    <3>2. ASSUME Report("Error") \/ Report("Available")
          PROVE  w'.release = NoRelease /\ w'.pc = "report"
      BY <3>2 DEF Report, Idle
    <3>3. ASSUME NEW p, NEW set, Goto(p) \/ Loop(p, set)
          PROVE  w'.release = w.release /\ w'.pc = p
      BY <1>0, <3>3 DEF Goto, Loop, Workers
    <3>4. ASSUME NEW s, Next1(s)
          PROVE  w'.release = w.release /\ w'.pc = w.pc
      BY <1>0, <3>4 DEF Next1, Workers
    <3>5. /\ w'.release \in {w.release, NoRelease}
          /\ w'.pc \in {"updateObjects", "patchManifest", "createForked", "takeOver", "report"}
      <4>1. CASE renderService
        BY <1>0, <3>2, <4>1 DEF renderService, Workers
      <4>2. CASE updateObjects \/ patchManifest \/ OnUpdate \/ setRunningConfig
        BY <3>2, <3>3, <4>2 DEF updateObjects, patchManifest, OnUpdate, setRunningConfig
      <4>3. ASSUME NEW s \in Services, createForked(s) \/ takeOver(s)
            PROVE  /\ w'.release \in {w.release, NoRelease}
                   /\ w'.pc \in {"createForked", "takeOver", "report"}
        BY <3>2, <3>4, <4>3 DEF createForked, createFailed, takeOver
      <4> QED BY <2>4, <4>1, <4>2, <4>3 DEF Sync
    <3> QED BY <3>1, <3>5 DEF CopiesMove, AdoptionVersion
  <2>5. CASE Cleanup
    BY <2>5, CopiesOfCleanup
  <2>6. CASE Process
    <3>1. relCache' \in {relCache, rel', NoRelease}
      BY <2>6 DEF Process, Run, handleSigterm, waitForCleanup, Exit, Crash, Down
    <3>2. w' \in {w, Idle}
      BY <2>6 DEF Process, Run, handleSigterm, waitForCleanup, Exit, Crash, Down
    <3> QED BY <1>0, <3>1, <3>2 DEF CopiesMove, Idle, AdoptionVersion
  <2>7. CASE User \/ ReleaseController \/ GarbageCollector
    <3>1. UNCHANGED <<w, relCache>>
      BY <2>7 DEF User, UserEdits, UserRecreates, UserEnds, UserDeletes, UserUpdatesRelease,
         UserDeletesRelease, UserUnchanged, ReleaseController, GarbageCollector
    <3> QED BY <1>0, <3>1 DEF CopiesMove
  <2> QED BY <1>1, <2>1, <2>2, <2>3, <2>4, <2>5, <2>6, <2>7 DEF Next, Worker
<1>2. CASE UNCHANGED vars
  BY <1>2 DEF vars, VersionInv, Sound
<1> QED BY <1>1, <1>2

\* Only a Release of the version the canary was made for gets the canary's config,
\* though the version is compared on a cached copy (proxy.go:913-951).
THEOREM AdoptionKeepsVersion == Spec => AdoptsItsVersion
<1> DEFINE A == w.pc = "updateRelease" /\ w'.pc # w.pc /\ rel'.rev # rel.rev
                => rel.ver = w.cr.ver
<1>1. Init => VersionInv
  BY DEF Init, VersionInv, Sound, Idle, NoRelease
<1>2. TypeInv /\ VersionInv /\ TypeInv' /\ [Next]_vars => VersionInv'
  BY VersionInductive
<1>3. AdoptionInv /\ VersionInv /\ [Next]_vars => [A]_vars
  <2> SUFFICES ASSUME AdoptionInv, VersionInv, Next, w.pc = "updateRelease",
                      w'.pc # w.pc, rel'.rev # rel.rev
               PROVE  rel.ver = w.cr.ver
    OBVIOUS
  <2> USE DEF At, api
  <2>1. applyToRelease
    <3>1. ~UNCHANGED w /\ ~UNCHANGED rel
      OBVIOUS
    <3>2. ~(Informers \/ User \/ ReleaseController \/ GarbageCollector \/ Process)
      BY <3>1 DEF Informers, RefreshCR, RefreshRelease, RefreshServices, User, UserEdits,
         UserRecreates, UserEnds, UserDeletes, UserUpdatesRelease, UserDeletesRelease,
         UserUnchanged, ReleaseController, GarbageCollector, Process, Run, handleSigterm,
         waitForCleanup, Exit, Crash, Down
    <3>3. ~((\E it \in queue : syncCanaryRelease(it)) \/ deprecate \/ report \/ Sync)
      BY DEF syncCanaryRelease, deprecate, report, Sync, renderService, updateObjects,
         patchManifest, createForked, OnUpdate, takeOver, setRunningConfig
    <3> QED BY <3>2, <3>3 DEF Next, Worker, Cleanup, cleanup, getSvcs, recoverSvcs, recoverDone,
               patchOwners, resetOwner, resetOwnerDone, deleteManifest, deleteForked,
               deleteForkedDone, deleteCanary, deleteCanaryDone, patchPhase
  <2>2. w.release.rv = rel.rv
    BY <2>1 DEF applyToRelease
  <2>3. w.release.ver = w.cr.ver
    BY DEF AdoptionInv, VersionInv
  <2> QED BY <2>2, <2>3 DEF VersionInv, Sound
<1>4. Init => AdoptionInv
  BY DEF Init, AdoptionInv, AdoptedIsApplied, Idle, NoCR, NoRelease, AppliedPcs, CleanupPcs,
     None, Adopted
<1>5. TypeInv /\ AdoptionInv /\ [Next]_vars => AdoptionInv'
  BY AdoptionInductive
<1> QED BY Invariants, <1>1, <1>2, <1>3, <1>4, <1>5, PTL DEF Spec, AdoptsItsVersion

----------------------------------------------------------------------------
(***************************************************************************)
(* TakeoverSurvivesFormer.  The invariant says that a former incarnation   *)
(* has ended in the worker and in the queue before the present one owns a  *)
(* service: the proxy has one worker and one cached CanaryRelease, so that *)
(* it takes nothing over for the present one until it has seen it, and it  *)
(* starts nothing for a former one from then on.                           *)
(***************************************************************************)

\* Somewhere the CanaryRelease u is in the owner references of a service.
OwnedBy(u) ==
    \E s \in Services : u \in svc[s].owners \cup svcCache[s].owners \cup w.held[s].owners

\* The worker handles u, or an item of u waits.
Pending(u) ==
    w.cr.uid = u \/ w.item.obj.uid = u \/ \E it \in queue : it.obj.uid = u

Trace(u) == OwnedBy(u) \/ Pending(u)

AtRest == w.pc \in {"idle", "report"}

\* No uid is anywhere before it is given out, a proxy that has not seen the
\* CanaryRelease has left no trace of it, and while the worker handles a
\* former one no service is owned by the present one.
FormerInv ==
    /\ \A u \in Nat : u > lastUid => cr.uid # u /\ crCache.uid # u /\ ~Trace(u)
    /\ proc = "down" => w = Idle
    /\ cr.uid # 0 /\ proc # "down" /\ crCache.uid # cr.uid => ~Trace(cr.uid)
    /\ cr.uid # 0 /\ ~AtRest /\ w.cr.uid # cr.uid => ~OwnedBy(cr.uid)

\* The worker goes on with its item, or ends it.
Continues ==
    /\ w'.pc \in {"idle", "report"} \/ (~AtRest /\ w'.cr = w.cr)
    /\ w'.cr \in {w.cr, NoCR} /\ w'.item.obj \in {w.item.obj, NoCR}
    /\ w'.held \in {w.held, svcCache, NoSvcs}

\* Only the item of the worker is added to the queue.
QueueStays == \A it \in queue' : it \in queue \/ it.obj = w.item.obj

\* No service and no cached copy of one gets the owner u.
OwnersStay(u) ==
    \A s \in Services : u \in svc'[s].owners \cup svcCache'[s].owners => OwnedBy(u)

LEMMA LocalsStay ==
    ASSUME w \in Workers, NEW p, NEW set, NEW s, Goto(p) \/ Loop(p, set) \/ Next1(s)
    PROVE  w'.cr = w.cr /\ w'.item = w.item /\ w'.held = w.held
BY DEF Goto, Loop, Next1, Workers

LEMMA ReportContinues ==
    ASSUME NEW r, Report(r)
    PROVE  Continues
BY DEF Report, Idle, Continues

LEMMA ReturnContinues ==
    ASSUME w \in Workers, NEW e \in BOOLEAN, Return(e)
    PROVE  Continues /\ QueueStays
<1>1. Continues
  BY DEF Return, Idle, Continues
<1>2. [w.item EXCEPT !.n = @ + 1].obj = w.item.obj
  BY DEF Workers, Items
<1> DEFINE again == [w.item EXCEPT !.n = @ + 1]
<1>3. queue' \subseteq queue \cup {again}
  BY DEF Return
<1> HIDE DEF again
<1>4. QueueStays
  BY <1>2, <1>3 DEF QueueStays, again
<1> QED BY <1>1, <1>4

LEMMA WorkerContinues ==
    ASSUME TypeInv, deprecate \/ report \/ Sync \/ Cleanup
    PROVE  Continues /\ QueueStays
<1> USE DEF At, memory
<1>0. w \in Workers
  BY DEF TypeInv, TypeOK
<1>q. ASSUME UNCHANGED queue PROVE QueueStays
  BY <1>q DEF QueueStays
<1>g. ASSUME NEW p, NEW set, NEW s, Goto(p) \/ Loop(p, set) \/ Next1(s),
             w.pc \notin {"idle", "report"}
      PROVE  Continues
  BY <1>0, <1>g, LocalsStay DEF Continues, AtRest
<1>1. CASE deprecate
  <2>1. ASSUME NEW r, Report(r), UNCHANGED queue PROVE Continues /\ QueueStays
    BY <2>1, <1>q, ReportContinues
  <2> QED BY <1>0, <1>1, <2>1, ReturnContinues DEF deprecate
<1>2. CASE report
  BY <1>0, <1>2, ReturnContinues DEF report
<1>3. CASE Sync
  <2>1. CASE renderService
    <3>0. w.pc = "render"
      BY <2>1 DEF renderService
    <3>1. Report("Error") \/ w' = [w EXCEPT !.pc = "updateObjects", !.held = svcCache]
      BY <2>1 DEF renderService
    <3>2. ASSUME w' = [w EXCEPT !.pc = "updateObjects", !.held = svcCache]
          PROVE  Continues
      <4>1. w'.pc = "updateObjects" /\ w'.cr = w.cr /\ w'.item = w.item /\ w'.held = svcCache
        BY <1>0, <3>2 DEF Workers
      <4> QED BY <3>0, <4>1 DEF Continues, AtRest
    <3>3. UNCHANGED queue
      BY <2>1 DEF renderService
    <3> QED BY <3>1, <3>2, <3>3, <1>q, ReportContinues
  <2>2. CASE updateObjects \/ patchManifest \/ OnUpdate \/ setRunningConfig
    <3>1. UNCHANGED queue
      BY <2>2 DEF updateObjects, patchManifest, OnUpdate, setRunningConfig
    <3> QED BY <2>2, <3>1, <1>q, <1>g, ReportContinues
            DEF updateObjects, patchManifest, OnUpdate, setRunningConfig
  <2>3. ASSUME NEW s \in Services, createForked(s) \/ takeOver(s)
        PROVE  Continues /\ QueueStays
    <3>1. UNCHANGED queue /\ w.pc \notin {"idle", "report"}
      BY <2>3 DEF createForked, takeOver
    <3>2. Next1(s) \/ Report("Error")
      BY <2>3 DEF createForked, createFailed, takeOver
    <3> QED BY <3>1, <3>2, <1>q, <1>g, ReportContinues
  <2> QED BY <1>3, <2>1, <2>2, <2>3 DEF Sync
<1>4. CASE Cleanup
  <2>q. UNCHANGED queue
    BY <1>4 DEF Cleanup, cleanup, getSvcs, recoverSvcs, recoverDone, applyToRelease, patchOwners,
       resetOwner, resetOwnerDone, deleteManifest, deleteForked, deleteForkedDone, deleteCanary,
       deleteCanaryDone, patchPhase
  <2> SUFFICES Continues
    BY <2>q, <1>q
  <2>r. ASSUME NEW ok \in BOOLEAN, recovered(ok), w.pc = "recover" PROVE Continues
    BY <2>r, <1>g, ReportContinues DEF recovered
  <2>1. CASE cleanup
    <3>1. w.pc = "cleanup"
      BY <2>1 DEF cleanup
    <3>2. \/ Report(w.cr.tr) \/ Goto("deprecate") \/ Goto("patchPhase")
          \/ w' = [w EXCEPT !.pc = "getSvcs", !.transition = Adopted, !.tries = 0,
                             !.release = relCache]
          \/ w' = [w EXCEPT !.pc = "getSvcs", !.transition = Deprecated, !.tries = 0]
      BY <2>1 DEF cleanup
    <3>3. CASE \/ w' = [w EXCEPT !.pc = "getSvcs", !.transition = Adopted, !.tries = 0,
                             !.release = relCache]
               \/ w' = [w EXCEPT !.pc = "getSvcs", !.transition = Deprecated, !.tries = 0]
      BY <1>0, <3>1, <3>3 DEF Workers, Continues, AtRest
    <3>4. ASSUME NEW r, Report(r) PROVE Continues
      BY <3>4, ReportContinues
    <3> QED BY <3>1, <3>2, <3>3, <3>4, <1>g
  <2>2. CASE getSvcs
    BY <1>0, <2>2 DEF getSvcs, Workers, Continues, AtRest
  <2>3. CASE recoverDone
    BY <2>3, <2>r DEF recoverDone
  <2>4. ASSUME NEW s \in Services, recoverSvcs(s) PROVE Continues
    <3>1. w.pc = "recover"
      BY <2>4 DEF recoverSvcs, failed
    <3>2. Next1(s) \/ w' = [w EXCEPT !.pc = "getSvcs", !.tries = @ + 1] \/ recovered(FALSE)
      BY <2>4 DEF recoverSvcs, failed
    <3>3. CASE w' = [w EXCEPT !.pc = "getSvcs", !.tries = @ + 1]
      BY <1>0, <3>1, <3>3 DEF Workers, Continues, AtRest
    <3> QED BY <3>1, <3>2, <3>3, <1>g, <2>r
  <2>5. CASE applyToRelease \/ patchOwners \/ resetOwnerDone \/ deleteManifest
             \/ deleteForkedDone \/ deleteCanaryDone
    BY <2>5, <1>g, ReportContinues DEF applyToRelease, releaseFailed, patchOwners, resetOwnerDone,
       deleteManifest, deleteForkedDone, deleteCanaryDone
  <2>6. ASSUME NEW s \in Services, resetOwner(s) \/ deleteForked(s) \/ deleteCanary(s)
        PROVE  Continues
    BY <2>6, <1>g DEF resetOwner, deleteForked, deleteCanary
  <2>7. CASE patchPhase
    <3>1. PICK r : Report(r)
      BY <2>7 DEF patchPhase
    <3> QED BY <3>1, ReportContinues
  <2> QED BY <1>4, <2>1, <2>2, <2>3, <2>4, <2>5, <2>6, <2>7 DEF Cleanup
<1> QED BY <1>1, <1>2, <1>3, <1>4

\* Only a takeover gives a service an owner, the one the worker works for.
LEMMA OnlyTakeOverOwns ==
    ASSUME TypeInv, Next, NEW u \in Nat \ {0}, ~(w.pc = "takeOver" /\ w.cr.uid = u)
    PROVE  OwnersStay(u)
<1> USE ShapeOfState DEF api, caches
<1>0. w.held \in [Services -> SvcObjs]
  BY DEF TypeInv, TypeOK, Workers
<1>u. ASSUME UNCHANGED <<svc, svcCache>> PROVE OwnersStay(u)
  BY <1>u DEF OwnersStay, OwnedBy
<1>c. ASSUME UNCHANGED svc, svcCache' \in {svcCache, svc, NoSvcs} PROVE OwnersStay(u)
  <2>1. \A s \in Services : NoSvcs[s].owners = {}
    BY DEF NoSvcs
  <2> QED BY <1>c, <2>1 DEF OwnersStay, OwnedBy
<1>s. ASSUME NEW t \in Services, NEW new, UNCHANGED svcCache,
             svc' = svc \/ svc' = [svc EXCEPT ![t] = new], u \in new.owners => OwnedBy(u)
      PROVE  OwnersStay(u)
  <2>1. \A s \in Services : svc'[s] \in {svc[s], new}
    BY <1>s
  <2> QED BY <1>s, <2>1 DEF OwnersStay, OwnedBy
<1>1. CASE Informers
  BY <1>1, <1>c DEF Informers, RefreshCR, RefreshRelease, RefreshServices
<1>2. CASE (\E it \in queue : syncCanaryRelease(it)) \/ deprecate \/ report
  BY <1>2, <1>u DEF syncCanaryRelease, deprecate, report
<1>3. CASE renderService \/ updateObjects \/ patchManifest \/ OnUpdate \/ setRunningConfig
  BY <1>3, <1>u DEF renderService, updateObjects, patchManifest, OnUpdate, setRunningConfig
<1>4. ASSUME NEW s \in Services, createForked(s) PROVE OwnersStay(u)
  BY <1>4, <1>u DEF createForked
<1>5. ASSUME NEW t \in Services, takeOver(t) PROVE OwnersStay(u)
  <2> DEFINE changed == [w.held[t] EXCEPT !.target = LayoutOf[w.cr.cfg],
                                          !.owners = @ \cup {w.cr.uid}]
             stored == [changed EXCEPT !.rv = svc[t].rv + 1]
  <2>1. w.pc = "takeOver"
    BY <1>5 DEF takeOver, At
  <2>2. changed.owners = w.held[t].owners \cup {w.cr.uid} /\ stored.owners = changed.owners
    BY <1>0 DEF SvcObjs
  <2>3. u \in changed.owners \cup stored.owners => OwnedBy(u)
    BY <2>1, <2>2 DEF OwnedBy
  <2>4. /\ svc' = svc \/ svc' = [svc EXCEPT ![t] = stored]
        /\ svcCache' = svcCache \/ svcCache' = [svcCache EXCEPT ![t] = changed]
    BY <1>5 DEF takeOver
  <2> HIDE DEF changed, stored
  <2>5. \A s \in Services : svc'[s] \in {svc[s], stored} /\ svcCache'[s] \in {svcCache[s], changed}
    BY <2>4
  <2> QED BY <2>3, <2>5 DEF OwnersStay, OwnedBy
<1>6. ASSUME NEW t \in Services, recoverSvcs(t) PROVE OwnersStay(u)
  <2> DEFINE new == [target |-> IF w.transition = Adopted THEN Canary ELSE Origin,
                     owners |-> IF w.transition = Adopted THEN w.held[t].owners
                                ELSE w.held[t].owners \ {w.cr.uid},
                     rv |-> svc[t].rv + 1]
  <2>1. svc' = svc \/ svc' = [svc EXCEPT ![t] = new]
    BY <1>6 DEF recoverSvcs
  <2>2. UNCHANGED svcCache
    BY <1>6 DEF recoverSvcs
  <2>3. u \in new.owners => OwnedBy(u)
    BY DEF OwnedBy
  <2> HIDE DEF new
  <2>4. \A s \in Services : svc'[s] \in {svc[s], new}
    BY <2>1
  <2> QED BY <2>2, <2>3, <2>4 DEF OwnersStay, OwnedBy
<1>7. ASSUME NEW t \in Services, resetOwner(t) PROVE OwnersStay(u)
  <2> DEFINE new == [svc[t] EXCEPT !.owners = {}, !.rv = @ + 1]
  <2>1. svc' = svc \/ svc' = [svc EXCEPT ![t] = new]
    BY <1>7 DEF resetOwner
  <2>2. UNCHANGED svcCache
    BY <1>7 DEF resetOwner
  <2>3. new.owners = {}
    BY DEF SvcObjs
  <2> HIDE DEF new
  <2>4. \A s \in Services : svc'[s] \in {svc[s], new}
    BY <2>1
  <2> QED BY <2>2, <2>3, <2>4 DEF OwnersStay, OwnedBy
<1>8. CASE cleanup \/ getSvcs \/ recoverDone \/ applyToRelease \/ patchOwners
  BY <1>8, <1>u DEF cleanup, getSvcs, recoverDone, applyToRelease, patchOwners
<1>9. ASSUME NEW s \in Services, deleteForked(s) \/ deleteCanary(s) PROVE OwnersStay(u)
  BY <1>9, <1>u DEF deleteForked, deleteCanary
<1>10. CASE resetOwnerDone \/ deleteManifest \/ deleteForkedDone \/ deleteCanaryDone \/ patchPhase
  BY <1>10, <1>u DEF resetOwnerDone, deleteManifest, deleteForkedDone, deleteCanaryDone, patchPhase
<1>11. CASE Process
  BY <1>11, <1>c DEF Process, Run, handleSigterm, waitForCleanup, Exit, Crash, Down
<1>12. CASE User \/ ReleaseController
  BY <1>12, <1>u DEF User, UserEdits, UserRecreates, UserEnds, UserDeletes, UserUpdatesRelease,
     UserDeletesRelease, UserUnchanged, ReleaseController
<1>13. CASE GarbageCollector
  <2>1. UNCHANGED svcCache
    BY <1>13 DEF GarbageCollector
  <2>2. svc' = svc \/ \E t \in Services :
              svc' = [svc EXCEPT ![t] = [target |-> Absent, owners |-> {}, rv |-> svc[t].rv]]
    BY <1>13 DEF GarbageCollector
  <2>3. \A s \in Services : svc'[s] = svc[s] \/ svc'[s].owners = {}
    BY <2>2
  <2> QED BY <2>1, <2>3 DEF OwnersStay, OwnedBy
<1> QED BY <1>1, <1>2, <1>3, <1>4, <1>5, <1>6, <1>7, <1>8, <1>9, <1>10, <1>11, <1>12, <1>13
        DEF Next, Worker, Sync, Cleanup

\* The CanaryRelease changes by hands that keep its uid, is deleted, or is
\* created with a uid of its own.
LEMMA UidMoves ==
    ASSUME TypeInv, Next
    PROVE  \/ cr'.uid \in {cr.uid, 0} /\ lastUid' = lastUid
           \/ /\ cr'.uid = lastUid + 1 /\ lastUid' = lastUid + 1
              /\ UNCHANGED <<svc, caches, queue, w, proc>>
<1> USE DEF api, env
<1>0. cr \in CanaryReleases
  BY DEF TypeInv, TypeOK
<1>1. CASE Informers \/ Process \/ ReleaseController \/ GarbageCollector
  BY <1>1 DEF Informers, RefreshCR, RefreshRelease, RefreshServices, Process, Run, handleSigterm,
     waitForCleanup, Exit, Crash, Down, ReleaseController, GarbageCollector
<1>2. CASE (\E it \in queue : syncCanaryRelease(it)) \/ deprecate \/ report
  BY <1>0, <1>2 DEF syncCanaryRelease, deprecate, report, CanaryReleases
<1>3. CASE Sync
  BY <1>0, <1>3 DEF Sync, renderService, updateObjects, patchManifest, createForked, OnUpdate,
     takeOver, setRunningConfig, CanaryReleases
<1>4. CASE Cleanup
  BY <1>0, <1>4 DEF Cleanup, cleanup, getSvcs, recoverSvcs, recoverDone, applyToRelease,
     patchOwners, resetOwner, resetOwnerDone, deleteManifest, deleteForked, deleteForkedDone,
     deleteCanary, deleteCanaryDone, patchPhase, CanaryReleases
<1>5. ASSUME NEW c \in Cfgs, UserRecreates(c)
      PROVE  /\ cr'.uid = lastUid + 1 /\ lastUid' = lastUid + 1
             /\ UNCHANGED <<svc, caches, queue, w, proc>>
  BY <1>5 DEF UserRecreates, UserUnchanged, memory, NoCR
<1>6. ASSUME NEW c \in Cfgs, UserEdits(c) PROVE cr'.uid = cr.uid /\ lastUid' = lastUid
  BY <1>0, <1>6 DEF UserEdits, CanaryReleases
<1>7. ASSUME NEW t \in {Adopted, Deprecated}, UserEnds(t) PROVE cr'.uid = cr.uid /\ lastUid' = lastUid
  BY <1>0, <1>7 DEF UserEnds, CanaryReleases
<1>8. CASE UserDeletes \/ UserUpdatesRelease \/ UserDeletesRelease
  BY <1>8 DEF UserDeletes, UserUpdatesRelease, UserDeletesRelease, NoCR
<1> QED BY <1>1, <1>2, <1>3, <1>4, <1>5, <1>6, <1>7, <1>8 DEF Next, Worker, User

\* What a step does to the traces of a CanaryRelease: a new one starts from
\* the cached copy, and a service gets its owner from the worker.
TraceMoves(u) ==
    /\ Pending(u)' => Pending(u) \/ u \in {crCache.uid, crCache'.uid}
    /\ OwnedBy(u)' => OwnedBy(u) \/ (w.pc = "takeOver" /\ w.cr.uid = u)

\* What a step does to the worker and the cached copy.
WorkerMoves ==
    /\ \/ w'.pc \in {"idle", "report"} \/ (~AtRest /\ w'.cr = w.cr)
       \/ (AtRest /\ proc # "down" /\ crCache.uid \in {0, w'.cr.uid} /\ UNCHANGED cr)
    /\ proc' = "down" => w' = Idle \/ (proc = "down" /\ w' = w)
    /\ crCache'.uid \in {crCache.uid, cr.uid} \/ (crCache'.uid = 0 /\ proc' = "down")
    /\ proc = "down" /\ proc' # "down" => crCache' = cr

LEMMA WorkerMovesOn ==
    ASSUME TypeInv, Next
    PROVE  WorkerMoves
<1> USE DEF At, AtRest, caches, memory
<1>1. CASE Informers
  <2>1. /\ UNCHANGED <<w, proc>> /\ proc # "down" /\ crCache' \in {crCache, cr}
    BY <1>1 DEF Informers, RefreshCR, RefreshRelease, RefreshServices, Running
  <2> QED BY <2>1 DEF WorkerMoves
<1>2. ASSUME NEW it \in queue, syncCanaryRelease(it) PROVE WorkerMoves
  <2>0. w \in Workers
    BY DEF TypeInv, TypeOK
  <2>1. /\ w.pc = "idle" /\ proc # "down" /\ UNCHANGED <<cr, crCache, proc>>
    BY <1>2 DEF syncCanaryRelease, api
  <2>2. w' = w \/ crCache.uid \in {0, w'.cr.uid}
    BY <1>2, <2>0 DEF syncCanaryRelease, Start, gone, fresh, Workers
  <2> QED BY <2>1, <2>2 DEF WorkerMoves
<1>3. CASE deprecate \/ report \/ Sync \/ Cleanup
  <2>1. Continues
    BY <1>3, WorkerContinues
  <2>2. UNCHANGED <<crCache, proc>> /\ proc # "down"
    <3>1. CASE deprecate \/ report
      BY <3>1 DEF deprecate, report
    <3>2. CASE Sync
      BY <3>2 DEF Sync, renderService, updateObjects, patchManifest, createForked, OnUpdate,
         takeOver, setRunningConfig
    <3>3. CASE Cleanup
      BY <3>3 DEF Cleanup, cleanup, getSvcs, recoverSvcs, recoverDone, applyToRelease,
         patchOwners, resetOwner, resetOwnerDone, deleteManifest, deleteForked,
         deleteForkedDone, deleteCanary, deleteCanaryDone, patchPhase
    <3> QED BY <1>3, <3>1, <3>2, <3>3
  <2> QED BY <2>1, <2>2 DEF Continues, WorkerMoves
<1>4. CASE Run
  <2>1. UNCHANGED w /\ crCache' = cr /\ proc' = "up"
    BY <1>4 DEF Run
  <2> QED BY <2>1 DEF WorkerMoves
<1>5. CASE Exit \/ Crash
  <2>1. w' = Idle /\ proc' = "down" /\ crCache'.uid = 0
    BY <1>5 DEF Exit, Crash, Down, NoCR
  <2> QED BY <2>1 DEF WorkerMoves, Idle
<1>6. CASE handleSigterm \/ waitForCleanup \/ User \/ ReleaseController \/ GarbageCollector
  <2>1. UNCHANGED <<w, crCache>> /\ (proc' = proc \/ (proc # "down" /\ proc' # "down"))
    <3>1. CASE handleSigterm \/ waitForCleanup
      BY <3>1 DEF handleSigterm, waitForCleanup
    <3>2. CASE User
      BY <3>2 DEF User, UserEdits, UserRecreates, UserEnds, UserDeletes, UserUpdatesRelease,
         UserDeletesRelease, UserUnchanged
    <3>3. CASE ReleaseController \/ GarbageCollector
      BY <3>3 DEF ReleaseController, GarbageCollector
    <3> QED BY <1>6, <3>1, <3>2, <3>3
  <2> QED BY <2>1 DEF WorkerMoves
<1> QED BY <1>1, <1>2, <1>3, <1>4, <1>5, <1>6 DEF Next, Worker, Process

LEMMA TracesMoveOn ==
    ASSUME TypeInv, Next, NEW u \in Nat \ {0}
    PROVE  TraceMoves(u)
<1> USE DEF memory, caches
<1>0. /\ w \in Workers /\ NoCR.uid = 0 /\ (\A s \in Services : NoSvcs[s].owners = {})
      /\ Idle.held = NoSvcs /\ Idle.cr = NoCR /\ Idle.item.obj = NoCR
  BY DEF TypeInv, TypeOK, NoCR, NoSvcs, Idle
<1>1. OwnersStay(u) \/ (w.pc = "takeOver" /\ w.cr.uid = u)
  BY OnlyTakeOverOwns
<1>2. ASSUME w'.held \in {w.held, svcCache, NoSvcs}
      PROVE  OwnedBy(u)' => OwnedBy(u) \/ (w.pc = "takeOver" /\ w.cr.uid = u)
  BY <1>0, <1>1, <1>2 DEF OwnersStay, OwnedBy
<1>3. ASSUME w'.cr.uid \in {w.cr.uid, w.item.obj.uid, crCache.uid, 0} \/ \E it \in queue : w'.cr = it.obj,
             w'.item.obj.uid \in {w.item.obj.uid, 0} \/ w'.item \in queue,
             \A it \in queue' : it \in queue \/ it.obj.uid \in {w.item.obj.uid, crCache.uid, crCache'.uid}
      PROVE  Pending(u)' => Pending(u) \/ u \in {crCache.uid, crCache'.uid}
  BY <1>3 DEF Pending
<1>4. ASSUME NEW it \in queue, syncCanaryRelease(it) PROVE TraceMoves(u)
  <2>1. w'.held = w.held /\ queue' \subseteq queue
    BY <1>0, <1>4 DEF syncCanaryRelease, Start, gone, fresh, Workers
  <2>2. w' = w \/ (w'.item = it /\ w'.cr \in {it.obj, crCache})
    BY <1>0, <1>4 DEF syncCanaryRelease, Start, gone, fresh, Workers
  <2>3. w'.cr.uid \in {w.cr.uid, crCache.uid} \/ \E i \in queue : w'.cr = i.obj
    BY <2>2
  <2>4. w'.item.obj.uid \in {w.item.obj.uid, 0} \/ w'.item \in queue
    BY <2>2
  <2> QED BY <2>1, <2>3, <2>4, <1>2, <1>3 DEF TraceMoves
<1>5. CASE deprecate \/ report \/ Sync \/ Cleanup
  <2>1. Continues /\ QueueStays
    BY <1>5, WorkerContinues
  <2>2. w'.cr.uid \in {w.cr.uid, 0} /\ w'.item.obj.uid \in {w.item.obj.uid, 0}
        /\ w'.held \in {w.held, svcCache, NoSvcs}
    BY <1>0, <2>1 DEF Continues
  <2> QED BY <2>1, <2>2, <1>2, <1>3 DEF QueueStays, TraceMoves
<1>6. CASE Informers \/ Run
  <2>1. UNCHANGED w
    BY <1>6 DEF Informers, RefreshCR, RefreshRelease, RefreshServices, Run
  <2>2. \A it \in queue' : it \in queue \/ it.obj \in {crCache, crCache'}
    BY <1>6 DEF Informers, RefreshCR, RefreshRelease, RefreshServices, Run, addCanaryRelease,
       updateCanaryRelease, deleteCanaryRelease, updateRelease, deleteRelease, NewItem
  <2> QED BY <2>1, <2>2, <1>2, <1>3 DEF TraceMoves
<1>7. CASE Exit \/ Crash
  <2>1. w' = Idle /\ queue' = {}
    BY <1>7 DEF Exit, Crash, Down
  <2> QED BY <2>1, <1>0, <1>2, <1>3 DEF TraceMoves
<1>8. CASE handleSigterm \/ waitForCleanup \/ User \/ ReleaseController \/ GarbageCollector
  <2>1. UNCHANGED <<w, queue>>
    <3>1. CASE handleSigterm \/ waitForCleanup
      BY <3>1 DEF handleSigterm, waitForCleanup
    <3>2. CASE User
      BY <3>2 DEF User, UserEdits, UserRecreates, UserEnds, UserDeletes, UserUpdatesRelease,
         UserDeletesRelease, UserUnchanged
    <3>3. CASE ReleaseController \/ GarbageCollector
      BY <3>3 DEF ReleaseController, GarbageCollector
    <3> QED BY <1>8, <3>1, <3>2, <3>3
  <2> QED BY <2>1, <1>2, <1>3 DEF TraceMoves
<1> QED BY <1>4, <1>5, <1>6, <1>7, <1>8 DEF Next, Worker, Process

LEMMA FormerInductive ==
    ASSUME TypeInv, TypeInv', FormerInv, [Next]_vars
    PROVE  FormerInv'
<1>0. /\ lastUid \in Nat /\ cr.uid \in Nat /\ cr'.uid \in Nat /\ w.cr.uid \in Nat
  BY DEF TypeInv, TypeOK, CanaryReleases, Workers
<1>1. CASE Next
  <2>1. \A u \in Nat \ {0} : TraceMoves(u)
    BY <1>1, TracesMoveOn
  <2>2. WorkerMoves
    BY <1>1, WorkerMovesOn
  <2>3. \/ cr'.uid \in {cr.uid, 0} /\ lastUid' = lastUid
        \/ /\ cr'.uid = lastUid + 1 /\ lastUid' = lastUid + 1
           /\ UNCHANGED <<svc, caches, queue, w, proc>>
    BY <1>1, UidMoves
  <2>n. ASSUME NEW u \in Nat, u > lastUid
        PROVE  cr.uid # u /\ crCache.uid # u /\ ~Trace(u)
    BY <2>n DEF FormerInv
  \* Without a trace before and not in the cache, it has none after.
  <2>t. ASSUME NEW u \in Nat \ {0}, ~Trace(u), crCache.uid # u, crCache'.uid # u
        PROVE  ~Trace(u)'
    BY <2>1, <2>t DEF TraceMoves, Trace, Pending
  <2>4. ASSUME NEW u \in Nat, u > lastUid'
        PROVE  cr'.uid # u /\ crCache'.uid # u /\ ~Trace(u)'
    <3>1. u \in Nat \ {0} /\ u > lastUid
      BY <1>0, <2>3, <2>4
    <3>2. cr.uid # u /\ crCache.uid # u /\ ~Trace(u)
      BY <2>n, <3>1
    <3>3. cr'.uid # u
      BY <1>0, <2>3, <2>4, <3>1, <3>2
    <3>4. crCache'.uid # u
      BY <2>2, <3>1, <3>2 DEF WorkerMoves
    <3> QED BY <2>t, <3>1, <3>2, <3>3, <3>4
  <2>5. proc' = "down" => w' = Idle
    BY <2>2 DEF WorkerMoves, FormerInv
  <2>6. ASSUME NEW u \in Nat \ {0}, cr'.uid = u, proc' # "down", crCache'.uid # u
        PROVE  ~Trace(u)'
    <3>1. CASE cr.uid = u
      <4>1. crCache.uid # u /\ proc # "down"
        BY <2>2, <2>6, <3>1 DEF WorkerMoves
      <4> QED BY <2>t, <2>6, <3>1, <4>1 DEF FormerInv
    <3>2. CASE u > lastUid
      BY <2>n, <2>t, <2>6, <3>2
    <3> QED BY <1>0, <2>3, <2>6, <3>1, <3>2
  <2>7. ASSUME NEW u \in Nat \ {0}, cr'.uid = u, ~AtRest', w'.cr.uid # u
        PROVE  ~OwnedBy(u)'
    <3>1. CASE cr.uid = u
      <4>1. CASE ~AtRest /\ w'.cr = w.cr
        BY <2>1, <2>7, <3>1, <4>1 DEF TraceMoves, FormerInv
      <4>2. CASE AtRest /\ proc # "down" /\ crCache.uid \in {0, w'.cr.uid}
        <5>1. ~Trace(u)
          BY <2>7, <3>1, <4>2 DEF FormerInv
        <5> QED BY <2>1, <5>1 DEF TraceMoves, Trace, Pending
      <4> QED BY <2>2, <2>7, <4>1, <4>2 DEF WorkerMoves, AtRest
    <3>2. CASE u > lastUid
      <4>1. ~Trace(u)
        BY <2>n, <3>2
      <4> QED BY <2>1, <4>1 DEF TraceMoves, Trace, Pending
    <3> QED BY <1>0, <2>3, <2>7, <3>1, <3>2
  <2>8. cr'.uid # 0 /\ proc' # "down" /\ crCache'.uid # cr'.uid => ~Trace(cr.uid)'
    <3>1. ASSUME NEW u \in Nat, cr'.uid = u
          PROVE  Trace(u)' <=> Trace(cr.uid)'
      BY <3>1 DEF Trace, OwnedBy, Pending
    <3> QED BY <1>0, <2>6, <3>1
  <2>9. cr'.uid # 0 /\ ~AtRest' /\ w'.cr.uid # cr'.uid => ~OwnedBy(cr.uid)'
    <3>1. ASSUME NEW u \in Nat, cr'.uid = u
          PROVE  OwnedBy(u)' <=> OwnedBy(cr.uid)'
      BY <3>1 DEF OwnedBy
    <3> QED BY <1>0, <2>7, <3>1
  <2> QED BY <2>4, <2>5, <2>8, <2>9 DEF FormerInv
<1>2. CASE UNCHANGED vars
  BY <1>2 DEF vars, caches, memory, env, api, FormerInv, Trace, OwnedBy, Pending, AtRest
<1> QED BY <1>1, <1>2

\* A service that leads to the proxy goes back to the Release or over to the
\* canary only in a recovery.
LEMMA OnlyRecoverGivesBack ==
    ASSUME TypeInv, Next, NEW s \in Services, Taken(s), svc'[s].target \in {Origin, Canary}
    PROVE  w.pc = "recover"
<1> USE ShapeOfState DEF At, api
<1>0. w.held \in [Services -> SvcObjs]
  BY DEF TypeInv, TypeOK, Workers
<1>1. svc[s].target \notin {Origin, Canary}
  BY LayoutAssumption DEF Taken
<1>2. svc'[s].target # svc[s].target
  BY <1>1
<1>u. ~UNCHANGED svc
  BY <1>2
<1>3. ~(Informers \/ User \/ ReleaseController \/ Process)
  BY <1>u DEF Informers, RefreshCR, RefreshRelease, RefreshServices, User, UserEdits,
     UserRecreates, UserEnds, UserDeletes, UserUpdatesRelease, UserDeletesRelease,
     UserUnchanged, ReleaseController, Process, Run, handleSigterm, waitForCleanup, Exit, Crash,
     Down
<1>4. ~((\E it \in queue : syncCanaryRelease(it)) \/ deprecate \/ report)
  BY <1>u DEF syncCanaryRelease, deprecate, report
<1>5. ASSUME NEW t \in Services, takeOver(t) PROVE FALSE
  <2> DEFINE changed == [w.held[t] EXCEPT !.target = LayoutOf[w.cr.cfg],
                                          !.owners = @ \cup {w.cr.uid}]
             stored == [changed EXCEPT !.rv = svc[t].rv + 1]
  <2>1. svc' = [svc EXCEPT ![t] = stored]
    BY <1>5, <1>u DEF takeOver
  <2>2. w.cr.cfg \in Cfgs
    BY <1>5 DEF takeOver, TypeInv, ConfigsKnown, SyncPcs
  <2>3. stored.target \in Layouts
    <3>1. changed.target = LayoutOf[w.cr.cfg] /\ stored.target = changed.target
      BY <1>0 DEF SvcObjs
    <3> QED BY <2>2, <3>1, LayoutAssumption
  <2> HIDE DEF stored
  <2>4. svc'[s] \in {svc[s], stored}
    BY <2>1
  <2> QED BY <1>2, <2>3, <2>4, LayoutAssumption
<1>6. ~Sync
  BY <1>u, <1>5 DEF Sync, renderService, updateObjects, patchManifest, createForked, OnUpdate,
     setRunningConfig
<1>7. ASSUME NEW t \in Services, resetOwner(t) PROVE FALSE
  <2> DEFINE new == [svc[t] EXCEPT !.owners = {}, !.rv = @ + 1]
  <2>1. svc' = [svc EXCEPT ![t] = new]
    BY <1>7, <1>u DEF resetOwner
  <2>2. new.target = svc[t].target
    BY DEF SvcObjs
  <2> HIDE DEF new
  <2> QED BY <1>2, <2>1, <2>2
<1>8. Cleanup => w.pc = "recover"
  BY <1>u, <1>7 DEF Cleanup, cleanup, getSvcs, recoverSvcs, recoverDone, applyToRelease,
     patchOwners, resetOwnerDone, deleteManifest, deleteForked, deleteForkedDone, deleteCanary,
     deleteCanaryDone, patchPhase
<1>9. ~GarbageCollector
  BY <1>2, <1>u, LayoutAssumption DEF GarbageCollector, Origin, Canary, Absent
<1> QED BY <1>3, <1>4, <1>6, <1>8, <1>9 DEF Next, Worker

\* The present CanaryRelease keeps the services it owns: what gives one back
\* works for it.
THEOREM FormerUndoesNothing == Spec => TakeoverSurvivesFormer
<1> DEFINE A == \A s \in Services :
                   Taken(s) /\ cr.uid \in svc[s].owners /\ svc'[s].target \in {Origin, Canary}
                   => w.cr.uid = cr.uid
<1>1. Init => FormerInv
  <2> SUFFICES ASSUME Init PROVE FormerInv
    OBVIOUS
  <2>1. /\ lastUid = 1 /\ cr.uid = 1 /\ crCache = NoCR /\ proc = "down" /\ w = Idle
    BY DEF Init, NoCR
  <2>2. ASSUME NEW u \in Nat \ {0} PROVE ~Trace(u)
    BY DEF Init, Trace, OwnedBy, Pending, Idle, NoCR, NoSvcs
  <2> QED BY <2>1, <2>2 DEF FormerInv, AtRest, Idle, NoCR
<1>2. TypeInv /\ TypeInv' /\ FormerInv /\ [Next]_vars => FormerInv'
  BY FormerInductive
<1>3. TypeInv /\ FormerInv /\ [Next]_vars => [A]_vars
  <2> SUFFICES ASSUME TypeInv, FormerInv, Next, NEW s \in Services, Taken(s),
                      cr.uid \in svc[s].owners, svc'[s].target \in {Origin, Canary}
               PROVE  w.cr.uid = cr.uid
    OBVIOUS
  <2>1. w.pc = "recover"
    BY OnlyRecoverGivesBack
  <2>2. cr.uid # 0
    BY DEF TypeInv, TypeOK, SvcObjs
  <2>3. OwnedBy(cr.uid)
    BY DEF OwnedBy
  <2> QED BY <2>1, <2>2, <2>3 DEF FormerInv, AtRest
<1> QED BY Invariants, <1>1, <1>2, <1>3, PTL DEF Spec, TakeoverSurvivesFormer

=============================================================================
