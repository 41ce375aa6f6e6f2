---------------------------- MODULE CanaryProxy ----------------------------
(***************************************************************************)
(* The canary-release proxy (proxies/nginx/controller): one process per    *)
(* CanaryRelease that takes over the services of a Release, splits their   *)
(* traffic with nginx between a forked copy and a canary copy of each      *)
(* service, and undoes or adopts all of it at the end.                     *)
(*                                                                         *)
(* The objects in the API server (cr, rel, svc, forked, canary, workload)  *)
(* and the informer caches the proxy reads them from (suffix Cache) are    *)
(* separate variables: a cache lags its object until a Refresh action      *)
(* delivers it.  The single queue worker w runs the body of                *)
(* syncCanaryRelease one API call per step, between which everything else  *)
(* may happen: user edits, deletions, garbage collection, the release      *)
(* controller, SIGTERM, a crash.  API calls fail, or take effect and lose  *)
(* their reply, while the fault budget lasts; a full Update also fails     *)
(* whenever the copy it sends is stale.                                    *)
(***************************************************************************)
EXTENDS Naturals, FiniteSets

CONSTANTS
    Services,      \* names in cr.Spec.Service
    Cfgs,          \* service configs (ports and weights) a user may ask for
    Layouts,       \* upstream-port assignments that the configs give rise to
    LayoutOf,      \* config -> the assignment getUpsteamService makes for it
    Exact,         \* services whose rendered ports are literally the stored ones
    Plans,         \* bound: what users and crashes may do in this instance
    MaxUid,        \* bound: incarnations of the CanaryRelease
    MaxFaults,     \* bound: failing API calls and nginx reloads
    MaxRev,        \* bound: revisions of the Release an adoption may write
    MaxRetries,    \* requeues of a failed item before it is dropped (3)
    RecoverSteps   \* attempts of getRelatedAndRecoverSvcs (5)

Origin == "origin"      \* the selector and target ports of the Release
Canary == "canary"      \* those of the canary
Absent == "absent"      \* the object does not exist
None == "None"          \* CanaryTrasitionNone
Adopted == "Adopted"
Deprecated == "Deprecated"
NoCfg == "NoCfg"        \* a nil config

ASSUME ServicesAssumption == IsFiniteSet(Services)
ASSUME LayoutAssumption ==
    /\ LayoutOf \in [Cfgs -> Layouts]
    /\ Layouts \cap {Origin, Canary, Absent} = {}
    /\ NoCfg \notin Cfgs
ASSUME ExactAssumption == Exact \subseteq Services

\* How many user operations are left, and of which kinds.
Budgets ==
    [of : SUBSET {"edit", "adopt", "deprecate", "delete", "recreate",
                  "updateRelease", "deleteRelease"}, left : Nat]
ASSUME PlansAssumption == Plans \subseteq [ops : Budgets, crashes : Nat]
ASSUME BoundsAssumption ==
    /\ MaxFaults \in Nat /\ MaxRetries \in Nat /\ MaxRev \in Nat
    /\ MaxUid \in Nat \ {0} /\ RecoverSteps \in Nat \ {0}

VARIABLES
    cr, rel, svc, forked, canary, workload,                  \* API server
    crCache, relCache, svcCache, forkedCache, canaryCache,   \* listers
    proc, queue, runningConfig, nginxConfig, exiting,        \* proxy process
    w,                                                       \* its worker
    abandoned,                  \* history: see recovered
    lastUid, ops, faults, crashes                            \* bounds

api == <<cr, rel, svc, forked, canary, workload>>
caches == <<crCache, relCache, svcCache, forkedCache, canaryCache>>
memory == <<proc, queue, runningConfig, nginxConfig, exiting>>
env == <<lastUid, ops, crashes>>
vars == <<api, caches, memory, w, abandoned, env, faults>>

(***************************************************************************)
(* Types                                                                   *)
(***************************************************************************)

Transitions == {None, Adopted, Deprecated}

\* A CanaryRelease; uid 0 is "not found".  cfg is Spec.Service, tr
\* Spec.Transition, ver Spec.Version, phase Status.Phase, and manifest says
\* that Status.Manifest is not empty.
CanaryReleases ==
    [uid : 0..MaxUid, cfg : Cfgs \cup {NoCfg}, tr : Transitions, ver : Nat,
     phase : Transitions, manifest : BOOLEAN]

\* A Release: rev is the revision in Spec.Config, ver Status.Version, dirty
\* "the release controller has not rolled Spec out yet", rv the
\* resourceVersion.
Releases == [exists : BOOLEAN, rev : Nat, ver : Nat, dirty : BOOLEAN, rv : Nat]

\* An original service: where its selector and target ports lead, which
\* CanaryReleases are in its owner references, its resourceVersion.
SvcObjs == [target : Layouts \cup {Origin, Canary, Absent},
            owners : SUBSET (1..MaxUid), rv : Nat]

Workloads == {Absent, "canary", "release"}   \* non-service objects, by owner
Items == [obj : CanaryReleases, n : 0..MaxRetries]
Results == {"Available", "Error"} \cup Transitions

SyncPcs == {"render", "updateObjects", "patchManifest",
            "createForked", "takeOver"}
CleanupPcs == {"cleanup", "getSvcs", "recover", "updateRelease", "patchOwners", "resetOwner", "deleteManifest",
               "deleteForked", "deleteCanary", "patchPhase"}
Pcs == SyncPcs \cup CleanupPcs \cup {"idle", "deprecate", "report"}

\* The worker: where it is, the queue item it handles, and its local
\* variables: the CanaryRelease cr, the transition of _cleanup, the Release, the original
\* services it read, the rest of the loop it is in, the recover attempts
\* made, the canary and forked services it listed, the outcome to report.
Workers ==
    [pc : Pcs, item : Items, cr : CanaryReleases, transition : Transitions,
     release : Releases, held : [Services -> SvcObjs], todo : SUBSET Services,
     tries : 0..RecoverSteps, canaryList : SUBSET Services,
     forkedList : SUBSET Services, result : Results]

NoCR == [uid |-> 0, cfg |-> NoCfg, tr |-> None, ver |-> 0, phase |-> None,
         manifest |-> FALSE]
NoRelease == [exists |-> FALSE, rev |-> 0, ver |-> 0, dirty |-> FALSE, rv |-> 0]
NoSvcs == [s \in Services |-> [target |-> Absent, owners |-> {}, rv |-> 0]]
NoForked == [s \in Services |-> 0]
NoCanary == [s \in Services |-> FALSE]

Idle == [pc |-> "idle", item |-> [obj |-> NoCR, n |-> 0], cr |-> NoCR,
         transition |-> None, release |-> NoRelease, held |-> NoSvcs,
         todo |-> {}, tries |-> 0, canaryList |-> {}, forkedList |-> {},
         result |-> None]

\* One version of everything in the API server, everything cached, and
\* everything the process remembers.
TypeOK ==
    /\ cr \in CanaryReleases /\ crCache \in CanaryReleases
    /\ rel \in Releases /\ relCache \in Releases
    /\ svc \in [Services -> SvcObjs] /\ svcCache \in [Services -> SvcObjs]
    /\ forked \in [Services -> 0..MaxUid] /\ forkedCache \in [Services -> 0..MaxUid]
    /\ canary \in [Services -> BOOLEAN] /\ canaryCache \in [Services -> BOOLEAN]
    /\ workload \in Workloads
    /\ proc \in {"down", "up", "term", "stopping"}
    /\ queue \subseteq Items
    /\ runningConfig \in Cfgs \cup {NoCfg} /\ nginxConfig \in Cfgs \cup {NoCfg}
    /\ exiting \in BOOLEAN
    /\ w \in Workers
    /\ abandoned \subseteq Services
    /\ lastUid \in 1..MaxUid
    /\ ops \in Budgets /\ faults \in 0..MaxFaults /\ crashes \in Nat

Init ==
    /\ \E c \in Cfgs : cr = [NoCR EXCEPT !.uid = 1, !.cfg = c, !.ver = 1]
    /\ rel = [exists |-> TRUE, rev |-> 1, ver |-> 1, dirty |-> FALSE, rv |-> 1]
    /\ svc = [s \in Services |-> [target |-> Origin, owners |-> {}, rv |-> 1]]
    /\ forked = NoForked /\ canary = NoCanary /\ workload = Absent
    /\ crCache = NoCR /\ relCache = NoRelease /\ svcCache = NoSvcs
    /\ forkedCache = NoForked /\ canaryCache = NoCanary
    /\ proc = "down" /\ queue = {} /\ runningConfig = NoCfg
    /\ nginxConfig = NoCfg /\ exiting = FALSE
    /\ w = Idle
    /\ abandoned = {} /\ lastUid = 1
    /\ \E p \in Plans : ops = p.ops /\ crashes = p.crashes
    /\ faults = MaxFaults

----------------------------------------------------------------------------
(***************************************************************************)
(* Informers and their event handlers.  A refresh delivers the current     *)
(* object; what happened in between is coalesced, as after a relist.       *)
(***************************************************************************)

Running == proc \in {"up", "term"}     \* informers run until stopCh is closed

NewItem(obj) == [obj |-> obj, n |-> 0]

canaryFiltered(c) == c.phase # None

addCanaryRelease(c) == IF canaryFiltered(c) THEN {} ELSE {NewItem(c)}

\* Here and below, a definition may be preceded by variants of it with a
\* plausible bug; nothing uses them, but each property notices one.
updateCanaryReleaseWithoutTransition(old, c) ==
    IF canaryFiltered(c) \/ (old.cfg = c.cfg /\ old.ver = c.ver) THEN {} ELSE {NewItem(c)}

updateCanaryReleaseWithoutServices(old, c) ==
    IF canaryFiltered(c) \/ (old.tr = c.tr /\ old.ver = c.ver) THEN {} ELSE {NewItem(c)}

updateCanaryRelease(old, c) ==
    IF canaryFiltered(c) \/ (old.cfg = c.cfg /\ old.tr = c.tr /\ old.ver = c.ver)
    THEN {} ELSE {NewItem(c)}

deleteCanaryRelease(c) == IF canaryFiltered(c) THEN {} ELSE {NewItem(c)}

\* Only a change of Spec counts; the item is the cached CanaryRelease.  What
\* an adoption changed in the lister's own object is not a new version of it.
updateRelease(old, r) ==
    IF old.rv = r.rv \/ old.rev = r.rev \/ crCache.uid = 0
    THEN {} ELSE {NewItem(crCache)}

deleteRelease == IF crCache.uid = 0 THEN {} ELSE {NewItem(crCache)}

RefreshCR ==
    /\ Running /\ crCache # cr
    /\ crCache' = cr
    /\ queue' = queue \cup
         (CASE crCache.uid = 0 -> addCanaryRelease(cr)
            [] crCache.uid # 0 /\ cr.uid = 0 -> deleteCanaryRelease(crCache)
            [] OTHER -> updateCanaryRelease(crCache, cr))
    /\ UNCHANGED <<api, relCache, svcCache, forkedCache, canaryCache, proc,
                   runningConfig, nginxConfig, exiting, w, abandoned, env, faults>>

RefreshRelease ==
    /\ Running /\ relCache # rel
    /\ relCache' = rel
    /\ queue' = queue \cup
         (IF ~rel.exists THEN deleteRelease ELSE updateRelease(relCache, rel))
    /\ UNCHANGED <<api, crCache, svcCache, forkedCache, canaryCache, proc,
                   runningConfig, nginxConfig, exiting, w, abandoned, env, faults>>

\* No handler is attached to the service informer.
RefreshServices ==
    /\ Running /\ <<svcCache, forkedCache, canaryCache>> # <<svc, forked, canary>>
    /\ svcCache' = svc /\ forkedCache' = forked /\ canaryCache' = canary
    /\ UNCHANGED <<api, crCache, relCache, memory, w, abandoned, env, faults>>

----------------------------------------------------------------------------
(***************************************************************************)
(* The worker                                                              *)
(***************************************************************************)

At(label) == proc # "down" /\ w.pc = label

Goto(label) == w' = [w EXCEPT !.pc = label]
Loop(label, set) == w' = [w EXCEPT !.pc = label, !.todo = set]
Next1(s) == w' = [w EXCEPT !.todo = @ \ {s}]
Report(r) == w' = [Idle EXCEPT !.pc = "report", !.item = w.item, !.result = r]

\* An API call or an nginx command reports an error.
Fault == faults > 0 /\ faults' = faults - 1
NoFault == UNCHANGED faults
MayFail(inevitable) == (inevitable /\ NoFault) \/ Fault

ReturnOneRetryMore(err) ==
    /\ w' = Idle
    /\ queue' = IF err /\ w.item.n <= MaxRetries /\ proc # "stopping"
                THEN queue \cup {[w.item EXCEPT !.n = @ + 1]}
                ELSE queue

\* Return from syncCanaryRelease: the queue retries a failed item until
\* MaxRetries, unless it is shutting down.
Return(err) ==
    /\ w' = Idle
    /\ queue' = IF err /\ w.item.n < MaxRetries /\ proc # "stopping"
                THEN queue \cup {[w.item EXCEPT !.n = @ + 1]}
                ELSE queue

Start(label, it, c) == w' = [w EXCEPT !.pc = label, !.item = it, !.cr = c]

\* The copy to sync is the lister's, not the item.
freshIsTheItem(it) == it.obj
fresh(it) == crCache

\* "original canary release is gone": its name belongs to a new one.
goneIsCleanedUp(it) == Start("cleanup", it, it.obj)
gone(it) == UNCHANGED w

syncCanaryRelease(it) ==
    LET c == fresh(it) IN
    /\ At("idle") /\ it \in queue
    /\ queue' = queue \ {it}
    /\ \/ crCache.uid = 0 /\ Start("cleanup", it, it.obj)
       \/ crCache.uid # 0 /\ crCache.uid # it.obj.uid /\ gone(it)
       \/ /\ crCache.uid # 0 /\ crCache.uid = it.obj.uid
          /\ \/ c.tr # None /\ Start("cleanup", it, c)
             \/ /\ c.tr = None
                /\ ~relCache.exists \/ relCache.ver # c.ver
                /\ Start("deprecate", it, c)
             \/ /\ c.tr = None
                /\ relCache.exists /\ relCache.ver = c.ver
                /\ Start("render", it, c)
    /\ UNCHANGED <<api, caches, proc, runningConfig, nginxConfig, exiting,
                   abandoned, env, faults>>

\* deprecate decides on its copy of the CanaryRelease and patches the stored
\* one without a resourceVersion.
deprecate ==
    /\ At("deprecate")
    /\ \/ /\ w.cr.tr # None
          /\ Report(w.cr.tr) /\ UNCHANGED <<cr, queue>> /\ NoFault
       \/ /\ w.cr.tr = None /\ cr.uid # 0
          /\ cr' = [cr EXCEPT !.tr = Deprecated]
          /\ (Return(FALSE) /\ NoFault) \/ (Return(TRUE) /\ Fault)
       \/ /\ w.cr.tr = None
          /\ Return(TRUE) /\ MayFail(cr.uid = 0) /\ UNCHANGED cr
    /\ UNCHANGED <<rel, svc, forked, canary, workload, caches, proc,
                   runningConfig, nginxConfig, exiting, abandoned, env>>

\* sync and cleanup append a condition that says how they ended (result) and
\* return.  UpdateCRWithRetries appends it, its failure is ignored, and
\* nothing in this module reads conditions back.
report ==
    /\ At("report")
    /\ Return(w.result = "Error")
    /\ UNCHANGED <<api, caches, proc, runningConfig, nginxConfig, exiting,
                   abandoned, env, faults>>

----------------------------------------------------------------------------
(***************************************************************************)
(* sync and _sync: fork the services, reload nginx, take the services over *)
(***************************************************************************)

\* renderService keeps pointers into the service lister.
renderService ==
    /\ At("render")
    /\ IF \E s \in Services : svcCache[s].target = Absent
       THEN Report("Error")
       ELSE w' = [w EXCEPT !.pc = "updateObjects", !.held = svcCache]
    /\ UNCHANGED <<api, caches, memory, abandoned, env, faults>>

\* The stored manifest is trimmed when it is split and the rendered one is
\* not, so the "manifest is not changed" comparison never holds: the canary
\* has at least the services of the CanaryRelease.
updateObjects ==
    /\ At("updateObjects")
    /\ \/ /\ canary' = [s \in Services |-> TRUE]
          /\ workload' = IF workload = Absent THEN "canary" ELSE workload
          /\ (Goto("patchManifest") /\ NoFault) \/ (Report("Error") /\ Fault)
       \/ /\ \E done \in SUBSET Services :
                canary' = [s \in Services |-> canary[s] \/ s \in done]
          /\ UNCHANGED workload
          /\ Report("Error") /\ Fault
    /\ UNCHANGED <<cr, rel, svc, forked, caches, memory, abandoned, env>>

\* Patch status.manifest, then compare with the running config.
patchManifest ==
    /\ At("patchManifest")
    /\ \/ /\ cr.uid # 0
          /\ cr' = [cr EXCEPT !.manifest = TRUE]
          /\ \/ /\ NoFault
                /\ IF runningConfig = w.cr.cfg
                   THEN Report("Available")
                   ELSE Loop("createForked", Services)
             \/ Fault /\ Report("Error")
       \/ /\ UNCHANGED cr
          /\ Report("Error") /\ MayFail(cr.uid = 0)
    /\ UNCHANGED <<rel, svc, forked, canary, workload, caches, memory,
                   abandoned, env>>

createFailed(s) == Report("Error")

\* An already existing forked service is kept as it is.
createForked(s) ==
    /\ At("createForked") /\ s \in w.todo
    /\ \/ /\ forked' = [forked EXCEPT ![s] = IF @ = 0 THEN w.cr.uid ELSE @]
          /\ (Next1(s) /\ NoFault) \/ (createFailed(s) /\ Fault)
       \/ /\ UNCHANGED forked
          /\ createFailed(s) /\ Fault
    /\ UNCHANGED <<cr, rel, svc, canary, workload, caches, memory,
                   abandoned, env>>

anyForked == w.todo # Services
allForked == w.todo = {}

reloadOnlyOnce == nginxConfig' = IF nginxConfig = NoCfg THEN w.cr.cfg ELSE nginxConfig
reload == nginxConfig' = w.cr.cfg

\* Once every service is forked: test, write and reload the nginx config.
OnUpdate ==
    /\ At("createForked") /\ allForked
    /\ \/ /\ reload
          /\ Loop("takeOver", Services) /\ NoFault
       \/ /\ UNCHANGED nginxConfig
          /\ Report("Error") /\ Fault
    /\ UNCHANGED <<api, caches, proc, queue, runningConfig, exiting,
                   abandoned, env>>

\* Point s at the proxy.  The copy is the lister's own object (until the
\* informer replaces it), so the change is in the cache even if Update fails.
takeOver(s) ==
    LET want == LayoutOf[w.cr.cfg]
        inCluster == w.held[s]
        changed == [inCluster EXCEPT !.target = want,
                                     !.owners = @ \cup {w.cr.uid}]
        current == inCluster.rv = svc[s].rv /\ svc[s].target # Absent
        shared == svcCache[s].rv = inCluster.rv
    IN
    /\ At("takeOver") /\ s \in w.todo
    /\ \/ /\ inCluster.target = want /\ s \in Exact
          /\ Next1(s) /\ UNCHANGED <<svc, svcCache>> /\ NoFault
       \/ /\ ~(inCluster.target = want /\ s \in Exact)
          /\ svcCache' = IF shared THEN [svcCache EXCEPT ![s] = changed] ELSE svcCache
          /\ \/ /\ current
                /\ svc' = [svc EXCEPT ![s] = [changed EXCEPT !.rv = svc[s].rv + 1]]
                /\ (Next1(s) /\ NoFault) \/ (Report("Error") /\ Fault)
             \/ /\ UNCHANGED svc
                /\ Report("Error") /\ MayFail(~current)
    /\ UNCHANGED <<cr, rel, forked, canary, workload, crCache, relCache,
                   forkedCache, canaryCache, memory, abandoned, env>>

setRunningConfig ==
    /\ At("takeOver") /\ w.todo = {}
    /\ runningConfig' = w.cr.cfg
    /\ Report("Available")
    /\ UNCHANGED <<api, caches, proc, queue, nginxConfig, exiting,
                   abandoned, env, faults>>

----------------------------------------------------------------------------
(***************************************************************************)
(* cleanup and _cleanup: adopt the canary, or revert to the Release        *)
(***************************************************************************)

movedIsDeleted == ~relCache.exists
moved == ~relCache.exists \/ w.cr.ver # relCache.ver

\* A CanaryRelease missing from the cache counts as deprecated; one that is
\* adopted but whose Release has moved on is handed to deprecate.
cleanup ==
    LET transition == IF crCache.uid = 0 /\ w.cr.tr # Adopted
                      THEN Deprecated ELSE w.cr.tr
    IN
    /\ At("cleanup")
    /\ \/ /\ w.cr.phase # None
          /\ Report(w.cr.tr)
       \/ /\ w.cr.phase = None /\ transition = Adopted /\ moved
          /\ Goto("deprecate")
       \/ /\ w.cr.phase = None /\ transition = Adopted /\ ~moved
          /\ w' = [w EXCEPT !.pc = "getSvcs", !.transition = Adopted,
                            !.tries = 0, !.release = relCache]
       \/ /\ w.cr.phase = None /\ transition = Deprecated
          /\ w' = [w EXCEPT !.pc = "getSvcs", !.transition = Deprecated,
                            !.tries = 0]
       \/ /\ w.cr.phase = None /\ transition = None
          /\ Goto("patchPhase")
    /\ UNCHANGED <<api, caches, memory, abandoned, env, faults>>

\* One attempt of getRelatedAndRecoverSvcs lists the services afresh; an
\* original without a counterpart to recover from is passed over.
getSvcs ==
    LET canaries == {s \in Services : canaryCache[s]}
        forks == {s \in Services : forkedCache[s] # 0}
        originals == {s \in Services : svcCache[s].target # Absent}
        from == IF w.transition = Adopted THEN canaries ELSE forks
    IN
    /\ At("getSvcs")
    /\ w' = [w EXCEPT !.pc = "recover", !.held = svcCache, !.canaryList = canaries,
                      !.forkedList = forks, !.todo = originals \cap from]
    /\ UNCHANGED <<api, caches, memory, abandoned, env, faults>>

adoptionGoesOnAnyway(ok) == TRUE
adoptionGoesOn(ok) == ok

\* An original that the attempt did not list, or not with the service to
\* recover it from.
passedOver(s) ==
    \/ w.held[s].target = Absent
    \/ s \notin IF w.transition = Adopted THEN w.canaryList ELSE w.forkedList

\* The end of recovering.  _cleanup gives up on an adoption that failed but
\* goes on with a deprecation.  abandoned remembers the services that this
\* leaves with the proxy: after the last failed attempt those it did not give
\* back, after one without an error those it passed over.
recovered(ok) ==
    \/ /\ w.transition = Adopted
       /\ IF adoptionGoesOn(ok) THEN Goto("updateRelease") ELSE Report("Error")
       /\ UNCHANGED abandoned
    \/ /\ w.transition # Adopted
       /\ Goto("deleteManifest")
       /\ abandoned' = abandoned \cup
            {s \in Services : svc'[s].target \in Layouts /\ (ok => passedOver(s))}

\* Any error of Update starts the next attempt, if there is one.
failedIsSkipped(s) == Next1(s) /\ UNCHANGED abandoned
failed(s) ==
    \/ /\ w.tries + 1 < RecoverSteps
       /\ w' = [w EXCEPT !.pc = "getSvcs", !.tries = @ + 1]
       /\ UNCHANGED abandoned
    \/ w.tries + 1 >= RecoverSteps /\ recovered(FALSE)

recoverSvcs(s) ==
    LET o == w.held[s]
        current == o.rv = svc[s].rv /\ svc[s].target # Absent
        target == IF w.transition = Adopted THEN Canary ELSE Origin
        owners == IF w.transition = Adopted THEN o.owners ELSE o.owners \ {w.cr.uid}
    IN
    /\ At("recover") /\ s \in w.todo
    /\ \/ /\ current
          /\ svc' = [svc EXCEPT ![s] = [target |-> target, owners |-> owners,
                                        rv |-> svc[s].rv + 1]]
          /\ \/ Next1(s) /\ abandoned' = abandoned \ {s} /\ NoFault
             \/ failed(s) /\ Fault
       \/ UNCHANGED svc /\ failed(s) /\ MayFail(~current)
    /\ UNCHANGED <<cr, rel, forked, canary, workload, caches, memory, env>>

recoverDone ==
    /\ At("recover") /\ w.todo = {}
    /\ UNCHANGED <<api, caches, memory, env, faults>>
    /\ recovered(TRUE)

releaseFailedIsIgnored == Goto("patchOwners")
releaseFailed == Report("Error")

\* Write the canary config, with its revision incremented, into the Release.
\* The Release is the lister's own object, changed before it is sent.
applyToRelease ==
    LET changed == [w.release EXCEPT !.rev = @ + 1]
        current == w.release.rv = rel.rv /\ rel.exists
        shared == relCache.rv = w.release.rv /\ relCache.exists
    IN
    /\ At("updateRelease") /\ rel.rev < MaxRev
    /\ relCache' = IF shared THEN changed ELSE relCache
    /\ \/ /\ current
          /\ rel' = [changed EXCEPT !.dirty = TRUE, !.rv = rel.rv + 1]
          /\ (Goto("patchOwners") /\ NoFault) \/ (releaseFailed /\ Fault)
       \/ /\ UNCHANGED rel
          /\ releaseFailed /\ MayFail(~current)
    /\ UNCHANGED <<cr, svc, forked, canary, workload, crCache, svcCache,
                   forkedCache, canaryCache, memory, abandoned, env>>

\* After the wait for the new version, which ends with the version or after
\* 10 seconds and whose result is ignored: give the non-service objects of
\* the manifest to the Release.
patchOwners ==
    /\ At("patchOwners")
    /\ \/ /\ w.cr.manifest /\ workload # Absent
          /\ workload' = "release"
          /\ (Loop("resetOwner", {s \in Services : w.held[s].target # Absent}) /\ NoFault)
             \/ (Report("Error") /\ Fault)
       \/ /\ ~w.cr.manifest
          /\ Loop("resetOwner", {s \in Services : w.held[s].target # Absent})
          /\ UNCHANGED workload /\ NoFault
       \/ /\ w.cr.manifest
          /\ Report("Error") /\ MayFail(workload = Absent) /\ UNCHANGED workload
    /\ UNCHANGED <<cr, rel, svc, forked, canary, caches, memory, abandoned, env>>

resetOwner(s) ==
    /\ At("resetOwner") /\ s \in w.todo
    /\ Next1(s)
    /\ \/ /\ svc[s].target # Absent
          /\ svc' = [svc EXCEPT ![s] = [svc[s] EXCEPT !.owners = {}, !.rv = @ + 1]]
          /\ NoFault
       \/ UNCHANGED svc /\ MayFail(svc[s].target = Absent)
    /\ UNCHANGED <<cr, rel, forked, canary, workload, caches, memory,
                   abandoned, env>>

resetOwnerDone ==
    /\ At("resetOwner") /\ w.todo = {}
    /\ Loop("deleteForked", w.forkedList)
    /\ UNCHANGED <<api, caches, memory, abandoned, env, faults>>

\* Delete every object of the stored manifest; an error is only logged.
deleteManifest ==
    /\ At("deleteManifest")
    /\ Loop("deleteForked", w.forkedList)
    /\ \/ ~w.cr.manifest /\ UNCHANGED <<canary, workload>> /\ NoFault
       \/ w.cr.manifest /\ canary' = NoCanary /\ workload' = Absent /\ NoFault
       \/ /\ w.cr.manifest /\ Fault
          /\ \E done \in SUBSET Services :
                canary' = [s \in Services |-> canary[s] /\ s \notin done]
          /\ UNCHANGED workload
    /\ UNCHANGED <<cr, rel, svc, forked, caches, memory, abandoned, env>>

deleteForked(s) ==
    /\ At("deleteForked") /\ s \in w.todo
    /\ Next1(s)
    /\ \/ forked' = [forked EXCEPT ![s] = 0] /\ NoFault
       \/ UNCHANGED forked /\ Fault
    /\ UNCHANGED <<cr, rel, svc, canary, workload, caches, memory,
                   abandoned, env>>

deleteForkedDone ==
    /\ At("deleteForked") /\ w.todo = {}
    /\ IF w.transition = Adopted THEN Loop("deleteCanary", w.canaryList)
                                 ELSE Goto("patchPhase")
    /\ UNCHANGED <<api, caches, memory, abandoned, env, faults>>

deleteCanary(s) ==
    /\ At("deleteCanary") /\ s \in w.todo
    /\ Next1(s)
    /\ \/ canary' = [canary EXCEPT ![s] = FALSE] /\ NoFault
       \/ UNCHANGED canary /\ Fault
    /\ UNCHANGED <<cr, rel, svc, forked, workload, caches, memory,
                   abandoned, env>>

deleteCanaryDone ==
    /\ At("deleteCanary") /\ w.todo = {}
    /\ Goto("patchPhase")
    /\ UNCHANGED <<api, caches, memory, abandoned, env, faults>>

\* The phase is patched by name, whatever object has the name now; an error
\* is ignored.
patchPhase ==
    /\ At("patchPhase")
    /\ \/ /\ cr.uid # 0 /\ NoFault
          /\ cr' = [cr EXCEPT !.phase = w.cr.tr, !.manifest = FALSE]
       \/ UNCHANGED cr /\ MayFail(cr.uid = 0)
    /\ runningConfig' = NoCfg /\ exiting' = TRUE
    /\ Report(w.cr.tr)
    /\ UNCHANGED <<rel, svc, forked, canary, workload, caches, proc, queue,
                   nginxConfig, abandoned, env>>

----------------------------------------------------------------------------
(***************************************************************************)
(* The process: start, SIGTERM, waitForCleanup, exit, crash                *)
(***************************************************************************)

\* Run: list everything, then start the worker.
Run ==
    /\ proc = "down" /\ cr.uid # 0 /\ cr.phase = None
    /\ proc' = "up"
    /\ crCache' = cr /\ relCache' = rel /\ svcCache' = svc
    /\ forkedCache' = forked /\ canaryCache' = canary
    /\ queue' = addCanaryRelease(cr)
    /\ UNCHANGED <<api, runningConfig, nginxConfig, exiting, w, abandoned,
                   env, faults>>

\* SIGTERM: the controller removes the proxy of a finished or deleted
\* CanaryRelease; a drained node terminates any.
handleSigterm ==
    /\ proc = "up"
    /\ \/ (cr.uid = 0 \/ cr.phase # None) /\ UNCHANGED crashes
       \/ crashes > 0 /\ crashes' = crashes - 1
    /\ proc' = "term"
    /\ UNCHANGED <<api, caches, queue, runningConfig, nginxConfig, exiting,
                   w, abandoned, lastUid, ops, faults>>

waitForCleanup ==
    /\ proc = "term"
    /\ exiting \/ crCache.uid = 0 \/ crCache.tr = None
    /\ proc' = "stopping"
    /\ UNCHANGED <<api, caches, queue, runningConfig, nginxConfig, exiting,
                   w, abandoned, env, faults>>

\* The process is gone, with its caches, its queue and its nginx.
Down ==
    /\ proc' = "down" /\ queue' = {} /\ w' = Idle
    /\ runningConfig' = NoCfg /\ nginxConfig' = NoCfg /\ exiting' = FALSE
    /\ crCache' = NoCR /\ relCache' = NoRelease /\ svcCache' = NoSvcs
    /\ forkedCache' = NoForked /\ canaryCache' = NoCanary
    /\ UNCHANGED <<api, abandoned, lastUid, ops, faults>>

\* Stop returns once nginx has quit, or the grace period of the pod is over.
Exit == proc \in {"term", "stopping"} /\ Down /\ UNCHANGED crashes

Crash == proc # "down" /\ crashes > 0 /\ crashes' = crashes - 1 /\ Down

----------------------------------------------------------------------------
(***************************************************************************)
(* The rest of the cluster: the user, the release controller, the garbage  *)
(* collector                                                               *)
(***************************************************************************)

Operation(op) ==
    op \in ops.of /\ ops.left > 0 /\ ops' = [ops EXCEPT !.left = @ - 1]

UserUnchanged == UNCHANGED <<svc, forked, canary, workload, caches, memory, w,
                             abandoned, crashes, faults>>

UserEdits(c) ==
    /\ Operation("edit") /\ cr.uid # 0 /\ cr.cfg # c
    /\ cr' = [cr EXCEPT !.cfg = c]
    /\ UserUnchanged /\ UNCHANGED <<rel, lastUid>>

UserEnds(t) ==
    /\ Operation(IF t = Adopted THEN "adopt" ELSE "deprecate")
    /\ cr.uid # 0 /\ cr.tr = None
    /\ cr' = [cr EXCEPT !.tr = t]
    /\ UserUnchanged /\ UNCHANGED <<rel, lastUid>>

UserDeletes ==
    /\ Operation("delete") /\ cr.uid # 0
    /\ cr' = NoCR
    /\ UserUnchanged /\ UNCHANGED <<rel, lastUid>>

UserRecreates(c) ==
    /\ Operation("recreate") /\ cr.uid = 0 /\ lastUid < MaxUid
    /\ lastUid' = lastUid + 1
    /\ cr' = [NoCR EXCEPT !.uid = lastUid + 1, !.cfg = c, !.ver = rel.ver]
    /\ UserUnchanged /\ UNCHANGED rel

UserUpdatesRelease ==
    /\ Operation("updateRelease") /\ rel.exists
    /\ rel' = [rel EXCEPT !.rev = @ + 1, !.dirty = TRUE, !.rv = @ + 1]
    /\ UserUnchanged /\ UNCHANGED <<cr, lastUid>>

UserDeletesRelease ==
    /\ Operation("deleteRelease") /\ rel.exists
    /\ rel' = [rel EXCEPT !.exists = FALSE, !.rv = @ + 1]
    /\ UserUnchanged /\ UNCHANGED <<cr, lastUid>>

\* External: the release controller rolls a changed Spec out as a new version.
ReleaseController ==
    /\ rel.exists /\ rel.dirty
    /\ rel' = [rel EXCEPT !.ver = @ + 1, !.dirty = FALSE, !.rv = @ + 1]
    /\ UNCHANGED <<cr, svc, forked, canary, workload, caches, memory, w,
                   abandoned, env, faults>>

\* External: the garbage collector removes an object all of whose owners are
\* gone.  A forked service is owned by the CanaryRelease that created it, an
\* original by the Release and its takers, the canary objects by both.
GarbageCollector ==
    /\ \/ \E s \in Services :
            /\ forked[s] # 0 /\ forked[s] # cr.uid
            /\ forked' = [forked EXCEPT ![s] = 0]
            /\ UNCHANGED <<svc, canary, workload>>
       \/ \E s \in Services :
            /\ ~rel.exists /\ svc[s].target # Absent /\ cr.uid \notin svc[s].owners
            /\ svc' = [svc EXCEPT ![s] = [target |-> Absent, owners |-> {}, rv |-> svc[s].rv]]
            /\ UNCHANGED <<forked, canary, workload>>
       \/ /\ ~rel.exists /\ cr.uid = 0
          /\ <<canary, workload>> # <<NoCanary, Absent>>
          /\ canary' = NoCanary /\ workload' = Absent
          /\ UNCHANGED <<svc, forked>>
    /\ UNCHANGED <<cr, rel, caches, memory, w, abandoned, env, faults>>

----------------------------------------------------------------------------

Sync ==
    \/ renderService \/ updateObjects \/ patchManifest
    \/ \E s \in Services : createForked(s)
    \/ OnUpdate
    \/ \E s \in Services : takeOver(s)
    \/ setRunningConfig

Cleanup ==
    \/ cleanup \/ getSvcs
    \/ \E s \in Services : recoverSvcs(s)
    \/ recoverDone \/ applyToRelease  \/ patchOwners
    \/ \E s \in Services : resetOwner(s)
    \/ resetOwnerDone \/ deleteManifest
    \/ \E s \in Services : deleteForked(s)
    \/ deleteForkedDone
    \/ \E s \in Services : deleteCanary(s)
    \/ deleteCanaryDone \/ patchPhase

Worker == (\E it \in queue : syncCanaryRelease(it)) \/ deprecate \/ report
          \/ Sync \/ Cleanup

Informers == RefreshCR \/ RefreshRelease \/ RefreshServices

Process == Run \/ handleSigterm \/ waitForCleanup \/ Exit \/ Crash

User ==
    \/ \E c \in Cfgs : UserEdits(c) \/ UserRecreates(c)
    \/ \E t \in {Adopted, Deprecated} : UserEnds(t)
    \/ UserDeletes \/ UserUpdatesRelease \/ UserDeletesRelease

Next == Worker \/ Informers \/ Process \/ User \/ ReleaseController \/ GarbageCollector

Spec == Init /\ [][Next]_vars

\* The worker, the informers, the release controller and the restarts by the
\* Deployment keep going.  Nothing obliges the user, a crash or a node drain.
Fairness ==
    /\ WF_vars(Worker)
    /\ WF_vars(RefreshCR) /\ WF_vars(RefreshRelease) /\ WF_vars(RefreshServices)
    /\ WF_vars(Run) /\ WF_vars(Exit)
    /\ WF_vars(ReleaseController)

FairSpec == Spec /\ Fairness

----------------------------------------------------------------------------
(***************************************************************************)
(* Properties                                                              *)
(***************************************************************************)

Taken(s) == svc[s].target \in Layouts     \* s leads to the proxy
Reports(r) == w.pc = "report" /\ w.result = r

\* While the first CanaryRelease exists, both services that nginx forwards to
\* exist for every service that leads to the proxy, whatever fails or crashes
\* in between: _sync creates them before it takes the service over and
\* _cleanup deletes them after it gave the service back.  The exceptions are
\* the services that a deprecation left behind, because the last attempt to
\* recover them failed or the lister did not show their forked copy
\* (proxy.go:856-858, 1028-1031).
BackendsAlive ==
    cr.uid = 1 => \A s \in Services \ abandoned :
                     Taken(s) => forked[s] # 0 /\ canary[s]

\* _sync points a service at the proxy only when nginx already runs the
\* config whose upstream ports the service is given (proxy.go:577-612).
TakeoverIsPrepared ==
    [][\A s \in Services :
          svc'[s].target \in Layouts /\ svc'[s].target # svc[s].target
          => nginxConfig # NoCfg /\ LayoutOf[nginxConfig] = svc'[s].target]_vars

\* Once a CanaryRelease has its final phase, no service is taken over for it
\* again, not by a queued older item, a stale cache or a restarted proxy.
PhaseIsFinal ==
    [][cr.uid = 1 /\ cr.phase # None =>
          \A s \in Services : Taken(s)' => Taken(s)]_vars

\* An adoption is finished only when the canary config is in the Release: an
\* error on the way ends it before (no one else writes the Release here).
AdoptedIsApplied == cr.phase = Adopted => rel.rev > 1

\* An adoption writes only a Release that still has the version the canary
\* was made for, though the version is checked on a cached copy, while the
\* user, the release controller and earlier attempts change the Release.
AdoptsItsVersion ==
    [][w.pc = "updateRelease" /\ w'.pc # w.pc /\ rel'.rev # rel.rev
       => rel.ver = w.cr.ver]_vars

\* A CanaryRelease deleted and created again keeps the services taken over for
\* it: no item of a former incarnation gives them back.
TakeoverSurvivesFormer ==
    [][\A s \in Services :
          Taken(s) /\ cr.uid \in svc[s].owners /\ svc'[s].target \in {Origin, Canary}
          => w.cr.uid = cr.uid]_vars

\* A deprecation requested in Spec.Transition completes, across crashes,
\* restarts and stale caches, as long as no API call fails: the phase is
\* what makes the controller remove the proxy.
DeprecationCompletes ==
    cr.uid = 1 /\ cr.tr = Deprecated ~> cr.uid # 1 \/ cr.phase # None

\* As long as no sync has to report an error, every changed service config is
\* in the end what nginx runs and what all services in the API server ask
\* for, unless the canary ends first or its Release moves on: no edit is lost
\* between the handlers, older items, a sync under way and a restart.
ConfigIsRolledOut ==
    \/ <>Reports("Error")
    \/ []<>(\/ cr.uid # 1 \/ cr.tr # None \/ ~rel.exists \/ rel.ver # cr.ver
            \/ /\ nginxConfig = cr.cfg
               /\ \A s \in Services : svc[s].target = LayoutOf[cr.cfg])

(***************************************************************************)
(* Statements of the documents and comments that the code does not keep;   *)
(* a run of its own refutes each of them.                                  *)
(***************************************************************************)

\* design.md:64-68: adoption ends with "reports status in `CanaryRelease`".
\* After the Release got its new version a restarted adoption finds the
\* version moved and stops for good.
AdoptionEnds ==
    cr.uid = 1 /\ cr.tr = Adopted ~> cr.uid # 1 \/ cr.phase # None

\* design.md:56: the proxy "takes over the original services in `Release`";
\* it reports Available when it has.  A takeover whose Update failed is
\* already in the cache, and the retry skips it.
AvailableIsTakenOver ==
    Reports("Available") => \A s \in Services : svc[s].target = LayoutOf[runningConfig]

----------------------------------------------------------------------------
(***************************************************************************)
(* What all of this is for: TrafficRouting, of the first CanaryRelease.    *)
(***************************************************************************)

Stage == IF cr.uid # 1 THEN "gone"
         ELSE IF cr.phase # None THEN "ended"
         ELSE IF cr.tr # None THEN "ending" ELSE "running"

RouteOf(target) == CASE target = Origin -> "original"
                     [] target = Canary -> "canary"
                     [] target = Absent -> "absent"
                     [] OTHER -> "split"

\* The attempt to recover the services, and what it has listed.
Attempt == IF w.pc \in {"getSvcs", "recover"} THEN w.tries + 1 ELSE 0
Listed == IF w.pc = "recover" THEN {s \in Services : ~passedOver(s)} ELSE Services

Routing == INSTANCE TrafficRouting WITH
    Attempts <- RecoverSteps,
    stage <- Stage,
    route <- [s \in Services |-> RouteOf(svc[s].target)],
    served <- {s \in Services : forked[s] # 0 /\ canary[s]},
    attempt <- Attempt,
    listed <- Listed

\* Every step of the proxy, of the users, of faults and crashes is a step of
\* TrafficRouting or changes nothing it speaks of: the CanaryRelease goes
\* through its stages in order, a service is split only when both sides are
\* there and given back only once the end is requested; its two sides are
\* deleted only after that, unless RecoverSteps attempts to give it back
\* have failed or the last one did not list it (design.md:54-81).
ImplementsRouting == Routing!Spec

----------------------------------------------------------------------------
(***************************************************************************)
(* The inductive invariant behind BackendsAlive, PhaseIsFinal and          *)
(* TakeoverIsPrepared; CanaryProxyProofs proves it.                        *)
(***************************************************************************)

\* A CanaryRelease that exists has a service config, and the worker syncs
\* only such a one; while it takes services over, nginx runs that config.
ConfigsKnown ==
    /\ cr.uid # 0 => cr.cfg \in Cfgs
    /\ crCache.uid # 0 => crCache.cfg \in Cfgs
    /\ w.pc \in SyncPcs => w.cr.uid # 0 /\ w.cr.cfg \in Cfgs
    /\ w.pc = "takeOver" => nginxConfig = w.cr.cfg

\* The process and the worker agree with the first CanaryRelease.
SeesFirst ==
    /\ \A s \in Services : forked[s] \in {0, 1}
    /\ proc = "down" => w.pc = "idle"
    /\ proc # "down" => crCache.uid = 1 /\ (crCache.tr # None => cr.tr # None)
    /\ w.pc \notin {"idle", "report"} => w.cr.uid = 1
    /\ w.pc \in CleanupPcs => w.cr.tr # None /\ crCache.tr # None
    /\ \A s \in Services : proc # "down" /\ svc[s].target # Absent
                           => svcCache[s].target # Absent

\* The worker can never start or be within a sync again.
Ended ==
    /\ cr.tr # None /\ w.pc \notin SyncPcs
    /\ proc # "down" => crCache.tr # None

\* What _sync has prepared so far.
Prepared ==
    /\ w.pc \in {"patchManifest", "createForked", "takeOver"}
         => \A s \in Services : canary[s]
    /\ w.pc = "createForked" => \A s \in Services \ w.todo : forked[s] # 0
    /\ w.pc = "takeOver" => \A s \in Services : forked[s] # 0

Released(s) == ~Taken(s) \/ s \in abandoned

\* What _cleanup may delete.
Recovered ==
    /\ w.pc \in {"recover", "updateRelease", "patchOwners", "resetOwner",
                 "deleteForked", "deleteCanary"} /\ w.transition = Adopted
         => \A s \in w.forkedList \cup w.canaryList :
               (w.pc = "recover" /\ s \in w.todo) \/ Released(s)
    /\ w.pc = "recover" /\ w.transition # Adopted
         => \A s \in Services : s \in w.todo \/ passedOver(s) \/ Released(s)
    /\ w.pc = "recover" => \A s \in w.todo : ~passedOver(s)
    /\ w.pc \in {"deleteManifest", "deleteForked"} /\ w.transition # Adopted
         => \A s \in Services : Released(s)
    /\ w.pc = "deleteManifest" => w.transition # Adopted
    /\ w.pc \in {"updateRelease", "patchOwners", "resetOwner"} => w.transition = Adopted
    /\ w.pc = "deleteForked" => w.todo \subseteq w.forkedList
    /\ w.pc = "deleteCanary" => w.todo \subseteq w.canaryList /\ w.transition = Adopted

\* A forked service without its canary service is the mark of a cleanup.
Halves ==
    \A s \in Services :
       /\ forked[s] # 0 /\ ~canary[s] => Ended
       /\ forkedCache[s] # 0 /\ ~canaryCache[s] => Ended /\ Released(s)

Protected(s) == Released(s) \/ (forked[s] # 0 /\ canary[s])

\* The inductive invariant: as long as the first CanaryRelease exists, all of
\* the above, and what is to be shown.
FirstInv ==
    /\ SeesFirst /\ Prepared /\ Recovered /\ Halves
    /\ cr.phase # None => Ended
    /\ \A s \in Services : Protected(s)

BackendsInv == cr.uid = 1 => FirstInv

=============================================================================
