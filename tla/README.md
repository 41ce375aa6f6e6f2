# Canary release: models, checks and proofs

caicloud/canary-release lets a part of the traffic of a *Release* go to a new version of it. A `CanaryRelease` object
names the Release, the version it was made for, the services concerned with their ports and weights, and a
*transition*: None while the canary runs, Adopted or Deprecated when it is to end. Two programs serve it. The
**controller** runs one proxy Deployment per CanaryRelease. The **proxy** is nginx with a small controller beside it: it
copies every service twice (a *forked* service for the original pods, a *canary* service for the new ones), configures
nginx to split the traffic between the two, and points the original service at itself. At the end it undoes this, either
after writing the canary config into the Release (adoption) or without (deprecation), and stores the final phase.

This directory holds TLA+ models of both programs, the TLC runs that check them on small instances, and TLAPS proofs of
the central properties for every instance. Paths below are relative to `src/`.

## Inventory

### Canary proxy (`proxies/nginx/controller/proxy.go`, `util.go`, `cmd/nginx-proxy/main.go`)

*State.* In the API server: the CanaryRelease, the Release, the original, forked and canary services, the other canary
resources, `Status.Manifest`. In memory: three informer caches, the work queue, `runningConfig` (the nginx config
counted as rolled out), `exiting`. In nginx: the loaded config.

*Operations.* Event handlers for CanaryReleases and Releases; `syncCanaryRelease`, which dispatches an item to `_sync`
(render, update objects, patch the manifest, create forked services, reload nginx, take services over), to `_cleanup`
(recover services, update the Release, change owners, delete copies, patch the phase) or to `deprecate`; SIGTERM
handling and `Stop`.

*Hard behaviour.* Every one of some ten API calls may fail, or be applied and lose its reply; the user edits, ends,
deletes or recreates the CanaryRelease between any two of them; caches lag; items of deleted CanaryReleases outlive
them in the queue; a crash leaves the sequence half done and the restart begins it again over what is there.

*Correct when.* A service that leads to the proxy has both backends; it is pointed only at ports nginx listens on; the
final phase is final; Adopted means that the Release has the canary config, and only the version that the canary was
made for is replaced; a former CanaryRelease never undoes the work of the present one; requested deprecations finish and
edited configs are rolled out.

### Upstream configuration (`proxy.go:485-700` and `1050-1068`, `util.go`, `proxies/nginx/config/nginx.go`, `pkg/api/types_equals.go`, `nginx.tmpl`)

*State.* None of its own; a spec determines a config: one nginx listener per listed port, numbered from 8080, with two
weighted endpoints. What was made of a spec stays behind in nginx, in `runningConfig` and in the target ports.

*Operations.* `getUpsteamService`, `Equal`, the rewriting of target ports, and the steps of `_sync` around them.

*Hard behaviour.* Listeners are numbered by position, so that an edit may renumber all of them; TCP and UDP ports may
have one number; the API server fills in what a template leaves out; a comparison decides whether an edit is rolled out;
the services in the cache lag, are edited in place before the Update that may fail, and are compared with afterwards.

*Correct when.* Every listed port of a service reported Available reaches exactly one listener, the one with its own
copies and weights, unless the service's last Update failed; no difference between configs is overlooked; no edit is
forgotten; weights alone move no listener.

### nginx supervisor (`proxies/nginx/controller/nginx.go`, `proxies/nginx/template/template.go`)

*State.* `nginx.conf`, the template in use, the nginx master process with what it has loaded and the signals it has
not handled, the position of the loop in `Start`.

*Operations.* `OnUpdate` (render, clean with a script, test, write, reload), `Start` (start nginx again when it dies),
`Stop` (quit and wait), the watcher's callback that replaces the template.

*Hard behaviour.* Four goroutines and a process: a reload is only a signal and may meet a master that is dead, starting
or about to die; a file is truncated before it is written; the supervisor restarts what the shutdown waits to see gone.

*Correct when.* `nginx.conf` is always one nginx can start from; a config counted as running reaches nginx and is served
again after nginx died; a stop ends.

### Canary controller (`controller/controller/canary.go`, `status.go`, `sort.go`, `pkg/util/retry.go`)

*State.* In the API server: the CanaryRelease with phase and proxy status, the proxy Deployments and their pods. In
memory: four informer caches and a queue keyed by object pointer, served by five workers (`cmd/controller/main.go:67`).

*Operations.* Handlers for CanaryReleases, Releases (deletions only) and pods, none for Deployments;
`syncCanaryRelease`, which deletes the CanaryRelease, deprecates it, cleans its Deployments up, or makes sure that there
is exactly one; `syncStatus`, which stores the pod status with `UpdateCRWithRetries`.

*Hard behaviour.* Two workers on the same name with different copies; deletions by name; lagging lists; Deployments
left by another controller; a CanaryRelease recreated while its former Deployment is still there; restarts.

*Correct when.* A live CanaryRelease gets one proxy and keeps it; a finished one loses it for good; one whose Release is
gone is deleted; the cleanup for one CanaryRelease leaves another's proxy alone.

### The rest

- **status updates with retries** (`pkg/util/retry.go`, `pkg/api/condition.go`): the optimistic update is an action of
  `CanaryController`; the list of conditions is not modelled, since no code reads it.
- **chart config** (`pkg/chart/chart.go`): puts the canary config at its path in the Release's config; one value here.
- options, version, third-party and vendored code: flags and libraries.

The two programs meet only in the API server: the controller's Deployment starts the proxy, the proxy's final phase makes
the controller remove it, and both deprecate a CanaryRelease whose Release has moved to another version. Within the
proxy, the queue's worker calls `getUpsteamService`, hands the config to the supervisor's `OnUpdate`, and then takes the
services over.

## Modules

| module | models | scope |
|---|---|---|
| `TrafficRouting` | what a proxy promises about traffic (abstract) | the first CanaryRelease of a name |
| `CanaryProxy` | the proxy's controller: queue, sync, cleanup, process life cycle; implements `TrafficRouting` | one CanaryRelease name, its Release and services |
| `UpstreamConfig` | configs, their comparison, target ports, and `_sync` around them | the spec and the services of one CanaryRelease |
| `NginxSupervisor` | `OnUpdate` step by step, `Start`, `Stop`, the template, the nginx master | one container |
| `CanaryController` | the canary controller | one CanaryRelease name, its Deployments and pods |
| `CanarySystem` | the controller with a proxy that moves traffic as `TrafficRouting` allows | the first CanaryRelease of a name and its services |
| `MCCanaryProxy`, `MCUpstreamConfig`, `MCNginxSupervisor`, `MCCanaryController`, `MCCanarySystem` | finite instances | |
| `CanaryProxyProofs`, `CanaryProxyAdoption`, `CanaryProxyRefinement`, `TrafficRoutingProofs`, `UpstreamConfigProofs`, `NginxSupervisorProofs`, `CanaryControllerProofs`, `CanarySystemProofs` | theorems | |

The three modules of the proxy cut it along its interfaces. `CanaryProxy` has every API call and failure but treats a
config as a value and `OnUpdate` as one step. `UpstreamConfig` says what that value is; `NginxSupervisor` what that step
does. They share `_sync`: the same calls in the same order, each module with the part of the state it is about.

### TrafficRouting

Six variables: the stage of the CanaryRelease (running, ending, ended, gone), where each service leads (original, split,
canary, absent), which services have both sides of the split, the attempt of a cleanup to give the services back with
what it has listed, and the services that cleanups left behind. A service is split only while both its sides exist and is
given back only once the end is requested; its sides are deleted only after that. There are two ways out, and `Fail`
and `End` allow no other: the last of `Attempts` attempts fails, and what is still split is abandoned; or an attempt
succeeds without having listed a service (`Listed`: the lister did not show it or its copy), and this one is abandoned.
`docs/design.md:78-83` has the services reverted before their copies are deleted and does not mention either case. A
service given back later is no longer abandoned. `CanaryProxy` maps its state to these variables (`Stage`, `RouteOf`,
`Attempt`, `Listed`, `Routing`) and implements the module: checked by `proxy_services`, proved by
`ProxyImplementsRouting`. Nothing is promised after a deletion of the CanaryRelease.

### CanaryProxy

The objects in the API server and the caches are separate variables. A cache follows its object only in a `Refresh…`
action, which also runs the event handlers; it may skip intermediate versions as a relist does. The proxy's single queue
worker is the record `w`: program counter, item, and the local variables of `syncCanaryRelease`. One action is one call
to the API server or to nginx with everything up to the next one, reads from caches included; the actions carry the names
of the functions they come from. A call may fail, or take effect and report failure, while `MaxFaults` lasts; a full
Update fails whenever the copy it sends is stale, at no cost. `Crash` loses the memory at any moment, `Run` starts again
with synced caches.

Configs, ports and weights are abstract: `LayoutOf` says which upstream ports a config leads to, and a service points at
`Origin`, `Canary` or a layout. `Exact` are the services whose rendered ports equal the stored ones, which decides
whether a further sync sees a difference. The revision of the Release stands for its config. The comparison "manifest is
not changed" (`proxy.go:520`) never holds, because `SplitManifest` trims what `ObjectsToResources` does not.

The release controller (which rolls an edited Release out and sets its version), the garbage collector and the users are
external actions.

### UpstreamConfig

A spec is the sequence of services with their sequences of ports, as the API has it. `Before` is the order of the two
loops: services as listed (`sort.Sort(cols)` compares a name nobody sets), ports by number and then as listed.
`upsteamPort` is 8080 plus the number of entries before. `L4Service` has the fields of the struct that a config fills;
`Equal` and `L4Equal` are the Go comparisons, with the backends as sets (no two of a config are equal, since their ports
differ). `protoPort2upstreamPort` is the map of that name, 0 for a missing key, for which the API server takes the
port itself (`newTargetPort`). `Accepts` is what `nginx -t` demands: weights of at least 1, resolvable names, distinct
listeners. The state machine runs `_sync` one call per step. Each call may fail, or take effect and report failure; a failed item is queued again and dropped after `MaxRetries` requeues.

The cache of services (`lister`) is separate from what is stored (`selector`, `targets`). `svcCol` points into the cache,
and the informer puts a new object in the place of the old one while the worker goes on with the old (`held`,
`inCluster`). `updateService` edits that object in place and then sends it: the Update fails whenever the object is not
the latest, or as a fault, and the edit stays. The retry compares with the edited object, skips the service and reports
Available. `lost` is the set of services whose last Update failed so; the properties speak of the others. `updateObjects`
is `ReleaseClient.Update` (external code) on the objects a spec leaves out: they are rendered under their own names, so
that the call tries to create the services the spec does not list, which fails for ever (AlreadyExists) for one never
taken over, and deletes a service that was dropped and is listed again. An `OnUpdate` that fails after it has written the
file is left to `NginxSupervisor`, the cleanup and a lagging CanaryRelease to `CanaryProxy`.

### NginxSupervisor

`render`, `truncate`, `write` and `reload` are the steps of `OnUpdate`; `services` stands for the rest of `_sync` up to
`runningConfig`. `Write` may return a drained buffer when the script fails (`Cut`), and `WriteFile` truncates before it
writes. `cut` remembers that the last writing of the file failed: the only state, besides a write in progress, in which
`FileIsTested` lets the file be one that nginx refuses. The master goes from *starting* to *opened* (config read, ports
bound) to *up* (pid file written); only then do `reload` and `Stop` find it. A killed master may leave workers that keep its ports (`orphans`). `aSecondPasses` is a
timing assumption: `Start` waits a second after nginx is gone and `waitForNginxShutdown` looks once a second, so it has
looked before nginx is started again. `Accident` bounds deaths, container restarts and template changes together.

### CanaryController

It follows one CanaryRelease name through its incarnations (uids). `Workers` run `syncCanaryRelease` concurrently, one
API call per action. `current` and `podsSeen` say whether a cache has the latest resourceVersion, which decides conflicts
and events. Two workers may hold the same incarnation at any time; the code excludes this only while both items are the
very same object, so the properties are shown for more interleavings than there are. A watch delivers a deletion before
the next creation (no relist across the two).

Deployments are numbers in alphabetical order with the uid of their owner; pods are one per uid, since nothing here tells
replicas apart. A pod of a deleted Deployment is `doomed` when another Deployment is created before it is gone: it is not
taken over.

With `PodsLag = FALSE` the deployment cache is not older than the pod cache when pod events are handled. The code needs this: with
`TRUE` a Deployment created behind a cleanup stays when its pod events come before the lister shows it, since no handler
looks at Deployments. All runs use `FALSE`: the two watches lag for milliseconds, a pod starts in seconds.

### CanarySystem

It joins the two programs: all of `CanaryController`, with a proxy that may take every step of `TrafficRouting` while there
is a pod, be it one that is going to be removed. The traffic variables are declared in `CanaryController`, where no step
moves them. The stage is read off the CanaryRelease (`Stage`); controller, users and the garbage collector move it, and
`ProxyFinishes` stores the phase. Two things are shown here and nowhere else. Split traffic arrives only where the
controller keeps a pod (`TrafficHasProxy`). And the stages, which `TrafficRouting` takes for granted, are followed by
workers that patch and delete by name and update with old copies (`StagesFollow`, the life cycle of `TrafficRouting`).
That traffic follows `TrafficRouting` is not claimed here, since the proxy's steps are its actions by definition:
`CanaryProxy` is what shows it. Nobody but controllers made labelled Deployments: those in `Names \ Prefixed` are absent
at the start.

## Runs

| run | instance | shows |
|---|---|---|
| `proxy_services` | two services, adopt or deprecate, one fault | `BackendsAlive`, `AdoptedIsApplied`, `ImplementsRouting` |
| `proxy_histories` | deprecate, delete, recreate; or two of adopt, deprecate, change or delete the Release, and one crash | `TypeOK`, the inductive invariant `BackendsInv`, `PhaseIsFinal`, `TakeoverSurvivesFormer`, `AdoptsItsVersion` |
| `proxy_live` | edits and deprecation, one crash, rendered ports that never equal the stored ones (`Exact = {}`), fairness | `TakeoverIsPrepared`, `DeprecationCompletes`, `ConfigIsRolledOut` |
| `upstream_config` | two services with five ports, five specs, two edits, one fault, one retry, one restart, fairness | `TypeOK`, `SplitAsAsked`, `RestIsUpToDate`, `WeightsMoveNothing`, `RolledOut` |
| `nginx_supervisor` | two configs, two templates, two edits, one fault, one accident, fairness | `TypeOK`, `FileIsTested`, `ReloadReaches`, `ServedAgain`, `StopEnds` |
| `controller_live` | two workers, two Deployments, one operation, one restart, fairness | `ProxyIsKept`, `ProxyRunsOn`, `LiveGetsProxy`, `OneProxyIsLeft`, `FinishedLosesProxy`, `ReleaseGoneDeletes` |
| `canary_system` | one worker, two incarnations, two operations, one fault, one service | `TypeOK`, `TrafficHasProxy`, `StagesFollow` |
| `available_is_taken_over`, `adoption_ends`, `legal_is_accepted`, `own_copies_only`, `finished_is_cleaned_up` | the least that shows the case | a violation each, see below |

*Bounds.* Operations, faults, crashes, revisions, incarnations and retries are bounded by the constants of that name in
the guards; in `CanaryProxy` a plan (`Plans`) names the operations an instance allows, how many of them, and how many
crashes. In the models of the proxy and the controller, two services are enough because the code treats services one
by one and couples them only in loops that stop at the first error; two incarnations because an item is compared only
with the present one; one fault or crash, at any step, because the sequence is then restarted from its beginning.
Retries are bounded below the code's values (3 requeues, 5 attempts) where the instance is large: a further retry
repeats the step from the same program point. In `upstream_config` the specs contain each case the functions
distinguish: ports in and out of order, a TCP and a UDP port of one number, HTTP and HTTPS, a nil weight, weights beyond
100, a port rendered without protocol, an unlisted port, services dropped, unknown, and without ports; two edits are a
change and its way back. The controller runs five workers; two are what a race takes, and `canary_system` has one to stay
small: the theorems on its two properties hold for any number. Weights of 100 and more for TCP are in `legal_is_accepted` only, since nginx refuses them. In
`nginx_supervisor` the second config is the one compared with the first, and one accident meets every step of an
`OnUpdate`, of a restart and of a stop; accidents share a budget because two of different kinds do not interact beyond
the state they leave.

*Deadlock* is not checked: both programs rest when nothing is left to do.

*Fairness.* The worker is weakly fair (its goroutine is never blocked for good: calls return), so are the informers
(client-go's reflectors reconnect), `Run` (the Deployment restarts its pod), `Supervisor` and `Shutdown` (goroutines),
the steps of a living nginx master, and in the controller's model the Kubernetes controllers, and the proxy's final
patch, which `DeprecationCompletes` shows for the proxy. No user, fault, crash, restart or template change is obliged to
happen, nor is the end of orphaned nginx workers or the watcher's callback. `DeprecationCompletes` is
checked without failing calls. `ConfigIsRolledOut` is too, and leaves out every behaviour in which a sync reports an
error: a conflict with a lagging cache is one, and after it an edit can be counted as rolled out that is not
(`available_is_taken_over`). `RolledOut` admits faults and conflicts, and speaks of what is reported; it leaves out an item
that has been dropped after its retries.

## Where code and documents disagree

Each of these runs ends in the counterexample described; the statements are quoted in the modules.

| run | what happens |
|---|---|
| `available_is_taken_over` | `_sync` edits the lister's object before an Update that fails; the retry compares with the edited object, skips the service and reports Available |
| `adoption_ends` | a crash after the Release was written; the restarted adoption finds the version moved and stops for good |
| `legal_is_accepted` | a weight of 100 gives the origin weight 0, which the template writes for TCP and nginx refuses; `types.go` calls 100 legal |
| `finished_is_cleaned_up` | the cleanup for a deleted CanaryRelease deletes, by a name it has listed, the Deployment that another of the controller's workers has just created for its successor |
| `own_copies_only` | a service dropped from the spec keeps its target ports, which the next config gives to another service |

Other behaviour a reader should know of, in the models and under `hazards` in PROJECT.json:

- When all five attempts to recover the services fail, a deprecation logs it and deletes the copies anyway. The same
  becomes of a service whose forked copy the lister does not show yet, without any failure. `abandoned` holds the services
  this leaves with the proxy and without a backend.
- A takeover or an `OnUpdate` that fails after `nginx.conf` was written leaves `runningConfig` at the config before.
  An edit back to that one is reported Available without a reload, and nginx keeps, or loads at its next start, the other:
  `SplitAsAsked` and `ReloadReaches` speak of nginx while it runs, or the file holds, the config counted as running.
- A canary service not yet in the lister is passed over when an adoption gives services back; the phase becomes Adopted
  with a service that still leads to the proxy.
- The queue runs before nginx is up, and a dead nginx is back after a second at the earliest, while three retries take
  milliseconds: the item is dropped, and the config waits for the next event.
- Between the reload and the update of a service a renumbering edit sends its clients to the wrong listener.
- A port whose template leaves the protocol out is looked up under the wrong key and gets its own number as target port.
- The objects of a spec include the services it does not list, under their own names: a spec that leaves out a service
  that was never taken over can never be rolled out, and one that lists a service again that was dropped deletes it.
- A service listed without ports adds nothing to the config, so that a spec that lists it anew equals the running one:
  it is reported Available without the service being taken over, and the next edit that changes the config does it.
- `deprecate` patches without a resourceVersion and can overwrite an Adopted; `waitForCleanup` returns at once for a
  CanaryRelease that is gone; a version that moves without an edit of the Release reaches no sync; a status write can be
  lost because `syncStatus` compares with a cached copy; a quickly recreated CanaryRelease may get its proxy only with a
  later pod event; a changed template triggers no `OnUpdate`.

## Proofs

All theorems hold for every value of the constants that satisfies the named `ASSUME`s of the module they are about;
TLC evaluates those in every run. Besides these, nothing is assumed.

**`CanaryProxyProofs`**: for every set of services and configs, every layout function and all bounds,

- `TypeCorrect`: `Spec => []TypeOK`, from `TypeInv == TypeOK /\ ConfigsKnown`: the worker syncs a real config, and
  while it takes services over nginx runs that config.
- `BackendsInvariant`: `Spec => []BackendsInv`, and with it `BackendsStayAlive`: `Spec => []BackendsAlive`.
- `TakeoversArePrepared` and `PhaseStaysFinal`: the action properties `TakeoverIsPrepared` and `PhaseIsFinal`.

The inductive invariant is `BackendsInv` (checked by TLC in `proxy_histories`): while the first CanaryRelease exists,
`FirstInv` holds. `BackendsAlive` alone is not inductive: whether a deletion is harmless depends on what the worker has
recovered, and whether a takeover is harmless on what it has created. So `Prepared` records, per program point, which
copies exist during a sync, and `Recovered` which services no longer lead to the proxy during a cleanup. A cleanup that
crashed leaves a forked service without its canary or the reverse; `Halves` says that this happens only after the end of
the CanaryRelease (`Ended`), when no sync can start again, and what a lagging cache may show of it. `SeesFirst` ties the
process to the first CanaryRelease: its cache never shows a transition that was not requested, which is what keeps an old
queue item from syncing after the end. `abandoned` is a history variable: the services that a deprecation
left with the proxy, because the last of its attempts to recover them failed before it gave them back, or because it did
not list them; they are the exception `BackendsAlive` makes. What an attempt did list is given back when it ends without
an error, which `Recovered` keeps track of while it runs. For a second CanaryRelease of the same name `BackendsAlive` does not hold
(its forked services may still be owned by the first one and be garbage collected), so it is stated for the first.

**`CanaryProxyAdoption`**, of every incarnation: `AdoptedOnlyIfApplied` (`AdoptedIsApplied`), whose invariant
`AdoptionInv` follows the revision from the Release through its cached copy into the worker; and `AdoptionKeepsVersion`
(`AdoptsItsVersion`), whose invariant says that a cached copy with the Release's resourceVersion has its version, so that
an Update that succeeds replaces what was checked. `FormerUndoesNothing` (`TakeoverSurvivesFormer`): no item of a deleted
CanaryRelease gives back what its successor took over. `FormerInv` says that a former CanaryRelease has ended in the worker and
in the queue before the present one owns a service, in the API server, in the cache or in the worker's copies: the proxy
has one worker and one cached CanaryRelease, so that it takes nothing over for the present one until it has seen it, and
from then on starts nothing for a former one. It also needs that no uid is known before it is handed out.

**`CanaryProxyRefinement`**: `ProxyImplementsRouting`, `Spec => ImplementsRouting`. Initial states map to initial states;
for every action, a lemma per group (`SyncSimulates`, `CleanupSimulates`, `OthersSimulate`) shows a step of
`TrafficRouting` or a stutter, from `TypeInv` and `BackendsInv`. An attempt, its listing and each service given back are steps of `TrafficRouting`, so
that a failed or incomplete recovery is abstracted by nothing weaker. **`TrafficRoutingProofs`** has what this is good for:
`SplitServed` and `EndedReleases`, from the abstract actions alone.

**`UpstreamConfigProofs`**, for every set of rendered services and specs:

- `UpstreamPortsDistinct`: `Before` is a strict order, so the count of entries before is strictly increasing along it.
- `EqualConfigsAreEqual`: configs of two specs that `Equal` accepts are the same set of listeners. The code tests one
  direction and the lengths; a one-sided inclusion of finite sets of one size is an equality.
- `TypeCorrect`, with `KnownServices`.
- `SplitIsAsAsked`: `Spec => []SplitAsAsked`. Its inductive part is `SyncInv`: until the reload, nginx, `runningConfig` and
  the target ports are those of the spec last reported, as long as nginx runs `runningConfig`; after it, nginx has the new
  config and the services before the worker's index have the new ports. A skipped sync is where `EqualConfigsAreEqual` is
  needed: equal configs give equal target ports. The worker sees the services in its objects only; `CacheInv` says that
  these agree with what is stored, but for services whose last Update failed (`lost`), and that an object the cache has
  replaced is never the latest. So a comparison that skips a service, and an Update that succeeds, are about the stored one.
- `NoEditIsForgotten`: `Spec => []RestIsUpToDate`, by `RestInv`: with nothing queued the worker is at the stored spec.
- `WeightsMoveNoService`: `Spec => []WeightsMoveNothing`, by `SettledInv`: the services of the spec last reported are
  settled (they lead to the proxy, and rewriting their target ports again changes nothing), and so are those of the
  present one that the worker has passed; a spec with the same ports finds nothing to change.

**`NginxSupervisorProofs`**, for every set of configs and templates and all bounds: `TypeCorrect`; `OnDiskIsTested`
(`FileIsTested`), inductive with `ContentTested` (only a tested content gets past `render`), without an exception for
faults other than the failed writing itself; `RunningIsReached`
(`ReloadReaches`), inductive with `ReloadInv` (what the worker has written and signalled at each step of `OnUpdate`).

**`CanaryControllerProofs`**, for every set of Deployment names and all bounds: `TypeCorrect`, and

- `ProxyStaysKept` (`ProxyIsKept`), with any number of workers, for the first CanaryRelease. The lists that workers hold
  may be of any age, so that "the first Deployment of the list is there" is not an invariant. What is inductive is that
  each prefixed Deployment that a list or the cache shows is there or has one before it that is (`HasFirst`), and that
  each one a worker is to delete has one before it (`UnexpectedIsNotFirst`): a deletion then never removes the first.
  The rest of `KeptInv` says that the cached copy of a live CanaryRelease is live, so that no worker cleans up.
- `ProxyStaysUp` (`ProxyRunsOn`), with any number of workers. A Deployment created over another one would doom its pod.
  `PodInv` excludes it: only the generated name is ever created, so every other Deployment is one of a former controller
  and has been in the cache from the start (`OthersCached`); hence a worker that creates has seen that there is none
  (`OwnOnly`), and the generated name was free.

**`CanarySystemProofs`**, for any workers, services and Deployment names. `SystemIsController` carries the controller's
invariants over. `StagesInOrder` (`StagesFollow`): every write to the CanaryRelease, of whatever worker with whatever
copy, advances its stage in order or leaves it. `SplitTrafficHasProxy` (`TrafficHasProxy`), by `TrafficInv`: while the
CanaryRelease is live, its pod is of a prefixed Deployment that is there, kept by `KeptInv`, and not doomed, by `PodInv`;
and a service is split only where there is a pod.

Only model-checked are the liveness properties (`DeprecationCompletes`, `ConfigIsRolledOut`, `RolledOut`, `ServedAgain`,
`StopEnds` and those of the controller) and the five violations. Liveness and ENABLED are beyond the proof system.

## Not modelled

In the proxy: foreground deletion (`DeletionTimestamp`), a Release managed by an Application (`proxy.go:956-974`), errors
of the config path and of rendering other than an unknown service, the list of conditions, the other fields of services,
the parts of an nginx config other than its stream servers. Edits of the set of services are in `UpstreamConfig` only.
In the controller: adoption of Deployments without an owner, creation of the CRD, conditions, pod details. The
queues are sets with retry counts: order and back-off times are left out, since items may be delayed arbitrarily.
`ReplaceConfig` walks a JSON document; its result is one value here. Flags, version and logging keep no state.

## Plan

1. Done: `CanaryProxy` with its proofs and `TrafficRouting`, which it implements; `UpstreamConfig`,
   `NginxSupervisor` and `CanaryController`, each with its proofs; `CanarySystem`, which joins controller and proxy.
2. An abstract specification of what the controller promises (a proxy per live CanaryRelease), implemented by
   `CanaryController`, and one of the supervisor (a config handed over is served or reported), implemented by
   `NginxSupervisor`.
