-------------------------- MODULE UpstreamConfig --------------------------
(***************************************************************************)
(* How the canary-release proxy turns cr.Spec.Service into an nginx config *)
(* and into target ports of the original services: one nginx listener for  *)
(* every listed port, numbered from 8080, which splits the traffic between *)
(* the forked and the canary copy of its service by weight.                *)
(*                                                                         *)
(* CanaryProxy abstracts all of this to a function from a config to a      *)
(* layout; here the config, the comparison with the running config and the *)
(* rewriting of target ports are what the code computes, and the spec may  *)
(* list other services after an edit.  Calls fail, the services in the     *)
(* cache lag behind the stored ones and are edited in place, items are     *)
(* retried and dropped, the proxy restarts.  The cleanup and the lag of    *)
(* the CanaryRelease itself belong to CanaryProxy.                         *)
(***************************************************************************)
EXTENDS Integers, Sequences, FiniteSets

CONSTANTS
    Services,      \* the services the Release renders
    Rendered,      \* service -> its rendered ports
    Specs,         \* the values of cr.Spec.Service a user may store
    Nil,           \* a nil weight, a nil config
    MaxRetries,    \* requeues of a failed item before it is dropped (3)
    MaxEdits,      \* bound: edits of the spec
    MaxFaults,     \* bound: failing calls
    MaxRestarts    \* bound: restarts of the proxy

Unset == ""        \* a protocol the template leaves out, a port without name

\* A rendered core.ServicePort.
ServicePorts ==
    [name : STRING, protocol : {"TCP", "UDP", Unset}, port : Nat \ {0},
     targetPort : Nat \ {0}]

\* releaseapi.CanaryPort and CanaryService.
CanaryPorts ==
    [port : Nat, protocol : {"HTTP", "HTTPS", "TCP", "UDP", Unset},
     weight : Int \cup {Nil}]
CanaryServices == [service : STRING, ports : Seq(CanaryPorts)]

\* HTTP, HTTPS and TCP are considered as TCP; a service port without a
\* protocol is a TCP port for the API server, too.
L4(protocol) == IF protocol = "UDP" THEN "UDP" ELSE "TCP"

ASSUME NilAssumption == Nil \notin Int /\ Nil \notin Specs

\* What the API server demands of the ports of a service: names and
\* protocol-port pairs are unique, several ports all have names.
ASSUME RenderedAssumption ==
    /\ DOMAIN Rendered = Services
    /\ \A s \in Services :
         /\ Rendered[s] \subseteq ServicePorts
         /\ \A p, q \in Rendered[s] :
              p # q => /\ p.name # q.name /\ p.name # Unset
                       /\ <<L4(p.protocol), p.port>> # <<L4(q.protocol), q.port>>

\* A spec lists a service once and a protocol-port pair of it once.
ASSUME SpecsAssumption ==
    \A sp \in Specs :
        /\ sp \in Seq(CanaryServices)
        /\ \A i, j \in DOMAIN sp : i # j => sp[i].service # sp[j].service
        /\ \A i \in DOMAIN sp : \A a, b \in DOMAIN sp[i].ports :
             LET p == sp[i].ports[a]
                 q == sp[i].ports[b]
             IN  a # b => <<L4(p.protocol), p.port>> # <<L4(q.protocol), q.port>>

ASSUME BoundsAssumption ==
    MaxRetries \in Nat /\ MaxEdits \in Nat /\ MaxFaults \in Nat /\ MaxRestarts \in Nat

(***************************************************************************)
(* getUpsteamService                                                       *)
(***************************************************************************)

\* The listed ports, each as <<index of its service, index of the port>>.
Entries(sp) == UNION {{i} \X DOMAIN sp[i].ports : i \in DOMAIN sp}

PortAt(sp, e) == sp[e[1]].ports[e[2]]

getWeight(weight) ==
    LET canary == IF weight = Nil THEN 0
                  ELSE IF weight >= 100 THEN 100
                  ELSE IF weight <= 0 THEN 0 ELSE weight
    IN  [canary |-> canary, origin |-> 100 - canary]

BeforeByWeight(sp, e, f) ==
    LET weight(x) == getWeight(PortAt(sp, x).weight).canary
    IN  \/ e[1] < f[1]
        \/ e[1] = f[1] /\ weight(e) < weight(f)
        \/ e[1] = f[1] /\ weight(e) = weight(f) /\ e[2] < f[2]

\* The order of the two loops.  sort.Sort(cols) compares names nobody sets,
\* so the services stay in the order of the spec; the ports of a service are
\* sorted by number, and equal ones stay in order (sort.Sort sorts up to six
\* elements by insertion; for twelve services all compare equal).
Before(sp, e, f) ==
    \/ e[1] < f[1]
    \/ /\ e[1] = f[1]
       /\ \/ PortAt(sp, e).port < PortAt(sp, f).port
          \/ PortAt(sp, e).port = PortAt(sp, f).port /\ e[2] < f[2]

\* The counter upsteamPort when the loops reach a listed port.
upsteamPort(sp, e) ==
    8080 + Cardinality({f \in Entries(sp) : Before(sp, f, e)})

\* An api.L4Service.  Its Backend.Name is never set, so that the addresses of
\* the endpoints alone tell the services apart.
L4Service(sp, e) ==
    LET service == sp[e[1]].service
        port == PortAt(sp, e)
    IN  [port |-> upsteamPort(sp, e),
         protocol |-> L4(port.protocol),
         backendPort |-> port.port,
         endpoints |->
            {[address |-> <<service, "forked">>, port |-> port.port,
              weight |-> getWeight(port.weight).origin],
             [address |-> <<service, "canary">>, port |-> port.port,
              weight |-> getWeight(port.weight).canary]}]

\* The TCP and UDP backends of the config, told apart by protocol.
getUpsteamService(sp) == {L4Service(sp, e) : e \in Entries(sp)}

Configs == {getUpsteamService(sp) : sp \in Specs}

ASSUME NilConfigAssumption == Nil \notin Configs

protoPortKeyIsPort(protocol, port) == port
protoPortKey(protocol, port) == <<protocol, port>>

\* The listed ports of the i-th service under a key of its
\* protoPort2upstreamPort.
ListedUnder(sp, i, key) ==
    {a \in DOMAIN sp[i].ports :
        LET p == sp[i].ports[a] IN protoPortKey(L4(p.protocol), p.port) = key}

\* protoPort2upstreamPort; a missing key reads as 0.
protoPort2upstreamPort(sp, i, key) ==
    IF ListedUnder(sp, i, key) = {} THEN 0
    ELSE upsteamPort(sp, <<i, CHOOSE a \in ListedUnder(sp, i, key) : TRUE>>)

(***************************************************************************)
(* TemplateConfig.Equal and L4Service.Equal                                *)
(***************************************************************************)

L4Equal(s, s2) ==
    /\ Cardinality(s.endpoints) = Cardinality(s2.endpoints)
    /\ \A e \in s.endpoints : \E e2 \in s2.endpoints : e = e2
    /\ s.port = s2.port /\ s.protocol = s2.protocol /\ s.backendPort = s2.backendPort

BackendsOf(c, protocol) == {b \in c : b.protocol = protocol}

Equal(c, c2) ==
    \A protocol \in {"TCP", "UDP"} :
        /\ Cardinality(BackendsOf(c, protocol)) = Cardinality(BackendsOf(c2, protocol))
        /\ \A b \in BackendsOf(c, protocol) :
             \E b2 \in BackendsOf(c2, protocol) : L4Equal(b, b2)

(***************************************************************************)
(* Target ports                                                            *)
(***************************************************************************)

\* A rendered port as the API server stores it.
InCluster(p) == [p EXCEPT !.protocol = L4(p.protocol)]

isSamePort(s, p) ==
    \/ s.name # Unset /\ s.name = p.name
    \/ s.protocol = p.protocol /\ s.port = p.port

\* The target port step 6 gives a rendered port of the i-th service: the key
\* has the protocol as rendered.
newTargetPort(sp, i, p) ==
    protoPort2upstreamPort(sp, i, protoPortKey(p.protocol, p.port))

\* The target ports of service s once patchTargetPort has gone over them.
patchTargetPort(sp, i, s, targets) ==
    [p \in Rendered[s] |->
        IF \E q \in Rendered[s] : isSamePort(InCluster(p), q)
        THEN newTargetPort(sp, i, CHOOSE q \in Rendered[s] : isSamePort(InCluster(p), q))
        ELSE targets[p]]

\* The API server takes the port itself for a target port of 0.
AsStored(s, targets) ==
    [p \in Rendered[s] |-> IF targets[p] = 0 THEN p.port ELSE targets[p]]

\* What step 6 compares: the protocol, too, which is stored but may not be
\* rendered.
SamePortsAs(sp, i, s, targets) ==
    \A p \in Rendered[s] :
        p.protocol = InCluster(p).protocol /\ targets[p] = newTargetPort(sp, i, p)

(***************************************************************************)
(* nginx                                                                   *)
(***************************************************************************)

\* The server lines the template writes for a listener: for UDP it leaves out
\* a weight of 0, for TCP it does not.
ServersOf(b) == {e \in b.endpoints : b.protocol = "UDP" => e.weight > 0}

\* nginx -t, given the forked services that exist (the canary ones do, when
\* OnUpdate is called): weights are at least 1, every server resolves, and no
\* two listeners share an address.
Accepts(c, forkedServices) ==
    /\ \A b \in c : \A e \in ServersOf(b) :
         /\ e.weight > 0
         /\ e.address[2] = "forked" => e.address[1] \in forkedServices
    /\ \A b, b2 \in c :
         b.protocol = b2.protocol /\ b.port = b2.port => b = b2

(***************************************************************************)
(* State                                                                   *)
(***************************************************************************)

VARIABLES
    spec,                \* cr.Spec.Service
    manifest,            \* the services that Status.Manifest has under their own
                         \* names: those its spec did not list
    queue,               \* the items that wait, each as its number of requeues
    dropped,             \* an item was dropped, and none done nor the spec edited since
    selector, targets,   \* the original services: whom they select, and the
                         \* target port of each of their ports
    lister,              \* the services in the informer's cache
    lost,                \* history: services whose last Update failed, or that
                         \* updateObjects has deleted
    forked,              \* the forked services that exist
    nginx,               \* the listeners nginx runs
    runningConfig,       \* Proxy.runningConfig
    available,           \* the spec that was last reported Available, or Nil
    w,                   \* the worker: where it is in _sync, with which spec and
                         \* item, and the index of the service it is at
    held,                \* the services of svcCol that the cache has replaced since
    edits, faults, restarts

items == <<queue, dropped>>
services == <<selector, targets, lister, lost>>
bounds == <<edits, faults, restarts>>
vars == <<spec, manifest, items, services, forked, nginx, runningConfig,
          available, w, held, bounds>>

\* "absent" once deleted, "canary" when created again from the canary's config.
Selectors == {"app", "proxy", "canary", "absent"}

\* An original service in the cache or in the worker's hands; latest says
\* whether its resourceVersion is that of the stored one.
Objects(s) ==
    [selector : Selectors, targets : [Rendered[s] -> Nat], latest : BOOLEAN]

Idle(sp) == [pc |-> "idle", spec |-> sp, n |-> 0, i |-> 1]

RenderedTargets == [s \in Services |-> [p \in Rendered[s] |-> p.targetPort]]

Pcs == {"idle", "render", "updateObjects", "patchManifest", "createForked", "update"}
Workers == [pc : Pcs, spec : Specs, n : 0..MaxRetries, i : Nat \ {0}]

WorkerOK == w \in Workers /\ queue \subseteq 0..MaxRetries /\ dropped \in BOOLEAN

\* Objects of some of the services.
Copies(copies, S) ==
    /\ S \subseteq Services /\ copies = [s \in S |-> copies[s]]
    /\ \A s \in S : copies[s] \in Objects(s)

ServicesOK ==
    /\ selector \in [Services -> Selectors]
    /\ targets = [s \in Services |-> targets[s]]
    /\ \A s \in Services : targets[s] \in [Rendered[s] -> Nat]
    /\ Copies(lister, Services) /\ Copies(held, DOMAIN held)
    /\ lost \subseteq Services /\ forked \subseteq Services /\ manifest \subseteq Services

ConfigsOK ==
    /\ spec \in Specs
    /\ nginx \in Configs \cup {{}}
    /\ runningConfig \in Configs \cup {Nil}
    /\ available \in Specs \cup {Nil}

BoundsOK ==
    edits \in 0..MaxEdits /\ faults \in 0..MaxFaults /\ restarts \in 0..MaxRestarts

TypeOK == WorkerOK /\ ServicesOK /\ ConfigsOK /\ BoundsOK

\* What the informer lists.
Stored ==
    [s \in Services |->
        [selector |-> selector[s], targets |-> targets[s], latest |-> TRUE]]

Init ==
    /\ spec \in Specs /\ manifest = {}
    /\ queue = {0} /\ dropped = FALSE
    /\ selector = [s \in Services |-> "app"]
    /\ targets = RenderedTargets
    /\ lister = Stored /\ lost = {}
    /\ forked = {}
    /\ nginx = {} /\ runningConfig = Nil
    /\ available = Nil
    /\ w = Idle(spec) /\ held = <<>>
    /\ edits = 0 /\ faults = 0 /\ restarts = 0

(***************************************************************************)
(* _sync, one API call or reload per step                                  *)
(***************************************************************************)

\* Return from syncCanaryRelease without an error.
Done ==
    /\ w' = Idle(w.spec) /\ held' = <<>>
    /\ available' = w.spec /\ dropped' = FALSE
    /\ UNCHANGED queue

\* Return an error: the item is queued again, or dropped after MaxRetries.
Retry ==
    /\ w' = Idle(w.spec) /\ held' = <<>>
    /\ \/ /\ w.n < MaxRetries
          /\ queue' = queue \cup {w.n + 1} /\ UNCHANGED dropped
       \/ /\ w.n >= MaxRetries
          /\ dropped' = TRUE /\ UNCHANGED queue
    /\ UNCHANGED available

FaultForgets ==
    /\ faults < MaxFaults /\ faults' = faults + 1
    /\ w' = Idle(w.spec) /\ held' = <<>>
    /\ UNCHANGED <<items, available>>

\* A call fails, within the bound.
Fault ==
    /\ faults < MaxFaults /\ faults' = faults + 1
    /\ Retry

\* Go on to another step.
Goto(label) ==
    /\ w' = [w EXCEPT !.pc = label, !.i = 1]
    /\ UNCHANGED <<items, available, held>>

\* Take an item, with a fresh copy of the CanaryRelease.
syncCanaryRelease ==
    /\ w.pc = "idle"
    /\ \E n \in queue :
         /\ queue' = queue \ {n}
         /\ w' = [pc |-> "render", spec |-> spec, n |-> n, i |-> 1]
    /\ UNCHANGED <<spec, manifest, dropped, services, forked, nginx, runningConfig,
                   available, held, bounds>>

unknownServiceSkipped(sp) == FALSE
\* renderService does not find a service of the spec among the rendered ones
\* or in the cache.
unknownService(sp) ==
    \E i \in DOMAIN sp :
        sp[i].service \notin {s \in Services : lister[s].selector # "absent"}

\* Steps 1 to 3; svcCol points to the services in the cache.
renderService ==
    /\ w.pc = "render"
    /\ \/ unknownService(w.spec) /\ Retry
       \/ /\ ~unknownService(w.spec)
          /\ Goto("updateObjects")
    /\ UNCHANGED <<spec, manifest, services, forked, nginx, runningConfig, bounds>>

\* The services that the spec leaves out: renderService does not add "-canary"
\* to their names.
Unlisted(sp) == Services \ {sp[i].service : i \in DOMAIN sp}

\* Some services are created or deleted: the cache has an older version.
Outdated(S) ==
    [s \in Services |-> [lister[s] EXCEPT !.latest = lister[s].latest /\ s \notin S]]

\* ReleaseClient.Update from the stored manifest to the rendered one: it
\* creates what is new, finds what is in both and deletes what is left out,
\* of each the original service when the name has no suffix.  One that the
\* proxy has taken over has its owner reference and counts as created; one
\* that it has not makes the call fail, always.
updateObjects ==
    LET create == Unlisted(w.spec) \ manifest
        absent == {s \in Services : selector[s] = "absent"}
        own == {s \in Services : selector[s] \in {"proxy", "canary"}}
        refused == ~(create \subseteq own \cup absent)
                   \/ Unlisted(w.spec) \cap manifest \cap absent # {}
        delete == (manifest \ Unlisted(w.spec)) \cap own
    IN
    /\ w.pc = "updateObjects"
    /\ \E created \in SUBSET (create \cap absent), deleted \in SUBSET delete :
             /\ selector' = [s \in Services |-> IF s \in created THEN "canary"
                               ELSE IF s \in deleted THEN "absent" ELSE selector[s]]
             /\ targets' = [s \in Services |-> IF s \in created THEN RenderedTargets[s]
                                               ELSE targets[s]]
             /\ lister' = Outdated(created \cup deleted)
             /\ lost' = lost \cup deleted
             /\ \/ /\ ~refused /\ created = create \cap absent /\ deleted = delete
                   /\ Goto("patchManifest") /\ UNCHANGED faults
                \/ refused /\ deleted = {} /\ Retry /\ UNCHANGED faults
                \/ Fault
    /\ UNCHANGED <<spec, manifest, forked, nginx, runningConfig, edits, restarts>>

\* Patch status.manifest, then compare with the running config.
patchManifest ==
    LET same == runningConfig # Nil /\ Equal(runningConfig, getUpsteamService(w.spec))
    IN
    /\ w.pc = "patchManifest"
    /\ \/ /\ manifest' = Unlisted(w.spec)
          /\ \/ same /\ Done /\ UNCHANGED faults
             \/ ~same /\ Goto("createForked") /\ UNCHANGED faults
             \/ Fault
       \/ Fault /\ UNCHANGED manifest
    /\ UNCHANGED <<spec, services, forked, nginx, runningConfig, edits, restarts>>

\* Go on to the next service.
Next1 ==
    /\ w' = [w EXCEPT !.i = w.i + 1]
    /\ UNCHANGED <<items, available, held, faults>>

\* Step 5: create the forked service, or find that it exists.
createForked ==
    /\ w.pc = "createForked" /\ w.i \in DOMAIN w.spec
    /\ \/ /\ forked' = forked \cup {w.spec[w.i].service}
          /\ Next1 \/ Fault
       \/ Fault /\ UNCHANGED forked
    /\ UNCHANGED <<spec, manifest, services, nginx, runningConfig, edits, restarts>>

\* Step 6: OnUpdate fails, or nginx runs the new config.
OnUpdate ==
    /\ w.pc = "createForked" /\ w.i \notin DOMAIN w.spec
    /\ \/ /\ Accepts(getUpsteamService(w.spec), forked)
          /\ nginx' = getUpsteamService(w.spec)
          /\ Goto("update") /\ UNCHANGED faults
       \/ /\ ~Accepts(getUpsteamService(w.spec), forked)
          /\ Retry /\ UNCHANGED <<nginx, faults>>
       \/ Fault /\ UNCHANGED nginx
    /\ UNCHANGED <<spec, manifest, services, forked, runningConfig, edits, restarts>>

\* What svcCol points to: in the cache, until the informer replaces it there.
inCluster(s) == IF s \in DOMAIN held THEN held[s] ELSE lister[s]

\* Point one original service at the proxy, unless the object the worker holds
\* points there already.  The edit is made in place, which the cache sees as
\* long as it has that object, and the Update may fail after it: always when
\* the object is not the latest, otherwise as a fault.
updateService ==
    /\ w.pc = "update" /\ w.i \in DOMAIN w.spec
    /\ LET s == w.spec[w.i].service
           old == inCluster(s)
           new == patchTargetPort(w.spec, w.i, s, old.targets)
           edited(l) == [selector |-> "proxy", targets |-> new, latest |-> l]
           same == old.selector = "proxy" /\ SamePortsAs(w.spec, w.i, s, old.targets)
       IN  \/ same /\ Next1 /\ UNCHANGED services
           \/ /\ ~same /\ old.latest
              /\ selector' = [selector EXCEPT ![s] = "proxy"]
              /\ targets' = [targets EXCEPT ![s] = AsStored(s, new)]
              /\ lister' = [lister EXCEPT ![s] = edited(FALSE)]
              /\ lost' = lost \ {s}
              /\ Next1 \/ Fault
           \/ /\ ~same
              /\ lister' = IF s \in DOMAIN held THEN lister
                           ELSE [lister EXCEPT ![s] = edited(old.latest)]
              /\ lost' = lost \cup {s}
              /\ (~old.latest /\ Retry /\ UNCHANGED faults) \/ Fault
              /\ UNCHANGED <<selector, targets>>
    /\ UNCHANGED <<spec, manifest, forked, nginx, runningConfig, edits, restarts>>

setRunningConfig ==
    /\ w.pc = "update" /\ w.i \notin DOMAIN w.spec
    /\ runningConfig' = getUpsteamService(w.spec)
    /\ Done
    /\ UNCHANGED <<spec, manifest, services, forked, nginx, bounds>>

Worker ==
    \/ syncCanaryRelease \/ renderService \/ updateObjects \/ patchManifest
    \/ createForked \/ OnUpdate \/ updateService \/ setRunningConfig

(***************************************************************************)
(* Environment                                                             *)
(***************************************************************************)

noticedByName(old, cur) ==
    \/ DOMAIN old # DOMAIN cur
    \/ \E i \in DOMAIN old : old[i].service # cur[i].service
\* updateCanaryRelease compares the specs.
noticed(old, cur) == old # cur

\* The user stores another spec.Service; updateCanaryRelease enqueues it.
Edit ==
    /\ edits < MaxEdits /\ edits' = edits + 1
    /\ \E sp \in Specs \ {spec} :
         spec' = sp /\ queue' = IF noticed(spec, sp) THEN queue \cup {0} ELSE queue
    /\ dropped' = FALSE
    /\ UNCHANGED <<manifest, services, forked, nginx, runningConfig, available, w, held,
                   faults, restarts>>

\* The informer puts the stored service in the place of the cached one, which
\* the worker goes on holding.
RefreshService(s) ==
    /\ ~lister[s].latest /\ lister' = [lister EXCEPT ![s] = Stored[s]]
    /\ held' = IF w.pc \in {"idle", "render"} \/ s \in DOMAIN held THEN held
               ELSE [t \in DOMAIN held \cup {s} |-> inCluster(t)]
    /\ UNCHANGED <<spec, manifest, items, selector, targets, lost, forked, nginx,
                   runningConfig, available, w, bounds>>

\* The proxy's container restarts: nginx has the config of the image, and the
\* informers list anew and deliver the CanaryRelease again.
Restart ==
    /\ restarts < MaxRestarts /\ restarts' = restarts + 1
    /\ w' = Idle(w.spec) /\ held' = <<>> /\ lister' = Stored
    /\ runningConfig' = Nil /\ nginx' = {}
    /\ queue' = {0} /\ dropped' = FALSE
    /\ UNCHANGED <<spec, manifest, selector, targets, lost, forked, available, edits,
                   faults>>

Next == Worker \/ Edit \/ Restart \/ \E s \in Services : RefreshService(s)

Spec == Init /\ [][Next]_vars

\* The worker goroutine keeps taking items and finishing its calls.
FairSpec == Spec /\ WF_vars(Worker)

(***************************************************************************)
(* Properties                                                              *)
(***************************************************************************)

\* The listener a port of a service is sent to, if nginx has one.
Listeners(s, p) ==
    {b \in nginx : b.port = targets[s][p] /\ b.protocol = L4(p.protocol)}

\* What the spec asks for a listed port: both copies, with its weights.
Split(sp, e) == L4Service(sp, e).endpoints

\* A spec that was reported Available is what clients get for as long as
\* nginx runs it and the worker is not at work: every listed port of a service
\* (one the Release renders with its protocol) reaches exactly one listener,
\* and that one has the forked and the canary copy of this very service and
\* port, with the weights asked for (proxy.go 583-619, util.go 102-105).  A
\* service whose last Update failed is left out: the edit in place hides it
\* from the retry, which reports Available all the same (proxy.go 601-615).
SplitAsAsked ==
    w.pc = "idle" /\ runningConfig # Nil /\ nginx = runningConfig =>
        /\ available # Nil
        /\ \A e \in Entries(available) :
             LET s == available[e[1]].service
                 listed == PortAt(available, e)
             IN  s \notin lost =>
                   /\ selector[s] = "proxy"
                   /\ \A p \in Rendered[s] :
                        p.port = listed.port /\ p.protocol = L4(listed.protocol) =>
                           \E b \in nginx :
                              /\ Listeners(s, p) = {b}
                              /\ b.endpoints = Split(available, e)

\* The services before the n-th of a spec are taken over as it asks.
Taken(sp, n) ==
    \A i \in DOMAIN sp : i < n /\ sp[i].service \notin lost =>
        \A a \in DOMAIN sp[i].ports :
            /\ selector[sp[i].service] = "proxy"
            /\ \A p \in Rendered[sp[i].service] :
                 p.port = sp[i].ports[a].port
                 /\ p.protocol = L4(sp[i].ports[a].protocol)
                    => targets[sp[i].service][p] = upsteamPort(sp, <<i, a>>)

\* The worker is past renderService with services the Release has only.
KnownServices ==
    w.pc \notin {"idle", "render"} =>
        \A i \in DOMAIN w.spec : w.spec[i].service \in Services

\* An object agrees with the stored service, but for what the API server sets.
InStep(s, o) ==
    o.selector = selector[s] /\ AsStored(s, o.targets) = targets[s]

\* What the worker decides by agrees with what is stored, as long as no Update
\* fails; what the cache has replaced is not the latest.
CacheInv ==
    /\ \A s \in Services \ lost : selector[s] \in {"app", "proxy"} /\ InStep(s, lister[s])
    /\ \A s \in DOMAIN held : ~held[s].latest /\ (s \notin lost => InStep(s, held[s]))

\* What makes SplitAsAsked inductive: until the reload, nginx and the running
\* config are those of the spec that was reported, unless a takeover has
\* failed; after it, nginx has the new config and the services are taken over
\* in order.
SyncInv ==
    /\ w.pc # "update" /\ runningConfig # Nil /\ nginx = runningConfig =>
         /\ available # Nil /\ nginx = getUpsteamService(available)
         /\ Taken(available, Len(available) + 1)
    /\ w.pc = "createForked" => runningConfig # getUpsteamService(w.spec)
    /\ w.pc = "update" =>
         /\ nginx = getUpsteamService(w.spec) /\ runningConfig # nginx
         /\ Taken(w.spec, w.i)

\* The legal weights, as types.go states them.
WeightsLegal(sp) ==
    \A e \in Entries(sp) :
        PortAt(sp, e).weight # Nil /\ PortAt(sp, e).weight \in 1..100

\* nginx takes every config whose weights are legal: "The value of weight
\* should be [1,100]" (types.go 298).  It does not take 100: the origin gets
\* weight 0, which the template writes for TCP.
LegalIsAccepted ==
    w.pc = "createForked" /\ w.i \notin DOMAIN w.spec /\ WeightsLegal(w.spec) =>
        Accepts(getUpsteamService(w.spec), forked)

\* At rest, a client of one service never reaches the copies of another: the
\* canary is to "be transparent to the user" (docs/design.md 8).  A service
\* dropped from the spec keeps its target ports, which the listeners of the
\* services that are left move to.
OwnCopiesOnly ==
    w.pc = "idle" /\ queue = {} =>
        \A s \in Services : selector[s] = "proxy" =>
            \A p \in Rendered[s] : \A b \in Listeners(s, p) :
                \A e \in b.endpoints : e.address[1] = s

\* Specs that list the same ports of the same services in the same places.
SamePorts(sp, sp2) ==
    /\ DOMAIN sp = DOMAIN sp2
    /\ \A i \in DOMAIN sp :
         /\ sp[i].service = sp2[i].service
         /\ DOMAIN sp[i].ports = DOMAIN sp2[i].ports
         /\ \A a \in DOMAIN sp[i].ports :
              /\ sp[i].ports[a].port = sp2[i].ports[a].port
              /\ L4(sp[i].ports[a].protocol) = L4(sp2[i].ports[a].protocol)

\* The worker is going to reload nginx for a spec that differs from the one in
\* force in weights alone.
OnlyWeights ==
    /\ w.pc = "createForked" /\ runningConfig # Nil /\ nginx = runningConfig
    /\ SamePorts(available, w.spec)

\* Step 6 would move nothing of the i-th service of a spec if it had the
\* stored service in its hands.
Settled(sp, i) ==
    LET s == sp[i].service
    IN  /\ selector[s] = "proxy"
        /\ AsStored(s, patchTargetPort(sp, i, s, targets[s])) = targets[s]

\* A change of weights alone moves no listener: a service that is listed in
\* the same place before and after is going to keep its selector and, whatever
\* object step 6 has of it, all its target ports, so that its connections are
\* not cut (proxy.go 583-619, 639-697).  A service listed without ports is left
\* out: it adds nothing to the config, so that a spec that lists it anew is
\* reported without taking it over, and the edit after that one does.  So is
\* one whose last Update failed: the next sync finishes what was asked before.
WeightsMoveNothing ==
    OnlyWeights =>
        \A i \in DOMAIN w.spec :
            LET s == w.spec[i].service
                patched == patchTargetPort(w.spec, i, s, inCluster(s).targets)
            IN  w.spec[i].ports # <<>> /\ s \notin lost =>
                    selector[s] = "proxy" /\ AsStored(s, patched) = targets[s]

AllSettled(sp) ==
    \A i \in DOMAIN sp : sp[i].ports # <<>> /\ sp[i].service \notin lost => Settled(sp, i)

\* What makes WeightsMoveNothing inductive: the services of the spec that was
\* reported are settled, and so are those the worker has passed.
SettledInv ==
    /\ w.pc # "update" /\ runningConfig # Nil /\ nginx = runningConfig =>
         available # Nil /\ AllSettled(available)
    /\ w.pc = "update" =>
         \A i \in DOMAIN w.spec :
            i < w.i /\ w.spec[i].service \notin lost => Settled(w.spec, i)

\* No edit is forgotten: when the worker rests and nothing is queued, the
\* stored spec is the one reported Available, or its last item was dropped
\* after all its retries (queue.go 212-239, proxy.go 259-279, 553-557).
RestIsUpToDate ==
    w.pc = "idle" /\ queue = {} => available = spec \/ dropped

\* What makes RestIsUpToDate inductive: with nothing queued the worker is at
\* the stored spec.
RestInv ==
    queue = {} => IF w.pc = "idle" THEN available = spec \/ dropped ELSE w.spec = spec

\* Once the user stops editing, the spec is rolled out for good, or dropped.
RolledOut == <>[](available = spec \/ dropped)

=============================================================================
