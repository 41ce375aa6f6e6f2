------------------------- MODULE CanarySystemProofs -------------------------
(***************************************************************************)
(* Theorems about controller and proxy together, for every set of workers, *)
(* services and Deployment names: the controller moves the CanaryRelease   *)
(* through its stages in their order, and never takes the pod from under   *)
(* split traffic.                                                          *)
(***************************************************************************)
EXTENDS CanarySystem, CanaryControllerProofs

USE NamesAssumption, BoundsAssumption

(***************************************************************************)
(* The system takes steps of the controller, so that all that holds of it  *)
(* holds here.                                                             *)
(***************************************************************************)

LEMMA SystemStep ==
    ASSUME [SystemNext]_vars
    PROVE  [Next]_controller
  BY DEF SystemNext, Proxy, ServicesLost, vars

LEMMA SystemInvariant == SystemSpec => [](TypeOK /\ KeptInv /\ PodInv)
<1>1. SystemInit => TypeOK /\ KeptInv /\ PodInv
  BY TypeInit, KeptInit, PodInit DEF SystemInit
<1>2. [SystemNext]_vars => [Next]_controller
  BY SystemStep
<1> QED
  BY <1>1, <1>2, TypeInductive, KeptInductive, PodInductive, PTL DEF SystemSpec

(***************************************************************************)
(* The stages of the CanaryRelease                                         *)
(***************************************************************************)

\* Writes of workers that hold old copies of the CanaryRelease included.
LEMMA ControllerAdvances ==
    ASSUME TypeOK, Next
    PROVE  Routing!Advances \/ Stage' = Stage
<1>0. cr \in CanaryReleases /\ lastUid \in Nat /\ lastUid >= 1
  BY DEF TypeOK, Uids
<1>1. CASE UNCHANGED cr
  BY <1>1 DEF Stage
<1>2. CASE cr' = NoCR
  BY <1>2 DEF Routing!Advances, Stage, NoCR
<1>3. CASE UserRecreates
  <2>1. cr.uid = 0 /\ cr'.uid = lastUid + 1
    BY <1>3 DEF UserRecreates, Write, NoCR
  <2> QED
    BY <1>0, <2>1 DEF Stage
<1>4. CASE cr' = [cr EXCEPT !.tr = Deprecated]
  <2>1. cr'.uid = cr.uid /\ cr'.phase = cr.phase /\ cr'.tr # None
    BY <1>0, <1>4 DEF CanaryReleases, Deprecated, None
  <2> QED
    BY <2>1 DEF Stage, Routing!Advances
<1>5. CASE cr.tr # None /\ cr' = [cr EXCEPT !.phase = cr.tr]
  <2>1. cr'.uid = cr.uid /\ cr'.phase # None
    BY <1>0, <1>5 DEF CanaryReleases
  <2> QED
    BY <1>5, <2>1 DEF Stage, Routing!Advances
<1>6. CASE \E st : cr' = [cr EXCEPT !.proxy = st]
  <2>1. cr'.uid = cr.uid /\ cr'.phase = cr.phase /\ cr'.tr = cr.tr
    BY <1>0, <1>6 DEF CanaryReleases
  <2> QED
    BY <2>1 DEF Stage
<1> QED
  BY <1>1, <1>2, <1>3, <1>4, <1>5, <1>6, CrSteps

\* Deletions, deprecations and late patches by name, and status updates of
\* workers with old copies, never take a CanaryRelease back to an earlier
\* stage, and none becomes the first one again (canary.go:244-255,
\* retry.go:25-54).
THEOREM StagesInOrder == SystemSpec => StagesFollow
<1>1. SystemInit => Stage = "running"
  BY DEF SystemInit, Init, Routing!Init
<1>2. TypeOK /\ [SystemNext]_vars => [Routing!Advances]_Stage
  <2> SUFFICES ASSUME TypeOK, [SystemNext]_vars
               PROVE  Routing!Advances \/ Stage' = Stage
    OBVIOUS
  <2>1. CASE Next
    BY <2>1, ControllerAdvances
  <2>2. CASE UNCHANGED controller
    BY <2>2 DEF controller, api, theCR, Stage
  <2> QED
    BY <2>1, <2>2, SystemStep
<1> QED
  BY <1>1, <1>2, SystemInvariant, PTL DEF SystemSpec, StagesFollow, Routing!Lifecycle

(***************************************************************************)
(* Split traffic has a pod.                                                *)
(*                                                                         *)
(* The pod of a live CanaryRelease is of a prefixed Deployment that is     *)
(* there.  KeptInv keeps the Deployment, PodInv the pod: no Deployment is  *)
(* created over it.  Services are split only by a process, that is where   *)
(* there is a pod.                                                         *)
(***************************************************************************)

PodIsProxys ==
    /\ \A n \in Names \ Prefixed : deploy[n] # 1
    /\ pod[1] # "none" => HasProxy(1) /\ pod[1] \in {"starting", "ready"}

TrafficInv ==
    /\ route \in [Services -> Routing!Routes]
    /\ Live => PodIsProxys /\ (Routing!Split # {} => pod[1] # "none")

LEMMA TrafficInit == SystemInit => TrafficInv
<1> SUFFICES ASSUME SystemInit PROVE TrafficInv
  OBVIOUS
<1>1. 1 \in Uids /\ pod = NoPods
  BY DEF Uids, SystemInit, Init
<1>2. pod[1] = "none"
  BY <1>1 DEF NoPods
<1>3. route = [s \in Services |-> "original"]
  BY DEF SystemInit, Init, Routing!Init
<1>4. route \in [Services -> Routing!Routes] /\ Routing!Split = {}
  BY <1>3 DEF Routing!Routes, Routing!Split
<1>5. \A n \in Names \ Prefixed : deploy[n] # 1
  BY DEF SystemInit
<1> QED
  BY <1>2, <1>4, <1>5 DEF TrafficInv, PodIsProxys

\* A pod is started for a Deployment that is there.
LEMMA PodStarts ==
    ASSUME TypeOK, Next, pod[1] = "none"
    PROVE  \/ pod'[1] = "none"
           \/ pod'[1] = "starting" /\ UNCHANGED deploy /\ \E n \in Names : deploy[n] = 1
<1>0. pod \in Pods /\ 1 \in Uids
  BY DEF TypeOK, Uids
<1>1. ASSUME NEW i \in Workers, Worker(i)
      PROVE  pod'[1] = "none"
  <2>1. CASE create(i)
    BY <1>0, <2>1 DEF create, thePods, Pods
  <2>2. CASE ~create(i)
    BY <1>1, <2>2 DEF Worker, syncCanaryRelease, deprecate, delete, cleanup,
       deleteUnexpected, cleanupDone, creating, syncStatus, update, api, thePods
  <2> QED
    BY <2>1, <2>2
<1>2. Informers \/ Restart => UNCHANGED pod
  BY DEF Informers, RefreshCR, RefreshRelease, RefreshDeployments, RefreshPods, Restart, api,
         thePods
<1>3. User => pod'[1] = "none"
  BY <1>0 DEF User, UserDeprecates, UserDeletes, UserRecreates, UserChangesRelease, RestartPod,
     thePods, Pods
<1>4. ASSUME NEW u \in Uids, PodController(u)
      PROVE  \/ pod'[1] = "none"
             \/ pod'[1] = "starting" /\ UNCHANGED deploy /\ \E n \in Names : deploy[n] = 1
  <2>1. CASE u = 1
    BY <1>0, <1>4, <2>1 DEF PodController, Pods
  <2>2. CASE u # 1
    BY <1>0, <1>4, <2>2 DEF PodController, Pods
  <2> QED
    BY <2>1, <2>2
<1>5. ProxyFinishes \/ (\E n \in Names : GarbageCollector(n)) => UNCHANGED pod
  BY DEF ProxyFinishes, GarbageCollector, thePods
<1> QED
  BY <1>1, <1>2, <1>3, <1>4, <1>5 DEF Next, Cluster

\* Steps of the controller and of those around it.
LEMMA PodStaysProxys ==
    ASSUME TypeOK, KeptInv, PodInv, Live, PodIsProxys, Next
    PROVE  PodIsProxys' /\ (pod[1] # "none" => pod'[1] # "none")
<1>1. HasProxy(1) => HasProxy(1)'
  BY KeptNext, KeepsProxy
<1>2. \A n \in Names \ Prefixed : deploy'[n] # 1
  <2>1. \A n \in Names \ Prefixed : n \in Names \ {Own}
    OBVIOUS
  <2> QED
    BY <2>1, OthersOnlyGo DEF PodIsProxys
<1>3. CASE pod[1] = "none"
  <2>1. CASE pod'[1] = "none"
    BY <1>2, <1>3, <2>1 DEF PodIsProxys
  <2>2. CASE pod'[1] = "starting" /\ UNCHANGED deploy /\ \E n \in Names : deploy[n] = 1
    <3>1. HasProxy(1)
      BY <2>2 DEF PodIsProxys, HasProxy
    <3> QED
      BY <1>1, <1>2, <1>3, <2>2, <3>1 DEF PodIsProxys
  <2> QED
    BY <1>3, <2>1, <2>2, PodStarts
<1>4. CASE pod[1] # "none"
  <2>1. HasProxy(1) /\ pod[1] \in {"starting", "ready"}
    BY <1>4 DEF PodIsProxys
  <2>2. pod'[1] \in {"starting", "ready"}
    BY <2>1, PodStep
  <2> QED
    BY <1>1, <1>2, <2>1, <2>2 DEF PodIsProxys
<1> QED
  BY <1>3, <1>4

\* Steps of the proxy, which has a pod, and lost services.
LEMMA RouteType ==
    ASSUME route \in [Services -> Routing!Routes], Proxy \/ ServicesLost
    PROVE  /\ route' \in [Services -> Routing!Routes]
           /\ ServicesLost => Routing!Split' \subseteq Routing!Split
<1>1. CASE Proxy
  <2>1. ASSUME Routing!Prepare \/ Routing!Discard \/ Routing!Begin \/ Routing!List \/ Routing!End
        PROVE  UNCHANGED route
    BY <2>1 DEF Routing!Prepare, Routing!Discard, Routing!Begin, Routing!List, Routing!End
  <2>2. ASSUME NEW s \in Services,
               \/ Routing!TakeOver(s)
               \/ \E to \in {"original", "canary"} : Routing!Changes(s, to)
        PROVE  route' \in [Services -> Routing!Routes]
    BY <2>2 DEF Routing!TakeOver, Routing!Changes, Routing!Routes
  <2>3. ASSUME Routing!Recover
        PROVE  route' \in [Services -> Routing!Routes]
    <3>1. CASE Routing!Fail
      <4>1. UNCHANGED route \/ \E s \in listed, to \in {"original", "canary"} : Routing!Changes(s, to)
        BY <3>1 DEF Routing!Fail
      <4> QED
        BY <2>2, <4>1 DEF Routing!Changes, Routing!Routes
    <3>2. CASE \E s \in Services, to \in {"original", "canary"} : Routing!GiveBack(s, to)
      BY <2>2, <3>2 DEF Routing!GiveBack
    <3> QED
      BY <2>1, <2>3, <3>1, <3>2 DEF Routing!Recover
  <2>4. route' \in [Services -> Routing!Routes]
    BY <1>1, <2>1, <2>2, <2>3 DEF Proxy
  <2>5. ~ServicesLost \/ \E s \in Services : Routing!Lose(s)
    BY DEF ServicesLost
  <2> QED
    BY <2>4, <2>5 DEF Routing!Lose, Routing!Split
<1>2. CASE ServicesLost
  BY <1>2 DEF ServicesLost, Routing!Lose, Routing!Split, Routing!Routes
<1> QED
  BY <1>1, <1>2

\* The controller and those around it move no service.
LEMMA RouteSame == ASSUME Next PROVE UNCHANGED route
<1>1. ASSUME NEW i \in Workers, Worker(i)
      PROVE  UNCHANGED env
  BY <1>1 DEF Worker, syncCanaryRelease, deprecate, delete, cleanup, deleteUnexpected,
              cleanupDone, creating, create, syncStatus, update
<1>2. Informers \/ Cluster => UNCHANGED env
  BY DEF Informers, RefreshCR, RefreshRelease, RefreshDeployments, RefreshPods,
         Cluster, ProxyFinishes, PodController, GarbageCollector
<1>3. User \/ Restart => UNCHANGED traffic
  BY DEF User, UserDeprecates, UserDeletes, UserRecreates, UserChangesRelease, RestartPod,
         UserUnchanged, Restart
<1> QED
  BY <1>1, <1>2, <1>3 DEF Next, env, traffic

LEMMA TrafficInductive ==
    TypeOK /\ KeptInv /\ PodInv /\ TrafficInv /\ [SystemNext]_vars => TrafficInv'
<1> SUFFICES ASSUME TypeOK, KeptInv, PodInv, TrafficInv, [SystemNext]_vars
             PROVE  TrafficInv'
  OBVIOUS
<1>1. CASE Next
  <2>1. UNCHANGED route
    BY <1>1, RouteSame
  <2>2. Routing!Split' = Routing!Split
    BY <2>1 DEF Routing!Split
  <2>3. ASSUME Live'
        PROVE  PodIsProxys' /\ (Routing!Split # {} => pod'[1] # "none")
    <3>1. Live
      BY <1>1, <2>3, LiveBefore
    <3> QED
      BY <1>1, <3>1, PodStaysProxys DEF TrafficInv
  <2> QED
    BY <2>1, <2>2, <2>3 DEF TrafficInv
<1>2. CASE Proxy \/ ServicesLost
  <2>1. UNCHANGED <<cr, deploy, pod>>
    BY <1>2 DEF Proxy, ServicesLost, controller, api, theCR, thePods
  <2>2. Live' = Live /\ PodIsProxys' = PodIsProxys
    BY <2>1 DEF Live, PodIsProxys, HasProxy
  <2>3. Proxy => pod[1] # "none"
    BY DEF Proxy
  <2> QED
    BY <1>2, <2>1, <2>2, <2>3, RouteType DEF TrafficInv
<1>3. CASE UNCHANGED vars
  <2>1. UNCHANGED <<cr, deploy, pod, route>>
    BY <1>3 DEF vars, controller, api, theCR, thePods, traffic
  <2> QED
    BY <2>1 DEF TrafficInv, Live, PodIsProxys, HasProxy, Routing!Split
<1> QED
  BY <1>1, <1>2, <1>3 DEF SystemNext

\* Until the CanaryRelease has ended, a service that leads to the proxy leads
\* to a running or starting pod of a Deployment that is there (canary.go:
\* 210-215, 286-309).
THEOREM SplitTrafficHasProxy == SystemSpec => []TrafficHasProxy
<1>1. TrafficInv => TrafficHasProxy
  BY DEF TrafficInv, PodIsProxys, TrafficHasProxy
<1> QED
  BY <1>1, SystemInvariant, TrafficInit, TrafficInductive, PTL DEF SystemSpec

=============================================================================
