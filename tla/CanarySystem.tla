---------------------------- MODULE CanarySystem ----------------------------
(***************************************************************************)
(* Controller and proxy together: CanaryController, in full, with the      *)
(* proxy of the first CanaryRelease as TrafficRouting describes it, which  *)
(* CanaryProxy implements.  The two meet in the CanaryRelease, whose spec  *)
(* tells the proxy to end and whose phase tells the controller that it     *)
(* has, and in the pod: the proxy does nothing where there is no pod, and  *)
(* only the controller's Deployments give it one.                          *)
(***************************************************************************)
EXTENDS CanaryController

\* Nobody else labelled a Deployment as the proxy's, so that every pod is of
\* a Deployment that the controllers made.
SystemInit == Init /\ \A n \in Names \ Prefixed : deploy[n] = 0

\* One step of the process in the pod, also of a pod that is going to be
\* removed.  What it does after the CanaryRelease is gone is not followed.
Proxy ==
    /\ pod[1] # "none" /\ Stage # "gone"
    /\ UNCHANGED controller
    /\ \/ Routing!Prepare \/ Routing!Recover \/ Routing!Discard
       \/ \E s \in Services : Routing!TakeOver(s)

\* External: the garbage collector removes the services of a deleted Release.
ServicesLost ==
    /\ release = "gone" /\ UNCHANGED controller
    /\ \E s \in Services : Routing!Lose(s)

SystemNext == Next \/ Proxy \/ ServicesLost

SystemSpec == SystemInit /\ [][SystemNext]_vars

----------------------------------------------------------------------------
(***************************************************************************)
(* Properties                                                              *)
(***************************************************************************)

\* As long as the CanaryRelease has not ended, a service that leads to the
\* proxy leads to a pod that runs or is being started, of a Deployment that
\* is there, whatever the controller deletes, creates or restarts meanwhile.
TrafficHasProxy ==
    Live /\ Routing!Split # {} => HasProxy(1) /\ pod[1] \in {"starting", "ready"}

\* What the controller, its users and the garbage collector do to the
\* CanaryRelease leads it through its stages in their order, as the proxy
\* relies on: no patch or deletion by name, and no full Update, of a worker
\* that holds an older copy takes back a transition, a phase or a deletion
\* (canary.go:244-255, retry.go:25-54).
StagesFollow == Routing!Lifecycle

=============================================================================
