--------------------------- MODULE TrafficRouting ---------------------------
(***************************************************************************)
(* What the proxy of a CanaryRelease promises about traffic, without the   *)
(* means: no API calls, caches, queue, faults, crashes.  A service leads   *)
(* to its original pods, to nginx (split), or to the canary's pods.  It is *)
(* split only while both sides of the split are served, and never again    *)
(* after the CanaryRelease has ended.  A cleanup tries to give the         *)
(* services back before it deletes their sides; it leaves behind what its  *)
(* last attempt could not give back or did not list.  CanaryProxy          *)
(* implements this for the first CanaryRelease of its name.                *)
(***************************************************************************)
EXTENDS Naturals

CONSTANTS
    Services,
    Attempts    \* of a cleanup to give the services back

VARIABLES
    stage,      \* of the CanaryRelease: see Stages
    route,      \* where each service leads
    served,     \* services whose two sides of the split exist
    attempt,    \* of the cleanup under way, 0 while it makes none
    listed,     \* services that the attempt has found, with what to give back
    abandoned   \* services that a cleanup left behind

Stages == {"running", "ending", "ended", "gone"}
Routes == {"original", "split", "canary", "absent"}

vars == <<stage, route, served, attempt, listed, abandoned>>

Split == {s \in Services : route[s] = "split"}
CleaningUp == stage \in {"ending", "ended"}
Recovering == CleaningUp /\ attempt > 0

TypeOK ==
    /\ stage \in Stages /\ route \in [Services -> Routes]
    /\ served \subseteq Services /\ abandoned \subseteq Services

Init ==
    /\ stage = "running" /\ route = [s \in Services |-> "original"]
    /\ served = {} /\ attempt = 0 /\ listed = Services /\ abandoned = {}

\* A worker that is in the middle of a sync when the transition is requested
\* goes on preparing and taking over.
Prepare ==
    /\ stage \in {"running", "ending"} /\ attempt = 0
    /\ served' \in SUBSET Services /\ served \subseteq served'
    /\ UNCHANGED <<stage, route, attempt, listed, abandoned>>

TakeOver(s) ==
    /\ stage \in {"running", "ending"} /\ attempt = 0
    /\ s \in served /\ route[s] # "absent"
    /\ route' = [route EXCEPT ![s] = "split"]
    /\ UNCHANGED <<stage, served, attempt, listed, abandoned>>

Begin ==
    /\ CleaningUp /\ attempt = 0 /\ attempt' = 1
    /\ UNCHANGED <<stage, route, served, listed, abandoned>>

\* What is listed may lag behind what there is.
List ==
    /\ Recovering /\ listed' \in SUBSET Services
    /\ UNCHANGED <<stage, route, served, attempt, abandoned>>

Changes(s, to) == route[s] # "absent" /\ route' = [route EXCEPT ![s] = to]

GiveBack(s, to) ==
    /\ Recovering /\ s \in listed /\ Changes(s, to)
    /\ abandoned' = abandoned \ {s}
    /\ UNCHANGED <<stage, served, attempt, listed>>

\* The call that fails may have changed its service all the same.  After the
\* last attempt an adoption ends, a deprecation goes on.
Fail ==
    /\ Recovering /\ listed' = Services
    /\ \/ UNCHANGED route
       \/ \E s \in listed, to \in {"original", "canary"} : Changes(s, to)
    /\ \/ attempt < Attempts /\ attempt' = attempt + 1 /\ UNCHANGED abandoned
       \/ /\ attempt >= Attempts /\ attempt' = 0
          /\ abandoned' \in {abandoned, abandoned \cup Split'}
    /\ UNCHANGED <<stage, served>>

\* A deprecation leaves behind what it did not list.  An adoption does not:
\* nor does an attempt that ends with its process.
End ==
    /\ Recovering /\ attempt' = 0 /\ listed' = Services
    /\ abandoned' \in {abandoned, abandoned \cup (Split \ listed)}
    /\ UNCHANGED <<stage, route, served>>

\* One or both sides of some services are deleted.
Discard ==
    /\ CleaningUp /\ attempt = 0
    /\ served' \in SUBSET served
    /\ Split \cap served \subseteq served' \cup abandoned
    /\ UNCHANGED <<stage, route, attempt, listed, abandoned>>

\* The Release is gone, and its services with it.
Lose(s) ==
    /\ route' = [route EXCEPT ![s] = "absent"]
    /\ UNCHANGED <<stage, served, attempt, listed, abandoned>>

\* The transition is requested, it has finished, or the CanaryRelease is
\* deleted at any time.
Advances ==
    \/ stage = "running" /\ stage' = "ending"
    \/ stage = "ending" /\ stage' = "ended"
    \/ stage' = "gone"

Advance == Advances /\ UNCHANGED <<route, served, attempt, listed, abandoned>>

\* Nothing is promised about what follows a deletion.
Gone == stage = "gone" /\ stage' = "gone"

Recover ==
    \/ Begin \/ List \/ Fail \/ End
    \/ \E s \in Services, to \in {"original", "canary"} : GiveBack(s, to)

Next ==
    \/ Prepare \/ Recover \/ Discard \/ Advance \/ Gone
    \/ \E s \in Services : TakeOver(s) \/ Lose(s)

Spec == Init /\ [][Next]_vars

----------------------------------------------------------------------------

\* What all of this keeps of the CanaryRelease alone: its stages in order.
Lifecycle == stage = "running" /\ [][Advances]_stage

\* No traffic is sent to nowhere: both sides of a split exist until the
\* CanaryRelease is deleted, but for services that a cleanup could not give
\* back in its last attempt, or did not list, and went on (proxy.go:856-858,
\* 1028-1031).
SplitIsServed == stage # "gone" => Split \subseteq served \cup abandoned

\* What a CanaryRelease that has ended gave back stays given back
\* (proxy.go:833-841: a final phase ends every cleanup and sync).
EndedStaysReleased ==
    [][stage = "ended" /\ stage' # "gone" => Split' \subseteq Split]_vars

=============================================================================
