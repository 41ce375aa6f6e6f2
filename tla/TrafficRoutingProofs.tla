------------------------ MODULE TrafficRoutingProofs ------------------------
(* The promises of TrafficRouting follow from its actions alone. *)
EXTENDS TrafficRouting, TLAPS

LEMMA ChangeType ==
    ASSUME TypeOK, NEW s \in Services, NEW to \in {"original", "canary"}, Changes(s, to)
    PROVE  route' \in [Services -> Routes] /\ Split' \subseteq Split \ {s}
BY DEF TypeOK, Changes, Split, Routes

LEMMA NotBack == [Next]_vars /\ stage' # "gone" => stage # "gone"
BY DEF Next, Prepare, Recover, Begin, List, GiveBack, Fail, End, Discard, Advance, Advances,
   Gone, TakeOver, Lose, vars

LEMMA RoutingInductive ==
    ASSUME TypeOK, SplitIsServed, [Next]_vars, stage' # "gone"
    PROVE  TypeOK' /\ SplitIsServed'
<1> USE DEF TypeOK, SplitIsServed, Split, Stages, Routes, CleaningUp, Recovering
<1>1. stage # "gone"
  BY NotBack
<1>2. CASE Prepare
  BY <1>1, <1>2 DEF Prepare
<1>3. CASE Begin \/ List \/ End
  BY <1>1, <1>3 DEF Begin, List, End
<1>4. CASE Fail
  <2>1. route' \in [Services -> Routes] /\ Split' \subseteq Split
    <3>1. CASE UNCHANGED route
      BY <3>1
    <3>2. ASSUME NEW s \in Services, NEW to \in {"original", "canary"}, Changes(s, to)
          PROVE  route' \in [Services -> Routes] /\ Split' \subseteq Split
      BY <3>2, ChangeType
    <3>3. UNCHANGED route \/ \E s \in Services, to \in {"original", "canary"} : Changes(s, to)
      BY <1>4 DEF Fail, Changes
    <3> QED BY <3>1, <3>2, <3>3
  <2>2. /\ UNCHANGED <<stage, served>>
        /\ abandoned' \in {abandoned, abandoned \cup Split'}
    BY <1>4 DEF Fail
  <2> QED BY <1>1, <2>1, <2>2
<1>5. CASE Discard
  BY <1>1, <1>5 DEF Discard
<1>6. CASE Advance
  BY <1>1, <1>6 DEF Advance, Advances
<1>7. ASSUME NEW s \in Services, TakeOver(s)
      PROVE  TypeOK' /\ SplitIsServed'
  BY <1>1, <1>7 DEF TakeOver
<1>8. ASSUME NEW s \in Services, Lose(s)
      PROVE  TypeOK' /\ SplitIsServed'
  BY <1>1, <1>8 DEF Lose
<1>9. ASSUME NEW s \in Services, NEW to \in {"original", "canary"}, GiveBack(s, to)
      PROVE  TypeOK' /\ SplitIsServed'
  <2>1. route' \in [Services -> Routes] /\ Split' \subseteq Split \ {s}
    BY <1>9, ChangeType DEF GiveBack
  <2> QED BY <1>1, <1>9, <2>1 DEF GiveBack
<1>10. CASE UNCHANGED vars
  BY <1>10 DEF vars
<1> QED BY <1>1, <1>2, <1>3, <1>4, <1>5, <1>6, <1>7, <1>8, <1>9, <1>10 DEF Next, Recover, Gone

LEMMA RoutingInvariant == Spec => [](stage # "gone" => TypeOK /\ SplitIsServed)
<1> DEFINE I == stage # "gone" => TypeOK /\ SplitIsServed
<1>1. Init => I
  BY DEF Init, TypeOK, SplitIsServed, Split, Stages, Routes
<1>2. I /\ [Next]_vars => I'
  <2> SUFFICES ASSUME I, [Next]_vars, stage' # "gone" PROVE TypeOK' /\ SplitIsServed'
    OBVIOUS
  <2> QED BY NotBack, RoutingInductive
<1> QED BY <1>1, <1>2, PTL DEF Spec

\* Until the CanaryRelease is deleted, both sides of every split are served,
\* but for what a cleanup left behind: after Attempts failed attempts, or
\* because its last one did not list it.
THEOREM SplitServed == Spec => []SplitIsServed
<1>1. (stage # "gone" => TypeOK /\ SplitIsServed) => SplitIsServed
  BY DEF SplitIsServed
<1> QED BY RoutingInvariant, <1>1, PTL

\* Once ended, nothing is split again before the deletion.
THEOREM EndedReleases == Spec => EndedStaysReleased
<1> DEFINE I == stage # "gone" => TypeOK /\ SplitIsServed
           A == stage = "ended" /\ stage' # "gone" => Split' \subseteq Split
<1>1. I /\ [Next]_vars => [A]_vars
  <2> SUFFICES ASSUME TypeOK, stage = "ended", Next PROVE Split' \subseteq Split
    OBVIOUS
  <2>1. ASSUME NEW s \in Services, NEW to \in {"original", "canary"}, Changes(s, to)
        PROVE  Split' \subseteq Split
    BY <2>1, ChangeType
  <2>2. CASE Fail
    <3>1. UNCHANGED route \/ \E s \in Services, to \in {"original", "canary"} : Changes(s, to)
      BY <2>2 DEF Fail, Changes, TypeOK
    <3> QED BY <2>1, <3>1 DEF Split
  <2>3. CASE ~Fail
    BY <2>1, <2>3 DEF Next, Prepare, Recover, Begin, List, GiveBack, End, Discard, Advance, Gone,
             TakeOver, Lose, Split, TypeOK
  <2> QED BY <2>2, <2>3
<1> QED BY RoutingInvariant, <1>1, PTL DEF Spec, EndedStaysReleased

=============================================================================
