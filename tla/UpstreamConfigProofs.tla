---------------------- MODULE UpstreamConfigProofs ----------------------
(***************************************************************************)
(* Theorems about UpstreamConfig, for every set of rendered services and   *)
(* every set of specs: the listeners of a config have ports of their own,  *)
(* configs that compare equal are equal, and what was reported Available   *)
(* is the split that clients get.                                          *)
(***************************************************************************)
EXTENDS UpstreamConfig, FiniteSetTheorems, FunctionTheorems, TLAPS

(***************************************************************************)
(* Numbering                                                               *)
(***************************************************************************)

\* A spec a user may store.
LEMMA SpecShape ==
    ASSUME NEW sp \in Specs
    PROVE  /\ DOMAIN sp = 1..Len(sp) /\ Len(sp) \in Nat
           /\ \A i \in DOMAIN sp :
                /\ DOMAIN sp[i].ports = 1..Len(sp[i].ports)
                /\ Len(sp[i].ports) \in Nat
                /\ \A a \in DOMAIN sp[i].ports : sp[i].ports[a] \in CanaryPorts
  <1>1. sp \in Seq(CanaryServices)
    BY SpecsAssumption
  <1>2. DOMAIN sp = 1..Len(sp) /\ Len(sp) \in Nat
    BY <1>1
  <1>3. ASSUME NEW i \in DOMAIN sp
        PROVE  /\ DOMAIN sp[i].ports = 1..Len(sp[i].ports)
               /\ Len(sp[i].ports) \in Nat
               /\ \A a \in DOMAIN sp[i].ports : sp[i].ports[a] \in CanaryPorts
    <2>1. sp[i] \in CanaryServices
      BY <1>1, <1>2, <1>3
    <2>2. sp[i].ports \in Seq(CanaryPorts)
      BY <2>1 DEF CanaryServices
    <2> QED
      BY <2>2
  <1> QED
    BY <1>2, <1>3

\* A listed port has a service and a place in it, and its number and weight.
LEMMA EntryShape ==
    ASSUME NEW sp \in Specs, NEW e \in Entries(sp)
    PROVE  /\ e = <<e[1], e[2]>>
           /\ e[1] \in DOMAIN sp /\ e[1] \in Nat
           /\ e[2] \in DOMAIN sp[e[1]].ports /\ e[2] \in Nat
           /\ PortAt(sp, e) \in CanaryPorts
  <1>1. PICK i \in DOMAIN sp : e \in {i} \X DOMAIN sp[i].ports
    BY DEF Entries
  <1>2. e = <<e[1], e[2]>> /\ e[1] = i /\ e[2] \in DOMAIN sp[i].ports
    BY <1>1
  <1>3. i \in Nat /\ e[2] \in Nat
    BY <1>2, SpecShape
  <1>4. sp[i].ports[e[2]] \in CanaryPorts
    BY <1>2, SpecShape
  <1> QED
    BY <1>2, <1>3, <1>4 DEF PortAt

LEMMA EntryIntro ==
    ASSUME NEW sp \in Specs, NEW i \in DOMAIN sp, NEW a \in DOMAIN sp[i].ports
    PROVE  /\ <<i, a>> \in Entries(sp)
           /\ PortAt(sp, <<i, a>>) = sp[i].ports[a]
  BY DEF Entries, PortAt

LEMMA EntriesFinite ==
    ASSUME NEW sp \in Specs
    PROVE  IsFiniteSet(Entries(sp))
  <1> DEFINE block == [i \in DOMAIN sp |-> {i} \X DOMAIN sp[i].ports]
             blocks == {block[i] : i \in DOMAIN sp}
  <1>1. IsFiniteSet(DOMAIN sp)
    BY SpecShape, FS_Interval
  <1>2. block \in Surjection(DOMAIN sp, blocks)
    BY DEF Surjection
  <1>3. IsFiniteSet(blocks)
    <2> HIDE DEF block, blocks
    <2> QED
      BY <1>1, <1>2, FS_Surjection
  <1>4. ASSUME NEW T \in blocks
        PROVE  IsFiniteSet(T)
    <2>1. PICK i \in DOMAIN sp : T = {i} \X DOMAIN sp[i].ports
      OBVIOUS
    <2> DEFINE n == Len(sp[i].ports)
    <2>4. DOMAIN sp[i].ports = 1..n /\ n \in Nat
      BY SpecShape
    <2>2. IsFiniteSet(DOMAIN sp[i].ports)
      <3> HIDE DEF n
      <3> QED
        BY <2>4, FS_Interval
    <2>3. IsFiniteSet({i})
      BY FS_Singleton
    <2> QED
      BY <2>1, <2>2, <2>3, FS_Product
  <1>5. IsFiniteSet(UNION blocks)
    <2> HIDE DEF blocks
    <2> QED
      BY <1>3, <1>4, FS_UNION
  <1>6. UNION blocks = Entries(sp)
    BY DEF Entries
  <1> QED
    BY <1>5, <1>6

\* The order of the loops is a strict order on the listed ports.
LEMMA BeforeIsOrder ==
    ASSUME NEW sp \in Specs, NEW e \in Entries(sp), NEW f \in Entries(sp)
    PROVE  /\ ~Before(sp, e, e)
           /\ e # f => Before(sp, e, f) \/ Before(sp, f, e)
           /\ \A g \in Entries(sp) :
                Before(sp, g, e) /\ Before(sp, e, f) => Before(sp, g, f)
  <1>1. /\ e[1] \in Nat /\ e[2] \in Nat /\ f[1] \in Nat /\ f[2] \in Nat
        /\ PortAt(sp, e).port \in Nat /\ PortAt(sp, f).port \in Nat
        /\ e = <<e[1], e[2]>> /\ f = <<f[1], f[2]>>
    BY EntryShape DEF CanaryPorts
  <1>2. ~Before(sp, e, e)
    BY <1>1 DEF Before
  <1>3. ASSUME e # f
        PROVE  Before(sp, e, f) \/ Before(sp, f, e)
    <2>1. e[1] # f[1] \/ e[2] # f[2]
      BY <1>1, <1>3
    <2> QED
      BY <2>1, <1>1 DEF Before
  <1>4. ASSUME NEW g \in Entries(sp), Before(sp, g, e), Before(sp, e, f)
        PROVE  Before(sp, g, f)
    <2>1. g[1] \in Nat /\ g[2] \in Nat /\ PortAt(sp, g).port \in Nat
      BY EntryShape DEF CanaryPorts
    <2> QED
      BY <2>1, <1>1, <1>4 DEF Before
  <1> QED
    BY <1>2, <1>3, <1>4

LEMMA UpstreamPortGrows ==
    ASSUME NEW sp \in Specs, NEW e \in Entries(sp), NEW f \in Entries(sp),
           Before(sp, e, f)
    PROVE  upsteamPort(sp, e) < upsteamPort(sp, f)
  <1> DEFINE earlier(x) == {g \in Entries(sp) : Before(sp, g, x)}
  <1>1. earlier(e) \subseteq earlier(f)
    BY BeforeIsOrder
  <1>2. e \in earlier(f) /\ e \notin earlier(e)
    BY BeforeIsOrder
  <1>3. IsFiniteSet(earlier(f)) /\ IsFiniteSet(earlier(e))
    BY EntriesFinite, FS_Subset
  <1>4. Cardinality(earlier(e)) <= Cardinality(earlier(f))
        /\ Cardinality(earlier(e)) # Cardinality(earlier(f))
    <2> HIDE DEF earlier
    <2> QED
      BY <1>1, <1>2, <1>3, FS_Subset
  <1>5. Cardinality(earlier(e)) \in Nat /\ Cardinality(earlier(f)) \in Nat
    <2> HIDE DEF earlier
    <2> QED
      BY <1>3, FS_CardinalityType
  <1>6. upsteamPort(sp, e) = 8080 + Cardinality(earlier(e))
        /\ upsteamPort(sp, f) = 8080 + Cardinality(earlier(f))
    BY DEF upsteamPort
  <1> HIDE DEF earlier
  <1> QED
    BY <1>4, <1>5, <1>6

\* The counter of getUpsteamService gives every listed port of a spec a
\* listen port of its own, from 8080 on (proxy.go 639-696).
THEOREM UpstreamPortsDistinct ==
    ASSUME NEW sp \in Specs, NEW e \in Entries(sp), NEW f \in Entries(sp),
           upsteamPort(sp, e) = upsteamPort(sp, f)
    PROVE  e = f
  <1>1. upsteamPort(sp, e) \in Nat /\ upsteamPort(sp, f) \in Nat
    BY EntriesFinite, FS_Subset, FS_CardinalityType DEF upsteamPort
  <1>2. SUFFICES ASSUME e # f PROVE FALSE
    OBVIOUS
  <1>3. Before(sp, e, f) \/ Before(sp, f, e)
    BY <1>2, BeforeIsOrder
  <1> QED
    BY <1>1, <1>3, UpstreamPortGrows

LEMMA UpstreamPortType ==
    ASSUME NEW sp \in Specs, NEW e \in Entries(sp)
    PROVE  upsteamPort(sp, e) \in Nat /\ upsteamPort(sp, e) >= 8080
  <1> DEFINE earlier == {g \in Entries(sp) : Before(sp, g, e)}
  <1>1. Cardinality(earlier) \in Nat
    BY EntriesFinite, FS_Subset, FS_CardinalityType
  <1>2. upsteamPort(sp, e) = 8080 + Cardinality(earlier)
    BY DEF upsteamPort
  <1> QED
    BY <1>1, <1>2

(***************************************************************************)
(* Comparing configs                                                       *)
(***************************************************************************)

LEMMA ConfigFinite ==
    ASSUME NEW sp \in Specs
    PROVE  IsFiniteSet(getUpsteamService(sp))
  <1> DEFINE f == [e \in Entries(sp) |-> L4Service(sp, e)]
  <1>1. f \in Surjection(Entries(sp), getUpsteamService(sp))
    BY DEF Surjection, getUpsteamService
  <1> HIDE DEF f
  <1> QED
    BY <1>1, EntriesFinite, FS_Surjection

\* The two endpoints of a listener.
LEMMA EndpointsFinite ==
    ASSUME NEW sp \in Specs, NEW b \in getUpsteamService(sp)
    PROVE  IsFiniteSet(b.endpoints)
  <1>1. PICK e \in Entries(sp) : b = L4Service(sp, e)
    BY DEF getUpsteamService
  <1>2. PICK x, y : b.endpoints = {x, y}
    BY <1>1 DEF L4Service
  <1>3. IsFiniteSet({x})
    BY FS_Singleton
  <1>4. IsFiniteSet({x} \cup {y})
    BY <1>3, FS_AddElement
  <1>5. b.endpoints = {x} \cup {y}
    BY <1>2
  <1> QED
    BY <1>4, <1>5

\* Listeners that L4Service.Equal takes for the same are the same, though it
\* looks for the endpoints of one among those of the other only.
LEMMA L4EqualIsEqual ==
    ASSUME NEW sp \in Specs, NEW sp2 \in Specs,
           NEW b \in getUpsteamService(sp), NEW b2 \in getUpsteamService(sp2),
           L4Equal(b, b2)
    PROVE  b = b2
  <1>1. b.endpoints \subseteq b2.endpoints
        /\ Cardinality(b.endpoints) = Cardinality(b2.endpoints)
    BY DEF L4Equal
  <1>2. IsFiniteSet(b2.endpoints)
    BY EndpointsFinite
  <1>3. b.endpoints = b2.endpoints
    BY <1>1, <1>2, FS_Subset
  <1>4. PICK e \in Entries(sp) : b = L4Service(sp, e)
    BY DEF getUpsteamService
  <1>5. PICK e2 \in Entries(sp2) : b2 = L4Service(sp2, e2)
    BY DEF getUpsteamService
  <1>6. b.port = b2.port /\ b.protocol = b2.protocol /\ b.backendPort = b2.backendPort
    BY DEF L4Equal
  <1>7. /\ b = [port |-> b.port, protocol |-> b.protocol,
                 backendPort |-> b.backendPort, endpoints |-> b.endpoints]
        /\ b2 = [port |-> b2.port, protocol |-> b2.protocol,
                 backendPort |-> b2.backendPort, endpoints |-> b2.endpoints]
    BY <1>4, <1>5 DEF L4Service
  <1> QED
    BY <1>3, <1>6, <1>7

LEMMA ListenerProtocol ==
    ASSUME NEW sp \in Specs, NEW b \in getUpsteamService(sp)
    PROVE  b.protocol \in {"TCP", "UDP"}
  BY DEF getUpsteamService, L4Service, L4

\* Two configs that TemplateConfig.Equal takes for the same split the traffic
\* in the same way: skipping the reload for them is sound (config/nginx.go
\* 24-67, types_equals.go 8-28).
THEOREM EqualConfigsAreEqual ==
    ASSUME NEW sp \in Specs, NEW sp2 \in Specs,
           Equal(getUpsteamService(sp), getUpsteamService(sp2))
    PROVE  getUpsteamService(sp) = getUpsteamService(sp2)
  <1> DEFINE c == getUpsteamService(sp)
             c2 == getUpsteamService(sp2)
  <1>1. ASSUME NEW protocol \in {"TCP", "UDP"}
        PROVE  BackendsOf(c, protocol) = BackendsOf(c2, protocol)
    <2>1. BackendsOf(c, protocol) \subseteq BackendsOf(c2, protocol)
      <3> SUFFICES ASSUME NEW b \in BackendsOf(c, protocol)
                   PROVE  b \in BackendsOf(c2, protocol)
        OBVIOUS
      <3>1. PICK b2 \in BackendsOf(c2, protocol) : L4Equal(b, b2)
        BY DEF Equal
      <3>2. b \in c /\ b2 \in c2
        BY DEF BackendsOf
      <3> QED
        BY <3>1, <3>2, L4EqualIsEqual
    <2>2. Cardinality(BackendsOf(c, protocol)) = Cardinality(BackendsOf(c2, protocol))
      BY DEF Equal
    <2>3. IsFiniteSet(BackendsOf(c2, protocol))
      BY ConfigFinite, FS_Subset DEF BackendsOf
    <2> QED
      BY <2>1, <2>2, <2>3, FS_Subset
  <1>2. \A x : x \in c <=> x \in BackendsOf(c, "TCP") \cup BackendsOf(c, "UDP")
    BY ListenerProtocol DEF BackendsOf
  <1>3. \A x : x \in c2 <=> x \in BackendsOf(c2, "TCP") \cup BackendsOf(c2, "UDP")
    BY ListenerProtocol DEF BackendsOf
  <1> HIDE DEF c, c2
  <1>4. c = c2
    BY <1>1, <1>2, <1>3
  <1> QED
    BY <1>4 DEF c, c2

\* In equal configs, what one spec lists is listed by the other: the same
\* service and port, at the same listener.
LEMMA SameListing ==
    ASSUME NEW sp \in Specs, NEW sp2 \in Specs,
           getUpsteamService(sp) = getUpsteamService(sp2),
           NEW e \in Entries(sp)
    PROVE  \E e2 \in Entries(sp2) :
              /\ sp2[e2[1]].service = sp[e[1]].service
              /\ PortAt(sp2, e2).port = PortAt(sp, e).port
              /\ L4(PortAt(sp2, e2).protocol) = L4(PortAt(sp, e).protocol)
              /\ upsteamPort(sp2, e2) = upsteamPort(sp, e)
              /\ L4Service(sp2, e2) = L4Service(sp, e)
  <1>1. PICK e2 \in Entries(sp2) : L4Service(sp2, e2) = L4Service(sp, e)
    BY DEF getUpsteamService
  <1>2. /\ PortAt(sp2, e2).port = PortAt(sp, e).port
        /\ L4(PortAt(sp2, e2).protocol) = L4(PortAt(sp, e).protocol)
        /\ upsteamPort(sp2, e2) = upsteamPort(sp, e)
    BY <1>1 DEF L4Service
  <1>3. L4Service(sp2, e2).endpoints = L4Service(sp, e).endpoints
    BY <1>1
  <1>4. \A x \in L4Service(sp, e).endpoints : x.address[1] = sp[e[1]].service
    BY DEF L4Service
  <1>5. \E x \in L4Service(sp2, e2).endpoints : x.address[1] = sp2[e2[1]].service
    BY DEF L4Service
  <1>6. sp2[e2[1]].service = sp[e[1]].service
    BY <1>3, <1>4, <1>5
  <1> QED
    BY <1>1, <1>2, <1>6

(***************************************************************************)
(* Target ports                                                            *)
(***************************************************************************)

LEMMA UpstreamOfType ==
    ASSUME NEW sp \in Specs, NEW i \in DOMAIN sp, NEW key
    PROVE  protoPort2upstreamPort(sp, i, key) \in Nat
  <1>1. CASE ListedUnder(sp, i, key) = {}
    BY <1>1 DEF protoPort2upstreamPort
  <1>2. CASE ListedUnder(sp, i, key) # {}
    <2> DEFINE a == CHOOSE x \in ListedUnder(sp, i, key) : TRUE
    <2>1. a \in ListedUnder(sp, i, key)
      BY <1>2
    <2>2. a \in DOMAIN sp[i].ports
      BY <2>1 DEF ListedUnder
    <2>3. protoPort2upstreamPort(sp, i, key) = upsteamPort(sp, <<i, a>>)
      BY <1>2 DEF protoPort2upstreamPort
    <2> HIDE DEF a
    <2> QED
      BY <2>2, <2>3, EntryIntro, UpstreamPortType
  <1> QED
    BY <1>1, <1>2

LEMMA PatchType ==
    ASSUME NEW sp \in Specs, NEW i \in DOMAIN sp, NEW s \in Services,
           NEW old \in [Rendered[s] -> Nat]
    PROVE  patchTargetPort(sp, i, s, old) \in [Rendered[s] -> Nat]
  <1>1. \A p : newTargetPort(sp, i, p) \in Nat
    BY UpstreamOfType DEF newTargetPort
  <1>2. ASSUME NEW p \in Rendered[s]
        PROVE  patchTargetPort(sp, i, s, old)[p] \in Nat
    BY <1>1 DEF patchTargetPort
  <1> QED
    BY <1>2 DEF patchTargetPort

\* The API server's default is a port number, and is set once.
LEMMA StoredType ==
    ASSUME NEW s \in Services, NEW old \in [Rendered[s] -> Nat]
    PROVE  /\ AsStored(s, old) \in [Rendered[s] -> Nat]
           /\ AsStored(s, AsStored(s, old)) = AsStored(s, old)
  <1>1. \A p \in Rendered[s] : p.port \in Nat
    BY RenderedAssumption DEF ServicePorts
  <1>2. AsStored(s, old) \in [Rendered[s] -> Nat]
    BY <1>1 DEF AsStored
  <1>3. \A p \in Rendered[s] : AsStored(s, AsStored(s, old))[p] = AsStored(s, old)[p]
    BY DEF AsStored
  <1> QED
    BY <1>2, <1>3 DEF AsStored

\* A port rendered with its protocol is the same port as itself only.
LEMMA SamePortIsSelf ==
    ASSUME NEW s \in Services, NEW p \in Rendered[s], p.protocol \in {"TCP", "UDP"},
           NEW q \in Rendered[s]
    PROVE  isSamePort(InCluster(p), q) <=> q = p
  <1>1. p \in ServicePorts /\ q \in ServicePorts
    BY RenderedAssumption
  <1>2. InCluster(p) = p
    BY <1>1 DEF InCluster, L4, ServicePorts
  <1>3. isSamePort(p, p)
    BY DEF isSamePort
  <1>4. ASSUME q # p
        PROVE  ~isSamePort(p, q)
    <2>1. /\ p.name # q.name
          /\ <<L4(p.protocol), p.port>> # <<L4(q.protocol), q.port>>
      BY <1>4, RenderedAssumption
    <2> QED
      BY <2>1, <1>1 DEF isSamePort
  <1> QED
    BY <1>2, <1>3, <1>4

\* Step 6 gives a listed port, rendered with its protocol, the number of its
\* own listener, which is stored as it is.
LEMMA PatchListed ==
    ASSUME NEW sp \in Specs, NEW i \in DOMAIN sp, NEW a \in DOMAIN sp[i].ports,
           NEW s \in Services, NEW p \in Rendered[s], NEW old,
           p.port = sp[i].ports[a].port,
           p.protocol = L4(sp[i].ports[a].protocol)
    PROVE  AsStored(s, patchTargetPort(sp, i, s, old))[p] = upsteamPort(sp, <<i, a>>)
  <1> DEFINE key == protoPortKey(p.protocol, p.port)
             q == CHOOSE x \in Rendered[s] : isSamePort(InCluster(p), x)
  <1>1. p.protocol \in {"TCP", "UDP"}
    BY DEF L4
  <1>2. isSamePort(InCluster(p), p) /\ q = p
    BY <1>1, SamePortIsSelf
  <1>3. patchTargetPort(sp, i, s, old)[p] = newTargetPort(sp, i, p)
    BY <1>2 DEF patchTargetPort
  <1>4. ListedUnder(sp, i, key) = {a}
    <2>1. a \in ListedUnder(sp, i, key)
      BY DEF ListedUnder, protoPortKey
    <2>2. ASSUME NEW b \in ListedUnder(sp, i, key)
          PROVE  b = a
      <3>1. b \in DOMAIN sp[i].ports
            /\ <<L4(sp[i].ports[b].protocol), sp[i].ports[b].port>> = <<p.protocol, p.port>>
        BY <2>2 DEF ListedUnder, protoPortKey
      <3>2. <<L4(sp[i].ports[a].protocol), sp[i].ports[a].port>> = <<p.protocol, p.port>>
        OBVIOUS
      <3> QED
        BY <3>1, <3>2, SpecsAssumption
    <2> QED
      BY <2>1, <2>2
  <1>5. protoPort2upstreamPort(sp, i, key) = upsteamPort(sp, <<i, a>>)
    <2>1. ListedUnder(sp, i, key) # {}
          /\ (CHOOSE x \in ListedUnder(sp, i, key) : TRUE) = a
      <3> HIDE DEF key
      <3> QED
        BY <1>4
    <2> QED
      BY <2>1 DEF protoPort2upstreamPort
  <1>6. upsteamPort(sp, <<i, a>>) \in Nat /\ upsteamPort(sp, <<i, a>>) >= 8080
    BY EntryIntro, UpstreamPortType
  <1>7. newTargetPort(sp, i, p) = upsteamPort(sp, <<i, a>>)
    BY <1>5, <1>6 DEF newTargetPort
  <1>8. patchTargetPort(sp, i, s, old)[p] # 0
    BY <1>3, <1>6, <1>7
  <1> QED
    BY <1>3, <1>7, <1>8 DEF AsStored

\* A second pass of patchTargetPort over a service changes nothing.
LEMMA PatchIdempotent ==
    ASSUME NEW sp, NEW i, NEW s, NEW old
    PROVE  patchTargetPort(sp, i, s, patchTargetPort(sp, i, s, old))
             = patchTargetPort(sp, i, s, old)
  <1> DEFINE known(p) == \E q \in Rendered[s] : isSamePort(InCluster(p), q)
             number(p) == newTargetPort(sp, i, CHOOSE q \in Rendered[s] : isSamePort(InCluster(p), q))
             once == [p \in Rendered[s] |-> IF known(p) THEN number(p) ELSE old[p]]
             twice == [p \in Rendered[s] |-> IF known(p) THEN number(p) ELSE once[p]]
  <1>1. patchTargetPort(sp, i, s, old) = once
    BY DEF patchTargetPort
  <1>2. patchTargetPort(sp, i, s, once) = twice
    BY DEF patchTargetPort
  <1>3. twice = once
    <2> HIDE DEF known, number
    <2> QED
      OBVIOUS
  <1> HIDE DEF once, twice
  <1> QED
    BY <1>1, <1>2, <1>3

\* What step 6 makes of two objects that are stored alike is stored alike.
LEMMA StoredPatch ==
    ASSUME NEW sp, NEW i, NEW s, NEW old, NEW old2, AsStored(s, old) = AsStored(s, old2)
    PROVE  AsStored(s, patchTargetPort(sp, i, s, old))
             = AsStored(s, patchTargetPort(sp, i, s, old2))
  <1> DEFINE known(p) == \E q \in Rendered[s] : isSamePort(InCluster(p), q)
             number(p) == newTargetPort(sp, i, CHOOSE q \in Rendered[s] : isSamePort(InCluster(p), q))
             of(o) == [p \in Rendered[s] |-> IF known(p) THEN number(p) ELSE o[p]]
  <1>1. patchTargetPort(sp, i, s, old) = of(old) /\ patchTargetPort(sp, i, s, old2) = of(old2)
    BY DEF patchTargetPort
  <1>2. ASSUME NEW p \in Rendered[s]
        PROVE  AsStored(s, of(old))[p] = AsStored(s, of(old2))[p]
    <2>1. AsStored(s, old)[p] = AsStored(s, old2)[p]
      OBVIOUS
    <2> HIDE DEF known, number
    <2> QED
      BY <2>1 DEF AsStored
  <1>3. AsStored(s, of(old)) = AsStored(s, of(old2))
    <2> HIDE DEF of
    <2> QED
      BY <1>2 DEF AsStored
  <1> HIDE DEF of
  <1> QED
    BY <1>1, <1>3

\* Step 6 finds nothing to change in what it has stored.
LEMMA PatchTwice ==
    ASSUME NEW sp \in Specs, NEW i \in DOMAIN sp, NEW s \in Services,
           NEW old \in [Rendered[s] -> Nat]
    PROVE  LET stored == AsStored(s, patchTargetPort(sp, i, s, old))
           IN  AsStored(s, patchTargetPort(sp, i, s, stored)) = stored
  <1> DEFINE new == patchTargetPort(sp, i, s, old)
             stored == AsStored(s, new)
  <1>1. AsStored(s, stored) = AsStored(s, new)
    BY PatchType, StoredType
  <1>2. patchTargetPort(sp, i, s, new) = new
    BY PatchIdempotent
  <1> HIDE DEF new
  <1>3. AsStored(s, patchTargetPort(sp, i, s, stored)) = AsStored(s, patchTargetPort(sp, i, s, new))
    BY <1>1, StoredPatch
  <1> QED
    BY <1>2, <1>3 DEF new

\* An object that step 6 finds the same is as patchTargetPort would make it.
LEMMA SameIsPatched ==
    ASSUME NEW sp, NEW i, NEW s \in Services, NEW old \in [Rendered[s] -> Nat],
           SamePortsAs(sp, i, s, old)
    PROVE  patchTargetPort(sp, i, s, old) = old
  <1>1. ASSUME NEW p \in Rendered[s]
        PROVE  patchTargetPort(sp, i, s, old)[p] = old[p]
    <2>1. p.protocol = L4(p.protocol) /\ old[p] = newTargetPort(sp, i, p)
      <3>1. p \in ServicePorts
        BY RenderedAssumption
      <3> QED
        BY <3>1 DEF SamePortsAs, InCluster, ServicePorts
    <2>2. p.protocol \in {"TCP", "UDP"}
      BY <2>1 DEF L4
    <2>3. \A q \in Rendered[s] : isSamePort(InCluster(p), q) <=> q = p
      BY <2>2, SamePortIsSelf
    <2>4. (CHOOSE q \in Rendered[s] : isSamePort(InCluster(p), q)) = p
      BY <2>3
    <2> QED
      BY <2>1, <2>3, <2>4 DEF patchTargetPort
  <1> QED
    BY <1>1 DEF patchTargetPort

(***************************************************************************)
(* Types                                                                   *)
(***************************************************************************)

LEMMA NoObjects ==
    ASSUME NEW f, f = <<>>
    PROVE  Copies(f, DOMAIN f)
  <1>1. DOMAIN f = {}
    OBVIOUS
  <1>2. f = [s \in {} |-> f[s]]
    BY <1>1
  <1> QED
    BY <1>1, <1>2 DEF Copies

\* The ways the worker goes on keep its own variables in their types.
LEMMA WorkerMoves ==
    ASSUME WorkerOK, Copies(held, DOMAIN held), available \in Specs \cup {Nil},
           KnownServices,
           \/ Retry \/ Done
           \/ /\ w.pc \notin {"idle", "render"}
              /\ Next1 \/ \E label \in Pcs : Goto(label)
    PROVE  /\ WorkerOK' /\ KnownServices'
           /\ Copies(held, DOMAIN held)' /\ available' \in Specs \cup {Nil}
  <1>1. w \in Workers /\ w.spec \in Specs /\ w.i \in Nat \ {0} /\ w.n \in 0..MaxRetries
    BY DEF WorkerOK, Workers
  <1>2. CASE Retry \/ Done
    <2>1. w' \in Workers /\ w'.pc = "idle"
      <3>1. 0 \in 0..MaxRetries
        BY BoundsAssumption
      <3> QED
        BY <1>1, <1>2, <3>1 DEF Retry, Done, Idle, Workers, Pcs
    <2>2. Copies(held, DOMAIN held)'
      <3>1. held' = <<>>
        BY <1>2 DEF Retry, Done
      <3>2. Copies(held', DOMAIN held')
        BY <3>1, NoObjects
      <3> QED
        BY <3>2 DEF Copies, Objects
    <2>5. UNCHANGED items => UNCHANGED <<queue, dropped>>
      BY DEF items
    <2>3. queue' \subseteq 0..MaxRetries /\ dropped' \in BOOLEAN
      <3>1. \/ queue' = queue
            \/ queue' = queue \cup {w.n + 1} /\ w.n < MaxRetries
        BY <1>2 DEF Retry, Done
      <3>2. dropped' = dropped \/ dropped' \in {TRUE, FALSE}
        BY <1>2 DEF Retry, Done
      <3>3. w.n < MaxRetries => w.n + 1 \in 0..MaxRetries
        BY <1>1, BoundsAssumption
      <3>4. queue \subseteq 0..MaxRetries /\ dropped \in BOOLEAN
        BY DEF WorkerOK
      <3>5. dropped' \in BOOLEAN
        BY <3>2, <3>4
      <3> QED
        BY <3>1, <3>3, <3>4, <3>5
    <2>4. available' \in Specs \cup {Nil}
      BY <1>1, <1>2 DEF Retry, Done
    <2> QED
      BY <2>1, <2>2, <2>3, <2>4 DEF WorkerOK, KnownServices
  <1>3. CASE w.pc \notin {"idle", "render"} /\ (Next1 \/ \E label \in Pcs : Goto(label))
    <2>1. w' \in Workers /\ w'.spec = w.spec
      <3>1. CASE Next1
        BY <1>1, <3>1 DEF Next1, Workers
      <3>2. CASE \E label \in Pcs : Goto(label)
        <4>1. 1 \in Nat \ {0}
          OBVIOUS
        <4> QED
          BY <1>1, <3>2, <4>1 DEF Goto, Workers
      <3> QED
        BY <1>3, <3>1, <3>2
    <2>2. UNCHANGED <<queue, dropped, available, held>>
      BY <1>3 DEF Next1, Goto, items
    <2>3. Copies(held, DOMAIN held)'
      BY <2>2 DEF Copies, Objects
    <2> QED
      BY <1>3, <2>1, <2>2, <2>3 DEF WorkerOK, KnownServices
  <1> QED
    BY <1>2, <1>3

LEMMA HeldType ==
    ASSUME ServicesOK, NEW s \in Services
    PROVE  lister[s] \in Objects(s) /\ inCluster(s) \in Objects(s)
  BY DEF ServicesOK, Copies, inCluster

\* What updateService does to the services: one is taken over, or its Update
\* fails, or there is nothing to do for it.
LEMMA UpdateShape ==
    ASSUME TypeOK, KnownServices, updateService
    PROVE  LET s == w.spec[w.i].service
               new == patchTargetPort(w.spec, w.i, s, inCluster(s).targets)
           IN  /\ s \in Services /\ w.spec \in Specs /\ w.i \in DOMAIN w.spec
               /\ inCluster(s) \in Objects(s) /\ new \in [Rendered[s] -> Nat]
               /\ \/ /\ inCluster(s).selector = "proxy"
                     /\ SamePortsAs(w.spec, w.i, s, inCluster(s).targets)
                     /\ UNCHANGED services
                  \/ /\ inCluster(s).latest
                     /\ selector' = [selector EXCEPT ![s] = "proxy"]
                     /\ targets' = [targets EXCEPT ![s] = AsStored(s, new)]
                     /\ lister' = [lister EXCEPT ![s] =
                            [selector |-> "proxy", targets |-> new, latest |-> FALSE]]
                     /\ lost' = lost \ {s}
                  \/ /\ \E o \in Objects(s) : lister' = [lister EXCEPT ![s] = o]
                     /\ lost' = lost \cup {s}
                     /\ UNCHANGED <<selector, targets>>
  <1> DEFINE s == w.spec[w.i].service
             old == inCluster(s)
             new == patchTargetPort(w.spec, w.i, s, old.targets)
             edited == [selector |-> "proxy", targets |-> new, latest |-> old.latest]
  <1>1. s \in Services /\ w.spec \in Specs /\ w.i \in DOMAIN w.spec
    BY DEF updateService, KnownServices, TypeOK, WorkerOK, Workers
  <1>2. old \in Objects(s) /\ lister[s] \in Objects(s)
    BY <1>1, HeldType DEF TypeOK
  <1>3. new \in [Rendered[s] -> Nat]
    BY <1>1, <1>2, PatchType DEF Objects
  <1>4. edited \in Objects(s)
    <2> HIDE DEF new
    <2>1. "proxy" \in Selectors /\ old.latest \in BOOLEAN
      BY <1>2 DEF Selectors, Objects
    <2> HIDE DEF old
    <2> QED
      BY <2>1, <1>3 DEF Objects
  <1>5. lister = [lister EXCEPT ![s] = lister[s]]
    BY DEF TypeOK, ServicesOK, Copies
  <1>6. \/ old.selector = "proxy" /\ SamePortsAs(w.spec, w.i, s, old.targets)
           /\ UNCHANGED services
        \/ /\ old.latest
           /\ selector' = [selector EXCEPT ![s] = "proxy"]
           /\ targets' = [targets EXCEPT ![s] = AsStored(s, new)]
           /\ lister' = [lister EXCEPT ![s] =
                  [selector |-> "proxy", targets |-> new, latest |-> FALSE]]
           /\ lost' = lost \ {s}
        \/ /\ lister' = lister \/ lister' = [lister EXCEPT ![s] = edited]
           /\ lost' = lost \cup {s}
           /\ UNCHANGED <<selector, targets>>
    BY DEF updateService
  <1> HIDE DEF new, edited
  <1>7. (lister' = lister \/ lister' = [lister EXCEPT ![s] = edited]) =>
           \E o \in Objects(s) : lister' = [lister EXCEPT ![s] = o]
    BY <1>2, <1>4, <1>5
  <1>8. /\ s \in Services /\ w.spec \in Specs /\ w.i \in DOMAIN w.spec
        /\ old \in Objects(s) /\ new \in [Rendered[s] -> Nat]
        /\ \/ /\ old.selector = "proxy"
              /\ SamePortsAs(w.spec, w.i, s, old.targets)
              /\ UNCHANGED services
           \/ /\ old.latest
              /\ selector' = [selector EXCEPT ![s] = "proxy"]
              /\ targets' = [targets EXCEPT ![s] = AsStored(s, new)]
              /\ lister' = [lister EXCEPT ![s] =
                     [selector |-> "proxy", targets |-> new, latest |-> FALSE]]
              /\ lost' = lost \ {s}
           \/ /\ \E o \in Objects(s) : lister' = [lister EXCEPT ![s] = o]
              /\ lost' = lost \cup {s}
              /\ UNCHANGED <<selector, targets>>
    BY <1>1, <1>2, <1>3, <1>6, <1>7
  <1> QED
    BY <1>8 DEF new

\* The object of one service in the cache is replaced.
LEMMA CopiesExcept ==
    ASSUME NEW copies, Copies(copies, Services), NEW s \in Services, NEW o \in Objects(s)
    PROVE  Copies([copies EXCEPT ![s] = o], Services)
  <1> DEFINE new == [copies EXCEPT ![s] = o]
  <1>1. new = [t \in Services |-> new[t]]
    BY DEF Copies
  <1>2. \A t \in Services : new[t] = IF t = s THEN o ELSE copies[t]
    BY DEF Copies
  <1> HIDE DEF new
  <1>3. Copies(new, Services)
    BY <1>1, <1>2 DEF Copies
  <1> QED
    BY <1>3 DEF new

LEMMA StoredTyped ==
    ASSUME ServicesOK
    PROVE  Copies(Stored, Services)
  <1>1. ASSUME NEW s \in Services
        PROVE  Stored[s] \in Objects(s)
    BY <1>1 DEF ServicesOK, Stored, Objects
  <1> QED
    BY <1>1 DEF Copies, Stored

\* Every variable keeps its type, and the worker knows the services it is at:
\* nginx and the running config are always configs of specs a user stored
\* (proxy.go 486-621, 704-717).
LEMMA TypeInductive ==
    /\ Init => TypeOK /\ KnownServices
    /\ TypeOK /\ KnownServices /\ [Next]_vars => TypeOK' /\ KnownServices'
  <1>1. ASSUME Init
        PROVE  TypeOK /\ KnownServices
    <2>1. targets = RenderedTargets
          /\ \A s \in Services : RenderedTargets[s] \in [Rendered[s] -> Nat]
      BY <1>1, RenderedAssumption DEF RenderedTargets, ServicePorts, Init
    <2>2. /\ targets = [s \in Services |-> targets[s]]
          /\ \A s \in Services : targets[s] \in [Rendered[s] -> Nat]
      BY <2>1 DEF RenderedTargets
    <2>3. selector \in [Services -> Selectors] /\ \A s \in Services : selector[s] \in Selectors
      BY <1>1 DEF Init, Selectors
    <2>4. Copies(lister, Services)
      <3>1. \A s \in Services : Stored[s] \in Objects(s)
        BY <2>2, <2>3 DEF Stored, Objects
      <3> QED
        BY <1>1, <3>1 DEF Init, Copies, Stored
    <2>5. Copies(held, DOMAIN held)
      BY <1>1, NoObjects DEF Init
    <2>6. ServicesOK
      BY <1>1, <2>2, <2>3, <2>4, <2>5 DEF Init, ServicesOK
    <2>7. w \in Workers /\ w.pc = "idle"
      BY <1>1, BoundsAssumption DEF Init, Idle, Workers, Pcs
    <2>8. WorkerOK /\ KnownServices
      <3>1. 0 \in 0..MaxRetries
        BY BoundsAssumption
      <3>2. queue = {0} /\ dropped \in BOOLEAN
        BY <1>1 DEF Init
      <3> QED
        BY <2>7, <3>1, <3>2 DEF WorkerOK, KnownServices
    <2>9. ConfigsOK /\ BoundsOK
      BY <1>1, BoundsAssumption DEF Init, ConfigsOK, BoundsOK
    <2> QED
      BY <2>6, <2>8, <2>9 DEF TypeOK
  <1>2. ASSUME TypeOK, KnownServices, [Next]_vars
        PROVE  TypeOK' /\ KnownServices'
    <2>0. /\ WorkerOK /\ ServicesOK /\ ConfigsOK /\ BoundsOK /\ KnownServices
          /\ Copies(held, DOMAIN held) /\ available \in Specs \cup {Nil}
          /\ w \in Workers /\ w.spec \in Specs /\ w.i \in Nat \ {0}
      BY <1>2 DEF TypeOK, WorkerOK, Workers, ServicesOK, ConfigsOK
    \* The worker's part, then the services' and the configs'.
    <2> DEFINE Worked == WorkerOK' /\ KnownServices' /\ Copies(held, DOMAIN held)'
                         /\ available' \in Specs \cup {Nil}
               Served == /\ selector' \in [Services -> Selectors]
                         /\ targets' = [s \in Services |-> targets'[s]]
                         /\ \A s \in Services : targets'[s] \in [Rendered[s] -> Nat]
                         /\ Copies(lister', Services) /\ lost' \subseteq Services
                         /\ forked' \subseteq Services /\ manifest' \subseteq Services
               Configured == /\ spec' \in Specs /\ nginx' \in Configs \cup {{}}
                             /\ runningConfig' \in Configs \cup {Nil}
    <2>1. ASSUME Worked, Served, Configured, BoundsOK'
          PROVE  TypeOK' /\ KnownServices'
      BY <2>1 DEF TypeOK, ServicesOK, ConfigsOK, Copies, Objects
    <2>2. ASSUME \/ Retry \/ Done \/ Fault
                 \/ w.pc \notin {"idle", "render"} /\ (Next1 \/ \E label \in Pcs : Goto(label))
          PROVE  Worked
      BY <2>0, <2>2, WorkerMoves DEF Fault
    <2>3. ASSUME UNCHANGED services, forked' \subseteq Services, manifest' \subseteq Services
          PROVE  Served
      BY <2>0, <2>3 DEF services, ServicesOK
    <2>4. ASSUME UNCHANGED <<spec, runningConfig>>, nginx' \in {nginx, getUpsteamService(w.spec), {}}
          PROVE  Configured
      BY <2>0, <2>4 DEF ConfigsOK, Configs
    <2>5. UNCHANGED <<edits, restarts>> /\ (UNCHANGED faults \/ Fault) => BoundsOK'
      BY <2>0, BoundsAssumption DEF Fault, BoundsOK
    <2>6. 0 \in 0..MaxRetries
      BY BoundsAssumption
    <2>7. forked \subseteq Services /\ manifest \subseteq Services
      BY <2>0 DEF ServicesOK
    <2>8. "updateObjects" \in Pcs /\ "patchManifest" \in Pcs /\ "createForked" \in Pcs
          /\ "update" \in Pcs /\ "render" \in Pcs
      BY DEF Pcs
    <2> HIDE DEF Worked, Served, Configured
    <2>10. CASE syncCanaryRelease
      <3>1. PICK n \in queue : /\ queue' = queue \ {n}
                               /\ w' = [pc |-> "render", spec |-> spec, n |-> n, i |-> 1]
        BY <2>10 DEF syncCanaryRelease
      <3>2. w' \in Workers /\ w'.pc = "render"
        <4>1. n \in 0..MaxRetries /\ spec \in Specs /\ 1 \in Nat \ {0}
          BY <2>0 DEF WorkerOK, ConfigsOK
        <4> QED
          BY <3>1, <4>1, <2>8 DEF Workers
      <3>3. Worked
        <4>1. UNCHANGED <<dropped, available, held>>
          BY <2>10 DEF syncCanaryRelease
        <4>2. Copies(held, DOMAIN held)'
          BY <2>0, <4>1 DEF Copies, Objects
        <4> QED
          BY <2>0, <3>1, <3>2, <4>1, <4>2 DEF Worked, WorkerOK, KnownServices
      <3>4. Served /\ Configured /\ BoundsOK'
        BY <2>0, <2>3, <2>4, <2>7, <2>10 DEF syncCanaryRelease, BoundsOK, bounds
      <3> QED
        BY <2>1, <3>3, <3>4
    <2>11. CASE renderService
      <3>1. CASE Retry
        BY <2>0, <2>1, <2>2, <2>3, <2>4, <2>7, <2>11, <3>1 DEF renderService, BoundsOK, bounds
      <3>2. CASE ~unknownService(w.spec) /\ Goto("updateObjects")
        <4>1. \A i \in DOMAIN w.spec : w.spec[i].service \in Services
          BY <3>2 DEF unknownService
        <4>2. w' \in Workers /\ w'.spec = w.spec
          <5>1. 1 \in Nat \ {0}
            OBVIOUS
          <5> QED
            BY <2>0, <2>8, <3>2, <5>1 DEF Goto, Workers
        <4>3. UNCHANGED <<queue, dropped, available, held>>
          BY <3>2 DEF Goto, items
        <4>4. Copies(held, DOMAIN held)'
          BY <2>0, <4>3 DEF Copies, Objects
        <4>5. Worked
          BY <2>0, <4>1, <4>2, <4>3, <4>4 DEF Worked, WorkerOK, KnownServices
        <4>6. Served /\ Configured /\ BoundsOK'
          BY <2>0, <2>3, <2>4, <2>7, <2>11 DEF renderService, BoundsOK, bounds
        <4> QED
          BY <2>1, <4>5, <4>6
      <3> QED
        BY <2>11, <3>1, <3>2 DEF renderService
    <2>12. CASE updateObjects
      <3>1. PICK created \in SUBSET Services, deleted \in SUBSET Services :
               /\ selector' = [s \in Services |-> IF s \in created THEN "canary"
                                ELSE IF s \in deleted THEN "absent" ELSE selector[s]]
               /\ targets' = [s \in Services |-> IF s \in created THEN RenderedTargets[s]
                                                 ELSE targets[s]]
               /\ lister' = Outdated(created \cup deleted)
               /\ lost' = lost \cup deleted
        <4> DEFINE create == Unlisted(w.spec) \ manifest
                   absent == {s \in Services : selector[s] = "absent"}
                   own == {s \in Services : selector[s] \in {"proxy", "canary"}}
                   delete == (manifest \ Unlisted(w.spec)) \cap own
        <4>1. SUBSET (create \cap absent) \subseteq SUBSET Services
              /\ SUBSET delete \subseteq SUBSET Services
          OBVIOUS
        <4>2. \E created \in SUBSET (create \cap absent), deleted \in SUBSET delete :
               /\ selector' = [s \in Services |-> IF s \in created THEN "canary"
                                ELSE IF s \in deleted THEN "absent" ELSE selector[s]]
               /\ targets' = [s \in Services |-> IF s \in created THEN RenderedTargets[s]
                                                 ELSE targets[s]]
               /\ lister' = Outdated(created \cup deleted)
               /\ lost' = lost \cup deleted
          BY <2>12, Zenon DEF updateObjects
        <4> HIDE DEF create, absent, own, delete
        <4> QED
          BY <4>1, <4>2
      <3>2. Worked
        <4>1. Goto("patchManifest") \/ Retry \/ Fault
          BY <2>12 DEF updateObjects
        <4>2. w.pc \notin {"idle", "render"}
          BY <2>12 DEF updateObjects
        <4> QED
          BY <2>2, <2>8, <4>1, <4>2
      <3>3. selector' \in [Services -> Selectors]
        <4>1. selector \in [Services -> Selectors] /\ "canary" \in Selectors /\ "absent" \in Selectors
          BY <2>0 DEF ServicesOK, Selectors
        <4> QED
          BY <3>1, <4>1
      <3>4. /\ targets' = [s \in Services |-> targets'[s]]
            /\ \A s \in Services : targets'[s] \in [Rendered[s] -> Nat]
        <4>1. \A s \in Services : RenderedTargets[s] \in [Rendered[s] -> Nat]
          BY RenderedAssumption DEF RenderedTargets, ServicePorts
        <4>2. \A s \in Services : targets[s] \in [Rendered[s] -> Nat]
          BY <2>0 DEF ServicesOK
        <4> QED
          BY <3>1, <4>1, <4>2
      <3>5. Copies(lister', Services)
        <4> DEFINE S == created \cup deleted
        <4>1. ASSUME NEW s \in Services
              PROVE  [lister[s] EXCEPT !.latest = lister[s].latest /\ s \notin S] \in Objects(s)
          <5>1. lister[s] \in Objects(s)
            BY <2>0, HeldType
          <5>2. (lister[s].latest /\ s \notin S) \in BOOLEAN
            OBVIOUS
          <5> DEFINE b == lister[s].latest /\ s \notin S
          <5> HIDE DEF b, S
          <5>3. [lister[s] EXCEPT !.latest = b] \in Objects(s)
            BY <5>1, <5>2 DEF Objects, b
          <5> QED
            BY <5>3 DEF b
        <4> QED
          BY <3>1, <4>1 DEF Outdated, Copies
      <3>6. Served
        BY <2>0, <2>7, <2>12, <3>1, <3>3, <3>4, <3>5 DEF Served, updateObjects, ServicesOK
      <3>7. Configured /\ BoundsOK'
        BY <2>4, <2>5, <2>12 DEF updateObjects
      <3> QED
        BY <2>1, <3>2, <3>6, <3>7
    <2>13. CASE patchManifest
      <3>1. Worked
        BY <2>2, <2>8, <2>13 DEF patchManifest
      <3>2. Served
        BY <2>3, <2>7, <2>13 DEF patchManifest, Unlisted
      <3>3. Configured /\ BoundsOK'
        BY <2>4, <2>5, <2>13 DEF patchManifest
      <3> QED
        BY <2>1, <3>1, <3>2, <3>3
    <2>14. CASE createForked
      <3>1. Worked
        BY <2>2, <2>14 DEF createForked
      <3>2. w.spec[w.i].service \in Services
        BY <2>0, <2>14 DEF createForked, KnownServices
      <3>3. Served
        BY <2>3, <2>7, <2>14, <3>2 DEF createForked
      <3>4. Configured /\ BoundsOK'
        BY <2>4, <2>5, <2>14 DEF createForked, Next1
      <3> QED
        BY <2>1, <3>1, <3>3, <3>4
    <2>15. CASE OnUpdate
      <3>1. Worked
        BY <2>2, <2>8, <2>15 DEF OnUpdate
      <3>2. Served
        BY <2>3, <2>7, <2>15 DEF OnUpdate
      <3>3. Configured /\ BoundsOK'
        BY <2>4, <2>5, <2>15 DEF OnUpdate
      <3> QED
        BY <2>1, <3>1, <3>2, <3>3
    <2>16. CASE updateService
      <3>1. Worked
        BY <2>2, <2>16 DEF updateService
      <3>2. Configured /\ BoundsOK'
        BY <2>4, <2>5, <2>16 DEF updateService, Next1
      <3>3. Served
        <4> DEFINE s == w.spec[w.i].service
                   new == patchTargetPort(w.spec, w.i, s, inCluster(s).targets)
        <4>1. UNCHANGED <<forked, manifest>>
          BY <2>16 DEF updateService
        <4>2. /\ s \in Services /\ new \in [Rendered[s] -> Nat]
              /\ \/ UNCHANGED services
                 \/ /\ selector' = [selector EXCEPT ![s] = "proxy"]
                    /\ targets' = [targets EXCEPT ![s] = AsStored(s, new)]
                    /\ \E o \in Objects(s) : lister' = [lister EXCEPT ![s] = o]
                    /\ lost' = lost \ {s}
                 \/ /\ \E o \in Objects(s) : lister' = [lister EXCEPT ![s] = o]
                    /\ lost' = lost \cup {s}
                    /\ UNCHANGED <<selector, targets>>
          <5>1. \A t : patchTargetPort(w.spec, w.i, s, t) \in [Rendered[s] -> Nat] =>
                  [selector |-> "proxy", targets |-> patchTargetPort(w.spec, w.i, s, t),
                   latest |-> FALSE] \in Objects(s)
            BY DEF Objects, Selectors
          <5>2. [selector |-> "proxy", targets |-> new, latest |-> FALSE] \in Objects(s)
            BY <1>2, <2>16, <5>1, UpdateShape
          <5> QED
            BY <1>2, <2>16, <5>2, UpdateShape
        <4> HIDE DEF new, s
        <4>3. CASE UNCHANGED services
          BY <2>3, <2>7, <4>1, <4>3
        <4>4. ASSUME NEW o \in Objects(s), lister' = [lister EXCEPT ![s] = o]
              PROVE  Copies(lister', Services)
          BY <2>0, <4>2, <4>4, CopiesExcept DEF ServicesOK
        <4>5. "proxy" \in Selectors /\ AsStored(s, new) \in [Rendered[s] -> Nat]
          BY <4>2, StoredType DEF Selectors
        <4>6. CASE UNCHANGED <<selector, targets>> /\ Copies(lister', Services)
                   /\ lost' = lost \cup {s}
          BY <2>0, <2>7, <4>1, <4>2, <4>6 DEF Served, ServicesOK
        <4>7. CASE /\ selector' = [selector EXCEPT ![s] = "proxy"]
                   /\ targets' = [targets EXCEPT ![s] = AsStored(s, new)]
                   /\ Copies(lister', Services) /\ lost' = lost \ {s}
          BY <2>0, <2>7, <4>1, <4>2, <4>5, <4>7 DEF Served, ServicesOK
        <4> QED
          BY <4>2, <4>3, <4>4, <4>6, <4>7
      <3> QED
        BY <2>1, <3>1, <3>2, <3>3
    <2>17. CASE setRunningConfig
      <3>1. Worked
        BY <2>2, <2>17 DEF setRunningConfig
      <3>2. Served
        BY <2>3, <2>7, <2>17 DEF setRunningConfig
      <3>3. Configured
        BY <2>0, <2>17 DEF setRunningConfig, Configured, ConfigsOK, Configs
      <3>4. BoundsOK'
        BY <2>0, <2>17 DEF setRunningConfig, BoundsOK, bounds
      <3> QED
        BY <2>1, <3>1, <3>2, <3>3, <3>4
    <2>18. CASE Edit
      <3>1. Worked
        <4>1. queue' \in {queue, queue \cup {0}} /\ dropped' \in BOOLEAN
              /\ UNCHANGED <<w, available, held>>
          BY <2>18 DEF Edit
        <4>2. Copies(held, DOMAIN held)'
          BY <2>0, <4>1 DEF Copies, Objects
        <4> QED
          BY <2>0, <2>6, <4>1, <4>2 DEF Worked, WorkerOK, KnownServices
      <3>2. Served
        BY <2>3, <2>7, <2>18 DEF Edit
      <3>3. Configured /\ BoundsOK'
        BY <2>0, <2>18, BoundsAssumption DEF Edit, Configured, ConfigsOK, BoundsOK
      <3> QED
        BY <2>1, <3>1, <3>2, <3>3
    <2>19. CASE Restart
      <3>1. Worked
        <4>1. w' \in Workers /\ w'.pc = "idle"
          BY <2>0, <2>19, BoundsAssumption DEF Restart, Idle, Workers, Pcs
        <4>2. held' = <<>> /\ available' = available /\ queue' = {0}
              /\ dropped' \in BOOLEAN
          BY <2>19 DEF Restart
        <4>3. Copies(held', DOMAIN held')
          BY <4>2, NoObjects
        <4>4. Copies(held, DOMAIN held)'
          BY <4>3 DEF Copies, Objects
        <4> QED
          BY <2>0, <2>6, <4>1, <4>2, <4>4 DEF Worked, WorkerOK, KnownServices
      <3>2. Served
        BY <2>0, <2>7, <2>19, StoredTyped DEF Served, Restart, ServicesOK
      <3>3. Configured /\ BoundsOK'
        BY <2>0, <2>19, BoundsAssumption DEF Restart, Configured, ConfigsOK, BoundsOK
      <3> QED
        BY <2>1, <3>1, <3>2, <3>3
    <2>20. ASSUME NEW s \in Services, RefreshService(s)
           PROVE  TypeOK' /\ KnownServices'
      <3>0. UNCHANGED <<queue, dropped, w, available>>
        BY <2>20 DEF RefreshService, items
      <3>1. Copies(held, DOMAIN held)'
        <4>1. CASE held' = held
          BY <2>0, <4>1 DEF Copies, Objects
        <4>2. CASE held' = [t \in DOMAIN held \cup {s} |-> inCluster(t)]
          <5>1. DOMAIN held \subseteq Services
            BY <2>0 DEF Copies
          <5>2. \A t \in Services : inCluster(t) \in Objects(t)
            BY <2>0, HeldType
          <5>3. Copies(held', DOMAIN held')
            BY <4>2, <5>1, <5>2 DEF Copies
          <5> QED
            BY <5>3 DEF Copies, Objects
        <4> QED
          BY <2>20, <4>1, <4>2 DEF RefreshService
      <3>2. Worked
        BY <2>0, <3>0, <3>1 DEF Worked, WorkerOK, KnownServices
      <3>3. Served
        <4>1. Stored[s] \in Objects(s)
          BY <2>0, StoredTyped DEF Copies
        <4>2. Copies(lister', Services)
          BY <2>0, <2>20, <4>1, CopiesExcept DEF RefreshService, ServicesOK
        <4> QED
          BY <2>0, <2>7, <2>20, <4>2 DEF Served, RefreshService, ServicesOK
      <3>4. Configured /\ BoundsOK'
        BY <2>0, <2>4, <2>20 DEF RefreshService, BoundsOK, bounds
      <3> QED
        BY <2>1, <3>2, <3>3, <3>4
    <2>21. CASE UNCHANGED vars
      <3>1. UNCHANGED <<queue, dropped, w, available, held, services, forked, manifest,
                        spec, nginx, runningConfig, edits, faults, restarts>>
        BY <2>21 DEF vars, items, bounds
      <3>2. Copies(held, DOMAIN held)'
        BY <2>0, <3>1 DEF Copies, Objects
      <3>3. Worked
        BY <2>0, <3>1, <3>2 DEF Worked, WorkerOK, KnownServices
      <3>4. Served /\ Configured /\ BoundsOK'
        BY <2>3, <2>4, <2>5, <2>7, <3>1
      <3> QED
        BY <2>1, <3>3, <3>4
    <2> QED
      BY <1>2, <2>10, <2>11, <2>12, <2>13, <2>14, <2>15, <2>16, <2>17, <2>18, <2>19, <2>20,
         <2>21 DEF Next, Worker
  <1> QED
    BY <1>1, <1>2

THEOREM TypeCorrect == Spec => [](TypeOK /\ KnownServices)
  BY TypeInductive, PTL DEF Spec

(***************************************************************************)
(* What a step does to the services                                        *)
(***************************************************************************)

\* The services that no step has lost are left alone.
Kept == \A s \in Services \ lost' :
            s \notin lost /\ selector'[s] = selector[s] /\ targets'[s] = targets[s]

\* The n-th service of a spec is taken over or lost, the others are left alone.
Passed(sp, n) ==
    LET s == sp[n].service
    IN  /\ s \notin lost' =>
             /\ selector'[s] = "proxy"
             /\ \E old \in [Rendered[s] -> Nat] :
                    targets'[s] = AsStored(s, patchTargetPort(sp, n, s, old))
        /\ \A t \in Services \ {s} : t \notin lost' =>
             t \notin lost /\ selector'[t] = selector[t] /\ targets'[t] = targets[t]

LEMMA StepKeeps ==
    ASSUME TypeOK, CacheInv, [Next]_vars
    PROVE  Kept \/ updateService
  <1>1. CASE UNCHANGED services
    BY <1>1 DEF services, Kept
  <1>2. CASE updateObjects
    <2> DEFINE create == Unlisted(w.spec) \ manifest
               absent == {s \in Services : selector[s] = "absent"}
    <2>1. absent \subseteq lost
      BY DEF CacheInv
    <2>2. \E created \in SUBSET (create \cap absent), deleted \in SUBSET Services :
               /\ selector' = [s \in Services |-> IF s \in created THEN "canary"
                                ELSE IF s \in deleted THEN "absent" ELSE selector[s]]
               /\ targets' = [s \in Services |-> IF s \in created THEN RenderedTargets[s]
                                                 ELSE targets[s]]
               /\ lost' = lost \cup deleted
      <3> DEFINE own == {s \in Services : selector[s] \in {"proxy", "canary"}}
                 delete == (manifest \ Unlisted(w.spec)) \cap own
      <3>1. \E created \in SUBSET (create \cap absent), deleted \in SUBSET delete :
               /\ selector' = [s \in Services |-> IF s \in created THEN "canary"
                                ELSE IF s \in deleted THEN "absent" ELSE selector[s]]
               /\ targets' = [s \in Services |-> IF s \in created THEN RenderedTargets[s]
                                                 ELSE targets[s]]
               /\ lost' = lost \cup deleted
        BY <1>2, Zenon DEF updateObjects
      <3>2. SUBSET delete \subseteq SUBSET Services
        OBVIOUS
      <3> HIDE DEF create, absent, delete
      <3> QED
        BY <3>1, <3>2
    <2> HIDE DEF create
    <2> QED
      BY <2>1, <2>2 DEF Kept
  <1>3. CASE syncCanaryRelease \/ renderService \/ patchManifest \/ createForked \/ OnUpdate
             \/ setRunningConfig
    BY <1>1, <1>3 DEF syncCanaryRelease, renderService, patchManifest, createForked, OnUpdate,
                      setRunningConfig
  <1>4. CASE Edit \/ Restart \/ \E s \in Services : RefreshService(s)
    BY <1>4 DEF Edit, Restart, RefreshService, Kept, services
  <1>5. CASE UNCHANGED vars
    BY <1>1, <1>5 DEF vars
  <1> QED
    BY <1>2, <1>3, <1>4, <1>5 DEF Next, Worker

\* What step 6 has in its hands agrees with the stored service.
LEMMA HeldInStep ==
    ASSUME CacheInv, NEW s \in Services, s \notin lost
    PROVE  InStep(s, inCluster(s))
  BY DEF CacheInv, inCluster

LEMMA StepPasses ==
    ASSUME TypeOK, KnownServices, CacheInv, updateService
    PROVE  Passed(w.spec, w.i)
  <1> DEFINE sp == w.spec
             n == w.i
             s == sp[n].service
             old == inCluster(s)
             new == patchTargetPort(sp, n, s, old.targets)
  <1>1. /\ s \in Services /\ sp \in Specs /\ n \in DOMAIN sp
        /\ old \in Objects(s) /\ new \in [Rendered[s] -> Nat]
        /\ \/ /\ old.selector = "proxy" /\ SamePortsAs(sp, n, s, old.targets)
              /\ UNCHANGED services
           \/ /\ selector' = [selector EXCEPT ![s] = "proxy"]
              /\ targets' = [targets EXCEPT ![s] = AsStored(s, new)]
              /\ lost' = lost \ {s}
           \/ /\ lost' = lost \cup {s}
              /\ UNCHANGED <<selector, targets>>
    BY UpdateShape
  <1>2. old.targets \in [Rendered[s] -> Nat]
    BY <1>1 DEF Objects
  <1>3. CASE /\ old.selector = "proxy" /\ SamePortsAs(sp, n, s, old.targets)
             /\ UNCHANGED services
    <2>1. new = old.targets
      BY <1>1, <1>2, <1>3, SameIsPatched
    <2>2. s \notin lost => selector[s] = "proxy" /\ targets[s] = AsStored(s, new)
      BY <1>1, <1>3, <2>1, HeldInStep DEF InStep
    <2>3. UNCHANGED <<selector, targets, lost>>
      BY <1>3 DEF services
    <2> HIDE DEF new
    <2>4. new = patchTargetPort(sp, n, s, old.targets)
      BY DEF new
    <2> QED
      BY <1>2, <2>2, <2>3, <2>4 DEF Passed
  <1>4. CASE /\ selector' = [selector EXCEPT ![s] = "proxy"]
             /\ targets' = [targets EXCEPT ![s] = AsStored(s, new)]
             /\ lost' = lost \ {s}
    <2>1. /\ selector \in [Services -> Selectors]
          /\ targets = [t \in Services |-> targets[t]]
      BY DEF TypeOK, ServicesOK
    <2> HIDE DEF new
    <2>2. /\ selector'[s] = "proxy" /\ targets'[s] = AsStored(s, new)
          /\ \A t \in Services \ {s} : selector'[t] = selector[t] /\ targets'[t] = targets[t]
      BY <1>1, <1>4, <2>1
    <2>3. new = patchTargetPort(sp, n, s, old.targets)
      BY DEF new
    <2> HIDE DEF s
    <2>4. /\ s \notin lost' =>
             /\ selector'[s] = "proxy"
             /\ \E o \in [Rendered[s] -> Nat] :
                    targets'[s] = AsStored(s, patchTargetPort(sp, n, s, o))
          /\ \A t \in Services \ {s} : t \notin lost' =>
             t \notin lost /\ selector'[t] = selector[t] /\ targets'[t] = targets[t]
      BY <1>2, <1>4, <2>2, <2>3
    <2> QED
      BY <2>4 DEF Passed, s
  <1>5. CASE lost' = lost \cup {s} /\ UNCHANGED <<selector, targets>>
    BY <1>5 DEF Passed
  <1> QED
    BY <1>1, <1>3, <1>4, <1>5

\* The cache and the worker's objects agree with the stored services at first
\* and after every step, but for those whose Update fails (proxy.go 601-615).
LEMMA CacheInductive ==
    /\ Init => CacheInv
    /\ TypeOK /\ KnownServices /\ CacheInv /\ [Next]_vars => CacheInv'
  <1>1. ASSUME Init
        PROVE  CacheInv
    <2>1. /\ lost = {} /\ held = <<>> /\ DOMAIN held = {}
          /\ selector = [s \in Services |-> "app"]
          /\ targets = RenderedTargets /\ lister = Stored
      BY <1>1 DEF Init
    <2>2. ASSUME NEW s \in Services
          PROVE  AsStored(s, RenderedTargets[s]) = RenderedTargets[s]
      <3>1. \A p \in Rendered[s] : p.targetPort # 0
        BY RenderedAssumption DEF ServicePorts
      <3> QED
        BY <3>1 DEF AsStored, RenderedTargets
    <2> QED
      BY <2>1, <2>2 DEF CacheInv, InStep, Stored
  <1>2. ASSUME TypeOK, KnownServices, CacheInv, [Next]_vars
        PROVE  CacheInv'
    <2>1. ASSUME Kept,
                 \A s \in Services \ lost' :
                    lister'[s].selector = lister[s].selector /\ lister'[s].targets = lister[s].targets,
                 held' = held \/ held' = <<>>
          PROVE  CacheInv'
      <3>1. DOMAIN held \subseteq Services
        BY <1>2 DEF TypeOK, ServicesOK, Copies
      <3>2. held' = <<>> => DOMAIN held' = {}
        OBVIOUS
      <3>3. ASSUME NEW s \in Services \ lost', NEW o, InStep(s, o)
            PROVE  o.selector = selector'[s] /\ AsStored(s, o.targets) = targets'[s]
        BY <2>1, <3>3 DEF Kept, InStep
      <3>4. ASSUME NEW s \in Services \ lost'
            PROVE  selector'[s] \in {"app", "proxy"} /\ InStep(s, lister[s])'
        <4>1. s \notin lost /\ InStep(s, lister[s]) /\ selector[s] \in {"app", "proxy"}
          BY <1>2, <2>1, <3>4 DEF Kept, CacheInv
        <4>2. lister[s].selector = selector'[s] /\ AsStored(s, lister[s].targets) = targets'[s]
          BY <3>3, <3>4, <4>1
        <4> QED
          BY <2>1, <3>4, <4>1, <4>2 DEF Kept, InStep
      <3>5. ASSUME NEW s \in DOMAIN held, held' = held
            PROVE  ~held[s].latest /\ (s \notin lost' => InStep(s, held[s])')
        <4>1. s \in Services /\ ~held[s].latest /\ (s \notin lost => InStep(s, held[s]))
          BY <1>2, <3>1 DEF CacheInv
        <4>2. s \notin lost' => s \notin lost
          BY <2>1, <4>1 DEF Kept
        <4> QED
          BY <3>3, <3>5, <4>1, <4>2 DEF InStep
      <3> QED
        BY <2>1, <3>2, <3>4, <3>5 DEF CacheInv
    <2>2. ASSUME NEW s \in Services, s \notin lost
          PROVE  InStep(s, Stored[s])
      <3>1. InStep(s, lister[s]) /\ lister[s].targets \in [Rendered[s] -> Nat]
        BY <1>2, <2>2, HeldType DEF TypeOK, CacheInv, Objects
      <3>2. AsStored(s, targets[s]) = targets[s]
        BY <3>1, StoredType DEF InStep
      <3> QED
        BY <3>2 DEF InStep, Stored
    <2>3. CASE /\ syncCanaryRelease \/ renderService \/ patchManifest \/ createForked
                  \/ OnUpdate \/ setRunningConfig \/ Edit \/ UNCHANGED vars
               /\ Kept
      <3>1. UNCHANGED lister
        BY <2>3 DEF syncCanaryRelease, renderService, patchManifest, createForked, OnUpdate,
                    setRunningConfig, Edit, vars, services
      <3>2. held' = held \/ held' = <<>>
        BY <2>3 DEF syncCanaryRelease, renderService, patchManifest, createForked, OnUpdate,
                    setRunningConfig, Edit, vars, Retry, Fault, Done, Goto, Next1
      <3> QED
        BY <2>1, <2>3, <3>1, <3>2
    <2>4. CASE updateObjects /\ Kept
      <3>1. PICK S : lister' = Outdated(S)
        BY <2>4 DEF updateObjects
      <3>2. ASSUME NEW s \in Services
            PROVE  lister'[s].selector = lister[s].selector /\ lister'[s].targets = lister[s].targets
        <4>1. lister[s] \in Objects(s)
          BY <1>2, HeldType DEF TypeOK
        <4> QED
          BY <3>1, <4>1 DEF Outdated, Objects
      <3>3. held' = held \/ held' = <<>>
        BY <2>4 DEF updateObjects, Goto, Retry, Fault
      <3> QED
        BY <2>1, <2>4, <3>2, <3>3
    <2>5. CASE updateService
      <3> DEFINE s == w.spec[w.i].service
                 old == inCluster(s)
                 new == patchTargetPort(w.spec, w.i, s, old.targets)
      <3>1. /\ s \in Services
            /\ \/ UNCHANGED services
               \/ /\ old.latest
                  /\ selector' = [selector EXCEPT ![s] = "proxy"]
                  /\ targets' = [targets EXCEPT ![s] = AsStored(s, new)]
                  /\ lister' = [lister EXCEPT ![s] =
                         [selector |-> "proxy", targets |-> new, latest |-> FALSE]]
                  /\ lost' = lost \ {s}
               \/ /\ \E o \in Objects(s) : lister' = [lister EXCEPT ![s] = o]
                  /\ lost' = lost \cup {s}
                  /\ UNCHANGED <<selector, targets>>
        BY <1>2, <2>5, UpdateShape
      <3>2. held' = held \/ held' = <<>>
        BY <2>5 DEF updateService, Next1, Fault, Retry
      <3>3. /\ selector \in [Services -> Selectors]
            /\ targets = [t \in Services |-> targets[t]]
            /\ lister = [t \in Services |-> lister[t]]
            /\ DOMAIN held \subseteq Services
        BY <1>2 DEF TypeOK, ServicesOK, Copies
      <3>4. s \in DOMAIN held => ~old.latest
        BY <1>2 DEF CacheInv, inCluster
      <3> HIDE DEF s, new, old
      <3>5. CASE UNCHANGED services
        <4>1. UNCHANGED <<selector, targets, lister, lost>>
          BY <3>5 DEF services
        <4> QED
          BY <2>1, <3>2, <4>1 DEF Kept
      <3>6. ASSUME old.latest,
                   selector' = [selector EXCEPT ![s] = "proxy"],
                   targets' = [targets EXCEPT ![s] = AsStored(s, new)],
                   lister' = [lister EXCEPT ![s] =
                         [selector |-> "proxy", targets |-> new, latest |-> FALSE]],
                   lost' = lost \ {s}
            PROVE  CacheInv'
        <4>1. /\ selector'[s] = "proxy" /\ targets'[s] = AsStored(s, new)
              /\ lister'[s] = [selector |-> "proxy", targets |-> new, latest |-> FALSE]
              /\ \A t \in Services \ {s} : /\ selector'[t] = selector[t]
                                           /\ targets'[t] = targets[t]
                                           /\ lister'[t] = lister[t]
          BY <3>1, <3>3, <3>6
        <4>2. ASSUME NEW t \in Services \ lost'
              PROVE  selector'[t] \in {"app", "proxy"} /\ InStep(t, lister[t])'
          <5>1. CASE t = s
            BY <4>1, <5>1 DEF InStep
          <5>2. CASE t # s
            <6>1. t \notin lost /\ selector[t] \in {"app", "proxy"} /\ InStep(t, lister[t])
              BY <1>2, <3>6, <4>2, <5>2 DEF CacheInv
            <6> QED
              BY <4>1, <5>2, <6>1 DEF InStep
          <5> QED
            BY <5>1, <5>2
        <4>3. ASSUME NEW t \in DOMAIN held, held' = held
              PROVE  ~held[t].latest /\ (t \notin lost' => InStep(t, held[t])')
          <5>1. t # s /\ t \in Services
            BY <3>3, <3>4, <3>6
          <5>2. ~held[t].latest /\ (t \notin lost => InStep(t, held[t]))
            BY <1>2 DEF CacheInv
          <5> QED
            BY <3>6, <4>1, <4>3, <5>1, <5>2 DEF InStep
        <4>4. held' = <<>> => DOMAIN held' = {}
          OBVIOUS
        <4> QED
          BY <3>2, <4>2, <4>3, <4>4 DEF CacheInv
      <3>7. ASSUME NEW o \in Objects(s), lister' = [lister EXCEPT ![s] = o],
                   lost' = lost \cup {s}, UNCHANGED <<selector, targets>>
            PROVE  CacheInv'
        <4>1. \A t \in Services \ {s} : lister'[t] = lister[t]
          BY <3>1, <3>3, <3>7
        <4> QED
          BY <2>1, <3>2, <3>7, <4>1 DEF Kept
      <3> QED
        BY <3>1, <3>5, <3>6, <3>7
    <2>6. ASSUME NEW s \in Services, RefreshService(s)
          PROVE  CacheInv'
      <3>1. /\ ~lister[s].latest /\ lister' = [lister EXCEPT ![s] = Stored[s]]
            /\ UNCHANGED <<selector, targets, lost>>
            /\ \/ held' = held
               \/ held' = [t \in DOMAIN held \cup {s} |-> inCluster(t)]
        BY <2>6 DEF RefreshService
      <3>2. lister = [t \in Services |-> lister[t]] /\ DOMAIN held \subseteq Services
        BY <1>2 DEF TypeOK, ServicesOK, Copies
      <3>3. ASSUME NEW t \in Services \ lost'
            PROVE  selector'[t] \in {"app", "proxy"} /\ InStep(t, lister[t])'
        <4>1. t \notin lost /\ InStep(t, Stored[t]) /\ InStep(t, lister[t])
              /\ selector[t] \in {"app", "proxy"}
          BY <1>2, <2>2, <3>1, <3>3 DEF CacheInv
        <4>2. lister'[t] \in {lister[t], Stored[t]}
          BY <3>1, <3>2
        <4> QED
          BY <3>1, <4>1, <4>2 DEF InStep
      <3>4. ASSUME NEW t \in DOMAIN held'
            PROVE  ~held'[t].latest /\ (t \notin lost' => InStep(t, held[t])')
        <4>1. CASE t \in DOMAIN held
          <5>1. held'[t] = held[t]
            BY <3>1, <4>1 DEF inCluster
          <5>2. ~held[t].latest /\ (t \notin lost => InStep(t, held[t]))
            BY <1>2, <4>1 DEF CacheInv
          <5> QED
            BY <3>1, <5>1, <5>2 DEF InStep
        <4>2. CASE t \notin DOMAIN held
          <5>1. t = s /\ held'[t] = lister[s]
            BY <3>1, <3>4, <4>2 DEF inCluster
          <5>2. t \notin lost => InStep(t, lister[s])
            BY <1>2, <5>1 DEF CacheInv
          <5> QED
            BY <3>1, <5>1, <5>2 DEF InStep
        <4> QED
          BY <4>1, <4>2
      <3> QED
        BY <3>3, <3>4 DEF CacheInv
    <2>7. CASE Restart
      <3>1. lister' = Stored /\ held' = <<>> /\ UNCHANGED <<selector, targets, lost>>
        BY <2>7 DEF Restart
      <3>2. DOMAIN held' = {}
        BY <3>1
      <3>3. ASSUME NEW t \in Services \ lost'
            PROVE  selector'[t] \in {"app", "proxy"} /\ InStep(t, lister[t])'
        <4>1. InStep(t, Stored[t]) /\ selector[t] \in {"app", "proxy"}
          BY <1>2, <2>2, <3>1, <3>3 DEF CacheInv
        <4> QED
          BY <3>1, <4>1 DEF InStep
      <3> QED
        BY <3>2, <3>3 DEF CacheInv
    <2>8. Kept \/ updateService
      BY <1>2, StepKeeps
    <2> QED
      BY <1>2, <2>3, <2>4, <2>5, <2>6, <2>7, <2>8 DEF Next, Worker
  <1> QED
    BY <1>1, <1>2

(***************************************************************************)
(* What was reported is what clients get                                   *)
(***************************************************************************)

\* A shorter prefix of a spec is taken over when a longer one is, and stays so
\* while its services are kept.
LEMMA TakenFrame ==
    ASSUME NEW sp, NEW n, Taken(sp, n), Kept,
           \A i \in DOMAIN sp : sp[i].service \in Services
    PROVE  Taken(sp, n)'
  BY DEF Taken, Kept

\* Passing the n-th service of a spec leaves the earlier ones taken over.
LEMMA TakenStep ==
    ASSUME NEW sp \in Specs, NEW n \in DOMAIN sp,
           \A i \in DOMAIN sp : sp[i].service \in Services,
           Taken(sp, n), Passed(sp, n)
    PROVE  Taken(sp, n + 1)'
  <1>1. ASSUME NEW i \in DOMAIN sp, i < n + 1, sp[i].service \notin lost',
               NEW a \in DOMAIN sp[i].ports
        PROVE  /\ selector'[sp[i].service] = "proxy"
               /\ \A p \in Rendered[sp[i].service] :
                    p.port = sp[i].ports[a].port
                    /\ p.protocol = L4(sp[i].ports[a].protocol)
                       => targets'[sp[i].service][p] = upsteamPort(sp, <<i, a>>)
    <2>0. i \in Nat /\ n \in Nat
      BY SpecShape
    <2>1. CASE i = n
      <3>1. PICK old \in [Rendered[sp[n].service] -> Nat] :
                /\ selector'[sp[n].service] = "proxy"
                /\ targets'[sp[n].service]
                     = AsStored(sp[n].service, patchTargetPort(sp, n, sp[n].service, old))
        BY <1>1, <2>1 DEF Passed
      <3> QED
        BY <2>1, <3>1, <1>1, PatchListed
    <2>2. CASE i # n
      <3>1. i < n
        BY <2>0, <2>2, <1>1
      <3>2. sp[i].service # sp[n].service /\ sp[i].service \in Services
        BY <2>2, SpecsAssumption
      <3>3. /\ sp[i].service \notin lost
            /\ selector'[sp[i].service] = selector[sp[i].service]
            /\ targets'[sp[i].service] = targets[sp[i].service]
        BY <1>1, <3>2 DEF Passed
      <3>4. /\ selector[sp[i].service] = "proxy"
            /\ \A p \in Rendered[sp[i].service] :
                 p.port = sp[i].ports[a].port
                 /\ p.protocol = L4(sp[i].ports[a].protocol)
                    => targets[sp[i].service][p] = upsteamPort(sp, <<i, a>>)
        BY <3>1, <3>3 DEF Taken
      <3> QED
        BY <3>3, <3>4
    <2> QED
      BY <2>1, <2>2
  <1> QED
    BY <1>1 DEF Taken

\* A whole spec is taken over as asked when another with an equal config is.
LEMMA TakenByEqual ==
    ASSUME NEW sp \in Specs, NEW sp2 \in Specs,
           getUpsteamService(sp2) = getUpsteamService(sp),
           Taken(sp, Len(sp) + 1)
    PROVE  Taken(sp2, Len(sp2) + 1)
  <1>1. ASSUME NEW i \in DOMAIN sp2, sp2[i].service \notin lost, NEW a \in DOMAIN sp2[i].ports
        PROVE  /\ selector[sp2[i].service] = "proxy"
               /\ \A p \in Rendered[sp2[i].service] :
                    p.port = sp2[i].ports[a].port
                    /\ p.protocol = L4(sp2[i].ports[a].protocol)
                       => targets[sp2[i].service][p] = upsteamPort(sp2, <<i, a>>)
    <2> DEFINE e2 == <<i, a>>
    <2>1. e2 \in Entries(sp2) /\ PortAt(sp2, e2) = sp2[i].ports[a] /\ e2[1] = i
      BY EntryIntro
    <2>2. PICK e \in Entries(sp) :
              /\ sp[e[1]].service = sp2[i].service
              /\ PortAt(sp, e).port = sp2[i].ports[a].port
              /\ L4(PortAt(sp, e).protocol) = L4(sp2[i].ports[a].protocol)
              /\ upsteamPort(sp, e) = upsteamPort(sp2, e2)
      <3> HIDE DEF e2
      <3>1. PICK e \in Entries(sp) :
              /\ sp[e[1]].service = sp2[e2[1]].service
              /\ PortAt(sp, e).port = PortAt(sp2, e2).port
              /\ L4(PortAt(sp, e).protocol) = L4(PortAt(sp2, e2).protocol)
              /\ upsteamPort(sp, e) = upsteamPort(sp2, e2)
        BY <2>1, SameListing
      <3> QED
        BY <2>1, <3>1
    <2>3. /\ e[1] \in DOMAIN sp /\ e[1] < Len(sp) + 1
          /\ e[2] \in DOMAIN sp[e[1]].ports /\ e = <<e[1], e[2]>>
          /\ PortAt(sp, e) = sp[e[1]].ports[e[2]]
      BY EntryShape, SpecShape DEF PortAt
    <2> QED
      BY <1>1, <2>2, <2>3 DEF Taken
  <1> QED
    BY <1>1 DEF Taken

\* A spec all of whose services are rendered: the one the worker is at, and
\* the one reported Available.
AvailableKnown ==
    available # Nil => \A i \in DOMAIN available : available[i].service \in Services

LEMMA AvailableKnownInductive ==
    /\ Init => AvailableKnown
    /\ TypeOK /\ KnownServices /\ AvailableKnown /\ [Next]_vars => AvailableKnown'
  <1>1. Init => AvailableKnown
    BY DEF Init, AvailableKnown
  <1>2. ASSUME TypeOK, KnownServices, AvailableKnown, [Next]_vars
        PROVE  AvailableKnown'
    <2>1. \/ available' = available
          \/ w.pc \in {"patchManifest", "update"} /\ available' = w.spec
      <3>1. ASSUME Retry \/ Fault \/ Next1 \/ \E label \in Pcs : Goto(label)
            PROVE  available' = available
        BY <3>1 DEF Retry, Fault, Next1, Goto
      <3>2. "updateObjects" \in Pcs /\ "patchManifest" \in Pcs /\ "createForked" \in Pcs
            /\ "update" \in Pcs
        BY DEF Pcs
      <3>3. CASE renderService \/ updateObjects \/ createForked \/ OnUpdate \/ updateService
        BY <3>1, <3>2, <3>3 DEF renderService, updateObjects, createForked, OnUpdate, updateService
      <3>4. CASE patchManifest
        BY <3>1, <3>2, <3>4 DEF patchManifest, Done
      <3>5. CASE setRunningConfig
        BY <3>5 DEF setRunningConfig, Done
      <3>6. CASE syncCanaryRelease \/ Edit \/ Restart \/ \E s \in Services : RefreshService(s)
        BY <3>6 DEF syncCanaryRelease, Edit, Restart, RefreshService
      <3>7. CASE UNCHANGED vars
        BY <3>7 DEF vars
      <3> QED
        BY <1>2, <3>3, <3>4, <3>5, <3>6, <3>7 DEF Next, Worker
    <2> QED
      BY <1>2, <2>1 DEF AvailableKnown, KnownServices
  <1> QED
    BY <1>1, <1>2

\* The steps other than a reload, an Update and a report leave what SyncInv and
\* SettledInv speak of: how the worker goes on from them.
LEMMA QuietSteps ==
    ASSUME TypeOK, KnownServices, [Next]_vars, ~OnUpdate, ~updateService, ~setRunningConfig,
           ~Restart
    PROVE  /\ UNCHANGED <<nginx, runningConfig>>
           /\ \/ UNCHANGED <<w, available>>
              \/ /\ w.pc # "update" /\ w'.pc \notin {"createForked", "update"}
                 /\ available' = available
              \/ /\ w.pc = "createForked" /\ w'.pc = "createForked" /\ w'.spec = w.spec
                 /\ available' = available
              \/ /\ w.pc = "patchManifest" /\ w'.pc = "createForked" /\ w'.spec = w.spec
                 /\ available' = available
                 /\ ~(runningConfig # Nil /\ Equal(runningConfig, getUpsteamService(w.spec)))
              \/ /\ w.pc = "patchManifest" /\ w'.pc = "idle" /\ available' = w.spec
                 /\ runningConfig # Nil /\ Equal(runningConfig, getUpsteamService(w.spec))
  <1>0. w \in Workers /\ \A sp : Idle(sp).pc = "idle" /\ Idle(sp).spec = sp
    BY DEF TypeOK, WorkerOK, Idle
  <1>1. ASSUME Retry \/ Fault
        PROVE  w'.pc = "idle" /\ available' = available
    BY <1>0, <1>1 DEF Retry, Fault
  <1>2. ASSUME NEW label, Goto(label)
        PROVE  w'.pc = label /\ w'.spec = w.spec /\ available' = available
    BY <1>0, <1>2 DEF Goto, Workers
  <1>3. CASE syncCanaryRelease
    BY <1>3 DEF syncCanaryRelease
  <1>4. CASE renderService
    BY <1>1, <1>2, <1>4 DEF renderService
  <1>5. CASE updateObjects
    BY <1>1, <1>2, <1>5 DEF updateObjects
  <1>6. CASE patchManifest
    <2>1. Done => w'.pc = "idle" /\ available' = w.spec
      BY <1>0 DEF Done
    <2> QED
      BY <1>1, <1>2, <1>6, <2>1 DEF patchManifest
  <1>7. CASE createForked
    <2>1. w.pc = "createForked" /\ UNCHANGED <<nginx, runningConfig>> /\ (Next1 \/ Fault)
      BY <1>7 DEF createForked
    <2>2. CASE Next1
      <3>1. w'.pc = w.pc /\ w'.spec = w.spec /\ available' = available
        BY <1>0, <2>2 DEF Next1, Workers
      <3> QED
        BY <2>1, <3>1
    <2> QED
      BY <1>1, <2>1, <2>2
  <1>8. CASE Edit \/ \E s \in Services : RefreshService(s)
    BY <1>8 DEF Edit, RefreshService
  <1>9. CASE UNCHANGED vars
    BY <1>9 DEF vars
  <1> QED
    BY <1>3, <1>4, <1>5, <1>6, <1>7, <1>8, <1>9 DEF Next, Worker

\* SyncInv holds at first and is kept by every step.
LEMMA SyncInductive ==
    /\ Init => SyncInv
    /\ TypeOK /\ KnownServices /\ AvailableKnown /\ CacheInv /\ SyncInv /\ [Next]_vars => SyncInv'
  <1>1. Init => SyncInv
    BY DEF Init, SyncInv, Idle
  <1>2. ASSUME TypeOK, KnownServices, AvailableKnown, CacheInv, SyncInv, [Next]_vars
        PROVE  SyncInv'
    <2>0. /\ w \in Workers /\ w.spec \in Specs /\ w.i \in Nat \ {0}
          /\ available \in Specs \cup {Nil} /\ runningConfig \in Configs \cup {Nil}
          /\ getUpsteamService(w.spec) \in Configs
          /\ \A sp : Idle(sp).pc = "idle" /\ Idle(sp).spec = sp
      BY <1>2 DEF TypeOK, WorkerOK, ConfigsOK, Workers, Idle, Configs
    <2>1. CASE ~OnUpdate /\ ~updateService /\ ~setRunningConfig /\ ~Restart
      <3>1. Kept
        BY <1>2, <2>1, StepKeeps
      <3>2. UNCHANGED <<nginx, runningConfig>>
        BY <1>2, <2>1, QuietSteps
      <3>3. ASSUME available # Nil, Taken(available, Len(available) + 1), available' = available
            PROVE  Taken(available, Len(available) + 1)'
        <4>1. ASSUME NEW av, NEW n, av = available, n = Len(av) + 1
              PROVE  Taken(av, n)'
          BY <1>2, <3>1, <3>3, <4>1, TakenFrame DEF AvailableKnown
        <4> QED
          BY <3>3, <4>1 DEF Taken
      <3>4. ASSUME w.spec = w'.spec, w.pc \notin {"idle", "render"}, Taken(w.spec, w.i), w'.i = w.i
            PROVE  Taken(w.spec, w.i)'
        <4>1. ASSUME NEW sp, NEW n, sp = w.spec, n = w.i
              PROVE  Taken(sp, n)'
          BY <1>2, <3>1, <3>4, <4>1, TakenFrame DEF KnownServices
        <4> QED
          BY <3>4, <4>1 DEF Taken
      <3>5. CASE UNCHANGED <<w, available>>
        BY <1>2, <3>2, <3>3, <3>4, <3>5 DEF SyncInv
      <3>6. CASE /\ w.pc # "update" /\ w'.pc \notin {"createForked", "update"}
                 /\ available' = available
        BY <1>2, <3>2, <3>3, <3>6 DEF SyncInv
      <3>7. CASE /\ w.pc = "createForked" /\ w'.pc = "createForked" /\ w'.spec = w.spec
                 /\ available' = available
        BY <1>2, <3>2, <3>3, <3>7 DEF SyncInv
      <3>8. CASE /\ w.pc = "patchManifest" /\ w'.pc = "createForked" /\ w'.spec = w.spec
                 /\ available' = available
                 /\ ~(runningConfig # Nil /\ Equal(runningConfig, getUpsteamService(w.spec)))
        <4>1. runningConfig # getUpsteamService(w.spec)
          <5>1. \A c : Equal(c, c)
            BY DEF Equal, L4Equal
          <5> QED
            BY <2>0, <3>8, <5>1, NilConfigAssumption
        <4> QED
          BY <1>2, <3>2, <3>3, <3>8, <4>1 DEF SyncInv
      <3>9. CASE /\ w.pc = "patchManifest" /\ w'.pc = "idle" /\ available' = w.spec
                 /\ runningConfig # Nil /\ Equal(runningConfig, getUpsteamService(w.spec))
        <4>1. ASSUME nginx = runningConfig
              PROVE  nginx = getUpsteamService(w.spec) /\ Taken(w.spec, Len(w.spec) + 1)
          <5>1. /\ available \in Specs /\ nginx = getUpsteamService(available)
                /\ Taken(available, Len(available) + 1)
            BY <1>2, <2>0, <3>9, <4>1 DEF SyncInv
          <5>2. nginx = getUpsteamService(w.spec)
            BY <2>0, <3>9, <4>1, <5>1, EqualConfigsAreEqual
          <5> QED
            BY <2>0, <5>1, <5>2, TakenByEqual
        <4>2. ASSUME nginx = runningConfig
              PROVE  Taken(available, Len(available) + 1)'
          <5>1. ASSUME NEW sp, NEW n, sp = w.spec, n = Len(sp) + 1
                PROVE  Taken(sp, n)'
            BY <1>2, <3>1, <3>9, <4>1, <4>2, <5>1, TakenFrame DEF KnownServices
          <5> QED
            BY <3>9, <5>1 DEF Taken
        <4>3. available' # Nil
          BY <2>0, <3>9, NilAssumption
        <4> QED
          BY <3>2, <3>9, <4>1, <4>2, <4>3 DEF SyncInv
      <3> QED
        BY <1>2, <2>1, <3>5, <3>6, <3>7, <3>8, <3>9, QuietSteps
    <2>2. CASE OnUpdate
      <3>0. w.pc = "createForked" /\ UNCHANGED <<selector, targets, lost, runningConfig, available>>
        BY <2>2 DEF OnUpdate, services, Goto, Retry, Fault
      <3>1. CASE (Retry \/ Fault) /\ UNCHANGED nginx
        <4>1. w'.pc = "idle"
          BY <2>0, <3>1 DEF Retry, Fault
        <4> QED
          BY <1>2, <3>0, <3>1, <4>1 DEF SyncInv, Taken
      <3>2. CASE Goto("update") /\ nginx' = getUpsteamService(w.spec)
        <4>1. w'.pc = "update" /\ w'.i = 1 /\ w'.spec = w.spec
          BY <2>0, <3>2 DEF Goto, Workers
        <4>2. Taken(w.spec, w.i)'
          <5>1. \A i \in DOMAIN w.spec : ~(i < 1)
            BY <2>0, SpecShape
          <5> QED
            BY <5>1, <4>1 DEF Taken
        <4>3. runningConfig # getUpsteamService(w.spec)
          BY <1>2, <3>0 DEF SyncInv
        <4> QED
          BY <3>0, <3>2, <4>1, <4>2, <4>3 DEF SyncInv
      <3> QED
        BY <2>2, <3>1, <3>2 DEF OnUpdate
    <2>3. CASE updateService
      <3>1. /\ w.pc = "update" /\ w.i \in DOMAIN w.spec
            /\ UNCHANGED <<nginx, runningConfig>>
            /\ Next1 \/ Retry \/ Fault
        BY <2>3 DEF updateService
      <3>2. /\ nginx = getUpsteamService(w.spec) /\ runningConfig # nginx
            /\ Taken(w.spec, w.i)
        BY <1>2, <3>1 DEF SyncInv
      <3>3. CASE Retry \/ Fault
        <4>1. w'.pc = "idle"
          BY <2>0, <3>3 DEF Retry, Fault
        <4> QED
          BY <3>1, <3>2, <4>1 DEF SyncInv
      <3>4. CASE Next1
        <4>1. w'.pc = "update" /\ w'.i = w.i + 1 /\ w'.spec = w.spec
          BY <2>0, <3>1, <3>4 DEF Next1, Workers
        <4>2. ASSUME NEW sp, NEW n, sp = w.spec, n = w.i
              PROVE  Taken(sp, n + 1)'
          <5>1. \A i \in DOMAIN sp : sp[i].service \in Services
            BY <1>2, <3>1, <4>2 DEF KnownServices
          <5>2. Passed(sp, n)
            BY <1>2, <2>3, <4>2, StepPasses DEF Passed
          <5> QED
            BY <2>0, <3>1, <3>2, <4>2, <5>1, <5>2, TakenStep
        <4>3. Taken(w.spec, w.i)'
          BY <4>1, <4>2 DEF Taken
        <4> QED
          BY <3>1, <3>2, <4>1, <4>3 DEF SyncInv
      <3> QED
        BY <3>1, <3>3, <3>4
    <2>4. CASE setRunningConfig
      <3>1. /\ w.pc = "update" /\ w.i \notin DOMAIN w.spec
            /\ w'.pc = "idle" /\ available' = w.spec
            /\ runningConfig' = getUpsteamService(w.spec)
            /\ UNCHANGED <<nginx, selector, targets, lost>>
        BY <2>0, <2>4 DEF setRunningConfig, Done, services
      <3>2. nginx = getUpsteamService(w.spec) /\ Taken(w.spec, w.i)
        BY <1>2, <3>1 DEF SyncInv
      <3>3. \A i \in DOMAIN w.spec : i < w.i
        BY <2>0, <3>1, SpecShape
      <3>4. Taken(w.spec, Len(w.spec) + 1)
        BY <3>2, <3>3 DEF Taken
      <3>5. Taken(available, Len(available) + 1)'
        BY <3>1, <3>4 DEF Taken
      <3>6. available' # Nil
        BY <2>0, <3>1, NilAssumption
      <3> QED
        BY <3>1, <3>2, <3>5, <3>6 DEF SyncInv
    <2>5. CASE Restart
      BY <2>0, <2>5 DEF Restart, SyncInv
    <2> QED
      BY <2>1, <2>2, <2>3, <2>4, <2>5
  <1> QED
    BY <1>1, <1>2

LEMMA SplitFromSync == TypeOK /\ SyncInv => SplitAsAsked
  <1> SUFFICES ASSUME TypeOK, SyncInv, w.pc = "idle", runningConfig # Nil,
                      nginx = runningConfig
               PROVE  /\ available # Nil
                      /\ \A e \in Entries(available) :
                           LET s == available[e[1]].service
                               listed == PortAt(available, e)
                           IN  s \notin lost =>
                                 /\ selector[s] = "proxy"
                                 /\ \A p \in Rendered[s] :
                                      p.port = listed.port /\ p.protocol = L4(listed.protocol) =>
                                         \E b \in nginx :
                                            /\ Listeners(s, p) = {b}
                                            /\ b.endpoints = Split(available, e)
    BY DEF SplitAsAsked
  <1>1. /\ available # Nil /\ available \in Specs
        /\ nginx = getUpsteamService(available)
        /\ Taken(available, Len(available) + 1)
    BY DEF TypeOK, ConfigsOK, SyncInv
  <1>2. ASSUME NEW e \in Entries(available), available[e[1]].service \notin lost
        PROVE  LET s == available[e[1]].service
                   listed == PortAt(available, e)
               IN  /\ selector[s] = "proxy"
                   /\ \A p \in Rendered[s] :
                        p.port = listed.port /\ p.protocol = L4(listed.protocol) =>
                           /\ Listeners(s, p) = {L4Service(available, e)}
                           /\ L4Service(available, e) \in nginx
                           /\ L4Service(available, e).endpoints = Split(available, e)
    <2> DEFINE s == available[e[1]].service
               listed == PortAt(available, e)
               b == L4Service(available, e)
    <2>1. /\ e[1] \in DOMAIN available /\ e[1] < Len(available) + 1
          /\ e[2] \in DOMAIN available[e[1]].ports /\ e = <<e[1], e[2]>>
          /\ listed = available[e[1]].ports[e[2]]
      BY <1>1, EntryShape, SpecShape DEF PortAt
    <2>2. selector[s] = "proxy"
      BY <1>1, <1>2, <2>1 DEF Taken
    <2>3. ASSUME NEW p \in Rendered[s], p.port = listed.port, p.protocol = L4(listed.protocol)
          PROVE  Listeners(s, p) = {b}
      <3>1. targets[s][p] = upsteamPort(available, e)
        BY <1>1, <1>2, <2>1, <2>3 DEF Taken
      <3>2. b.port = upsteamPort(available, e) /\ b.protocol = L4(listed.protocol)
            /\ b \in nginx
        BY <1>1 DEF L4Service, getUpsteamService
      <3>3. L4(p.protocol) = L4(listed.protocol)
        BY <2>3 DEF L4
      <3>4. ASSUME NEW b2 \in nginx, b2.port = upsteamPort(available, e)
            PROVE  b2 = b
        <4>1. PICK e2 \in Entries(available) : b2 = L4Service(available, e2)
          BY <1>1 DEF getUpsteamService
        <4>2. upsteamPort(available, e2) = upsteamPort(available, e)
          BY <3>4, <4>1 DEF L4Service
        <4> QED
          BY <1>1, <4>1, <4>2, UpstreamPortsDistinct
      <3> HIDE DEF s, b, listed
      <3> QED
        BY <3>1, <3>2, <3>3, <3>4 DEF Listeners
    <2>4. b \in nginx /\ b.endpoints = Split(available, e)
      BY <1>1 DEF getUpsteamService, Split
    <2> HIDE DEF b
    <2> QED
      BY <2>2, <2>3, <2>4 DEF b
  <1> QED
    BY <1>1, <1>2

\* What was reported Available is what clients get while nginx runs it, for
\* every set of services and specs: each listed port reaches one listener,
\* which has both copies of its own service with the weights asked for, unless
\* the last Update of the service failed (proxy.go 553-619).
THEOREM SplitIsAsAsked == Spec => []SplitAsAsked
  <1>1. Spec => [](TypeOK /\ KnownServices)
    BY TypeCorrect
  <1>2. Init => CacheInv /\ AvailableKnown /\ SyncInv
    BY CacheInductive, AvailableKnownInductive, SyncInductive
  <1>3. TypeOK /\ KnownServices /\ CacheInv /\ AvailableKnown /\ SyncInv /\ [Next]_vars =>
          CacheInv' /\ AvailableKnown' /\ SyncInv'
    BY CacheInductive, AvailableKnownInductive, SyncInductive
  <1>4. TypeOK /\ SyncInv => SplitAsAsked
    BY SplitFromSync
  <1> QED
    BY <1>1, <1>2, <1>3, <1>4, PTL DEF Spec

(***************************************************************************)
(* No edit is forgotten                                                    *)
(***************************************************************************)

LEMMA RestInductive ==
    /\ Init => RestInv
    /\ TypeOK /\ RestInv /\ [Next]_vars => RestInv'
  <1>1. Init => RestInv
    BY DEF Init, RestInv
  <1>2. ASSUME TypeOK, RestInv, [Next]_vars
        PROVE  RestInv'
    <2>0. w \in Workers /\ \A sp : Idle(sp).pc = "idle"
      BY <1>2 DEF TypeOK, WorkerOK, Idle
    <2>1. ASSUME UNCHANGED spec, w.pc # "idle",
                 Retry \/ Done \/ Fault \/ Next1
                 \/ \E label \in Pcs \ {"idle"} : Goto(label)
          PROVE  RestInv'
      <3>1. CASE Retry \/ Fault
        <4>1. w'.pc = "idle"
          BY <2>0, <3>1 DEF Retry, Fault
        <4>2. queue' # {} \/ dropped'
          BY <3>1 DEF Retry, Fault
        <4> QED
          BY <4>1, <4>2 DEF RestInv
      <3>2. CASE Done
        <4>1. w'.pc = "idle" /\ available' = w.spec /\ queue' = queue
          BY <2>0, <3>2 DEF Done
        <4> QED
          BY <1>2, <2>1, <4>1 DEF RestInv
      <3>3. CASE Next1 \/ \E label \in Pcs \ {"idle"} : Goto(label)
        <4>1. w'.pc # "idle" /\ w'.spec = w.spec
          BY <2>0, <2>1, <3>3 DEF Next1, Goto, Workers
        <4>2. queue' = queue
          BY <3>3 DEF Next1, Goto, items
        <4> QED
          BY <1>2, <2>1, <4>1, <4>2 DEF RestInv
      <3> QED
        BY <2>1, <3>1, <3>2, <3>3
    <2>2. \A label \in {"updateObjects", "patchManifest", "createForked", "update"} :
             label \in Pcs \ {"idle"}
      BY DEF Pcs
    <2>3. CASE syncCanaryRelease
      <3>1. w'.pc = "render" /\ w'.spec = spec /\ spec' = spec
        BY <2>3 DEF syncCanaryRelease
      <3> QED
        BY <3>1 DEF RestInv
    <2>4. CASE renderService
      BY <2>1, <2>2, <2>4 DEF renderService
    <2>5. CASE updateObjects
      BY <2>1, <2>2, <2>5 DEF updateObjects
    <2>6. CASE patchManifest
      BY <2>1, <2>2, <2>6 DEF patchManifest
    <2>7. CASE createForked
      BY <2>1, <2>7 DEF createForked
    <2>8. CASE OnUpdate
      BY <2>1, <2>2, <2>8 DEF OnUpdate
    <2>9. CASE updateService
      BY <2>1, <2>9 DEF updateService
    <2>10. CASE setRunningConfig
      BY <2>1, <2>10 DEF setRunningConfig
    <2>11. CASE Edit
      <3>1. 0 \in queue'
        BY <2>11 DEF Edit, noticed
      <3> QED
        BY <3>1 DEF RestInv
    <2>12. CASE Restart
      BY <2>12 DEF Restart, RestInv
    <2>13. CASE UNCHANGED vars \/ \E s \in Services : RefreshService(s)
      <3>1. UNCHANGED <<queue, dropped, w, available, spec>>
        BY <2>13 DEF vars, items, RefreshService
      <3> QED
        BY <1>2, <3>1, Zenon DEF RestInv
    <2> QED
      BY <1>2, <2>3, <2>4, <2>5, <2>6, <2>7, <2>8, <2>9, <2>10, <2>11, <2>12, <2>13
         DEF Next, Worker
  <1> QED
    BY <1>1, <1>2

\* When the proxy rests, the stored spec is the one it reported, unless its
\* item was dropped after all its retries: neither an edit in the middle of a
\* sync, a retry nor the comparison with the running config loses it (proxy.go
\* 259-279, 553-619, queue.go 212-239).
THEOREM NoEditIsForgotten == Spec => []RestIsUpToDate
  <1>1. Spec => [](TypeOK /\ KnownServices)
    BY TypeCorrect
  <1>2. Init => RestInv
    BY RestInductive
  <1>3. TypeOK /\ RestInv /\ [Next]_vars => RestInv'
    BY RestInductive
  <1>4. RestInv => RestIsUpToDate
    BY DEF RestInv, RestIsUpToDate
  <1> QED
    BY <1>1, <1>2, <1>3, <1>4, PTL DEF Spec

(***************************************************************************)
(* A change of weights alone moves nothing                                 *)
(***************************************************************************)

\* The target ports depend on the spec only through the numbers it gives to
\* the listed ports.
LEMMA PatchByNumbers ==
    ASSUME NEW sp, NEW i, NEW sp2, NEW j, NEW s, NEW old,
           \A key : protoPort2upstreamPort(sp, i, key) = protoPort2upstreamPort(sp2, j, key)
    PROVE  patchTargetPort(sp, i, s, old) = patchTargetPort(sp2, j, s, old)
  <1>1. \A p : newTargetPort(sp, i, p) = newTargetPort(sp2, j, p)
    BY DEF newTargetPort
  <1> QED
    BY <1>1 DEF patchTargetPort

\* At most one port of a service is listed under a key of its
\* protoPort2upstreamPort.
LEMMA ListedOnce ==
    ASSUME NEW sp \in Specs, NEW i \in DOMAIN sp, NEW key,
           NEW a \in ListedUnder(sp, i, key)
    PROVE  /\ a \in DOMAIN sp[i].ports
           /\ protoPort2upstreamPort(sp, i, key) = upsteamPort(sp, <<i, a>>)
  <1>1. a \in DOMAIN sp[i].ports
        /\ <<L4(sp[i].ports[a].protocol), sp[i].ports[a].port>> = key
    BY DEF ListedUnder, protoPortKey
  <1>2. ASSUME NEW b \in ListedUnder(sp, i, key)
        PROVE  b = a
    <2>1. b \in DOMAIN sp[i].ports
          /\ <<L4(sp[i].ports[b].protocol), sp[i].ports[b].port>> = key
      BY <1>2 DEF ListedUnder, protoPortKey
    <2> QED
      BY <1>1, <2>1, SpecsAssumption
  <1>3. (CHOOSE x \in ListedUnder(sp, i, key) : TRUE) = a
    BY <1>2
  <1> QED
    BY <1>1, <1>3 DEF protoPort2upstreamPort

\* Specs that differ in weights alone number their ports alike.
LEMMA SamePortsSameNumbers ==
    ASSUME NEW sp \in Specs, NEW sp2 \in Specs, SamePorts(sp, sp2),
           NEW i \in DOMAIN sp, NEW key
    PROVE  protoPort2upstreamPort(sp, i, key) = protoPort2upstreamPort(sp2, i, key)
  <1>1. Entries(sp) = Entries(sp2)
    BY DEF Entries, SamePorts
  <1>2. ASSUME NEW e \in Entries(sp)
        PROVE  PortAt(sp, e).port = PortAt(sp2, e).port
    <2>1. e[1] \in DOMAIN sp /\ e[2] \in DOMAIN sp[e[1]].ports
      BY EntryShape
    <2> QED
      BY <2>1 DEF PortAt, SamePorts
  <1>3. \A e, f \in Entries(sp) : Before(sp, e, f) <=> Before(sp2, e, f)
    BY <1>2 DEF Before
  <1>4. ASSUME NEW e \in Entries(sp)
        PROVE  upsteamPort(sp, e) = upsteamPort(sp2, e)
    <2>1. {f \in Entries(sp) : Before(sp, f, e)} = {f \in Entries(sp2) : Before(sp2, f, e)}
      BY <1>1, <1>3
    <2> QED
      BY <2>1 DEF upsteamPort
  <1>5. ListedUnder(sp, i, key) = ListedUnder(sp2, i, key)
    BY DEF ListedUnder, SamePorts
  <1>6. CASE ListedUnder(sp, i, key) = {}
    BY <1>5, <1>6 DEF protoPort2upstreamPort
  <1>7. CASE ListedUnder(sp, i, key) # {}
    <2>1. PICK a : a \in ListedUnder(sp, i, key)
      BY <1>7
    <2>2. i \in DOMAIN sp2 /\ a \in ListedUnder(sp2, i, key)
      BY <1>5, <2>1 DEF SamePorts
    <2>3. <<i, a>> \in Entries(sp)
      BY <2>1, ListedOnce, EntryIntro
    <2> QED
      BY <2>1, <2>2, <2>3, <1>4, ListedOnce
  <1> QED
    BY <1>6, <1>7

\* What one of two equal configs lists under a key the other does, with the
\* same number.
LEMMA EqualListed ==
    ASSUME NEW sp \in Specs, NEW sp2 \in Specs,
           getUpsteamService(sp) = getUpsteamService(sp2),
           NEW i \in DOMAIN sp, NEW j \in DOMAIN sp2, sp[i].service = sp2[j].service,
           NEW key, NEW a \in ListedUnder(sp, i, key)
    PROVE  \E b \in ListedUnder(sp2, j, key) :
              protoPort2upstreamPort(sp2, j, key) = protoPort2upstreamPort(sp, i, key)
  <1> DEFINE e == <<i, a>>
  <1>1. /\ a \in DOMAIN sp[i].ports
        /\ protoPort2upstreamPort(sp, i, key) = upsteamPort(sp, e)
        /\ protoPortKey(L4(sp[i].ports[a].protocol), sp[i].ports[a].port) = key
    BY ListedOnce DEF ListedUnder
  <1>2. e \in Entries(sp) /\ PortAt(sp, e) = sp[i].ports[a] /\ e[1] = i
    BY <1>1, EntryIntro
  <1>3. PICK e2 \in Entries(sp2) :
            /\ sp2[e2[1]].service = sp[i].service
            /\ PortAt(sp2, e2).port = sp[i].ports[a].port
            /\ L4(PortAt(sp2, e2).protocol) = L4(sp[i].ports[a].protocol)
            /\ upsteamPort(sp2, e2) = upsteamPort(sp, e)
    <2> HIDE DEF e
    <2>1. PICK e2 \in Entries(sp2) :
            /\ sp2[e2[1]].service = sp[e[1]].service
            /\ PortAt(sp2, e2).port = PortAt(sp, e).port
            /\ L4(PortAt(sp2, e2).protocol) = L4(PortAt(sp, e).protocol)
            /\ upsteamPort(sp2, e2) = upsteamPort(sp, e)
      BY <1>2, SameListing
    <2> QED
      BY <1>2, <2>1
  <1>4. e2[1] \in DOMAIN sp2 /\ e2[2] \in DOMAIN sp2[e2[1]].ports /\ e2 = <<e2[1], e2[2]>>
    BY EntryShape
  <1>5. e2[1] = j
    BY <1>3, <1>4, SpecsAssumption
  <1>6. e2[2] \in ListedUnder(sp2, j, key)
    BY <1>1, <1>3, <1>4, <1>5 DEF ListedUnder, PortAt
  <1>7. protoPort2upstreamPort(sp2, j, key) = upsteamPort(sp2, e2)
    <2>1. protoPort2upstreamPort(sp2, j, key) = upsteamPort(sp2, <<j, e2[2]>>)
      BY <1>6, ListedOnce
    <2> QED
      BY <2>1, <1>4, <1>5
  <1> HIDE DEF e
  <1> QED
    BY <1>1, <1>3, <1>6, <1>7

\* A service that one of two equal configs lists ports of has its ports under
\* the same numbers in the other.
LEMMA EqualSameNumbers ==
    ASSUME NEW sp \in Specs, NEW sp2 \in Specs,
           getUpsteamService(sp) = getUpsteamService(sp2),
           NEW j \in DOMAIN sp2, sp2[j].ports # <<>>
    PROVE  \E i \in DOMAIN sp :
              /\ sp[i].service = sp2[j].service /\ sp[i].ports # <<>>
              /\ \A key : protoPort2upstreamPort(sp, i, key)
                            = protoPort2upstreamPort(sp2, j, key)
  <1>1. 1 \in DOMAIN sp2[j].ports
    <2>1. sp2[j].ports \in Seq(CanaryPorts)
      <3>1. sp2 \in Seq(CanaryServices)
        BY SpecsAssumption
      <3>2. sp2[j] \in CanaryServices
        BY <3>1
      <3> QED
        BY <3>2 DEF CanaryServices
    <2>2. Len(sp2[j].ports) # 0
      BY <2>1
    <2> QED
      BY <2>2, SpecShape
  <1>2. <<j, 1>> \in Entries(sp2) /\ <<j, 1>>[1] = j
    BY <1>1, EntryIntro
  <1>3. PICK e \in Entries(sp) : sp[e[1]].service = sp2[j].service
    <2>1. ASSUME NEW e2 \in Entries(sp2), e2[1] = j
          PROVE  \E e \in Entries(sp) : sp[e[1]].service = sp2[j].service
      BY <2>1, SameListing
    <2> QED
      BY <1>2, <2>1
  <1>4. PICK i \in DOMAIN sp : i = e[1]
    BY EntryShape
  <1>5. sp[i].service = sp2[j].service /\ sp[i].ports # <<>>
    <2>1. e[2] \in DOMAIN sp[i].ports
      BY <1>4, EntryShape
    <2>2. DOMAIN <<>> = {}
      OBVIOUS
    <2> QED
      BY <2>1, <2>2, <1>3, <1>4
  <1>6. ASSUME NEW key
        PROVE  protoPort2upstreamPort(sp, i, key) = protoPort2upstreamPort(sp2, j, key)
    <2>1. CASE \E a : a \in ListedUnder(sp, i, key)
      BY <2>1, <1>5, EqualListed
    <2>2. CASE \E b : b \in ListedUnder(sp2, j, key)
      BY <2>2, <1>5, EqualListed
    <2>3. CASE ListedUnder(sp, i, key) = {} /\ ListedUnder(sp2, j, key) = {}
      BY <2>3 DEF protoPort2upstreamPort
    <2> QED
      BY <2>1, <2>2, <2>3
  <1> QED
    BY <1>5, <1>6

\* Of two specs that differ in weights alone, a service settled for one is
\* settled for the other.
LEMMA SettledBySamePorts ==
    ASSUME NEW sp \in Specs, NEW sp2 \in Specs, SamePorts(sp, sp2),
           NEW i \in DOMAIN sp, Settled(sp, i)
    PROVE  Settled(sp2, i)
  <1>1. sp2[i].service = sp[i].service
    BY DEF SamePorts
  <1>2. \A key : protoPort2upstreamPort(sp, i, key) = protoPort2upstreamPort(sp2, i, key)
    BY SamePortsSameNumbers
  <1>3. ASSUME NEW s, NEW old
        PROVE  patchTargetPort(sp, i, s, old) = patchTargetPort(sp2, i, s, old)
    BY <1>2, PatchByNumbers
  <1> QED
    BY <1>1, <1>3 DEF Settled

\* Of two specs with equal configs, one is settled when the other is.
LEMMA SettledByEqual ==
    ASSUME NEW sp \in Specs, NEW sp2 \in Specs,
           getUpsteamService(sp) = getUpsteamService(sp2), AllSettled(sp)
    PROVE  AllSettled(sp2)
  <1>1. ASSUME NEW j \in DOMAIN sp2, sp2[j].ports # <<>>, sp2[j].service \notin lost
        PROVE  Settled(sp2, j)
    <2>1. PICK i \in DOMAIN sp :
              /\ sp[i].service = sp2[j].service /\ sp[i].ports # <<>>
              /\ \A key : protoPort2upstreamPort(sp, i, key)
                            = protoPort2upstreamPort(sp2, j, key)
      BY <1>1, EqualSameNumbers
    <2>2. Settled(sp, i)
      BY <1>1, <2>1 DEF AllSettled
    <2>3. ASSUME NEW s, NEW old
          PROVE  patchTargetPort(sp, i, s, old) = patchTargetPort(sp2, j, s, old)
      BY <2>1, PatchByNumbers
    <2> QED
      BY <2>1, <2>2, <2>3 DEF Settled
  <1> QED
    BY <1>1 DEF AllSettled

\* What is settled stays so while its service is left alone.
LEMMA SettledKept ==
    ASSUME NEW sp, NEW i, Settled(sp, i),
           LET s == sp[i].service
           IN  selector'[s] = selector[s] /\ targets'[s] = targets[s]
    PROVE  Settled(sp, i)'
  BY DEF Settled

LEMMA AllSettledKept ==
    ASSUME NEW sp, AllSettled(sp), Kept, \A i \in DOMAIN sp : sp[i].service \in Services
    PROVE  AllSettled(sp)'
  <1>1. ASSUME NEW i \in DOMAIN sp, sp[i].ports # <<>>, sp[i].service \notin lost'
        PROVE  Settled(sp, i)'
    <2>1. LET s == sp[i].service
          IN  s \notin lost /\ selector'[s] = selector[s] /\ targets'[s] = targets[s]
      BY <1>1 DEF Kept
    <2> QED
      BY <1>1, <2>1, SettledKept DEF AllSettled
  <1> QED
    BY <1>1 DEF AllSettled

\* Passing the n-th service of a spec settles it, if it is not lost, and keeps
\* the earlier ones settled.
LEMMA SettledStep ==
    ASSUME NEW sp \in Specs, NEW n \in DOMAIN sp,
           \A i \in DOMAIN sp : sp[i].service \in Services,
           \A i \in DOMAIN sp : i < n /\ sp[i].service \notin lost => Settled(sp, i),
           Passed(sp, n),
           NEW i \in DOMAIN sp, i < n + 1, sp[i].service \notin lost'
    PROVE  Settled(sp, i)'
  <1>1. i \in Nat /\ n \in Nat
    BY SpecShape
  <1>2. CASE i = n
    <2> DEFINE s == sp[n].service
    <2>1. PICK old \in [Rendered[s] -> Nat] :
              /\ selector'[s] = "proxy"
              /\ targets'[s] = AsStored(s, patchTargetPort(sp, n, s, old))
      BY <1>2 DEF Passed
    <2>2. AsStored(s, patchTargetPort(sp, n, s, targets'[s])) = targets'[s]
      BY <2>1, PatchTwice
    <2>3. Settled(sp, n)' <=>
            selector'[s] = "proxy" /\ AsStored(s, patchTargetPort(sp, n, s, targets'[s])) = targets'[s]
      BY DEF Settled
    <2> QED
      BY <1>2, <2>1, <2>2, <2>3 DEF Settled
  <1>3. CASE i # n
    <2>1. sp[i].service # sp[n].service
      BY <1>3, SpecsAssumption
    <2>2. LET s == sp[i].service
          IN  s \notin lost /\ selector'[s] = selector[s] /\ targets'[s] = targets[s]
      BY <2>1 DEF Passed
    <2>3. Settled(sp, i)
      <3>1. i < n
        BY <1>1, <1>3
      <3> QED
        BY <2>2, <3>1
    <2> QED
      BY <2>2, <2>3, SettledKept
  <1> QED
    BY <1>2, <1>3

\* SettledInv holds at first and is kept by every step.
LEMMA SettledInductive ==
    /\ Init => SettledInv
    /\ TypeOK /\ KnownServices /\ AvailableKnown /\ CacheInv /\ SyncInv /\ SettledInv
         /\ [Next]_vars => SettledInv'
  <1>1. Init => SettledInv
    BY DEF Init, SettledInv, Idle
  <1>2. ASSUME TypeOK, KnownServices, AvailableKnown, CacheInv, SyncInv, SettledInv, [Next]_vars
        PROVE  SettledInv'
    <2>0. /\ w \in Workers /\ w.spec \in Specs /\ w.i \in Nat \ {0}
          /\ available \in Specs \cup {Nil}
          /\ \A sp : Idle(sp).pc = "idle" /\ Idle(sp).spec = sp
      BY <1>2 DEF TypeOK, WorkerOK, ConfigsOK, Workers, Idle
    <2>1. CASE ~OnUpdate /\ ~updateService /\ ~setRunningConfig /\ ~Restart
      <3>1. Kept
        BY <1>2, <2>1, StepKeeps
      <3>2. UNCHANGED <<nginx, runningConfig>>
        BY <1>2, <2>1, QuietSteps
      <3>3. ASSUME available # Nil, AllSettled(available), available' = available
            PROVE  AllSettled(available)'
        <4>1. ASSUME NEW av, av = available
              PROVE  AllSettled(av)'
          BY <1>2, <3>1, <3>3, <4>1, AllSettledKept DEF AvailableKnown
        <4> QED
          BY <3>3, <4>1 DEF AllSettled, Settled
      <3>4. CASE w.pc # "update" /\ w'.pc # "update" /\ available' = available
        BY <1>2, <3>2, <3>3, <3>4 DEF SettledInv
      <3>5. CASE UNCHANGED <<w, available>> /\ w.pc = "update"
        <4>1. ASSUME NEW sp, NEW i \in DOMAIN sp, sp = w.spec, sp[i].service \notin lost', i < w.i
              PROVE  Settled(sp, i)'
          <5>1. sp[i].service \in Services
            BY <1>2, <3>5, <4>1 DEF KnownServices
          <5>2. LET s == sp[i].service
                IN  s \notin lost /\ selector'[s] = selector[s] /\ targets'[s] = targets[s]
            BY <3>1, <4>1, <5>1 DEF Kept
          <5>3. Settled(sp, i)
            BY <1>2, <3>5, <4>1, <5>2 DEF SettledInv
          <5> QED
            BY <5>2, <5>3, SettledKept
        <4>2. \A i \in DOMAIN w.spec :
                 i < w.i /\ w.spec[i].service \notin lost' => Settled(w.spec, i)'
          BY <3>5, <4>1 DEF Settled
        <4> QED
          BY <3>5, <4>2 DEF SettledInv
      <3>6. CASE /\ w.pc = "patchManifest" /\ w'.pc = "idle" /\ available' = w.spec
                 /\ runningConfig # Nil /\ Equal(runningConfig, getUpsteamService(w.spec))
        <4>1. ASSUME nginx = runningConfig
              PROVE  AllSettled(w.spec)
          <5>1. /\ available \in Specs /\ nginx = getUpsteamService(available)
                /\ AllSettled(available)
            BY <1>2, <2>0, <3>6, <4>1 DEF SyncInv, SettledInv
          <5>2. nginx = getUpsteamService(w.spec)
            BY <2>0, <3>6, <4>1, <5>1, EqualConfigsAreEqual
          <5> QED
            BY <2>0, <5>1, <5>2, SettledByEqual
        <4>2. ASSUME nginx = runningConfig
              PROVE  AllSettled(available)'
          <5>1. ASSUME NEW sp, sp = w.spec
                PROVE  AllSettled(sp)'
            BY <1>2, <3>1, <3>6, <4>1, <4>2, <5>1, AllSettledKept DEF KnownServices
          <5> QED
            BY <3>6, <5>1 DEF AllSettled, Settled
        <4>3. available' # Nil
          BY <2>0, <3>6, NilAssumption
        <4> QED
          BY <3>2, <3>6, <4>2, <4>3 DEF SettledInv
      <3>7. \/ UNCHANGED <<w, available>>
            \/ w.pc # "update" /\ w'.pc # "update" /\ available' = available
            \/ /\ w.pc = "patchManifest" /\ w'.pc = "idle" /\ available' = w.spec
               /\ runningConfig # Nil /\ Equal(runningConfig, getUpsteamService(w.spec))
        BY <1>2, <2>1, QuietSteps
      <3> QED
        BY <3>4, <3>5, <3>6, <3>7
    <2>2. CASE OnUpdate
      <3>0. w.pc = "createForked" /\ UNCHANGED <<selector, targets, lost, runningConfig, available>>
        BY <2>2 DEF OnUpdate, services, Goto, Retry, Fault
      <3>1. CASE (Retry \/ Fault) /\ UNCHANGED nginx
        <4>1. w'.pc = "idle"
          BY <2>0, <3>1 DEF Retry, Fault
        <4> QED
          BY <1>2, <3>0, <3>1, <4>1 DEF SettledInv, AllSettled, Settled
      <3>2. CASE Goto("update")
        <4>1. w'.pc = "update" /\ w'.i = 1 /\ w'.spec = w.spec
          BY <2>0, <3>2 DEF Goto, Workers
        <4>2. \A i \in DOMAIN w.spec : ~(i < 1)
          BY <2>0, SpecShape
        <4> QED
          BY <4>1, <4>2 DEF SettledInv
      <3> QED
        BY <2>2, <3>1, <3>2 DEF OnUpdate
    <2>3. CASE updateService
      <3>1. /\ w.pc = "update" /\ w.i \in DOMAIN w.spec
            /\ UNCHANGED <<nginx, runningConfig>>
            /\ Next1 \/ Retry \/ Fault
        BY <2>3 DEF updateService
      <3>2. runningConfig # nginx
        BY <1>2, <3>1 DEF SyncInv
      <3>3. CASE Retry \/ Fault
        <4>1. w'.pc = "idle"
          BY <2>0, <3>3 DEF Retry, Fault
        <4> QED
          BY <3>1, <3>2, <4>1 DEF SettledInv
      <3>4. CASE Next1
        <4>1. w'.pc = "update" /\ w'.i = w.i + 1 /\ w'.spec = w.spec
          BY <2>0, <3>1, <3>4 DEF Next1, Workers
        <4>2. ASSUME NEW sp, NEW n, sp = w.spec, n = w.i,
                     NEW i \in DOMAIN sp, i < n + 1, sp[i].service \notin lost'
              PROVE  Settled(sp, i)'
          <5>1. \A j \in DOMAIN sp : sp[j].service \in Services
            BY <1>2, <3>1, <4>2 DEF KnownServices
          <5>2. Passed(sp, n)
            BY <1>2, <2>3, <4>2, StepPasses DEF Passed
          <5>3. \A j \in DOMAIN sp : j < n /\ sp[j].service \notin lost => Settled(sp, j)
            BY <1>2, <3>1, <4>2 DEF SettledInv
          <5> QED
            BY <2>0, <3>1, <4>2, <5>1, <5>2, <5>3, SettledStep
        <4>3. \A i \in DOMAIN w.spec :
                 i < w.i + 1 /\ w.spec[i].service \notin lost' => Settled(w.spec, i)'
          BY <4>1, <4>2 DEF Settled
        <4> QED
          BY <4>1, <4>3 DEF SettledInv
      <3> QED
        BY <3>1, <3>3, <3>4
    <2>4. CASE setRunningConfig
      <3>1. /\ w.pc = "update" /\ w.i \notin DOMAIN w.spec
            /\ w'.pc = "idle" /\ available' = w.spec
            /\ UNCHANGED <<selector, targets, lost>>
        BY <2>0, <2>4 DEF setRunningConfig, Done, services
      <3>2. \A i \in DOMAIN w.spec : i < w.i
        BY <2>0, <3>1, SpecShape
      <3>3. AllSettled(w.spec)
        BY <1>2, <3>1, <3>2 DEF SettledInv, AllSettled
      <3>4. AllSettled(available)'
        BY <3>1, <3>3 DEF AllSettled, Settled
      <3>5. available' # Nil
        BY <2>0, <3>1, NilAssumption
      <3> QED
        BY <3>1, <3>4, <3>5 DEF SettledInv
    <2>5. CASE Restart
      BY <2>0, <2>5 DEF Restart, SettledInv
    <2> QED
      BY <2>1, <2>2, <2>3, <2>4, <2>5
  <1> QED
    BY <1>1, <1>2

\* What step 6 is going to store of a settled service is what is stored,
\* whatever object it has.
LEMMA SettledStays ==
    ASSUME TypeOK, CacheInv, NEW sp \in Specs, NEW i \in DOMAIN sp,
           sp[i].service \in Services, sp[i].service \notin lost, Settled(sp, i)
    PROVE  LET s == sp[i].service
           IN  /\ selector[s] = "proxy"
               /\ AsStored(s, patchTargetPort(sp, i, s, inCluster(s).targets)) = targets[s]
  <1> DEFINE s == sp[i].service
             old == inCluster(s).targets
  <1>1. AsStored(s, old) = targets[s] /\ old \in [Rendered[s] -> Nat]
    BY HeldInStep, HeldType DEF InStep, TypeOK, Objects
  <1>2. AsStored(s, targets[s]) = AsStored(s, old)
    BY <1>1, StoredType
  <1>3. selector[s] = "proxy" /\ AsStored(s, patchTargetPort(sp, i, s, targets[s])) = targets[s]
    BY DEF Settled
  <1>4. AsStored(s, patchTargetPort(sp, i, s, old)) = targets[s]
    BY <1>2, <1>3, StoredPatch
  <1> QED
    BY <1>3, <1>4

\* A change of weights alone moves no listed service, for every set of specs:
\* neither an edit in between, a sync that is skipped because the config is
\* equal, a failed one nor an old object in the cache lets a target port drift
\* (proxy.go 553-557, 583-619).
THEOREM WeightsMoveNoService == Spec => []WeightsMoveNothing
  <1>1. ASSUME TypeOK, KnownServices, CacheInv, SettledInv, OnlyWeights,
               NEW i \in DOMAIN w.spec, w.spec[i].ports # <<>>, w.spec[i].service \notin lost
        PROVE  LET s == w.spec[i].service
                   patched == patchTargetPort(w.spec, i, s, inCluster(s).targets)
               IN  selector[s] = "proxy" /\ AsStored(s, patched) = targets[s]
    <2>1. /\ w.pc = "createForked" /\ SamePorts(available, w.spec)
          /\ available # Nil /\ AllSettled(available)
      BY <1>1 DEF OnlyWeights, SettledInv
    <2>2. /\ available \in Specs /\ w.spec \in Specs
          /\ \A j \in DOMAIN w.spec : w.spec[j].service \in Services
      BY <1>1, <2>1 DEF TypeOK, ConfigsOK, WorkerOK, Workers, KnownServices
    <2>3. i \in DOMAIN available /\ available[i].service = w.spec[i].service
          /\ DOMAIN available[i].ports = DOMAIN w.spec[i].ports
      BY <2>1 DEF SamePorts
    <2>4. available[i].ports # <<>>
      <3>1. w.spec[i].ports \in Seq(CanaryPorts)
        <4>1. w.spec \in Seq(CanaryServices)
          BY <2>2, SpecsAssumption
        <4>2. w.spec[i] \in CanaryServices
          BY <1>1, <4>1
        <4> QED
          BY <4>2 DEF CanaryServices
      <3>2. 1 \in DOMAIN w.spec[i].ports
        BY <1>1, <3>1
      <3>3. DOMAIN <<>> = {}
        OBVIOUS
      <3> QED
        BY <2>3, <3>2, <3>3
    <2>5. Settled(available, i)
      BY <1>1, <2>1, <2>3, <2>4 DEF AllSettled
    <2>6. Settled(w.spec, i)
      BY <2>1, <2>2, <2>3, <2>5, SettledBySamePorts
    <2> QED
      BY <1>1, <2>2, <2>6, SettledStays
  <1>2. TypeOK /\ KnownServices /\ CacheInv /\ SettledInv => WeightsMoveNothing
    BY <1>1 DEF WeightsMoveNothing
  <1>3. Spec => [](TypeOK /\ KnownServices)
    BY TypeCorrect
  <1>4. Init => CacheInv /\ AvailableKnown /\ SyncInv /\ SettledInv
    BY CacheInductive, AvailableKnownInductive, SyncInductive, SettledInductive
  <1>5. TypeOK /\ KnownServices /\ CacheInv /\ AvailableKnown /\ SyncInv /\ SettledInv
          /\ [Next]_vars => CacheInv' /\ AvailableKnown' /\ SyncInv' /\ SettledInv'
    BY CacheInductive, AvailableKnownInductive, SyncInductive, SettledInductive
  <1> QED
    BY <1>2, <1>3, <1>4, <1>5, PTL DEF Spec

=============================================================================
