------------------------- MODULE UsageMeterProofs -------------------------
(***************************************************************************)
(* What a merchant is charged for, for any requests, merchants, headers,   *)
(* bodies, namespaces, plan, queue, faults and number of crashes.          *)
(***************************************************************************)
EXTENDS UsageMeter, SequenceTheorems, FiniteSetTheorems, TLAPS

(* The event of q is under way or counted. *)
Moving(q) == applied[q] > 0 \/ Contains(queue, q) \/ Contains(topic, q)

Earned(q) ==
    /\ pc[q] = "done" /\ ok[q]
    /\ event[q].delta = IF req[q].op = "create" THEN 1 ELSE -1
    /\ IF NamesOwner(q) \/ image[q] # "" THEN event[q].merchant = Owner(Object(q))
       ELSE event[q].merchant \in {req[q].by.body, req[q].by.namespace}

(* A request asks once; a delete is of an object some request created, by  *)
(* its owner or by nobody in particular, and the before-image names no one *)
(* but the owner.                                                          *)
AskedWell(q) ==
    /\ pc[q] = "idle" => req[q] = NoAsk /\ image[q] = ""
    /\ pc[q] # "idle" => req[q] \in Ask
    /\ pc[q] = "snapshot" => req[q].op = "delete"
    /\ req[q].op = "create" => image[q] = ""
    /\ req[q].op = "delete" =>
          /\ req[req[q].target].op = "create"
          /\ req[q].by.header \in Merchant => req[q].by.header = Owner(req[q].target)
          /\ image[q] \in {"", Owner(req[q].target)}

AskInv == \A q \in Req : AskedWell(q)

EarnInv == \A q \in Req : Moving(q) => Earned(q)

IInv == TypeOK /\ AskInv /\ EarnInv

(* The environment of an exact meter: the publisher is up before the first *)
(* request, nothing is lost or doubled, and no handler panics or answers   *)
(* with success for nothing.  The quota service may be out of reach.       *)
Faultless == Faults \subseteq {"offline"} /\ MaxCrashes = 0

(* An event about to be enqueued finds room. *)
Roomy == \A q \in Req : pc[q] = "save" => ~QueueFull

Distinct(s) == \A i, j \in 1..Len(s) : s[i] = s[j] => i = j

(* The change of q is made and not yet counted. *)
OnWay(q) == ok[q] /\ (pc[q] = "save" \/ Contains(queue, q) \/ Contains(topic, q))

Coming(m) == {q \in Unsettled(m) : req[q].op = "create"}
Going(m) == {q \in Unsettled(m) : req[q].op = "delete"}

(* Success is known only after the handler, an object exists only once it  *)
(* is known to, and the before-image of a delete that worked or still can  *)
(* names the owner of what it deletes.                                     *)
Settled(q) ==
    /\ pc[q] # "idle" => started
    /\ ok[q] => pc[q] \in {"save", "done"}
    /\ pc[q] \in {"idle", "quota"} => asked[q] = ""
    /\ pc[q] = "quota" => req[q].op = "create"
    /\ q \in live => ok[q] /\ req[q].op = "create"
    /\ req[q].op = "delete" =>
          /\ ok[req[q].target]
          /\ \/ pc[q] = "handle" /\ req[q].target \in live
             \/ pc[q] \in {"save", "done"} /\ ok[q]
             => image[q] = Owner(req[q].target)

(* Each event is in one place, once. *)
OnceInv ==
    /\ Distinct(queue) /\ Distinct(topic)
    /\ \A q \in Req : ~(Contains(queue, q) /\ Contains(topic, q))

Counted(m) ==
    /\ IsFiniteSet(Unsettled(m))
    /\ Cardinality(LiveOf(m)) = occupancy[m] + Cardinality(Coming(m)) - Cardinality(Going(m))

CountInv == IsFiniteSet(live) /\ \A m \in Merchant : Accounted(m) => Counted(m)

SettledInv == \A q \in Req : Settled(q)

MeterInv == IInv /\ SettledInv /\ OnceInv /\ CountInv

-----------------------------------------------------------------------------
(* The bounds. *)
LEMMA Numbers == QueueCap \in Nat /\ QueueCap >= 1 /\ MaxCrashes \in Nat
<1>1. QueueCap \in Nat \ {0} /\ MaxCrashes \in Nat
  BY MeterAssumption
<1> QED BY <1>1

(* No merchant is called "" or "*". *)
LEMMA Names == "" \notin Merchant /\ "*" \notin Merchant
<1>1. {"", "*"} \cap Merchant = {}
  BY MeterAssumption
<1> QED BY <1>1

(* What a request can ask, and what one that has not arrived asks. *)
LEMMA Asks ==
    \A a \in Ask :
        /\ a.op \in {"create", "delete"}
        /\ a.by \in Namings
        /\ a.by.header \in Merchant \cup {"", "*"}
        /\ a.by.body \in Merchant \cup {""}
        /\ a.op = "delete" => a.target \in Req
BY MeterAssumption DEF Ask

(* A request that has not arrived names nobody. *)
LEMMA AsksNothing == NoAsk.op = "" /\ NoAsk.by.header = "" /\ NoAsk.by.body = ""
BY DEF NoAsk

(* Every merchant has an account, and so has a namespace that may be one. *)
LEMMA HaveAccounts ==
    /\ Merchant \subseteq Accounts
    /\ \A n \in Namings : n.namespace \notin {"", "*"} => n.namespace \in Accounts
BY Names DEF Accounts

(* An empty queue fits. *)
LEMMA EmptyFits == <<>> \in Seq(Req) /\ Len(<<>>) = 0 /\ Len(<<>>) <= QueueCap
<1>1. <<>> \in Seq(Req) /\ Len(<<>>) = 0
  BY EmptySeq
<1>2. 0 <= QueueCap
  BY Numbers
<1> QED BY <1>1, <1>2

(* Nothing waits in an empty queue. *)
LEMMA ContainsEmpty == \A x : ~Contains(<<>>, x)
BY DEF Contains

(* Append adds one element. *)
LEMMA ContainsAppend ==
    ASSUME NEW s \in Seq(Req), NEW q \in Req
    PROVE  /\ Append(s, q) \in Seq(Req)
           /\ \A x : Contains(Append(s, q), x) <=> Contains(s, x) \/ x = q
BY AppendProperties DEF Contains

(* Tail takes the first one away. *)
LEMMA ContainsRest ==
    ASSUME NEW s \in Seq(Req), s # <<>>
    PROVE  /\ Tail(s) \in Seq(Req) /\ Len(Tail(s)) <= Len(s)
           /\ Head(s) \in Req /\ Contains(s, Head(s))
           /\ \A x : Contains(Tail(s), x) => Contains(s, x)
<1>1. /\ Tail(s) \in Seq(Req) /\ Len(Tail(s)) = Len(s) - 1 /\ Len(s) \in Nat
      /\ Head(s) = s[1] /\ Head(s) \in Req /\ 1 \in 1..Len(s)
      /\ \A i \in 1..Len(Tail(s)) : i + 1 \in 1..Len(s) /\ Tail(s)[i] = s[i + 1]
  BY HeadTailProperties, EmptySeq, LenProperties
<1>2. Contains(s, Head(s))
  BY <1>1 DEF Contains
<1>3. \A x : Contains(Tail(s), x) => Contains(s, x)
  BY <1>1 DEF Contains
<1> QED BY <1>1, <1>2, <1>3

(* Every object's owner is a merchant or nobody. *)
LEMMA OwnerTyped ==
    ASSUME TypeOK, NEW o \in Req
    PROVE  Owner(o) \in Merchant \cup {""}
<1>1. req[o] \in Ask \cup {NoAsk}
  BY DEF TypeOK
<1>2. req[o].by.header \in Merchant \cup {"", "*"} /\ req[o].by.body \in Merchant \cup {""}
  BY <1>1, Asks, AsksNothing
<1> QED BY <1>2 DEF Owner

(* An object that some request created keeps its owner. *)
LEMMA OwnerStays ==
    ASSUME NEW o, req'[o] = req[o]
    PROVE  Owner(o)' = Owner(o)
BY DEF Owner

(* What enqueueUsageFromLog charges is what the request did, to the owner  *)
(* where the request or the before-image tells who that is.                *)
LEMMA ChargeIsEarned ==
    ASSUME TypeOK, AskInv, NEW q \in Req, pc[q] = "save", Chargeable(q)
    PROVE  /\ ok[q] /\ ChargedMerchant(q) \in Accounts
           /\ UsageDelta(q) = IF req[q].op = "create" THEN 1 ELSE -1
           /\ IF NamesOwner(q) \/ image[q] # "" THEN ChargedMerchant(q) = Owner(Object(q))
              ELSE ChargedMerchant(q) \in {req[q].by.body, req[q].by.namespace}
<1>1. ok[q] /\ UsageDelta(q) = IF req[q].op = "create" THEN 1 ELSE -1
  BY DEF Chargeable, UsageDelta
<1>2. req[q] \in Ask /\ AskedWell(q) /\ ChargedMerchant(q) \notin {"", "*"}
  BY DEF AskInv, AskedWell, Chargeable, SkipUsageMerchant
<1>3. /\ req[q].by \in Namings
      /\ HeaderMerchant(q) \in Merchant \cup {"", "*"} /\ req[q].by.body \in Merchant \cup {""}
      /\ CapturedMerchant(q) \in {"", req[q].by.body}
  BY <1>2, Asks DEF HeaderMerchant, CapturedMerchant
<1>4. CASE image[q] # ""
  <2>1. req[q].op = "delete" /\ image[q] = Owner(req[q].target) /\ req[q].target \in Req
    BY <1>2, <1>4, Asks DEF AskedWell
  <2>2. ChargedMerchant(q) = image[q] /\ Object(q) = req[q].target
    BY <1>4, <2>1 DEF ChargedMerchant, Object
  <2>3. image[q] \in Merchant
    BY <1>4, <2>1, OwnerTyped
  <2> QED BY <1>1, <1>4, <2>1, <2>2, <2>3, HaveAccounts
<1>5. CASE image[q] = ""
  <2>1. ChargedMerchant(q) = RequestMerchant(q)
    BY <1>5 DEF ChargedMerchant
  <2>2. RequestMerchant(q) \in Accounts
    <3>1. \/ RequestMerchant(q) \in Merchant
          \/ RequestMerchant(q) = req[q].by.namespace
      BY <1>2, <1>3, <2>1 DEF RequestMerchant
    <3> QED BY <1>2, <1>3, <2>1, <3>1, HaveAccounts
  <2>3. CASE NamesOwner(q)
    <3>1. CASE HeaderMerchant(q) \in Merchant
      <4>1. RequestMerchant(q) = HeaderMerchant(q)
        BY <3>1, Names DEF RequestMerchant
      <4>2. HeaderMerchant(q) = Owner(Object(q))
        <5>1. CASE req[q].op = "create"
          BY <3>1, <5>1 DEF HeaderMerchant, Owner, Object
        <5>2. CASE req[q].op = "delete"
          BY <1>2, <3>1, <5>2 DEF HeaderMerchant, AskedWell, Object
        <5> QED BY <1>2, <5>1, <5>2, Asks
      <4> QED BY <1>1, <2>1, <2>2, <2>3, <4>1, <4>2
    <3>2. CASE req[q].op = "create" /\ HeaderMerchant(q) = "" /\ CapturedMerchant(q) # ""
      <4>1. RequestMerchant(q) = req[q].by.body
        BY <1>3, <3>2 DEF RequestMerchant
      <4>2. Owner(Object(q)) = req[q].by.body
        BY <3>2, Names DEF HeaderMerchant, Owner, Object
      <4> QED BY <1>1, <2>1, <2>2, <2>3, <4>1, <4>2
    <3> QED BY <2>3, <3>1, <3>2 DEF NamesOwner
  <2>4. CASE ~NamesOwner(q)
    <3>1. HeaderMerchant(q) = ""
      BY <1>2, <1>3, <2>1, <2>4 DEF NamesOwner, RequestMerchant
    <3>2. RequestMerchant(q) \in {req[q].by.body, req[q].by.namespace}
      BY <1>3, <3>1 DEF RequestMerchant
    <3> QED BY <1>1, <1>5, <2>1, <2>2, <2>4, <3>2
  <2> QED BY <2>3, <2>4
<1> QED BY <1>4, <1>5

-----------------------------------------------------------------------------
(* The initial state satisfies the invariant. *)
LEMMA InvInit == Init => IInv
<1> SUFFICES ASSUME Init PROVE IInv
    OBVIOUS
<1>1. TypeOK
  <2>1. queue = <<>> /\ topic = <<>>
    BY DEF Init
  <2>2. queue \in Seq(Req) /\ Len(queue) <= QueueCap /\ topic \in Seq(Req)
    BY <2>1, EmptyFits
  <2>3. crashes \in 0..MaxCrashes
    <3>1. crashes = 0
      BY DEF Init
    <3> QED BY <3>1, Numbers
  <2>4. occupancy \in [Accounts -> Int]
    <3>1. occupancy = [m \in Accounts |-> 0]
      BY DEF Init
    <3> QED BY <3>1
  <2>5. event \in [Req -> [merchant : Accounts \cup {""}, delta : {-1, 0, 1}]]
    BY DEF Init, NoEvent
  <2> QED BY <2>2, <2>3, <2>4, <2>5 DEF Init, TypeOK
<1>2. AskInv
  BY DEF Init, AskInv, AskedWell, NoAsk
<1>3. EarnInv
  <2>1. queue = <<>> /\ topic = <<>> /\ \A q \in Req : applied[q] = 0
    BY DEF Init
  <2>2. \A q \in Req : ~Moving(q)
    <3>1. \A q \in Req : ~(applied[q] > 0)
      BY <2>1
    <3> QED BY <2>1, <3>1, ContainsEmpty, Zenon DEF Moving
  <2> QED BY <2>2 DEF EarnInv
<1> QED BY <1>1, <1>2, <1>3 DEF IInv

(* What a request asked for stays as it was, or its before-image is read. *)
LEMMA WellStays ==
    ASSUME NEW x \in Req, AskedWell(x), req'[x] = req[x],
           req[x].op = "delete" => req'[req[x].target] = req[req[x].target],
           pc'[x] = pc[x] \/ (pc[x] # "idle" /\ pc'[x] \notin {"idle", "snapshot"}),
           \/ image'[x] = image[x]
           \/ /\ pc[x] # "idle" /\ req[x].op = "delete"
              /\ image'[x] \in {"", Owner(req[x].target)}
    PROVE  AskedWell(x)'
BY DEF AskedWell, Owner

(* A step that leaves the requests alone keeps what they ask. *)
LEMMA AskStays ==
    ASSUME AskInv, UNCHANGED <<pc, req, image>>
    PROVE  AskInv'
BY DEF AskInv, AskedWell, Owner

(* A step that moves no event keeps what was earned, if the request stays. *)
LEMMA EarnStays ==
    ASSUME EarnInv, UNCHANGED event,
           \A q \in Req : Moving(q)' => Moving(q),
           \A q \in Req : pc[q] = "done" => pc'[q] = "done" /\ ok'[q] = ok[q],
           \A q \in Req : pc[q] = "done" => image'[q] = image[q],
           \A q \in Req : pc[q] = "done" =>
               req'[q] = req[q] /\ Owner(Object(q))' = Owner(Object(q))
    PROVE  EarnInv'
<1> SUFFICES ASSUME NEW q \in Req, Moving(q)' PROVE Earned(q)'
    BY DEF EarnInv
<1>1. Earned(q)
  BY DEF EarnInv
<1>2. /\ pc'[q] = "done" /\ ok'[q] = ok[q] /\ image'[q] = image[q] /\ event'[q] = event[q]
      /\ req'[q] = req[q] /\ Owner(Object(q))' = Owner(Object(q))
  BY <1>1 DEF Earned
<1>3. NamesOwner(q)' <=> NamesOwner(q)
  BY <1>2 DEF NamesOwner, HeaderMerchant, CapturedMerchant
<1> QED BY <1>1, <1>2, <1>3 DEF Earned

(* The owner of what a request created or deletes stays. *)
LEMMA ObjectStays ==
    ASSUME UNCHANGED req
    PROVE  \A q \in Req : req'[q] = req[q] /\ Owner(Object(q))' = Owner(Object(q))
BY DEF Object, Owner

(* A request enters: nobody has created its object or asked for it yet. *)
LEMMA ArriveStep ==
    ASSUME IInv, NEW q \in Req, Arrive(q)
    PROVE  IInv'
<1> USE DEF IInv
<1>1. PICK r \in Ask :
         /\ pc[q] = "idle" /\ req[q] = NoAsk /\ image[q] = ""
         /\ r.op = "delete" => req[r.target].op = "create" /\ r.target \in Req
         /\ r.op = "delete" /\ r.by.header \in Merchant => r.by.header = Owner(r.target)
         /\ req' = [req EXCEPT ![q] = r]
         /\ pc' = [pc EXCEPT ![q] = IF r.op = "create" THEN "quota" ELSE "snapshot"]
         /\ UNCHANGED <<started, asked, image, ok, live, event, queue, topic, applied, occupancy, crashes>>
  BY Asks DEF Arrive, AskInv, AskedWell
<1>2. TypeOK'
  BY <1>1 DEF TypeOK
<1>3. \A o \in Req : req[o].op # "" => o # q /\ req'[o] = req[o] /\ Owner(o)' = Owner(o)
  BY <1>1, AsksNothing DEF TypeOK, Owner
<1>4. AskInv'
  <2> SUFFICES ASSUME NEW x \in Req
               PROVE  AskedWell(x)'
      BY DEF AskInv
  <2>1. CASE x = q
    <3>1. req'[x] = r /\ image'[x] = "" /\ pc'[x] = IF r.op = "create" THEN "quota" ELSE "snapshot"
      BY <1>1, <2>1 DEF TypeOK
    <3>2. r.op = "delete" => req'[r.target] = req[r.target] /\ Owner(r.target)' = Owner(r.target)
      BY <1>1, <1>3
    <3>3. r.op \in {"create", "delete"}
      BY Asks
    <3>4. pc'[x] # "idle"
      BY <3>1
    <3>5. r.op = "delete" =>
             /\ req[r.target].op = "create" /\ req'[r.target] = req[r.target]
             /\ r.by.header \in Merchant => r.by.header = Owner(r.target)'
      BY <1>1, <3>2
    <3> QED BY <3>1, <3>3, <3>4, <3>5 DEF AskedWell, Owner
  <2>2. CASE x # q
    <3>1. req'[x] = req[x] /\ image'[x] = image[x] /\ pc'[x] = pc[x]
      BY <1>1, <2>2 DEF TypeOK
    <3>2. req[x].op = "delete" => req[x].target \in Req
      BY Asks, AsksNothing DEF TypeOK
    <3>3. req[x].op = "delete" => req'[req[x].target] = req[req[x].target]
      BY <1>3, <3>2 DEF AskInv, AskedWell
    <3> QED BY <3>1, <3>3, WellStays DEF AskInv
  <2> QED BY <2>1, <2>2
<1>5. \A x \in Req : pc[x] = "done" =>
         req'[x] = req[x] /\ Owner(Object(x))' = Owner(Object(x))
  <2> SUFFICES ASSUME NEW x \in Req, pc[x] = "done"
               PROVE  req'[x] = req[x] /\ Owner(Object(x))' = Owner(Object(x))
      OBVIOUS
  <2>1. req[x] \in Ask /\ x # q /\ req'[x] = req[x]
    <3>1. x # q
      BY <1>1
    <3>2. req[x] \in Ask
      BY DEF AskInv, AskedWell
    <3>3. req \in [Req -> Ask \cup {NoAsk}]
      BY DEF TypeOK
    <3> QED BY <1>1, <3>1, <3>2, <3>3
  <2>2. req[x].op \in {"create", "delete"} /\ (req[x].op = "delete" => req[x].target \in Req)
    BY <2>1, Asks
  <2>3. Object(x) \in Req /\ req[Object(x)].op = "create" /\ Object(x)' = Object(x)
    <3>1. CASE req[x].op = "create"
      BY <2>1, <3>1 DEF Object
    <3>2. CASE req[x].op = "delete"
      BY <2>1, <2>2, <3>2 DEF Object, AskInv, AskedWell
    <3> QED BY <2>2, <3>1, <3>2
  <2>4. Owner(Object(x))' = Owner(Object(x))
    BY <1>3, <2>3 DEF Owner
  <2> QED BY <2>1, <2>4
<1>6. EarnInv'
  BY <1>1, <1>5, EarnStays DEF TypeOK, Moving
<1> QED BY <1>2, <1>4, <1>6

(* The middleware and the handler decide; nothing is charged before Save. *)
LEMMA DecideStep ==
    ASSUME IInv, NEW q \in Req, SkipQuota(q) \/ CheckQuota(q) \/ Snapshot(q) \/ Handle(q)
    PROVE  IInv'
<1> USE DEF IInv
<1>1. /\ UNCHANGED <<started, req, event, queue, topic, applied, occupancy, crashes>>
      /\ pc[q] \in {"quota", "snapshot", "handle"}
  BY DEF SkipQuota, CheckQuota, Snapshot, Handle
<1>2. PICK p \in {"handle", "denied", "save", "dead"} : pc' = [pc EXCEPT ![q] = p]
  BY DEF SkipQuota, CheckQuota, Snapshot, Handle
<1>3. asked' \in [Req -> Merchant \cup {""}]
  <2>1. CASE CheckQuota(q)
    <3>1. HeaderMerchant(q) \in Merchant
      BY <2>1, Asks DEF CheckQuota, HeaderMerchant, SkipUsageMerchant, AskInv, AskedWell
    <3> QED BY <2>1, <3>1 DEF CheckQuota, TypeOK
  <2>2. CASE ~CheckQuota(q)
    BY <2>2 DEF SkipQuota, Snapshot, Handle, TypeOK
  <2> QED BY <2>1, <2>2
<1>4. \/ UNCHANGED image
      \/ pc[q] = "snapshot" /\ \E v \in {"", Owner(req[q].target)} : image' = [image EXCEPT ![q] = v]
  BY DEF SkipQuota, CheckQuota, Snapshot, Handle
<1>5. pc[q] = "snapshot" => req[q].op = "delete" /\ req[q].target \in Req
  BY Asks DEF AskInv, AskedWell
<1>6. image' \in [Req -> Merchant \cup {""}]
  <2>1. image \in [Req -> Merchant \cup {""}]
    BY DEF TypeOK
  <2>2. pc[q] = "snapshot" => Owner(req[q].target) \in Merchant \cup {""}
    BY <1>5, OwnerTyped
  <2> QED BY <1>4, <2>1, <2>2
<1>7. ok' \in [Req -> BOOLEAN] /\ live' \subseteq Req
  <2>1. ok \in [Req -> BOOLEAN] /\ live \subseteq Req
    BY DEF TypeOK
  <2>2. ok' = ok \/ ok' = [ok EXCEPT ![q] = TRUE]
    BY DEF SkipQuota, CheckQuota, Snapshot, Handle
  <2>3. live' = live \/ live' = live \cup {q} \/ live' = live \ {req[q].target}
    BY DEF SkipQuota, CheckQuota, Snapshot, Handle, Works
  <2>4. ok' \in [Req -> BOOLEAN]
    BY <2>1, <2>2
  <2> QED BY <2>1, <2>3, <2>4
<1>8. TypeOK'
  BY <1>1, <1>2, <1>3, <1>6, <1>7 DEF TypeOK
<1>9. \A x \in Req : /\ pc'[x] = pc[x] \/ (pc[x] # "idle" /\ pc'[x] \notin {"idle", "snapshot"})
                     /\ x # q => image'[x] = image[x]
  BY <1>1, <1>2, <1>4 DEF TypeOK
<1>10. AskInv'
  <2> SUFFICES ASSUME NEW x \in Req PROVE AskedWell(x)'
      BY DEF AskInv
  <2>1. \/ image'[x] = image[x]
        \/ /\ pc[x] # "idle" /\ req[x].op = "delete"
           /\ image'[x] \in {"", Owner(req[x].target)}
    BY <1>4, <1>5, <1>9 DEF TypeOK
  <2>2. AskedWell(x) /\ req' = req
    BY <1>1 DEF AskInv
  <2>3. req'[x] = req[x] /\ req'[req[x].target] = req[req[x].target]
    BY <2>2
  <2>4. pc'[x] = pc[x] \/ (pc[x] # "idle" /\ pc'[x] \notin {"idle", "snapshot"})
    BY <1>9
  <2> QED BY <2>1, <2>2, <2>3, <2>4, WellStays, Zenon
<1>11. \A x \in Req : pc[x] = "done" => pc'[x] = "done" /\ ok'[x] = ok[x] /\ image'[x] = image[x]
  BY <1>1, <1>2, <1>9 DEF SkipQuota, CheckQuota, Snapshot, Handle, TypeOK
<1>12. EarnInv'
  BY <1>1, <1>11, EarnStays, ObjectStays DEF Moving
<1> QED BY <1>8, <1>10, <1>12

(* Save charges what the request did, or drops the event. *)
LEMMA SaveStep ==
    ASSUME IInv, NEW q \in Req, Save(q)
    PROVE  IInv'
<1> USE DEF IInv
<1>1. /\ UNCHANGED <<started, req, asked, image, ok, live, topic, applied, occupancy, crashes>>
      /\ pc[q] = "save" /\ pc' = [pc EXCEPT ![q] = "done"]
  BY DEF Save
<1>2. AskInv'
  <2>1. \A x \in Req : pc'[x] = pc[x] \/ (pc[x] # "idle" /\ pc'[x] \notin {"idle", "snapshot"})
    <3>1. pc \in [Req -> {"idle", "quota", "snapshot", "handle", "save", "done", "denied", "dead"}]
      BY DEF TypeOK
    <3> QED BY <1>1, <3>1
  <2> QED BY <1>1, <2>1, WellStays DEF AskInv
<1>3. \A x \in Req : req'[x] = req[x] /\ Owner(Object(x))' = Owner(Object(x))
  BY <1>1, ObjectStays
<1>4. \A x \in Req : pc[x] = "done" => pc'[x] = "done" /\ ok'[x] = ok[x]
  BY <1>1 DEF TypeOK
<1>5. CASE UNCHANGED <<event, queue>>
  <2>1. TypeOK'
    BY <1>1, <1>5 DEF TypeOK
  <2>2. EarnInv'
    BY <1>1, <1>3, <1>4, <1>5, EarnStays DEF Moving
  <2> QED BY <1>2, <2>1, <2>2
<1>6. CASE /\ Chargeable(q) /\ ~QueueFull
           /\ event' = [event EXCEPT ![q] = [merchant |-> ChargedMerchant(q), delta |-> UsageDelta(q)]]
           /\ queue' = Append(queue, q)
  <2>1. /\ ok[q] /\ ChargedMerchant(q) \in Accounts
        /\ UsageDelta(q) = IF req[q].op = "create" THEN 1 ELSE -1
        /\ IF NamesOwner(q) \/ image[q] # "" THEN ChargedMerchant(q) = Owner(Object(q))
           ELSE ChargedMerchant(q) \in {req[q].by.body, req[q].by.namespace}
    BY <1>1, <1>6, ChargeIsEarned
  <2>2. /\ queue' \in Seq(Req) /\ \A x : Contains(queue', x) <=> Contains(queue, x) \/ x = q
    BY <1>6, ContainsAppend DEF TypeOK
  <2>3. Len(queue') <= QueueCap
    <3>1. Len(queue') = Len(queue) + 1 /\ Len(queue) \in Nat /\ QueueCap \in Nat
      BY <1>6, AppendProperties, LenProperties, Numbers DEF TypeOK
    <3>2. Len(queue) < QueueCap
      BY <1>6, <3>1 DEF QueueFull
    <3> QED BY <3>1, <3>2
  <2>4. event' \in [Req -> [merchant : Accounts \cup {""}, delta : {-1, 0, 1}]]
    <3>1. UsageDelta(q) \in {-1, 0, 1}
      BY <2>1
    <3> QED BY <1>6, <2>1, <3>1 DEF TypeOK
  <2>5. TypeOK'
    BY <1>1, <2>2, <2>3, <2>4 DEF TypeOK
  <2>6. Earned(q)'
    <3>1. event'[q].merchant = ChargedMerchant(q) /\ event'[q].delta = UsageDelta(q)
      BY <1>6 DEF TypeOK
    <3>2. /\ req' = req /\ image' = image /\ ok' = ok /\ pc'[q] = "done"
          /\ Owner(Object(q))' = Owner(Object(q)) /\ NamesOwner(q)' = NamesOwner(q)
      BY <1>1, <1>3 DEF TypeOK, NamesOwner, HeaderMerchant, CapturedMerchant
    <3> QED BY <2>1, <3>1, <3>2 DEF Earned
  <2>7. ASSUME NEW x \in Req, x # q, Moving(x)' PROVE Earned(x)'
    <3>1. Earned(x)
      BY <1>1, <2>2, <2>7 DEF Moving, EarnInv
    <3>2. event'[x] = event[x]
      BY <1>6, <2>7 DEF TypeOK
    <3>3. image'[x] = image[x] /\ NamesOwner(x)' = NamesOwner(x)
      BY <1>1 DEF NamesOwner, HeaderMerchant, CapturedMerchant
    <3> QED BY <1>3, <1>4, <3>1, <3>2, <3>3 DEF Earned
  <2> QED BY <1>2, <2>5, <2>6, <2>7 DEF EarnInv
<1> QED BY <1>5, <1>6 DEF Save

(* An event moves on, twice, or is lost: the same requests are charged. *)
LEMMA CarryStep ==
    ASSUME IInv, UsageLoop \/ Consume
    PROVE  IInv'
<1> USE DEF IInv
<1>1. UNCHANGED <<started, pc, req, asked, image, ok, live, event, crashes>>
  BY DEF UsageLoop, Consume
<1>2. /\ queue' \in Seq(Req) /\ Len(queue') <= QueueCap
      /\ topic' \in Seq(Req) /\ applied' \in [Req -> Nat] /\ occupancy' \in [Accounts -> Int]
      /\ \A x \in Req : Moving(x)' => Moving(x)
  <2>1. CASE UsageLoop
    <3>1. /\ queue # <<>> /\ queue' = Tail(queue) /\ applied' = applied /\ occupancy' = occupancy
          /\ \/ topic' = Append(topic, Head(queue))
             \/ topic' = Append(Append(topic, Head(queue)), Head(queue))
             \/ topic' = topic
      BY <2>1 DEF UsageLoop, PublishUsage
    <3>2. /\ queue' \in Seq(Req) /\ Len(queue') <= Len(queue) /\ Head(queue) \in Req
          /\ Contains(queue, Head(queue)) /\ \A x : Contains(queue', x) => Contains(queue, x)
      BY <3>1, ContainsRest DEF TypeOK
    <3>3. /\ Append(topic, Head(queue)) \in Seq(Req)
          /\ \A x : Contains(Append(topic, Head(queue)), x) <=> Contains(topic, x) \/ x = Head(queue)
      BY <3>2, ContainsAppend DEF TypeOK
    <3>4. /\ Append(Append(topic, Head(queue)), Head(queue)) \in Seq(Req)
          /\ \A x : Contains(Append(Append(topic, Head(queue)), Head(queue)), x)
                      <=> Contains(Append(topic, Head(queue)), x) \/ x = Head(queue)
      BY <3>2, <3>3, ContainsAppend
    <3>5. topic' \in Seq(Req) /\ \A x : Contains(topic', x) => Contains(topic, x) \/ x = Head(queue)
      BY <3>1, <3>3, <3>4 DEF TypeOK
    <3>6. Len(queue') <= QueueCap
      <4>1. Len(queue) \in Nat /\ Len(queue') \in Nat /\ QueueCap \in Nat /\ Len(queue) <= QueueCap
        BY <3>2, LenProperties, Numbers DEF TypeOK
      <4> QED BY <3>2, <4>1
    <3> QED BY <3>1, <3>2, <3>5, <3>6 DEF TypeOK, Moving
  <2>2. CASE Consume
    <3>1. /\ topic # <<>> /\ topic' = Tail(topic) /\ queue' = queue
          /\ applied' = [applied EXCEPT ![Head(topic)] = @ + 1]
      BY <2>2 DEF Consume
    <3>2. /\ topic' \in Seq(Req) /\ Head(topic) \in Req
          /\ Contains(topic, Head(topic)) /\ \A x : Contains(topic', x) => Contains(topic, x)
      BY <3>1, ContainsRest DEF TypeOK
    <3>3. applied' \in [Req -> Nat] /\ \A x \in Req : x # Head(topic) => applied'[x] = applied[x]
      <4>1. applied \in [Req -> Nat]
        BY DEF TypeOK
      <4> QED BY <3>1, <3>2, <4>1
    <3>4. occupancy' \in [Accounts -> Int]
      <4>1. event[Head(topic)].delta \in Int
        <5>1. event[Head(topic)].delta \in {-1, 0, 1}
          BY <3>2 DEF TypeOK
        <5> QED BY <5>1
      <4>2. occupancy \in [Accounts -> Int]
        BY DEF TypeOK
      <4>3. occupancy' = [occupancy EXCEPT ![event[Head(topic)].merchant] = @ + event[Head(topic)].delta]
        BY <2>2 DEF Consume
      <4> DEFINE k == event[Head(topic)].merchant
                 d == event[Head(topic)].delta
      <4>4. occupancy' = [m \in Accounts |-> IF m = k THEN occupancy[k] + d ELSE occupancy[m]]
        BY <4>2, <4>3
      <4>5. d \in Int
        BY <4>1
      <4> HIDE DEF k, d
      <4> QED BY <4>2, <4>4, <4>5
    <3> QED BY <3>1, <3>2, <3>3, <3>4 DEF TypeOK, Moving
  <2> QED BY <2>1, <2>2
<1>3. TypeOK'
  BY <1>1, <1>2 DEF TypeOK
<1>4. AskInv'
  BY <1>1, AskStays
<1>5. EarnInv'
  BY <1>1, <1>2, EarnStays, ObjectStays
<1> QED BY <1>3, <1>4, <1>5

(* A crash charges nobody: what was counted and what is in the topic stay. *)
LEMMA CrashStep ==
    ASSUME IInv, Crash
    PROVE  IInv'
<1> USE DEF IInv
<1>1. TypeOK'
  <2>1. crashes' \in 0..MaxCrashes
    <3>1. crashes \in 0..MaxCrashes /\ crashes < MaxCrashes /\ crashes' = crashes + 1
      BY DEF Crash, TypeOK
    <3>2. MaxCrashes \in Nat
      BY Numbers
    <3> QED BY <3>1, <3>2
  <2>2. queue' \in Seq(Req) /\ Len(queue') <= QueueCap
    <3>1. queue' = <<>>
      BY DEF Crash
    <3> QED BY <3>1, EmptyFits
  <2> QED BY <2>1, <2>2 DEF Crash, TypeOK
<1>2. AskInv'
  BY DEF Crash, AskInv, AskedWell, Owner
<1>3. \A x \in Req : Moving(x)' => Moving(x)
  BY ContainsEmpty DEF Crash, Moving
<1>4. EarnInv'
  BY <1>3, EarnStays, ObjectStays DEF Crash
<1> QED BY <1>1, <1>2, <1>4

(* Every step keeps the invariant. *)
LEMMA InvStep == IInv /\ [Next]_vars => IInv'
<1> SUFFICES ASSUME IInv, [Next]_vars PROVE IInv'
    OBVIOUS
<1>1. CASE StartUsagePublisher \/ UNCHANGED vars
  <2>1. UNCHANGED <<pc, req, asked, image, ok, live, event, queue, topic, applied, occupancy, crashes>>
        /\ started' \in BOOLEAN
    BY <1>1 DEF StartUsagePublisher, vars, IInv, TypeOK
  <2>2. TypeOK'
    BY <2>1 DEF IInv, TypeOK
  <2>3. AskInv' /\ EarnInv'
    BY <2>1, AskStays, EarnStays, ObjectStays DEF IInv, Moving
  <2> QED BY <2>2, <2>3 DEF IInv
<1>2. CASE UsageLoop \/ Consume
  BY <1>2, CarryStep
<1>3. CASE Crash
  BY <1>3, CrashStep
<1>4. ASSUME NEW q \in Req, Arrive(q) PROVE IInv'
  BY <1>4, ArriveStep
<1>5. ASSUME NEW q \in Req, Serve(q) PROVE IInv'
  BY <1>5, DecideStep, SaveStep DEF Serve
<1> QED BY <1>1, <1>2, <1>3, <1>4, <1>5 DEF Next

-----------------------------------------------------------------------------
(* The inductive invariant holds in every reachable state: whose object a    *)
(* request is about, what its headers, body and namespace name, and what its *)
(* event says agree (parseOperationFields, enqueueUsageFromLog).            *)
THEOREM MeterInvariant == Spec => []IInv
<1> QED BY InvInit, InvStep, PTL DEF Spec

(* Every part of the metering loop keeps its type (usage.go, oplog.go). *)
THEOREM MeterTyped == Spec => []TypeOK
<1>1. IInv => TypeOK BY DEF IInv
<1> QED BY <1>1, MeterInvariant, PTL

(* Whatever is lost, late or delivered twice, a charge is for what a        *)
(* handler reported as done; it goes to the owner of the object if the     *)
(* request or its before-image tells whose it is, and to the merchant of   *)
(* the body or to the namespace if neither does (enqueueUsageFromLog).     *)
THEOREM MeterChargesAreEarned == Spec => []ChargesAreEarned
<1>1. IInv => ChargesAreEarned
  BY DEF IInv, EarnInv, Moving, Earned, Object, ChargesAreEarned
<1> QED BY <1>1, MeterInvariant, PTL

-----------------------------------------------------------------------------
(* Append puts one element at the end, Tail takes the only copy away. *)
LEMMA DistinctAppend ==
    ASSUME NEW s \in Seq(Req), NEW q \in Req, Distinct(s), ~Contains(s, q)
    PROVE  Distinct(Append(s, q))
BY AppendProperties, LenProperties DEF Distinct, Contains

(* The first of distinct elements is not among the rest. *)
LEMMA DistinctTail ==
    ASSUME NEW s \in Seq(Req), s # <<>>, Distinct(s)
    PROVE  /\ Distinct(Tail(s)) /\ ~Contains(Tail(s), Head(s))
           /\ \A x : Contains(s, x) <=> x = Head(s) \/ Contains(Tail(s), x)
<1>1. /\ Tail(s) \in Seq(Req) /\ Len(Tail(s)) = Len(s) - 1 /\ Len(s) \in Nat
      /\ Head(s) = s[1] /\ 1 \in 1..Len(s)
      /\ \A i \in 1..Len(Tail(s)) : i + 1 \in 1..Len(s) /\ Tail(s)[i] = s[i + 1]
  BY HeadTailProperties, EmptySeq, LenProperties
<1>2. Distinct(Tail(s)) /\ ~Contains(Tail(s), Head(s))
  BY <1>1 DEF Distinct, Contains
<1>3. ASSUME NEW x, Contains(s, x), x # Head(s) PROVE Contains(Tail(s), x)
  <2>1. PICK i \in 1..Len(s) : s[i] = x
    BY <1>3 DEF Contains
  <2>2. i # 1
    BY <1>1, <1>3, <2>1
  <2>3. i - 1 \in 1..Len(Tail(s)) /\ (i - 1) + 1 = i
    BY <1>1, <2>1, <2>2
  <2>4. Tail(s)[i - 1] = x
    BY <1>1, <2>1, <2>3
  <2> QED BY <2>3, <2>4 DEF Contains
<1> QED BY <1>2, <1>3, ContainsRest

(* What is unsettled, by the request that made the change. *)
LEMMA UnsettledIs ==
    \A m : /\ Unsettled(m) = {x \in Req : OnWay(x) /\ Owner(Object(x)) = m}
           /\ Unsettled(m)' = {x \in Req : OnWay(x)' /\ Owner(Object(x))' = m}
BY DEF Unsettled, OnWay, Object

(* A request is settled as before when nothing it rests on moved. *)
LEMMA SettledStays ==
    ASSUME NEW x \in Req, Settled(x), started => started',
           req'[x] = req[x], pc'[x] = pc[x], asked'[x] = asked[x],
           ok'[x] = ok[x], image'[x] = image[x], x \in live' => x \in live,
           req[x].op = "delete" =>
               /\ req'[req[x].target] = req[req[x].target]
               /\ ok[req[x].target] => ok'[req[x].target]
               /\ req[x].target \in live' => req[x].target \in live
    PROVE  Settled(x)'
BY DEF Settled, Owner

(* What a merchant is accounted for with, it was before: requests only come. *)
LEMMA AccountedBefore ==
    ASSUME NEW m,
           \A x \in Req : pc[x] # "idle" =>
               pc'[x] # "idle" /\ req'[x] = req[x] /\ Owner(Object(x))' = Owner(Object(x)),
           Accounted(m)'
    PROVE  Accounted(m)
BY DEF Accounted, NamesOwner, HeaderMerchant, CapturedMerchant

(* The same for a step at which no request comes. *)
LEMMA AccountedStays ==
    ASSUME UNCHANGED req, \A x \in Req : pc[x] # "idle" => pc'[x] # "idle", NEW m, Accounted(m)'
    PROVE  Accounted(m)
BY ObjectStays, AccountedBefore

(* A step that leaves every change where it is keeps the count. *)
LEMMA CountStays ==
    ASSUME CountInv, UNCHANGED <<live, occupancy>>,
           \A m \in Merchant : Accounted(m)' => Accounted(m),
           \A m \in Merchant : Accounted(m) => Unsettled(m)' = Unsettled(m),
           \A x \in live : Owner(x)' = Owner(x),
           \A x \in Req : OnWay(x) => req'[x] = req[x]
    PROVE  CountInv'
<1>1. ASSUME NEW m \in Merchant, Accounted(m)
      PROVE  LiveOf(m)' = LiveOf(m) /\ Coming(m)' = Coming(m) /\ Going(m)' = Going(m)
  <2>1. LiveOf(m)' = LiveOf(m)
    BY DEF LiveOf
  <2>2. Unsettled(m)' = Unsettled(m) /\ \A x \in Unsettled(m) : req'[x] = req[x]
    BY <1>1, UnsettledIs
  <2> QED BY <2>1, <2>2 DEF Coming, Going
<1>2. ASSUME NEW m \in Merchant, Accounted(m) PROVE Counted(m)'
  BY <1>1, <1>2 DEF CountInv, Counted
<1> QED BY <1>2 DEF CountInv

(* The same, request by request. *)
LEMMA WayStays ==
    ASSUME CountInv, UNCHANGED <<live, occupancy, req>>,
           \A x \in Req : pc[x] # "idle" => pc'[x] # "idle",
           \A m \in Merchant, x \in Req :
               Accounted(m) /\ Owner(Object(x)) = m => (OnWay(x)' <=> OnWay(x))
    PROVE  CountInv'
<1>1. \A x \in Req : Owner(Object(x))' = Owner(Object(x))
  BY ObjectStays
<1>2. \A m \in Merchant : Accounted(m) => Unsettled(m)' = Unsettled(m)
  BY <1>1, UnsettledIs
<1>3. \A m \in Merchant : Accounted(m)' => Accounted(m)
  BY AccountedStays
<1> QED BY <1>2, <1>3, CountStays DEF Owner

(* What a delete names is an object some request created. *)
LEMMA TargetCreated ==
    ASSUME IInv, NEW x \in Req, req[x].op = "delete"
    PROVE  req[x].target \in Req /\ req[req[x].target].op = "create"
<1>1. req[x] \in Ask \cup {NoAsk} /\ AskedWell(x)
  BY DEF IInv, TypeOK, AskInv
<1> QED BY <1>1, Asks, AsksNothing DEF AskedWell

(* Success comes from the handler, and nothing else takes it back. *)
LEMMA SettledStep ==
    ASSUME Faultless, IInv, SettledInv, [Next]_vars
    PROVE  SettledInv'
<1> SUFFICES ASSUME NEW x \in Req PROVE Settled(x)'
    BY DEF SettledInv
<1>1. Settled(x)
  BY DEF SettledInv
<1>2. CASE /\ started => started'
           /\ UNCHANGED <<pc, req, asked, image, ok, live>>
  BY <1>1, <1>2, SettledStays
<1>3. CASE Crash
  <2>1. MaxCrashes = 0 /\ crashes \in 0..MaxCrashes /\ crashes < MaxCrashes
    BY <1>3 DEF Faultless, IInv, TypeOK, Crash
  <2> QED BY <2>1
<1>4. ASSUME NEW q \in Req, Arrive(q) PROVE Settled(x)'
  <2>1. PICK r \in Ask :
           /\ pc[q] = "idle" /\ started
           /\ r.op = "delete" => r.target \in live \/ ok[r.target]
           /\ req' = [req EXCEPT ![q] = r]
           /\ pc' = [pc EXCEPT ![q] = IF r.op = "create" THEN "quota" ELSE "snapshot"]
           /\ UNCHANGED <<started, asked, image, ok, live>>
    BY <1>4 DEF Arrive, Faultless
  <2>2. req[q] = NoAsk /\ req[q].op = "" /\ ~ok[q] /\ q \notin live /\ asked[q] = ""
    BY <2>1, AsksNothing DEF IInv, AskInv, AskedWell, SettledInv, Settled
  <2>3. CASE x = q
    <3>1. req'[x] = r /\ pc'[x] = IF r.op = "create" THEN "quota" ELSE "snapshot"
      BY <2>1, <2>3 DEF IInv, TypeOK
    <3>2. r.op = "delete" => ok[r.target]
      BY <2>1, Asks DEF SettledInv, Settled
    <3>3. /\ started' /\ ~ok'[x] /\ x \notin live' /\ asked'[x] = ""
          /\ pc'[x] \in {"quota", "snapshot"} /\ (pc'[x] = "quota" => r.op = "create")
          /\ r.op = "delete" => ok'[r.target]
      <4>1. ok' = ok /\ live' = live /\ asked' = asked /\ started' = started /\ started
        BY <2>1
      <4>2. pc'[x] \in {"quota", "snapshot"} /\ (pc'[x] = "quota" => r.op = "create")
        BY <3>1
      <4> QED BY <2>2, <2>3, <3>2, <4>1, <4>2
    <3> QED BY <3>1, <3>3 DEF Settled
  <2>4. CASE x # q
    <3>1. req'[x] = req[x] /\ pc'[x] = pc[x]
      BY <2>1, <2>4 DEF IInv, TypeOK
    <3>2. req[x].op = "delete" => req'[req[x].target] = req[req[x].target]
      <4>1. req[x].op = "delete" => req[x].target \in Req /\ req[x].target # q
        BY <2>2, TargetCreated
      <4> QED BY <2>1, <4>1 DEF IInv, TypeOK
    <3> QED BY <1>1, <2>1, <3>1, <3>2, SettledStays
  <2> QED BY <2>3, <2>4
<1>5. ASSUME NEW q \in Req, SkipQuota(q) \/ CheckQuota(q) PROVE Settled(x)'
  <2>1. /\ UNCHANGED <<started, req, image, ok, live>> /\ pc[q] = "quota"
        /\ x # q => pc'[x] = pc[x] /\ asked'[x] = asked[x]
        /\ pc'[q] \in {"handle", "denied"}
    BY <1>5 DEF SkipQuota, CheckQuota, IInv, TypeOK
  <2>2. ~ok[q] /\ q \notin live /\ req[q].op = "create" /\ started
    BY <2>1 DEF SettledInv, Settled
  <2>3. CASE x = q
    BY <2>1, <2>2, <2>3 DEF Settled
  <2>4. CASE x # q
    BY <1>1, <2>1, <2>4, SettledStays
  <2> QED BY <2>3, <2>4
<1>6. ASSUME NEW q \in Req, Snapshot(q) PROVE Settled(x)'
  <2>1. /\ UNCHANGED <<started, req, asked, ok, live>> /\ pc[q] = "snapshot"
        /\ x # q => pc'[x] = pc[x] /\ image'[x] = image[x]
        /\ pc'[q] = "handle"
        /\ req[q].target \in live => image'[q] = Owner(req[q].target)
    BY <1>6 DEF Snapshot, IInv, TypeOK, Faultless
  <2>2. ~ok[q] /\ q \notin live /\ started
    BY <2>1 DEF SettledInv, Settled
  <2>3. CASE x = q
    <3>1. req[x].op = "delete" => ok[req[x].target]
      BY <1>1 DEF Settled
    <3> QED BY <2>1, <2>2, <2>3, <3>1 DEF Settled, Owner
  <2>4. CASE x # q
    BY <1>1, <2>1, <2>4, SettledStays
  <2> QED BY <2>3, <2>4
<1>7. ASSUME NEW q \in Req, Handle(q) PROVE Settled(x)'
  <2>1. /\ UNCHANGED <<started, req, asked, image>> /\ pc[q] = "handle"
        /\ pc' = [pc EXCEPT ![q] = "save"]
        /\ \/ Works(q) /\ ok' = [ok EXCEPT ![q] = TRUE]
           \/ UNCHANGED <<live, ok>>
    BY <1>7 DEF Handle, Faultless
  <2>2. ~ok[q] /\ q \notin live /\ started
    BY <2>1 DEF SettledInv, Settled
  <2>3. req[x].op = "delete" => req[x].target \in Req /\ ok[req[x].target] /\ req[x].target # q
    BY <1>1, <2>2, TargetCreated DEF Settled
  <2>4. \A y \in Req : y # q => pc'[y] = pc[y] /\ ok'[y] = ok[y] /\ (y \in live' => y \in live)
    <3>1. \A y \in Req : y # q => pc'[y] = pc[y] /\ ok'[y] = ok[y]
      BY <2>1 DEF IInv, TypeOK
    <3>2. \A y \in Req : y # q => (y \in live' => y \in live)
      BY <2>1 DEF Works
    <3> QED BY <3>1, <3>2
  <2>5. pc'[q] = "save"
    BY <2>1 DEF IInv, TypeOK
  <2>6. CASE x = q
    <3>1. CASE UNCHANGED <<live, ok>>
      BY <1>1, <2>1, <2>2, <2>5, <2>6, <3>1 DEF Settled
    <3>2. CASE Works(q) /\ ok' = [ok EXCEPT ![q] = TRUE]
      <4>1. ok'[q]
        BY <3>2 DEF IInv, TypeOK
      <4>2. CASE req[q].op = "create"
        BY <1>1, <2>1, <2>2, <2>5, <2>6, <4>1, <4>2 DEF Settled
      <4>3. CASE req[q].op # "create"
        <5>1. req[q].target \in live /\ q \notin live' /\ req[q].op = "delete"
          <6>1. req[q] \in Ask
            BY <2>1 DEF IInv, AskInv, AskedWell
          <6> QED BY <2>2, <3>2, <4>3, <6>1, Asks DEF Works
        <5>2. image[q] = Owner(req[q].target) /\ ok'[req[q].target]
          BY <1>1, <2>1, <2>3, <2>4, <2>6, <5>1 DEF Settled
        <5> QED BY <1>1, <2>1, <2>2, <2>5, <2>6, <4>1, <5>1, <5>2 DEF Settled, Owner
      <4> QED BY <4>2, <4>3
    <3> QED BY <2>1, <3>1, <3>2
  <2>7. CASE x # q
    BY <1>1, <2>1, <2>3, <2>4, <2>7, SettledStays
  <2> QED BY <2>6, <2>7
<1>8. ASSUME NEW q \in Req, Save(q) PROVE Settled(x)'
  <2>1. /\ UNCHANGED <<started, req, asked, image, ok, live>>
        /\ pc[q] = "save" /\ pc' = [pc EXCEPT ![q] = "done"]
    BY <1>8 DEF Save
  <2>2. CASE x = q
    <3>1. pc'[x] = "done" /\ pc[x] = "save"
      BY <2>1, <2>2 DEF IInv, TypeOK
    <3>2. req' = req /\ image' = image /\ \A o : Owner(o)' = Owner(o)
      BY <2>1 DEF Owner
    <3>3. req[x].op = "delete" /\ ok[x] => image[x] = Owner(req[x].target)
      BY <1>1, <3>1 DEF Settled
    <3>4. req[x].op = "delete" /\ ok'[x] => image'[x] = Owner(req[x].target)'
      BY <2>1, <3>2, <3>3
    <3> QED BY <1>1, <2>1, <3>1, <3>2, <3>4 DEF Settled
  <2>3. CASE x # q
    <3>1. pc'[x] = pc[x]
      BY <2>1, <2>3 DEF IInv, TypeOK
    <3> QED BY <1>1, <2>1, <3>1, SettledStays
  <2> QED BY <2>2, <2>3
<1>9. StartUsagePublisher \/ UsageLoop \/ Consume \/ UNCHANGED vars =>
         (started => started') /\ UNCHANGED <<pc, req, asked, image, ok, live>>
  BY DEF StartUsagePublisher, UsageLoop, Consume, vars
<1> QED BY <1>2, <1>3, <1>4, <1>5, <1>6, <1>7, <1>8, <1>9 DEF Next, Serve

(* An event enters a queue that does not hold it and leaves the topic last. *)
LEMMA OnceStep ==
    ASSUME Faultless, IInv, OnceInv, [Next]_vars
    PROVE  OnceInv'
<1>1. queue \in Seq(Req) /\ topic \in Seq(Req)
  BY DEF IInv, TypeOK
<1>2. CASE UNCHANGED <<queue, topic>>
  BY <1>2 DEF OnceInv
<1>3. ASSUME NEW q \in Req, Save(q), queue' = Append(queue, q) PROVE OnceInv'
  <2>1. ~Contains(queue, q) /\ ~Contains(topic, q)
    BY <1>3 DEF Save, IInv, EarnInv, Earned, Moving
  <2>2. Distinct(queue')
    BY <1>1, <1>3, <2>1, DistinctAppend DEF OnceInv
  <2>3. topic' = topic /\ \A x : Contains(queue', x) <=> Contains(queue, x) \/ x = q
    BY <1>1, <1>3, ContainsAppend DEF Save
  <2> QED BY <2>1, <2>2, <2>3 DEF OnceInv
<1>4. CASE UsageLoop
  <2>1. /\ queue # <<>> /\ queue' = Tail(queue) /\ topic' = Append(topic, Head(queue))
    BY <1>4 DEF UsageLoop, PublishUsage, Faultless
  <2>2. Head(queue) \in Req /\ Contains(queue, Head(queue)) /\ ~Contains(topic, Head(queue))
    BY <1>1, <2>1, ContainsRest DEF OnceInv
  <2>3. /\ Distinct(queue') /\ ~Contains(queue', Head(queue))
        /\ \A x : Contains(queue', x) => Contains(queue, x)
    BY <1>1, <2>1, DistinctTail DEF OnceInv
  <2>4. /\ Distinct(topic')
        /\ \A x : Contains(topic', x) <=> Contains(topic, x) \/ x = Head(queue)
    BY <1>1, <2>1, <2>2, DistinctAppend, ContainsAppend DEF OnceInv
  <2> QED BY <2>3, <2>4 DEF OnceInv
<1>5. CASE Consume
  <2>1. topic # <<>> /\ topic' = Tail(topic) /\ queue' = queue
    BY <1>5 DEF Consume
  <2>2. Distinct(topic') /\ \A x : Contains(topic', x) => Contains(topic, x)
    BY <1>1, <2>1, DistinctTail DEF OnceInv
  <2> QED BY <2>1, <2>2 DEF OnceInv
<1>6. CASE Crash
  <2>1. MaxCrashes = 0 /\ crashes \in 0..MaxCrashes /\ crashes < MaxCrashes
    BY <1>6 DEF Faultless, IInv, TypeOK, Crash
  <2> QED BY <2>1
<1>7. ASSUME NEW q \in Req, Save(q) PROVE UNCHANGED <<queue, topic>> \/ queue' = Append(queue, q)
  BY <1>7 DEF Save
<1>8. ASSUME NEW q \in Req, Arrive(q) \/ SkipQuota(q) \/ CheckQuota(q) \/ Snapshot(q) \/ Handle(q)
      PROVE  UNCHANGED <<queue, topic>>
  BY <1>8 DEF Arrive, SkipQuota, CheckQuota, Snapshot, Handle
<1>9. StartUsagePublisher \/ UNCHANGED vars => UNCHANGED <<queue, topic>>
  BY DEF StartUsagePublisher, vars
<1> QED BY <1>2, <1>3, <1>4, <1>5, <1>6, <1>7, <1>8, <1>9 DEF Next, Serve

(* A change that worked, for a merchant that is accounted for, is charged. *)
LEMMA ChargeComes ==
    ASSUME Faultless, IInv, NEW q \in Req, Settled(q), pc[q] = "save", ok[q],
           NEW m \in Merchant, Accounted(m), Owner(Object(q)) = m
    PROVE  Chargeable(q)
<1>1. req[q] \in Ask /\ AskedWell(q) /\ req[q].op \in {"create", "delete"}
  BY Asks DEF IInv, AskInv, AskedWell
<1>2. UsageDelta(q) # 0
  BY DEF UsageDelta
<1>3. ChargedMerchant(q) \in Merchant
  <2>1. CASE req[q].op = "create"
    <3>1. image[q] = "" /\ ChargedMerchant(q) = RequestMerchant(q)
      BY <1>1, <2>1 DEF AskedWell, ChargedMerchant
    <3>2. NamesOwner(q)
      BY <2>1 DEF Accounted
    <3>3. CapturedMerchant(q) \in Merchant \cup {""}
      BY <1>1, Asks DEF CapturedMerchant
    <3> QED BY <3>1, <3>2, <3>3, Names DEF NamesOwner, RequestMerchant
  <2>2. CASE req[q].op = "delete"
    <3>1. Object(q) = req[q].target /\ image[q] = Owner(req[q].target)
      BY <2>2 DEF Object, Settled
    <3>2. image[q] \in Merchant /\ image[q] # ""
      BY <3>1, Names
    <3> QED BY <2>2, <3>2 DEF ChargedMerchant
  <2> QED BY <1>1, <2>1, <2>2
<1> QED BY <1>2, <1>3, Names DEF Chargeable, SkipUsageMerchant

(* The event of a merchant that is accounted for is about its own object,  *)
(* and no other one is.                                                    *)
LEMMA EventFits ==
    ASSUME IInv, NEW q \in Req, Settled(q), Earned(q), NEW m, Accounted(m)
    PROVE  event[q].merchant = m <=> Owner(Object(q)) = m
<1>1. pc[q] = "done" /\ ok[q] /\ req[q] \in Ask /\ req[q].op \in {"create", "delete"}
  BY Asks DEF Earned, IInv, AskInv, AskedWell
<1>2. CASE NamesOwner(q) \/ image[q] # ""
  BY <1>2 DEF Earned
<1>3. CASE ~NamesOwner(q) /\ image[q] = ""
  <2>1. event[q].merchant \in {req[q].by.body, req[q].by.namespace}
    BY <1>3 DEF Earned
  <2>2. req[q].op = "create" \/ Owner(Object(q)) = ""
    BY <1>1, <1>3 DEF Settled, Object
  <2>3. m \notin {Owner(Object(q)), req[q].by.body, req[q].by.namespace}
    BY <1>1, <1>3, <2>2 DEF Accounted
  <2> QED BY <2>1, <2>3
<1> QED BY <1>2, <1>3

(* One more element, or one less, is one more or one less to count. *)
LEMMA CountMore ==
    ASSUME NEW S, NEW x, IsFiniteSet(S)
    PROVE  /\ x \notin S => IsFiniteSet(S \cup {x}) /\ Cardinality(S \cup {x}) = Cardinality(S) + 1
           /\ x \in S => IsFiniteSet(S \ {x}) /\ Cardinality(S \ {x}) = Cardinality(S) - 1
BY FS_AddElement, FS_RemoveElement

(* The sets that are counted for a merchant are finite. *)
LEMMA Countable ==
    ASSUME CountInv, NEW m \in Merchant, Accounted(m)
    PROVE  /\ IsFiniteSet(Unsettled(m))
           /\ IsFiniteSet(LiveOf(m)) /\ IsFiniteSet(Coming(m)) /\ IsFiniteSet(Going(m))
           /\ Cardinality(LiveOf(m)) \in Nat /\ Cardinality(Coming(m)) \in Nat
           /\ Cardinality(Going(m)) \in Nat
           /\ Cardinality(LiveOf(m)) =
                occupancy[m] + Cardinality(Coming(m)) - Cardinality(Going(m))
<1>1. IsFiniteSet(live) /\ Counted(m)
  BY DEF CountInv
<1>2. LiveOf(m) \subseteq live /\ Coming(m) \subseteq Unsettled(m) /\ Going(m) \subseteq Unsettled(m)
  BY DEF LiveOf, Coming, Going
<1>3. IsFiniteSet(LiveOf(m)) /\ IsFiniteSet(Coming(m)) /\ IsFiniteSet(Going(m))
  BY <1>1, <1>2, FS_Subset DEF Counted
<1> QED BY <1>1, <1>3, FS_CardinalityType DEF Counted

(* The count from its parts, in the next state. *)
LEMMA CountFrom ==
    ASSUME IsFiniteSet(live)',
           UNCHANGED req, \A x \in Req : pc[x] # "idle" => pc'[x] # "idle",
           \A m \in Merchant : Accounted(m) => Counted(m)'
    PROVE  CountInv'
BY AccountedStays DEF CountInv

(* The handler makes an object or removes one, and the change is under way. *)
LEMMA HandleCounts ==
    ASSUME Faultless, IInv, SettledInv, CountInv, NEW q \in Req, Handle(q)
    PROVE  CountInv'
<1>1. /\ UNCHANGED <<req, occupancy, queue, topic>> /\ pc[q] = "handle"
      /\ pc' = [pc EXCEPT ![q] = "save"]
      /\ \/ Works(q) /\ ok' = [ok EXCEPT ![q] = TRUE]
         \/ UNCHANGED <<live, ok>>
  BY DEF Handle, Faultless
<1>2. /\ ~ok[q] /\ q \notin live /\ ~OnWay(q) /\ Settled(q) /\ req[q] \in Ask
  BY <1>1 DEF SettledInv, Settled, OnWay, IInv, AskInv, AskedWell
<1>3. \A x \in Req : x # q => (OnWay(x)' <=> OnWay(x))
  BY <1>1 DEF IInv, TypeOK, OnWay
<1>4. \A x \in Req : Owner(x)' = Owner(x) /\ Owner(Object(x))' = Owner(Object(x))
  BY <1>1, ObjectStays DEF Owner
<1>9. \A x \in Req : pc[x] # "idle" => pc'[x] # "idle"
  BY <1>1 DEF IInv, TypeOK
<1>5. CASE UNCHANGED <<live, ok>>
  <2>1. ~OnWay(q)'
    BY <1>2, <1>5 DEF OnWay
  <2> QED BY <1>1, <1>2, <1>3, <1>5, <1>9, <2>1, WayStays
<1>6. CASE Works(q) /\ ok' = [ok EXCEPT ![q] = TRUE]
  <2>1. OnWay(q)'
    BY <1>1, <1>6 DEF IInv, TypeOK, OnWay
  <2>2. IsFiniteSet(live)'
    <3>1. live' = live \cup {q} \/ live' = live \ {req[q].target}
      BY <1>6 DEF Works
    <3> QED BY <3>1, FS_AddElement, FS_RemoveElement DEF CountInv
  <2>3. ASSUME NEW m \in Merchant, Accounted(m)
        PROVE  /\ IsFiniteSet(Unsettled(m))'
               /\ Cardinality(LiveOf(m))' =
                    occupancy'[m] + Cardinality(Coming(m))' - Cardinality(Going(m))'
    <3>0. CountInv /\ m \in Merchant /\ Accounted(m)
      BY <2>3
    <3>1. occupancy[m] \in Int /\ occupancy'[m] = occupancy[m]
      BY <1>1, HaveAccounts DEF IInv, TypeOK
    <3>2. q \notin Unsettled(m) /\ IsFiniteSet(Unsettled(m)) /\ q \notin LiveOf(m)
      BY <1>2, <3>0, UnsettledIs, Countable DEF LiveOf
    <3>3. q \notin Coming(m) /\ q \notin Going(m)
      BY <3>2 DEF Coming, Going
    <3>4. CASE Owner(Object(q)) # m
      <4>1. Unsettled(m)' = Unsettled(m)
        BY <1>3, <1>4, <2>1, <3>2, <3>4, UnsettledIs
      <4>2. Coming(m)' = Coming(m) /\ Going(m)' = Going(m)
        BY <1>1, <4>1 DEF Coming, Going
      <4>3. LiveOf(m)' = LiveOf(m)
        <5>1. CASE req[q].op = "create"
          BY <1>4, <1>6, <3>4, <5>1 DEF LiveOf, Works, Object, IInv, TypeOK
        <5>2. CASE req[q].op # "create"
          BY <1>4, <1>6, <3>4, <5>2 DEF LiveOf, Works, Object, IInv, TypeOK
        <5> QED BY <5>1, <5>2
      <4> QED BY <3>1, <3>2, <4>1, <4>2, <4>3, <3>0, Countable
    <3>5. CASE Owner(Object(q)) = m
      <4>1. Unsettled(m)' = Unsettled(m) \cup {q}
        BY <1>3, <1>4, <2>1, <3>5, UnsettledIs
      <4>2. IsFiniteSet(Unsettled(m))'
        BY <3>2, <4>1, CountMore
      <4>3. CASE req[q].op = "create"
        <5>1. Coming(m)' = Coming(m) \cup {q} /\ Going(m)' = Going(m)
          BY <1>1, <4>1, <4>3 DEF Coming, Going
        <5>2. LiveOf(m)' = LiveOf(m) \cup {q}
          BY <1>4, <1>6, <3>5, <4>3 DEF LiveOf, Works, Object, IInv, TypeOK
        <5>3. /\ Cardinality(LiveOf(m) \cup {q}) = Cardinality(LiveOf(m)) + 1
              /\ Cardinality(Coming(m) \cup {q}) = Cardinality(Coming(m)) + 1
          BY <3>2, <3>3, <3>0, Countable, CountMore
        <5> QED BY <3>1, <4>2, <5>1, <5>2, <5>3, <3>0, Countable
      <4>4. CASE req[q].op # "create"
        <5>1. req[q].op = "delete" /\ req[q].target \in live /\ Object(q) = req[q].target
          BY <1>2, <1>6, <4>4, Asks DEF Works, Object
        <5>2. Coming(m)' = Coming(m) /\ Going(m)' = Going(m) \cup {q}
          BY <1>1, <4>1, <5>1 DEF Coming, Going
        <5>3. /\ LiveOf(m)' = LiveOf(m) \ {req[q].target} /\ req[q].target \in LiveOf(m)
          BY <1>4, <1>6, <3>5, <4>4, <5>1 DEF LiveOf, Works, IInv, TypeOK
        <5>4. /\ Cardinality(LiveOf(m) \ {req[q].target}) = Cardinality(LiveOf(m)) - 1
              /\ Cardinality(Going(m) \cup {q}) = Cardinality(Going(m)) + 1
          BY <3>3, <5>3, <3>0, Countable, CountMore
        <5> QED BY <3>1, <4>2, <5>2, <5>3, <5>4, <3>0, Countable
      <4> QED BY <4>3, <4>4
    <3> QED BY <3>4, <3>5
  <2>4. \A m \in Merchant : Accounted(m) => Counted(m)'
    BY <2>3 DEF Counted
  <2> QED BY <1>1, <1>9, <2>2, <2>4, CountFrom
<1> QED BY <1>1, <1>5, <1>6

(* The consumer adds the delta of the event it takes off the topic. *)
LEMMA ConsumeCounts ==
    ASSUME IInv, SettledInv, OnceInv, CountInv, Consume
    PROVE  CountInv'
<1>0. PICK q \in Req : q = Head(topic)
  BY ContainsRest DEF Consume, IInv, TypeOK
<1>1. /\ topic # <<>> /\ topic' = Tail(topic) /\ topic \in Seq(Req)
      /\ occupancy' = [occupancy EXCEPT ![event[q].merchant] = @ + event[q].delta]
      /\ UNCHANGED <<pc, req, ok, live, queue>>
  BY <1>0 DEF Consume, IInv, TypeOK
<1>2. /\ q \in Req /\ Contains(topic, q) /\ ~Contains(topic', q)
      /\ \A x : Contains(topic, x) <=> x = q \/ Contains(topic', x)
  BY <1>0, <1>1, ContainsRest, DistinctTail DEF OnceInv
<1>3. /\ Earned(q) /\ ~Contains(queue, q)
  BY <1>2 DEF IInv, EarnInv, Moving, OnceInv
<1>4. OnWay(q) /\ ~OnWay(q)' /\ \A x \in Req : x # q => (OnWay(x)' <=> OnWay(x))
  <2>1. ok[q] /\ pc[q] # "save"
    BY <1>3 DEF Earned
  <2>2. OnWay(q) /\ ~OnWay(q)'
    BY <1>1, <1>2, <1>3, <2>1, Zenon DEF OnWay
  <2>3. \A x \in Req : x # q => (OnWay(x)' <=> OnWay(x))
    BY <1>1, <1>2, Zenon DEF OnWay
  <2> QED BY <2>2, <2>3
<1>5. \A x \in Req : Owner(x)' = Owner(x) /\ Owner(Object(x))' = Owner(Object(x))
  BY <1>1, ObjectStays DEF Owner
<1>6. IsFiniteSet(live)'
  BY <1>1 DEF CountInv
<1>7. ASSUME NEW m \in Merchant, Accounted(m)
      PROVE  /\ IsFiniteSet(Unsettled(m))'
             /\ Cardinality(LiveOf(m))' =
                  occupancy'[m] + Cardinality(Coming(m))' - Cardinality(Going(m))'
  <2>0. CountInv /\ m \in Merchant /\ Accounted(m)
    BY <1>7
  <2>1. LiveOf(m)' = LiveOf(m)
    BY <1>1, <1>5 DEF LiveOf, IInv, TypeOK
  <2>2. occupancy[m] \in Int /\ IsFiniteSet(Unsettled(m))
    BY <2>0, Countable, HaveAccounts DEF IInv, TypeOK
  <2>5. event[q].merchant = m <=> Owner(Object(q)) = m
    BY <1>2, <1>3, <2>0, EventFits DEF SettledInv
  <2>3. CASE Owner(Object(q)) # m
    <3>1. Unsettled(m)' = Unsettled(m)
      BY <1>4, <1>5, <2>3, UnsettledIs
    <3>2. Coming(m)' = Coming(m) /\ Going(m)' = Going(m)
      BY <1>1, <3>1 DEF Coming, Going
    <3>3. occupancy'[m] = occupancy[m]
      BY <1>1, <2>3, <2>5, HaveAccounts DEF IInv, TypeOK
    <3> QED BY <2>1, <2>2, <3>1, <3>2, <3>3, <2>0, Countable
  <2>4. CASE Owner(Object(q)) = m
    <3>1. Unsettled(m)' = Unsettled(m) \ {q} /\ q \in Unsettled(m)
      <4>1. q \in Unsettled(m)
        BY <1>2, <1>4, <2>4, UnsettledIs
      <4>2. \A x : x \in Unsettled(m)' <=> x \in Unsettled(m) /\ x # q
        BY <1>4, <1>5, UnsettledIs
      <4> QED BY <4>1, <4>2
    <3>2. IsFiniteSet(Unsettled(m))'
      BY <2>2, <3>1, CountMore
    <3>3. occupancy'[m] = occupancy[m] + event[q].delta
      BY <1>1, <2>4, <2>5, HaveAccounts DEF IInv, TypeOK
    <3>4. CASE req[q].op = "create"
      <4>1. Coming(m)' = Coming(m) \ {q} /\ Going(m)' = Going(m) /\ q \in Coming(m)
        BY <1>1, <3>1, <3>4 DEF Coming, Going
      <4>2. event[q].delta = 1
        BY <1>3, <3>4 DEF Earned
      <4>3. Cardinality(Coming(m) \ {q}) = Cardinality(Coming(m)) - 1
        BY <4>1, <2>0, Countable, CountMore
      <4> QED BY <2>1, <2>2, <3>2, <3>3, <4>1, <4>2, <4>3, <2>0, Countable
    <3>5. CASE req[q].op # "create"
      <4>1. req[q].op = "delete"
        <5>1. req[q] \in Ask
          BY <1>2, <1>3 DEF Earned, IInv, AskInv, AskedWell
        <5> QED BY <3>5, <5>1, Asks
      <4>2. Going(m)' = Going(m) \ {q} /\ Coming(m)' = Coming(m) /\ q \in Going(m)
        BY <1>1, <3>1, <4>1 DEF Coming, Going
      <4>3. event[q].delta = -1
        BY <1>3, <3>5 DEF Earned
      <4>4. Cardinality(Going(m) \ {q}) = Cardinality(Going(m)) - 1
        BY <4>2, <2>0, Countable, CountMore
      <4> QED BY <2>1, <2>2, <3>2, <3>3, <4>2, <4>3, <4>4, <2>0, Countable
    <3> QED BY <3>4, <3>5
  <2> QED BY <2>3, <2>4
<1>8. \A m \in Merchant : Accounted(m) => Counted(m)'
  BY <1>7 DEF Counted
<1> QED BY <1>1, <1>6, <1>8, CountFrom

(* What a request asks for is not changed once it made a change. *)
LEMMA ArriveCounts ==
    ASSUME IInv, SettledInv, CountInv, NEW q \in Req, Arrive(q)
    PROVE  CountInv'
<1>1. /\ pc[q] = "idle" /\ pc'[q] \in {"quota", "snapshot"}
      /\ UNCHANGED <<ok, live, queue, topic, occupancy>>
      /\ \A x \in Req : x # q => req'[x] = req[x] /\ pc'[x] = pc[x]
  BY DEF Arrive, IInv, TypeOK
<1>2. ~ok[q] /\ q \notin live /\ req[q].op = ""
  BY <1>1, AsksNothing DEF SettledInv, Settled, IInv, AskInv, AskedWell
<1>3. \A x \in Req : OnWay(x)' <=> OnWay(x)
  BY <1>1, <1>2 DEF OnWay
<1>4. ASSUME NEW x \in Req, pc[x] # "idle"
      PROVE  pc'[x] # "idle" /\ req'[x] = req[x] /\ Owner(Object(x))' = Owner(Object(x))
  <2>1. x # q /\ req'[x] = req[x] /\ pc[x] # "idle" /\ pc'[x] # "idle"
    BY <1>1, <1>4
  <2>2. req[x] \in Ask
    BY <2>1 DEF IInv, AskInv, AskedWell
  <2>3. Object(x)' = Object(x)
    BY <2>1 DEF Object
  <2>4. req'[Object(x)] = req[Object(x)]
    <3>1. CASE req[x].op = "create"
      BY <2>1, <3>1 DEF Object
    <3>2. CASE req[x].op = "delete"
      BY <1>1, <1>2, <3>2, TargetCreated DEF Object
    <3> QED BY <2>2, <3>1, <3>2, Asks
  <2> QED BY <2>1, <2>3, <2>4 DEF Owner
<1>7. \A x \in Req : OnWay(x) => pc[x] # "idle"
  BY DEF OnWay, SettledInv, Settled
<1>5. \A m \in Merchant : Unsettled(m)' = Unsettled(m)
  BY <1>3, <1>4, <1>7, UnsettledIs
<1>8. \A m \in Merchant : Accounted(m)' => Accounted(m)
  BY <1>4, AccountedBefore
<1>6. \A x \in live : Owner(x)' = Owner(x)
  BY <1>1, <1>2 DEF Owner, IInv, TypeOK
<1> QED BY <1>1, <1>4, <1>5, <1>6, <1>7, <1>8, CountStays

(* Save queues what counts, and what it does not queue counts for nobody. *)
LEMMA SaveCounts ==
    ASSUME Faultless, IInv, SettledInv, CountInv, Roomy, NEW q \in Req, Save(q)
    PROVE  CountInv'
<1>1. /\ UNCHANGED <<req, ok, live, topic, occupancy>>
      /\ pc[q] = "save" /\ pc' = [pc EXCEPT ![q] = "done"]
      /\ Settled(q) /\ started
  BY DEF Save, SettledInv, Settled
<1>2. \/ Chargeable(q) /\ queue' = Append(queue, q)
      \/ ~Chargeable(q) /\ queue' = queue
  BY <1>1 DEF Save, Roomy
<1>3. \A x \in Req : Contains(queue', x) <=> Contains(queue, x) \/ (x = q /\ Chargeable(q))
  <2>1. \A x : Contains(Append(queue, q), x) <=> Contains(queue, x) \/ x = q
    BY ContainsAppend DEF IInv, TypeOK
  <2> QED BY <1>2, <2>1
<1>4. ~Contains(queue, q) /\ ~Contains(topic, q) /\ pc'[q] = "done"
  BY <1>1 DEF IInv, EarnInv, Earned, Moving, TypeOK
<1>5. ASSUME NEW m \in Merchant, NEW x \in Req, Accounted(m), Owner(Object(x)) = m
      PROVE  OnWay(x)' <=> OnWay(x)
  <2>1. CASE x = q
    <3>1. CASE ok[q]
      <4>1. Chargeable(q)
        BY <1>1, <1>5, <2>1, <3>1, ChargeComes
      <4> QED BY <1>1, <1>3, <2>1, <3>1, <4>1 DEF OnWay
    <3>2. CASE ~ok[q]
      BY <1>1, <2>1, <3>2 DEF OnWay
    <3> QED BY <3>1, <3>2
  <2>2. CASE x # q
    BY <1>1, <1>3, <2>2 DEF OnWay, IInv, TypeOK
  <2> QED BY <2>1, <2>2
<1>6. \A x \in Req : pc[x] # "idle" => pc'[x] # "idle"
  BY <1>1 DEF IInv, TypeOK
<1> QED BY <1>1, <1>5, <1>6, WayStays

(* An event that moves from the queue to the topic is on its way still. *)
LEMMA LoopCounts ==
    ASSUME Faultless, IInv, OnceInv, CountInv, UsageLoop
    PROVE  CountInv'
<1>1. /\ queue # <<>> /\ queue' = Tail(queue) /\ topic' = Append(topic, Head(queue))
      /\ UNCHANGED <<pc, req, ok, live, occupancy>>
  BY DEF UsageLoop, PublishUsage, Faultless
<1>2. queue \in Seq(Req) /\ topic \in Seq(Req)
  BY DEF IInv, TypeOK
<1>3. /\ \A x : Contains(queue, x) <=> x = Head(queue) \/ Contains(queue', x)
      /\ \A x : Contains(topic', x) <=> Contains(topic, x) \/ x = Head(queue)
  BY <1>1, <1>2, ContainsRest, ContainsAppend, DistinctTail DEF OnceInv
<1>4. \A x \in Req : OnWay(x)' <=> OnWay(x)
  BY <1>1, <1>3 DEF OnWay
<1> QED BY <1>1, <1>4, WayStays

(* Every step of a faultless meter whose queue has room keeps the count. *)
LEMMA MeterStep ==
    ASSUME Faultless, MeterInv, Roomy, [Next]_vars
    PROVE  MeterInv'
<1> USE DEF MeterInv
<1>1. IInv' /\ SettledInv' /\ OnceInv'
  BY InvStep, SettledStep, OnceStep
<1>2. CASE StartUsagePublisher \/ UNCHANGED vars
  <2>1. UNCHANGED <<pc, req, ok, live, queue, topic, occupancy>>
    BY <1>2 DEF StartUsagePublisher, vars
  <2>2. CountInv'
    BY <2>1, WayStays DEF OnWay
  <2> QED BY <1>1, <2>2
<1>3. CASE UsageLoop \/ Consume
  BY <1>1, <1>3, LoopCounts, ConsumeCounts
<1>4. CASE Crash
  <2>1. MaxCrashes = 0 /\ crashes \in 0..MaxCrashes /\ crashes < MaxCrashes
    BY <1>4 DEF Faultless, IInv, TypeOK, Crash
  <2> QED BY <2>1
<1>5. ASSUME NEW q \in Req, SkipQuota(q) \/ CheckQuota(q) \/ Snapshot(q) PROVE CountInv'
  <2>1. /\ UNCHANGED <<req, ok, live, queue, topic, occupancy>>
        /\ pc[q] # "save" /\ \E p : pc' = [pc EXCEPT ![q] = p] /\ p \in {"handle", "denied"}
    BY <1>5 DEF SkipQuota, CheckQuota, Snapshot
  <2>2. \A x \in Req : OnWay(x)' <=> OnWay(x)
    BY <2>1 DEF OnWay, IInv, TypeOK
  <2>3. \A x \in Req : pc[x] # "idle" => pc'[x] # "idle"
    BY <2>1 DEF IInv, TypeOK
  <2> QED BY <2>1, <2>2, <2>3, WayStays
<1>6. ASSUME NEW q \in Req, Arrive(q) \/ Serve(q) PROVE CountInv'
  BY <1>5, <1>6, ArriveCounts, HandleCounts, SaveCounts DEF Serve
<1> QED BY <1>1, <1>2, <1>3, <1>4, <1>6 DEF Next

(* Nothing exists and nothing is counted at the start. *)
LEMMA MeterInit == Init => MeterInv
<1> SUFFICES ASSUME Init PROVE MeterInv
    OBVIOUS
<1>1. \A x \in Req : /\ pc[x] = "idle" /\ ~ok[x] /\ asked[x] = "" /\ req[x] = NoAsk
                     /\ x \notin live
  BY DEF Init
<1>2. SettledInv
  BY <1>1, AsksNothing DEF SettledInv, Settled
<1>3. OnceInv
  <2>1. queue = <<>> /\ topic = <<>>
    BY DEF Init
  <2>2. Distinct(<<>>)
    BY EmptySeq DEF Distinct
  <2> QED BY <2>1, <2>2, ContainsEmpty DEF OnceInv
<1>4. CountInv
  <2>1. live = {} /\ \A m \in Merchant : occupancy[m] = 0
    BY HaveAccounts DEF Init
  <2>2. \A m : LiveOf(m) = {} /\ Unsettled(m) = {}
    BY <1>1, <2>1 DEF LiveOf, Unsettled
  <2>3. \A m : Coming(m) = {} /\ Going(m) = {}
    BY <2>2 DEF Coming, Going
  <2>4. ASSUME NEW m \in Merchant
        PROVE  Cardinality(LiveOf(m)) = occupancy[m] + Cardinality(Coming(m)) - Cardinality(Going(m))
    <3>1. occupancy[m] = 0 /\ LiveOf(m) = {} /\ Coming(m) = {} /\ Going(m) = {}
      BY <2>1, <2>2, <2>3
    <3>2. Cardinality(LiveOf(m)) = 0 /\ Cardinality(Coming(m)) = 0 /\ Cardinality(Going(m)) = 0
      BY <3>1, FS_EmptySet
    <3> QED BY <3>1, <3>2
  <2>5. IsFiniteSet(live) /\ \A m : IsFiniteSet(Unsettled(m))
    BY <2>1, <2>2, FS_EmptySet
  <2> QED BY <2>4, <2>5 DEF CountInv, Counted
<1> QED BY <1>2, <1>3, <1>4, InvInit DEF MeterInv

(* With nothing on its way, what exists is what was counted. *)
LEMMA NothingOnItsWay ==
    ASSUME CountInv, NEW m \in Merchant, Accounted(m), Unsettled(m) = {}, occupancy[m] \in Int
    PROVE  Cardinality(LiveOf(m)) = occupancy[m]
<1>1. Coming(m) = {} /\ Going(m) = {}
  BY DEF Coming, Going
<1>2. Cardinality(Coming(m)) = 0 /\ Cardinality(Going(m)) = 0
  BY <1>1, FS_EmptySet
<1>3. Cardinality(LiveOf(m)) = occupancy[m] + Cardinality(Coming(m)) - Cardinality(Going(m))
  BY Countable
<1> QED BY <1>2, <1>3

(* A queue that has a place for every request has room for the next one. *)
LEMMA RoomForAll ==
    ASSUME MeterInv, IsFiniteSet(Req), Cardinality(Req) <= QueueCap
    PROVE  Roomy
<1> SUFFICES ASSUME NEW q \in Req, pc[q] = "save" PROVE ~QueueFull
    BY DEF Roomy
<1>1. queue \in Seq(Req) /\ Len(queue) \in Nat /\ ~Contains(queue, q)
  BY LenProperties DEF MeterInv, IInv, TypeOK, EarnInv, Earned, Moving
<1>2. IsFiniteSet(Req \ {q}) /\ Cardinality(Req \ {q}) = Cardinality(Req) - 1
  BY CountMore
<1>3. queue \in Injection(1..Len(queue), Req \ {q})
  <2>1. queue \in [1..Len(queue) -> Req \ {q}]
    <3>1. queue = [i \in 1..Len(queue) |-> queue[i]] /\ \A i \in 1..Len(queue) : queue[i] \in Req
      BY <1>1
    <3>2. \A i \in 1..Len(queue) : queue[i] # q
      BY <1>1 DEF Contains
    <3> QED BY <3>1, <3>2
  <2>2. Distinct(queue)
    BY DEF MeterInv, OnceInv
  <2> QED BY <2>1, <2>2 DEF Injection, IsInjective, Distinct
<1>4. Cardinality(1..Len(queue)) <= Cardinality(Req \ {q}) /\ Cardinality(1..Len(queue)) = Len(queue)
  <2>1. Cardinality(1..Len(queue)) <= Cardinality(Req \ {q})
    BY <1>2, <1>3, FS_Injection
  <2>2. Cardinality(1..Len(queue)) = IF 1 > Len(queue) THEN 0 ELSE Len(queue) - 1 + 1
    <3>1. 1 \in Int /\ Len(queue) \in Int
      BY <1>1
    <3> QED BY <3>1, FS_Interval
  <2> QED BY <1>1, <2>1, <2>2
<1>5. Cardinality(Req) \in Nat
  BY FS_CardinalityType
<1> QED BY <1>1, <1>2, <1>4, <1>5, Numbers DEF QueueFull

-----------------------------------------------------------------------------
(* The invariant of the exact meter, as long as no event meets a full queue: *)
(* what was done to the objects of an accounted-for merchant is counted once, *)
(* for that merchant, and nothing else is (enqueueUsageFromLog, usageLoop).   *)
THEOREM MeterInvariantUnlessFull ==
    ASSUME Faultless
    PROVE  Spec /\ []Roomy => []MeterInv
<1>1. MeterInv /\ Roomy /\ [Next]_vars => MeterInv'
  BY MeterStep
<1> QED BY <1>1, MeterInit, PTL DEF Spec

(* When nothing fails and no event meets a full queue, what exists is what *)
(* was counted and what is still on its way, for every merchant that is     *)
(* accounted for, whatever the requests about others name, and any number   *)
(* of requests (parseOperationFields, EnqueueUsage, usageLoop).            *)
THEOREM MeterIsExactUnlessFull ==
    ASSUME Faultless
    PROVE  Spec /\ []Roomy => []MeterExact
<1>1. MeterInv => MeterExact
  BY DEF MeterInv, CountInv, Counted, Coming, Going, MeterExact
<1> QED BY <1>1, MeterInvariantUnlessFull, PTL

(* A queue with a place for every request is never full: the meter is exact  *)
(* for every merchant that is accounted for (EnqueueUsage).                 *)
THEOREM MeterIsExact ==
    ASSUME Faultless, IsFiniteSet(Req), Cardinality(Req) <= QueueCap
    PROVE  Spec => []MeterExact
<1>1. MeterInv /\ [Next]_vars => MeterInv'
  BY MeterStep, RoomForAll
<1>2. MeterInv => MeterExact
  BY DEF MeterInv, CountInv, Counted, Coming, Going, MeterExact
<1> QED BY <1>1, <1>2, MeterInit, PTL DEF Spec

(* A create that the check let through while no event of its merchant was  *)
(* on its way finds an accounted-for merchant under its limit: with the    *)
(* service in reach the quota is then exact (allowQuotaOrAbort, checkQuotaRemote).    *)
THEOREM MeterAdmitsSettled ==
    ASSUME Faultless, "offline" \notin Faults
    PROVE  Spec /\ []Roomy => SettledAdmission
<1> DEFINE Admits(q) ==
        /\ pc[q] = "quota" /\ pc'[q] = "handle" /\ asked'[q] # ""
        /\ Accounted(asked'[q]) /\ Unsettled(asked'[q]) = {}
        => Cardinality(LiveOf(asked'[q])) < Limit
<1>1. ASSUME MeterInv, [Next]_vars PROVE [\A q \in Req : Admits(q)]_vars
  <2> SUFFICES ASSUME NEW q \in Req, Next, pc[q] = "quota", pc'[q] = "handle", asked'[q] # "",
                      Accounted(asked'[q]), Unsettled(asked'[q]) = {}
               PROVE  Cardinality(LiveOf(asked'[q])) < Limit
      BY <1>1
  <2>1. asked[q] = "" /\ pc \in [Req -> {"idle", "quota", "snapshot", "handle", "save", "done", "denied", "dead"}]
        /\ asked \in [Req -> Merchant \cup {""}]
    BY <1>1 DEF MeterInv, SettledInv, Settled, IInv, TypeOK
  <2>2. CheckQuota(q)
    <3>1. ASSUME NEW x \in Req, Arrive(x) \/ SkipQuota(x) \/ Snapshot(x) \/ Handle(x) \/ Save(x)
          PROVE  pc'[q] # "handle" \/ asked'[q] = ""
      BY <2>1, <3>1 DEF Arrive, SkipQuota, Snapshot, Handle, Save
    <3>2. ASSUME NEW x \in Req, CheckQuota(x), x # q PROVE pc'[q] # "handle"
      BY <2>1, <3>2 DEF CheckQuota
    <3>3. StartUsagePublisher \/ UsageLoop \/ Consume => pc'[q] # "handle"
      BY DEF StartUsagePublisher, UsageLoop, Consume
    <3>4. Crash => pc'[q] # "handle"
      BY <2>1 DEF Crash
    <3> QED BY <3>1, <3>2, <3>3, <3>4 DEF Next, Serve
  <2>3. /\ asked'[q] = HeaderMerchant(q) /\ HeaderMerchant(q) \in Merchant
        /\ occupancy[HeaderMerchant(q)] < Limit
    <3>1. asked'[q] = HeaderMerchant(q) /\ occupancy[HeaderMerchant(q)] < Limit
      BY <2>1, <2>2 DEF CheckQuota
    <3>2. req[q] \in Ask /\ HeaderMerchant(q) \notin {"", "*"}
      BY <1>1, <2>2 DEF CheckQuota, SkipUsageMerchant, MeterInv, IInv, AskInv, AskedWell
    <3> QED BY <3>1, <3>2, Asks DEF HeaderMerchant
  <2>4. PICK m \in Merchant : m = asked'[q]
    BY <2>3
  <2>5. occupancy[m] \in Int /\ occupancy[m] < Limit /\ Accounted(m) /\ Unsettled(m) = {}
    BY <1>1, <2>3, <2>4, HaveAccounts DEF MeterInv, IInv, TypeOK
  <2>6. Cardinality(LiveOf(m)) = occupancy[m]
    BY <1>1, <2>5, NothingOnItsWay DEF MeterInv
  <2> QED BY <2>4, <2>5, <2>6
<1> QED BY <1>1, MeterInvariantUnlessFull, PTL DEF Spec, SettledAdmission

=============================================================================
