---------------------------- MODULE UsageMeter ----------------------------
(***************************************************************************)
(* Metering and quota, as a closed loop: OperateLogMiddleware asks the     *)
(* quota service before a create (usage_quota.go), runs the handler, and   *)
(* turns the outcome into a usage event (oplog.go, usage.go) that a bounded *)
(* queue and Kafka carry to the service that answers the next quota check. *)
(*                                                                         *)
(* Every member of Req is one create or delete of one object of a metered  *)
(* kind; an object is named by the request that creates it.  The quota     *)
(* service, the topic's consumer and the business handlers are external.   *)
(***************************************************************************)
EXTENDS Integers, Sequences, FiniteSets, SequencesExt

CONSTANTS
    Req, Merchant,
    Namings,     \* how a request may name a merchant: see ASSUME; n.namespace is
                 \* the Namespace header, which may be a merchant's
    Limit,       \* objects a merchant's plan allows
    QueueCap,    \* capacity of usageCh
    Faults,      \* what the environment may do: see ASSUME
    MaxCrashes   \* bound on process crashes

ASSUME MeterAssumption ==
    /\ {"", "*"} \cap Merchant = {}
    /\ \A n \in Namings :
          /\ n.header \in Merchant \cup {"", "*"}   \* the four headers; "*": all merchants
          /\ n.body \in Merchant \cup {""}          \* the body, as the handler reads it
          /\ n.captured \in BOOLEAN                 \* readRequestBody kept the body
    /\ Limit \in Nat
    /\ QueueCap \in Nat \ {0}
    /\ Faults \subseteq {"late", "publish", "duplicate", "offline", "panic", "blind", "unregistered"}
    /\ MaxCrashes \in Nat

VARIABLES
    started,   \* usageCh has been made and usageLoop runs
    pc,        \* per request: next step
    req,       \* per request: what it asks
    asked,     \* per request: merchant whose quota was checked, "" when none was
    image,     \* per request: merchant_id in the before-image of a delete, "" when none
    ok,        \* per request: the handler answered with a status below 400
    live,      \* the objects that exist (in the database: survives crashes)
    event,     \* per request: the usage event it produced
    queue,     \* contents of usageCh, as the requests that produced the events
    topic,     \* events in the Kafka topic not yet consumed (survives crashes)
    applied,   \* per request: how often the consumer applied its event
    occupancy, \* per account: what the consumer counted, for the quota service
    crashes

vars == <<started, pc, req, asked, image, ok, live, event, queue, topic, applied, occupancy, crashes>>

Ask == [op : {"create"}, by : Namings, target : {""}]
       \cup [op : {"delete"}, by : Namings, target : Req]
NoAsk == [op |-> "", by |-> [header |-> "", body |-> "", captured |-> FALSE, namespace |-> ""], target |-> ""]

(* Whom an event may name: a merchant, or a namespace that is none. *)
Accounts == (Merchant \cup {n.namespace : n \in Namings}) \ {"", "*"}

NoEvent == [merchant |-> "", delta |-> 0]

-----------------------------------------------------------------------------
(* skipUsageMerchant: "*" also stands for the shared merchants.  Operators *)
(* whose name has an underscore are slips a run must catch.                *)
SkipUsageMerchant(m) == m \in {"", "*"}

(* firstNonEmpty of the four headers: all that allowQuotaOrAbort looks at. *)
HeaderMerchant(q) == req[q].by.header

(* The body as readRequestBody and extractBodyFields see it: an upload, a   *)
(* body declared or found longer than maxAuditBody and one that could not  *)
(* be read name nobody.                                                    *)
CapturedMerchant(q) == IF req[q].by.captured THEN req[q].by.body ELSE ""

(* parseOperationFields: the headers, the captured body, the namespace; a   *)
(* skipped merchant and a delete take the merchant of the before-image when *)
(* it names one, as enqueueUsageFromLog does.                              *)
RequestMerchant_NamespaceFirst(q) ==
    IF HeaderMerchant(q) # "" THEN HeaderMerchant(q)
    ELSE IF req[q].by.namespace # "" THEN req[q].by.namespace ELSE CapturedMerchant(q)
RequestMerchant(q) ==
    IF HeaderMerchant(q) # "" THEN HeaderMerchant(q)
    ELSE IF CapturedMerchant(q) # "" THEN CapturedMerchant(q) ELSE req[q].by.namespace

ChargedMerchant_Header(q) == RequestMerchant(q)
ChargedMerchant(q) ==
    IF (SkipUsageMerchant(RequestMerchant(q)) \/ req[q].op = "delete") /\ image[q] # ""
    THEN image[q] ELSE RequestMerchant(q)

(* UsageFromOperation: only successful creates and deletes move occupancy. *)
UsageDelta_NoDelete(q) == IF ok[q] /\ req[q].op = "create" THEN 1 ELSE 0
UsageDelta_NoCreate(q) == IF ok[q] /\ req[q].op = "delete" THEN -1 ELSE 0
UsageDelta(q) ==
    IF ~ok[q] THEN 0 ELSE IF req[q].op = "create" THEN 1 ELSE -1

(* The merchant the handler stores in a new object, "" for none: the one it *)
(* acts for.  The handler reads the whole body, captured or not.           *)
Owner(o) == IF req[o].by.header \in Merchant THEN req[o].by.header ELSE req[o].by.body

(* The object that a request creates or deletes. *)
Object(q) == IF req[q].op = "create" THEN q ELSE req[q].target

LiveOf(m) == {o \in live : Owner(o) = m}

-----------------------------------------------------------------------------
Init ==
    /\ started = FALSE
    /\ pc = [q \in Req |-> "idle"]
    /\ req = [q \in Req |-> NoAsk]
    /\ asked = [q \in Req |-> ""]
    /\ image = [q \in Req |-> ""]
    /\ ok = [q \in Req |-> FALSE]
    /\ live = {}
    /\ event = [q \in Req |-> NoEvent]
    /\ queue = <<>>
    /\ topic = <<>>
    /\ applied = [q \in Req |-> 0]
    /\ occupancy = [m \in Accounts |-> 0]
    /\ crashes = 0

(* InitUsageFromViper, StartUsagePublisher: usageOnce as in AuditPipeline. *)
StartUsagePublisher ==
    /\ ~started
    /\ started' = TRUE
    /\ UNCHANGED <<pc, req, asked, image, ok, live, event, queue, topic, applied, occupancy, crashes>>

(* A request enters OperateLogMiddleware.  The client of a delete learnt  *)
(* the object's id from a create that was done; a merchant deletes objects *)
(* of its own, a caller without a merchant any object.                     *)
Arrive(q) ==
    /\ pc[q] = "idle"
    /\ "late" \notin Faults => started
    /\ \E r \in Ask :
          /\ r.op = "delete" => req[r.target].op = "create" /\ (r.target \in live \/ ok[r.target])
          /\ r.op = "delete" /\ r.by.header \in Merchant => r.by.header = Owner(r.target)
          /\ req' = [req EXCEPT ![q] = r]
          /\ pc' = [pc EXCEPT ![q] = IF r.op = "create" THEN "quota" ELSE "snapshot"]
    /\ UNCHANGED <<started, asked, image, ok, live, event, queue, topic, applied, occupancy, crashes>>

(* allowQuotaOrAbort: no check without a merchant in the headers. *)
SkipQuota(q) ==
    /\ pc[q] = "quota"
    /\ SkipUsageMerchant(HeaderMerchant(q))
    /\ pc' = [pc EXCEPT ![q] = "handle"]
    /\ UNCHANGED <<started, req, asked, image, ok, live, event, queue, topic, applied, occupancy, crashes>>

(* checkQuotaRemote: the service compares what it has counted with the     *)
(* plan; every failure to get its answer lets the request through.         *)
CheckQuota(q) ==
    /\ pc[q] = "quota"
    /\ ~SkipUsageMerchant(HeaderMerchant(q))
    /\ asked' = [asked EXCEPT ![q] = HeaderMerchant(q)]
    /\ \/ /\ occupancy[HeaderMerchant(q)] < Limit \/ "offline" \in Faults
          /\ pc' = [pc EXCEPT ![q] = "handle"]
       \/ /\ occupancy[HeaderMerchant(q)] >= Limit
          /\ pc' = [pc EXCEPT ![q] = "denied"]
    /\ UNCHANGED <<started, req, image, ok, live, event, queue, topic, applied, occupancy, crashes>>

(* The before-image of a delete is read before the handler runs.  There is *)
(* none where the service registered no collection for the resource, and   *)
(* one longer than maxSnapshotBytes is cut and no longer parses.           *)
Snapshot(q) ==
    /\ pc[q] = "snapshot"
    /\ \/ image' = [image EXCEPT ![q] =
                       IF req[q].target \in live THEN Owner(req[q].target) ELSE ""]
       \/ "unregistered" \in Faults /\ image' = image
    /\ pc' = [pc EXCEPT ![q] = "handle"]
    /\ UNCHANGED <<started, req, asked, ok, live, event, queue, topic, applied, occupancy, crashes>>

(* c.Next(): the handler does its work and answers, refuses, or panics     *)
(* before or after doing it.  Nothing of saveOperationLog runs on a panic. *)
Works(q) ==
    IF req[q].op = "create" THEN live' = live \cup {q}
    ELSE req[q].target \in live /\ live' = live \ {req[q].target}

Handle(q) ==
    /\ pc[q] = "handle"
    /\ \/ /\ Works(q)
          /\ ok' = [ok EXCEPT ![q] = TRUE]
          /\ pc' = [pc EXCEPT ![q] = "save"]
       \/ /\ live' = live
          /\ ok' = ok
          /\ pc' = [pc EXCEPT ![q] = "save"]
       \/ /\ "blind" \in Faults            \* success for an object already gone
          /\ req[q].op = "delete" /\ req[q].target \notin live
          /\ live' = live
          /\ ok' = [ok EXCEPT ![q] = TRUE]
          /\ pc' = [pc EXCEPT ![q] = "save"]
       \/ /\ "panic" \in Faults
          /\ Works(q) \/ live' = live
          /\ ok' = ok
          /\ pc' = [pc EXCEPT ![q] = "dead"]
    /\ UNCHANGED <<started, req, asked, image, event, queue, topic, applied, occupancy, crashes>>

(* enqueueUsageFromLog and EnqueueUsage: an event without a merchant, before *)
(* the publisher started or for a full queue is dropped, never waited for. *)
Chargeable(q) == UsageDelta(q) # 0 /\ ~SkipUsageMerchant(ChargedMerchant(q))

QueueFull_LastPlace == Len(queue) > QueueCap
QueueFull == Len(queue) >= QueueCap

Save(q) ==
    /\ pc[q] = "save"
    /\ pc' = [pc EXCEPT ![q] = "done"]
    /\ IF Chargeable(q) /\ started /\ ~QueueFull
       THEN /\ event' = [event EXCEPT ![q] = [merchant |-> ChargedMerchant(q),
                                              delta |-> UsageDelta(q)]]
            /\ queue' = Append(queue, q)
       ELSE UNCHANGED <<event, queue>>
    /\ UNCHANGED <<started, req, asked, image, ok, live, topic, applied, occupancy, crashes>>

Serve(q) == SkipQuota(q) \/ CheckQuota(q) \/ Snapshot(q) \/ Handle(q) \/ Save(q)

(* Publish delivers the event, delivers it twice, or fails. *)
PublishUsage(q) ==
    \/ topic' = Append(topic, q)
    \/ "duplicate" \in Faults /\ topic' = Append(Append(topic, q), q)
    \/ "publish" \in Faults /\ topic' = topic

(* usageLoop goes on whatever Publish returns. *)
UsageLoop ==
    /\ queue # <<>>
    /\ queue' = Tail(queue)
    /\ PublishUsage(Head(queue))
    /\ UNCHANGED <<started, pc, req, asked, image, ok, live, event, applied, occupancy, crashes>>

(* The quota service consumes the topic in order and adds up the deltas. *)
Consume ==
    /\ topic # <<>>
    /\ topic' = Tail(topic)
    /\ applied' = [applied EXCEPT ![Head(topic)] = @ + 1]
    /\ occupancy' = [occupancy EXCEPT ![event[Head(topic)].merchant] = @ + event[Head(topic)].delta]
    /\ UNCHANGED <<started, pc, req, asked, image, ok, live, event, queue, crashes>>

(* A crash empties usageCh and ends the requests being served. *)
Crash ==
    /\ crashes < MaxCrashes
    /\ crashes' = crashes + 1
    /\ started' = FALSE
    /\ queue' = <<>>
    /\ pc' = [q \in Req |-> IF pc[q] \in {"idle", "done", "denied"} THEN pc[q] ELSE "dead"]
    /\ UNCHANGED <<req, asked, image, ok, live, event, topic, applied, occupancy>>

Next ==
    \/ StartUsagePublisher \/ UsageLoop \/ Consume \/ Crash
    \/ \E q \in Req : Arrive(q) \/ Serve(q)

Fairness ==
    /\ WF_vars(StartUsagePublisher) /\ WF_vars(UsageLoop) /\ WF_vars(Consume)
    /\ \A q \in Req : WF_vars(Serve(q))

Spec == Init /\ [][Next]_vars /\ Fairness

-----------------------------------------------------------------------------
(* Type invariant of the metering loop. *)
TypeOK ==
    /\ started \in BOOLEAN
    /\ pc \in [Req -> {"idle", "quota", "snapshot", "handle", "save", "done", "denied", "dead"}]
    /\ req \in [Req -> Ask \cup {NoAsk}]
    /\ asked \in [Req -> Merchant \cup {""}]
    /\ image \in [Req -> Merchant \cup {""}]
    /\ ok \in [Req -> BOOLEAN]
    /\ live \subseteq Req
    /\ event \in [Req -> [merchant : Accounts \cup {""}, delta : {-1, 0, 1}]]
    /\ queue \in Seq(Req) /\ Len(queue) <= QueueCap
    /\ topic \in Seq(Req)
    /\ applied \in [Req -> Nat]
    /\ occupancy \in [Accounts -> Int]
    /\ crashes \in 0..MaxCrashes

(* The request itself tells the charge whose object it creates or deletes:  *)
(* its headers do or, for a create, a captured body without headers.       *)
NamesOwner(q) ==
    \/ HeaderMerchant(q) \in Merchant
    \/ req[q].op = "create" /\ HeaderMerchant(q) = "" /\ CapturedMerchant(q) # ""

(* Where the request tells it or the object does, and the before-image with *)
(* it, m is counted right.  A request that leaves its object's owner to     *)
(* guessing concerns the owner and whomever its body or namespace names.    *)
Accounted(m) ==
    \A q \in Req :
        /\ pc[q] # "idle" /\ ~NamesOwner(q)
        /\ req[q].op = "create" \/ Owner(Object(q)) = ""
        => m \notin {Owner(Object(q)), req[q].by.body, req[q].by.namespace}

(* Requests whose change to the objects of m is on its way to the consumer. *)
Unsettled(m) ==
    {q \in Req :
        /\ ok[q]
        /\ pc[q] = "save" \/ Contains(queue, q) \/ Contains(topic, q)
        /\ Owner(Object(q)) = m}

(* When nothing fails and the queue does not overflow, what exists is what *)
(* the consumer counted and what is still on its way, with no event counted *)
(* twice, for the wrong merchant or for a failed request: the objects of m *)
(* are its occupancy plus the creates, minus the deletes, on their way.  It *)
(* takes an m that is accounted for: a create in an upload or under another *)
(* merchant's namespace miscounts m, and no other merchant, for good.      *)
MeterExact ==
    \A m \in Merchant : Accounted(m) =>
        Cardinality(LiveOf(m)) =
            occupancy[m]
            + Cardinality({q \in Unsettled(m) : req[q].op = "create"})
            - Cardinality({q \in Unsettled(m) : req[q].op = "delete"})

(* Whatever fails, a request is charged only for what its handler reported *)
(* as done, not after it was denied, failed or panicked, and to the merchant *)
(* that owns the object if the request or the before-image tells whose it   *)
(* is; if neither does, to whom its captured body names or its namespace,  *)
(* which need not be the owner (UsageFromOperation, parseOperationFields).  *)
ChargesAreEarned ==
    \A q \in Req : applied[q] > 0 \/ Contains(queue, q) \/ Contains(topic, q) =>
        /\ pc[q] = "done" /\ ok[q]
        /\ event[q].delta = IF req[q].op = "create" THEN 1 ELSE -1
        /\ IF NamesOwner(q) \/ image[q] # "" THEN event[q].merchant = Owner(Object(q))
           ELSE event[q].merchant \in {req[q].by.body, req[q].by.namespace}

(* Quota is exact for a merchant that is accounted for and has nothing in   *)
(* flight: a create that the check let through while no event of its       *)
(* merchant was on its way finds the merchant under its limit              *)
(* (allowQuotaOrAbort).                                                    *)
SettledAdmission ==
    [][\A q \in Req :
          /\ pc[q] = "quota" /\ pc'[q] = "handle" /\ asked'[q] # ""
          /\ Accounted(asked'[q]) /\ Unsettled(asked'[q]) = {}
          => Cardinality(LiveOf(asked'[q])) < Limit]_vars

(* The meter catches up: again and again every finished request's change   *)
(* has been applied for the merchants that are accounted for, so that their *)
(* transient miscount does not last.                                       *)
MeterCatchesUp ==
    []<>(\A m \in Merchant : Accounted(m) => Cardinality(LiveOf(m)) = occupancy[m])

(* README.md:11: a create first checks the quota remotely.  So the merchant *)
(* a create is charged to is the merchant whose quota was checked.         *)
ChargedWasChecked ==
    \A q \in Req : event[q].delta = 1 => asked[q] = event[q].merchant

=============================================================================
