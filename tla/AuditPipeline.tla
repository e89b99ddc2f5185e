--------------------------- MODULE AuditPipeline ---------------------------
(***************************************************************************)
(* The path of one operate_log row from saveOperationLog (oplog.go) to     *)
(* Kafka or MongoDB: EnqueueAudit, the AuditAsyncReady / IsCriticalAudit   *)
(* fallback, insertOperationSync, StartAuditPublisher and auditLoop        *)
(* (audit.go, audit_kafka.go).                                             *)
(*                                                                         *)
(* Every member of Req is one HTTP request that has run its handler and    *)
(* now writes one row; every member of Caller is one call of               *)
(* InitAuditFromViper.  Requests, callers and the publisher loop are       *)
(* goroutines: each action below is what one of them does between two      *)
(* accesses to state it shares with the others.                            *)
(***************************************************************************)
EXTENDS Integers, Sequences, FiniteSets, SequencesExt

CONSTANTS
    Req,         \* requests, each of which writes one row
    Critical,    \* the requests whose row IsCriticalAudit accepts
    Caller,      \* calls of InitAuditFromViper
    QueueCap,    \* defaultAuditQueue
    None,        \* Go's nil: no channel, no row
    BootFirst,   \* the process serves requests only after its initialisers returned
    Faults,      \* which external failures happen: see ASSUME
    MaxCrashes   \* bound on process crashes

ASSUME ConstantsAssumption ==
    /\ Critical \subseteq Req
    /\ Caller # {}
    /\ None \notin Req \cup Caller
    /\ QueueCap \in Nat \ {0}
    /\ BootFirst \in BOOLEAN
    /\ Faults \subseteq {"publish", "duplicate", "insert"}
    /\ MaxCrashes \in Nat

VARIABLES
    async,      \* configuration: audit.async is not set to false
    once,       \* auditOnce: "new", "running" or "done"
    auditCh,    \* auditCh: None or the channel, named by the caller that made it
    chans,      \* contents of the channel each caller would make
    callerPc,   \* per caller of InitAuditFromViper
    loopPc,     \* per caller: the auditLoop goroutine it spawned
    loopCh,     \* the channel that goroutine ranges over
    hold,       \* the row that goroutine is publishing
    pc,         \* per request: next step of saveOperationLog
    ch,         \* per request: EnqueueAudit's local ch
    dropTotal,  \* auditDropTotal
    kafka,      \* rows in the topic, oldest first (survives crashes)
    mongo,      \* rows in the operate_log collection (survives crashes)
    lost,       \* history: why a row is in neither store, "no" when it is not lost
    crashes     \* number of crashes so far

startVars == <<async, once, auditCh, callerPc>>
loopVars  == <<loopPc, loopCh, hold>>
reqVars   == <<pc, ch, dropTotal>>
vars == <<startVars, chans, loopVars, reqVars, kafka, mongo, lost, crashes>>

-----------------------------------------------------------------------------
Chan == Caller \cup {None}

InPipeline(r) == \E s \in Caller : Contains(chans[s], r) \/ hold[s] = r
InKafka(r) == Contains(kafka, r)

InFlight(r) == pc[r] \in {"send", "fallback", "insert"}

(* Every initialiser has returned. *)
Booted == \A s \in Caller : callerPc[s] = "done"

(* AuditAsyncReady *)
AsyncReady == auditCh # None

Init ==
    /\ async \in BOOLEAN
    /\ once = "new"
    /\ auditCh = None
    /\ chans = [s \in Caller |-> <<>>]
    /\ callerPc = [s \in Caller |-> "idle"]
    /\ loopPc = [s \in Caller |-> "none"]
    /\ loopCh = [s \in Caller |-> None]
    /\ hold = [s \in Caller |-> None]
    /\ pc = [r \in Req |-> "idle"]
    /\ ch = [r \in Req |-> None]
    /\ dropTotal = 0
    /\ kafka = <<>>
    /\ mongo = {}
    /\ lost = [r \in Req |-> "no"]
    /\ crashes = 0

-----------------------------------------------------------------------------
(* InitAuditFromViper and StartAuditPublisher.                             *)

(* audit.async=false: return before StartAuditPublisher. *)
StayingSync(s) ==
    /\ callerPc[s] = "idle"
    /\ ~async
    /\ callerPc' = [callerPc EXCEPT ![s] = "done"]
    /\ UNCHANGED <<async, once, auditCh, chans, loopVars, reqVars, kafka, mongo, lost, crashes>>

(* auditOnce.Do runs the function for the first caller only.  Operators    *)
(* whose name has an underscore are slips a run must catch.                *)
OnceAllows_Always == TRUE
OnceAllows == once = "new"

EnterOnce(s) ==
    /\ callerPc[s] = "idle"
    /\ async
    /\ OnceAllows
    /\ once' = "running"
    /\ callerPc' = [callerPc EXCEPT ![s] = "making"]
    /\ UNCHANGED <<async, auditCh, chans, loopVars, reqVars, kafka, mongo, lost, crashes>>

(* A later caller waits for the first one and returns. *)
SkipOnce(s) ==
    /\ callerPc[s] = "idle"
    /\ async
    /\ once = "done"
    /\ callerPc' = [callerPc EXCEPT ![s] = "done"]
    /\ UNCHANGED <<async, once, auditCh, chans, loopVars, reqVars, kafka, mongo, lost, crashes>>

(* auditPub = pub; auditCh = make(...): auditPub is read by the loop only. *)
MakeQueue(s) ==
    /\ callerPc[s] = "making"
    /\ auditCh' = s
    /\ chans' = [chans EXCEPT ![s] = <<>>]
    /\ callerPc' = [callerPc EXCEPT ![s] = "spawning"]
    /\ UNCHANGED <<async, once, loopVars, reqVars, kafka, mongo, lost, crashes>>

(* go auditLoop(), and the end of the Once function. *)
SpawnLoop(s) ==
    /\ callerPc[s] = "spawning"
    /\ loopPc' = [loopPc EXCEPT ![s] = "start"]
    /\ once' = "done"
    /\ callerPc' = [callerPc EXCEPT ![s] = "done"]
    /\ UNCHANGED <<async, auditCh, chans, loopCh, hold, reqVars, kafka, mongo, lost, crashes>>

StartAuditPublisher(s) ==
    StayingSync(s) \/ EnterOnce(s) \/ SkipOnce(s) \/ MakeQueue(s) \/ SpawnLoop(s)

-----------------------------------------------------------------------------
(* auditLoop.  Its nil checks never fire: StartAuditPublisher refuses a    *)
(* nil publisher and EnqueueAudit a nil row.                               *)

(* "range auditCh" evaluates the variable once, when the goroutine starts. *)
RangeQueue(s) ==
    /\ loopPc[s] = "start"
    /\ loopCh' = [loopCh EXCEPT ![s] = auditCh]
    /\ loopPc' = [loopPc EXCEPT ![s] = "receive"]
    /\ UNCHANGED <<startVars, chans, hold, reqVars, kafka, mongo, lost, crashes>>

Receive(s) ==
    /\ loopPc[s] = "receive"
    /\ chans[loopCh[s]] # <<>>
    /\ hold' = [hold EXCEPT ![s] = Head(chans[loopCh[s]])]
    /\ chans' = [chans EXCEPT ![loopCh[s]] = Tail(@)]
    /\ loopPc' = [loopPc EXCEPT ![s] = "publish"]
    /\ UNCHANGED <<startVars, loopCh, reqVars, kafka, mongo, lost, crashes>>

(* After a Publish, failed or not, the loop receives again. *)
AfterPublish_Return == "none"
AfterPublish == "receive"

(* Publish returns within its 3 s context: the writer delivered the row,   *)
(* delivered it twice (a retry after a lost acknowledgement), or gave up.  *)
(* An error is only logged.                                                *)
Publish(s) ==
    /\ loopPc[s] = "publish"
    /\ \/ /\ kafka' = Append(kafka, hold[s])
          /\ lost' = lost
       \/ /\ "duplicate" \in Faults
          /\ kafka' = Append(Append(kafka, hold[s]), hold[s])
          /\ lost' = lost
       \/ /\ "publish" \in Faults
          /\ kafka' = kafka
          /\ lost' = [lost EXCEPT ![hold[s]] = "publish"]
    /\ hold' = [hold EXCEPT ![s] = None]
    /\ loopPc' = [loopPc EXCEPT ![s] = AfterPublish]
    /\ UNCHANGED <<startVars, chans, loopCh, reqVars, mongo, crashes>>

AuditLoop(s) == RangeQueue(s) \/ Receive(s) \/ Publish(s)

-----------------------------------------------------------------------------
(* saveOperationLog, from the call of EnqueueAudit on.                     *)

(* EnqueueAudit reads auditCh into ch, without synchronisation. *)
LoadQueue(r) ==
    /\ pc[r] = "idle"
    /\ BootFirst => Booted
    /\ ch' = [ch EXCEPT ![r] = auditCh]
    /\ pc' = [pc EXCEPT ![r] = IF auditCh = None THEN "fallback" ELSE "send"]
    /\ UNCHANGED <<startVars, chans, loopVars, dropTotal, kafka, mongo, lost, crashes>>

HasRoom_OneMore(r) == Len(chans[ch[r]]) <= QueueCap
HasRoom(r) == Len(chans[ch[r]]) < QueueCap

QueueFull_Waits(r) == FALSE
QueueFull(r) == Len(chans[ch[r]]) >= QueueCap

(* if !enqueued: an accepted row needs no fallback. *)
AfterAccept_Unchecked == "fallback"
AfterAccept == "done"

(* select: case ch <- m *)
SendAccepted(r) ==
    /\ pc[r] = "send"
    /\ HasRoom(r)
    /\ chans' = [chans EXCEPT ![ch[r]] = Append(@, r)]
    /\ pc' = [pc EXCEPT ![r] = AfterAccept]
    /\ UNCHANGED <<startVars, loopVars, ch, dropTotal, kafka, mongo, lost, crashes>>

(* auditDropTotal.Add(1) *)
DropCount_Store == 1
DropCount_Negative == dropTotal - 1
DropCount == dropTotal + 1

(* select: default *)
SendDropped(r) ==
    /\ pc[r] = "send"
    /\ QueueFull(r)
    /\ dropTotal' = DropCount
    /\ pc' = [pc EXCEPT ![r] = "fallback"]
    /\ UNCHANGED <<startVars, chans, loopVars, ch, kafka, mongo, lost, crashes>>

(* if !AuditAsyncReady() || IsCriticalAudit(...): the second read of auditCh. *)
MustInsert_NotCritical(r) == ~AsyncReady
MustInsert(r) == ~AsyncReady \/ r \in Critical

ChooseFallback(r) ==
    /\ pc[r] = "fallback"
    /\ \/ /\ MustInsert(r)
          /\ pc' = [pc EXCEPT ![r] = "insert"]
          /\ lost' = lost
       \/ /\ ~MustInsert(r)
          /\ pc' = [pc EXCEPT ![r] = "done"]
          /\ lost' = [lost EXCEPT ![r] = IF ch[r] = None THEN "unready" ELSE "full"]
    /\ UNCHANGED <<startVars, chans, loopVars, ch, dropTotal, kafka, mongo, crashes>>

(* insertOperationSync: InsertOne writes the row, or fails and is logged. *)
InsertSync(r) ==
    /\ pc[r] = "insert"
    /\ \/ /\ mongo' = mongo \cup {r}
          /\ lost' = lost
       \/ /\ "insert" \in Faults
          /\ mongo' = mongo
          /\ lost' = [lost EXCEPT ![r] = "insert"]
    /\ pc' = [pc EXCEPT ![r] = "done"]
    /\ UNCHANGED <<startVars, chans, loopVars, ch, dropTotal, kafka, crashes>>

FinishSave(r) ==
    SendAccepted(r) \/ SendDropped(r) \/ ChooseFallback(r) \/ InsertSync(r)

-----------------------------------------------------------------------------
(* The process dies and is restarted: nothing drains the queue, and the    *)
(* requests that were being served never finish.                           *)
Crash ==
    /\ crashes < MaxCrashes
    /\ crashes' = crashes + 1
    /\ once' = "new"
    /\ auditCh' = None
    /\ chans' = [s \in Caller |-> <<>>]
    /\ callerPc' = [s \in Caller |-> "idle"]
    /\ loopPc' = [s \in Caller |-> "none"]
    /\ loopCh' = [s \in Caller |-> None]
    /\ hold' = [s \in Caller |-> None]
    /\ pc' = [r \in Req |-> IF InFlight(r) THEN "dead" ELSE pc[r]]
    /\ ch' = [r \in Req |-> None]
    /\ dropTotal' = 0
    /\ lost' = [r \in Req |-> IF InFlight(r) \/ InPipeline(r) THEN "crash" ELSE lost[r]]
    /\ UNCHANGED <<async, kafka, mongo>>

Next ==
    \/ \E s \in Caller : StartAuditPublisher(s) \/ AuditLoop(s)
    \/ \E r \in Req : LoadQueue(r) \/ FinishSave(r)
    \/ Crash

(* The Go scheduler runs every runnable goroutine: the requests being       *)
(* served, the initialisers and the loop (Publish is bounded by its 3 s    *)
(* context).  Nothing makes a request arrive or the process crash.         *)
RequestFairness == \A r \in Req : WF_vars(FinishSave(r))
PublisherFairness ==
    \A s \in Caller : WF_vars(StartAuditPublisher(s)) /\ WF_vars(AuditLoop(s))

(* The loop is left unfair here, as if a Publish could hang for ever;      *)
(* properties that need it to run assume PublisherFairness.                *)
Spec == Init /\ [][Next]_vars /\ RequestFairness

-----------------------------------------------------------------------------
(* Type invariant of the pipeline: every variable holds a value its Go     *)
(* counterpart can hold.                                                   *)
TypeOK ==
    /\ async \in BOOLEAN
    /\ once \in {"new", "running", "done"}
    /\ auditCh \in Chan
    /\ chans \in [Caller -> Seq(Req)]
    /\ callerPc \in [Caller -> {"idle", "making", "spawning", "done"}]
    /\ loopPc \in [Caller -> {"none", "start", "receive", "publish"}]
    /\ loopCh \in [Caller -> Chan]
    /\ hold \in [Caller -> Req \cup {None}]
    /\ pc \in [Req -> {"idle", "send", "fallback", "insert", "done", "dead"}]
    /\ ch \in [Req -> Chan]
    /\ dropTotal \in Nat
    /\ kafka \in Seq(Req)
    /\ mongo \subseteq Req
    /\ lost \in [Req -> {"no", "full", "unready", "publish", "insert", "crash"}]
    /\ crashes \in 0..MaxCrashes

(* A request that finished has its row on its way to Kafka, in Kafka or in *)
(* MongoDB; otherwise an external failure or a crash took it, or the row   *)
(* is not critical and met a full queue.  This is what oplog.go:182-183    *)
(* asks of the dispatch in saveOperationLog.                               *)
RowAccounted ==
    \A r \in Req : pc[r] = "done" =>
        \/ InPipeline(r) \/ InKafka(r) \/ r \in mongo
        \/ lost[r] \in {"publish", "insert", "crash"}
        \/ lost[r] = "full" /\ r \notin Critical

(* The asynchronous path and the synchronous fallback never both write a   *)
(* row, and a row the loop handed to Kafka is not still waiting: a row is  *)
(* in at most one place, once (EnqueueAudit against insertOperationSync).  *)
SinglePlace ==
    /\ \A r \in mongo : ~InPipeline(r) /\ ~InKafka(r)
    /\ \A r \in Req : InPipeline(r) => ~InKafka(r)
    /\ \A s \in Caller : IsInjective(chans[s]) /\ ~Contains(chans[s], hold[s])

(* However many times StartAuditPublisher is called, there is one channel  *)
(* and one loop draining it: no row sits in a channel nobody reads.        *)
NoStrandedQueue ==
    \A s \in Caller :
        chans[s] # <<>> =>
            /\ s = auditCh
            /\ \A t \in Caller : loopPc[t] \in {"receive", "publish"} => loopCh[t] = s
            /\ \A t, u \in Caller : loopPc[t] # "none" /\ loopPc[u] # "none" => t = u

(* The drop counter of a process that never crashed does not under-report: *)
(* every row lost to a full queue was counted (auditDropTotal).            *)
DropsCounted ==
    crashes = 0 => Cardinality({r \in Req : lost[r] = "full"}) <= dropTotal

(* A row the queue accepted leaves the pipeline: it is published, or given *)
(* up after a failed Publish or a crash (auditLoop keeps draining).        *)
QueueDrains ==
    PublisherFairness => \A r \in Req : InPipeline(r) ~> ~InPipeline(r)

(* EnqueueAudit never blocks the caller: a request finishes its save even  *)
(* when the publisher hangs.                                               *)
SaveNeverBlocks == \A r \in Req : InFlight(r) ~> ~InFlight(r)

-----------------------------------------------------------------------------
(* The inductive strengthening of the invariants above.                    *)

(* The Once function, the variable it fills and its callers agree. *)
OnceInv ==
    /\ ~async => once = "new"
    /\ once = "new" => auditCh = None
    /\ once = "done" => auditCh # None
    /\ \A s \in Caller :
          /\ callerPc[s] = "making" => once = "running" /\ auditCh = None
          /\ callerPc[s] = "spawning" => once = "running" /\ auditCh = s
          /\ callerPc[s] = "done" /\ async => once = "done"
    /\ \A s, t \in Caller :
          callerPc[s] \in {"making", "spawning"} /\ callerPc[t] \in {"making", "spawning"} => s = t

(* Only the maker of the channel has a loop, which reads that channel. *)
LoopInv ==
    \A s \in Caller :
        /\ loopPc[s] # "none" => once = "done" /\ auditCh = s
        /\ loopPc[s] \in {"receive", "publish"} => loopCh[s] = s
        /\ hold[s] # None <=> loopPc[s] = "publish"
        /\ chans[s] # <<>> => auditCh = s
        /\ Len(chans[s]) <= QueueCap

(* Where a row is, how far its request got and why it was lost agree. *)
RowInv ==
    \A r \in Req :
        /\ pc[r] = "send" => ch[r] # None
        /\ ch[r] # None => ch[r] = auditCh
        /\ InPipeline(r) \/ InKafka(r) \/ r \in mongo => pc[r] = "done" /\ lost[r] = "no"
        /\ lost[r] # "no" => pc[r] \in {"done", "dead"}
        /\ pc[r] = "dead" => lost[r] = "crash"
        /\ lost[r] = "full" => r \notin Critical
        /\ pc[r] = "insert" => r \in Critical \/ ch[r] = None
        /\ BootFirst => lost[r] # "unready"
        /\ BootFirst /\ InFlight(r) => Booted /\ (async => ch[r] # None)

IInv == TypeOK /\ OnceInv /\ LoopInv /\ RowInv /\ SinglePlace /\ (BootFirst => RowAccounted)

=============================================================================
