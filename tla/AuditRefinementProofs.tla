----------------------- MODULE AuditRefinementProofs -----------------------
(***************************************************************************)
(* AuditPipeline implements AuditLedger, for any requests, callers and     *)
(* capacity, when the publisher is initialised before requests are served. *)
(***************************************************************************)
EXTENDS AuditRefinement, AuditPipelineProofs

(* Sequence facts about a publisher holding the row before the queue. *)
LEMMA HeadThenTail ==
    ASSUME NEW S, NEW q \in Seq(S), q # <<>>
    PROVE  <<Head(q)>> \o Tail(q) = q
<1>1. Head(q) \in S /\ Tail(q) \in Seq(S) /\ Len(Tail(q)) = Len(q) - 1 /\ Len(q) \in Nat
      /\ Head(q) = q[1] /\ \A i \in 1..Len(Tail(q)) : Tail(q)[i] = q[i + 1]
  BY HeadTailProperties, LenProperties
<1>2. <<Head(q)>> \in Seq(S) /\ Len(<<Head(q)>>) = 1 /\ <<Head(q)>>[1] = Head(q)
  BY <1>1
<1>3. /\ <<Head(q)>> \o Tail(q) \in Seq(S)
      /\ Len(<<Head(q)>> \o Tail(q)) = Len(q)
      /\ \A i \in 1..Len(q) : (<<Head(q)>> \o Tail(q))[i] = IF i <= 1 THEN Head(q) ELSE Tail(q)[i - 1]
  BY <1>1, <1>2, ConcatProperties
<1>4. \A i \in 1..Len(q) : (<<Head(q)>> \o Tail(q))[i] = q[i]
  BY <1>1, <1>3
<1> QED BY <1>3, <1>4, SeqEqual

LEMMA ConsProperties ==
    ASSUME NEW S, NEW q \in Seq(S), NEW h \in S
    PROVE  /\ <<h>> \o q \in Seq(S)
           /\ Len(<<h>> \o q) = Len(q) + 1
           /\ <<h>> \o q # <<>>
           /\ Head(<<h>> \o q) = h
           /\ Tail(<<h>> \o q) = q
<1>1. <<h>> \in Seq(S) /\ Len(<<h>>) = 1 /\ <<h>>[1] = h /\ Len(q) \in Nat
  BY LenProperties
<1>2. PICK c \in Seq(S) : c = <<h>> \o q
  BY <1>1, ConcatProperties
<1>3. /\ Len(c) = Len(q) + 1
      /\ c[1] = h
      /\ \A i \in 1..Len(q) : c[i + 1] = q[i]
  BY <1>1, <1>2, ConcatProperties
<1>4. c # <<>>
  BY <1>1, <1>3, EmptySeq
<1>5. Head(c) = h /\ Tail(c) \in Seq(S) /\ Len(Tail(c)) = Len(q)
      /\ \A i \in 1..Len(q) : Tail(c)[i] = q[i]
  BY <1>1, <1>3, <1>4, HeadTailProperties
<1>6. Tail(c) = q
  BY <1>5, SeqEqual
<1> QED BY <1>2, <1>3, <1>4, <1>5, <1>6

LEMMA AppendCons ==
    ASSUME NEW S, NEW q \in Seq(S), NEW h \in S, NEW e \in S
    PROVE  Append(<<h>> \o q, e) = <<h>> \o Append(q, e)
<1>1. <<h>> \in Seq(S) /\ <<e>> \in Seq(S)
  OBVIOUS
<1>2. <<h>> \o q \in Seq(S)
  BY <1>1, ConcatProperties
<1>3. Append(<<h>> \o q, e) = (<<h>> \o q) \o <<e>> /\ Append(q, e) = q \o <<e>>
  BY <1>2, AppendIsConcat
<1> QED BY <1>1, <1>3, ConcatAssociative

-----------------------------------------------------------------------------
USE ConstantsAssumption
    DEF OnceAllows, AfterPublish, HasRoom, QueueFull, AfterAccept, DropCount

(* What the ledger sees of each row, by where the row is. *)
Fates ==
    \A r \in Req :
        /\ r \in mongo => fate(r) = "stored"
        /\ InPipeline(r) => fate(r) = "accepted"
        /\ InKafka(r) => fate(r) = "published"
        /\ lost[r] = "full" => fate(r) = "dropped"
        /\ lost[r] \notin {"no", "full"} => fate(r) = "lost"
        /\ Overflowed(r) => fate(r) = IF r \in Critical THEN "diverted" ELSE "dropped"
        /\ pc[r] \in {"idle", "send", "fallback", "insert"} /\ ~Overflowed(r) => fate(r) = "open"

LEMMA FatesHold == IInv => Fates
<1> SUFFICES ASSUME IInv, NEW r \in Req
             PROVE  /\ r \in mongo => fate(r) = "stored"
                    /\ InPipeline(r) => fate(r) = "accepted"
                    /\ InKafka(r) => fate(r) = "published"
                    /\ lost[r] = "full" => fate(r) = "dropped"
                    /\ lost[r] \notin {"no", "full"} => fate(r) = "lost"
                    /\ Overflowed(r) => fate(r) = IF r \in Critical THEN "diverted" ELSE "dropped"
                    /\ pc[r] \in {"idle", "send", "fallback", "insert"} /\ ~Overflowed(r)
                          => fate(r) = "open"
    BY DEF Fates
<1>1. /\ r \in mongo => ~InPipeline(r) /\ ~InKafka(r)
      /\ InPipeline(r) => ~InKafka(r)
      /\ InPipeline(r) \/ InKafka(r) \/ r \in mongo => pc[r] = "done" /\ lost[r] = "no"
      /\ lost[r] # "no" => pc[r] \in {"done", "dead"}
      /\ Overflowed(r) => pc[r] \in {"fallback", "insert"}
  BY DEF IInv, SinglePlace, RowInv, Overflowed
<1> QED BY <1>1 DEF fate

(* A row whose place did not change has not changed for the ledger. *)
LEMMA SameFate ==
    ASSUME NEW r, r \in mongo' <=> r \in mongo, InPipeline(r)' <=> InPipeline(r),
           InKafka(r)' <=> InKafka(r), lost'[r] = lost[r], Overflowed(r)' <=> Overflowed(r)
    PROVE  fate(r)' = fate(r)
BY DEF fate

LEMMA StatusTyped == statusBar = [r \in Req |-> fate(r)] /\ \A r \in Req : statusBar[r] = fate(r)
BY DEF statusBar

(* What the ledger sees of the queue. *)
LEMMA PendingTyped == IInv => pendingBar \in Seq(Req)
<1> SUFFICES ASSUME IInv, auditCh # None PROVE pendingBar \in Seq(Req)
    BY DEF pendingBar
<1>1. auditCh \in Caller /\ chans[auditCh] \in Seq(Req)
  BY DEF IInv, TypeOK, Chan
<1>2. hold[auditCh] # None => hold[auditCh] \in Req
  BY <1>1 DEF IInv, TypeOK
<1> QED BY <1>1, <1>2, ConsProperties DEF pendingBar

LEMMA InitRefines == Init => Ledger!Init
<1> SUFFICES ASSUME Init PROVE Ledger!Init
    OBVIOUS
<1>1. \A r \in Req : fate(r) = "open"
  BY ContainsEmpty DEF Init, fate, InPipeline, InKafka, Overflowed
<1>2. pendingBar = <<>> /\ kafka = <<>> /\ async \in BOOLEAN
  BY DEF Init, pendingBar
<1> QED BY <1>1, <1>2 DEF Ledger!Init, statusBar

(* A step the ledger does not see. *)
LEMMA StutterRefines ==
    ASSUME UNCHANGED <<async, pendingBar, kafka>>, \A x \in Req : fate(x)' = fate(x)
    PROVE  UNCHANGED Ledger!vars
<1>1. statusBar' = statusBar
  BY DEF statusBar
<1> QED BY <1>1 DEF Ledger!vars

-----------------------------------------------------------------------------
(* The publisher's start, and the loop picking up a row, are invisible.    *)
LEMMA StartRefines ==
    ASSUME IInv, NEW s \in Caller, StartAuditPublisher(s)
    PROVE  UNCHANGED Ledger!vars
<1>1. UNCHANGED <<hold, async, pc, ch, kafka, mongo, lost, chans>>
      /\ (auditCh # None => auditCh' = auditCh)
  BY StartMoves
<1>2. pendingBar' = pendingBar
  <2>1. CASE auditCh # None
    BY <1>1, <2>1 DEF pendingBar
  <2>2. CASE auditCh = None
    <3>1. \A t \in Caller : chans[t] = <<>> /\ hold[t] = None
      BY <2>2 DEF IInv, TypeOK, LoopInv, Chan
    <3>2. auditCh' \in Caller \cup {None}
      BY <2>2 DEF StartAuditPublisher, StayingSync, EnterOnce, SkipOnce, MakeQueue, SpawnLoop
    <3> QED BY <1>1, <2>2, <3>1, <3>2 DEF pendingBar
  <2> QED BY <2>1, <2>2
<1>3. \A x \in Req : fate(x)' = fate(x)
  BY <1>1, SameFate, PipelineUnchanged, KafkaUnchanged DEF Overflowed
<1> QED BY <1>1, <1>2, <1>3, StutterRefines

LEMMA RangeRefines ==
    ASSUME IInv, NEW s \in Caller, RangeQueue(s)
    PROVE  UNCHANGED Ledger!vars
<1>1. UNCHANGED <<auditCh, hold, async, pc, ch, kafka, mongo, lost, chans>>
  BY DEF RangeQueue, startVars, reqVars
<1>2. pendingBar' = pendingBar
  BY <1>1 DEF pendingBar
<1>3. \A x \in Req : fate(x)' = fate(x)
  BY <1>1, SameFate, PipelineUnchanged, KafkaUnchanged DEF Overflowed
<1> QED BY <1>1, <1>2, <1>3, StutterRefines

LEMMA ReceiveRefines ==
    ASSUME IInv, NEW s \in Caller, Receive(s)
    PROVE  UNCHANGED Ledger!vars
<1>1. /\ auditCh = s /\ loopCh[s] = s /\ hold[s] = None /\ s # None
      /\ chans[s] \in Seq(Req) /\ chans[s] # <<>>
      /\ hold \in [Caller -> Req \cup {None}] /\ chans \in [Caller -> Seq(Req)]
  BY DEF IInv, TypeOK, LoopInv, Receive
<1>2. UNCHANGED <<auditCh, async, pc, ch, kafka, mongo, lost>>
  BY DEF Receive, startVars, reqVars
<1>3. Head(chans[s]) \in Req
  BY <1>1, HeadTailProperties
<1>4. hold'[s] = Head(chans[s]) /\ chans'[s] = Tail(chans[s])
  BY <1>1 DEF Receive
<1>5. pendingBar = chans[s] /\ pendingBar' = <<Head(chans[s])>> \o Tail(chans[s])
  BY <1>1, <1>2, <1>3, <1>4 DEF pendingBar
<1>6. pendingBar' = pendingBar
  BY <1>1, <1>5, HeadThenTail
<1>7. \A x \in Req : fate(x)' = fate(x)
  BY <1>2, SameFate, ReceiveMoves, KafkaUnchanged DEF Overflowed
<1> QED BY <1>2, <1>6, <1>7, StutterRefines

(* The end of a Publish settles the oldest accepted row. *)
LEMMA PublishRefines ==
    ASSUME IInv, IInv', NEW s \in Caller, Publish(s), Fates, Fates'
    PROVE  Ledger!Settle
<1>0. PICK h \in Req : h = hold[s]
  BY DEF IInv, TypeOK, LoopInv, Publish
<1>1. /\ auditCh = s /\ s # None /\ chans[s] \in Seq(Req)
      /\ hold \in [Caller -> Req \cup {None}]
      /\ lost \in [Req -> {"no", "full", "unready", "publish", "insert", "crash"}]
      /\ kafka \in Seq(Req)
  BY DEF IInv, TypeOK, LoopInv, Publish
<1>2. UNCHANGED <<auditCh, async, pc, ch, mongo, chans>> /\ hold'[s] = None
  BY <1>1 DEF Publish, startVars, reqVars
<1>3. pendingBar = <<h>> \o chans[s] /\ pendingBar' = chans[s]
  BY <1>0, <1>1, <1>2 DEF pendingBar
<1>4. pendingBar # <<>> /\ Head(pendingBar) = h /\ pendingBar' = Tail(pendingBar)
  BY <1>1, <1>3, ConsProperties
<1>5. ~InKafka(h) /\ h \notin mongo /\ InPipeline(h) /\ lost[h] = "no"
  BY <1>0, PublishMoves DEF IInv, SinglePlace, RowInv
<1>6. \A x \in Req : x # h => fate(x)' = fate(x)
  <2> SUFFICES ASSUME NEW x \in Req, x # h PROVE fate(x)' = fate(x)
      OBVIOUS
  <2>1. InPipeline(x)' <=> InPipeline(x)
    BY <1>0, <1>1, PublishMoves
  <2>2. InKafka(x)' <=> InKafka(x)
    BY <1>0, <1>1, PublishMoves
  <2>3. lost'[x] = lost[x]
    BY <1>0, <1>1, PublishMoves
  <2> QED BY <1>2, <2>1, <2>2, <2>3, SameFate DEF Overflowed
<1>7. ASSUME NEW f, fate(h)' = f PROVE statusBar' = [statusBar EXCEPT ![h] = f]
  BY <1>1, <1>6, <1>7 DEF statusBar
<1>8. CASE kafka' = Append(kafka, h) /\ lost' = lost
  <2>1. InKafka(h)'
    BY <1>1, <1>8, ContainsAppend DEF InKafka
  <2>2. fate(h)' = "published"
    BY <1>1, <2>1 DEF Fates
  <2> QED BY <1>2, <1>4, <1>7, <1>8, <2>2 DEF Ledger!Settle
<1>9. CASE "duplicate" \in Faults /\ kafka' = Append(Append(kafka, h), h) /\ lost' = lost
  <2>1. PICK k \in Seq(Req) : k = Append(kafka, h)
    BY <1>1, AppendProperties
  <2>2. InKafka(h)'
    <3>1. Contains(Append(k, h), h)
      BY ContainsAppend
    <3> QED BY <1>9, <2>1, <3>1 DEF InKafka
  <2>3. fate(h)' = "published"
    BY <1>1, <2>2 DEF Fates
  <2> QED BY <1>2, <1>4, <1>7, <1>9, <2>3 DEF Ledger!Settle
<1>10. CASE "publish" \in Faults /\ kafka' = kafka /\ lost' = [lost EXCEPT ![h] = "publish"]
  <2>1. lost'[h] = "publish"
    BY <1>1, <1>10
  <2>2. fate(h)' = "lost"
    BY <1>1, <2>1 DEF Fates
  <2> QED BY <1>2, <1>4, <1>7, <1>10, <2>2 DEF Ledger!Settle
<1> QED BY <1>0, <1>8, <1>9, <1>10 DEF Publish

(* Reading the channel variable decides nothing the ledger sees. *)
LEMMA LoadRefines ==
    ASSUME IInv, IInv', NEW r \in Req, LoadQueue(r), Fates, Fates'
    PROVE  UNCHANGED Ledger!vars
<1>1. UNCHANGED <<auditCh, hold, async, kafka, mongo, lost, chans>>
  BY DEF LoadQueue, startVars, loopVars
<1>2. pendingBar' = pendingBar
  BY <1>1 DEF pendingBar
<1>3. /\ pc[r] = "idle" /\ pc'[r] \in {"send", "fallback"}
      /\ pc'[r] = "fallback" => ch'[r] = None
      /\ \A x \in Req : x # r => pc'[x] = pc[x] /\ ch'[x] = ch[x]
  BY DEF LoadQueue, IInv, TypeOK
<1>4. fate(r) = "open" /\ fate(r)' = "open"
  BY <1>3 DEF Fates, Overflowed
<1>5. \A x \in Req : x # r => fate(x)' = fate(x)
  BY <1>1, <1>3, SameFate, PipelineUnchanged, KafkaUnchanged DEF Overflowed
<1> QED BY <1>1, <1>2, <1>4, <1>5, StutterRefines

(* A send that finds room accepts the row. *)
LEMMA SendAcceptedRefines ==
    ASSUME IInv, IInv', NEW r \in Req, SendAccepted(r), Fates, Fates'
    PROVE  Ledger!Accept(r)
<1>1. PICK s \in Caller : s = ch[r]
  BY DEF IInv, TypeOK, Chan, RowInv, SendAccepted
<1>2. /\ auditCh = s /\ s # None /\ async
      /\ chans \in [Caller -> Seq(Req)] /\ hold \in [Caller -> Req \cup {None}]
      /\ Len(chans[s]) < QueueCap /\ Len(chans[s]) \in Nat
  BY <1>1, LenProperties DEF IInv, TypeOK, OnceInv, RowInv, SendAccepted
<1>3. UNCHANGED <<auditCh, hold, async, kafka, mongo, lost>> /\ chans'[s] = Append(chans[s], r)
  BY <1>1, <1>2 DEF SendAccepted, startVars, loopVars
<1>4. pendingBar' = Append(pendingBar, r) /\ Len(pendingBar) <= QueueCap
  <2>1. CASE hold[s] = None
    BY <1>2, <1>3, <2>1 DEF pendingBar
  <2>2. CASE hold[s] # None
    <3>1. PICK h \in Req : h = hold[s]
      BY <1>2, <2>2
    <3>2. pendingBar = <<h>> \o chans[s] /\ pendingBar' = <<h>> \o Append(chans[s], r)
      BY <1>2, <1>3, <2>2, <3>1 DEF pendingBar
    <3>3. Append(<<h>> \o chans[s], r) = <<h>> \o Append(chans[s], r)
      BY <1>2, AppendCons
    <3>4. Len(<<h>> \o chans[s]) = Len(chans[s]) + 1
      BY <1>2, ConsProperties
    <3> QED BY <1>2, <3>2, <3>3, <3>4
  <2> QED BY <2>1, <2>2
<1>5. /\ pc[r] = "send" /\ \A x \in Req : x # r => pc'[x] = pc[x] /\ ch'[x] = ch[x]
  BY DEF SendAccepted, IInv, TypeOK
<1>9. \A x \in Req : InPipeline(x)' <=> InPipeline(x) \/ x = r
  BY AcceptMoves
<1>6. fate(r) = "open" /\ fate(r)' = "accepted"
  BY <1>5, <1>9 DEF Fates, Overflowed
<1>7. \A x \in Req : x # r => fate(x)' = fate(x)
  BY <1>3, <1>5, <1>9, SameFate, KafkaUnchanged DEF Overflowed
<1>8. statusBar[r] = "open" /\ statusBar' = [statusBar EXCEPT ![r] = "accepted"]
  BY <1>6, <1>7 DEF statusBar
<1> QED BY <1>2, <1>3, <1>4, <1>8 DEF Ledger!Accept

(* A send that finds the queue full settles what becomes of the row. *)
LEMMA SendDroppedRefines ==
    ASSUME IInv, IInv', NEW r \in Req, SendDropped(r), Fates, Fates'
    PROVE  Ledger!Overflow(r)
<1>1. PICK s \in Caller : s = ch[r]
  BY DEF IInv, TypeOK, Chan, RowInv, SendDropped
<1>2. /\ auditCh = s /\ s # None /\ async
      /\ chans \in [Caller -> Seq(Req)] /\ hold \in [Caller -> Req \cup {None}]
      /\ Len(chans[s]) >= QueueCap /\ Len(chans[s]) \in Nat
  BY <1>1, LenProperties DEF IInv, TypeOK, OnceInv, RowInv, SendDropped
<1>3. UNCHANGED <<auditCh, hold, async, kafka, mongo, lost, chans, ch>>
  BY DEF SendDropped, startVars, loopVars
<1>4. pendingBar' = pendingBar /\ Len(pendingBar) >= QueueCap
  <2>1. CASE hold[s] = None
    BY <1>2, <1>3, <2>1 DEF pendingBar
  <2>2. CASE hold[s] # None
    <3>1. pendingBar = <<hold[s]>> \o chans[s] /\ pendingBar' = pendingBar
      BY <1>2, <1>3, <2>2 DEF pendingBar
    <3>2. Len(pendingBar) = Len(chans[s]) + 1
      BY <1>2, <2>2, <3>1, ConsProperties
    <3> QED BY <1>2, <3>1, <3>2
  <2> QED BY <2>1, <2>2
<1>5. /\ pc[r] = "send" /\ pc'[r] = "fallback" /\ ch'[r] # None
      /\ \A x \in Req : x # r => pc'[x] = pc[x]
  BY <1>1, <1>2, <1>3 DEF SendDropped, IInv, TypeOK
<1>6. fate(r) = "open" /\ fate(r)' = IF r \in Critical THEN "diverted" ELSE "dropped"
  BY <1>5 DEF Fates, Overflowed
<1>7. \A x \in Req : x # r => fate(x)' = fate(x)
  BY <1>3, <1>5, SameFate, PipelineUnchanged, KafkaUnchanged DEF Overflowed
<1>8. /\ statusBar[r] = "open"
      /\ statusBar' = [statusBar EXCEPT ![r] = IF r \in Critical THEN "diverted" ELSE "dropped"]
  BY <1>6, <1>7 DEF statusBar
<1> QED BY <1>2, <1>3, <1>4, <1>8 DEF Ledger!Overflow

(* Choosing the fallback carries out what the full queue had settled. *)
LEMMA ChooseRefines ==
    ASSUME IInv, IInv', BootFirst, NEW r \in Req, ChooseFallback(r), Fates, Fates'
    PROVE  UNCHANGED Ledger!vars
<1>1. UNCHANGED <<auditCh, hold, async, kafka, mongo, chans, ch>>
  BY DEF ChooseFallback, startVars, loopVars
<1>2. pendingBar' = pendingBar
  BY <1>1 DEF pendingBar
<1>3. /\ pc[r] = "fallback"
      /\ \A x \in Req : x # r => pc'[x] = pc[x] /\ lost'[x] = lost[x]
  BY DEF ChooseFallback, IInv, TypeOK
<1>4. \A x \in Req : x # r => fate(x)' = fate(x)
  BY <1>1, <1>3, SameFate, PipelineUnchanged, KafkaUnchanged DEF Overflowed
<1>5. CASE MustInsert(r)
  <2>1. pc'[r] = "insert" /\ lost' = lost
    BY <1>5 DEF ChooseFallback, IInv, TypeOK
  <2>2. fate(r)' = fate(r)
    BY <1>1, <1>3, <2>1, SameFate, PipelineUnchanged, KafkaUnchanged DEF Overflowed
  <2> QED BY <1>1, <1>2, <1>4, <2>2, StutterRefines
<1>6. CASE ~MustInsert(r)
  <2>1. ch[r] # None /\ r \notin Critical
    BY <1>3, <1>6 DEF MustInsert, AsyncReady, IInv, RowInv, OnceInv, InFlight
  <2>2. lost'[r] = "full"
    BY <1>6, <2>1 DEF ChooseFallback, IInv, TypeOK
  <2>3. fate(r) = "dropped" /\ fate(r)' = "dropped"
    BY <1>3, <2>1, <2>2 DEF Fates, Overflowed
  <2> QED BY <1>1, <1>2, <1>4, <2>3, StutterRefines
<1> QED BY <1>5, <1>6

(* The synchronous insert stores a diverted row, or loses it. *)
LEMMA InsertRefines ==
    ASSUME IInv, IInv', BootFirst, NEW r \in Req, InsertSync(r), Fates, Fates'
    PROVE  Ledger!Insert(r)
<1>1. UNCHANGED <<auditCh, hold, async, kafka, chans, ch>>
  BY DEF InsertSync, startVars, loopVars
<1>2. pendingBar' = pendingBar
  BY <1>1 DEF pendingBar
<1>3. pc[r] = "insert" /\ \A x \in Req : x # r => pc'[x] = pc[x]
  BY DEF InsertSync, IInv, TypeOK
<1>4. async => ch[r] # None /\ r \in Critical
  BY <1>3 DEF IInv, RowInv, InFlight
<1>5. ~async => ch[r] = None
  BY DEF IInv, OnceInv, RowInv
<1>6. fate(r) = IF async THEN "diverted" ELSE "open"
  BY <1>3, <1>4, <1>5 DEF Fates, Overflowed
<1>7. ASSUME NEW f, fate(r)' = f,
             \A x \in Req : x # r => (x \in mongo' <=> x \in mongo) /\ lost'[x] = lost[x]
      PROVE  statusBar' = [statusBar EXCEPT ![r] = f]
  <2>1. \A x \in Req : x # r => fate(x)' = fate(x)
    BY <1>1, <1>3, <1>7, SameFate, PipelineUnchanged, KafkaUnchanged DEF Overflowed
  <2> QED BY <1>7, <2>1 DEF statusBar
<1>8. CASE mongo' = mongo \cup {r} /\ lost' = lost
  <2>1. fate(r)' = "stored"
    BY <1>8 DEF Fates
  <2>2. statusBar' = [statusBar EXCEPT ![r] = "stored"]
    BY <1>7, <1>8, <2>1
  <2> QED BY <1>1, <1>2, <1>6, <2>2 DEF Ledger!Insert, statusBar
<1>9. CASE "insert" \in Faults /\ mongo' = mongo /\ lost' = [lost EXCEPT ![r] = "insert"]
  <2>1. lost'[r] = "insert" /\ \A x \in Req : x # r => lost'[x] = lost[x]
    BY <1>9 DEF IInv, TypeOK
  <2>2. fate(r)' = "lost"
    BY <2>1 DEF Fates
  <2>3. statusBar' = [statusBar EXCEPT ![r] = "lost"]
    BY <1>7, <1>9, <2>1, <2>2
  <2> QED BY <1>1, <1>2, <1>6, <1>9, <2>3 DEF Ledger!Insert, statusBar
<1> QED BY <1>8, <1>9 DEF InsertSync

(* A crash loses what was accepted and what was being served. *)
LEMMA CrashRefines ==
    ASSUME IInv, IInv', BootFirst, Crash, Fates, Fates'
    PROVE  Ledger!Crash
<1> DEFINE dying == {r \in Req : InFlight(r)}
<1>1. UNCHANGED <<async, kafka, mongo>> /\ pendingBar' = <<>>
  BY DEF Crash, pendingBar
<1>2. \A r \in Req : statusBar[r] = fate(r) /\ statusBar'[r] = fate(r)'
  BY DEF statusBar
<1>3. \A r \in dying : fate(r) \in {"open", "diverted", "dropped"} /\ fate(r)' = "lost"
  <2> SUFFICES ASSUME NEW r \in Req, InFlight(r)
               PROVE  fate(r) \in {"open", "diverted", "dropped"} /\ fate(r)' = "lost"
      OBVIOUS
  <2>1. lost'[r] = "crash"
    BY DEF Crash
  <2> QED BY <2>1 DEF Fates, InFlight, Overflowed
<1>4. \A r \in Req : fate(r) = "accepted" <=> InPipeline(r)
  <2> SUFFICES ASSUME NEW r \in Req, ~InPipeline(r) PROVE fate(r) # "accepted"
      BY DEF Fates
  <2> QED BY DEF fate
<1>5. \A r \in Req : InPipeline(r) => fate(r)' = "lost"
  <2> SUFFICES ASSUME NEW r \in Req, InPipeline(r) PROVE fate(r)' = "lost"
      OBVIOUS
  <2>1. lost'[r] = "crash"
    BY DEF Crash
  <2> QED BY <2>1 DEF Fates
<1>6. \A r \in Req : ~InPipeline(r) /\ ~InFlight(r) => fate(r)' = fate(r)
  <2> SUFFICES ASSUME NEW r \in Req, ~InPipeline(r), ~InFlight(r) PROVE fate(r)' = fate(r)
      OBVIOUS
  <2>1. lost'[r] = lost[r] /\ ~InPipeline(r)'
    BY CrashMoves DEF Crash
  <2>2. ~Overflowed(r) /\ ~Overflowed(r)'
    BY DEF Overflowed, InFlight, Crash
  <2> QED BY <1>1, <2>1, <2>2, SameFate, KafkaUnchanged
<1>7. dying \in SUBSET {r \in Req : statusBar[r] \in {"open", "diverted", "dropped"}}
  BY <1>2, <1>3
<1>8. statusBar' = [r \in Req |-> IF statusBar[r] = "accepted" \/ r \in dying
                                  THEN "lost" ELSE statusBar[r]]
  <2> SUFFICES ASSUME NEW r \in Req
               PROVE  fate(r)' = IF fate(r) = "accepted" \/ r \in dying THEN "lost" ELSE fate(r)
      BY <1>2 DEF statusBar
  <2> QED BY <1>3, <1>4, <1>5, <1>6
<1> QED BY <1>1, <1>7, <1>8 DEF Ledger!Crash

-----------------------------------------------------------------------------
(* Every step of a process that boots first is a ledger step or invisible. *)
LEMMA StepRefines ==
    BootFirst /\ IInv /\ IInv' /\ Fates /\ Fates' /\ [Next]_vars => [Ledger!Next]_(Ledger!vars)
<1> SUFFICES ASSUME BootFirst, IInv, IInv', Fates, Fates', [Next]_vars
             PROVE  [Ledger!Next]_(Ledger!vars)
    OBVIOUS
<1>1. ASSUME NEW s \in Caller, StartAuditPublisher(s) PROVE UNCHANGED Ledger!vars
  BY <1>1, StartRefines
<1>2. ASSUME NEW s \in Caller, AuditLoop(s) PROVE UNCHANGED Ledger!vars \/ Ledger!Settle
  BY <1>2, RangeRefines, ReceiveRefines, PublishRefines DEF AuditLoop
<1>3. ASSUME NEW r \in Req, LoadQueue(r) PROVE UNCHANGED Ledger!vars
  BY <1>3, LoadRefines
<1>4. ASSUME NEW r \in Req, FinishSave(r)
      PROVE  UNCHANGED Ledger!vars \/ Ledger!Accept(r) \/ Ledger!Overflow(r) \/ Ledger!Insert(r)
  BY <1>4, SendAcceptedRefines, SendDroppedRefines, ChooseRefines, InsertRefines DEF FinishSave
<1>5. CASE Crash
  BY <1>5, CrashRefines DEF Ledger!Next
<1>6. CASE UNCHANGED vars
  <2>1. UNCHANGED <<async, auditCh, hold, chans, kafka, mongo, lost, pc, ch>>
    BY <1>6 DEF vars, startVars, loopVars, reqVars
  <2>2. pendingBar' = pendingBar
    BY <2>1 DEF pendingBar
  <2>3. \A x \in Req : fate(x)' = fate(x)
    BY <2>1, SameFate, PipelineUnchanged, KafkaUnchanged DEF Overflowed
  <2> QED BY <2>1, <2>2, <2>3, StutterRefines
<1> QED BY <1>1, <1>2, <1>3, <1>4, <1>5, <1>6 DEF Next, Ledger!Next

(* The pipeline implements the ledger: rows reach Kafka in the order they  *)
(* were accepted, only a full queue turns a row away, no critical row is   *)
(* given up for it, and no row is both published and stored.               *)
THEOREM PipelineImplementsLedger == BootFirst => (Spec => ImplementsLedger)
<1> SUFFICES ASSUME BootFirst PROVE Spec => ImplementsLedger
    OBVIOUS
<1>1. Init => Ledger!Init
  BY InitRefines
<1>2. IInv /\ IInv' /\ Fates /\ Fates' /\ [Next]_vars => [Ledger!Next]_(Ledger!vars)
  BY StepRefines
<1>3. IInv => Fates
  BY FatesHold
<1>4. Spec => []IInv
  BY PipelineInvariant
<1> QED BY <1>1, <1>2, <1>3, <1>4, PTL DEF Spec, Ledger!Spec, ImplementsLedger

=============================================================================
