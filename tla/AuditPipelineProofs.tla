------------------------ MODULE AuditPipelineProofs ------------------------
(***************************************************************************)
(* Proofs about AuditPipeline for any set of requests and callers, any     *)
(* capacity, any faults and any number of crashes.                         *)
(***************************************************************************)
EXTENDS AuditPipeline, SequenceTheorems, FiniteSetTheorems, TLAPS

(* Contains, as Append, Head and Tail change it. *)
LEMMA ContainsEmpty == \A x : ~Contains(<<>>, x)
BY DEF Contains

LEMMA ContainsAppend ==
    ASSUME NEW S, NEW q \in Seq(S), NEW e \in S, NEW x
    PROVE  Contains(Append(q, e), x) <=> Contains(q, x) \/ x = e
BY AppendProperties DEF Contains

LEMMA ContainsTail ==
    ASSUME NEW S, NEW q \in Seq(S), q # <<>>, NEW x
    PROVE  Contains(q, x) <=> Contains(Tail(q), x) \/ x = Head(q)
<1>1. Contains(q, x) => Contains(Tail(q), x) \/ x = Head(q)
  <2> SUFFICES ASSUME NEW i \in 1..Len(q), q[i] = x, x # Head(q)
               PROVE  Contains(Tail(q), x)
      BY DEF Contains
  <2>1. i # 1 BY HeadTailProperties
  <2>2. i - 1 \in 1..Len(Tail(q)) BY <2>1, HeadTailProperties, LenProperties
  <2>3. Tail(q)[i - 1] = x BY <2>2, HeadTailProperties
  <2> QED BY <2>2, <2>3 DEF Contains
<1>2. Contains(Tail(q), x) => Contains(q, x)
  <2> SUFFICES ASSUME NEW i \in 1..Len(Tail(q)), Tail(q)[i] = x
               PROVE  Contains(q, x)
      BY DEF Contains
  <2>1. i + 1 \in 1..Len(q) /\ q[i + 1] = x BY HeadTailProperties, LenProperties
  <2> QED BY <2>1 DEF Contains
<1>3. x = Head(q) => Contains(q, x)
  BY EmptySeq, HeadTailProperties, LenProperties DEF Contains
<1> QED BY <1>1, <1>2, <1>3

(* A queue without repetitions keeps none when it grows and shrinks. *)
LEMMA InjectiveAppend ==
    ASSUME NEW S, NEW q \in Seq(S), NEW e \in S, IsInjective(q), ~Contains(q, e)
    PROVE  IsInjective(Append(q, e))
BY AppendProperties, LenProperties DEF IsInjective, Contains

LEMMA InjectiveTail ==
    ASSUME NEW S, NEW q \in Seq(S), q # <<>>, IsInjective(q)
    PROVE  IsInjective(Tail(q)) /\ ~Contains(Tail(q), Head(q))
<1>1. /\ Tail(q) \in Seq(S)
      /\ Len(Tail(q)) = Len(q) - 1
      /\ Head(q) = q[1]
      /\ \A i \in 1..Len(Tail(q)) : Tail(q)[i] = q[i + 1]
  BY HeadTailProperties
<1>2. DOMAIN q = 1..Len(q) /\ DOMAIN Tail(q) = 1..Len(Tail(q)) /\ Len(q) \in Nat
  BY <1>1, LenProperties
<1>3. \A i \in 1..Len(Tail(q)) : i + 1 \in 1..Len(q) /\ i + 1 # 1
  BY <1>1, <1>2
<1>4. IsInjective(Tail(q))
  BY <1>1, <1>2, <1>3 DEF IsInjective
<1>5. ~Contains(Tail(q), Head(q))
  BY <1>1, <1>2, <1>3 DEF IsInjective, Contains
<1> QED BY <1>4, <1>5

-----------------------------------------------------------------------------
USE ConstantsAssumption
    DEF OnceAllows, AfterPublish, HasRoom, QueueFull, AfterAccept, DropCount

(* The initial state satisfies the inductive invariant. *)
LEMMA InvInit == Init => IInv
<1> SUFFICES ASSUME Init PROVE IInv
    OBVIOUS
<1>1. TypeOK
  BY DEF Init, TypeOK, Chan
<1>2. OnceInv /\ LoopInv
  BY DEF Init, OnceInv, LoopInv
<1>3. \A r \in Req : ~InPipeline(r) /\ ~InKafka(r)
  BY ContainsEmpty DEF Init, InPipeline, InKafka
<1>4. RowInv /\ SinglePlace /\ RowAccounted
  BY <1>3, ContainsEmpty DEF Init, RowInv, SinglePlace, RowAccounted, InFlight, IsInjective
<1> QED BY <1>1, <1>2, <1>4 DEF IInv

(* A step keeps every variable in its type. *)
LEMMA TypeStep == IInv /\ [Next]_vars => TypeOK'
<1> SUFFICES ASSUME IInv, [Next]_vars PROVE TypeOK'
    OBVIOUS
<1> USE DEF IInv, TypeOK, Chan
<1>1. ASSUME NEW s \in Caller, StartAuditPublisher(s) PROVE TypeOK'
  <2>1. CASE StayingSync(s)
    BY <2>1 DEF StayingSync, loopVars, reqVars
  <2>2. CASE EnterOnce(s)
    BY <2>2 DEF EnterOnce, loopVars, reqVars
  <2>3. CASE SkipOnce(s)
    BY <2>3 DEF SkipOnce, loopVars, reqVars
  <2>4. CASE MakeQueue(s)
    BY <2>4, EmptySeq DEF MakeQueue, loopVars, reqVars
  <2>5. CASE SpawnLoop(s)
    BY <2>5 DEF SpawnLoop, reqVars
  <2> QED BY <1>1, <2>1, <2>2, <2>3, <2>4, <2>5 DEF StartAuditPublisher
<1>2. ASSUME NEW s \in Caller, AuditLoop(s) PROVE TypeOK'
  <2>1. CASE RangeQueue(s)
    BY <2>1 DEF RangeQueue, startVars, reqVars
  <2>2. CASE Receive(s)
    <3>1. loopCh[s] = s /\ chans[s] \in Seq(Req) /\ chans[s] # <<>>
      BY <2>2 DEF Receive, LoopInv
    <3>2. Head(chans[s]) \in Req /\ Tail(chans[s]) \in Seq(Req)
      BY <3>1, HeadTailProperties
    <3> QED BY <2>2, <3>1, <3>2 DEF Receive, startVars, reqVars
  <2>3. CASE Publish(s)
    <3>1. hold[s] \in Req
      BY <2>3 DEF Publish, LoopInv
    <3>2. /\ Append(kafka, hold[s]) \in Seq(Req)
          /\ Append(Append(kafka, hold[s]), hold[s]) \in Seq(Req)
      BY <3>1, AppendProperties
    <3>3. kafka' \in Seq(Req)
      BY <2>3, <3>2 DEF Publish
    <3>4. lost' \in [Req -> {"no", "full", "unready", "publish", "insert", "crash"}]
      BY <2>3, <3>1 DEF Publish
    <3>5. UNCHANGED <<startVars, chans, loopCh, reqVars, mongo, crashes>>
      BY <2>3 DEF Publish
    <3>6. hold' = [hold EXCEPT ![s] = None] /\ loopPc' = [loopPc EXCEPT ![s] = "receive"]
      BY <2>3 DEF Publish
    <3> QED BY <3>3, <3>4, <3>5, <3>6 DEF startVars, reqVars
  <2> QED BY <1>2, <2>1, <2>2, <2>3 DEF AuditLoop
<1>3. ASSUME NEW r \in Req, LoadQueue(r) PROVE TypeOK'
  BY <1>3 DEF LoadQueue, startVars, loopVars
<1>4. ASSUME NEW r \in Req, FinishSave(r) PROVE TypeOK'
  <2>1. CASE SendAccepted(r)
    <3>1. ch[r] \in Caller
      BY <2>1 DEF SendAccepted, RowInv
    <3>2. Append(chans[ch[r]], r) \in Seq(Req)
      BY <3>1, AppendProperties
    <3> QED BY <2>1, <3>1, <3>2 DEF SendAccepted, startVars, loopVars
  <2>2. CASE SendDropped(r)
    BY <2>2 DEF SendDropped, startVars, loopVars
  <2>3. CASE ChooseFallback(r)
    BY <2>3 DEF ChooseFallback, startVars, loopVars
  <2>4. CASE InsertSync(r)
    <3>1. mongo' \subseteq Req
      BY <2>4 DEF InsertSync
    <3>2. lost' \in [Req -> {"no", "full", "unready", "publish", "insert", "crash"}]
      BY <2>4 DEF InsertSync
    <3>3. pc' = [pc EXCEPT ![r] = "done"]
      BY <2>4 DEF InsertSync
    <3>4. UNCHANGED <<startVars, chans, loopVars, ch, dropTotal, kafka, crashes>>
      BY <2>4 DEF InsertSync
    <3> QED BY <3>1, <3>2, <3>3, <3>4 DEF startVars, loopVars
  <2> QED BY <1>4, <2>1, <2>2, <2>3, <2>4 DEF FinishSave
<1>5. CASE Crash
  BY <1>5, EmptySeq DEF Crash
<1>6. CASE UNCHANGED vars
  BY <1>6 DEF vars, startVars, loopVars, reqVars
<1> QED BY <1>1, <1>2, <1>3, <1>4, <1>5, <1>6 DEF Next

(* A step keeps the Once function, auditCh and the callers in agreement. *)
LEMMA OnceStep == IInv /\ [Next]_vars => OnceInv'
<1> SUFFICES ASSUME IInv, [Next]_vars PROVE OnceInv'
    OBVIOUS
<1> USE DEF IInv, TypeOK, OnceInv
<1>1. ASSUME NEW s \in Caller, StartAuditPublisher(s) PROVE OnceInv'
  <2>1. CASE StayingSync(s)
    BY <2>1 DEF StayingSync
  <2>2. CASE EnterOnce(s)
    BY <2>2 DEF EnterOnce
  <2>3. CASE SkipOnce(s)
    BY <2>3 DEF SkipOnce
  <2>4. CASE MakeQueue(s)
    BY <2>4 DEF MakeQueue
  <2>5. CASE SpawnLoop(s)
    BY <2>5 DEF SpawnLoop
  <2> QED BY <1>1, <2>1, <2>2, <2>3, <2>4, <2>5 DEF StartAuditPublisher
<1>2. ASSUME NEW s \in Caller, AuditLoop(s) PROVE OnceInv'
  BY <1>2 DEF AuditLoop, RangeQueue, Receive, Publish, startVars
<1>3. ASSUME NEW r \in Req, LoadQueue(r) \/ FinishSave(r) PROVE OnceInv'
  BY <1>3 DEF LoadQueue, FinishSave, SendAccepted, SendDropped, ChooseFallback, InsertSync, startVars
<1>4. CASE Crash
  BY <1>4 DEF Crash
<1>5. CASE UNCHANGED vars
  BY <1>5 DEF vars, startVars
<1> QED BY <1>1, <1>2, <1>3, <1>4, <1>5 DEF Next

(* A step keeps one loop, on the one channel, within the capacity. *)
LEMMA LoopStep == IInv /\ [Next]_vars => LoopInv'
<1> SUFFICES ASSUME IInv, [Next]_vars PROVE LoopInv'
    OBVIOUS
<1> USE DEF IInv, TypeOK, LoopInv
<1>1. ASSUME NEW s \in Caller, StartAuditPublisher(s) PROVE LoopInv'
  <2>1. CASE StayingSync(s)
    BY <2>1 DEF StayingSync, loopVars
  <2>2. CASE EnterOnce(s)
    BY <2>2 DEF EnterOnce, loopVars, OnceInv
  <2>3. CASE SkipOnce(s)
    BY <2>3 DEF SkipOnce, loopVars
  <2>4. CASE MakeQueue(s)
    BY <2>4, EmptySeq DEF MakeQueue, loopVars, OnceInv
  <2>5. CASE SpawnLoop(s)
    BY <2>5 DEF SpawnLoop, OnceInv
  <2> QED BY <1>1, <2>1, <2>2, <2>3, <2>4, <2>5 DEF StartAuditPublisher
<1>2. ASSUME NEW s \in Caller, AuditLoop(s) PROVE LoopInv'
  <2>1. CASE RangeQueue(s)
    BY <2>1 DEF RangeQueue, startVars
  <2>2. CASE Receive(s)
    <3>1. loopCh[s] = s /\ chans[s] \in Seq(Req) /\ chans[s] # <<>>
      BY <2>2 DEF Receive
    <3>2. Head(chans[s]) \in Req /\ Len(Tail(chans[s])) <= QueueCap
      BY <3>1, HeadTailProperties, LenProperties
    <3> QED BY <2>2, <3>1, <3>2 DEF Receive, startVars
  <2>3. CASE Publish(s)
    BY <2>3 DEF Publish, startVars
  <2> QED BY <1>2, <2>1, <2>2, <2>3 DEF AuditLoop
<1>3. ASSUME NEW r \in Req, LoadQueue(r) \/ SendDropped(r) \/ ChooseFallback(r) \/ InsertSync(r)
      PROVE  LoopInv'
  BY <1>3 DEF LoadQueue, SendDropped, ChooseFallback, InsertSync, startVars, loopVars
<1>4. ASSUME NEW r \in Req, SendAccepted(r) PROVE LoopInv'
  <2>1. ch[r] \in Caller /\ ch[r] = auditCh
    BY <1>4 DEF SendAccepted, RowInv, Chan
  <2>2. Len(Append(chans[ch[r]], r)) <= QueueCap
    BY <1>4, <2>1, AppendProperties, LenProperties DEF SendAccepted
  <2> QED BY <1>4, <2>1, <2>2 DEF SendAccepted, startVars, loopVars
<1>5. CASE Crash
  BY <1>5, EmptySeq DEF Crash
<1>6. CASE UNCHANGED vars
  BY <1>6 DEF vars, startVars, loopVars
<1> QED BY <1>1, <1>2, <1>3, <1>4, <1>5, <1>6 DEF Next, FinishSave

-----------------------------------------------------------------------------
(* How the steps that touch a queue move rows.                             *)

LEMMA PipelineUnchanged ==
    ASSUME UNCHANGED <<chans, hold>>
    PROVE  \A x : InPipeline(x)' <=> InPipeline(x)
BY DEF InPipeline

LEMMA KafkaUnchanged ==
    ASSUME UNCHANGED kafka
    PROVE  \A x : InKafka(x)' <=> InKafka(x)
BY DEF InKafka

LEMMA AcceptMoves ==
    ASSUME IInv, NEW r \in Req, SendAccepted(r)
    PROVE  \A x \in Req : InPipeline(x)' <=> InPipeline(x) \/ x = r
<1>1. ch[r] \in Caller /\ chans \in [Caller -> Seq(Req)]
  BY DEF IInv, TypeOK, Chan, RowInv, SendAccepted
<1>2. \A x \in Req : Contains(Append(chans[ch[r]], r), x) <=> Contains(chans[ch[r]], x) \/ x = r
  BY <1>1, ContainsAppend
<1>3. chans' = [chans EXCEPT ![ch[r]] = Append(chans[ch[r]], r)] /\ hold' = hold
  BY DEF SendAccepted, loopVars
<1> QED BY <1>1, <1>2, <1>3 DEF InPipeline

LEMMA ReceiveMoves ==
    ASSUME IInv, NEW s \in Caller, Receive(s)
    PROVE  \A x \in Req : InPipeline(x)' <=> InPipeline(x)
<1>1. /\ loopCh[s] = s /\ chans[s] # <<>> /\ hold[s] = None
      /\ chans \in [Caller -> Seq(Req)] /\ hold \in [Caller -> Req \cup {None}]
  BY DEF IInv, TypeOK, LoopInv, Receive
<1>2. \A x \in Req : Contains(chans[s], x) <=> Contains(Tail(chans[s]), x) \/ x = Head(chans[s])
  BY <1>1, ContainsTail
<1>3. chans' = [chans EXCEPT ![s] = Tail(chans[s])] /\ hold' = [hold EXCEPT ![s] = Head(chans[s])]
  BY <1>1 DEF Receive
<1> QED BY <1>1, <1>2, <1>3 DEF InPipeline

LEMMA PublishMoves ==
    ASSUME IInv, NEW s \in Caller, Publish(s)
    PROVE  /\ hold[s] \in Req /\ InPipeline(hold[s])
           /\ \A x \in Req : InPipeline(x)' <=> InPipeline(x) /\ x # hold[s]
           /\ \/ /\ \A x \in Req : InKafka(x)' <=> InKafka(x) \/ x = hold[s]
                 /\ lost' = lost
              \/ /\ \A x \in Req : InKafka(x)' <=> InKafka(x)
                 /\ lost' = [lost EXCEPT ![hold[s]] = "publish"]
<1>1. /\ hold[s] \in Req
      /\ chans \in [Caller -> Seq(Req)] /\ hold \in [Caller -> Req \cup {None}] /\ kafka \in Seq(Req)
  BY DEF IInv, TypeOK, LoopInv, Publish
<1>2. \A t \in Caller : t # s => chans[t] = <<>> /\ hold[t] = None
  BY DEF IInv, LoopInv, Publish
<1>3. ~Contains(chans[s], hold[s])
  BY DEF IInv, SinglePlace
<1>4. chans' = chans /\ hold' = [hold EXCEPT ![s] = None]
  BY DEF Publish
<1>5. \A x \in Req : InPipeline(x)' <=> InPipeline(x) /\ x # hold[s]
  <2> SUFFICES ASSUME NEW x \in Req
               PROVE  InPipeline(x)' <=> InPipeline(x) /\ x # hold[s]
      OBVIOUS
  <2>1. InPipeline(x) <=> Contains(chans[s], x) \/ hold[s] = x
    BY <1>2, ContainsEmpty DEF InPipeline
  <2>2. InPipeline(x)' <=> Contains(chans[s], x)
    BY <1>1, <1>2, <1>4, ContainsEmpty DEF InPipeline
  <2> QED BY <1>3, <2>1, <2>2
<1>6. \A x : Contains(Append(kafka, hold[s]), x) <=> Contains(kafka, x) \/ x = hold[s]
  BY <1>1, ContainsAppend
<1>7. \A x : Contains(Append(Append(kafka, hold[s]), hold[s]), x) <=> Contains(kafka, x) \/ x = hold[s]
  <2>1. PICK k \in Seq(Req) : k = Append(kafka, hold[s])
    BY <1>1, AppendProperties
  <2>2. \A x : Contains(Append(k, hold[s]), x) <=> Contains(k, x) \/ x = hold[s]
    BY <1>1, ContainsAppend
  <2> QED BY <1>6, <2>1, <2>2
<1>8. InPipeline(hold[s])
  BY DEF InPipeline
<1>9. \/ /\ \A x \in Req : InKafka(x)' <=> InKafka(x) \/ x = hold[s]
         /\ lost' = lost
      \/ /\ \A x \in Req : InKafka(x)' <=> InKafka(x)
         /\ lost' = [lost EXCEPT ![hold[s]] = "publish"]
  BY <1>6, <1>7 DEF Publish, InKafka
<1> QED BY <1>1, <1>5, <1>8, <1>9

LEMMA CrashMoves ==
    ASSUME Crash
    PROVE  \A x \in Req : ~InPipeline(x)'
BY ContainsEmpty DEF Crash, InPipeline

-----------------------------------------------------------------------------
(* The starting of the publisher, seen by the rows: the channel variable   *)
(* is only ever set when it was nil, and every initialiser that returned   *)
(* stays returned.                                                         *)
LEMMA StartMoves ==
    ASSUME IInv, NEW s \in Caller, StartAuditPublisher(s)
    PROVE  /\ UNCHANGED <<hold, async, pc, ch, kafka, mongo, lost, crashes>>
           /\ chans' = chans
           /\ auditCh # None => auditCh' = auditCh
           /\ Booted => Booted'
<1> USE DEF IInv, TypeOK
<1>1. UNCHANGED <<hold, async, pc, ch, kafka, mongo, lost, crashes>>
  BY DEF StartAuditPublisher, StayingSync, EnterOnce, SkipOnce, MakeQueue, SpawnLoop, loopVars, reqVars
<1>2. chans' = chans
  BY DEF StartAuditPublisher, StayingSync, EnterOnce, SkipOnce, MakeQueue, SpawnLoop, OnceInv, LoopInv
<1>3. auditCh # None => auditCh' = auditCh
  BY DEF StartAuditPublisher, StayingSync, EnterOnce, SkipOnce, MakeQueue, SpawnLoop, OnceInv
<1>4. Booted => Booted'
  BY DEF StartAuditPublisher, StayingSync, EnterOnce, SkipOnce, MakeQueue, SpawnLoop, Booted
<1> QED BY <1>1, <1>2, <1>3, <1>4

(* A step keeps the place of a row, its request and its loss in agreement. *)
LEMMA RowStep == IInv /\ [Next]_vars => RowInv'
<1> SUFFICES ASSUME IInv, [Next]_vars PROVE RowInv'
    OBVIOUS
<1> USE DEF IInv, TypeOK, Chan
<1>1. ASSUME NEW s \in Caller, StartAuditPublisher(s) PROVE RowInv'
  <2>1. /\ \A x : InPipeline(x)' <=> InPipeline(x)
        /\ \A x : InKafka(x)' <=> InKafka(x)
    BY <1>1, StartMoves, PipelineUnchanged, KafkaUnchanged
  <2> QED BY <1>1, <2>1, StartMoves DEF RowInv, InFlight
<1>2. ASSUME NEW s \in Caller, RangeQueue(s) PROVE RowInv'
  <2>1. /\ \A x : InPipeline(x)' <=> InPipeline(x)
        /\ \A x : InKafka(x)' <=> InKafka(x)
    BY <1>2, PipelineUnchanged, KafkaUnchanged DEF RangeQueue
  <2> QED BY <1>2, <2>1 DEF RangeQueue, startVars, reqVars, RowInv, InFlight, Booted
<1>3. ASSUME NEW s \in Caller, Receive(s) PROVE RowInv'
  <2>1. /\ \A x \in Req : InPipeline(x)' <=> InPipeline(x)
        /\ \A x : InKafka(x)' <=> InKafka(x)
    BY <1>3, ReceiveMoves, KafkaUnchanged DEF Receive
  <2> QED BY <1>3, <2>1 DEF Receive, startVars, reqVars, RowInv, InFlight, Booted
<1>4. ASSUME NEW s \in Caller, Publish(s) PROVE RowInv'
  <2>1. UNCHANGED <<startVars, reqVars, mongo>>
    BY <1>4 DEF Publish
  <2>2. ~InKafka(hold[s]) /\ hold[s] \notin mongo
    BY <1>4, PublishMoves DEF SinglePlace
  <2>3. /\ hold[s] \in Req /\ InPipeline(hold[s])
        /\ \A x \in Req : InPipeline(x)' <=> InPipeline(x) /\ x # hold[s]
    BY <1>4, PublishMoves
  <2>4. CASE (\A x \in Req : InKafka(x)' <=> InKafka(x) \/ x = hold[s]) /\ lost' = lost
    BY <2>1, <2>3, <2>4 DEF startVars, reqVars, RowInv, InFlight, Booted
  <2>5. CASE /\ \A x \in Req : InKafka(x)' <=> InKafka(x)
             /\ lost' = [lost EXCEPT ![hold[s]] = "publish"]
    BY <2>1, <2>2, <2>3, <2>5 DEF startVars, reqVars, RowInv, InFlight, Booted
  <2> QED BY <1>4, <2>4, <2>5, PublishMoves
<1>5. ASSUME NEW r \in Req, LoadQueue(r) PROVE RowInv'
  <2>1. /\ \A x : InPipeline(x)' <=> InPipeline(x)
        /\ \A x : InKafka(x)' <=> InKafka(x)
    BY <1>5, PipelineUnchanged, KafkaUnchanged DEF LoadQueue, loopVars
  <2>2. BootFirst /\ async => auditCh # None
    BY <1>5 DEF LoadQueue, Booted, OnceInv
  <2> QED BY <1>5, <2>1, <2>2 DEF LoadQueue, startVars, RowInv, InFlight, Booted
<1>6. ASSUME NEW r \in Req, SendAccepted(r) PROVE RowInv'
  <2>1. /\ \A x \in Req : InPipeline(x)' <=> InPipeline(x) \/ x = r
        /\ \A x : InKafka(x)' <=> InKafka(x)
    BY <1>6, AcceptMoves, KafkaUnchanged DEF SendAccepted
  <2> QED BY <1>6, <2>1 DEF SendAccepted, startVars, RowInv, InFlight, Booted
<1>7. ASSUME NEW r \in Req, SendDropped(r) \/ ChooseFallback(r) \/ InsertSync(r) PROVE RowInv'
  <2>1. /\ \A x : InPipeline(x)' <=> InPipeline(x)
        /\ \A x : InKafka(x)' <=> InKafka(x)
    BY <1>7, PipelineUnchanged, KafkaUnchanged
       DEF SendDropped, ChooseFallback, InsertSync, loopVars
  <2>2. CASE SendDropped(r)
    BY <2>1, <2>2 DEF SendDropped, startVars, RowInv, InFlight, Booted
  <2>3. CASE ChooseFallback(r)
    <3>1. BootFirst /\ ~MustInsert(r) => ch[r] # None
      BY <2>3 DEF ChooseFallback, MustInsert, AsyncReady, RowInv, OnceInv, InFlight
    <3>2. ch[r] # None /\ MustInsert(r) => r \in Critical
      BY DEF MustInsert, AsyncReady, RowInv
    <3>3. UNCHANGED <<startVars, ch, mongo>>
      BY <2>3 DEF ChooseFallback
    <3>4. CASE MustInsert(r)
      BY <2>1, <2>3, <3>2, <3>3, <3>4 DEF ChooseFallback, startVars, RowInv, InFlight, Booted
    <3>5. CASE ~MustInsert(r)
      BY <2>1, <2>3, <3>1, <3>3, <3>5 DEF ChooseFallback, MustInsert, startVars, RowInv, InFlight, Booted
    <3> QED BY <3>4, <3>5
  <2>4. CASE InsertSync(r)
    <3>1. pc[r] = "insert" /\ pc' = [pc EXCEPT ![r] = "done"] /\ UNCHANGED <<startVars, ch>>
      BY <2>4 DEF InsertSync
    <3>2. CASE mongo' = mongo \cup {r} /\ lost' = lost
      BY <2>1, <3>1, <3>2 DEF startVars, RowInv, InFlight, Booted
    <3>3. CASE mongo' = mongo /\ lost' = [lost EXCEPT ![r] = "insert"]
      BY <2>1, <3>1, <3>3 DEF startVars, RowInv, InFlight, Booted
    <3> QED BY <2>4, <3>2, <3>3 DEF InsertSync
  <2> QED BY <1>7, <2>2, <2>3, <2>4
<1>8. CASE Crash
  <2>1. \A x : InKafka(x)' <=> InKafka(x)
    BY <1>8, KafkaUnchanged DEF Crash
  <2> QED BY <1>8, <2>1, CrashMoves DEF Crash, RowInv, SinglePlace, InFlight
<1>9. CASE UNCHANGED vars
  <2>1. /\ \A x : InPipeline(x)' <=> InPipeline(x)
        /\ \A x : InKafka(x)' <=> InKafka(x)
    BY <1>9, PipelineUnchanged, KafkaUnchanged DEF vars, loopVars
  <2> QED BY <1>9, <2>1 DEF vars, startVars, reqVars, RowInv, InFlight, Booted
<1> QED BY <1>1, <1>2, <1>3, <1>4, <1>5, <1>6, <1>7, <1>8, <1>9 DEF Next, AuditLoop, FinishSave

(* A step keeps every row in at most one place. *)
LEMMA PlaceStep == IInv /\ [Next]_vars => SinglePlace'
<1> SUFFICES ASSUME IInv, [Next]_vars PROVE SinglePlace'
    OBVIOUS
<1> USE DEF IInv, TypeOK, Chan
<1>0. ASSUME UNCHANGED <<chans, hold, kafka, mongo>> PROVE SinglePlace'
  BY <1>0 DEF SinglePlace, InPipeline, InKafka
<1>1. ASSUME NEW s \in Caller, StartAuditPublisher(s) PROVE SinglePlace'
  BY <1>0, <1>1, StartMoves
<1>2. ASSUME NEW s \in Caller, RangeQueue(s) PROVE SinglePlace'
  BY <1>0, <1>2 DEF RangeQueue
<1>3. ASSUME NEW s \in Caller, Receive(s) PROVE SinglePlace'
  <2>1. /\ \A x \in Req : InPipeline(x)' <=> InPipeline(x)
        /\ \A x : InKafka(x)' <=> InKafka(x)
    BY <1>3, ReceiveMoves, KafkaUnchanged DEF Receive
  <2>2. loopCh[s] = s /\ chans[s] \in Seq(Req) /\ chans[s] # <<>> /\ IsInjective(chans[s])
    BY <1>3 DEF Receive, LoopInv, SinglePlace
  <2>3. IsInjective(Tail(chans[s])) /\ ~Contains(Tail(chans[s]), Head(chans[s]))
    BY <2>2, InjectiveTail
  <2>4. \A t \in Caller : IsInjective(chans'[t]) /\ ~Contains(chans'[t], hold'[t])
    BY <1>3, <2>2, <2>3 DEF Receive, SinglePlace
  <2> QED BY <1>3, <2>1, <2>4 DEF Receive, SinglePlace
<1>4. ASSUME NEW s \in Caller, Publish(s) PROVE SinglePlace'
  <2>1. /\ hold[s] \in Req /\ InPipeline(hold[s])
        /\ \A x \in Req : InPipeline(x)' <=> InPipeline(x) /\ x # hold[s]
        /\ \A x \in Req : InKafka(x)' => InKafka(x) \/ x = hold[s]
    BY <1>4, PublishMoves
  <2>2. \A t \in Caller : ~Contains(chans[t], None)
    <3> SUFFICES ASSUME NEW t \in Caller, NEW i \in 1..Len(chans[t]) PROVE chans[t][i] # None
        BY DEF Contains
    <3> QED BY ElementOfSeq
  <2>3. \A t \in Caller : IsInjective(chans'[t]) /\ ~Contains(chans'[t], hold'[t])
    BY <1>4, <2>2 DEF Publish, SinglePlace
  <2> QED BY <1>4, <2>1, <2>3 DEF Publish, SinglePlace
<1>5. ASSUME NEW r \in Req, SendAccepted(r) PROVE SinglePlace'
  <2>1. /\ \A x \in Req : InPipeline(x)' <=> InPipeline(x) \/ x = r
        /\ \A x : InKafka(x)' <=> InKafka(x)
    BY <1>5, AcceptMoves, KafkaUnchanged DEF SendAccepted
  <2>2. ~InPipeline(r) /\ ~InKafka(r) /\ r \notin mongo
    BY <1>5 DEF SendAccepted, RowInv
  <2>3. ch[r] \in Caller /\ chans[ch[r]] \in Seq(Req) /\ IsInjective(chans[ch[r]])
    BY <1>5 DEF SendAccepted, RowInv, SinglePlace
  <2>4. IsInjective(Append(chans[ch[r]], r))
    BY <2>2, <2>3, InjectiveAppend DEF InPipeline
  <2>5. ~Contains(Append(chans[ch[r]], r), hold[ch[r]])
    BY <2>2, <2>3, ContainsAppend DEF InPipeline, SinglePlace
  <2>6. \A t \in Caller : IsInjective(chans'[t]) /\ ~Contains(chans'[t], hold'[t])
    BY <1>5, <2>3, <2>4, <2>5 DEF SendAccepted, loopVars, SinglePlace
  <2> QED BY <1>5, <2>1, <2>2, <2>6 DEF SendAccepted, SinglePlace
<1>6. ASSUME NEW r \in Req, LoadQueue(r) \/ SendDropped(r) \/ ChooseFallback(r) PROVE SinglePlace'
  BY <1>0, <1>6 DEF LoadQueue, SendDropped, ChooseFallback, loopVars
<1>7. ASSUME NEW r \in Req, InsertSync(r) PROVE SinglePlace'
  <2>1. /\ \A x : InPipeline(x)' <=> InPipeline(x)
        /\ \A x : InKafka(x)' <=> InKafka(x)
    BY <1>7, PipelineUnchanged, KafkaUnchanged DEF InsertSync, loopVars
  <2>2. ~InPipeline(r) /\ ~InKafka(r)
    BY <1>7 DEF InsertSync, RowInv
  <2>3. mongo' \subseteq mongo \cup {r} /\ UNCHANGED <<chans, hold>>
    BY <1>7 DEF InsertSync, loopVars
  <2> QED BY <2>1, <2>2, <2>3 DEF SinglePlace
<1>8. CASE Crash
  <2>1. \A x : InKafka(x)' <=> InKafka(x)
    BY <1>8, KafkaUnchanged DEF Crash
  <2>2. \A t \in Caller : IsInjective(chans'[t]) /\ ~Contains(chans'[t], hold'[t])
    BY <1>8, ContainsEmpty DEF Crash, IsInjective
  <2> QED BY <1>8, <2>1, <2>2, CrashMoves DEF Crash, SinglePlace
<1>9. CASE UNCHANGED vars
  BY <1>0, <1>9 DEF vars, loopVars
<1> QED BY <1>1, <1>2, <1>3, <1>4, <1>5, <1>6, <1>7, <1>8, <1>9 DEF Next, AuditLoop, FinishSave

(* A step of a process that boots first leaves no finished row unaccounted. *)
LEMMA AccountStep == IInv /\ BootFirst /\ [Next]_vars => RowAccounted'
<1> SUFFICES ASSUME IInv, BootFirst, [Next]_vars PROVE RowAccounted'
    OBVIOUS
<1> USE DEF IInv, TypeOK, Chan
<1>0. ASSUME UNCHANGED <<chans, hold, kafka, mongo, pc, lost>> PROVE RowAccounted'
  BY <1>0 DEF RowAccounted, InPipeline, InKafka
<1>1. ASSUME NEW s \in Caller, StartAuditPublisher(s) PROVE RowAccounted'
  BY <1>0, <1>1, StartMoves
<1>2. ASSUME NEW s \in Caller, RangeQueue(s) PROVE RowAccounted'
  BY <1>0, <1>2 DEF RangeQueue, reqVars
<1>3. ASSUME NEW s \in Caller, Receive(s) PROVE RowAccounted'
  <2>1. /\ \A x \in Req : InPipeline(x)' <=> InPipeline(x)
        /\ \A x : InKafka(x)' <=> InKafka(x)
    BY <1>3, ReceiveMoves, KafkaUnchanged DEF Receive
  <2> QED BY <1>3, <2>1 DEF Receive, reqVars, RowAccounted
<1>4. ASSUME NEW s \in Caller, Publish(s) PROVE RowAccounted'
  <2>1. UNCHANGED <<pc, mongo>>
    BY <1>4 DEF Publish, reqVars
  <2>2. hold[s] \in Req /\ \A x \in Req : InPipeline(x)' <=> InPipeline(x) /\ x # hold[s]
    BY <1>4, PublishMoves
  <2>3. CASE (\A x \in Req : InKafka(x)' <=> InKafka(x) \/ x = hold[s]) /\ lost' = lost
    BY <2>1, <2>2, <2>3 DEF RowAccounted
  <2>4. CASE /\ \A x \in Req : InKafka(x)' <=> InKafka(x)
             /\ lost' = [lost EXCEPT ![hold[s]] = "publish"]
    BY <2>1, <2>2, <2>4 DEF RowAccounted
  <2> QED BY <1>4, <2>3, <2>4, PublishMoves
<1>5. ASSUME NEW r \in Req, SendAccepted(r) PROVE RowAccounted'
  <2>1. /\ \A x \in Req : InPipeline(x)' <=> InPipeline(x) \/ x = r
        /\ \A x : InKafka(x)' <=> InKafka(x)
    BY <1>5, AcceptMoves, KafkaUnchanged DEF SendAccepted
  <2> QED BY <1>5, <2>1 DEF SendAccepted, RowAccounted
<1>6. ASSUME NEW r \in Req, LoadQueue(r) \/ SendDropped(r) \/ ChooseFallback(r) \/ InsertSync(r)
      PROVE  RowAccounted'
  <2>1. /\ \A x : InPipeline(x)' <=> InPipeline(x)
        /\ \A x : InKafka(x)' <=> InKafka(x)
    BY <1>6, PipelineUnchanged, KafkaUnchanged
       DEF LoadQueue, SendDropped, ChooseFallback, InsertSync, loopVars
  <2>2. CASE LoadQueue(r) \/ SendDropped(r)
    BY <2>1, <2>2 DEF LoadQueue, SendDropped, RowAccounted
  <2>3. CASE ChooseFallback(r)
    <3>1. ~MustInsert(r) => ch[r] # None /\ r \notin Critical
      BY <2>3 DEF ChooseFallback, MustInsert, AsyncReady, RowInv, OnceInv, InFlight
    <3> QED BY <2>1, <2>3, <3>1 DEF ChooseFallback, RowAccounted
  <2>4. CASE InsertSync(r)
    BY <2>1, <2>4 DEF InsertSync, RowAccounted
  <2> QED BY <1>6, <2>2, <2>3, <2>4
<1>7. CASE Crash
  <2>1. \A x : InKafka(x)' <=> InKafka(x)
    BY <1>7, KafkaUnchanged DEF Crash
  <2> QED BY <1>7, <2>1 DEF Crash, RowAccounted, InFlight
<1>8. CASE UNCHANGED vars
  BY <1>0, <1>8 DEF vars, loopVars, reqVars
<1> QED BY <1>1, <1>2, <1>3, <1>4, <1>5, <1>6, <1>7, <1>8 DEF Next, AuditLoop, FinishSave

-----------------------------------------------------------------------------
(* The inductive invariant holds in every reachable state. *)
THEOREM PipelineInvariant == Spec => []IInv
<1>1. Init => IInv
  BY InvInit
<1>2. IInv /\ [Next]_vars => IInv'
  BY TypeStep, OnceStep, LoopStep, RowStep, PlaceStep, AccountStep DEF IInv
<1> QED BY <1>1, <1>2, PTL DEF Spec

(* Every reachable state is well typed. *)
THEOREM PipelineTyped == Spec => []TypeOK
<1>1. IInv => TypeOK BY DEF IInv
<1> QED BY <1>1, PipelineInvariant, PTL

(* No row is stored both by the asynchronous path and by the synchronous   *)
(* fallback, and no row is queued twice or after it was published.         *)
THEOREM PipelineSinglePlace == Spec => []SinglePlace
<1>1. IInv => SinglePlace BY DEF IInv
<1> QED BY <1>1, PipelineInvariant, PTL

(* However the initialisers interleave, one channel is used and drained.   *)
THEOREM PipelineNotStranded == Spec => []NoStrandedQueue
<1>1. IInv => NoStrandedQueue BY DEF IInv, LoopInv, NoStrandedQueue
<1> QED BY <1>1, PipelineInvariant, PTL

(* In a process that initialises the publisher before it serves, a finished *)
(* request's row is lost only to an external failure, to a crash, or, when *)
(* it is not critical, to a full queue.                                    *)
THEOREM PipelineAccounted == BootFirst => (Spec => []RowAccounted)
<1>1. BootFirst /\ IInv => RowAccounted BY DEF IInv
<1> SUFFICES ASSUME BootFirst PROVE Spec => []RowAccounted
    OBVIOUS
<1>2. IInv => RowAccounted BY <1>1
<1> QED BY <1>2, PipelineInvariant, PTL

-----------------------------------------------------------------------------
(* The drop counter.  The rows it has to cover are those already given up  *)
(* for a full queue and those SendDropped counted that still look for      *)
(* their fallback.                                                         *)
Dropped ==
    {r \in Req : lost[r] = "full" \/ (pc[r] = "fallback" /\ ch[r] # None)}

DropInv ==
    crashes = 0 => IsFiniteSet(Dropped) /\ Cardinality(Dropped) <= dropTotal

(* Fewer rows are still covered by the count. *)
LEMMA FewerDropped ==
    ASSUME TypeOK, DropInv, Dropped' \subseteq Dropped, dropTotal' = dropTotal, crashes' = crashes
    PROVE  DropInv'
<1> SUFFICES ASSUME crashes = 0 PROVE IsFiniteSet(Dropped') /\ Cardinality(Dropped') <= dropTotal
    BY DEF DropInv
<1>1. IsFiniteSet(Dropped') /\ Cardinality(Dropped') <= Cardinality(Dropped)
  BY FS_Subset DEF DropInv
<1>2. Cardinality(Dropped) \in Nat /\ Cardinality(Dropped') \in Nat /\ dropTotal \in Nat
  BY <1>1, FS_CardinalityType DEF DropInv, TypeOK
<1> QED BY <1>1, <1>2 DEF DropInv

(* SendDropped covers one more row and counts it. *)
LEMMA OneMoreDropped ==
    ASSUME TypeOK, DropInv, NEW r \in Req, Dropped' \subseteq Dropped \cup {r},
           dropTotal' = dropTotal + 1, crashes' = crashes
    PROVE  DropInv'
<1> SUFFICES ASSUME crashes = 0
             PROVE  IsFiniteSet(Dropped') /\ Cardinality(Dropped') <= dropTotal + 1
    BY DEF DropInv
<1>1. IsFiniteSet(Dropped) /\ Cardinality(Dropped) <= dropTotal
  BY DEF DropInv
<1>2. /\ IsFiniteSet(Dropped \cup {r})
      /\ \/ Cardinality(Dropped \cup {r}) = Cardinality(Dropped)
         \/ Cardinality(Dropped \cup {r}) = Cardinality(Dropped) + 1
  BY <1>1, FS_AddElement
<1>3. IsFiniteSet(Dropped') /\ Cardinality(Dropped') <= Cardinality(Dropped \cup {r})
  BY <1>2, FS_Subset
<1>4. Cardinality(Dropped) \in Nat /\ Cardinality(Dropped') \in Nat /\ dropTotal \in Nat
  BY <1>1, <1>3, FS_CardinalityType DEF TypeOK
<1> QED BY <1>1, <1>2, <1>3, <1>4

(* Every step leaves the count no lower than the rows it covers. *)
LEMMA DropStep == IInv /\ DropInv /\ [Next]_vars => DropInv'
<1> SUFFICES ASSUME IInv, DropInv, [Next]_vars PROVE DropInv'
    OBVIOUS
<1> USE DEF IInv
<1>0. ASSUME UNCHANGED <<pc, ch, lost, dropTotal, crashes>> PROVE DropInv'
  BY <1>0, FewerDropped DEF Dropped
<1>1. ASSUME NEW s \in Caller, StartAuditPublisher(s) PROVE DropInv'
  <2>1. UNCHANGED <<pc, ch, lost, dropTotal, crashes>>
    BY <1>1 DEF StartAuditPublisher, StayingSync, EnterOnce, SkipOnce, MakeQueue, SpawnLoop, reqVars
  <2> QED BY <1>0, <2>1
<1>2. ASSUME NEW s \in Caller, RangeQueue(s) \/ Receive(s) PROVE DropInv'
  BY <1>0, <1>2 DEF RangeQueue, Receive, reqVars
<1>3. ASSUME NEW s \in Caller, Publish(s) PROVE DropInv'
  <2>1. UNCHANGED <<pc, ch, dropTotal, crashes>>
    BY <1>3 DEF Publish, reqVars
  <2>2. \A x \in Req : lost'[x] = "full" => lost[x] = "full"
    BY <1>3 DEF Publish, TypeOK
  <2>3. Dropped' \subseteq Dropped
    BY <2>1, <2>2 DEF Dropped
  <2> QED BY <2>1, <2>3, FewerDropped
<1>4. ASSUME NEW r \in Req, SendDropped(r) PROVE DropInv'
  <2>1. Dropped' \subseteq Dropped \cup {r} /\ crashes' = crashes
    BY <1>4 DEF SendDropped, Dropped, TypeOK
  <2>2. dropTotal' = dropTotal + 1
    BY <1>4 DEF SendDropped, DropCount
  <2> QED BY <2>1, <2>2, OneMoreDropped
<1>5. ASSUME NEW r \in Req, LoadQueue(r) \/ SendAccepted(r) \/ ChooseFallback(r) \/ InsertSync(r)
      PROVE  DropInv'
  <2>1. UNCHANGED <<dropTotal, crashes>>
    BY <1>5 DEF LoadQueue, SendAccepted, ChooseFallback, InsertSync
  <2>2. Dropped' \subseteq Dropped
    BY <1>5 DEF LoadQueue, SendAccepted, ChooseFallback, InsertSync, AfterAccept, Dropped, TypeOK
  <2> QED BY <2>1, <2>2, FewerDropped
<1>6. CASE Crash
  <2>1. crashes \in Nat /\ crashes' = crashes + 1
    BY <1>6, ConstantsAssumption DEF Crash, TypeOK
  <2> QED BY <2>1 DEF DropInv
<1>7. CASE UNCHANGED vars
  BY <1>0, <1>7 DEF vars, reqVars
<1> QED BY <1>1, <1>2, <1>3, <1>4, <1>5, <1>6, <1>7 DEF Next, AuditLoop, FinishSave

(* auditDropTotal of a process that never crashed counts every row lost to *)
(* a full queue, for any number of requests (EnqueueAudit).                *)
THEOREM PipelineDropsCounted == Spec => []DropsCounted
<1>1. Init => DropInv
  <2>1. Init => Dropped = {} /\ dropTotal = 0
    BY DEF Init, Dropped
  <2> QED BY <2>1, FS_EmptySet DEF DropInv
<1>2. IInv /\ DropInv => DropsCounted
  <2> SUFFICES ASSUME IInv, DropInv, crashes = 0
               PROVE  Cardinality({r \in Req : lost[r] = "full"}) <= dropTotal
      BY DEF DropsCounted
  <2> DEFINE Full == {r \in Req : lost[r] = "full"}
  <2>1. Full \subseteq Dropped
    BY DEF Dropped
  <2>2. IsFiniteSet(Full) /\ Cardinality(Full) <= Cardinality(Dropped)
    BY <2>1, FS_Subset DEF DropInv
  <2>3. Cardinality(Full) \in Nat /\ Cardinality(Dropped) \in Nat /\ dropTotal \in Nat
    BY <2>2, FS_CardinalityType DEF DropInv, IInv, TypeOK
  <2> QED BY <2>2, <2>3 DEF DropInv
<1> QED BY <1>1, <1>2, DropStep, PipelineInvariant, PTL DEF Spec

=============================================================================
