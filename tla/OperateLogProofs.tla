-------------------------- MODULE OperateLogProofs --------------------------
(***************************************************************************)
(* What holds of a logged request in every chain, for every body, document *)
(* and set of keys: IInv says how far a request has come, what is left of  *)
(* its body and where its row comes from, and is inductive.                *)
(***************************************************************************)
EXTENDS OperateLog, SequenceTheorems, FiniteSetTheorems, TLAPS

Steps == {"verify", "capture", "snapshot", "handle"}
Value == UNION {[D -> STRING] : D \in SUBSET Seq(STRING)}
AnyAsk == {NoAsk} \cup UNION {Asks[r] : r \in Req}
Rest == [from : Nat \ {0}, upto : Nat, breaks : BOOLEAN]
Context ==
    [ask : AnyAsk, rest : Rest, form : Pairs,
     payload : Value, before : Value, verdict : {"none", "passed", "rejected"}, ok : BOOLEAN,
     old : Value, new : Value, alone : BOOLEAN]

TypeInv ==
    /\ doc \in Value
    /\ todo \in [Req -> Seq(Steps \cup {"arrive", "save"})]
    /\ ctx \in [Req -> Context]
    /\ row = [r \in Req |-> row[r]]

Waiting(r) ==
    todo[r] = <<"arrive">> /\ ctx[r].ask = NoAsk /\ ctx[r].verdict = "none" /\ ~Saved(r)

(* A request that has arrived: one of its own, its chain has no place in    *)
(* which it could arrive again, and the row is made after everything else.  *)
Arrived(r) ==
    /\ ctx[r].ask \in Asks[r]
    /\ todo[r] \in Seq(Steps) \/ (todo[r] = <<"save">> /\ Logged(ctx[r].ask))
    /\ Saved(r) => todo[r] = <<>> /\ Logged(ctx[r].ask)

(* What is missing of the body was never to be had, or was read as a form. *)
BodyLeft(c) ==
    \/ c.rest = [from |-> 1, upto |-> c.ask.units, breaks |-> c.ask.broken]
    \/ c.ask.broken \/ TooLong(c.ask)
    \/ /\ c.verdict # "none" /\ ReadsForm(c.ask) /\ c.form = Sent(c.ask)
       /\ c.rest.from = c.rest.upto + 1
RestInv(r) == BodyLeft(ctx[r])

FormInv(r) ==
    /\ ctx[r].verdict = "none" => ctx[r].form = <<>>
    /\ ctx[r].verdict # "none" /\ ~ctx[r].ask.broken /\ ~TooLong(ctx[r].ask) =>
          ctx[r].form = Sent(ctx[r].ask)

VerdictInv(r) ==
    /\ ctx[r].verdict = "passed" => Signed(ctx[r].form, ctx[r].ask.query)
    /\ ctx[r].verdict = "rejected" =>
          todo[r] \in {<<>>, <<"save">>} /\ ~Signed(ctx[r].form, ctx[r].ask.query)

(* A row is what saveOperationLog makes of the request as it still stands. *)
RowFrom(r, after, sides) ==
    [action |-> action(r), resource |-> resource(r), merchant |-> merchantID(r),
     status |-> ctx[r].ok, before |-> sides[1], after |-> sides[2],
     usage |-> usageEvent(r), remote |-> clientRemoteIP(ctx[r].ask.arrival)]
RowInv(r) ==
    Saved(r) => \E after \in After(r) : \E sides \in CompressAuditBodies(action(r), ctx[r].before, after) :
                   row[r] = RowFrom(r, after, sides)

ReqInv(r) == Waiting(r) \/ (Arrived(r) /\ RestInv(r) /\ FormInv(r) /\ VerdictInv(r) /\ RowInv(r))

IInv == TypeInv /\ \A r \in Req : ReqInv(r)

-----------------------------------------------------------------------------
LEMMA LessThanOnNat == \A x, y \in Nat : <<y, x>> \notin OpToRel(<, Nat) => ~(y < x)
    BY Zenon DEF OpToRel

LEMMA LeastElement ==
    ASSUME NEW S, S \subseteq Nat, S # {} PROVE \E x \in S : \A y \in S : x <= y
<1>1. \E x \in S : \A y \in S : ~(<<y, x>> \in OpToRel(<, Nat))
    <2> HIDE DEF OpToRel
    <2> QED
        BY NatLessThanWellFounded, WFMin
<1>2. \E x \in S : \A y \in S : ~(y < x)
    <2> HIDE DEF OpToRel
    <2> QED
        BY <1>1, LessThanOnNat, Zenon
<1> QED
    BY <1>2

LEMMA MinIsLeast ==
    ASSUME NEW S, S \subseteq Nat, S # {} PROVE Min(S) \in S /\ \A y \in S : Min(S) <= y
BY LeastElement DEF Min

(* Values. *)
LEMMA ValueIsValue == \A v : IsValue(v) <=> v \in Value
<1> TAKE v
<1>1. ASSUME IsValue(v) PROVE v \in Value
    <2>1. v \in [DOMAIN v -> STRING] /\ DOMAIN v \in SUBSET Seq(STRING)
        BY <1>1 DEF IsValue
    <2> QED
        BY <2>1 DEF Value
<1>2. ASSUME v \in Value PROVE IsValue(v)
    <2>1. PICK D \in SUBSET Seq(STRING) : v \in [D -> STRING]
        BY <1>2 DEF Value
    <2> QED
        BY <2>1 DEF IsValue
<1> QED
    BY <1>1, <1>2

LEMMA ShortPath ==
    ASSUME NEW S, NEW x \in S, NEW y \in S PROVE <<x>> \in Seq(S) /\ <<x, y>> \in Seq(S)
OBVIOUS

LEMMA FunctionIsSeq ==
    ASSUME NEW S, NEW n \in Nat, NEW s \in [1..n -> S] PROVE s \in Seq(S)
OBVIOUS

LEMMA NilIsValue == Nil \in Value
<1>1. Nil \in [{} -> STRING] /\ {} \in SUBSET Seq(STRING)
    BY DEF Nil
<1> QED
    BY <1>1 DEF Value

LEMMA TextIsValue == ASSUME NEW s \in STRING PROVE Text(s) \in Value
<1>1. {<<>>} \in SUBSET Seq(STRING)
    OBVIOUS
<1>2. Text(s) \in [{<<>>} -> STRING]
    BY DEF Text
<1> QED
    BY <1>1, <1>2 DEF Value

LEMMA FieldIsString ==
    ASSUME NEW v \in Value, NEW p PROVE Field(v, p) \in STRING
<1>1. \A q \in DOMAIN v : v[q] \in STRING
    BY ValueIsValue DEF IsValue
<1>2. "" \in STRING
    BY LiteralsAssumption
<1> QED
    BY <1>1, <1>2 DEF Field

LEMMA sanitizeDocIsValue == ASSUME NEW v \in Value PROVE sanitizeDoc(v) \in Value
<1>1. IsValue(v)
    BY ValueIsValue
<1> DEFINE kept == {p \in DOMAIN v : \A i \in DOMAIN p : p[i] \notin {"context", "password", "passwd"}}
<1>2. kept \in SUBSET Seq(STRING) /\ sanitizeDoc(v) \in [kept -> STRING]
    BY <1>1 DEF IsValue, sanitizeDoc
<1> QED
    BY <1>2 DEF Value

LEMMA loadBeforeIsValue == ASSUME doc \in Value, NEW a PROVE loadBefore(a) \in Value
<1>1. ASSUME \E p \in DOMAIN doc : doc[p] \in Huge PROVE Text(CHOOSE s \in Huge : TRUE) \in Value
    <2>1. (CHOOSE s \in Huge : TRUE) \in STRING
        BY <1>1, RequestAssumption
    <2> QED
        BY <2>1, TextIsValue
<1> QED
    BY <1>1, NilIsValue, sanitizeDocIsValue DEF loadBefore

(* The merchant a document is stored under, and what the handler makes of it. *)
LEMMA firstNonEmptyIsString ==
    ASSUME NEW s, DOMAIN s \subseteq Nat, \A i \in DOMAIN s : s[i] \in STRING
    PROVE  firstNonEmpty(s) \in STRING
<1> DEFINE full == {i \in DOMAIN s : s[i] # ""}
<1>1. full \subseteq Nat
    OBVIOUS
<1>2. CASE full = {}
    <2>1. "" \in STRING
        BY LiteralsAssumption
    <2> QED
        BY <1>2, <2>1 DEF firstNonEmpty
<1>3. CASE full # {}
    <2>1. Min(full) \in full
        <3> HIDE DEF full
        <3> QED
            BY <1>1, <1>3, MinIsLeast
    <2> QED
        BY <1>3, <2>1 DEF firstNonEmpty
<1> QED
    BY <1>2, <1>3

LEMMA StampIsValue ==
    ASSUME NEW v \in Value, NEW t \in STRING PROVE Stamp(v, t) \in Value
<1> DEFINE at == <<"_", "updated_at">>
           D == DOMAIN v \cup {at}
<1>1. at \in Seq(STRING)
    <2>1. "_" \in STRING /\ "updated_at" \in STRING
        BY LiteralsAssumption
    <2> QED
        BY <2>1, ShortPath
<1>2. DOMAIN v \subseteq Seq(STRING) /\ \A p \in DOMAIN v : v[p] \in STRING
    BY ValueIsValue DEF IsValue
<1>3. D \in SUBSET Seq(STRING)
    BY <1>1, <1>2
<1>4. Stamp(v, t) \in [D -> STRING]
    <2> HIDE DEF at
    <2> QED
        BY <1>2 DEF Stamp, at
<1> QED
    BY <1>3, <1>4 DEF Value

LEMMA bodyMerchantIsString ==
    ASSUME NEW v \in Value PROVE bodyMerchant(v) \in STRING
<1> DEFINE of(p) == firstNonEmpty(<<Field(v, p \o <<"merchant_id">>), Field(v, p \o <<"merchant">>)>>)
           rest == [i \in 1..6 |-> of(<<nestedBodyKeys[i]>>)]
<1>1. ASSUME NEW p PROVE of(p) \in STRING
    <2> DEFINE s == <<Field(v, p \o <<"merchant_id">>), Field(v, p \o <<"merchant">>)>>
    <2>1. s[1] \in STRING /\ s[2] \in STRING
        BY FieldIsString
    <2>2. DOMAIN s = 1..2
        OBVIOUS
    <2>3. DOMAIN s \subseteq Nat /\ \A i \in DOMAIN s : s[i] \in STRING
        <3> HIDE DEF s
        <3> QED
            BY <2>1, <2>2
    <2> QED
        BY <2>3, firstNonEmptyIsString
<1> HIDE DEF of
<1>2. rest \in [1..6 -> STRING]
    BY <1>1
<1> HIDE DEF rest
<1>3. rest \in Seq(STRING) /\ <<of(<<>>)>> \in Seq(STRING)
    <2>1. of(<<>>) \in STRING
        BY <1>1
    <2>2. 6 \in Nat
        OBVIOUS
    <2> QED
        BY <1>2, <2>1, <2>2, FunctionIsSeq, ShortPath
<1>4. <<of(<<>>)>> \o rest \in Seq(STRING)
    BY <1>3
<1>5. ASSUME NEW s \in Seq(STRING) PROVE firstNonEmpty(s) \in STRING
    <2>1. DOMAIN s \subseteq Nat /\ \A i \in DOMAIN s : s[i] \in STRING
        OBVIOUS
    <2> QED
        BY <2>1, firstNonEmptyIsString
<1>6. firstNonEmpty(<<of(<<>>)>> \o rest) \in STRING
    BY <1>4, <1>5
<1> QED
    BY <1>6 DEF bodyMerchant, of, rest

LEMMA OwnerIsString ==
    ASSUME NEW r \in Req, NEW a \in Asks[r] PROVE Owner(a) \in STRING
<1>1. a.merchant \in STRING /\ a.body \in Value
    BY RequestAssumption, ValueIsValue DEF AskTypeOK
<1> DEFINE own == IF skipUsageMerchant(a.merchant) THEN "" ELSE a.merchant
           s == <<own, bodyMerchant(a.body)>>
<1>2. own \in STRING /\ bodyMerchant(a.body) \in STRING
    BY <1>1, bodyMerchantIsString, LiteralsAssumption
<1>3. DOMAIN s \subseteq Nat /\ \A i \in DOMAIN s : s[i] \in STRING
    <2> HIDE DEF own
    <2> QED
        BY <1>2
<1>4. firstNonEmpty(s) \in STRING
    <2> HIDE DEF s
    <2> QED
        BY <1>3, firstNonEmptyIsString
<1> QED
    BY <1>4 DEF Owner

LEMMA CreatedIsValue ==
    ASSUME NEW r \in Req, NEW a \in Asks[r] PROVE Created(a) \in Value
<1> DEFINE own == {<<"_id">>, <<"_", "merchant_id">>}
           D == DOMAIN a.body \cup own
           made == [p \in D |-> CASE p = <<"_id">> -> "i1" [] p = <<"_", "merchant_id">> -> Owner(a)
                                  [] OTHER -> a.body[p]]
<1>1. a.body \in Value
    BY RequestAssumption, ValueIsValue DEF AskTypeOK
<1>2. DOMAIN a.body \subseteq Seq(STRING) /\ \A p \in DOMAIN a.body : a.body[p] \in STRING
    BY <1>1, ValueIsValue DEF IsValue
<1>3. own \subseteq Seq(STRING)
    <2>1. "_" \in STRING /\ "merchant_id" \in STRING /\ "_id" \in STRING
        BY LiteralsAssumption
    <2>2. <<"_", "merchant_id">> \in Seq(STRING) /\ <<"_id">> \in Seq(STRING)
        BY <2>1, ShortPath
    <2> QED
        BY <2>2
<1>4. D \in SUBSET Seq(STRING)
    BY <1>2, <1>3
<1>5. \A p \in D : made[p] \in STRING
    BY <1>2, OwnerIsString, LiteralsAssumption
<1>6. made \in [D -> STRING]
    BY <1>5
<1>7. made \in Value
    <2> HIDE DEF made, D
    <2> QED
        BY <1>4, <1>6 DEF Value
<1>8. Stamp(made, "t1") \in Value
    BY <1>7, StampIsValue, LiteralsAssumption
<1> QED
    BY <1>8 DEF Created

LEMMA UpdatedIsValue ==
    ASSUME NEW v \in Value, NEW body \in Value PROVE Updated(v, body) \in Value
<1> DEFINE set == {p \in DOMAIN body : Head(p) \notin {"id", "_id", "_"}}
           kept == {p \in DOMAIN v : \A q \in set : Head(p) # Head(q)}
           D == set \cup kept
           made == [p \in D |-> IF p \in set THEN body[p] ELSE v[p]]
<1>1. /\ DOMAIN v \subseteq Seq(STRING) /\ \A p \in DOMAIN v : v[p] \in STRING
      /\ DOMAIN body \subseteq Seq(STRING) /\ \A p \in DOMAIN body : body[p] \in STRING
    BY ValueIsValue DEF IsValue
<1>2. set \subseteq DOMAIN body /\ kept \subseteq DOMAIN v
    OBVIOUS
<1>3. D \in SUBSET Seq(STRING) /\ made \in [D -> STRING]
    <2> HIDE DEF set, kept
    <2> QED
        BY <1>1, <1>2
<1>4. made \in Value
    <2> HIDE DEF made, D
    <2> QED
        BY <1>3 DEF Value
<1>5. Stamp(made, "t2") \in Value
    BY <1>4, StampIsValue, LiteralsAssumption
<1> QED
    BY <1>5 DEF Updated

-----------------------------------------------------------------------------
(* The types of a request's context. *)
LEMMA ContextTyped ==
    ASSUME TypeInv, NEW r \in Req
    PROVE  /\ ctx[r] \in Context
           /\ ctx[r].ask \in AnyAsk /\ ctx[r].rest \in Rest /\ ctx[r].form \in Pairs
           /\ ctx[r].rest.from \in Nat /\ ctx[r].rest.upto \in Nat
           /\ ctx[r].payload \in Value /\ ctx[r].before \in Value
           /\ ctx[r].old \in Value /\ ctx[r].new \in Value
           /\ ctx[r].verdict \in {"none", "passed", "rejected"}
           /\ ctx[r].ok \in BOOLEAN /\ ctx[r].alone \in BOOLEAN
<1>1. ctx[r] \in Context
    BY DEF TypeInv
<1> QED
    BY <1>1 DEF Context, Rest

LEMMA FreshTyped ==
    ASSUME NEW a \in AnyAsk PROVE Fresh(a) \in Context
<1>1. a.units \in Nat /\ a.broken \in BOOLEAN
    <2>1. CASE a = NoAsk
        BY <2>1 DEF NoAsk
    <2>2. CASE \E r \in Req : a \in Asks[r]
        <3>1. AskTypeOK(a)
            BY <2>2, RequestAssumption
        <3> QED
            BY <3>1 DEF AskTypeOK
    <2> QED
        BY <2>1, <2>2 DEF AnyAsk
<1>2. <<>> \in Pairs
    BY DEF Pairs
<1> QED
    BY <1>1, <1>2, NilIsValue DEF Fresh, Context, Rest

LEMMA AskTyped ==
    ASSUME NEW r \in Req, NEW a \in Asks[r]
    PROVE  /\ a \in AnyAsk /\ a.units \in Nat /\ a.body \in Value
           /\ a.chain \in Seq(Steps) /\ a.arrival \in Arrivals
           /\ a.broken \in BOOLEAN /\ a.declared \in BOOLEAN
           /\ a.form \in Pairs /\ a.query \in Pairs /\ Len(a.form) <= a.units
BY RequestAssumption, ValueIsValue DEF AskTypeOK, AnyAsk, Steps

(* A chain that goes on is a chain, and its head is one of its steps. *)
LEMMA ChainTyped ==
    ASSUME NEW S, NEW s \in Seq(S), s # <<>> PROVE Head(s) \in S /\ Tail(s) \in Seq(S)
BY HeadTailProperties

LEMMA StepsGoOn ==
    ASSUME NEW r \in Req, NEW s \in Steps, ReqInv(r), Stage(r, s)
    PROVE  /\ todo[r] \in Seq(Steps) /\ Tail(todo[r]) \in Seq(Steps) /\ todo[r] # <<>>
           /\ ~Saved(r) /\ Arrived(r) /\ ctx[r].verdict # "rejected"
           /\ RestInv(r) /\ FormInv(r) /\ VerdictInv(r)
<1>1. todo[r] # <<>> /\ Head(todo[r]) \notin {"arrive", "save"}
    BY DEF Stage, Steps
<1>2. todo[r] \notin {<<"arrive">>, <<"save">>}
    BY <1>1
<1>3. Arrived(r) /\ RestInv(r) /\ FormInv(r) /\ VerdictInv(r) /\ todo[r] \in Seq(Steps)
    BY <1>2 DEF ReqInv, Waiting, Arrived
<1>4. ~Saved(r) /\ ctx[r].verdict # "rejected"
    BY <1>1, <1>2, <1>3 DEF Arrived, VerdictInv
<1> QED
    BY <1>1, <1>3, <1>4, ChainTyped

(* Whatever a step does to the context of its request, the chain and the    *)
(* context stay typed when the new ones are.                                *)
LEMMA OneMoves ==
    ASSUME TypeInv, NEW r \in Req, NEW c \in Context, NEW t \in Seq(Steps \cup {"arrive", "save"}),
           ctx' = [ctx EXCEPT ![r] = c], todo' = [todo EXCEPT ![r] = t], row' = row, doc' = doc
    PROVE  TypeInv' /\ ctx'[r] = c /\ todo'[r] = t
<1>1. ctx \in [Req -> Context] /\ todo \in [Req -> Seq(Steps \cup {"arrive", "save"})]
    BY DEF TypeInv
<1>2. ctx' \in [Req -> Context] /\ ctx'[r] = c
    BY <1>1
<1>3. todo' \in [Req -> Seq(Steps \cup {"arrive", "save"})] /\ todo'[r] = t
    BY <1>1
<1>4. row' = [q \in Req |-> row'[q]] /\ doc' \in Value
    BY DEF TypeInv
<1> QED
    BY <1>2, <1>3, <1>4 DEF TypeInv

(* A request of which only "alone" changed. *)
Untouched(q) ==
    /\ todo'[q] = todo[q] /\ row'[q] = row[q]
    /\ \E b \in BOOLEAN : ctx'[q] = [ctx[q] EXCEPT !.alone = b]

LEMMA OthersRest ==
    ASSUME TypeInv, NEW r \in Req, NEW c, NEW t,
           ctx' = [ctx EXCEPT ![r] = c], todo' = [todo EXCEPT ![r] = t], row' = row
    PROVE  \A q \in Req \ {r} : Untouched(q)
<1> SUFFICES ASSUME NEW q \in Req \ {r} PROVE Untouched(q)
    OBVIOUS
<1>1. todo'[q] = todo[q] /\ ctx'[q] = ctx[q]
    BY DEF TypeInv
<1>2. ctx[q] \in Context /\ ctx[q].alone \in BOOLEAN
    BY ContextTyped
<1>3. ctx[q] = [ctx[q] EXCEPT !.alone = ctx[q].alone]
    BY <1>2 DEF Context
<1> QED
    BY <1>1, <1>2, <1>3 DEF Untouched

(* A row depends on nothing that changes once it is made. *)
SameFields(c, d) ==
    /\ d.ask = c.ask /\ d.rest = c.rest /\ d.form = c.form /\ d.payload = c.payload
    /\ d.before = c.before /\ d.verdict = c.verdict /\ d.ok = c.ok /\ d.old = c.old /\ d.new = c.new

LEMMA UntouchedFields ==
    ASSUME TypeInv, NEW q \in Req, Untouched(q) PROVE SameFields(ctx[q], ctx'[q])
<1>1. ctx[q] \in Context
    BY ContextTyped
<1> QED
    BY <1>1 DEF Untouched, SameFields, Context

LEMMA SameRow ==
    ASSUME NEW q \in Req, SameFields(ctx[q], ctx'[q]), NEW after, NEW sides
    PROVE  /\ action(q)' = action(q) /\ After(q)' = After(q)
           /\ RowFrom(q, after, sides)' = RowFrom(q, after, sides)
<1>1. action(q)' = action(q)
    BY DEF action, SameFields
<1>2. After(q)' = After(q)
    BY DEF After, SameFields
<1>3. resource(q)' = resource(q)
    BY DEF resource, SameFields
<1>4. merchantID(q)' = merchantID(q)
    BY <1>1 DEF merchantID, SameFields
<1>5. usageBytes(q)' = usageBytes(q)
    BY DEF usageBytes, SameFields
<1>6. usageEvent(q)' = usageEvent(q)
    BY <1>1, <1>3, <1>4, <1>5 DEF usageEvent, SameFields
<1> QED
    BY <1>1, <1>2, <1>3, <1>4, <1>6 DEF RowFrom, SameFields

LEMMA UntouchedKeeps ==
    ASSUME TypeInv, NEW q \in Req, ReqInv(q), Untouched(q) PROVE ReqInv(q)'
<1>1. SameFields(ctx[q], ctx'[q]) /\ todo'[q] = todo[q] /\ row'[q] = row[q]
    BY UntouchedFields DEF Untouched
<1>2. ASSUME Waiting(q) PROVE Waiting(q)'
    BY <1>1, <1>2 DEF Waiting, SameFields, Saved
<1>3. ASSUME Arrived(q) PROVE Arrived(q)'
    BY <1>1, <1>3 DEF Arrived, SameFields, Saved
<1>4. ASSUME RestInv(q) PROVE RestInv(q)'
    BY <1>1, <1>4 DEF RestInv, BodyLeft, SameFields
<1>5. ASSUME FormInv(q) PROVE FormInv(q)'
    BY <1>1, <1>5 DEF FormInv, SameFields
<1>6. ASSUME VerdictInv(q) PROVE VerdictInv(q)'
    BY <1>1, <1>6 DEF VerdictInv, SameFields
<1>7. ASSUME RowInv(q) PROVE RowInv(q)'
    <2> SUFFICES ASSUME Saved(q)'
                 PROVE  \E after \in After(q)' :
                           \E sides \in CompressAuditBodies(action(q)', ctx'[q].before, after) :
                              row'[q] = RowFrom(q, after, sides)'
        BY DEF RowInv
    <2>1. Saved(q)
        BY <1>1 DEF Saved
    <2>2. PICK after \in After(q) :
             \E sides \in CompressAuditBodies(action(q), ctx[q].before, after) :
                row[q] = RowFrom(q, after, sides)
        BY <1>7, <2>1 DEF RowInv
    <2>3. PICK sides \in CompressAuditBodies(action(q), ctx[q].before, after) :
             row[q] = RowFrom(q, after, sides)
        BY <2>2
    <2>4. /\ action(q)' = action(q) /\ After(q)' = After(q) /\ ctx'[q].before = ctx[q].before
          /\ RowFrom(q, after, sides)' = RowFrom(q, after, sides)
        BY <1>1, SameRow DEF SameFields
    <2> QED
        BY <1>1, <2>2, <2>3, <2>4
<1> QED
    BY <1>2, <1>3, <1>4, <1>5, <1>6, <1>7 DEF ReqInv

-----------------------------------------------------------------------------
(* Each action keeps the invariant of its request and leaves the others'. *)
LEMMA SameSeqs == \A s \in Seq(Steps) : s \in Seq(Steps \cup {"arrive", "save"})
    OBVIOUS

LEMMA NoRowYet == ASSUME NEW r \in Req, ~Saved(r), row' = row PROVE RowInv(r)' /\ ~Saved(r)'
    BY DEF RowInv, Saved

LEMMA ArriveStep ==
    ASSUME IInv, NEW r \in Req, Arrive(r)
    PROVE  TypeInv' /\ ReqInv(r)' /\ \A q \in Req \ {r} : Untouched(q)
<1>1. PICK a \in Asks[r] : ctx' = [ctx EXCEPT ![r] = Fresh(a)] /\ todo' = [todo EXCEPT ![r] = a.chain]
    BY DEF Arrive
<1>2. TypeInv /\ row' = row /\ doc' = doc /\ ReqInv(r) /\ todo[r] = <<"arrive">>
    BY DEF IInv, Arrive
<1>3. a \in AnyAsk /\ a.chain \in Seq(Steps) /\ Fresh(a) \in Context
    BY AskTyped, FreshTyped
<1>4. a.chain \in Seq(Steps \cup {"arrive", "save"})
    BY <1>3, SameSeqs
<1>5. TypeInv' /\ ctx'[r] = Fresh(a) /\ todo'[r] = a.chain
    BY <1>1, <1>2, <1>3, <1>4, OneMoves
<1>6. \A q \in Req \ {r} : Untouched(q)
    BY <1>1, <1>2, OthersRest
<1>7. ~Saved(r)
    <2>1. <<"arrive">> \notin Seq(Steps) /\ <<"arrive">> # <<"save">>
        <3>1. "arrive" \notin Steps /\ <<"arrive">>[1] = "arrive" /\ Len(<<"arrive">>) = 1
            BY DEF Steps
        <3> QED
            BY <3>1
    <2> QED
        BY <1>2, <2>1 DEF ReqInv, Waiting, Arrived
<1>8. /\ ctx'[r].ask = a /\ ctx'[r].verdict = "none" /\ ctx'[r].form = <<>>
      /\ ctx'[r].rest = [from |-> 1, upto |-> a.units, breaks |-> a.broken]
    BY <1>5 DEF Fresh
<1>9. RowInv(r)' /\ ~Saved(r)'
    BY <1>2, <1>7, NoRowYet
<1>10. Arrived(r)'
    BY <1>3, <1>5, <1>8, <1>9 DEF Arrived
<1>11. RestInv(r)' /\ FormInv(r)' /\ VerdictInv(r)'
    BY <1>8 DEF RestInv, BodyLeft, FormInv, VerdictInv
<1> QED
    BY <1>5, <1>6, <1>9, <1>10, <1>11 DEF ReqInv

(* What readRequestBody leaves to the next reader. *)
LEMMA TakenTyped ==
    ASSUME TypeInv, NEW r \in Req PROVE Taken(r) \in Nat /\ ReadLimit = MaxBody + 1 /\ MaxBody \in Nat
BY ContextTyped, OperateLogAssumption DEF Taken, ReadLimit

LEMMA ReadBody ==
    ASSUME TypeInv, NEW r \in Req, ctx[r].ask \in Asks[r], RestInv(r), NEW c, c = readRequestBody(r)
    PROVE  /\ c \in Context /\ BodyLeft(c)
           /\ c.ask = ctx[r].ask /\ c.form = ctx[r].form /\ c.verdict = ctx[r].verdict
<1>1. /\ ctx[r] \in Context /\ ctx[r].rest \in Rest /\ Taken(r) \in Nat
      /\ ctx[r].ask.body \in Value /\ ctx[r].ask.units \in Nat /\ Text("cut") \in Value
    BY ContextTyped, TakenTyped, AskTyped, TextIsValue, LiteralsAssumption
<1>2. CASE c = ctx[r]
    BY <1>1, <1>2 DEF RestInv
<1>3. ASSUME ctx[r].rest.from <= ctx[r].rest.upto
      PROVE  \/ ctx[r].rest = [from |-> 1, upto |-> ctx[r].ask.units, breaks |-> ctx[r].ask.broken]
             \/ ctx[r].ask.broken \/ TooLong(ctx[r].ask)
    BY <1>1, <1>3 DEF RestInv, BodyLeft, Rest
<1>4. CASE /\ ctx[r].rest.from <= ctx[r].rest.upto /\ ctx[r].rest.breaks
           /\ c = [ctx[r] EXCEPT !.rest.from = Taken(r) + 1]
    <2>1. ctx[r].ask.broken \/ TooLong(ctx[r].ask)
        BY <1>3, <1>4
    <2>2. /\ c \in Context
          /\ c.ask = ctx[r].ask /\ c.form = ctx[r].form /\ c.verdict = ctx[r].verdict
        BY <1>1, <1>4 DEF Context, Rest
    <2> QED
        BY <2>1, <2>2 DEF BodyLeft
<1>5. CASE /\ ~skipRequestBodyCapture(ctx[r].ask) /\ ctx[r].rest.from <= ctx[r].rest.upto
           /\ c = [ctx[r] EXCEPT !.rest.upto = Taken(r), !.rest.breaks = FALSE,
                                 !.payload = IF ctx[r].ask.units <= MaxBody THEN ctx[r].ask.body ELSE Text("cut")]
    <2>1. PICK v \in Value : c = [ctx[r] EXCEPT !.rest.upto = Taken(r), !.rest.breaks = FALSE, !.payload = v]
        BY <1>1, <1>5
    <2>2. c.rest = [from |-> ctx[r].rest.from, upto |-> Taken(r), breaks |-> FALSE]
        <3>1. c.rest = [[ctx[r].rest EXCEPT !.upto = Taken(r)] EXCEPT !.breaks = FALSE]
            BY <1>1, <2>1 DEF Context
        <3> QED
            BY <1>1, <3>1 DEF Rest
    <2>3. c \in Context /\ c.ask = ctx[r].ask /\ c.form = ctx[r].form /\ c.verdict = ctx[r].verdict
        <3>1. [[ctx[r].rest EXCEPT !.upto = Taken(r)] EXCEPT !.breaks = FALSE] \in Rest
            BY <1>1 DEF Rest
        <3> QED
            BY <1>1, <2>1, <3>1 DEF Context
    <2>4. ASSUME ~ctx[r].ask.broken, ~TooLong(ctx[r].ask)
          PROVE  c.rest = [from |-> 1, upto |-> ctx[r].ask.units, breaks |-> ctx[r].ask.broken]
        <3>1. ctx[r].rest.upto = ctx[r].ask.units /\ ctx[r].rest.from = 1
            BY <1>3, <1>5, <2>4
        <3>2. ctx[r].ask.units <= MaxBody + 1
            BY <1>1, <1>5, <2>4, TakenTyped DEF TooLong, skipRequestBodyCapture
        <3>3. Taken(r) = ctx[r].ask.units
            BY <1>1, <3>1, <3>2, TakenTyped DEF Taken
        <3>4. ctx[r].ask.broken = FALSE
            BY <2>4, AskTyped
        <3> QED
            BY <2>2, <3>1, <3>3, <3>4
    <2> QED
        BY <2>3, <2>4 DEF BodyLeft
<1>6. ctx[r].rest.from > ctx[r].rest.upto \/ ctx[r].rest.from <= ctx[r].rest.upto
    BY <1>1 DEF Rest
<1> QED
    BY <1>2, <1>4, <1>5, <1>6 DEF readRequestBody

LEMMA CaptureStep ==
    ASSUME IInv, NEW r \in Req, Capture(r)
    PROVE  TypeInv' /\ ReqInv(r)' /\ \A q \in Req \ {r} : Untouched(q)
<1>1. PICK c, t : /\ ctx' = [ctx EXCEPT ![r] = c] /\ todo' = [todo EXCEPT ![r] = t]
                  /\ c \in {ctx[r], readRequestBody(r)} /\ t \in {Tail(todo[r]), <<>>}
    <2>1. TypeInv
        BY DEF IInv
    <2>2. ctx = [ctx EXCEPT ![r] = ctx[r]]
        BY <2>1 DEF TypeInv
    <2> QED
        BY <2>2 DEF Capture, Goes
<1>2. TypeInv /\ row' = row /\ doc' = doc /\ ReqInv(r) /\ Stage(r, "capture")
    BY DEF IInv, Capture
<1>3. /\ Arrived(r) /\ RestInv(r) /\ FormInv(r) /\ VerdictInv(r) /\ ~Saved(r)
      /\ Tail(todo[r]) \in Seq(Steps) /\ ctx[r].verdict # "rejected"
    BY <1>2, StepsGoOn DEF Steps
<1>4. /\ c \in Context /\ c.ask = ctx[r].ask /\ c.form = ctx[r].form /\ c.verdict = ctx[r].verdict
      /\ BodyLeft(c)
    <2>1. CASE c = ctx[r]
        BY <1>2, <1>3, <2>1, ContextTyped DEF RestInv
    <2>2. CASE c = readRequestBody(r)
        BY <1>2, <1>3, <2>2, ReadBody DEF Arrived
    <2> QED
        BY <1>1, <2>1, <2>2
<1>5. t \in Seq(Steps) /\ t \in Seq(Steps \cup {"arrive", "save"})
    <2>1. <<>> \in Seq(Steps)
        OBVIOUS
    <2> QED
        BY <1>1, <1>3, <2>1, SameSeqs
<1>6. TypeInv' /\ ctx'[r] = c /\ todo'[r] = t
    BY <1>1, <1>2, <1>4, <1>5, OneMoves
<1>7. \A q \in Req \ {r} : Untouched(q)
    BY <1>1, <1>2, OthersRest
<1>8. RowInv(r)' /\ ~Saved(r)'
    BY <1>2, <1>3, NoRowYet
<1>9. Arrived(r)'
    BY <1>3, <1>4, <1>5, <1>6, <1>8 DEF Arrived
<1>10. RestInv(r)' /\ FormInv(r)' /\ VerdictInv(r)'
    <2>1. VerdictInv(r)'
        BY <1>3, <1>4, <1>6 DEF VerdictInv
    <2> QED
        BY <1>3, <1>4, <1>6, <2>1 DEF RestInv, FormInv
<1> QED
    BY <1>6, <1>7, <1>8, <1>9, <1>10 DEF ReqInv

(* What the verifier lets through was signed, and it parses what was sent   *)
(* when that can be read.                                                   *)
LEMMA VerifiedIsSigned ==
    ASSUME NEW r \in Req PROVE Verified(r) <=> Signed(Parsed(r), ctx[r].ask.query)
BY DEF Verified, VerifyUUMD5, Signed

LEMMA PartOf ==
    ASSUME NEW S, NEW s \in Seq(S), NEW m \in Nat, NEW n \in Nat \ {0}, m <= Len(s)
    PROVE  /\ SubSeq(s, n, m) \in Seq(S)
           /\ n > m => SubSeq(s, n, m) = <<>>
           /\ n = 1 /\ m = Len(s) => SubSeq(s, n, m) = s
OBVIOUS

LEMMA JoinedEmpty ==
    ASSUME NEW S, NEW s \in Seq(S), NEW t \in Seq(S)
    PROVE  /\ s \o t \in Seq(S) /\ <<>> \o t = t
           /\ s \o t = <<>> => s = <<>> /\ t = <<>>
OBVIOUS

LEMMA ParsedSent ==
    ASSUME TypeInv, NEW r \in Req, ctx[r].ask \in Asks[r], RestInv(r), FormInv(r)
    PROVE  /\ Parsed(r) \in Pairs
           /\ ~ctx[r].ask.broken /\ ~TooLong(ctx[r].ask) => Parsed(r) = Sent(ctx[r].ask)
<1> DEFINE a == ctx[r].ask
           rest == ctx[r].rest
           n == IF rest.upto < Len(a.form) THEN rest.upto ELSE Len(a.form)
           S == [key : STRING, value : Seq(STRING)]
<1>1. /\ a.form \in Seq(S) /\ a.query \in Seq(S) /\ Len(a.form) <= a.units /\ a.units \in Nat
      /\ a.broken \in BOOLEAN /\ ctx[r].form \in Pairs
    BY AskTyped, ContextTyped DEF Pairs
<1>2. rest.from \in Nat \ {0} /\ rest.upto \in Nat /\ rest.breaks \in BOOLEAN
    BY ContextTyped DEF Rest
<1>3. n \in Nat /\ n <= Len(a.form) /\ n <= rest.upto
    BY <1>1, <1>2, LenProperties
<1>4. FromBody(r) = IF ~ReadsForm(a) \/ rest.breaks THEN <<>> ELSE SubSeq(a.form, rest.from, n)
    BY DEF FromBody
<1>5. FromBody(r) \in Seq(S)
    <2>1. SubSeq(a.form, rest.from, n) \in Seq(S) /\ <<>> \in Seq(S)
        <3> HIDE DEF a, rest, n, S
        <3> QED
            BY <1>1, <1>2, <1>3, PartOf
    <2> HIDE DEF a, rest, n, S
    <2> QED
        BY <1>4, <2>1
<1>6. FromBody(r) \o a.query \in Pairs
    <2> HIDE DEF a, S
    <2>1. FromBody(r) \o a.query \in Seq(S)
        BY <1>1, <1>5, JoinedEmpty
    <2> QED
        BY <2>1 DEF Pairs, S
<1>7. CASE ctx[r].form # <<>>
    BY <1>1, <1>7 DEF Parsed, FormInv
<1>8. CASE ctx[r].form = <<>>
    <2>1. Parsed(r) = FromBody(r) \o a.query
        BY <1>8 DEF Parsed
    <2>2. ASSUME ~a.broken, ~TooLong(a) PROVE FromBody(r) \o a.query = Sent(a)
        <3>1. CASE rest = [from |-> 1, upto |-> a.units, breaks |-> a.broken]
            <4>1. n = Len(a.form) /\ rest.from = 1 /\ ~rest.breaks
                BY <1>1, <2>2, <3>1, LenProperties
            <4>2. SubSeq(a.form, rest.from, n) = a.form
                BY <1>1, <1>3, <4>1, PartOf
            <4> QED
                BY <1>4, <4>1, <4>2 DEF Sent
        <3>2. CASE ReadsForm(a) /\ ctx[r].form = Sent(a) /\ rest.from = rest.upto + 1
            <4>1. a.form \o a.query = <<>>
                BY <1>8, <3>2 DEF Sent
            <4>2. a.form = <<>> /\ a.query = <<>>
                <5> HIDE DEF a, S
                <5> QED
                    BY <1>1, <4>1, JoinedEmpty
            <4>3. SubSeq(a.form, rest.from, n) = <<>>
                <5> HIDE DEF a, rest, n, S
                <5> QED
                    BY <1>1, <1>2, <1>3, <3>2, PartOf
            <4>4. FromBody(r) = <<>>
                BY <1>4, <4>3
            <4> QED
                BY <4>2, <4>4, <3>2 DEF Sent
        <3> QED
            BY <2>2, <3>1, <3>2 DEF RestInv, BodyLeft
    <2> QED
        BY <1>6, <2>1, <2>2
<1> QED
    BY <1>7, <1>8

LEMMA UnwoundTyped ==
    ASSUME NEW r \in Req
    PROVE  /\ Unwound(r) \in {<<>>, <<"save">>} /\ (Unwound(r) = <<"save">> => Logged(ctx[r].ask))
           /\ Unwound(r) \in Seq(Steps \cup {"arrive", "save"})
           /\ Unwound(r) = <<>> => Unwound(r) \in Seq(Steps)
<1>1. /\ <<"save">> # <<>> /\ <<>> \in Seq(Steps) /\ <<>> \in Seq(Steps \cup {"arrive", "save"})
      /\ <<"save">> \in Seq(Steps \cup {"arrive", "save"})
    OBVIOUS
<1> QED
    BY <1>1 DEF Unwound

LEMMA CallbackAuthStep ==
    ASSUME IInv, NEW r \in Req, CallbackAuth(r)
    PROVE  TypeInv' /\ ReqInv(r)' /\ \A q \in Req \ {r} : Untouched(q)
<1> DEFINE said == IF Verified(r) THEN "passed" ELSE "rejected"
           from == IF ReadsForm(ctx[r].ask) THEN ctx[r].rest.upto + 1 ELSE ctx[r].rest.from
<1>1. TypeInv /\ row' = row /\ doc' = doc /\ ReqInv(r) /\ Stage(r, "verify")
    BY DEF IInv, CallbackAuth
<1>2. /\ Arrived(r) /\ RestInv(r) /\ FormInv(r) /\ VerdictInv(r) /\ ~Saved(r)
      /\ Tail(todo[r]) \in Seq(Steps)
    BY <1>1, StepsGoOn DEF Steps
<1>3. ctx \in [Req -> Context] /\ ctx[r] \in Context /\ ctx[r].rest \in Rest
    BY <1>1, ContextTyped DEF TypeInv
<1>4. from \in Nat \ {0} /\ said \in {"none", "passed", "rejected"}
    BY <1>3 DEF Rest
<1>5. /\ Parsed(r) \in Pairs
      /\ ~ctx[r].ask.broken /\ ~TooLong(ctx[r].ask) => Parsed(r) = Sent(ctx[r].ask)
    BY <1>1, <1>2, ParsedSent DEF Arrived
<1>6. PICK c \in Context :
         /\ ctx' = [ctx EXCEPT ![r] = c]
         /\ c = [ctx[r] EXCEPT !.form = Parsed(r), !.verdict = said, !.rest.from = from]
    <2> DEFINE c == [ctx[r] EXCEPT !.form = Parsed(r), !.verdict = said, !.rest.from = from]
    <2>1. c \in Context
        <3> HIDE DEF said, from
        <3>1. [ctx[r].rest EXCEPT !.from = from] \in Rest
            BY <1>3, <1>4 DEF Rest
        <3> QED
            BY <1>3, <1>4, <1>5, <3>1 DEF Context
    <2>2. ctx' = [ctx EXCEPT ![r] = c]
        BY <1>3 DEF CallbackAuth, Context
    <2> QED
        BY <2>1, <2>2
<1>7. /\ c.ask = ctx[r].ask /\ c.form = Parsed(r) /\ c.verdict = said
      /\ c.rest = [from |-> from, upto |-> ctx[r].rest.upto, breaks |-> ctx[r].rest.breaks]
    <2> HIDE DEF said, from
    <2> QED
        BY <1>3, <1>6 DEF Context, Rest
<1>8. PICK t : todo' = [todo EXCEPT ![r] = t] /\ t = IF Verified(r) THEN Tail(todo[r]) ELSE Unwound(r)
    <2>1. todo \in [Req -> Seq(Steps \cup {"arrive", "save"})]
        BY <1>1 DEF TypeInv
    <2>2. todo' = [todo EXCEPT ![r] = IF Verified(r) THEN Tail(todo[r]) ELSE Unwound(r)]
        BY <2>1 DEF CallbackAuth
    <2> QED
        BY <2>2
<1>9. t \in Seq(Steps \cup {"arrive", "save"})
    BY <1>2, <1>8, SameSeqs, UnwoundTyped
<1>10. TypeInv' /\ ctx'[r] = c /\ todo'[r] = t
    <2>1. ctx' = [ctx EXCEPT ![r] = c]
        BY <1>6
    <2>2. todo' = [todo EXCEPT ![r] = t]
        BY <1>8
    <2> QED
        BY <1>1, <1>9, <2>1, <2>2, OneMoves
<1>11. \A q \in Req \ {r} : Untouched(q)
    BY <1>1, <1>6, <1>8, OthersRest
<1>12. RowInv(r)' /\ ~Saved(r)'
    BY <1>1, <1>2, NoRowYet
<1>13. Arrived(r)'
    <2>1. t \in Seq(Steps) \/ (t = <<"save">> /\ Logged(c.ask))
        BY <1>2, <1>7, <1>8, UnwoundTyped
    <2> QED
        BY <1>2, <1>7, <1>10, <1>12, <2>1 DEF Arrived
<1>14. FormInv(r)'
    BY <1>5, <1>7, <1>10 DEF FormInv
<1>15. RestInv(r)'
    <2>1. CASE ReadsForm(ctx[r].ask)
        <3>1. c.rest.from = c.rest.upto + 1 /\ c.verdict # "none" /\ ReadsForm(c.ask)
            BY <1>7, <2>1
        <3> QED
            BY <1>5, <1>7, <1>10, <3>1 DEF RestInv, BodyLeft
    <2>2. CASE ~ReadsForm(ctx[r].ask)
        <3>1. c.rest = ctx[r].rest
            BY <1>3, <1>7, <2>2 DEF Rest
        <3> QED
            BY <1>2, <1>7, <1>10, <2>2, <3>1 DEF RestInv, BodyLeft
    <2> QED
        BY <2>1, <2>2
<1>16. VerdictInv(r)'
    <2>1. Verified(r) <=> Signed(c.form, c.ask.query)
        BY <1>7, VerifiedIsSigned
    <2>2. CASE Verified(r)
        <3>1. c.verdict = "passed"
            BY <1>7, <2>2
        <3> QED
            BY <1>10, <2>1, <2>2, <3>1 DEF VerdictInv
    <2>3. CASE ~Verified(r)
        <3>1. c.verdict = "rejected" /\ t \in {<<>>, <<"save">>}
            BY <1>7, <1>8, <2>3, UnwoundTyped
        <3> QED
            BY <1>10, <2>1, <2>3, <3>1 DEF VerdictInv
    <2> QED
        BY <2>2, <2>3
<1> QED
    BY <1>10, <1>11, <1>12, <1>13, <1>14, <1>15, <1>16 DEF ReqInv

LEMMA SnapshotStep ==
    ASSUME IInv, NEW r \in Req, Snapshot(r)
    PROVE  TypeInv' /\ ReqInv(r)' /\ \A q \in Req \ {r} : Untouched(q)
<1>1. TypeInv /\ row' = row /\ doc' = doc /\ ReqInv(r) /\ Stage(r, "snapshot")
    BY DEF IInv, Snapshot
<1>2. /\ Arrived(r) /\ RestInv(r) /\ FormInv(r) /\ VerdictInv(r) /\ ~Saved(r)
      /\ Tail(todo[r]) \in Seq(Steps) /\ ctx[r].verdict # "rejected"
    BY <1>1, StepsGoOn DEF Steps
<1>3. ctx[r] \in Context /\ loadBefore(ctx[r].ask) \in Value
    BY <1>1, ContextTyped, loadBeforeIsValue DEF TypeInv
<1>4. PICK c \in Context :
         /\ ctx' = [ctx EXCEPT ![r] = c]
         /\ c.ask = ctx[r].ask /\ c.form = ctx[r].form /\ c.verdict = ctx[r].verdict /\ c.rest = ctx[r].rest
    <2>1. CASE ctx' = [ctx EXCEPT ![r].before = loadBefore(ctx[r].ask), ![r].alone = TRUE]
        <3> DEFINE c == [ctx[r] EXCEPT !.before = loadBefore(ctx[r].ask), !.alone = TRUE]
        <3>1. /\ c \in Context
              /\ c.ask = ctx[r].ask /\ c.form = ctx[r].form /\ c.verdict = ctx[r].verdict /\ c.rest = ctx[r].rest
            BY <1>3 DEF Context
        <3>2. ctx' = [ctx EXCEPT ![r] = c]
            BY <1>1, <1>3, <2>1 DEF TypeInv, Context
        <3> QED
            BY <3>1, <3>2
    <2>2. CASE ctx' = ctx
        BY <1>1, <1>3, <2>2 DEF TypeInv
    <2> QED
        BY <2>1, <2>2 DEF Snapshot
<1>5. PICK t : todo' = [todo EXCEPT ![r] = t] /\ t = Tail(todo[r])
    BY DEF Snapshot, Goes
<1>6. TypeInv' /\ ctx'[r] = c /\ todo'[r] = t
    BY <1>1, <1>2, <1>4, <1>5, SameSeqs, OneMoves
<1>7. \A q \in Req \ {r} : Untouched(q)
    BY <1>1, <1>4, <1>5, OthersRest
<1>8. RowInv(r)' /\ ~Saved(r)'
    BY <1>1, <1>2, NoRowYet
<1>9. Arrived(r)'
    BY <1>2, <1>4, <1>5, <1>6, <1>8 DEF Arrived
<1>10. RestInv(r)' /\ FormInv(r)' /\ VerdictInv(r)'
    BY <1>2, <1>4, <1>6 DEF RestInv, BodyLeft, FormInv, VerdictInv
<1> QED
    BY <1>6, <1>7, <1>8, <1>9, <1>10 DEF ReqInv

LEMMA ResultIsValue ==
    ASSUME TypeInv, NEW r \in Req, ctx[r].ask \in Asks[r] PROVE Result(r) \in Value
<1>1. Created(ctx[r].ask) \in Value
    BY CreatedIsValue
<1>2. Updated(doc, ctx[r].ask.body) \in Value
    BY AskTyped, UpdatedIsValue DEF TypeInv
<1>3. ctx[r].ask.writes \in BOOLEAN
    BY RequestAssumption DEF AskTypeOK
<1> QED
    BY <1>1, <1>2, <1>3, NilIsValue DEF Result, TypeInv

LEMMA HandleStep ==
    ASSUME IInv, NEW r \in Req, Handle(r)
    PROVE  TypeInv' /\ ReqInv(r)' /\ \A q \in Req \ {r} : Untouched(q)
<1>1. TypeInv /\ row' = row /\ ReqInv(r) /\ Stage(r, "handle")
    BY DEF IInv, Handle
<1>2. /\ Arrived(r) /\ RestInv(r) /\ FormInv(r) /\ VerdictInv(r) /\ ~Saved(r)
      /\ ctx[r].verdict # "rejected"
    BY <1>1, StepsGoOn DEF Steps
<1>3. PICK worked \in BOOLEAN, panics \in BOOLEAN :
         /\ doc' = IF worked THEN Result(r) ELSE doc
         /\ ctx' = [q \in Req |->
               IF q = r THEN [ctx[r] EXCEPT !.ok = worked /\ ~panics, !.old = doc, !.new = doc']
               ELSE [ctx[q] EXCEPT !.alone = @ /\ doc' = doc]]
         /\ todo' = [todo EXCEPT ![r] = IF panics THEN <<>> ELSE Unwound(r)]
    BY DEF Handle
<1>4. doc \in Value /\ doc' \in Value
    BY <1>1, <1>2, <1>3, ResultIsValue DEF TypeInv, Arrived
<1>5. PICK c \in Context :
         /\ ctx'[r] = c
         /\ c.ask = ctx[r].ask /\ c.form = ctx[r].form /\ c.verdict = ctx[r].verdict /\ c.rest = ctx[r].rest
    <2> DEFINE c == [ctx[r] EXCEPT !.ok = worked /\ ~panics, !.old = doc, !.new = doc']
    <2>1. ctx[r] \in Context /\ (worked /\ ~panics) \in BOOLEAN
        BY <1>1, ContextTyped
    <2>2. /\ c \in Context
          /\ c.ask = ctx[r].ask /\ c.form = ctx[r].form /\ c.verdict = ctx[r].verdict /\ c.rest = ctx[r].rest
        BY <1>4, <2>1 DEF Context
    <2>3. ctx'[r] = c
        BY <1>3
    <2> QED
        BY <2>2, <2>3
<1>6. PICK t : todo' = [todo EXCEPT ![r] = t] /\ t \in {<<>>, Unwound(r)}
    BY <1>3
<1>7. ASSUME NEW q \in Req \ {r} PROVE Untouched(q) /\ ctx'[q] \in Context
    <2>1. ctx[q] \in Context /\ ctx[q].alone \in BOOLEAN
        BY <1>1, ContextTyped
    <2>2. ctx'[q] = [ctx[q] EXCEPT !.alone = (ctx[q].alone /\ doc' = doc)]
        BY <1>3
    <2>3. (ctx[q].alone /\ doc' = doc) \in BOOLEAN
        BY <2>1
    <2>4. todo'[q] = todo[q]
        BY <1>1, <1>6 DEF TypeInv
    <2>5. ctx'[q] \in Context
        BY <2>1, <2>2, <2>3 DEF Context
    <2> QED
        BY <1>1, <2>2, <2>3, <2>4, <2>5 DEF Untouched
<1>8. t \in Seq(Steps) \/ (t = <<"save">> /\ Logged(ctx[r].ask))
    <2>1. <<>> \in Seq(Steps)
        OBVIOUS
    <2> QED
        BY <1>6, <2>1, UnwoundTyped
<1>9. TypeInv' /\ todo'[r] = t
    <2>1. t \in Seq(Steps \cup {"arrive", "save"})
        BY <1>6, <1>8, SameSeqs, UnwoundTyped
    <2>2. todo' \in [Req -> Seq(Steps \cup {"arrive", "save"})] /\ todo'[r] = t
        BY <1>1, <1>6, <2>1 DEF TypeInv
    <2>3. ctx' \in [Req -> Context]
        <3>1. \A q \in Req : ctx'[q] \in Context
            BY <1>5, <1>7
        <3>2. ctx' = [q \in Req |-> ctx'[q]]
            BY <1>3
        <3> QED
            BY <3>1, <3>2
    <2>4. row' = [q \in Req |-> row'[q]]
        BY <1>1 DEF TypeInv
    <2> QED
        BY <1>4, <2>2, <2>3, <2>4 DEF TypeInv
<1>10. RowInv(r)' /\ ~Saved(r)'
    BY <1>1, <1>2, NoRowYet
<1>11. Arrived(r)'
    BY <1>2, <1>5, <1>8, <1>9, <1>10 DEF Arrived
<1>12. RestInv(r)' /\ FormInv(r)' /\ VerdictInv(r)'
    BY <1>2, <1>5 DEF RestInv, BodyLeft, FormInv, VerdictInv
<1> QED
    BY <1>7, <1>9, <1>10, <1>11, <1>12 DEF ReqInv

LEMMA SaveIsNext ==
    ASSUME NEW r \in Req, ReqInv(r), Stage(r, "save")
    PROVE  /\ todo[r] = <<"save">> /\ Logged(ctx[r].ask)
           /\ Arrived(r) /\ RestInv(r) /\ FormInv(r) /\ VerdictInv(r)
<1>1. todo[r] # <<>> /\ Head(todo[r]) = "save"
    BY DEF Stage
<1>2. Head(<<"arrive">>) # "save"
    OBVIOUS
<1>3. todo[r] \notin Seq(Steps)
    <2>1. "save" \notin Steps
        BY DEF Steps
    <2> QED
        BY <1>1, <2>1, ChainTyped
<1>4. Arrived(r) /\ RestInv(r) /\ FormInv(r) /\ VerdictInv(r)
    BY <1>1, <1>2 DEF ReqInv, Waiting
<1> QED
    BY <1>3, <1>4 DEF Arrived

LEMMA SaveStep ==
    ASSUME IInv, NEW r \in Req, Save(r)
    PROVE  TypeInv' /\ ReqInv(r)' /\ \A q \in Req \ {r} : Untouched(q)
<1>1. TypeInv /\ ctx' = ctx /\ doc' = doc /\ ReqInv(r) /\ Stage(r, "save")
    BY DEF IInv, Save
<1>2. PICK after \in After(r) : \E sides \in CompressAuditBodies(action(r), ctx[r].before, after) :
         row' = [row EXCEPT ![r] = RowFrom(r, after, sides)]
    BY DEF Save, RowFrom
<1>3. PICK sides \in CompressAuditBodies(action(r), ctx[r].before, after) :
         row' = [row EXCEPT ![r] = RowFrom(r, after, sides)]
    BY <1>2
<1>4. todo[r] = <<"save">>
    BY <1>1, SaveIsNext
<1>5. Arrived(r) /\ RestInv(r) /\ FormInv(r) /\ VerdictInv(r) /\ Logged(ctx[r].ask)
    BY <1>1, SaveIsNext
<1>6. todo' = [todo EXCEPT ![r] = <<>>] /\ Tail(todo[r]) = <<>>
    <2>1. Tail(<<"save">>) = <<>>
        OBVIOUS
    <2> QED
        BY <1>4, <2>1 DEF Save, Goes
<1>7. <<>> \in Seq(Steps) /\ <<>> \in Seq(Steps \cup {"arrive", "save"})
    OBVIOUS
<1>8. TypeInv' /\ todo'[r] = <<>> /\ row'[r] = RowFrom(r, after, sides)
    <2>1. todo' \in [Req -> Seq(Steps \cup {"arrive", "save"})] /\ todo'[r] = <<>>
        BY <1>1, <1>6, <1>7 DEF TypeInv
    <2>2. row' = [q \in Req |-> row'[q]] /\ row'[r] = RowFrom(r, after, sides)
        BY <1>1, <1>3 DEF TypeInv
    <2> QED
        BY <1>1, <2>1, <2>2 DEF TypeInv
<1>9. ASSUME NEW q \in Req \ {r} PROVE Untouched(q)
    <2>1. ctx[q] \in Context /\ ctx[q].alone \in BOOLEAN
        BY <1>1, ContextTyped
    <2>2. ctx[q] = [ctx[q] EXCEPT !.alone = ctx[q].alone]
        BY <2>1 DEF Context
    <2>3. todo'[q] = todo[q] /\ row'[q] = row[q]
        BY <1>1, <1>3, <1>6 DEF TypeInv
    <2> QED
        BY <1>1, <2>1, <2>2, <2>3 DEF Untouched
<1>10. RowInv(r)'
    <2>1. SameFields(ctx[r], ctx'[r])
        BY <1>1 DEF SameFields
    <2>2. /\ action(r)' = action(r) /\ After(r)' = After(r)
          /\ RowFrom(r, after, sides)' = RowFrom(r, after, sides)
        BY <2>1, SameRow
    <2> QED
        BY <1>1, <1>2, <1>3, <1>8, <2>2 DEF RowInv
<1>11. Arrived(r)' /\ RestInv(r)' /\ FormInv(r)' /\ VerdictInv(r)'
    <2>1. Arrived(r)'
        BY <1>1, <1>5, <1>7, <1>8 DEF Arrived
    <2>2. RestInv(r)' /\ FormInv(r)'
        BY <1>1, <1>5 DEF RestInv, FormInv, Unread
    <2>3. VerdictInv(r)'
        BY <1>1, <1>5, <1>8 DEF VerdictInv
    <2> QED
        BY <2>1, <2>2, <2>3
<1> QED
    BY <1>8, <1>9, <1>10, <1>11 DEF ReqInv

-----------------------------------------------------------------------------
(* The inductive invariant holds in every reachable state: what a request   *)
(* has read, parsed, verified and recorded fits how far it has come in its   *)
(* chain (OperateLogMiddleware, CallbackAuth).                              *)
THEOREM OperateLogInvariant == Spec => []IInv
<1>1. Init => IInv
    <2> SUFFICES ASSUME Init PROVE IInv
        OBVIOUS
    <2>1. /\ doc \in Documents /\ todo = [r \in Req |-> <<"arrive">>]
          /\ ctx = [r \in Req |-> Fresh(NoAsk)] /\ row = [r \in Req |-> NoRow]
        BY DEF Init
    <2>2. doc \in Value
        BY <2>1, RequestAssumption, ValueIsValue
    <2>3. Fresh(NoAsk) \in Context /\ Fresh(NoAsk).verdict = "none" /\ Fresh(NoAsk).ask = NoAsk
        BY FreshTyped DEF AnyAsk, Fresh
    <2>4. <<"arrive">> \in Seq(Steps \cup {"arrive", "save"})
        BY ShortPath
    <2>5. TypeInv
        BY <2>1, <2>2, <2>3, <2>4 DEF TypeInv
    <2>6. \A r \in Req : Waiting(r)
        BY <2>1, <2>3 DEF Waiting, Saved
    <2> QED
        BY <2>5, <2>6 DEF IInv, ReqInv
<1>2. IInv /\ [Next]_vars => IInv'
    <2> SUFFICES ASSUME IInv, [Next]_vars PROVE IInv'
        OBVIOUS
    <2>1. CASE Next
        <3>1. PICK r \in Req : Arrive(r) \/ Capture(r) \/ CallbackAuth(r) \/ Snapshot(r) \/ Handle(r) \/ Save(r)
            BY <2>1 DEF Next
        <3>2. TypeInv' /\ ReqInv(r)' /\ \A q \in Req \ {r} : Untouched(q)
            BY <3>1, ArriveStep, CaptureStep, CallbackAuthStep, SnapshotStep, HandleStep, SaveStep
        <3>3. ASSUME NEW q \in Req \ {r} PROVE ReqInv(q)'
            BY <3>2, UntouchedKeeps DEF IInv
        <3> QED
            BY <3>2, <3>3 DEF IInv
    <2>2. CASE UNCHANGED vars
        <3>1. TypeInv'
            BY <2>2 DEF IInv, TypeInv, vars
        <3>2. ASSUME NEW q \in Req PROVE ReqInv(q)'
            <4>1. ctx[q] \in Context /\ ctx[q].alone \in BOOLEAN
                BY ContextTyped DEF IInv
            <4>2. ctx[q] = [ctx[q] EXCEPT !.alone = ctx[q].alone]
                BY <4>1 DEF Context
            <4>3. Untouched(q)
                BY <2>2, <4>1, <4>2 DEF Untouched, vars
            <4> QED
                BY <4>3, UntouchedKeeps DEF IInv
        <3> QED
            BY <3>1, <3>2 DEF IInv
    <2> QED
        BY <2>1, <2>2
<1> QED
    BY <1>1, <1>2, PTL DEF Spec

-----------------------------------------------------------------------------
(* The capture takes nothing from the handler (readRequestBody), also when  *)
(* a verifier reads the body before or after it.                            *)
THEOREM HandlerHasBody == Spec => []BodyReachesHandler
<1>1. IInv => BodyReachesHandler
    <2> SUFFICES ASSUME IInv, NEW r \in Req, Stage(r, "handle")
                 PROVE  \/ Unread(r) \/ ctx[r].ask.broken \/ TooLong(ctx[r].ask)
                        \/ /\ ctx[r].verdict = "passed" /\ ReadsForm(ctx[r].ask)
                           /\ ctx[r].form = Sent(ctx[r].ask)
        BY DEF BodyReachesHandler
    <2>1. RestInv(r) /\ ctx[r].verdict # "rejected"
        BY StepsGoOn DEF IInv, Steps
    <2>2. ctx[r].verdict \in {"none", "passed", "rejected"}
        BY ContextTyped DEF IInv
    <2> QED
        BY <2>1, <2>2 DEF RestInv, BodyLeft, Unread
<1> QED
    BY <1>1, OperateLogInvariant, PTL

(* Wherever the verifier and the capture stand in the chain, the verifier    *)
(* however often, and whatever the body and the query list: a request passes *)
(* exactly when a candidate key signed the text of what was sent, unless its *)
(* body could not be read to its end; then what passes is signed all the     *)
(* same, and is what the handler finds (StaticUUMD5Verifier.Verify).        *)
THEOREM VerdictIsRight == Spec => []CallbackIsGenuine
<1>1. IInv => CallbackIsGenuine
    <2> SUFFICES ASSUME IInv, NEW r \in Req, ctx[r].verdict # "none"
                 PROVE  /\ ctx[r].verdict = "passed" => Signed(ctx[r].form, ctx[r].ask.query)
                        /\ ~ctx[r].ask.broken /\ ~TooLong(ctx[r].ask) =>
                              (ctx[r].verdict = "passed" <=> Signed(Sent(ctx[r].ask), ctx[r].ask.query))
        BY DEF CallbackIsGenuine
    <2>1. FormInv(r) /\ VerdictInv(r)
        BY DEF IInv, ReqInv, Waiting
    <2>2. ctx[r].verdict \in {"passed", "rejected"}
        BY ContextTyped DEF IInv
    <2>3. ~ctx[r].ask.broken /\ ~TooLong(ctx[r].ask) => ctx[r].form = Sent(ctx[r].ask)
        BY <2>1 DEF FormInv
    <2> QED
        BY <2>1, <2>2, <2>3 DEF VerdictInv
<1> QED
    BY <1>1, OperateLogInvariant, PTL

(* What a saved row is made of. *)
LEMMA SavedRow ==
    ASSUME IInv, NEW r \in Req, Saved(r)
    PROVE  /\ ctx[r].ask \in Asks[r] /\ Logged(ctx[r].ask)
           /\ \E after \in After(r) : \E sides \in CompressAuditBodies(action(r), ctx[r].before, after) :
                row[r] = RowFrom(r, after, sides)
BY DEF IInv, ReqInv, Waiting, Arrived, RowInv

LEMMA VisitorOfArrival == \A h \in Arrivals : clientRemoteIP(h) = Visitor
<1> SUFFICES ASSUME NEW h \in Arrivals PROVE clientRemoteIP(h) = Visitor
    OBVIOUS
<1>1. h.real \in {Visitor, Edge} /\ (h.real = Edge => h.cf = Visitor)
    <2>1. CASE \E restored \in BOOLEAN, f \in {"junk", Forged} :
                  h = [real |-> IF restored THEN Visitor ELSE Edge, forwarded |-> f, cf |-> Visitor,
                       direct |-> Gateway]
        BY <2>1
    <2>2. CASE \E f \in {Visitor, Forged}, c \in MadeUp :
                  h = [real |-> Visitor, forwarded |-> f, cf |-> c, direct |-> Gateway]
        <3>1. Visitor # Edge
            BY AddressAssumption
        <3>2. h.real = Visitor
            BY <2>2
        <3> QED
            BY <3>1, <3>2
    <2> QED
        BY <2>1, <2>2 DEF Arrivals
<1>2. validIP(Visitor) = Visitor /\ validIP(Edge) = Edge /\ Visitor # "" /\ Edge # "" /\ Visitor # Edge
    BY AddressAssumption DEF validIP
<1>3. firstValid(h.real, h.forwarded, h.direct) = h.real
    BY <1>1, <1>2 DEF firstValid
<1> QED
    BY <1>1, <1>2, <1>3 DEF clientRemoteIP, isCloudflareIP

(* Every row has the visitor's address (clientRemoteIP). *)
THEOREM RowsHaveVisitor == Spec => []RemoteIPIsVisitor
<1>1. IInv => RemoteIPIsVisitor
    <2> SUFFICES ASSUME IInv, NEW r \in Req, Saved(r) PROVE row[r].remote = Visitor
        BY DEF RemoteIPIsVisitor
    <2>1. row[r].remote = clientRemoteIP(ctx[r].ask.arrival) /\ ctx[r].ask \in Asks[r]
        <3>1. PICK after, sides : row[r] = RowFrom(r, after, sides)
            BY SavedRow
        <3> QED
            BY <3>1, SavedRow DEF RowFrom
    <2> QED
        BY <2>1, AskTyped, VisitorOfArrival
<1> QED
    BY <1>1, OperateLogInvariant, PTL

(* The types of the requests' contexts, chains and rows. *)
THEOREM OperateLogTypes == Spec => []TypeOK
<1>1. IInv => TypeOK
    <2> SUFFICES ASSUME IInv PROVE TypeOK
        OBVIOUS
    <2>1. IsValue(doc)
        BY ValueIsValue DEF IInv, TypeInv
    <2>2. ASSUME NEW r \in Req
          PROVE  /\ todo[r] \in Seq({"arrive", "verify", "capture", "snapshot", "handle", "save"})
                 /\ ctx[r].ask \in Asks[r] \cup {NoAsk}
                 /\ ctx[r].rest.from \in Nat /\ ctx[r].rest.upto \in Nat
                 /\ \A v \in {ctx[r].payload, ctx[r].before, ctx[r].old, ctx[r].new} : IsValue(v)
                 /\ {ctx[r].ok, ctx[r].alone} \subseteq BOOLEAN
                 /\ ctx[r].verdict \in {"none", "passed", "rejected"}
                 /\ Stage(r, "save") => Logged(ctx[r].ask)
                 /\ Saved(r) => Logged(ctx[r].ask) /\ row[r].usage.delta \in {-1, 0, 1}
        <3>1. todo[r] \in Seq({"arrive", "verify", "capture", "snapshot", "handle", "save"})
            <4>1. Steps \cup {"arrive", "save"} = {"arrive", "verify", "capture", "snapshot", "handle", "save"}
                BY DEF Steps
            <4> QED
                BY <4>1 DEF IInv, TypeInv
        <3>2. ctx[r].ask \in Asks[r] \cup {NoAsk}
            BY DEF IInv, ReqInv, Waiting, Arrived
        <3>3. \A v \in {ctx[r].payload, ctx[r].before, ctx[r].old, ctx[r].new} : IsValue(v)
            BY ContextTyped, ValueIsValue DEF IInv
        <3>4. Stage(r, "save") => Logged(ctx[r].ask)
            BY SaveIsNext DEF IInv
        <3>5. ASSUME Saved(r) PROVE row[r].usage.delta \in {-1, 0, 1}
            <4>1. PICK after, sides : row[r] = RowFrom(r, after, sides)
                BY <3>5, SavedRow
            <4>2. row[r].usage = usageEvent(r)
                BY <4>1 DEF RowFrom
            <4>3. usageEvent(r).delta \in {-1, 0, 1}
                BY DEF usageEvent, NoUsage
            <4> QED
                BY <4>2, <4>3
        <3> QED
            BY <3>1, <3>2, <3>3, <3>4, <3>5, ContextTyped, SavedRow DEF IInv, Rest
    <2> QED
        BY <2>1, <2>2 DEF TypeOK
<1> QED
    BY <1>1, OperateLogInvariant, PTL

-----------------------------------------------------------------------------
(* Paths: a prefix and the rest, and the value below a path. *)
LEMMA PrefixAndRest ==
    ASSUME NEW S, NEW p \in Seq(S), NEW r \in Seq(S), IsPrefix(p, r)
    PROVE  /\ SubSeq(r, Len(p) + 1, Len(r)) \in Seq(S)
           /\ p \o SubSeq(r, Len(p) + 1, Len(r)) = r
<1>1. Len(p) \in Nat /\ Len(r) \in Nat /\ Len(p) <= Len(r)
    BY DEF IsPrefix
<1>2. SubSeq(r, 1, Len(p)) = p
    BY SubSeqFull DEF IsPrefix
<1>3. SubSeq(r, 1, Len(p)) \o SubSeq(r, Len(p) + 1, Len(r)) = SubSeq(r, 1, Len(r))
    <2>1. 1 \in 1..Len(r) + 1 /\ Len(p) \in 1 - 1..Len(r) /\ Len(r) \in Len(p)..Len(r)
        BY <1>1
    <2> QED
        BY <2>1, ConcatAdjacentSubSeq
<1>4. SubSeq(r, Len(p) + 1, Len(r)) \in Seq(S)
    <2>1. \A i \in Len(p) + 1..Len(r) : r[i] \in S
        BY <1>1
    <2> QED
        BY <1>1, <2>1, SubSeqProperties
<1> QED
    BY <1>2, <1>3, <1>4, SubSeqFull

LEMMA PrefixOfConcat ==
    ASSUME NEW S, NEW p \in Seq(S), NEW q \in Seq(S)
    PROVE  /\ p \o q \in Seq(S) /\ IsPrefix(p, p \o q)
           /\ SubSeq(p \o q, Len(p) + 1, Len(p \o q)) = q
<1>1. /\ Len(p) \in Nat /\ Len(q) \in Nat /\ p \o q \in Seq(S) /\ Len(p \o q) = Len(p) + Len(q)
    BY ConcatProperties
<1>2. SubSeq(p \o q, 1, Len(p)) = SubSeq(p, 1, Len(p))
    <2>1. CASE Len(p) = 0
        BY <2>1, SubSeqEmpty
    <2>2. CASE Len(p) # 0
        <3>1. 1 \in 1..Len(p) /\ Len(p) \in 1..Len(p)
            BY <1>1, <2>2
        <3> QED
            BY <3>1, SubSeqOfConcat1
    <2> QED
        BY <2>1, <2>2
<1>3. IsPrefix(p, p \o q)
    <2>1. Len(p) <= Len(p \o q)
        BY <1>1
    <2> QED
        BY <1>2, <2>1 DEF IsPrefix
<1>4. p \o SubSeq(p \o q, Len(p) + 1, Len(p \o q)) = p \o q
    BY <1>1, <1>3, PrefixAndRest
<1>5. SubSeq(p \o q, Len(p) + 1, Len(p \o q)) \in Seq(S)
    BY <1>1, <1>3, PrefixAndRest
<1> QED
    BY <1>1, <1>3, <1>4, <1>5, ConcatSimplifications

(* The prefixes of a path are the paths that it begins with. *)
LEMMA PrefixTyped ==
    ASSUME NEW S, NEW p \in Seq(S), NEW l \in 0..Len(p)
    PROVE  /\ SubSeq(p, 1, l) \in Seq(S) /\ Len(SubSeq(p, 1, l)) = l /\ IsPrefix(SubSeq(p, 1, l), p)
           /\ \A i \in 0..l : SubSeq(SubSeq(p, 1, l), 1, i) = SubSeq(p, 1, i)
<1>1. Len(p) \in Nat /\ l \in Nat /\ l <= Len(p)
    OBVIOUS
<1>2. SubSeq(p, 1, l) \in Seq(S) /\ Len(SubSeq(p, 1, l)) = l
    <2>1. \A i \in 1..l : p[i] \in S
        BY <1>1
    <2>2. l - 1 + 1 = l /\ (~(1 <= l) => l = 0)
        BY <1>1
    <2> QED
        BY <1>1, <2>1, <2>2, SubSeqProperties
<1>3. ASSUME NEW i \in 0..l PROVE SubSeq(SubSeq(p, 1, l), 1, i) = SubSeq(p, 1, i)
    <2>1. CASE i = 0
        BY <2>1, SubSeqEmpty
    <2>2. CASE i # 0
        <3>1. /\ 1 \in 1..Len(p) /\ l \in 1..Len(p) /\ 1 \in 1..l - 1 + 1 /\ i \in 1..l - 1 + 1
              /\ 1 + 1 - 1 = 1 /\ 1 + i - 1 = i
            BY <1>1, <2>2
        <3>2. SubSeq(SubSeq(p, 1, l), 1, i) = SubSeq(p, 1 + 1 - 1, 1 + i - 1)
            BY <3>1, SubSeqOfSubSeq
        <3> QED
            BY <3>1, <3>2
    <2> QED
        BY <2>1, <2>2
<1>4. IsPrefix(SubSeq(p, 1, l), p)
    <2>1. l \in 0..l
        BY <1>1
    <2> QED
        BY <1>1, <1>2, <1>3, <2>1 DEF IsPrefix
<1> QED
    BY <1>2, <1>3, <1>4

LEMMA AtProperties ==
    ASSUME NEW v, DOMAIN v \subseteq Seq(STRING), NEW p \in Seq(STRING)
    PROVE  /\ \A q \in DOMAIN At(v, p) : q \in Seq(STRING) /\ p \o q \in DOMAIN v
           /\ \A q \in Seq(STRING) : p \o q \in DOMAIN v => q \in DOMAIN At(v, p)
           /\ \A q \in DOMAIN At(v, p) : At(v, p)[q] = v[p \o q]
<1> DEFINE below == {r \in DOMAIN v : IsPrefix(p, r)}
           rest(r) == SubSeq(r, Len(p) + 1, Len(r))
<1>1. DOMAIN At(v, p) = {rest(r) : r \in below}
    BY DEF At
<1>2. ASSUME NEW q \in DOMAIN At(v, p)
      PROVE  q \in Seq(STRING) /\ p \o q \in DOMAIN v /\ At(v, p)[q] = v[p \o q]
    <2>1. PICK r \in below : q = rest(r)
        BY <1>1
    <2>2. q \in Seq(STRING) /\ p \o q = r
        BY <2>1, PrefixAndRest
    <2> QED
        BY <1>1, <2>1, <2>2 DEF At
<1>3. ASSUME NEW q \in Seq(STRING), p \o q \in DOMAIN v PROVE q \in DOMAIN At(v, p)
    <2>1. p \o q \in below /\ rest(p \o q) = q
        BY <1>3, PrefixOfConcat
    <2> QED
        BY <1>1, <2>1
<1> QED
    BY <1>2, <1>3

LEMMA AtPathDomain ==
    ASSUME NEW v, DOMAIN v \subseteq Seq(STRING), NEW p \in Seq(STRING), NEW q \in Seq(STRING),
           NEW r, p \o q = r
    PROVE  r \in DOMAIN v <=> q \in DOMAIN At(v, p)
BY AtProperties

LEMMA AtPathValue ==
    ASSUME NEW v, DOMAIN v \subseteq Seq(STRING), NEW p \in Seq(STRING), NEW q \in DOMAIN At(v, p)
    PROVE  At(v, p)[q] = v[p \o q]
BY AtProperties

-----------------------------------------------------------------------------
(* The walk of diffAuditValue: a path that no reported change covers and no *)
(* key hides has the same value on both sides.                              *)
Shown(p) == \A i \in 1..Len(p) : ~skipAuditPath(SubSeq(p, 1, i))

LEMMA LeafIsNoMap ==
    ASSUME NEW v, DOMAIN v \subseteq Seq(STRING), NEW p \in DOMAIN v PROVE ~MapOrNil(At(v, p))
<1>1. p \in Seq(STRING) /\ <<>> \in Seq(STRING)
    OBVIOUS
<1>2. p \o <<>> = p
    BY <1>1, ConcatEmptySeq
<1>3. <<>> \in DOMAIN At(v, p)
    BY <1>1, <1>2, AtProperties
<1> QED
    BY <1>3 DEF MapOrNil

LEMMA SameWhereUnreported ==
    ASSUME NEW b, NEW a, DOMAIN b \subseteq Seq(STRING), DOMAIN a \subseteq Seq(STRING),
           NEW p \in DOMAIN b \cup DOMAIN a, Shown(p),
           \A e \in diffAuditValue(b, a) : ~IsPrefix(e.path, p)
    PROVE  p \in DOMAIN b /\ p \in DOMAIN a /\ b[p] = a[p]
<1> DEFINE pre(l) == SubSeq(p, 1, l)
           Maps(l) == MapOrNil(At(b, pre(l))) /\ MapOrNil(At(a, pre(l)))
           L == {l \in 0..Len(p) : ~Maps(l)}
<1>1. p \in Seq(STRING) /\ Len(p) \in Nat /\ pre(Len(p)) = p
    BY SubSeqFull
<1>2. ~Maps(Len(p))
    BY <1>1, LeafIsNoMap
<1>3. L \subseteq Nat /\ L # {}
    <2> HIDE DEF Maps
    <2> QED
        BY <1>1, <1>2
<1>4. PICK l \in L : \A i \in L : l <= i
    <2> HIDE DEF L
    <2> QED
        BY <1>3, LeastElement
<1>5. l \in 0..Len(p) /\ ~Maps(l) /\ \A i \in 0..l - 1 : Maps(i)
    <2> HIDE DEF Maps
    <2>1. l \in 0..Len(p) /\ ~Maps(l)
        BY <1>4
    <2>2. ASSUME NEW i \in 0..l - 1 PROVE Maps(i)
        <3>1. i \in 0..Len(p) /\ ~(l <= i)
            BY <1>1, <2>1
        <3> QED
            BY <1>4, <3>1
    <2> QED
        BY <2>1, <2>2
<1> DEFINE q == pre(l)
<1>6. /\ q \in Seq(STRING) /\ Len(q) = l /\ IsPrefix(q, p)
      /\ \A i \in 0..l : SubSeq(q, 1, i) = pre(i)
    BY <1>1, <1>5, PrefixTyped
<1>7. PICK s \in Seq(STRING) : q \o s = p
    <2>1. q \in Seq(STRING) /\ p \in Seq(STRING) /\ IsPrefix(q, p)
        BY <1>1, <1>6
    <2> HIDE DEF q
    <2>2. SubSeq(p, Len(q) + 1, Len(p)) \in Seq(STRING) /\ q \o SubSeq(p, Len(q) + 1, Len(p)) = p
        BY <2>1, PrefixAndRest
    <2> QED
        BY <2>2
<1>8. At(b, q) = At(a, q)
    <2> SUFFICES ASSUME At(b, q) # At(a, q) PROVE FALSE
        OBVIOUS
    <2>1. \A i \in 0..Len(q) : ~skipAuditPath(SubSeq(q, 1, i))
        <3> SUFFICES ASSUME NEW i \in 0..l PROVE ~skipAuditPath(pre(i))
            BY <1>6
        <3>1. CASE i = 0
            <4>1. pre(0) = <<>>
                BY SubSeqEmpty
            <4> QED
                BY <3>1, <4>1 DEF skipAuditPath
        <3>2. CASE i # 0
            <4>1. i \in 1..Len(p)
                BY <1>1, <1>5, <3>2
            <4> QED
                BY <4>1 DEF Shown
        <3> QED
            BY <3>1, <3>2
    <2>2. \A i \in 0..(Len(q) - 1) : MapOrNil(At(b, SubSeq(q, 1, i))) /\ MapOrNil(At(a, SubSeq(q, 1, i)))
        <3> SUFFICES ASSUME NEW i \in 0..l - 1
                     PROVE  MapOrNil(At(b, SubSeq(q, 1, i))) /\ MapOrNil(At(a, SubSeq(q, 1, i)))
            BY <1>6
        <3>1. i \in 0..l /\ SubSeq(q, 1, i) = pre(i)
            BY <1>1, <1>5, <1>6
        <3> QED
            BY <1>5, <3>1
    <2>3. Reported(b, a, q)
        BY <1>5, <2>1, <2>2 DEF Reported
    <2>4. q \in Visited(b, a)
        <3>1. q \in Prefixes(p)
            BY <1>5 DEF Prefixes
        <3> QED
            BY <3>1 DEF Visited
    <2>5. \E e \in diffAuditValue(b, a) : e.path = q
        <3> DEFINE e == [path |-> q, before |-> At(b, q), after |-> At(a, q), kind |-> Kind(At(b, q), At(a, q))]
        <3>1. e \in diffAuditValue(b, a) /\ e.path = q
            <4> HIDE DEF q
            <4> QED
                BY <2>3, <2>4 DEF diffAuditValue
        <3> QED
            BY <3>1
    <2> QED
        BY <1>6, <2>5
<1>9. /\ (p \in DOMAIN b <=> s \in DOMAIN At(b, q)) /\ (p \in DOMAIN b => At(b, q)[s] = b[p])
      /\ (p \in DOMAIN a <=> s \in DOMAIN At(a, q)) /\ (p \in DOMAIN a => At(a, q)[s] = a[p])
    <2>1. q \in Seq(STRING)
        BY <1>6
    <2> HIDE DEF q
    <2>2. p \in DOMAIN b <=> s \in DOMAIN At(b, q)
        BY <1>7, <2>1, AtPathDomain
    <2>3. p \in DOMAIN a <=> s \in DOMAIN At(a, q)
        BY <1>7, <2>1, AtPathDomain
    <2>4. s \in DOMAIN At(b, q) => At(b, q)[s] = b[q \o s]
        BY <2>1, AtPathValue
    <2>5. s \in DOMAIN At(a, q) => At(a, q)[s] = a[q \o s]
        BY <2>1, AtPathValue
    <2> QED
        BY <1>7, <2>2, <2>3, <2>4, <2>5
<1> QED
    <2> HIDE DEF q
    <2> QED
        BY <1>8, <1>9

(* A change holds the value below its path. *)
LEMMA ChangeTyped ==
    ASSUME NEW b, NEW a, DOMAIN b \subseteq Seq(STRING), DOMAIN a \subseteq Seq(STRING),
           NEW e \in diffAuditValue(b, a)
    PROVE  e.path \in Seq(STRING) /\ e.after = At(a, e.path)
<1>1. PICK p \in Visited(b, a) : e.path = p /\ e.after = At(a, p)
    BY DEF diffAuditValue
<1>2. PICK r \in DOMAIN b \cup DOMAIN a : p \in Prefixes(r)
    BY DEF Visited
<1>3. PICK l \in 0..Len(r) : p = SubSeq(r, 1, l)
    BY <1>2 DEF Prefixes
<1>4. r \in Seq(STRING)
    BY <1>2
<1> QED
    BY <1>1, <1>3, <1>4, PrefixTyped

(* Applying the changes of a diff to the one side gives the other. *)
LEMMA DiffIsComplete ==
    ASSUME NEW b, NEW a, DOMAIN b \subseteq Seq(STRING), DOMAIN a \subseteq Seq(STRING)
    PROVE  Open(Replay(b, diffAuditValue(b, a))) = Open(a)
<1> DEFINE C == diffAuditValue(b, a)
           W == Replay(b, C)
           new(e) == {e.path \o q : q \in DOMAIN e.after}
           gone == {p \in DOMAIN b : \E e \in C : IsPrefix(e.path, p)}
           of(p) == {e \in C : p \in new(e)}
<1>1. ASSUME NEW e \in C PROVE new(e) = {p \in DOMAIN a : IsPrefix(e.path, p)}
    <2>1. e.path \in Seq(STRING) /\ e.after = At(a, e.path)
        BY ChangeTyped
    <2>2. ASSUME NEW p \in new(e) PROVE p \in DOMAIN a /\ IsPrefix(e.path, p)
        <3>1. PICK q \in DOMAIN At(a, e.path) : p = e.path \o q
            BY <2>1
        <3> QED
            BY <2>1, <3>1, AtProperties, PrefixOfConcat
    <2>3. ASSUME NEW p \in DOMAIN a, IsPrefix(e.path, p) PROVE p \in new(e)
        <3>1. p \in Seq(STRING)
            BY <2>3
        <3>2. PICK q \in Seq(STRING) : e.path \o q = p
            BY <2>1, <2>3, <3>1, PrefixAndRest
        <3>3. q \in DOMAIN At(a, e.path)
            BY <2>1, <2>3, <3>2, AtPathDomain
        <3> QED
            BY <2>1, <3>2, <3>3
    <2> QED
        BY <2>2, <2>3
<1> HIDE DEF new
<1>2. DOMAIN W = (DOMAIN b \ gone) \cup UNION {new(e) : e \in C}
    BY DEF Replay, new
<1>3. ASSUME NEW p, \E e \in C : IsPrefix(e.path, p)
      PROVE  (p \in DOMAIN W <=> p \in DOMAIN a) /\ (p \in DOMAIN a => W[p] = a[p])
    <2>1. p \in DOMAIN W <=> p \in DOMAIN a
        BY <1>1, <1>2, <1>3
    <2>2. ASSUME p \in DOMAIN a PROVE W[p] = a[p]
        <3>1. of(p) # {}
            BY <1>1, <1>3, <2>2
        <3> DEFINE e == CHOOSE e \in of(p) : TRUE
        <3>2. e \in of(p)
            BY <3>1
        <3>3. e \in C /\ IsPrefix(e.path, p)
            BY <1>1, <3>2
        <3>4. W[p] = e.after[SubSeq(p, Len(e.path) + 1, Len(p))]
            BY <1>2, <2>1, <2>2, <3>1 DEF Replay, new
        <3>5. e.path \in Seq(STRING) /\ e.after = At(a, e.path)
            BY <3>3, ChangeTyped
        <3>6. p \in Seq(STRING)
            BY <2>2
        <3>7. PICK q \in Seq(STRING) : q = SubSeq(p, Len(e.path) + 1, Len(p)) /\ e.path \o q = p
            <4> HIDE DEF e
            <4> QED
                BY <3>3, <3>5, <3>6, PrefixAndRest
        <3>8. At(a, e.path)[q] = a[p]
            <4> HIDE DEF e
            <4>1. q \in DOMAIN At(a, e.path)
                BY <2>2, <3>5, <3>7, AtPathDomain
            <4>2. At(a, e.path)[q] = a[e.path \o q]
                BY <3>5, <4>1, AtPathValue
            <4> QED
                BY <3>7, <4>2
        <3> QED
            <4> HIDE DEF e
            <4> QED
                BY <3>4, <3>5, <3>7, <3>8
    <2> QED
        BY <2>1, <2>2
<1>4. ASSUME NEW p, Shown(p), ~\E e \in C : IsPrefix(e.path, p)
      PROVE  (p \in DOMAIN W <=> p \in DOMAIN a) /\ (p \in DOMAIN a => W[p] = a[p])
    <2>1. p \in DOMAIN W <=> p \in DOMAIN b
        BY <1>1, <1>2, <1>4
    <2>2. p \in DOMAIN b <=> p \in DOMAIN a
        BY <1>4, SameWhereUnreported
    <2>3. ASSUME p \in DOMAIN a PROVE W[p] = a[p]
        <3>1. b[p] = a[p]
            BY <1>4, <2>3, SameWhereUnreported
        <3>2. of(p) = {}
            BY <1>1, <1>4
        <3>3. W[p] = b[p]
            BY <1>2, <2>1, <2>2, <2>3, <3>2 DEF Replay, new
        <3> QED
            BY <3>1, <3>3
    <2> QED
        BY <2>1, <2>2, <2>3
<1>5. \A p : Shown(p) => (p \in DOMAIN W <=> p \in DOMAIN a) /\ (p \in DOMAIN a => W[p] = a[p])
    BY <1>3, <1>4
<1> HIDE DEF W
<1>6. {p \in DOMAIN W : Shown(p)} = {p \in DOMAIN a : Shown(p)}
    BY <1>5
<1>7. Open(W) = [p \in {p \in DOMAIN W : Shown(p)} |-> W[p]] /\ Open(a) = [p \in {p \in DOMAIN a : Shown(p)} |-> a[p]]
    BY DEF Open, Shown
<1>8. Open(W) = Open(a)
    BY <1>5, <1>6, <1>7
<1> QED
    BY <1>8 DEF W

-----------------------------------------------------------------------------
(* The paths of a normalised and of a redacted value are paths. *)
LEMMA PartIsFinite ==
    ASSUME NEW m \in Nat, NEW K \in SUBSET (1..m) PROVE IsFiniteSet(K) /\ Cardinality(K) \in Nat
<1>1. IsFiniteSet(1..m)
    BY FS_Interval
<1>2. IsFiniteSet(K)
    BY <1>1, FS_Subset
<1> QED
    BY <1>2, FS_CardinalityType

LEMMA NthExists ==
    ASSUME NEW m \in Nat, NEW K \in SUBSET (1..m), NEW n \in 1..Cardinality(K)
    PROVE  \E i \in K : Cardinality({j \in K : j <= i}) = n
<1> DEFINE upto(i) == {j \in K : j <= i}
           S == {i \in 0..m : Cardinality(upto(i)) >= n}
<1>1. IsFiniteSet(K) /\ Cardinality(K) \in Nat
    BY PartIsFinite
<1>2. ASSUME NEW i PROVE IsFiniteSet(upto(i)) /\ Cardinality(upto(i)) \in Nat
    <2>1. upto(i) \in SUBSET K
        OBVIOUS
    <2> HIDE DEF upto
    <2>2. IsFiniteSet(upto(i))
        BY <1>1, <2>1, FS_Subset
    <2> QED
        BY <2>2, FS_CardinalityType
<1>0. \A j \in K : j \in Nat /\ 1 <= j /\ j <= m
    OBVIOUS
<1>3. upto(m) = K /\ upto(0) = {}
    <2>1. \A j \in K : j <= m /\ ~(j <= 0)
        BY <1>0
    <2> QED
        BY <2>1
<1>4. S \subseteq Nat /\ S # {}
    <2>1. Cardinality(upto(m)) >= n
        BY <1>1, <1>3
    <2> HIDE DEF upto
    <2> QED
        BY <2>1
<1>5. PICK x \in S : \A y \in S : x <= y
    <2> HIDE DEF S
    <2> QED
        BY <1>4, LeastElement
<1>6. x \in 0..m /\ Cardinality(upto(x)) >= n
    BY <1>5
<1>7. x # 0
    <2>1. Cardinality(upto(0)) = 0
        BY <1>3, FS_EmptySet
    <2> HIDE DEF upto
    <2> QED
        BY <1>1, <1>6, <2>1
<1>8. x - 1 \in 0..m /\ x - 1 \notin S
    <2> HIDE DEF S
    <2>1. x - 1 \in 0..m /\ ~(x <= x - 1)
        BY <1>6, <1>7
    <2> QED
        BY <1>5, <2>1
<1>9. Cardinality(upto(x - 1)) < n
    <2>1. ~(Cardinality(upto(x - 1)) >= n)
        BY <1>8
    <2> HIDE DEF upto
    <2> QED
        BY <1>1, <1>2, <2>1
<1>10. x \in K
    <2> SUFFICES ASSUME x \notin K PROVE FALSE
        OBVIOUS
    <2>1. upto(x) = upto(x - 1)
        <3>1. \A j \in K : j <= x <=> j <= x - 1
            BY <1>0, <1>6
        <3> QED
            BY <3>1
    <2> HIDE DEF upto
    <2> QED
        BY <1>1, <1>2, <1>6, <1>9, <2>1
<1>11. upto(x) = upto(x - 1) \cup {x} /\ x \notin upto(x - 1)
    <2>1. \A j \in K : j <= x <=> (j <= x - 1 \/ j = x)
        BY <1>0, <1>6
    <2>2. ~(x <= x - 1)
        BY <1>6
    <2> QED
        BY <1>10, <2>1, <2>2
<1>12. Cardinality(upto(x)) = Cardinality(upto(x - 1)) + 1
    <2> HIDE DEF upto
    <2> QED
        BY <1>2, <1>11, FS_AddElement
<1>13. Cardinality(upto(x)) = n
    <2> HIDE DEF upto
    <2> QED
        BY <1>1, <1>2, <1>6, <1>9, <1>12
<1> QED
    BY <1>10, <1>13

(* The place of a kept position among the kept ones. *)
Rank(K, i) == Cardinality({j \in K : j <= i})

LEMMA OnlyPlace ==
    ASSUME NEW m \in Nat, NEW K \in SUBSET (1..m), NEW s, NEW n \in 1..Cardinality(K)
    PROVE  \E i \in K : Only(s, K)[n] = s[i] /\ Rank(K, i) = n
<1> DEFINE nth == CHOOSE i \in K : Cardinality({j \in K : j <= i}) = n
<1>1. \E i \in K : Cardinality({j \in K : j <= i}) = n
    BY NthExists
<1>2. nth \in K /\ Cardinality({j \in K : j <= nth}) = n
    BY <1>1
<1>3. Only(s, K)[n] = s[nth]
    BY DEF Only
<1> HIDE DEF nth
<1> QED
    BY <1>2, <1>3 DEF Rank

LEMMA OnlyProperties ==
    ASSUME NEW S, NEW m \in Nat, NEW K \in SUBSET (1..m), NEW s, \A i \in K : s[i] \in S
    PROVE  Cardinality(K) \in Nat /\ Only(s, K) \in Seq(S) /\ DOMAIN Only(s, K) = 1..Cardinality(K)
<1>1. Cardinality(K) \in Nat
    BY PartIsFinite
<1>2. DOMAIN Only(s, K) = 1..Cardinality(K)
    BY DEF Only
<1>3. Only(s, K) = [n \in 1..Cardinality(K) |-> Only(s, K)[n]]
    BY DEF Only
<1>4. ASSUME NEW n \in 1..Cardinality(K) PROVE Only(s, K)[n] \in S
    <2>1. \E i \in K : Only(s, K)[n] = s[i]
        BY OnlyPlace
    <2> QED
        BY <2>1
<1>5. Only(s, K) \in [1..Cardinality(K) -> S]
    BY <1>3, <1>4
<1>6. Only(s, K) \in Seq(S)
    BY <1>1, <1>5, FunctionIsSeq
<1> QED
    BY <1>1, <1>2, <1>6

LEMMA NormPathTyped ==
    ASSUME NEW p \in Seq(STRING) PROVE NormPath(p) \in Seq(STRING)
<1> DEFINE renamed == [i \in DOMAIN p |-> IF p[i] = "_id" /\ ~Lifted(p, i) THEN "id" ELSE p[i]]
           kept == {i \in DOMAIN p : p[i] # "_"}
<1>1. Len(p) \in Nat /\ DOMAIN p = 1..Len(p) /\ \A i \in DOMAIN p : p[i] \in STRING
    BY LenProperties, ElementOfSeq
<1>2. \A i \in DOMAIN p : renamed[i] \in STRING
    BY <1>1, LiteralsAssumption
<1>3. kept \in SUBSET (1..Len(p)) /\ \A i \in kept : renamed[i] \in STRING
    <2> HIDE DEF renamed
    <2> QED
        BY <1>1, <1>2
<1>4. Only(renamed, kept) \in Seq(STRING)
    <2> HIDE DEF renamed, kept
    <2> QED
        BY <1>1, <1>3, OnlyProperties
<1> QED
    BY <1>4 DEF NormPath

LEMMA NormalProperties ==
    ASSUME NEW v, DOMAIN v \subseteq Seq(STRING), NEW n \in normalizeAuditValue(v)
    PROVE  /\ DOMAIN n \subseteq Seq(STRING)
           /\ \A q \in DOMAIN n : \E p \in DOMAIN v : n[q] = v[p]
<1> DEFINE Q == {NormPath(p) : p \in NormPaths(v)}
<1>1. PICK last \in [Colliding(v) -> NormPaths(v)] :
         n = Normal(v, last) /\ \A q \in Colliding(v) : last[q] \in Sources(v, q)
    BY DEF normalizeAuditValue
<1>2. NormPaths(v) \subseteq DOMAIN v
    BY DEF NormPaths
<1>3. DOMAIN n = Q
    BY <1>1 DEF Normal
<1>4. Q \subseteq Seq(STRING)
    <2> SUFFICES ASSUME NEW q \in Q PROVE q \in Seq(STRING)
        OBVIOUS
    <2>1. PICK p \in NormPaths(v) : q = NormPath(p)
        OBVIOUS
    <2>2. p \in Seq(STRING)
        BY <1>2
    <2> QED
        BY <2>1, <2>2, NormPathTyped
<1>5. ASSUME NEW q \in Q PROVE \E p \in DOMAIN v : n[q] = v[p]
    <2>1. (CHOOSE p \in Sources(v, q) : TRUE) \in Sources(v, q)
        BY DEF Sources
    <2>2. \A p \in Sources(v, q) : p \in DOMAIN v
        BY <1>2 DEF Sources
    <2>3. n[q] = v[IF q \in Colliding(v) THEN last[q] ELSE CHOOSE p \in Sources(v, q) : TRUE]
        BY <1>1 DEF Normal
    <2> QED
        BY <1>1, <2>1, <2>2, <2>3
<1> QED
    BY <1>3, <1>4, <1>5

(* RedactJSON at a path, and what it takes for a path to be redacted. *)
Secret(p) == \E i \in DOMAIN p : p[i] \in sensitiveBodyKeys
Ends(p) == p # <<>> /\ Last(p) \in sensitiveBodyKeys

LEMMA StarsKeep ==
    ASSUME NEW p \in Seq(STRING)
    PROVE  /\ Stars(p) \in Seq(STRING)
           /\ ~Secret(p) => Stars(p) = p /\ ~Ends(p)
           /\ Secret(p) => /\ Ends(Stars(p))
                           /\ \E i \in DOMAIN Stars(p), j \in DOMAIN p :
                                 Stars(p)[i] = p[j] /\ p[j] \in sensitiveBodyKeys
           /\ p # <<>> => Stars(p) # <<>> /\ Stars(p)[1] = p[1]
<1>0. Len(p) \in Nat /\ DOMAIN p = 1..Len(p)
    BY LenProperties
<1>1. CASE ~Secret(p)
    <2>1. \A i \in DOMAIN p : p[i] \notin sensitiveBodyKeys
        BY <1>1 DEF Secret
    <2>2. Stars(p) = p
        BY <2>1 DEF Stars
    <2>3. ~Ends(p)
        BY <1>0, <2>1 DEF Ends, Last
    <2> QED
        BY <1>1, <2>2, <2>3
<1>2. CASE Secret(p)
    <2> DEFINE hide == {i \in DOMAIN p : p[i] \in sensitiveBodyKeys}
               First(i) == /\ p[i] \in sensitiveBodyKeys
                           /\ \A j \in 1..(i - 1) : p[j] \notin sensitiveBodyKeys
    <2>1. hide \subseteq Nat /\ hide # {}
        BY <1>0, <1>2 DEF Secret
    <2>2. PICK x \in hide : \A y \in hide : x <= y
        <3> HIDE DEF hide
        <3> QED
            BY <2>1, LeastElement
    <2>3. x \in DOMAIN p /\ First(x)
        <3>1. ASSUME NEW j \in 1..(x - 1) PROVE j \in DOMAIN p /\ ~(x <= j)
            BY <1>0
        <3> QED
            BY <2>2, <3>1
    <2>4. PICK i \in DOMAIN p : First(i) /\ Stars(p) = SubSeq(p, 1, i)
        <3>1. (CHOOSE i \in DOMAIN p : First(i)) \in DOMAIN p /\ First(CHOOSE i \in DOMAIN p : First(i))
            <4> HIDE DEF First
            <4> QED
                BY <2>3
        <3>2. Stars(p) = SubSeq(p, 1, CHOOSE i \in DOMAIN p : First(i))
            BY <1>2 DEF Stars, Secret
        <3> QED
            BY <3>1, <3>2
    <2>5. i \in 0..Len(p) /\ i \in 1..Len(p) /\ i \in 1..i /\ 1 \in 1..i
        BY <1>0, <2>4
    <2>6. Stars(p) \in Seq(STRING) /\ Len(Stars(p)) = i
        BY <2>4, <2>5, PrefixTyped
    <2>7. Stars(p)[i] = p[i] /\ Stars(p)[1] = p[1]
        BY <2>4, <2>5
    <2>8. i \in DOMAIN Stars(p) /\ Stars(p) # <<>>
        BY <2>5, <2>6
    <2>9. Ends(Stars(p))
        BY <2>4, <2>6, <2>7, <2>8 DEF Ends, Last
    <2> QED
        BY <1>2, <2>4, <2>6, <2>7, <2>8, <2>9
<1> QED
    BY <1>1, <1>2

LEMMA StarsProperties ==
    ASSUME NEW p \in Seq(STRING)
    PROVE  /\ Stars(p) \in Seq(STRING)
           /\ \/ Stars(p) = p /\ \A i \in DOMAIN p : p[i] \notin sensitiveBodyKeys
              \/ Stars(p) # <<>> /\ Last(Stars(p)) \in sensitiveBodyKeys
BY StarsKeep DEF Secret, Ends

-----------------------------------------------------------------------------
(* What a row's After is made of. *)
LEMMA AfterPaths ==
    ASSUME TypeInv, NEW r \in Req, NEW v \in After(r) PROVE DOMAIN v \subseteq Seq(STRING)
<1>1. CASE v = RedactJSON(ctx[r].payload)
    <2>1. DOMAIN ctx[r].payload \subseteq Seq(STRING)
        BY ContextTyped, ValueIsValue DEF IsValue
    <2>2. DOMAIN v = {Stars(q) : q \in DOMAIN ctx[r].payload}
        BY <1>1 DEF RedactJSON
    <2>3. \A q \in DOMAIN ctx[r].payload : Stars(q) \in Seq(STRING)
        BY <2>1, StarsProperties
    <2> QED
        BY <2>2, <2>3
<1>2. CASE v = Text("cut")
    <2>1. DOMAIN v = {<<>>} /\ <<>> \in Seq(STRING)
        BY <1>2 DEF Text
    <2> QED
        BY <2>1
<1> QED
    BY <1>1, <1>2 DEF After

LEMMA FirstChangesOf ==
    ASSUME NEW all, NEW C \in FirstChanges(all)
    PROVE  C \subseteq all /\ (Cardinality(C) < MaxChanges => C = all)
<1>1. CASE C \in kSubset(MaxChanges, all)
    <2>1. C \subseteq all /\ Cardinality(C) = MaxChanges
        BY <1>1 DEF kSubset
    <2>2. ~(MaxChanges < MaxChanges)
        BY DiffAssumption
    <2> QED
        BY <2>1, <2>2
<1>2. CASE C = all
    BY <1>2
<1> QED
    BY <1>1, <1>2 DEF FirstChanges

LEMMA SideOfDiff ==
    ASSUME NEW C
    PROVE  \/ Envelope(C) = Side("diff", Nil, C)
           \/ Envelope(C).is # "diff" /\ Envelope(C).value = Nil /\ Envelope(C).changes = {}
BY DEF Envelope, Side, Nothing

LEMMA SideOfValue ==
    ASSUME NEW v
    PROVE  /\ truncateAuditBytes(v).is # "diff" /\ truncateAuditBytes(v).changes = {}
           /\ truncateAuditBytes(v).value \in {Nil, v}
BY DEF truncateAuditBytes, Side, Nothing

LEMMA AfterSide ==
    ASSUME NEW act, NEW before, NEW after, NEW sides \in CompressAuditBodies(act, before, after)
    PROVE  \/ /\ sides[2].is = "diff" /\ sides[2].value = Nil
              /\ \E b \in normalizeAuditValue(before), a \in normalizeAuditValue(after) :
                    sides[2].changes \in FirstChanges(diffAuditValue(b, a))
           \/ /\ sides[2].is # "diff" /\ sides[2].changes = {}
              /\ sides[2].value \in {Nil, after, compactAuditSummary(after)}
<1>1. Nothing.is # "diff" /\ Nothing.changes = {} /\ Nothing.value = Nil
    BY DEF Nothing, Side
<1>2. CASE act = "update"
    <2>1. PICK C \in DiffAuditJSON(before, after) : sides = <<Nothing, Envelope(C)>>
        BY <1>2 DEF CompressAuditBodies
    <2>2. PICK b \in normalizeAuditValue(before), a \in normalizeAuditValue(after) :
             C \in FirstChanges(diffAuditValue(b, a))
        BY <2>1 DEF DiffAuditJSON
    <2>3. sides[2] = Envelope(C)
        BY <2>1
    <2>4. CASE Envelope(C) = Side("diff", Nil, C)
        <3>1. sides[2].is = "diff" /\ sides[2].value = Nil /\ sides[2].changes = C
            BY <2>3, <2>4 DEF Side
        <3> QED
            BY <2>2, <3>1
    <2>5. CASE Envelope(C).is # "diff" /\ Envelope(C).value = Nil /\ Envelope(C).changes = {}
        BY <2>3, <2>5
    <2> QED
        BY <2>4, <2>5, SideOfDiff
<1>3. CASE act # "update"
    <2>1. sides[2] \in {Nothing, truncateAuditBytes(after), truncateAuditBytes(compactAuditSummary(after))}
        BY <1>3 DEF CompressAuditBodies
    <2> QED
        BY <1>1, <2>1, SideOfValue
<1> QED
    BY <1>2, <1>3

(* A diff that is whole gives the redacted body back (DiffAuditJSON): the   *)
(* walk stops at no path that holds a difference without reporting it.      *)
THEOREM DiffsReplay == Spec => []DiffReplays
<1>1. IInv => DiffReplays
    <2> SUFFICES ASSUME IInv, NEW r \in Req, AllChanges(r)
                 PROVE  \E b \in normalizeAuditValue(ctx[r].before), v \in After(r) :
                           \E a \in normalizeAuditValue(v) :
                              Open(Replay(b, row[r].after.changes)) = Open(a)
        BY DEF DiffReplays
    <2>1. PICK after \in After(r) : \E sides \in CompressAuditBodies(action(r), ctx[r].before, after) :
             row[r] = RowFrom(r, after, sides)
        BY SavedRow DEF AllChanges
    <2>2. PICK sides \in CompressAuditBodies(action(r), ctx[r].before, after) :
             row[r] = RowFrom(r, after, sides)
        BY <2>1
    <2>3. row[r].after = sides[2]
        BY <2>2 DEF RowFrom
    <2>4. sides[2].is = "diff" /\ Cardinality(sides[2].changes) < MaxChanges
        BY <2>3 DEF AllChanges, ParseAuditDiffAfter
    <2>5. PICK b \in normalizeAuditValue(ctx[r].before), a \in normalizeAuditValue(after) :
             sides[2].changes \in FirstChanges(diffAuditValue(b, a))
        BY <2>2, <2>4, AfterSide
    <2>6. sides[2].changes = diffAuditValue(b, a)
        BY <2>4, <2>5, FirstChangesOf
    <2>7. DOMAIN b \subseteq Seq(STRING)
        <3>1. DOMAIN ctx[r].before \subseteq Seq(STRING)
            BY ContextTyped, ValueIsValue DEF IInv, IsValue
        <3> QED
            BY <3>1, NormalProperties
    <2>8. DOMAIN a \subseteq Seq(STRING)
        <3>1. DOMAIN after \subseteq Seq(STRING)
            BY AfterPaths DEF IInv
        <3> QED
            BY <3>1, NormalProperties
    <2>9. Open(Replay(b, row[r].after.changes)) = Open(a)
        BY <2>3, <2>6, <2>7, <2>8, DiffIsComplete
    <2> QED
        BY <2>9
<1> QED
    BY <1>1, OperateLogInvariant, PTL

-----------------------------------------------------------------------------
(* What is secret in a body is in no redacted body, so in no summary and in *)
(* no change of a diff.                                                     *)
Clean(v) == \A p \in DOMAIN v : v[p] \notin Secrets

LEMMA AfterIsClean ==
    ASSUME TypeInv, NEW r \in Req, ctx[r].ask \in Asks[r], ctx[r].payload = ctx[r].ask.body,
           NEW v \in After(r)
    PROVE  Clean(v)
<1> DEFINE body == ctx[r].ask.body
<1>1. DOMAIN body \subseteq Seq(STRING)
    BY AskTyped, ValueIsValue DEF IsValue
<1>2. "***" \notin Secrets /\ "cut" \notin Secrets
    BY SecretsAssumption
<1>3. CASE v = Text("cut")
    BY <1>2, <1>3 DEF Text, Clean
<1>4. CASE v = RedactJSON(body)
    <2> SUFFICES ASSUME NEW p \in DOMAIN v PROVE v[p] \notin Secrets
        BY DEF Clean
    <2>1. PICK q \in DOMAIN body : p = Stars(q)
        BY <1>4 DEF RedactJSON
    <2>2. q \in Seq(STRING)
        BY <1>1
    <2>3. v[p] = IF p # <<>> /\ Last(p) \in sensitiveBodyKeys THEN "***" ELSE body[p]
        BY <1>4, <2>1 DEF RedactJSON
    <2>4. CASE Stars(q) = q /\ \A i \in DOMAIN q : q[i] \notin sensitiveBodyKeys
        <3>1. body[q] \notin Secrets
            BY <2>4, SecretsAssumption
        <3> QED
            BY <1>2, <2>1, <2>3, <2>4, <3>1
    <2>5. CASE Stars(q) # <<>> /\ Last(Stars(q)) \in sensitiveBodyKeys
        BY <1>2, <2>1, <2>3, <2>5
    <2> QED
        BY <2>2, <2>4, <2>5, StarsProperties
<1> QED
    BY <1>3, <1>4 DEF After

LEMMA SummaryIsClean == ASSUME NEW v, Clean(v) PROVE Clean(compactAuditSummary(v))
BY DEF Clean, compactAuditSummary

LEMMA ChangesAreClean ==
    ASSUME NEW before, NEW after, DOMAIN before \subseteq Seq(STRING), DOMAIN after \subseteq Seq(STRING),
           Clean(after), NEW b \in normalizeAuditValue(before), NEW a \in normalizeAuditValue(after),
           NEW e \in diffAuditValue(b, a)
    PROVE  Clean(e.after)
<1>1. DOMAIN b \subseteq Seq(STRING) /\ DOMAIN a \subseteq Seq(STRING)
    BY NormalProperties
<1>2. e.path \in Seq(STRING) /\ e.after = At(a, e.path)
    BY <1>1, ChangeTyped
<1>3. Clean(a)
    BY NormalProperties DEF Clean
<1>4. ASSUME NEW q \in DOMAIN At(a, e.path) PROVE At(a, e.path)[q] \notin Secrets
    <2>1. e.path \o q \in DOMAIN a /\ At(a, e.path)[q] = a[e.path \o q]
        BY <1>1, <1>2, AtProperties
    <2> QED
        BY <1>3, <2>1 DEF Clean
<1> QED
    BY <1>2, <1>4 DEF Clean

(* No row keeps what a captured body held below a sensitive key (RedactJSON *)
(* before CompressAuditBodies), in its value or in its diff.                *)
THEOREM RowsHideSecrets == Spec => []SecretsStayOut
<1>1. IInv => SecretsStayOut
    <2> SUFFICES ASSUME IInv, NEW r \in Req, Saved(r), ctx[r].payload = ctx[r].ask.body
                 PROVE  /\ Clean(row[r].after.value)
                        /\ \A e \in row[r].after.changes : Clean(e.after)
        BY DEF SecretsStayOut, Clean
    <2>1. ctx[r].ask \in Asks[r]
        BY SavedRow
    <2>2. PICK after \in After(r) : \E sides \in CompressAuditBodies(action(r), ctx[r].before, after) :
             row[r] = RowFrom(r, after, sides)
        BY SavedRow
    <2>3. PICK sides \in CompressAuditBodies(action(r), ctx[r].before, after) :
             row[r] = RowFrom(r, after, sides)
        BY <2>2
    <2>4. row[r].after = sides[2]
        BY <2>3 DEF RowFrom
    <2>5. Clean(after) /\ DOMAIN after \subseteq Seq(STRING)
        BY <2>1, AfterIsClean, AfterPaths DEF IInv
    <2>6. Clean(Nil)
        BY DEF Clean, Nil
    <2>7. CASE /\ sides[2].is = "diff" /\ sides[2].value = Nil
               /\ \E b \in normalizeAuditValue(ctx[r].before), a \in normalizeAuditValue(after) :
                     sides[2].changes \in FirstChanges(diffAuditValue(b, a))
        <3>1. PICK b \in normalizeAuditValue(ctx[r].before), a \in normalizeAuditValue(after) :
                 sides[2].changes \in FirstChanges(diffAuditValue(b, a))
            BY <2>7
        <3>2. sides[2].changes \subseteq diffAuditValue(b, a)
            BY <3>1, FirstChangesOf
        <3>3. DOMAIN ctx[r].before \subseteq Seq(STRING)
            BY ContextTyped, ValueIsValue DEF IInv, IsValue
        <3>4. \A e \in diffAuditValue(b, a) : Clean(e.after)
            BY <2>5, <3>3, ChangesAreClean
        <3> QED
            BY <2>4, <2>6, <2>7, <3>2, <3>4
    <2>8. CASE /\ sides[2].changes = {}
               /\ sides[2].value \in {Nil, after, compactAuditSummary(after)}
        BY <2>4, <2>5, <2>6, <2>8, SummaryIsClean
    <2> QED
        BY <2>3, <2>7, <2>8, AfterSide
<1> QED
    BY <1>1, OperateLogInvariant, PTL

-----------------------------------------------------------------------------
(* Which rule is found first (collectionFor) after Register has dropped the *)
(* blank ones.                                                              *)
LEMMA RankProperties ==
    ASSUME NEW m \in Nat, NEW K \in SUBSET (1..m), NEW i \in K, NEW j \in K
    PROVE  /\ Rank(K, i) \in 1..Cardinality(K) /\ (i <= j => Rank(K, i) <= Rank(K, j))
           /\ (i < j => Rank(K, i) # Rank(K, j))
<1> DEFINE upto(k) == {x \in K : x <= k}
<1>1. i \in Nat /\ j \in Nat /\ \A x \in K : x \in Nat
    OBVIOUS
<1>2. IsFiniteSet(K) /\ Cardinality(K) \in Nat
    BY PartIsFinite
<1>3. upto(i) \in SUBSET K /\ upto(j) \in SUBSET K /\ i \in upto(i) /\ j \in upto(j)
    BY <1>1
<1>4. i <= j => upto(i) \in SUBSET upto(j)
    <2> SUFFICES ASSUME i <= j, NEW x \in K, x <= i PROVE x <= j
        OBVIOUS
    <2>1. x \in Nat
        BY <1>1
    <2> QED
        BY <1>1, <2>1
<1>5. i < j => j \notin upto(i)
    BY <1>1
<1> HIDE DEF upto
<1>6. IsFiniteSet(upto(i)) /\ IsFiniteSet(upto(j)) /\ Cardinality(upto(i)) <= Cardinality(K)
    BY <1>2, <1>3, FS_Subset
<1>7. Cardinality(upto(i)) \in Nat /\ Cardinality(upto(j)) \in Nat
    BY <1>6, FS_CardinalityType
<1>8. Cardinality(upto(i)) # 0
    BY <1>3, <1>6, FS_EmptySet
<1>9. i <= j => Cardinality(upto(i)) <= Cardinality(upto(j))
    BY <1>4, <1>6, FS_Subset
<1>10. i < j => Cardinality(upto(i)) # Cardinality(upto(j))
    <2> SUFFICES ASSUME i < j, Cardinality(upto(j)) = Cardinality(upto(i)) PROVE FALSE
        OBVIOUS
    <2>1. upto(i) \in SUBSET upto(j)
        BY <1>1, <1>4
    <2>2. upto(j) = upto(i)
        BY <1>6, <2>1, FS_Subset
    <2> QED
        BY <1>3, <1>5, <2>2
<1>11. Cardinality(upto(i)) \in 1..Cardinality(K)
    BY <1>2, <1>6, <1>7, <1>8
<1> QED
    BY <1>9, <1>10, <1>11 DEF upto, Rank

(* The positions of these that hold a member of X. *)
Holding(s, K, X) == {i \in K : s[i] \in X}

LEMMA OnlyFirst ==
    ASSUME NEW m \in Nat, NEW K \in SUBSET (1..m), NEW s, NEW X
    PROVE  Holding(s, K, X) # {} =>
              /\ Holding(Only(s, K), 1..Cardinality(K), X) # {}
              /\ Only(s, K)[Min(Holding(Only(s, K), 1..Cardinality(K), X))] = s[Min(Holding(s, K, X))]
<1>1. /\ Cardinality(K) \in Nat
      /\ \A n \in 1..Cardinality(K) : \E i \in K : Only(s, K)[n] = s[i] /\ Rank(K, i) = n
    <2>1. Cardinality(K) \in Nat
        BY PartIsFinite
    <2>2. ASSUME NEW n \in 1..Cardinality(K)
          PROVE  \E i \in K : Only(s, K)[n] = s[i] /\ Rank(K, i) = n
        BY OnlyPlace
    <2> QED
        BY <2>1, <2>2
<1> SUFFICES ASSUME NEW H, H = {i \in K : s[i] \in X}, H # {},
                    NEW N, N = {n \in 1..Cardinality(K) : Only(s, K)[n] \in X}
             PROVE  N # {} /\ Only(s, K)[Min(N)] = s[Min(H)]
    BY DEF Holding
<1>0. \A i \in K : i \in Nat
    OBVIOUS
<1>2. H \subseteq Nat /\ H \subseteq K /\ \A i \in K : i \in Nat
    BY <1>0
<1>3. PICK j \in K : j = Min(H) /\ j \in H /\ \A i \in H : j <= i
    BY <1>2, MinIsLeast
<1>4. /\ Rank(K, j) \in 1..Cardinality(K)
      /\ \A i \in K : (j <= i => Rank(K, j) <= Rank(K, i)) /\ (Rank(K, i) = Rank(K, j) => i = j)
    <2>1. Rank(K, j) \in 1..Cardinality(K)
        BY RankProperties
    <2>2. ASSUME NEW i \in K PROVE j <= i => Rank(K, j) <= Rank(K, i)
        BY RankProperties
    <2>3. ASSUME NEW i \in K, Rank(K, i) = Rank(K, j) PROVE i = j
        <3>1. ~(i < j) /\ ~(j < i)
            BY <2>3, RankProperties
        <3> QED
            BY <1>2, <3>1
    <2> QED
        BY <2>1, <2>2, <2>3
<1>5. Only(s, K)[Rank(K, j)] = s[j]
    BY <1>1, <1>4
<1>6. Rank(K, j) \in N
    BY <1>3, <1>4, <1>5
<1>7. ASSUME NEW n \in N PROVE Rank(K, j) <= n
    <2>1. PICK i \in K : Only(s, K)[n] = s[i] /\ Rank(K, i) = n
        BY <1>1
    <2>2. i \in H
        BY <2>1
    <2> QED
        BY <1>3, <1>4, <2>1, <2>2
<1>8. N \subseteq Nat
    BY <1>1
<1>9. Min(N) \in N /\ Min(N) <= Rank(K, j)
    BY <1>6, <1>8, MinIsLeast
<1>10. Min(N) = Rank(K, j)
    BY <1>6, <1>7, <1>8, <1>9
<1> QED
    BY <1>3, <1>5, <1>6, <1>10

LEMMA SetToSeqsOnto ==
    ASSUME NEW S, IsFiniteSet(S), NEW f \in SetToSeqs(S)
    PROVE  /\ f \in Seq(S) /\ \A x \in S : \E k \in 1..Len(f) : f[k] = x
<1> DEFINE D == 1..Cardinality(S)
<1>1. Cardinality(S) \in Nat
    BY FS_CardinalityType
<1>2. f \in [D -> S] /\ \A i, j \in D : i # j => f[i] # f[j]
    BY DEF SetToSeqs
<1>3. IsFiniteSet(D) /\ Cardinality(D) = Cardinality(S)
    BY <1>1, FS_Interval
<1>4. f \in Injection(D, S)
    <2> HIDE DEF D
    <2> QED
        BY <1>2 DEF Injection, IsInjective
<1>5. f \in Surjection(D, S)
    <2> HIDE DEF D
    <2> QED
        BY <1>3, <1>4, FS_Injection
<1>6. \A x \in S : \E k \in D : f[k] = x
    <2> HIDE DEF D
    <2> QED
        BY <1>5 DEF Surjection
<1>7. f \in Seq(S) /\ Len(f) = Cardinality(S)
    BY <1>1, <1>2, FunctionIsSeq
<1> QED
    BY <1>6, <1>7

(* Registry.pairs never changes. *)
PairsInv == \E more \in SetToSeqs(MapRules) : pairs = Registered(Rules \o more)

LEMMA OwnRuleIsFound ==
    ASSUME PairsInv, NEW a, OwnRuleFirst(a) PROVE collectionFor(a) = a.coll /\ a.coll # ""
<1> DEFINE R == [substr : STRING, coll : STRING]
           n == Len(Rules)
<1>1. PICK more \in SetToSeqs(MapRules) : pairs = Registered(Rules \o more)
    BY DEF PairsInv
<1>2. Rules \in Seq(R) /\ MapRules \subseteq R /\ IsFiniteSet(MapRules)
    BY RequestAssumption
<1>3. more \in Seq(MapRules) /\ \A x \in MapRules : \E k \in 1..Len(more) : more[k] = x
    BY <1>2, SetToSeqsOnto
<1> DEFINE all == Rules \o more
           m == Len(all)
           K == {i \in DOMAIN all : Registrable(all[i])}
           X == {x \in R : x.substr \in a.contains}
           H == {i \in K : all[i] \in X}
           N == {i \in 1..Cardinality(K) : Only(all, K)[i] \in X}
           byHand == {i \in DOMAIN Rules : Registrable(Rules[i]) /\ Rules[i].substr \in a.contains}
           others == {x \in MapRules : Registrable(x) /\ x.substr \in a.contains}
<1>4. /\ n \in Nat /\ Len(more) \in Nat /\ m = n + Len(more) /\ DOMAIN all = 1..m /\ DOMAIN Rules = 1..n
      /\ \A i \in 1..n : all[i] = Rules[i] /\ Rules[i] \in R
      /\ \A i \in 1..m : ~(i <= n) => i - n \in 1..Len(more) /\ all[i] = more[i - n] /\ more[i - n] \in MapRules
      /\ \A k \in 1..Len(more) : n + k \in 1..m /\ all[n + k] = more[k]
    <2> HIDE DEF R
    <2> QED
        BY <1>2, <1>3
<1>5. m \in Nat /\ K \in SUBSET (1..m) /\ \A i \in K : all[i] \in R /\ i \in Nat
    <2> HIDE DEF R, all
    <2> QED
        BY <1>2, <1>4
<1>6. pairs = Only(all, K) /\ DOMAIN pairs = 1..Cardinality(K) /\ \A i \in DOMAIN pairs : pairs[i] \in R
    <2>1. pairs = Only(all, K)
        BY <1>1 DEF Registered
    <2> HIDE DEF R, all, K
    <2>2. Only(all, K) \in Seq(R) /\ DOMAIN Only(all, K) = 1..Cardinality(K)
        BY <1>5, OnlyProperties
    <2>3. pairs \in Seq(R) /\ DOMAIN pairs = 1..Len(pairs)
        BY <2>1, <2>2
    <2> QED
        BY <2>1, <2>2, <2>3, ElementOfSeq
<1>7. RulesFor(a) = N
    <2>1. RulesFor(a) = {i \in DOMAIN pairs : pairs[i] \in X}
        <3> HIDE DEF R
        <3>1. \A i \in DOMAIN pairs : pairs[i].substr \in a.contains <=> pairs[i] \in X
            BY <1>6
        <3> HIDE DEF X
        <3> QED
            BY <3>1 DEF RulesFor
    <2> HIDE DEF R, all, K, X
    <2> QED
        BY <1>6, <2>1
<1>8. \A i \in K : i \in H <=> all[i].substr \in a.contains
    <2> HIDE DEF R, all, K
    <2> QED
        BY <1>5
<1>9. H # {} /\ all[Min(H)].coll = a.coll
    <2>1. H \subseteq Nat /\ H \subseteq K
        <3> HIDE DEF R, all, K, X
        <3> QED
            BY <1>5
    <2>2. CASE byHand # {}
        <3>1. byHand \subseteq Nat
            <4> HIDE DEF R, all, K, X
            <4> QED
                BY <1>4
        <3>2. PICK b \in byHand : b = Min(byHand) /\ \A i \in byHand : b <= i
            <4> HIDE DEF byHand
            <4> QED
                BY <2>2, <3>1, MinIsLeast
        <3>3. b \in H /\ b \in 1..n /\ Rules[b].coll = a.coll
            <4>1. b \in 1..n /\ all[b] = Rules[b] /\ Registrable(Rules[b]) /\ Rules[b].substr \in a.contains
                <5> HIDE DEF R, all, K, X
                <5> QED
                    BY <1>4
            <4>2. b \in K
                <5> HIDE DEF R, X
                <5> QED
                    BY <1>4, <4>1
            <4>3. Rules[b].coll = a.coll
                BY <2>2, <3>2 DEF OwnRuleFirst
            <4> HIDE DEF R, all, K, X, H
            <4> QED
                BY <1>8, <4>1, <4>2, <4>3
        <3>4. PICK h \in H : h = Min(H) /\ h <= b
            <4> HIDE DEF H
            <4> QED
                BY <2>1, <3>3, MinIsLeast
        <3>5. h \in byHand
            <4>1. h \in K /\ h \in 1..m /\ h <= n
                <5> HIDE DEF R, all, K, X, H
                <5> QED
                    BY <1>4, <1>5, <2>1, <3>3, <3>4
            <4>2. h \in 1..n /\ all[h] = Rules[h]
                <5> HIDE DEF R, all, K, X, H
                <5> QED
                    BY <1>4, <4>1
            <4>3. Registrable(all[h])
                BY <4>1
            <4>4. all[h].substr \in a.contains
                <5> HIDE DEF R, all, K, X, H
                <5> QED
                    BY <1>8, <3>4, <4>1
            <4> HIDE DEF R, all, K, X, H
            <4> QED
                BY <1>4, <4>2, <4>3, <4>4
        <3>6. h = b
            <4> HIDE DEF H, byHand
            <4> QED
                BY <2>1, <3>1, <3>2, <3>4, <3>5
        <3> HIDE DEF R, all, K, X, H, byHand
        <3> QED
            BY <1>4, <3>3, <3>4, <3>6
    <2>3. CASE byHand = {}
        <3>1. others # {} /\ \A x \in others : x.coll = a.coll
            BY <2>3 DEF OwnRuleFirst
        <3>2. PICK x \in MapRules : Registrable(x) /\ x.substr \in a.contains
            BY <3>1
        <3>3. PICK k \in 1..Len(more) : more[k] = x
            BY <1>3
        <3>4. n + k \in 1..m /\ all[n + k] = x
            <4> HIDE DEF all
            <4> QED
                BY <1>4, <3>3
        <3>5. n + k \in H
            <4>1. n + k \in K
                <5> HIDE DEF R, X
                <5> QED
                    BY <1>4, <3>2, <3>4
            <4> HIDE DEF R, all, K, X, H
            <4> QED
                BY <1>8, <3>2, <3>4, <4>1
        <3>6. PICK h \in H : h = Min(H)
            <4> HIDE DEF H
            <4> QED
                BY <2>1, <3>5, MinIsLeast
        <3>7. h \in 1..m /\ Registrable(all[h]) /\ all[h].substr \in a.contains
            <4>1. h \in K
                BY <2>1, <3>6
            <4>2. Registrable(all[h])
                BY <4>1
            <4> HIDE DEF R, all, K, X, H
            <4> QED
                BY <1>5, <1>8, <3>6, <4>1, <4>2
        <3>8. ~(h <= n)
            <4> SUFFICES ASSUME h <= n PROVE FALSE
                OBVIOUS
            <4>1. h \in 1..n /\ all[h] = Rules[h]
                <5> HIDE DEF R, all, K, X, H
                <5> QED
                    BY <1>4, <3>7
            <4>2. h \in byHand
                <5> HIDE DEF R, all, K, X, H
                <5> QED
                    BY <1>4, <3>7, <4>1
            <4> QED
                BY <2>3, <4>2
        <3>9. all[h] \in others
            <4> HIDE DEF R, all, K, X, H
            <4> QED
                BY <1>4, <3>7, <3>8
        <3> HIDE DEF others, all, H
        <3> QED
            BY <3>1, <3>5, <3>6, <3>9
    <2> QED
        BY <2>2, <2>3
<1>10. N # {} /\ pairs[Min(N)] = all[Min(H)]
    <2>1. N # {} /\ Only(all, K)[Min(N)] = all[Min(H)]
        <3>1. H = Holding(all, K, X) /\ N = Holding(Only(all, K), 1..Cardinality(K), X)
            BY DEF Holding
        <3> HIDE DEF R, all, K, X, H, N
        <3> QED
            BY <1>5, <1>9, <3>1, OnlyFirst
    <2> QED
        BY <1>6, <2>1
<1>11. collectionFor(a) = a.coll
    <2> HIDE DEF N, H, all
    <2> QED
        BY <1>7, <1>9, <1>10 DEF collectionFor
<1>12. a.coll # ""
    <2>1. Min(H) \in H
        <3>1. H \subseteq Nat
            <4> HIDE DEF R, all, K, X
            <4> QED
                BY <1>5
        <3> HIDE DEF H
        <3> QED
            BY <1>9, <3>1, MinIsLeast
    <2>2. Registrable(all[Min(H)])
        BY <2>1
    <2> HIDE DEF H, all
    <2> QED
        BY <1>9, <2>2 DEF Registrable
<1> QED
    BY <1>11, <1>12

(* What loadBefore makes of a document whose collection it knows. *)
ImageOf(d) ==
    IF d = Nil THEN Nil
    ELSE IF \E p \in DOMAIN d : d[p] \in Huge THEN Text(CHOOSE s \in Huge : TRUE)
    ELSE sanitizeDoc(d)

LEMMA OwnImage ==
    ASSUME PairsInv, NEW a, OwnRuleFirst(a) PROVE loadBefore(a) = ImageOf(doc)
<1>1. collectionFor(a) = a.coll /\ a.coll # ""
    BY OwnRuleIsFound
<1>2. ~(collectionFor(a) = "" \/ collectionFor(a) # a.coll)
    BY <1>1
<1> DEFINE cut == Text(CHOOSE s \in Huge : TRUE)
           long == \E p \in DOMAIN doc : doc[p] \in Huge
<1>3. loadBefore(a) = IF collectionFor(a) = "" \/ collectionFor(a) # a.coll \/ doc = Nil THEN Nil
                      ELSE IF long THEN cut ELSE sanitizeDoc(doc)
    BY DEF loadBefore
<1>4. ImageOf(doc) = IF doc = Nil THEN Nil ELSE IF long THEN cut ELSE sanitizeDoc(doc)
    BY DEF ImageOf
<1> HIDE DEF cut, long
<1>5. CASE doc = Nil
    BY <1>3, <1>4, <1>5
<1>6. CASE doc # Nil /\ long
    BY <1>2, <1>3, <1>4, <1>6
<1>7. CASE doc # Nil /\ ~long
    BY <1>2, <1>3, <1>4, <1>7
<1> QED
    BY <1>5, <1>6, <1>7

(* A chain that has ended, but for its row. *)
Done(r) == todo[r] \in {<<>>, <<"save">>}

(* What the handler leaves of the document.  As long as nobody else changed *)
(* the document, the before-image is that of the document: as it is, and    *)
(* once the handler has worked, as it was.                                  *)
ImageInv(r) ==
    /\ ctx[r].ok =>
          /\ Done(r)
          /\ ctx[r].ask.writes /\ ctx[r].ask.method = "DELETE" => ctx[r].new = Nil
          /\ ctx[r].ask.writes /\ ctx[r].ask.method \in {"PUT", "PATCH"} =>
                ctx[r].old # Nil /\ ctx[r].new = Updated(ctx[r].old, ctx[r].ask.body)
    /\ ctx[r].alone /\ OwnRuleFirst(ctx[r].ask) =>
          /\ ctx[r].ok => ctx[r].before = ImageOf(ctx[r].old)
          /\ ~Done(r) => ctx[r].before = ImageOf(doc)

LEMMA ImageKept ==
    ASSUME NEW q \in Req, ImageInv(q),
           ctx'[q].ask = ctx[q].ask, ctx'[q].ok = ctx[q].ok, ctx'[q].before = ctx[q].before,
           ctx'[q].old = ctx[q].old, ctx'[q].new = ctx[q].new,
           ctx'[q].alone => ctx[q].alone /\ doc' = doc,
           todo'[q] = todo[q] \/ todo'[q] = <<>> \/ ~Done(q)
    PROVE  ImageInv(q)'
BY DEF ImageInv, Done

LEMMA NotDone ==
    ASSUME NEW r \in Req, NEW s \in Steps, Stage(r, s) PROVE ~Done(r)
BY DEF Stage, Steps, Done

LEMMA ImageStep ==
    ASSUME IInv, PairsInv, \A q \in Req : ImageInv(q), NEW r \in Req,
           Arrive(r) \/ Capture(r) \/ CallbackAuth(r) \/ Snapshot(r) \/ Handle(r) \/ Save(r)
    PROVE  \A q \in Req : ImageInv(q)'
<1>1. TypeInv /\ ctx \in [Req -> Context] /\ DOMAIN todo = Req
    BY DEF IInv, TypeInv
<1>2. ctx[r] \in Context
    BY <1>1
<1>3. ASSUME NEW q \in Req \ {r} PROVE ImageInv(q)'
    <2>1. Untouched(q)
        BY ArriveStep, CaptureStep, CallbackAuthStep, SnapshotStep, HandleStep, SaveStep
    <2>2. SameFields(ctx[q], ctx'[q]) /\ todo'[q] = todo[q]
        BY <1>1, <2>1, UntouchedFields DEF Untouched
    <2>3. ctx'[q].alone => ctx[q].alone /\ doc' = doc
        <3>1. CASE Handle(r)
            <4>1. ctx'[q] = [ctx[q] EXCEPT !.alone = (ctx[q].alone /\ doc' = doc)]
                BY <3>1 DEF Handle
            <4>2. ctx[q] \in Context
                BY <1>1
            <4> QED
                BY <4>1, <4>2 DEF Context
        <3>2. CASE Arrive(r) \/ Capture(r) \/ CallbackAuth(r) \/ Snapshot(r) \/ Save(r)
            <4>1. doc' = doc
                BY <3>2 DEF Arrive, Capture, CallbackAuth, Snapshot, Save
            <4>2. ctx'[q] = ctx[q]
                BY <1>1, <3>2 DEF Arrive, Capture, CallbackAuth, Snapshot, Save
            <4> QED
                BY <4>1, <4>2
        <3> QED
            BY <3>1, <3>2
    <2> QED
        BY <2>2, <2>3, ImageKept DEF SameFields
<1>4. CASE Arrive(r)
    <2>1. PICK a \in Asks[r] : ctx'[r] = Fresh(a)
        BY <1>1, <1>4 DEF Arrive
    <2>2. ctx'[r].ok = FALSE /\ ctx'[r].alone = FALSE
        BY <2>1 DEF Fresh
    <2>3. ImageInv(r)'
        BY <2>2 DEF ImageInv
    <2> QED
        BY <1>3, <2>3
<1>5. CASE Capture(r)
    <2>1. ctx'[r] \in {ctx[r], readRequestBody(r)} /\ doc' = doc
        BY <1>1, <1>5 DEF Capture
    <2>2. /\ ctx'[r].ask = ctx[r].ask /\ ctx'[r].ok = ctx[r].ok /\ ctx'[r].before = ctx[r].before
          /\ ctx'[r].old = ctx[r].old /\ ctx'[r].new = ctx[r].new /\ ctx'[r].alone = ctx[r].alone
        <3>1. PICK from, upto, payload :
                 ctx'[r] \in {ctx[r], [ctx[r] EXCEPT !.rest.from = from],
                              [ctx[r] EXCEPT !.rest.upto = upto, !.rest.breaks = FALSE, !.payload = payload]}
            BY <2>1 DEF readRequestBody
        <3>2. CASE ctx'[r] = ctx[r]
            BY <3>2
        <3>3. CASE ctx'[r] = [ctx[r] EXCEPT !.rest.from = from]
            BY <1>2, <3>3 DEF Context
        <3>4. CASE ctx'[r] = [ctx[r] EXCEPT !.rest.upto = upto, !.rest.breaks = FALSE, !.payload = payload]
            BY <1>2, <3>4 DEF Context
        <3> QED
            BY <3>1, <3>2, <3>3, <3>4
    <2>3. ~Done(r)
        BY <1>5, NotDone DEF Capture, Steps
    <2> QED
        BY <1>3, <2>1, <2>2, <2>3, ImageKept
<1>6. CASE CallbackAuth(r)
    <2>1. /\ ctx'[r].ask = ctx[r].ask /\ ctx'[r].ok = ctx[r].ok /\ ctx'[r].before = ctx[r].before
          /\ ctx'[r].old = ctx[r].old /\ ctx'[r].new = ctx[r].new /\ ctx'[r].alone = ctx[r].alone
        BY <1>1, <1>2, <1>6 DEF CallbackAuth, Context
    <2>2. ~Done(r) /\ doc' = doc
        BY <1>6, NotDone DEF CallbackAuth, Steps
    <2> QED
        BY <1>3, <2>1, <2>2, ImageKept
<1>7. CASE Snapshot(r)
    <2>1. ~Done(r) /\ ~ctx[r].ok /\ doc' = doc
        BY <1>7, NotDone DEF Snapshot, Steps, ImageInv
    <2>2. CASE ctx' = [ctx EXCEPT ![r].before = loadBefore(ctx[r].ask), ![r].alone = TRUE]
        <3>1. ctx'[r].ask = ctx[r].ask /\ ctx'[r].ok = ctx[r].ok /\ ctx'[r].before = loadBefore(ctx[r].ask)
            BY <1>1, <1>2, <2>2 DEF Context
        <3>2. OwnRuleFirst(ctx'[r].ask) => ctx'[r].before = ImageOf(doc')
            BY <2>1, <3>1, OwnImage
        <3>3. ImageInv(r)'
            BY <2>1, <3>1, <3>2 DEF ImageInv
        <3> QED
            BY <1>3, <3>3
    <2>3. CASE ctx' = ctx
        BY <1>3, <2>1, <2>3, ImageKept
    <2> QED
        BY <1>7, <2>2, <2>3 DEF Snapshot
<1>8. CASE Handle(r)
    <2>1. PICK worked \in BOOLEAN, panics \in BOOLEAN :
             /\ worked => MayWork(r)
             /\ doc' = IF worked THEN Result(r) ELSE doc
             /\ ctx'[r] = [ctx[r] EXCEPT !.ok = worked /\ ~panics, !.old = doc, !.new = doc']
             /\ todo' = [todo EXCEPT ![r] = IF panics THEN <<>> ELSE Unwound(r)]
        BY <1>8 DEF Handle
    <2>2. ~Done(r) /\ ~ctx[r].ok
        BY <1>8, NotDone DEF Handle, Steps, ImageInv
    <2>3. /\ ctx'[r].ask = ctx[r].ask /\ ctx'[r].ok = (worked /\ ~panics) /\ ctx'[r].before = ctx[r].before
          /\ ctx'[r].old = doc /\ ctx'[r].new = doc' /\ ctx'[r].alone = ctx[r].alone
        BY <1>2, <2>1 DEF Context
    <2>4. Done(r)'
        BY <1>1, <2>1, UnwoundTyped DEF Done
    <2>5. ctx'[r].ok /\ ctx[r].ask.writes /\ ctx[r].ask.method = "DELETE" => doc' = Nil
        BY <2>1, <2>3 DEF Result
    <2>6. ctx'[r].ok /\ ctx[r].ask.writes /\ ctx[r].ask.method \in {"PUT", "PATCH"} =>
             doc # Nil /\ doc' = Updated(doc, ctx[r].ask.body)
        BY <2>1, <2>3 DEF Result, MayWork
    <2>7. ImageInv(r)'
        BY <2>2, <2>3, <2>4, <2>5, <2>6 DEF ImageInv
    <2> QED
        BY <1>3, <2>7
<1>9. CASE Save(r)
    <2>1. ctx' = ctx /\ doc' = doc /\ todo[r] = <<"save">>
        BY <1>9, SaveIsNext DEF Save, IInv
    <2>2. todo'[r] = <<>>
        BY <1>1, <1>9, <2>1 DEF Save, Goes
    <2> QED
        BY <1>3, <2>1, <2>2, ImageKept
<1> QED
    BY <1>4, <1>5, <1>6, <1>7, <1>8, <1>9

(* The before-image of a request nobody overtook is the document before its *)
(* handler (SnapshotMiddleware, LoadBefore), whatever its chain.            *)
THEOREM ImagesHold == Spec => [](PairsInv /\ \A r \in Req : ImageInv(r))
<1>1. Init => PairsInv /\ \A r \in Req : ImageInv(r)
    <2> SUFFICES ASSUME Init PROVE PairsInv /\ \A r \in Req : ImageInv(r)
        OBVIOUS
    <2>1. PairsInv
        BY DEF Init, PairsInv
    <2>2. \A r \in Req : ctx[r].ok = FALSE /\ ctx[r].alone = FALSE
        BY DEF Init, Fresh
    <2> QED
        BY <2>1, <2>2 DEF ImageInv
<1>2. IInv /\ (PairsInv /\ \A r \in Req : ImageInv(r)) /\ [Next]_vars => (PairsInv /\ \A r \in Req : ImageInv(r))'
    <2> SUFFICES ASSUME IInv, PairsInv, \A r \in Req : ImageInv(r), [Next]_vars
                 PROVE  PairsInv' /\ \A r \in Req : ImageInv(r)'
        OBVIOUS
    <2>1. CASE Next
        <3>1. PICK r \in Req : Arrive(r) \/ Capture(r) \/ CallbackAuth(r) \/ Snapshot(r) \/ Handle(r) \/ Save(r)
            BY <2>1 DEF Next
        <3>2. pairs' = pairs
            BY <3>1 DEF Arrive, Capture, CallbackAuth, Snapshot, Handle, Save
        <3> QED
            BY <3>1, <3>2, ImageStep DEF PairsInv
    <2>2. CASE UNCHANGED vars
        BY <2>2, ImageKept DEF vars, PairsInv
    <2> QED
        BY <2>1, <2>2
<1> QED
    BY <1>1, <1>2, OperateLogInvariant, PTL DEF Spec

(* The first that says anything, when all that come before it agree. *)
LEMMA FirstSays ==
    ASSUME NEW s, NEW n \in DOMAIN s, DOMAIN s \subseteq Nat, s[n] # "",
           \A i \in DOMAIN s : i <= n => s[i] = "" \/ s[i] = s[n]
    PROVE  firstNonEmpty(s) = s[n]
<1> DEFINE full == {i \in DOMAIN s : s[i] # ""}
<1>1. full \subseteq Nat /\ n \in full
    OBVIOUS
<1>2. Min(full) \in full /\ Min(full) <= n
    <2> HIDE DEF full
    <2> QED
        BY <1>1, MinIsLeast
<1>3. s[Min(full)] = s[n]
    BY <1>2
<1>4. full # {}
    BY <1>1
<1> QED
    BY <1>3, <1>4 DEF firstNonEmpty

LEMMA ShortTuples ==
    ASSUME NEW a, NEW b, NEW c, NEW d
    PROVE  /\ DOMAIN <<a, b>> = 1..2 /\ <<a, b>>[1] = a /\ <<a, b>>[2] = b
           /\ DOMAIN <<a, b, c>> = 1..3 /\ <<a, b, c>>[1] = a /\ <<a, b, c>>[2] = b
           /\ DOMAIN <<a, b, c, d>> = 1..4
           /\ <<a, b, c, d>>[1] = a /\ <<a, b, c, d>>[2] = b /\ <<a, b, c, d>>[3] = c
OBVIOUS

LEMMA OneToThree ==
    /\ 2 \in 1..2 /\ 2 \in 1..3 /\ 3 \in 1..4 /\ 1..2 \subseteq Nat /\ 1..3 \subseteq Nat /\ 1..4 \subseteq Nat
    /\ \A i \in 1..3 : i <= 2 => i \in {1, 2}
    /\ \A i \in 1..2 : i <= 2 => i \in {1, 2}
    /\ \A i \in 1..4 : i <= 3 => i \in {1, 2, 3}
OBVIOUS

LEMMA SecondSays ==
    ASSUME NEW s, NEW n \in {2, 3}, DOMAIN s = 1..n, s[2] # "", s[1] = "" \/ s[1] = s[2]
    PROVE  firstNonEmpty(s) = s[2]
<1>1. 2 \in DOMAIN s /\ DOMAIN s \subseteq Nat /\ \A i \in DOMAIN s : i <= 2 => i \in {1, 2}
    BY OneToThree, Zenon
<1>2. \A i \in DOMAIN s : i <= 2 => s[i] = "" \/ s[i] = s[2]
    BY <1>1, Zenon
<1> QED
    BY <1>1, <1>2, FirstSays, Zenon

LEMMA ThirdSays ==
    ASSUME NEW s, DOMAIN s = 1..4, s[3] # "", s[1] = "" \/ s[1] = s[3], s[2] = "" \/ s[2] = s[3]
    PROVE  firstNonEmpty(s) = s[3]
<1>1. 3 \in DOMAIN s /\ DOMAIN s \subseteq Nat /\ \A i \in DOMAIN s : i <= 3 => i \in {1, 2, 3}
    BY OneToThree, Zenon
<1>2. \A i \in DOMAIN s : i <= 3 => s[i] = "" \/ s[i] = s[3]
    BY <1>1, Zenon
<1> QED
    BY <1>1, <1>2, FirstSays, Zenon

LEMMA ShownField ==
    ASSUME NEW v, NEW p, \A i \in DOMAIN p : p[i] \notin {"context", "password", "passwd"}
    PROVE  Field(sanitizeDoc(v), p) = Field(v, p)
BY DEF Field, sanitizeDoc

LEMMA ShownNames ==
    ASSUME NEW v, NEW x, NEW y, {x, y} \cap {"context", "password", "passwd"} = {}
    PROVE  /\ Field(sanitizeDoc(v), <<x>>) = Field(v, <<x>>)
           /\ Field(sanitizeDoc(v), <<x, y>>) = Field(v, <<x, y>>)
<1> DEFINE hidden == {"context", "password", "passwd"}
<1>0. x \notin hidden /\ y \notin hidden
    OBVIOUS
<1> HIDE DEF hidden
<1>1. \A i \in DOMAIN <<x>> : <<x>>[i] \notin hidden
    BY <1>0
<1>2. \A i \in DOMAIN <<x, y>> : <<x, y>>[i] \notin hidden
    BY <1>0
<1> USE DEF hidden
<1> QED
    BY <1>1, <1>2, ShownField

LEMMA NilHasNoField == ASSUME NEW p PROVE Field(Nil, p) = ""
<1>1. p \notin DOMAIN Nil
    BY DEF Nil
<1> QED
    BY <1>1 DEF Field

LEMMA MerchantOfImage ==
    ASSUME NEW v, NamesOne(v, Field(v, <<"_", "merchant_id">>)),
           ~skipUsageMerchant(Field(v, <<"_", "merchant_id">>))
    PROVE  merchantFromBefore(sanitizeDoc(v)) = Field(v, <<"_", "merchant_id">>)
<1> DEFINE w == sanitizeDoc(v)
           owner == Field(v, <<"_", "merchant_id">>)
           name(p) == LET m == Field(w, p) IN IF skipUsageMerchant(m) THEN "" ELSE m
<1>1. /\ Field(w, <<"merchant_id">>) = Field(v, <<"merchant_id">>)
      /\ Field(w, <<"meta", "merchant_id">>) = Field(v, <<"meta", "merchant_id">>)
      /\ Field(w, <<"_", "merchant_id">>) = owner
    <2>1. {"meta", "merchant_id"} \cap {"context", "password", "passwd"} = {}
        OBVIOUS
    <2>2. {"merchant_id", "merchant_id"} \cap {"context", "password", "passwd"} = {}
        OBVIOUS
    <2>3. {"_", "merchant_id"} \cap {"context", "password", "passwd"} = {}
        OBVIOUS
    <2> QED
        BY <2>1, <2>2, <2>3, ShownNames
<1>2. /\ Field(v, <<"merchant_id">>) = "" \/ Field(v, <<"merchant_id">>) = owner
      /\ Field(v, <<"meta", "merchant_id">>) = "" \/ Field(v, <<"meta", "merchant_id">>) = owner
      /\ owner # ""
    BY DEF NamesOne, skipUsageMerchant
<1>3. /\ name(<<"merchant_id">>) = "" \/ name(<<"merchant_id">>) = owner
      /\ name(<<"meta", "merchant_id">>) = "" \/ name(<<"meta", "merchant_id">>) = owner
    <2> HIDE DEF w, owner
    <2> QED
        BY <1>1, <1>2
<1>4. name(<<"_", "merchant_id">>) = owner
    BY <1>1
<1> HIDE DEF name, owner, w
<1> DEFINE first == name(<<"merchant_id">>)
           second == name(<<"meta", "merchant_id">>)
           third == name(<<"_", "merchant_id">>)
           last == name(<<"_", "meta", "merchant_id">>)
<1>5. owner # "" /\ (first = "" \/ first = owner) /\ (second = "" \/ second = owner) /\ third = owner
    BY <1>2, <1>3, <1>4
<1> DEFINE s == <<first, second, third, last>>
<1>6. DOMAIN s = 1..4 /\ s[1] = first /\ s[2] = second /\ s[3] = third
    <2> HIDE DEF first, second, third, last
    <2> QED
        BY ONLY ShortTuples
<1>7. firstNonEmpty(s) = owner
    <2> HIDE DEF s, first, second, third, owner
    <2> QED
        BY <1>5, <1>6, ThirdSays, Zenon
<1> QED
    BY <1>7 DEF merchantFromBefore, name, owner, w

LEMMA BytesOfImage ==
    ASSUME NEW r \in Req, NEW size, size = Field(ctx[r].old, <<"size">>), size # "",
           ctx[r].new = Nil, ctx[r].before = sanitizeDoc(ctx[r].old)
    PROVE  usageBytes(r) = size
<1>1. Field(ctx[r].before, <<"size">>) = size
    <2>1. {"size", "size"} \cap {"context", "password", "passwd"} = {}
        OBVIOUS
    <2> QED
        BY <2>1, ShownNames
<1>2. Field(ctx[r].new, <<"size">>) = ""
    BY NilHasNoField
<1> DEFINE last == IF ctx[r].ask.units = 0 THEN "" ELSE IF ctx[r].ask.declared THEN "length" ELSE "one"
           newSize == Field(ctx[r].new, <<"size">>)
           oldSize == Field(ctx[r].old, <<"size">>)
           said == <<newSize, oldSize>>
           first == IF ctx[r].ask.sized THEN firstNonEmpty(said) ELSE ""
           image == Field(ctx[r].before, <<"size">>)
           s == <<first, image, last>>
<1>3. firstNonEmpty(said) = size
    <2>1. DOMAIN said = 1..2 /\ said[1] = newSize /\ said[2] = oldSize
        <3> HIDE DEF newSize, oldSize
        <3> QED
            BY ONLY ShortTuples
    <2>2. newSize = "" /\ oldSize = size
        BY <1>2
    <2> HIDE DEF said, newSize, oldSize
    <2>3. 2 \in {2, 3}
        OBVIOUS
    <2> QED
        BY <2>1, <2>2, <2>3, SecondSays, Zenon
<1>4. (first = "" \/ first = size) /\ image = size
    BY <1>1, <1>3
<1>5. firstNonEmpty(s) = size
    <2>1. DOMAIN s = 1..3 /\ s[1] = first /\ s[2] = image
        <3> HIDE DEF first, image, last
        <3> QED
            BY ONLY ShortTuples
    <2> HIDE DEF s, first, image
    <2>2. 3 \in {2, 3}
        OBVIOUS
    <2> QED
        BY <1>4, <2>1, <2>2, SecondSays, Zenon
<1> QED
    BY <1>5 DEF usageBytes

(* A row and an event hold what they are made of. *)
LEMMA RowFields ==
    ASSUME NEW r \in Req, NEW after, NEW sides, NEW w, w = RowFrom(r, after, sides)
    PROVE  /\ w.action = action(r) /\ w.status = ctx[r].ok /\ w.resource = resource(r)
           /\ w.merchant = merchantID(r) /\ w.usage = usageEvent(r)
BY DEF RowFrom

LEMMA EventFields ==
    ASSUME NEW kind, NEW bytes, NEW e, e = [delta |-> -1, kind |-> kind, bytes |-> bytes]
    PROVE  e.delta = -1 /\ e.kind = kind /\ e.bytes = bytes
OBVIOUS

(* A delete gives back what the create took: merchantFromBefore names the   *)
(* merchant of the document, usageBytes finds its size, and the event is -1. *)
THEOREM DeletesGiveBack == Spec => []DeleteUndoesCreate
<1>1. IInv /\ (PairsInv /\ \A r \in Req : ImageInv(r)) => DeleteUndoesCreate
    <2> SUFFICES ASSUME IInv, PairsInv, \A q \in Req : ImageInv(q), NEW r \in Req,
                        NEW owner, owner = Field(ctx[r].old, <<"_", "merchant_id">>),
                        NEW size, size = Field(ctx[r].old, <<"size">>),
                        Saved(r), row[r].action = "delete", row[r].status, ctx[r].ask.writes,
                        ImageHolds(r), ~skipUsageMerchant(owner), NamesOne(ctx[r].old, owner),
                        usageKindOf(row[r].resource) # ""
                 PROVE  /\ row[r].usage.delta = -1 /\ row[r].merchant = owner
                        /\ row[r].usage.kind = "image" /\ size # "" => row[r].usage.bytes = size
        BY DEF DeleteUndoesCreate
    <2>1. PICK after, sides : row[r] = RowFrom(r, after, sides)
        BY SavedRow
    <2>2. /\ action(r) = "delete" /\ ctx[r].ok /\ usageKindOf(resource(r)) # ""
          /\ row[r].merchant = merchantID(r) /\ row[r].usage = usageEvent(r)
        <3>1. /\ row[r].action = action(r) /\ row[r].status = ctx[r].ok /\ row[r].resource = resource(r)
              /\ row[r].merchant = merchantID(r) /\ row[r].usage = usageEvent(r)
            BY <2>1, RowFields
        <3> QED
            BY <3>1
    <2>3. ctx[r].ask.method = "DELETE"
        <3>1. ctx[r].ask.method \in {"GET", "POST", "PUT", "PATCH", "DELETE"}
            BY SavedRow, RequestAssumption DEF AskTypeOK
        <3> QED
            BY <2>2, <3>1 DEF action, ActionFromRequest, ActionFromMethod
    <2>4. ctx[r].new = Nil /\ ctx[r].before = ImageOf(ctx[r].old)
        BY <2>2, <2>3 DEF ImageInv, ImageHolds
    <2>5. ctx[r].old # Nil
        <3>1. owner # ""
            BY DEF skipUsageMerchant
        <3> QED
            BY <3>1, NilHasNoField
    <2>6. ctx[r].before = sanitizeDoc(ctx[r].old)
        BY <2>4, <2>5 DEF ImageOf, ImageHolds
    <2>7. merchantFromBefore(ctx[r].before) = owner /\ owner # ""
        BY <2>6, MerchantOfImage DEF skipUsageMerchant
    <2>8. merchantID(r) = owner
        BY <2>2, <2>7 DEF merchantID
    <2>9. usageEvent(r) = [delta |-> -1, kind |-> usageKindOf(resource(r)),
                           bytes |-> IF usageKindOf(resource(r)) = "image" THEN usageBytes(r) ELSE ""]
        BY <2>2, <2>8 DEF usageEvent
    <2>10. size # "" => usageBytes(r) = size
        BY <2>4, <2>6, BytesOfImage
    <2>11. /\ row[r].usage.delta = -1 /\ row[r].usage.kind = usageKindOf(resource(r))
           /\ row[r].usage.kind = "image" => row[r].usage.bytes = usageBytes(r)
        <3> DEFINE kind == usageKindOf(resource(r))
                   bytes == IF kind = "image" THEN usageBytes(r) ELSE ""
        <3>1. usageEvent(r) = [delta |-> -1, kind |-> kind, bytes |-> bytes]
            BY <2>9
        <3>2. kind = "image" => bytes = usageBytes(r)
            OBVIOUS
        <3> HIDE DEF kind, bytes
        <3>3. usageEvent(r).delta = -1 /\ usageEvent(r).kind = kind /\ usageEvent(r).bytes = bytes
            BY ONLY <3>1, EventFields
        <3> QED
            BY <2>2, <3>2, <3>3 DEF kind
    <2> QED
        BY <2>2, <2>8, <2>10, <2>11
<1> QED
    BY <1>1, OperateLogInvariant, ImagesHold, PTL
-----------------------------------------------------------------------------
(* The resource of a path does not depend on how the path is spelt.  What    *)
(* ClassifyPath makes of a path once version and namespace are gone:         *)
KnownClass(known) ==
    CASE known = <<>> -> otherClass
      [] known # <<>> /\ Head(known) \in pathServices -> finishClass(Head(known), Tail(known))
      [] known # <<>> /\ Head(known) \in DOMAIN orphanModules ->
             finishClass(orphanModules[Head(known)], known)
      [] OTHER -> otherClass

LEMMA IntervalSize == ASSUME NEW n \in Nat PROVE Cardinality(1..n) = n
<1>1. 1 \in Int /\ n \in Int
    OBVIOUS
<1>2. Cardinality(1..n) = IF 1 > n THEN 0 ELSE n - 1 + 1
    BY <1>1, FS_Interval
<1> QED
    BY <1>2

LEMMA OnlyInitial ==
    ASSUME NEW S, NEW t \in Seq(S), NEW s, \A i \in 1..Len(t) : s[i] = t[i]
    PROVE  Only(s, 1..Len(t)) = t
<1> DEFINE n == Len(t)
<1>1. n \in Nat /\ DOMAIN t = 1..n /\ t = [k \in 1..n |-> t[k]]
    OBVIOUS
<1>2. Cardinality(1..n) = n
    BY <1>1, IntervalSize
<1>3. DOMAIN Only(s, 1..n) = 1..n /\ Only(s, 1..n) = [k \in 1..n |-> Only(s, 1..n)[k]]
    BY <1>2 DEF Only
<1>4. ASSUME NEW k \in 1..n PROVE Only(s, 1..n)[k] = t[k]
    <2>1. PICK i \in 1..n : Only(s, 1..n)[k] = s[i] /\ Rank(1..n, i) = k
        <3>1. k \in 1..Cardinality(1..n) /\ 1..n \in SUBSET (1..n)
            BY <1>2
        <3> HIDE DEF n
        <3> QED
            BY <3>1, <1>1, OnlyPlace
    <2>2. {j \in 1..n : j <= i} = 1..i /\ i \in Nat
        BY <1>1
    <2>3. Cardinality(1..i) = i
        BY <2>2, IntervalSize
    <2>4. i = k
        BY <2>1, <2>2, <2>3 DEF Rank
    <2> QED
        BY <2>1, <2>4
<1> QED
    BY <1>1, <1>3, <1>4

LEMMA HeadAndTail ==
    ASSUME NEW S, NEW s \in Seq(S), Len(s) > 0
    PROVE  /\ s # <<>> /\ Head(s) = s[1] /\ Tail(s) \in Seq(S) /\ Len(Tail(s)) = Len(s) - 1
           /\ \A i \in 1..(Len(s) - 1) : Tail(s)[i] = s[i + 1]
<1>1. s # <<>>
    OBVIOUS
<1> QED
    BY <1>1, HeadTailProperties

LEMMA TwoFirst ==
    ASSUME NEW S, NEW t \in Seq(S), Len(t) > 1
    PROVE  t # <<>> /\ Head(t) = t[1] /\ Tail(t) # <<>> /\ Head(Tail(t)) = t[2]
<1>1. t # <<>> /\ Head(t) = t[1] /\ Tail(t) \in Seq(S) /\ Len(Tail(t)) > 0 /\ Tail(t)[1] = t[2]
    BY HeadAndTail
<1>2. Tail(t) # <<>> /\ Head(Tail(t)) = Tail(t)[1]
    BY <1>1, HeadAndTail
<1> QED
    BY <1>1, <1>2

LEMMA ClassOfKnown ==
    ASSUME NEW S, NEW t \in Seq(S), NEW s,
           DOMAIN s = 1..Len(t) \/ (DOMAIN s = 1..(Len(t) + 1) /\ s[Len(t) + 1] = ":id"),
           \A i \in 1..Len(t) : s[i] = t[i] /\ t[i] # ":id",
           Len(t) > 1, t[1] = "v1", t[2] \in pathNamespaces
    PROVE  ClassifyPath(s) = KnownClass(Tail(Tail(t)))
<1>1. Len(t) \in Nat
    OBVIOUS
<1> DEFINE kept == {i \in DOMAIN s : s[i] # ":id"}
<1>2. kept = 1..Len(t)
    BY <1>1
<1>3. Only(s, kept) = t
    <2> HIDE DEF kept
    <2> QED
        BY <1>2, OnlyInitial
<1>4. t # <<>> /\ Head(t) = "v1" /\ Tail(t) # <<>> /\ Head(Tail(t)) = t[2]
    BY TwoFirst
<1>5. pathSegments(s) = Tail(t)
    <2> HIDE DEF Only
    <2> QED
        BY <1>3, <1>4 DEF pathSegments
<1>6. ClassifyPath(s) = KnownClass(IF Tail(t) # <<>> /\ Head(Tail(t)) \in pathNamespaces THEN Tail(Tail(t)) ELSE Tail(t))
    BY <1>5 DEF ClassifyPath, KnownClass
<1> QED
    BY <1>4, <1>6

LEMMA EqualSeqs ==
    ASSUME NEW S, NEW T, NEW s \in Seq(S), NEW t \in Seq(T), Len(s) = Len(t), \A i \in 1..Len(t) : s[i] = t[i]
    PROVE  s = t
<1>1. s = [i \in 1..Len(s) |-> s[i]] /\ t = [i \in 1..Len(t) |-> t[i]]
    OBVIOUS
<1> QED
    BY <1>1

LEMMA ClassOfSpelling ==
    ASSUME NEW S, NEW k \in Seq(S), NEW s,
           \/ DOMAIN s = 1..(Len(k) + 2)
           \/ DOMAIN s = 1..(Len(k) + 3) /\ s[Len(k) + 3] = ":id",
           s[1] = "v1", s[2] \in pathNamespaces, \A i \in 1..Len(k) : s[i + 2] = k[i] /\ k[i] # ":id"
    PROVE  ClassifyPath(s) = KnownClass(k)
<1> DEFINE n == Len(k) + 2
           t == [i \in 1..n |-> s[i]]
           U == {s[i] : i \in 1..n}
<1>1. Len(k) \in Nat /\ n \in Nat /\ n > 1 /\ Len(k) + 3 = n + 1
    OBVIOUS
<1>2. t \in Seq(U) /\ Len(t) = n
    <2>1. t \in [1..n -> U]
        OBVIOUS
    <2> HIDE DEF t, U, n
    <2> QED
        BY <1>1, <2>1, FunctionIsSeq
<1>3. \A i \in 1..n : s[i] = t[i] /\ t[i] # ":id"
    <2>1. "v1" # ":id" /\ \A ns \in pathNamespaces : ns # ":id"
        BY DEF pathNamespaces
    <2>2. ASSUME NEW i \in 1..n PROVE s[i] # ":id"
        <3>1. CASE i = 1
            BY <3>1, <2>1
        <3>2. CASE i = 2
            BY <3>2, <2>1
        <3>3. CASE i \notin {1, 2}
            <4>1. i - 2 \in 1..Len(k) /\ (i - 2) + 2 = i
                BY <3>3
            <4> QED
                BY <4>1
        <3> QED
            BY <3>1, <3>2, <3>3
    <2> QED
        BY <2>2
<1>4. t[1] = "v1" /\ t[2] \in pathNamespaces
    BY <1>1
<1>5. ClassifyPath(s) = KnownClass(Tail(Tail(t)))
    <2>1. Len(t) > 1
        BY <1>1, <1>2
    <2>2. DOMAIN s = 1..Len(t) \/ (DOMAIN s = 1..(Len(t) + 1) /\ s[Len(t) + 1] = ":id")
        BY <1>1, <1>2
    <2> HIDE DEF t, U, n
    <2> QED
        BY <1>2, <1>3, <1>4, <2>1, <2>2, ClassOfKnown
<1>6. Tail(Tail(t)) = k
    <2> HIDE DEF t, U
    <2>1. Tail(t) \in Seq(U) /\ Len(Tail(t)) = n - 1 /\ \A i \in 1..(n - 1) : Tail(t)[i] = t[i + 1]
        BY <1>1, <1>2, HeadAndTail
    <2>2. /\ Tail(Tail(t)) \in Seq(U) /\ Len(Tail(Tail(t))) = n - 1 - 1
          /\ \A i \in 1..(n - 1 - 1) : Tail(Tail(t))[i] = Tail(t)[i + 1]
        <3> DEFINE u == Tail(t)
        <3>1. u \in Seq(U) /\ Len(u) = n - 1 /\ Len(u) > 0
            BY <2>1, <1>1
        <3> HIDE DEF u, n
        <3>2. /\ Tail(u) \in Seq(U) /\ Len(Tail(u)) = Len(u) - 1
              /\ \A i \in 1..(Len(u) - 1) : Tail(u)[i] = u[i + 1]
            BY <3>1, HeadAndTail
        <3>3. /\ Tail(u) \in Seq(U) /\ Len(Tail(u)) = n - 1 - 1
              /\ \A i \in 1..(n - 1 - 1) : Tail(u)[i] = u[i + 1]
            BY <3>1, <3>2
        <3> QED
            BY <3>3 DEF u
    <2>3. ASSUME NEW i \in 1..Len(k) PROVE Tail(Tail(t))[i] = k[i]
        <3>1. i \in 1..(n - 1 - 1) /\ i + 1 \in 1..(n - 1) /\ i + 2 \in 1..n /\ i + 1 + 1 = i + 2
            BY <1>1
        <3>2. Tail(Tail(t))[i] = Tail(t)[i + 1]
            BY <2>2, <3>1
        <3>3. Tail(t)[i + 1] = t[i + 2]
            BY <2>1, <3>1
        <3>4. t[i + 2] = k[i]
            BY <1>3, <3>1
        <3> QED
            BY <3>2, <3>3, <3>4
    <2>4. Len(Tail(Tail(t))) = Len(k)
        BY <1>1, <2>2
    <2> DEFINE w == Tail(Tail(t))
    <2>5. w \in Seq(U) /\ Len(w) = Len(k) /\ \A i \in 1..Len(k) : w[i] = k[i]
        BY <2>2, <2>3, <2>4
    <2> HIDE DEF w
    <2>6. w = k
        BY <2>5, EqualSeqs
    <2> QED
        BY <2>6 DEF w
<1> QED
    BY <1>5, <1>6

LEMMA PairParts ==
    ASSUME NEW S, NEW k \in Seq(S), Len(k) = 2
    PROVE  /\ k # <<>> /\ Head(k) = k[1]
           /\ Tail(k) \in Seq(S) /\ Len(Tail(k)) = 1 /\ Tail(k)[1] = k[2] /\ Tail(k) # <<>>
<1>1. Len(k) > 1
    OBVIOUS
<1>2. Tail(k) # <<>> /\ k # <<>> /\ Head(k) = k[1]
    BY <1>1, TwoFirst
<1>3. Tail(k) \in Seq(S) /\ Len(Tail(k)) = Len(k) - 1
    BY <1>1, HeadAndTail
<1>4. Tail(k)[1] = k[2]
    BY <1>1, HeadAndTail
<1> QED
    BY <1>2, <1>3, <1>4

LEMMA LeastOf ==
    ASSUME NEW S, S \subseteq Nat, NEW k \in S, \A i \in S : k <= i PROVE Min(S) = k
<1>1. S # {} /\ k \in Nat
    OBVIOUS
<1>2. Min(S) \in S /\ \A y \in S : Min(S) <= y
    BY <1>1, MinIsLeast
<1>3. Min(S) <= k /\ k <= Min(S) /\ Min(S) \in Nat
    BY <1>2
<1> QED
    BY <1>1, <1>3

LEMMA PickedFirst ==
    ASSUME NEW S, NEW rest \in Seq(S), rest # <<>>, rest[1] \notin pathPlatforms, NEW service
    PROVE  pickModule(service, rest) = aliasModule(service, rest[1])
<1> DEFINE business == {i \in DOMAIN rest : rest[i] \notin pathPlatforms}
<1>1. business \subseteq Nat /\ 1 \in business /\ \A i \in business : 1 <= i
    OBVIOUS
<1>2. Min(business) = 1 /\ business # {}
    <2> HIDE DEF business
    <2> QED
        BY <1>1, LeastOf
<1>3. pickModule(service, rest) =
        IF rest = <<>> THEN "" ELSE aliasModule(service, IF business # {} THEN rest[Min(business)] ELSE Head(rest))
    BY DEF pickModule
<1> QED
    BY <1>2, <1>3

LEMMA PickedSecond ==
    ASSUME NEW S, NEW rest \in Seq(S), Len(rest) = 2, rest[1] \in pathPlatforms,
           rest[2] \notin pathPlatforms, NEW service
    PROVE  pickModule(service, rest) = aliasModule(service, rest[2])
<1> DEFINE business == {i \in DOMAIN rest : rest[i] \notin pathPlatforms}
<1>1. business \subseteq Nat /\ 2 \in business /\ \A i \in business : 2 <= i
    OBVIOUS
<1>2. Min(business) = 2 /\ business # {}
    <2> HIDE DEF business
    <2> QED
        BY <1>1, LeastOf
<1>3. pickModule(service, rest) =
        IF rest = <<>> THEN "" ELSE aliasModule(service, IF business # {} THEN rest[Min(business)] ELSE Head(rest))
    BY DEF pickModule
<1>4. rest # <<>>
    BY PairParts
<1> QED
    BY <1>2, <1>3, <1>4

LEMMA ContainsOne ==
    ASSUME NEW u, Len(u) = 1, NEW e PROVE Contains(u, e) <=> u[1] = e
<1>1. \A i \in 1..1 : i = 1
    OBVIOUS
<1> QED
    BY <1>1 DEF Contains

LEMMA ContainsTwo ==
    ASSUME NEW u, Len(u) = 2, NEW e PROVE Contains(u, e) <=> u[1] = e \/ u[2] = e
<1>1. \A i \in 1..2 : i = 1 \/ i = 2
    OBVIOUS
<1> QED
    BY <1>1 DEF Contains

LEMMA ServicesAreNoOrphans == \A s \in pathServices : s \notin DOMAIN orphanModules
BY DEF pathServices, orphanModules

(* A platform between a service and its module changes nothing. *)
LEMMA PlatformAside ==
    ASSUME NEW S, NEW k \in Seq(S), NEW l \in Seq(S), Len(k) = 2, Len(l) = 3, l[1] = k[1], l[3] = k[2],
           l[2] \in pathPlatforms, k[2] \notin pathPlatforms
    PROVE  KnownClass(l) = KnownClass(k)
<1>1. /\ k # <<>> /\ Head(k) = k[1] /\ Tail(k) \in Seq(S) /\ Len(Tail(k)) = 1 /\ Tail(k)[1] = k[2]
      /\ Tail(k) # <<>>
    BY PairParts
<1>2. /\ l # <<>> /\ Head(l) = k[1]
      /\ Tail(l) \in Seq(S) /\ Len(Tail(l)) = 2 /\ Tail(l)[1] = l[2] /\ Tail(l)[2] = k[2]
    <2>1. Len(l) > 0 /\ Len(l) - 1 = 2
        OBVIOUS
    <2> QED
        BY <2>1, HeadAndTail
<1>3. CASE k[1] \in pathServices
    <2>1. \A service : pickModule(service, Tail(k)) = aliasModule(service, k[2])
        BY <1>1, <1>2, PickedFirst
    <2>2. \A service : pickModule(service, Tail(l)) = aliasModule(service, k[2])
        <3>1. Tail(l)[1] \in pathPlatforms /\ Tail(l)[2] \notin pathPlatforms
            BY <1>2, Zenon
        <3> QED
            BY <1>2, <3>1, PickedSecond
    <2>3. Contains(Tail(k), "image") <=> Contains(Tail(l), "image")
        <3>1. "image" \notin pathPlatforms
            BY DEF pathPlatforms
        <3>2. Contains(Tail(k), "image") <=> k[2] = "image"
            BY <1>1, ContainsOne
        <3>3. Contains(Tail(l), "image") <=> l[2] = "image" \/ k[2] = "image"
            BY <1>2, ContainsTwo
        <3> QED
            BY <3>1, <3>2, <3>3
    <2>4. finishClass(k[1], Tail(k)) = finishClass(k[1], Tail(l))
        BY <2>1, <2>2, <2>3 DEF finishClass
    <2> QED
        BY <1>1, <1>2, <1>3, <2>4, ServicesAreNoOrphans DEF KnownClass
<1>4. CASE k[1] \notin pathServices /\ k[1] \in DOMAIN orphanModules
    <2>1. k[1] \notin pathPlatforms
        BY <1>4 DEF orphanModules, pathPlatforms
    <2>2. \A service : pickModule(service, k) = aliasModule(service, k[1])
        BY <2>1, <1>1, PickedFirst
    <2>3. \A service : pickModule(service, l) = aliasModule(service, k[1])
        BY <2>1, <1>2, PickedFirst
    <2>4. orphanModules[k[1]] # "fs"
        BY <1>4 DEF orphanModules
    <2>5. finishClass(orphanModules[k[1]], k) = finishClass(orphanModules[k[1]], l)
        BY <2>2, <2>3, <2>4 DEF finishClass
    <2> QED
        BY <1>1, <1>2, <1>4, <2>5 DEF KnownClass
<1>5. CASE k[1] \notin pathServices /\ k[1] \notin DOMAIN orphanModules
    BY <1>1, <1>2, <1>5 DEF KnownClass
<1> QED
    BY <1>3, <1>4, <1>5

(* An orphan's module stands for the service it leaves out. *)
LEMMA ServiceLeftOut ==
    ASSUME NEW S, NEW k \in Seq(S), NEW o \in Seq(S), Len(k) = 2, Len(o) = 1, o[1] = k[2],
           k[2] \in DOMAIN orphanModules, orphanModules[k[2]] = k[1]
    PROVE  KnownClass(o) = KnownClass(k)
<1>1. /\ k # <<>> /\ Head(k) = k[1] /\ Tail(k) \in Seq(S) /\ Len(Tail(k)) = 1 /\ Tail(k)[1] = k[2]
      /\ Tail(k) # <<>>
    BY PairParts
<1>2. o # <<>> /\ Head(o) = k[2]
    BY Len(o) > 0, HeadAndTail
<1>3. k[1] \in pathServices /\ k[1] # "fs" /\ k[2] \notin pathServices /\ k[2] \notin pathPlatforms
    BY DEF orphanModules, pathServices, pathPlatforms
<1>4. pickModule(k[1], Tail(k)) = aliasModule(k[1], k[2])
    BY <1>1, <1>3, PickedFirst
<1>5. pickModule(k[1], o) = aliasModule(k[1], k[2])
    BY <1>2, <1>3, PickedFirst
<1>6. finishClass(k[1], Tail(k)) = finishClass(k[1], o)
    BY <1>3, <1>4, <1>5 DEF finishClass
<1> QED
    BY <1>1, <1>2, <1>3, <1>6, ServicesAreNoOrphans DEF KnownClass

LEMMA WithLast ==
    ASSUME NEW S, NEW s \in Seq(S), Len(s) = 4, NEW e
    PROVE  LET t == s \o <<e>> IN DOMAIN t = 1..5 /\ t[5] = e /\ \A i \in 1..4 : t[i] = s[i]
<1> DEFINE U == S \cup {e}
           t == s \o <<e>>
<1>1. s \in Seq(U) /\ <<e>> \in Seq(U) /\ Len(<<e>>) = 1
    OBVIOUS
<1>2. /\ t \in Seq(U) /\ Len(t) = Len(s) + Len(<<e>>)
      /\ \A i \in 1..(Len(s) + Len(<<e>>)) : t[i] = IF i <= Len(s) THEN s[i] ELSE <<e>>[i - Len(s)]
    <2> HIDE DEF U
    <2> QED
        BY <1>1, ConcatProperties
<1>3. DOMAIN t = 1..5
    BY <1>1, <1>2
<1>4. \A i \in 1..5 : t[i] = IF i <= 4 THEN s[i] ELSE <<e>>[i - 4]
    BY <1>1, <1>2
<1>5. t[5] = e /\ \A i \in 1..4 : t[i] = s[i]
    <2> HIDE DEF t
    <2>1. t[5] = e
        BY <1>4
    <2>2. \A i \in 1..4 : t[i] = s[i]
        BY <1>4
    <2> QED
        BY <2>1, <2>2
<1> QED
    BY <1>3, <1>5

LEMMA PathTuples ==
    ASSUME NEW a, NEW b, NEW c, NEW d, NEW e
    PROVE  /\ LET t == <<a, b, c>> IN DOMAIN t = 1..3 /\ t[1] = a /\ t[2] = b /\ t[3] = c
           /\ LET t == <<a, b, c, d>> IN DOMAIN t = 1..4 /\ t[1] = a /\ t[2] = b /\ t[3] = c /\ t[4] = d
           /\ LET t == <<a, b, c, d, e>>
              IN DOMAIN t = 1..5 /\ t[1] = a /\ t[2] = b /\ t[3] = c /\ t[4] = d /\ t[5] = e
OBVIOUS

LEMMA KnownTuples ==
    ASSUME NEW a, NEW b, NEW c, NEW S, {a, b, c} \subseteq S
    PROVE  /\ LET t == <<a>> IN t \in Seq(S) /\ Len(t) = 1 /\ t[1] = a
           /\ LET t == <<a, b>> IN t \in Seq(S) /\ Len(t) = 2 /\ t[1] = a /\ t[2] = b
           /\ LET t == <<a, b, c>> IN t \in Seq(S) /\ Len(t) = 3 /\ t[1] = a /\ t[2] = b /\ t[3] = c
OBVIOUS

(* A path to a module and each of its other spellings have one class. *)
LEMMA OneClass ==
    ASSUME NEW path \in Seq(STRING), ToModule(path), NEW p \in Aliases(path)
    PROVE  ClassifyPath(p) = ClassifyPath(path)
<1> DEFINE k == <<path[3], path[4]>>
           U == {path[3], path[4]} \cup pathPlatforms
<1>1. /\ DOMAIN path = 1..4 /\ path[1] = "v1" /\ path[2] \in pathNamespaces
      /\ path[3] # ":id" /\ path[4] # ":id" /\ path[4] \notin pathPlatforms
    BY DEF ToModule
<1>2. k \in Seq(U) /\ Len(k) = 2 /\ k[1] = path[3] /\ k[2] = path[4]
    <2> HIDE DEF U
    <2>1. {path[3], path[4]} \subseteq U
        BY DEF U
    <2> QED
        BY <2>1, KnownTuples
<1>3. \A i \in 1..Len(k) : i \in {1, 2}
    BY <1>2
<1> HIDE DEF k, U
<1>4. ClassifyPath(path) = KnownClass(k)
    <2>1. DOMAIN path = 1..(Len(k) + 2) /\ \A i \in 1..Len(k) : path[i + 2] = k[i] /\ k[i] # ":id"
        BY <1>1, <1>2, <1>3
    <2> QED
        BY <1>1, <1>2, <2>1, ClassOfSpelling
<1>5. CASE p = path \o <<":id">>
    <2>1. DOMAIN p = 1..5 /\ p[5] = ":id" /\ \A i \in 1..4 : p[i] = path[i]
        BY <1>5, WithLast DEF ToModule
    <2>2. /\ DOMAIN p = 1..(Len(k) + 3) /\ p[Len(k) + 3] = ":id"
          /\ \A i \in 1..Len(k) : p[i + 2] = k[i] /\ k[i] # ":id"
        BY <1>1, <1>2, <1>3, <2>1
    <2>3. p[1] = "v1" /\ p[2] \in pathNamespaces
        BY <1>1, <2>1
    <2> QED
        BY <1>2, <1>4, <2>2, <2>3, ClassOfSpelling
<1>6. CASE \E ns \in pathNamespaces : p = <<"v1", ns, path[3], path[4]>>
    <2>1. PICK ns \in pathNamespaces : p = <<"v1", ns, path[3], path[4]>>
        BY <1>6
    <2>2. DOMAIN p = 1..4 /\ p[1] = "v1" /\ p[2] = ns /\ p[3] = path[3] /\ p[4] = path[4]
        BY <2>1, PathTuples
    <2>3. DOMAIN p = 1..(Len(k) + 2) /\ \A i \in 1..Len(k) : p[i + 2] = k[i] /\ k[i] # ":id"
        BY <1>1, <1>2, <1>3, <2>2
    <2> QED
        BY <1>2, <1>4, <2>2, <2>3, ClassOfSpelling
<1>7. CASE \E x \in pathPlatforms : p = <<"v1", path[2], path[3], x, path[4]>>
    <2>1. PICK x \in pathPlatforms : p = <<"v1", path[2], path[3], x, path[4]>>
        BY <1>7
    <2> DEFINE l == <<path[3], x, path[4]>>
    <2>2. /\ DOMAIN p = 1..5 /\ p[1] = "v1" /\ p[2] = path[2]
          /\ p[3] = path[3] /\ p[4] = x /\ p[5] = path[4]
        BY <2>1, PathTuples
    <2>3. l \in Seq(U) /\ Len(l) = 3 /\ l[1] = path[3] /\ l[2] = x /\ l[3] = path[4]
        <3>1. {path[3], x, path[4]} \subseteq U
            BY DEF U
        <3> QED
            BY <3>1, KnownTuples
    <2> HIDE DEF l
    <2>4. x # ":id"
        BY DEF pathPlatforms
    <2>5. \A i \in 1..Len(l) : i \in {1, 2, 3}
        BY <2>3
    <2>6. DOMAIN p = 1..(Len(l) + 2) /\ \A i \in 1..Len(l) : p[i + 2] = l[i] /\ l[i] # ":id"
        BY <1>1, <2>2, <2>3, <2>4, <2>5
    <2>7. ClassifyPath(p) = KnownClass(l)
        BY <1>1, <2>2, <2>3, <2>6, ClassOfSpelling
    <2>8. KnownClass(l) = KnownClass(k)
        BY <1>1, <1>2, <2>3, PlatformAside
    <2> QED
        BY <1>4, <2>7, <2>8
<1>8. CASE p = <<"v1", path[2], path[4]>> /\ path[4] \in DOMAIN orphanModules /\ orphanModules[path[4]] = path[3]
    <2> DEFINE o == <<path[4]>>
    <2>1. DOMAIN p = 1..3 /\ p[1] = "v1" /\ p[2] = path[2] /\ p[3] = path[4]
        BY <1>8, PathTuples
    <2>2. o \in Seq(U) /\ Len(o) = 1 /\ o[1] = path[4]
        <3>1. path[4] \in U
            BY DEF U
        <3> QED
            BY <3>1, KnownTuples
    <2> HIDE DEF o
    <2>3. \A i \in 1..Len(o) : i = 1
        BY <2>2
    <2>4. DOMAIN p = 1..(Len(o) + 2) /\ \A i \in 1..Len(o) : p[i + 2] = o[i] /\ o[i] # ":id"
        BY <1>1, <2>1, <2>2, <2>3
    <2>5. ClassifyPath(p) = KnownClass(o)
        BY <1>1, <2>1, <2>2, <2>4, ClassOfSpelling
    <2>6. KnownClass(o) = KnownClass(k)
        BY <1>2, <1>8, <2>2, ServiceLeftOut
    <2> QED
        BY <1>4, <2>5, <2>6
<1>9. \/ p = path \o <<":id">>
      \/ \E ns \in pathNamespaces : p = <<"v1", ns, path[3], path[4]>>
      \/ \E x \in pathPlatforms : p = <<"v1", path[2], path[3], x, path[4]>>
      \/ p = <<"v1", path[2], path[4]>> /\ path[4] \in DOMAIN orphanModules /\ orphanModules[path[4]] = path[3]
    BY Zenon DEF Aliases
<1> QED
    BY <1>5, <1>6, <1>7, <1>8, <1>9

(* However the path to a module is spelt, its rows and usage events are      *)
(* filed under one resource (ClassifyPath).                                  *)
THEOREM SpellingsAgree == Spec => []SameResource
<1>1. IInv => SameResource
    <2> SUFFICES ASSUME IInv, NEW r \in Req, Saved(r), ToModule(ctx[r].ask.path),
                        NEW p \in Aliases(ctx[r].ask.path)
                 PROVE  ClassifyPath(p) = ClassifyPath(ctx[r].ask.path) /\ ClassifyPath(p).resource = row[r].resource
        BY DEF SameResource
    <2>1. PICK after, sides : row[r] = RowFrom(r, after, sides)
        BY SavedRow
    <2>2. row[r].resource = ClassifyPath(ctx[r].ask.path).resource
        BY <2>1 DEF RowFrom, resource
    <2>3. ctx[r].ask.path \in Seq(STRING)
        BY SavedRow, RequestAssumption DEF AskTypeOK
    <2>4. ClassifyPath(p) = ClassifyPath(ctx[r].ask.path)
        BY <2>3, OneClass
    <2> QED
        BY <2>2, <2>4
<1> QED
    BY <1>1, OperateLogInvariant, PTL

-----------------------------------------------------------------------------
(* The row of an update (RowTellsTheWrite).  First NormPath at a key: the   *)
(* keys it keeps, the first of a path, and the keys a diff skips.           *)
LEMMA OnlyKeeps ==
    ASSUME NEW m \in Nat, NEW K \in SUBSET (1..m), NEW s, NEW i \in K
    PROVE  Rank(K, i) \in 1..Cardinality(K) /\ Only(s, K)[Rank(K, i)] = s[i]
<1>1. Rank(K, i) \in 1..Cardinality(K)
    BY RankProperties
<1>2. PICK j \in K : Only(s, K)[Rank(K, i)] = s[j] /\ Rank(K, j) = Rank(K, i)
    <2>1. ASSUME NEW n \in 1..Cardinality(K) PROVE \E j \in K : Only(s, K)[n] = s[j] /\ Rank(K, j) = n
        BY OnlyPlace
    <2> QED
        BY <1>1, <2>1
<1>3. ~(i < j) /\ ~(j < i)
    BY <1>2, RankProperties
<1>4. i = j
    BY <1>3
<1> QED
    BY <1>1, <1>2, <1>4

(* What NormPath makes of a key that it keeps. *)
Renamed(p, i) == IF p[i] = "_id" /\ ~Lifted(p, i) THEN "id" ELSE p[i]
KeptAt(p) == {i \in DOMAIN p : p[i] # "_"}

LEMMA NormPathParts ==
    ASSUME NEW p \in Seq(STRING)
    PROVE  /\ Len(p) \in Nat /\ KeptAt(p) \in SUBSET (1..Len(p))
           /\ NormPath(p) = Only([i \in DOMAIN p |-> Renamed(p, i)], KeptAt(p))
           /\ NormPath(p) \in Seq(STRING) /\ DOMAIN NormPath(p) = 1..Cardinality(KeptAt(p))
           /\ Len(NormPath(p)) = Cardinality(KeptAt(p))
<1>1. Len(p) \in Nat /\ KeptAt(p) \in SUBSET (1..Len(p))
    BY LenProperties DEF KeptAt
<1>2. NormPath(p) = Only([i \in DOMAIN p |-> Renamed(p, i)], KeptAt(p))
    BY DEF NormPath, Renamed, KeptAt
<1>3. NormPath(p) \in Seq(STRING)
    BY NormPathTyped
<1>4. DOMAIN NormPath(p) = 1..Cardinality(KeptAt(p)) /\ Cardinality(KeptAt(p)) \in Nat
    BY <1>1, <1>2, PartIsFinite DEF Only
<1> QED
    BY <1>1, <1>2, <1>3, <1>4

LEMMA NormPathKeeps ==
    ASSUME NEW p \in Seq(STRING), NEW i \in KeptAt(p)
    PROVE  \E n \in 1..Len(NormPath(p)) : NormPath(p)[n] = Renamed(p, i)
<1> DEFINE s == [j \in DOMAIN p |-> Renamed(p, j)]
<1>1. i \in DOMAIN p
    BY DEF KeptAt
<1>2. s[i] = Renamed(p, i)
    BY <1>1
<1> HIDE DEF s
<1>3. Rank(KeptAt(p), i) \in 1..Cardinality(KeptAt(p)) /\ Only(s, KeptAt(p))[Rank(KeptAt(p), i)] = s[i]
    BY NormPathParts, OnlyKeeps
<1> QED
    BY <1>2, <1>3, NormPathParts DEF s

(* The key at the top of a path that does not begin with "_".               *)
LEMMA NormPathHead ==
    ASSUME NEW p \in Seq(STRING), 1 \in KeptAt(p)
    PROVE  /\ NormPath(p) # <<>> /\ Top(p) = NormPath(p)[1]
           /\ Top(p) = IF p[1] = "_id" THEN "id" ELSE p[1]
<1> DEFINE s == [j \in DOMAIN p |-> Renamed(p, j)]
           K == KeptAt(p)
<1>1. 1 \in DOMAIN p /\ ~Lifted(p, 1)
    <2>1. Lifted(p, 1) => 1 > 1
        BY Zenon DEF Lifted
    <2>2. 1 \in DOMAIN p
        BY Zenon DEF KeptAt
    <2> QED
        BY <2>1, <2>2
<1>2. s[1] = IF p[1] = "_id" THEN "id" ELSE p[1]
    BY <1>1 DEF Renamed
<1>3. /\ Len(p) \in Nat /\ K \in SUBSET (1..Len(p)) /\ NormPath(p) = Only(s, K)
      /\ NormPath(p) \in Seq(STRING) /\ Len(NormPath(p)) = Cardinality(K) /\ Cardinality(K) \in Nat
    BY NormPathParts, PartIsFinite
<1> HIDE DEF s
<1>4. 1 \in K
    OBVIOUS
<1> HIDE DEF K
<1>5. Rank(K, 1) \in 1..Cardinality(K)
    BY <1>3, <1>4, OnlyKeeps
<1>6. 1 \in 1..Cardinality(K)
    BY <1>3, <1>5
<1>7. PICK j \in K : Only(s, K)[1] = s[j] /\ Rank(K, j) = 1
    <2>1. ASSUME NEW n \in 1..Cardinality(K) PROVE \E j \in K : Only(s, K)[n] = s[j] /\ Rank(K, j) = n
        BY <1>3, OnlyPlace
    <2> QED
        BY <1>6, <2>1
<1>8. j \in Nat /\ 1 <= j
    BY <1>3
<1>9. (1 <= j => Rank(K, 1) <= Rank(K, j)) /\ (1 < j => Rank(K, 1) # Rank(K, j))
    BY <1>3, <1>4, RankProperties
<1>10. j = 1
    BY <1>3, <1>5, <1>7, <1>8, <1>9
<1>11. NormPath(p) \in Seq(STRING) /\ Len(NormPath(p)) > 0 /\ NormPath(p)[1] = s[1]
    BY <1>3, <1>6, <1>7, <1>10
<1>12. NormPath(p) # <<>> /\ Head(NormPath(p)) = NormPath(p)[1]
    BY <1>11, HeadAndTail
<1> QED
    BY <1>2, <1>11, <1>12 DEF Top

LEMMA SkippedKeyHides ==
    ASSUME NEW q \in Seq(STRING), NEW n \in 1..Len(q), q[n] \in auditSkipExact \cup auditSkipSuffix
    PROVE  ~Shown(q)
<1> DEFINE u == SubSeq(q, 1, n)
<1>1. u \in Seq(STRING) /\ Len(u) = n
    BY PrefixTyped
<1>2. u[n] = q[n]
    BY <1>1
<1>3. u # <<>> /\ Last(u) = q[n]
    BY <1>1, <1>2 DEF Last
<1>4. skipAuditPath(u)
    <2> HIDE DEF u
    <2> QED
        BY <1>3 DEF skipAuditPath
<1> QED
    BY <1>4 DEF Shown

LEMMA HiddenStaysHidden ==
    ASSUME NEW p \in Seq(STRING), NEW i \in DOMAIN p, p[i] \in auditSkipExact \cup auditSkipSuffix
    PROVE  ~Shown(NormPath(p))
<1>1. i \in KeptAt(p) /\ p[i] # "_id"
    BY DEF auditSkipExact, auditSkipSuffix, KeptAt
<1>2. PICK n \in 1..Len(NormPath(p)) : NormPath(p)[n] = p[i]
    BY <1>1, NormPathKeeps DEF Renamed
<1> QED
    BY <1>2, NormPathTyped, SkippedKeyHides

LEMMA RedactProperties ==
    ASSUME NEW v, DOMAIN v \subseteq Seq(STRING)
    PROVE  /\ DOMAIN RedactJSON(v) \subseteq Seq(STRING)
           /\ \A p \in DOMAIN RedactJSON(v) : \E u \in DOMAIN v : p = Stars(u)
           /\ \A u \in DOMAIN v : /\ Stars(u) \in DOMAIN RedactJSON(v)
                                  /\ Secret(u) => RedactJSON(v)[Stars(u)] = "***"
                                  /\ ~Secret(u) => RedactJSON(v)[Stars(u)] = v[u]
<1>1. DOMAIN RedactJSON(v) = {Stars(u) : u \in DOMAIN v}
    BY DEF RedactJSON
<1>2. \A p \in DOMAIN RedactJSON(v) : \E u \in DOMAIN v : p = Stars(u)
    BY <1>1
<1>3. ASSUME NEW u \in DOMAIN v
      PROVE  /\ Stars(u) \in DOMAIN RedactJSON(v) /\ Stars(u) \in Seq(STRING)
             /\ Secret(u) => RedactJSON(v)[Stars(u)] = "***"
             /\ ~Secret(u) => RedactJSON(v)[Stars(u)] = v[u]
    <2>1. Stars(u) \in DOMAIN RedactJSON(v)
        BY <1>1
    <2>2. RedactJSON(v)[Stars(u)] = IF Ends(Stars(u)) THEN "***" ELSE v[Stars(u)]
        BY <1>1, <2>1 DEF RedactJSON, Ends
    <2>3. u \in Seq(STRING)
        OBVIOUS
    <2> QED
        BY <2>1, <2>2, <2>3, StarsKeep
<1> QED
    BY <1>2, <1>3

(* Where no two keys end as one, normalizeAuditValue has one result, which  *)
(* holds at the new place of a path what was at the path.                   *)
LEMMA NormalExact ==
    ASSUME NEW v, DOMAIN v \subseteq Seq(STRING), Colliding(v) = {}, NEW n \in normalizeAuditValue(v)
    PROVE  /\ \A p \in NormPaths(v) : NormPath(p) \in DOMAIN n /\ n[NormPath(p)] = v[p]
           /\ \A q \in DOMAIN n : \E p \in NormPaths(v) : NormPath(p) = q
<1>1. PICK last : n = Normal(v, last)
    BY DEF normalizeAuditValue
<1>2. DOMAIN n = {NormPath(p) : p \in NormPaths(v)}
    BY <1>1 DEF Normal
<1>3. ASSUME NEW p \in NormPaths(v) PROVE n[NormPath(p)] = v[p]
    <2> DEFINE q == NormPath(p)
               o == CHOOSE x \in Sources(v, q) : TRUE
    <2>1. q \in DOMAIN n /\ q \notin Colliding(v)
        BY <1>2
    <2>2. p \in Sources(v, q)
        BY DEF Sources
    <2>3. o \in Sources(v, q)
        BY <2>2
    <2>4. o = p
        <3> HIDE DEF o, q
        <3>1. q \in {NormPath(x) : x \in NormPaths(v)}
            BY <1>2, <2>1
        <3> QED
            BY <2>1, <2>2, <2>3, <3>1 DEF Colliding
    <2>5. n[q] = v[o]
        BY <1>1, <2>1 DEF Normal
    <2> QED
        BY <2>4, <2>5
<1> QED
    BY <1>2, <1>3

LEMMA OneNormal ==
    ASSUME NEW v, Colliding(v) = {}
    PROVE  /\ (CHOOSE n \in normalizeAuditValue(v) : TRUE) \in normalizeAuditValue(v)
           /\ \A n \in normalizeAuditValue(v) : n = CHOOSE m \in normalizeAuditValue(v) : TRUE
<1> DEFINE N == normalizeAuditValue(v)
           n0 == [q \in {NormPath(p) : p \in NormPaths(v)} |-> v[CHOOSE p \in Sources(v, q) : TRUE]]
<1>1. \A last : Normal(v, last) = n0
    BY DEF Normal
<1>2. \A n \in N : n = n0
    BY <1>1 DEF normalizeAuditValue
<1>3. N # {}
    <2> DEFINE f == [q \in {} |-> Nil]
    <2>1. f \in [Colliding(v) -> NormPaths(v)] /\ \A q \in Colliding(v) : f[q] \in Sources(v, q)
        OBVIOUS
    <2> HIDE DEF f
    <2>2. Normal(v, f) \in N
        BY <2>1 DEF normalizeAuditValue
    <2> QED
        BY <2>2
<1> HIDE DEF N, n0
<1>4. (CHOOSE n \in N : TRUE) \in N
    BY <1>3
<1>5. \A n \in N : n = CHOOSE m \in N : TRUE
    BY <1>2, <1>4
<1> QED
    BY <1>4, <1>5 DEF N

LEMMA NormalMaps ==
    ASSUME NEW v, DOMAIN v \subseteq Seq(STRING), Colliding(v) = {}, MapOrNil(v), NEW n \in normalizeAuditValue(v)
    PROVE  MapOrNil(n)
<1> SUFFICES ASSUME <<>> \in DOMAIN n PROVE FALSE
    BY DEF MapOrNil
<1>1. PICK p \in NormPaths(v) : NormPath(p) = <<>>
    BY NormalExact
<1>2. p \in DOMAIN v /\ p \in Seq(STRING) /\ p # <<>> /\ Last(p) # "_"
    BY <1>1 DEF NormPaths, MapOrNil
<1>3. Len(p) \in DOMAIN p /\ Last(p) = p[Len(p)]
    <2>1. p \in Seq(STRING) /\ p # <<>>
        BY <1>2
    <2> QED
        BY ONLY <2>1 DEF Last
<1>4. Len(p) \in KeptAt(p)
    BY <1>2, <1>3 DEF KeptAt
<1>5. PICK k : k \in 1..Len(NormPath(p))
    BY <1>2, <1>4, NormPathKeeps
<1> QED
    BY <1>1, <1>5

(* The keys at the top that an update sets, and what it makes of a path.    *)
SetKeys(body) == {Head(p) : p \in DOMAIN body} \ {"id", "_id", "_"}
StampPath == <<"_", "updated_at">>

LEMMA HeadOfPath == ASSUME NEW p \in Seq(STRING), p # <<>> PROVE Head(p) = p[1] /\ 1 \in DOMAIN p
<1>1. Len(p) \in Nat /\ Len(p) # 0 /\ DOMAIN p = 1..Len(p)
    BY LenProperties, EmptySeq
<1>2. Len(p) > 0
    BY <1>1
<1> QED
    BY <1>1, <1>2, HeadAndTail

LEMMA HeadOfPair ==
    ASSUME NEW x, NEW y PROVE LET p == <<x, y>> IN Head(p) = x /\ Len(p) = 2 /\ p[1] = x /\ p[2] = y
<1> DEFINE p == <<x, y>>
<1>1. p \in Seq({x, y}) /\ Len(p) = 2 /\ p[1] = x /\ p[2] = y
    OBVIOUS
<1> HIDE DEF p
<1>2. Len(p) > 0
    BY <1>1
<1>3. Head(p) = p[1]
    BY <1>1, <1>2, HeadAndTail
<1> QED
    BY <1>1, <1>3

LEMMA UpdatedParts ==
    ASSUME NEW old, NEW body, NEW new, new = Updated(old, body)
    PROVE  /\ \A u \in DOMAIN body : Head(u) \in SetKeys(body) => u \in DOMAIN new /\ new[u] = body[u]
           /\ \A u \in DOMAIN old : Head(u) \notin SetKeys(body) =>
                 u \in DOMAIN new /\ (u # StampPath => new[u] = old[u])
           /\ \A u \in DOMAIN new : \/ u \in DOMAIN body /\ Head(u) \in SetKeys(body)
                                    \/ u \in DOMAIN old /\ Head(u) \notin SetKeys(body)
                                    \/ u = StampPath
<1> DEFINE set == {p \in DOMAIN body : Head(p) \notin {"id", "_id", "_"}}
           kept == {p \in DOMAIN old : \A q \in set : Head(p) # Head(q)}
           v == [p \in set \cup kept |-> IF p \in set THEN body[p] ELSE old[p]]
<1>1. new = Stamp(v, "t2")
    BY DEF Updated
<1>2. \A u \in DOMAIN body : u \in set <=> Head(u) \in SetKeys(body)
    BY Zenon DEF SetKeys
<1>3. \A u \in DOMAIN old : u \in kept <=> Head(u) \notin SetKeys(body)
    BY DEF SetKeys
<1>4. \A u \in kept : u \notin set
    OBVIOUS
<1>5. StampPath \notin set
    <2>1. Head(StampPath) = "_"
        BY HeadOfPair DEF StampPath
    <2> QED
        BY <2>1
<1>6. DOMAIN v = set \cup kept /\ (\A u \in set : v[u] = body[u]) /\ (\A u \in kept : v[u] = old[u])
    BY <1>4
<1>7. set \subseteq DOMAIN body /\ kept \subseteq DOMAIN old
    OBVIOUS
<1> HIDE DEF set, kept, v
<1>8. /\ DOMAIN new = DOMAIN v \cup {StampPath}
      /\ \A u \in DOMAIN v : u # StampPath => new[u] = v[u]
    BY <1>1 DEF Stamp, StampPath
<1> QED
    BY <1>2, <1>3, <1>5, <1>6, <1>7, <1>8

(* An update and what is compared of it: the document before, the body and  *)
(* the document after, each as normalizeAuditValue leaves it.               *)
Update(old, body, was, said, now) ==
    /\ old \in Value /\ body \in Value
    /\ \A v \in {sanitizeDoc(old), RedactJSON(body), RedactJSON(Updated(old, body))} :
          MapOrNil(v) /\ Colliding(v) = {} /\ Apart(v)
    /\ \A p \in DOMAIN old : \A i \in DOMAIN p : p[i] \notin sensitiveBodyKeys \ auditSkipExact
    /\ was \in normalizeAuditValue(sanitizeDoc(old))
    /\ said \in normalizeAuditValue(RedactJSON(body))
    /\ now \in normalizeAuditValue(RedactJSON(Updated(old, body)))

LEMMA UpdateTyped ==
    ASSUME NEW old, NEW body, NEW was, NEW said, NEW now, Update(old, body, was, said, now),
           NEW ro, NEW rb, NEW rn, ro = sanitizeDoc(old), rb = RedactJSON(body), rn = RedactJSON(Updated(old, body))
    PROVE  /\ DOMAIN old \subseteq Seq(STRING) /\ DOMAIN body \subseteq Seq(STRING)
           /\ DOMAIN Updated(old, body) \subseteq Seq(STRING)
           /\ \A v \in {ro, rb, rn} :
                DOMAIN v \subseteq Seq(STRING) /\ Colliding(v) = {} /\ MapOrNil(v) /\ Apart(v)
           /\ <<>> \notin DOMAIN body /\ <<>> \notin DOMAIN Updated(old, body)
           /\ \A v \in {was, said, now} : DOMAIN v \subseteq Seq(STRING) /\ MapOrNil(v)
<1>1. old \in Value /\ body \in Value /\ Updated(old, body) \in Value /\ ro \in Value
    BY UpdatedIsValue, sanitizeDocIsValue DEF Update
<1>2. \A v \in Value : DOMAIN v \subseteq Seq(STRING)
    BY ValueIsValue DEF IsValue
<1>3. DOMAIN rb \subseteq Seq(STRING) /\ DOMAIN rn \subseteq Seq(STRING)
    BY <1>1, <1>2, RedactProperties
<1>4. \A v \in {ro, rb, rn} : Colliding(v) = {} /\ MapOrNil(v) /\ Apart(v)
    BY DEF Update
<1>5. Stars(<<>>) = <<>>
    BY DEF Stars
<1>6. <<>> \notin DOMAIN body
    <2> SUFFICES ASSUME <<>> \in DOMAIN body PROVE FALSE
        OBVIOUS
    <2>1. Stars(<<>>) \in DOMAIN rb
        BY <1>1, <1>2, RedactProperties
    <2> QED
        BY <1>4, <1>5, <2>1 DEF MapOrNil
<1>7. <<>> \notin DOMAIN Updated(old, body)
    <2> SUFFICES ASSUME <<>> \in DOMAIN Updated(old, body) PROVE FALSE
        OBVIOUS
    <2>1. Stars(<<>>) \in DOMAIN rn
        BY <1>1, <1>2, RedactProperties
    <2> QED
        BY <1>4, <1>5, <2>1 DEF MapOrNil
<1>8. \A v \in {ro, rb, rn} : \A n \in normalizeAuditValue(v) : DOMAIN n \subseteq Seq(STRING) /\ MapOrNil(n)
    <2> SUFFICES ASSUME NEW v \in {ro, rb, rn}, NEW n \in normalizeAuditValue(v)
                 PROVE  DOMAIN n \subseteq Seq(STRING) /\ MapOrNil(n)
        OBVIOUS
    <2>1. DOMAIN v \subseteq Seq(STRING) /\ Colliding(v) = {} /\ MapOrNil(v)
        BY <1>1, <1>2, <1>3, <1>4
    <2> QED
        BY <2>1, NormalProperties, NormalMaps
<1>9. was \in normalizeAuditValue(ro) /\ said \in normalizeAuditValue(rb) /\ now \in normalizeAuditValue(rn)
    BY DEF Update
<1> QED
    BY <1>1, <1>2, <1>3, <1>4, <1>6, <1>7, <1>8, <1>9

LEMMA TopOfSet ==
    ASSUME NEW p \in Seq(STRING), p # <<>>, Head(p) \notin {"_", "_id"}
    PROVE  Top(p) = Head(p)
<1>1. Head(p) = p[1] /\ 1 \in DOMAIN p
    BY HeadOfPath
<1>2. 1 \in KeptAt(p)
    BY <1>1 DEF KeptAt
<1> QED
    BY <1>1, <1>2, NormPathHead

LEMMA TopIsFirst ==
    ASSUME NEW p \in Seq(STRING), NormPath(p) # <<>> PROVE Top(p) = NormPath(p)[1]
BY NormPathTyped, HeadOfPath DEF Top

(* Where Apart holds, only the keys an update sets end as these keys.       *)
LEMMA OneHead ==
    ASSUME NEW old, NEW body, NEW was, NEW said, NEW now, Update(old, body, was, said, now),
           NEW k \in SetKeys(body),
           NEW v \in {RedactJSON(body), RedactJSON(Updated(old, body))}, NEW p \in DOMAIN v, Top(p) = k
    PROVE  Head(p) = k
<1>1. PICK b \in DOMAIN body : Head(b) = k /\ k \notin {"id", "_id", "_"}
    BY Zenon DEF SetKeys
<1>2. b \in DOMAIN Updated(old, body)
    <2> DEFINE new == Updated(old, body)
    <2>1. Head(b) \in SetKeys(body)
        BY <1>1
    <2> HIDE DEF new
    <2>2. b \in DOMAIN new
        BY <2>1, UpdatedParts DEF new
    <2> QED
        BY <2>2 DEF new
<1>3. /\ DOMAIN body \subseteq Seq(STRING) /\ DOMAIN Updated(old, body) \subseteq Seq(STRING)
      /\ Apart(v) /\ <<>> \notin DOMAIN body
    BY UpdateTyped
<1>4. b \in Seq(STRING) /\ b # <<>>
    BY <1>3
<1>5. Stars(b) \in Seq(STRING) /\ Stars(b) # <<>> /\ Head(Stars(b)) = k
    BY <1>1, <1>4, StarsKeep, HeadOfPath
<1>6. Stars(b) \in DOMAIN v
    <2>1. CASE v = RedactJSON(body)
        BY <1>3, <2>1, RedactProperties
    <2>2. CASE v = RedactJSON(Updated(old, body))
        BY <1>2, <1>3, <2>2, RedactProperties
    <2> QED
        BY <2>1, <2>2
<1>7. Top(Stars(b)) = k
    BY <1>1, <1>5, TopOfSet
<1>8. Head(p) = Head(Stars(b))
    BY <1>3, <1>6, <1>7 DEF Apart
<1> QED
    BY <1>5, <1>8

(* What the update sets is what the body says of it.                        *)
LEMMA SaidIsNow ==
    ASSUME NEW old, NEW body, NEW was, NEW said, NEW now, Update(old, body, was, said, now),
           NEW q, q # <<>>, q[1] \in SetKeys(body)
    PROVE  (q \in DOMAIN said <=> q \in DOMAIN now) /\ (q \in DOMAIN said => said[q] = now[q])
<1> DEFINE new == Updated(old, body)
           rb == RedactJSON(body)
           rn == RedactJSON(new)
<1>1. /\ DOMAIN body \subseteq Seq(STRING) /\ DOMAIN new \subseteq Seq(STRING)
      /\ DOMAIN rb \subseteq Seq(STRING) /\ DOMAIN rn \subseteq Seq(STRING)
      /\ Colliding(rb) = {} /\ Colliding(rn) = {}
      /\ <<>> \notin DOMAIN body /\ <<>> \notin DOMAIN new
    BY UpdateTyped
<1>2. said \in normalizeAuditValue(rb) /\ now \in normalizeAuditValue(rn)
    BY DEF Update
<1>3. Head(StampPath) \notin SetKeys(body)
    <2>1. Head(StampPath) = "_"
        BY HeadOfPair DEF StampPath
    <2> QED
        BY <2>1 DEF SetKeys
(* what a path of the one value at q comes from *)
<1>4. ASSUME NEW v \in {rb, rn}, NEW p \in NormPaths(v), NormPath(p) = q
      PROVE  p \in DOMAIN v /\ p \in Seq(STRING) /\ Head(p) = q[1]
    <2>1. p \in DOMAIN v /\ p \in Seq(STRING)
        BY <1>1 DEF NormPaths
    <2>2. Top(p) = q[1]
        BY <1>4, <2>1, TopIsFirst
    <2> QED
        BY <2>1, <2>2, OneHead
<1>5. ASSUME NEW u \in Seq(STRING), u # <<>>, Head(Stars(u)) = q[1] PROVE Head(u) = q[1]
    BY <1>5, StarsKeep, HeadOfPath
<1>6. ASSUME q \in DOMAIN now PROVE q \in DOMAIN said /\ said[q] = now[q]
    <2>1. PICK p \in NormPaths(rn) : NormPath(p) = q
        BY <1>1, <1>2, <1>6, NormalExact
    <2>2. now[q] = rn[p] /\ p \in DOMAIN rn /\ Head(p) = q[1]
        BY <1>1, <1>2, <1>4, <2>1, NormalExact
    <2>3. PICK u \in DOMAIN new : p = Stars(u)
        BY <1>1, <2>2, RedactProperties
    <2>4. Head(u) = q[1]
        BY <1>1, <1>5, <2>2, <2>3
    <2>5. u \in DOMAIN body /\ new[u] = body[u]
        BY <1>3, <2>4, UpdatedParts
    <2>6. p \in DOMAIN rb /\ rb[p] = rn[p]
        BY <1>1, <2>3, <2>5, RedactProperties
    <2>7. p \in NormPaths(rb)
        BY <2>1, <2>6 DEF NormPaths
    <2> QED
        BY <1>1, <1>2, <2>1, <2>2, <2>6, <2>7, NormalExact
<1>7. ASSUME q \in DOMAIN said PROVE q \in DOMAIN now
    <2>1. PICK p \in NormPaths(rb) : NormPath(p) = q
        BY <1>1, <1>2, <1>7, NormalExact
    <2>2. p \in DOMAIN rb /\ Head(p) = q[1]
        BY <1>4, <2>1
    <2>3. PICK u \in DOMAIN body : p = Stars(u)
        BY <1>1, <2>2, RedactProperties
    <2>4. Head(u) = q[1]
        BY <1>1, <1>5, <2>2, <2>3
    <2>5. u \in DOMAIN new
        BY <2>4, UpdatedParts
    <2>6. p \in DOMAIN rn
        BY <1>1, <2>3, <2>5, RedactProperties
    <2>7. p \in NormPaths(rn)
        BY <2>1, <2>6 DEF NormPaths
    <2> QED
        BY <1>1, <1>2, <2>1, <2>7, NormalExact
<1> QED
    BY <1>6, <1>7

(* What the update does not set is as it was.                               *)
LEMMA KeptIsOld ==
    ASSUME NEW old, NEW body, NEW was, NEW said, NEW now, Update(old, body, was, said, now),
           NEW q, q # <<>>, Shown(q), q[1] \notin SetKeys(body)
    PROVE  (q \in DOMAIN was <=> q \in DOMAIN now) /\ (q \in DOMAIN was => was[q] = now[q])
<1> DEFINE new == Updated(old, body)
           ro == sanitizeDoc(old)
           rn == RedactJSON(new)
<1>1. /\ DOMAIN old \subseteq Seq(STRING) /\ DOMAIN new \subseteq Seq(STRING)
      /\ DOMAIN ro \subseteq Seq(STRING) /\ DOMAIN rn \subseteq Seq(STRING)
      /\ Colliding(ro) = {} /\ Colliding(rn) = {}
      /\ MapOrNil(ro) /\ MapOrNil(rn) /\ <<>> \notin DOMAIN new
    BY UpdateTyped
<1>2. was \in normalizeAuditValue(ro) /\ now \in normalizeAuditValue(rn)
    BY DEF Update
(* no key of a path of the document that ends at q is hidden *)
<1>3. ASSUME NEW p \in Seq(STRING), NormPath(p) = q, NEW i \in DOMAIN p
      PROVE  p[i] \notin auditSkipExact \cup auditSkipSuffix
    BY <1>3, HiddenStaysHidden
<1>4. ASSUME NEW u \in DOMAIN old, NormPath(Stars(u)) = q PROVE ~Secret(u) /\ Stars(u) = u
    <2>1. u \in Seq(STRING) /\ Stars(u) \in Seq(STRING)
        BY <1>1, StarsKeep
    <2>2. ~Secret(u)
        <3> SUFFICES ASSUME Secret(u) PROVE FALSE
            OBVIOUS
        <3>1. PICK i \in DOMAIN Stars(u), j \in DOMAIN u : Stars(u)[i] = u[j] /\ u[j] \in sensitiveBodyKeys
            BY <2>1, StarsKeep
        <3>2. u[j] \in auditSkipExact
            BY <3>1 DEF Update
        <3> QED
            BY <1>3, <1>4, <2>1, <3>1, <3>2
    <2> QED
        BY <2>1, <2>2, StarsKeep
<1>5. ASSUME NEW p \in Seq(STRING), p # <<>>, NormPath(p) = q, Head(p) \in SetKeys(body) PROVE FALSE
    <2>1. Head(p) \notin {"_", "_id"}
        BY <1>5 DEF SetKeys
    <2>2. Top(p) = Head(p)
        BY <1>5, <2>1, TopOfSet
    <2> QED
        BY <1>5, <2>2, TopIsFirst
<1>6. ASSUME NEW p \in Seq(STRING), NormPath(p) = q PROVE p # StampPath
    <2> SUFFICES ASSUME p = StampPath PROVE FALSE
        OBVIOUS
    <2>1. 2 \in DOMAIN p /\ p[2] = "updated_at"
        <3>1. Len(p) = 2 /\ p[2] = "updated_at"
            BY HeadOfPair DEF StampPath
        <3>2. Len(p) \in Nat /\ DOMAIN p = 1..Len(p)
            BY LenProperties
        <3> QED
            BY <3>1, <3>2
    <2>2. p[2] \in auditSkipSuffix
        BY <2>1 DEF auditSkipSuffix
    <2> QED
        BY <1>3, <1>6, <2>1, <2>2
<1>7. ASSUME q \in DOMAIN now PROVE q \in DOMAIN was /\ was[q] = now[q]
    <2>1. PICK p \in NormPaths(rn) : NormPath(p) = q /\ now[q] = rn[p]
        BY <1>1, <1>2, <1>7, NormalExact
    <2>2. p \in DOMAIN rn /\ p \in Seq(STRING) /\ p # <<>>
        BY <1>1, <2>1 DEF NormPaths, MapOrNil
    <2>3. PICK u \in DOMAIN new : p = Stars(u)
        BY <1>1, <2>2, RedactProperties
    <2>4. u \in Seq(STRING) /\ u # <<>>
        BY <1>1
    <2>5. Head(u) \notin SetKeys(body)
        <3>1. Head(u) = Head(p)
            BY <2>2, <2>3, <2>4, StarsKeep, HeadOfPath
        <3> QED
            BY <1>5, <2>1, <2>2, <3>1
    <2>6. u # StampPath
        <3> SUFFICES ASSUME u = StampPath PROVE FALSE
            OBVIOUS
        <3>1. \A i \in DOMAIN u : u[i] \notin sensitiveBodyKeys
            <4>1. Len(u) = 2 /\ u[1] = "_" /\ u[2] = "updated_at"
                BY HeadOfPair DEF StampPath
            <4>2. DOMAIN u = 1..2
                BY <2>4, <4>1, LenProperties
            <4>3. \A i \in 1..2 : i = 1 \/ i = 2
                OBVIOUS
            <4>4. "_" \notin sensitiveBodyKeys /\ "updated_at" \notin sensitiveBodyKeys
                BY DEF sensitiveBodyKeys
            <4> QED
                BY ONLY <4>1, <4>2, <4>3, <4>4
        <3>2. Stars(u) = u
            BY <3>1 DEF Stars
        <3> QED
            BY <1>6, <2>1, <2>2, <2>3, <3>2
    <2>7. u \in DOMAIN old /\ new[u] = old[u]
        BY <2>5, <2>6, UpdatedParts
    <2>8. ~Secret(u) /\ p = u
        BY <1>4, <2>1, <2>3, <2>7
    <2>9. rn[p] = old[p]
        BY <1>1, <2>3, <2>7, <2>8, RedactProperties
    <2>10. \A i \in DOMAIN p : p[i] \notin {"context", "password", "passwd"}
        BY <1>3, <2>1, <2>2 DEF auditSkipExact
    <2>11. p \in DOMAIN ro /\ ro[p] = old[p]
        BY <2>7, <2>8, <2>10 DEF sanitizeDoc
    <2>12. p \in NormPaths(ro)
        BY <2>1, <2>11 DEF NormPaths
    <2> QED
        BY <1>1, <1>2, <2>1, <2>9, <2>11, <2>12, NormalExact
<1>8. ASSUME q \in DOMAIN was PROVE q \in DOMAIN now
    <2>1. PICK p \in NormPaths(ro) : NormPath(p) = q
        BY <1>1, <1>2, <1>8, NormalExact
    <2>2. p \in DOMAIN ro /\ p \in Seq(STRING) /\ p # <<>>
        BY <1>1, <2>1 DEF NormPaths, MapOrNil
    <2>3. p \in DOMAIN old
        BY <2>2 DEF sanitizeDoc
    <2>4. Head(p) \notin SetKeys(body)
        BY <1>5, <2>1, <2>2
    <2>5. p \in DOMAIN new
        BY <2>3, <2>4, UpdatedParts
    <2>6. ~Secret(p)
        <3> SUFFICES ASSUME Secret(p) PROVE FALSE
            OBVIOUS
        <3>1. PICK i \in DOMAIN p : p[i] \in sensitiveBodyKeys
            BY DEF Secret
        <3>2. p[i] \in auditSkipExact
            BY <2>3, <3>1 DEF Update
        <3> QED
            BY <1>3, <2>1, <2>2, <3>2
    <2>7. p \in DOMAIN rn
        BY <1>1, <2>2, <2>5, <2>6, RedactProperties, StarsKeep
    <2>8. p \in NormPaths(rn)
        BY <2>1, <2>7 DEF NormPaths
    <2> QED
        BY <1>1, <1>2, <2>1, <2>8, NormalExact
<1> QED
    BY <1>7, <1>8

(* Values that agree below a path. *)
Agree(a, b, q) == (q \in DOMAIN a <=> q \in DOMAIN b) /\ (q \in DOMAIN a => a[q] = b[q])

LEMMA PrefixHead ==
    ASSUME NEW p \in Seq(STRING), NEW s \in Seq(STRING), p # <<>>
    PROVE  p \o s \in Seq(STRING) /\ p \o s # <<>> /\ (p \o s)[1] = p[1]
<1>1. Len(p) \in Nat /\ Len(s) \in Nat /\ Len(p) # 0
    BY LenProperties, EmptySeq
<1>2. p \o s \in Seq(STRING) /\ Len(p \o s) = Len(p) + Len(s)
    BY ConcatProperties
<1>3. 1 \in 1..Len(p) + Len(s) /\ 1 <= Len(p) /\ Len(p \o s) # 0
    BY <1>1, <1>2
<1>4. (p \o s)[1] = p[1]
    BY <1>3, ConcatProperties
<1> QED
    BY <1>2, <1>3, <1>4

LEMMA AtSame ==
    ASSUME NEW a, NEW b, DOMAIN a \subseteq Seq(STRING), DOMAIN b \subseteq Seq(STRING), NEW p \in Seq(STRING),
           \A s \in Seq(STRING) : Agree(a, b, p \o s)
    PROVE  At(a, p) = At(b, p)
<1>1. /\ \A s \in DOMAIN At(a, p) : s \in Seq(STRING) /\ p \o s \in DOMAIN a /\ At(a, p)[s] = a[p \o s]
      /\ \A s \in Seq(STRING) : p \o s \in DOMAIN a => s \in DOMAIN At(a, p)
    BY AtProperties
<1>2. /\ \A s \in DOMAIN At(b, p) : s \in Seq(STRING) /\ p \o s \in DOMAIN b /\ At(b, p)[s] = b[p \o s]
      /\ \A s \in Seq(STRING) : p \o s \in DOMAIN b => s \in DOMAIN At(b, p)
    BY AtProperties
<1>3. DOMAIN At(a, p) = DOMAIN At(b, p)
    BY <1>1, <1>2 DEF Agree
<1>4. \A s \in DOMAIN At(a, p) : At(a, p)[s] = At(b, p)[s]
    BY <1>1, <1>2, <1>3 DEF Agree
<1>5. /\ At(a, p) = [s \in DOMAIN At(a, p) |-> At(a, p)[s]]
      /\ At(b, p) = [s \in DOMAIN At(b, p) |-> At(b, p)[s]]
    BY DEF At
<1> QED
    BY <1>3, <1>4, <1>5

LEMMA FirstIsPrefix ==
    ASSUME NEW p \in Seq(STRING), p # <<>>, NEW h, h = <<p[1]>>
    PROVE  h \in Seq(STRING) /\ IsPrefix(h, p) /\ p[1] \in STRING
<1>1. p[1] \in STRING /\ Len(p) \in Nat /\ Len(p) # 0
    <2>1. 1 \in DOMAIN p
        BY HeadOfPath
    <2> QED
        BY <2>1, ElementOfSeq, LenProperties, EmptySeq
<1>2. h \in Seq(STRING) /\ Len(h) = 1 /\ h[1] = p[1]
    BY <1>1
<1>3. 1 \in 0..Len(p) /\ 1 \in 1..1
    BY <1>1
<1> DEFINE u == SubSeq(p, 1, 1)
<1>4. u \in Seq(STRING) /\ Len(u) = 1 /\ IsPrefix(u, p) /\ u[1] = p[1]
    BY <1>3, PrefixTyped
<1> HIDE DEF u
<1>5. \A i \in 1..Len(u) : h[i] = u[i]
    <2>1. \A i \in 1..1 : i = 1
        OBVIOUS
    <2> QED
        BY <1>2, <1>4, <2>1
<1>6. h = u
    BY <1>2, <1>4, <1>5, EqualSeqs
<1> QED
    BY <1>1, <1>2, <1>4, <1>6

LEMMA AtBelow ==
    ASSUME NEW a, NEW b, DOMAIN a \subseteq Seq(STRING), DOMAIN b \subseteq Seq(STRING),
           NEW h \in Seq(STRING), NEW p \in Seq(STRING), IsPrefix(h, p), At(a, h) = At(b, h)
    PROVE  At(a, p) = At(b, p)
<1>1. PICK t \in Seq(STRING) : h \o t = p
    BY PrefixAndRest
<1>2. DOMAIN a \subseteq Seq(STRING) /\ DOMAIN b \subseteq Seq(STRING) /\ h \in Seq(STRING)
    OBVIOUS
<1>3. ASSUME NEW s \in Seq(STRING) PROVE Agree(a, b, p \o s)
    <2> DEFINE q == t \o s
    <2>1. q \in Seq(STRING)
        BY ConcatProperties
    <2>2. (h \o t) \o s = h \o (t \o s)
        BY ONLY ConcatAssociative
    <2>3. h \o q = p \o s
        BY ONLY <1>1, <2>2
    <2> HIDE DEF q
    <2>4. /\ h \o q \in DOMAIN a <=> q \in DOMAIN At(a, h)
          /\ q \in DOMAIN At(a, h) => At(a, h)[q] = a[h \o q]
        BY ONLY <1>2, <2>1, AtProperties
    <2>5. /\ h \o q \in DOMAIN b <=> q \in DOMAIN At(b, h)
          /\ q \in DOMAIN At(b, h) => At(b, h)[q] = b[h \o q]
        BY ONLY <1>2, <2>1, AtProperties
    <2> QED
        BY ONLY At(a, h) = At(b, h), <2>3, <2>4, <2>5 DEF Agree
<1> QED
    BY <1>2, <1>3, AtSame

LEMMA ChangeFields ==
    ASSUME NEW b, NEW a, DOMAIN b \subseteq Seq(STRING), DOMAIN a \subseteq Seq(STRING),
           NEW e \in diffAuditValue(b, a)
    PROVE  /\ e.path \in Seq(STRING) /\ Reported(b, a, e.path)
           /\ e.before = At(b, e.path) /\ e.after = At(a, e.path) /\ e.kind = Kind(e.before, e.after)
<1>1. PICK p \in Visited(b, a) :
         /\ Reported(b, a, p)
         /\ e = [path |-> p, before |-> At(b, p), after |-> At(a, p), kind |-> Kind(At(b, p), At(a, p))]
    BY DEF diffAuditValue
<1>2. e.path \in Seq(STRING)
    BY ChangeTyped
<1>3. e.path = p /\ e.before = At(b, p) /\ e.after = At(a, p) /\ e.kind = Kind(At(b, p), At(a, p))
    BY <1>1
<1> QED
    BY <1>1, <1>2, <1>3

(* Of the keys that no update sets the body says what the image says.       *)
SaysNoOther(body, was, said) ==
    \A p \in DOMAIN body : Head(p) \in {"id", "_id", "_"} => At(said, <<Top(p)>>) = At(was, <<Top(p)>>)

(* At each change between the image and the body, the document changed as   *)
(* the body says, or the body leaves the field out.                         *)
LEMMA ChangeOfUpdate ==
    ASSUME NEW old, NEW body, NEW was, NEW said, NEW now, Update(old, body, was, said, now),
           SaysNoOther(RedactJSON(body), was, said), NEW e \in diffAuditValue(was, said)
    PROVE  /\ e.path \in Seq(STRING) /\ e.path # <<>>
           /\ e.before = At(was, e.path) /\ e.before # e.after
           /\ e.path[1] \in SetKeys(body) => e.after = At(now, e.path)
           /\ e.path[1] \notin SetKeys(body) => e.kind = "removed"
<1> DEFINE rb == RedactJSON(body)
           p == e.path
           k == p[1]
<1>1. /\ DOMAIN body \subseteq Seq(STRING) /\ DOMAIN rb \subseteq Seq(STRING)
      /\ Colliding(rb) = {} /\ MapOrNil(rb) /\ <<>> \notin DOMAIN body
      /\ DOMAIN was \subseteq Seq(STRING) /\ DOMAIN said \subseteq Seq(STRING) /\ DOMAIN now \subseteq Seq(STRING)
      /\ MapOrNil(was) /\ MapOrNil(said)
    BY UpdateTyped
<1>2. said \in normalizeAuditValue(rb)
    BY DEF Update
<1>3. /\ p \in Seq(STRING) /\ Reported(was, said, p)
      /\ e.before = At(was, p) /\ e.after = At(said, p) /\ e.kind = Kind(e.before, e.after)
    BY <1>1, ChangeFields
<1>4. At(was, p) # At(said, p) /\ ~(MapOrNil(At(was, p)) /\ MapOrNil(At(said, p)))
    BY <1>3 DEF Reported
<1>5. p # <<>>
    <2> SUFFICES ASSUME p = <<>> PROVE FALSE
        OBVIOUS
    <2>1. \A v : DOMAIN v \subseteq Seq(STRING) /\ MapOrNil(v) => MapOrNil(At(v, <<>>))
        <3> SUFFICES ASSUME NEW v, DOMAIN v \subseteq Seq(STRING), <<>> \in DOMAIN At(v, <<>>)
                     PROVE  <<>> \in DOMAIN v
            BY DEF MapOrNil
        <3>1. <<>> \in Seq(STRING) /\ <<>> \o <<>> = <<>>
            BY ONLY ConcatEmptySeq
        <3> QED
            BY <3>1, AtProperties
    <2> QED
        BY <1>1, <1>4, <2>1
<1>6. <<k>> \in Seq(STRING) /\ IsPrefix(<<k>>, p)
    <2>1. p \in Seq(STRING) /\ p # <<>>
        BY <1>3, <1>5
    <2> HIDE DEF p
    <2> QED
        BY ONLY <2>1, FirstIsPrefix
<1>7. ASSUME k \in SetKeys(body) PROVE At(said, p) = At(now, p)
    <2>1. ASSUME NEW s \in Seq(STRING) PROVE Agree(said, now, p \o s)
        <3> DEFINE q == p \o s
        <3>1. q # <<>> /\ q[1] \in SetKeys(body)
            BY <1>3, <1>5, <1>7, PrefixHead
        <3> HIDE DEF q
        <3>2. (q \in DOMAIN said <=> q \in DOMAIN now) /\ (q \in DOMAIN said => said[q] = now[q])
            BY ONLY Update(old, body, was, said, now), <3>1, SaidIsNow
        <3>3. Agree(said, now, q)
            BY <3>2 DEF Agree
        <3> QED
            BY <3>3 DEF q
    <2> QED
        BY <1>1, <1>3, <2>1, AtSame
<1>8. ASSUME k \notin SetKeys(body) PROVE At(said, p) = Nil
    <2>1. \A b \in DOMAIN rb : Top(b) # k
        <3> SUFFICES ASSUME NEW b \in DOMAIN rb, Top(b) = k PROVE FALSE
            OBVIOUS
        <3>1. PICK u \in DOMAIN body : b = Stars(u)
            BY <1>1, RedactProperties
        <3>2. u \in Seq(STRING) /\ u # <<>> /\ b \in Seq(STRING) /\ b # <<>> /\ Head(b) = Head(u)
            BY <1>1, <3>1, StarsKeep, HeadOfPath
        <3>3. CASE Head(b) \in {"id", "_id", "_"}
            <4>1. At(said, <<k>>) = At(was, <<k>>)
                BY <3>3 DEF SaysNoOther
            <4>2. At(said, p) = At(was, p)
                <5> DEFINE h == <<k>>
                <5>1. h \in Seq(STRING) /\ IsPrefix(h, p) /\ At(said, h) = At(was, h) /\ p \in Seq(STRING)
                    BY <1>3, <1>6, <4>1
                <5>2. DOMAIN was \subseteq Seq(STRING) /\ DOMAIN said \subseteq Seq(STRING)
                    BY <1>1
                <5> HIDE DEF h, p
                <5> QED
                    BY ONLY <5>1, <5>2, AtBelow
            <4> QED
                BY <1>4, <4>2
        <3>4. CASE Head(b) \notin {"id", "_id", "_"}
            <4>1. Top(b) = Head(b)
                BY <3>2, <3>4, TopOfSet
            <4>2. Head(u) \in SetKeys(body)
                BY <3>2, <3>4 DEF SetKeys
            <4> QED
                BY <1>8, <3>2, <4>1, <4>2
        <3> QED
            BY <3>3, <3>4
    <2>2. \A s \in Seq(STRING) : p \o s \notin DOMAIN said
        <3> SUFFICES ASSUME NEW s \in Seq(STRING), NEW q, q = p \o s, q \in DOMAIN said PROVE FALSE
            OBVIOUS
        <3>1. q # <<>> /\ q[1] = k
            BY <1>3, <1>5, PrefixHead
        <3>2. PICK b \in NormPaths(rb) : NormPath(b) = q
            BY <1>1, <1>2, NormalExact
        <3>3. b \in DOMAIN rb /\ b \in Seq(STRING)
            BY <1>1 DEF NormPaths
        <3>4. Top(b) = k
            BY <3>1, <3>2, <3>3, TopIsFirst
        <3> QED
            BY <2>1, <3>3, <3>4
    <2>3. DOMAIN At(said, p) = {}
        BY <1>1, <1>3, <2>2, AtProperties
    <2>4. \A v, q : DOMAIN At(v, q) = {} => At(v, q) = Nil
        <3> SUFFICES ASSUME NEW v, NEW q, DOMAIN At(v, q) = {} PROVE At(v, q) = Nil
            OBVIOUS
        <3>1. At(v, q) = [s \in DOMAIN At(v, q) |-> At(v, q)[s]]
            BY ONLY DEF At
        <3> QED
            BY ONLY DOMAIN At(v, q) = {}, <3>1 DEF Nil
    <2> QED
        BY <2>3, <2>4
<1>9. k \notin SetKeys(body) => e.kind = "removed"
    BY <1>3, <1>4, <1>8 DEF Kind
<1> QED
    BY <1>3, <1>4, <1>5, <1>7, <1>9

(* What RowTellsTheWrite asks of a diff.                                    *)
Tells(was, now, changes) ==
    /\ \A p \in DOMAIN Open(was) \cup DOMAIN Open(now) :
          Field(was, p) # Field(now, p) =>
              \E e \in changes : /\ IsPrefix(e.path, p)
                                  /\ e.before = At(was, e.path) /\ e.after = At(now, e.path)
    /\ \A e \in changes : e.kind # "removed" =>
          e.before = At(was, e.path) /\ e.after = At(now, e.path) /\ e.before # e.after

LEMMA DiffOfUpdate ==
    ASSUME NEW old, NEW body, NEW was, NEW said, NEW now, Update(old, body, was, said, now),
           SaysNoOther(RedactJSON(body), was, said), NEW changes, changes = diffAuditValue(was, said)
    PROVE  Tells(was, now, changes)
<1>1. \A v \in {was, said, now} : DOMAIN v \subseteq Seq(STRING) /\ MapOrNil(v)
    BY UpdateTyped
<1>2. ASSUME NEW e \in changes
      PROVE  /\ e.path \in Seq(STRING) /\ e.path # <<>>
             /\ e.before = At(was, e.path) /\ e.before # e.after
             /\ e.path[1] \in SetKeys(body) => e.after = At(now, e.path)
             /\ e.path[1] \notin SetKeys(body) => e.kind = "removed"
    BY ChangeOfUpdate
<1>3. ASSUME NEW p \in DOMAIN Open(was) \cup DOMAIN Open(now), Field(was, p) # Field(now, p)
      PROVE  \E e \in changes : /\ IsPrefix(e.path, p)
                                 /\ e.before = At(was, e.path) /\ e.after = At(now, e.path)
    <2>1. p \in DOMAIN was \cup DOMAIN now /\ Shown(p)
        BY Zenon DEF Open, Shown
    <2>2. p \in Seq(STRING) /\ p # <<>>
        BY <1>1, <2>1 DEF MapOrNil
    <2>3. p[1] \in SetKeys(body)
        <3> SUFFICES ASSUME p[1] \notin SetKeys(body) PROVE FALSE
            OBVIOUS
        <3>1. (p \in DOMAIN was <=> p \in DOMAIN now) /\ (p \in DOMAIN was => was[p] = now[p])
            BY ONLY Update(old, body, was, said, now), <2>1, <2>2, p[1] \notin SetKeys(body), KeptIsOld
        <3> QED
            BY Zenon, <1>3, <3>1 DEF Field
    <2>4. (p \in DOMAIN said <=> p \in DOMAIN now) /\ (p \in DOMAIN said => said[p] = now[p])
        BY ONLY Update(old, body, was, said, now), <2>2, <2>3, SaidIsNow
    <2>5. p \in DOMAIN was \cup DOMAIN said
        BY <2>1, <2>4
    <2>6. ~(p \in DOMAIN was /\ p \in DOMAIN said /\ was[p] = said[p])
        BY Zenon, <1>3, <2>4 DEF Field
    <2>7. PICK e \in changes : IsPrefix(e.path, p)
        BY <1>1, <2>1, <2>5, <2>6, SameWhereUnreported
    <2>8. e.path[1] = p[1]
        <3>1. e.path \in Seq(STRING) /\ e.path # <<>>
            BY <1>2
        <3> DEFINE s == SubSeq(p, Len(e.path) + 1, Len(p))
        <3>2. s \in Seq(STRING) /\ e.path \o s = p
            BY <2>2, <2>7, <3>1, PrefixAndRest
        <3> HIDE DEF s
        <3> QED
            BY <3>1, <3>2, PrefixHead
    <2> QED
        BY <1>2, <2>3, <2>7, <2>8
<1> QED
    BY <1>2, <1>3 DEF Tells

(* Short of its limits, the row of an update holds the whole diff.          *)
LEMMA SideOfUpdate ==
    ASSUME NEW before, NEW after, NEW sides \in CompressAuditBodies("update", before, after),
           sides[2].is # "cut", Cardinality(sides[2].changes) < MaxChanges
    PROVE  \E b \in normalizeAuditValue(before), a \in normalizeAuditValue(after) :
              sides[2].changes = diffAuditValue(b, a)
<1>1. PICK C \in DiffAuditJSON(before, after) : sides = <<Nothing, Envelope(C)>>
    BY DEF CompressAuditBodies
<1>2. PICK b \in normalizeAuditValue(before), a \in normalizeAuditValue(after) :
         C \in FirstChanges(diffAuditValue(b, a))
    BY <1>1 DEF DiffAuditJSON
<1>3. sides[2] = Envelope(C)
    BY <1>1
<1>4. Envelope(C).is # "cut" => Envelope(C).changes = C
    BY DEF Envelope, Side, Nothing
<1>5. sides[2].changes = C
    BY <1>3, <1>4
<1> QED
    BY <1>2, <1>5, FirstChangesOf

(* A body captured whole, and short, is redacted and not cut.               *)
LEMMA AfterBody ==
    ASSUME TypeInv, NEW r \in Req, ctx[r].ask \in Asks[r], ctx[r].payload = ctx[r].ask.body,
           ctx[r].ask.units < MaxBody
    PROVE  After(r) = {RedactJSON(ctx[r].ask.body)}
<1>1. ctx[r].ask.units # MaxBody
    BY AskTyped, OperateLogAssumption
<1> QED
    BY <1>1 DEF After

(* What RowTellsTheWrite asks of a row and of its request, whose values are *)
(* old, body and new, and normalised was and said.                          *)
Telling(r, old, body, new, was, said) ==
    /\ Saved(r) /\ row[r].action = "update" /\ row[r].status
    /\ ctx[r].ask.writes /\ ctx[r].ask.method \in {"PUT", "PATCH"}
    /\ row[r].after.is # "cut" /\ Cardinality(row[r].after.changes) < MaxChanges
    /\ ImageHolds(r)
    /\ ctx[r].payload = ctx[r].ask.body /\ ctx[r].ask.units < MaxBody
    /\ \A v \in {old, body, new} : MapOrNil(v) /\ Colliding(v) = {} /\ Apart(v)
    /\ SaysNoOther(body, was, said)
    /\ \A p \in DOMAIN ctx[r].old : \A i \in DOMAIN p : p[i] \notin sensitiveBodyKeys \ auditSkipExact

LEMMA RowOfUpdate ==
    ASSUME IInv, NEW r \in Req, ImageInv(r),
           NEW a, a = ctx[r].ask, NEW old, old = sanitizeDoc(ctx[r].old),
           NEW body, body = RedactJSON(a.body), NEW new, new = RedactJSON(ctx[r].new),
           NEW was, was = CHOOSE v \in normalizeAuditValue(old) : TRUE,
           NEW said, said = CHOOSE v \in normalizeAuditValue(body) : TRUE,
           NEW now, now = CHOOSE v \in normalizeAuditValue(new) : TRUE,
           Telling(r, old, body, new, was, said)
    PROVE  Tells(was, now, row[r].after.changes)
<1>1. Saved(r) /\ TypeInv /\ a \in Asks[r]
    BY SavedRow DEF IInv, Telling
<1>2. PICK after \in After(r) : \E sides \in CompressAuditBodies(action(r), ctx[r].before, after) :
         row[r] = RowFrom(r, after, sides)
    BY <1>1, SavedRow
<1>3. PICK sides \in CompressAuditBodies(action(r), ctx[r].before, after) : row[r] = RowFrom(r, after, sides)
    BY <1>2
<1>4. row[r].action = action(r) /\ row[r].status = ctx[r].ok /\ row[r].after = sides[2]
    <2>1. row[r].after = sides[2]
        BY ONLY <1>3 DEF RowFrom
    <2> QED
        BY ONLY <1>3, <2>1, RowFields
<1>5. action(r) = "update" /\ ctx[r].ok
    BY <1>4 DEF Telling
<1>6. ctx[r].old # Nil /\ ctx[r].new = Updated(ctx[r].old, a.body) /\ ctx[r].before = old
    <2>1. ctx[r].old # Nil /\ ctx[r].new = Updated(ctx[r].old, a.body) /\ ctx[r].before = ImageOf(ctx[r].old)
        BY <1>5 DEF ImageInv, ImageHolds, Telling
    <2> QED
        BY <2>1 DEF ImageOf, ImageHolds, Telling
<1>7. after = body
    BY <1>1, <1>2, AfterBody DEF Telling
<1>8. PICK b \in normalizeAuditValue(old), c \in normalizeAuditValue(body) :
         row[r].after.changes = diffAuditValue(b, c)
    <2>1. sides \in CompressAuditBodies("update", old, body)
        BY <1>5, <1>6, <1>7
    <2>2. sides[2].is # "cut" /\ Cardinality(sides[2].changes) < MaxChanges
        BY <1>4 DEF Telling
    <2> QED
        BY ONLY <1>4, <2>1, <2>2, SideOfUpdate
<1>9. \A v \in {old, body, new} : MapOrNil(v) /\ Colliding(v) = {} /\ Apart(v)
    BY DEF Telling
<1>10. b = was /\ c = said /\ now \in normalizeAuditValue(new)
    BY <1>9, OneNormal
<1>11. Update(ctx[r].old, a.body, was, said, now)
    <2>1. ctx[r].old \in Value /\ a.body \in Value
        BY <1>1, ContextTyped, AskTyped
    <2> QED
        BY <1>6, <1>8, <1>9, <1>10, <2>1 DEF Update, Telling
<1>12. SaysNoOther(RedactJSON(a.body), was, said)
    BY DEF Telling
<1> QED
    BY ONLY <1>8, <1>10, <1>11, <1>12, DiffOfUpdate

(* The row of an update that succeeded tells what the update did, for every *)
(* document, body and interleaving that RowTellsTheWrite allows, although   *)
(* what is compared is the body and an image (OperateLogMiddleware,         *)
(* LoadBefore, CompressAuditBodies).                                        *)
THEOREM RowsTellTheWrite == Spec => []RowTellsTheWrite
<1>1. ASSUME IInv, \A r \in Req : ImageInv(r) PROVE RowTellsTheWrite
    <2>1. \A r \in Req :
             LET old == sanitizeDoc(ctx[r].old)
                 body == RedactJSON(ctx[r].ask.body)
                 new == RedactJSON(ctx[r].new)
                 was == CHOOSE v \in normalizeAuditValue(old) : TRUE
                 said == CHOOSE v \in normalizeAuditValue(body) : TRUE
                 now == CHOOSE v \in normalizeAuditValue(new) : TRUE
             IN Telling(r, old, body, new, was, said) => Tells(was, now, row[r].after.changes)
        BY <1>1, RowOfUpdate
    <2> QED
        BY <2>1, Zenon DEF RowTellsTheWrite, Telling, Tells, SaysNoOther
<1>2. IInv /\ (PairsInv /\ \A r \in Req : ImageInv(r)) => RowTellsTheWrite
    BY <1>1
<1> QED
    BY <1>2, OperateLogInvariant, ImagesHold, PTL
=============================================================================
