----------------------------- MODULE OperateLog -----------------------------
(***************************************************************************)
(* Requests on one document on their way through a gin chain: the callback *)
(* signature (callback_auth.go), OperateLogMiddleware (oplog.go), the      *)
(* before-image (oplog/snapshot.go), the business handler, and the audit   *)
(* row and usage event that OperateLogMiddleware builds from what is left. *)
(* They share the request's body, a stream that is read once, and the      *)
(* document, which other requests change.  Handlers are external.          *)
(***************************************************************************)
EXTENDS AuditDiff, PathClass, CallbackSign, ClientAddress

CONSTANTS
    Req,
    Asks,        \* what each request may be: see AskTypeOK
    Documents,   \* what the document may be at first; Nil: it does not exist
    Huge,        \* scalars longer than maxSnapshotBytes
    MaxBody,     \* maxAuditBody, in units of which a body is a few
    Keys,        \* candidate keys of the callback verifier
    Rules,       \* the sequence of Register calls: substring and collection
    MapRules,    \* the pairs given to RegisterMap after them
    Secrets      \* scalars that bodies hold below sensitive keys only

ASSUME OperateLogAssumption == MaxBody \in Nat \ {0} /\ Huge \subseteq Long

NoAsk == [method |-> "GET", units |-> 0, broken |-> FALSE]

VARIABLES
    pairs,   \* Registry.pairs
    doc,     \* the document
    todo,    \* per request: the rest of its chain
    ctx,     \* per request: what its gin context holds, see Fresh
    row      \* per request: the audit row and usage event, or NoRow

vars == <<pairs, doc, todo, ctx, row>>

(* rest: the part of the body a reader still gets, as units from..upto, and  *)
(* whether it breaks off in the last one instead of ending.                 *)
(* form: c.Request.Form once parsed.  before: the keys Before and OldData.  *)
(* verdict, old, new, alone: history, what the verifier said, the document   *)
(* around the handler's work and whether the before-image was read and       *)
(* nobody else changed the document since.                                   *)
Fresh(a) == [ask |-> a, rest |-> [from |-> 1, upto |-> a.units, breaks |-> a.broken], form |-> <<>>, payload |-> Nil,
             before |-> Nil, verdict |-> "none", ok |-> FALSE, old |-> Nil, new |-> Nil, alone |-> FALSE]
NoRow == [action |-> "none"]
Saved(r) == row[r] # NoRow

(* OperateLogMiddleware leaves reads and technical paths alone. *)
Logged(a) == a.method # "GET" /\ ~a.skipped

IsValue(v) == v = [p \in DOMAIN v |-> v[p]] /\ DOMAIN v \subseteq Seq(STRING) /\ \A p \in DOMAIN v : v[p] \in STRING

Pairs == Seq([key : STRING, value : Seq(STRING)])

(* A request that is logged passes the middleware that logs it, and passes   *)
(* it once.  form and query: the pairs of an urlencoded body, at most one a   *)
(* unit, and of the URL.  A form in the body names no merchant.             *)
AskTypeOK(a) ==
    /\ a.method \in {"GET", "POST", "PUT", "PATCH", "DELETE"}
    /\ a.ctype \in {"json", "form", "upload"} /\ a.units \in Nat
    /\ {a.declared, a.broken, a.sized, a.skipped, a.writes} \subseteq BOOLEAN
    /\ a.path \in Seq(STRING) /\ a.merchant \in STRING /\ a.namespace \in STRING /\ IsValue(a.body)
    /\ a.chain \in Seq({"verify", "capture", "snapshot", "handle"})
    /\ Logged(a) => \E i \in DOMAIN a.chain : a.chain[i] = "capture"
    /\ \A i, j \in DOMAIN a.chain : a.chain[i] = "capture" /\ a.chain[j] = "capture" => i = j
    /\ {a.form, a.query} \subseteq Pairs /\ Len(a.form) <= a.units
    /\ \A i \in DOMAIN a.form : a.form[i].key # "merchant_id"
    /\ a.arrival \in Arrivals

ASSUME RequestAssumption ==
    /\ \A r \in Req : \A a \in Asks[r] : AskTypeOK(a)
    /\ \A v \in Documents : IsValue(v)
    /\ Huge \subseteq STRING
    /\ Rules \in Seq([substr : STRING, coll : STRING])
    /\ MapRules \subseteq [substr : STRING, coll : STRING] /\ IsFiniteSet(MapRules)

(* Literals of this module: that they are strings is not built into a prover. *)
ASSUME LiteralsAssumption ==
    {"", "cut", "***", "i1", "t1", "t2", "id", "_id", "_", "merchant_id", "updated_at"} \subseteq STRING

-----------------------------------------------------------------------------
(* firstNonEmpty of a sequence of strings. *)
firstNonEmpty(s) ==
    LET full == {i \in DOMAIN s : s[i] # ""}
    IN IF full = {} THEN "" ELSE s[Min(full)]
Field(v, p) == IF p \in DOMAIN v THEN v[p] ELSE ""

skipUsageMerchant(m) == m \in {"", "*", "share", "st"}

(* extractBodyFields: the object itself, then what it nests; JSON only. *)
nestedBodyKeys == <<"identity", "profile", "user", "member", "account", "data">>
bodyMerchant(v) ==
    LET of(p) == firstNonEmpty(<<Field(v, p \o <<"merchant_id">>), Field(v, p \o <<"merchant">>)>>)
    IN firstNonEmpty(<<of(<<>>)>> \o [i \in 1..6 |-> of(<<nestedBodyKeys[i]>>)])

(* merchantFromBefore: a cut before-image is no JSON and names nobody. *)
merchantFromBefore(v) ==
    LET name(p) == LET m == Field(v, p) IN IF skipUsageMerchant(m) THEN "" ELSE m
    IN firstNonEmpty(<<name(<<"merchant_id">>), name(<<"meta", "merchant_id">>),
                       name(<<"_", "merchant_id">>), name(<<"_", "meta", "merchant_id">>)>>)

sensitiveBodyKeys ==
    {"password", "passwd", "old_password", "new_password", "oldpassword", "newpassword", "token",
     "access_token", "refresh_token", "secret", "session_key", "jwt", "otp", "otp_secret",
     "opt_secret", "sms_code", "authorization", "cookie"}

ASSUME SecretsAssumption ==
    /\ {"***", "cut"} \cap Secrets = {}
    /\ \A r \in Req : \A a \in Asks[r] : \A p \in DOMAIN a.body :
          a.body[p] \in Secrets => \E i \in DOMAIN p : p[i] \in sensitiveBodyKeys

(* RedactJSON: what stands below a sensitive key, at any depth, is "***";   *)
(* what is not JSON stays as it is.                                         *)
Stars(p) ==
    IF \A i \in DOMAIN p : p[i] \notin sensitiveBodyKeys THEN p
    ELSE SubSeq(p, 1, CHOOSE i \in DOMAIN p : /\ p[i] \in sensitiveBodyKeys
                                             /\ \A j \in 1..(i - 1) : p[j] \notin sensitiveBodyKeys)
RedactJSON_TopLevel(v) == [p \in DOMAIN v |-> IF p # <<>> /\ Head(p) \in sensitiveBodyKeys THEN "***" ELSE v[p]]
RedactJSON(v) ==
    [p \in {Stars(q) : q \in DOMAIN v} |->
        IF p # <<>> /\ Last(p) \in sensitiveBodyKeys THEN "***" ELSE v[p]]

(* sanitizeDoc: a stored document without these keys, at any depth. *)
sanitizeDoc(v) ==
    LET kept == {p \in DOMAIN v : \A i \in DOMAIN p : p[i] \notin {"context", "password", "passwd"}}
    IN [p \in kept |-> v[p]]

(* Register ignores a pair with a blank. *)
Registrable(x) == x.substr # "" /\ x.coll # ""
Registered(s) == Only(s, {i \in DOMAIN s : Registrable(s[i])})

(* loadBefore: the first rule whose substring the path contains names the   *)
(* collection; the document is in the route's own.  A long one is cut.      *)
RulesFor(a) == {i \in DOMAIN pairs : pairs[i].substr \in a.contains}
collectionFor_Last(a) == IF RulesFor(a) = {} THEN "" ELSE pairs[Max(RulesFor(a))].coll
collectionFor(a) == IF RulesFor(a) = {} THEN "" ELSE pairs[Min(RulesFor(a))].coll
loadBefore(a) ==
    IF collectionFor(a) = "" \/ collectionFor(a) # a.coll \/ doc = Nil THEN Nil
    ELSE IF \E p \in DOMAIN doc : doc[p] \in Huge THEN Text(CHOOSE s \in Huge : TRUE)
    ELSE sanitizeDoc(doc)

-----------------------------------------------------------------------------
(* RegisterMap adds its pairs in random order. *)
Init ==
    /\ pairs \in {Registered(Rules \o more) : more \in SetToSeqs(MapRules)}
    /\ doc \in Documents
    /\ todo = [r \in Req |-> <<"arrive">>]
    /\ ctx = [r \in Req |-> Fresh(NoAsk)]
    /\ row = [r \in Req |-> NoRow]

Arrive(r) ==
    /\ todo[r] = <<"arrive">>
    /\ \E a \in Asks[r] : /\ ctx' = [ctx EXCEPT ![r] = Fresh(a)]
                          /\ todo' = [todo EXCEPT ![r] = a.chain]
    /\ UNCHANGED <<pairs, doc, row>>

Stage(r, s) == todo[r] # <<>> /\ Head(todo[r]) = s
Goes(r) == todo' = [todo EXCEPT ![r] = Tail(todo[r])]

Unread(r) == ctx[r].rest = [from |-> 1, upto |-> ctx[r].ask.units, breaks |-> ctx[r].ask.broken]
Whole(r) == Unread(r) /\ ~ctx[r].ask.broken

(* skipRequestBodyCapture, readRequestBody: a body that says it is too long *)
(* is left alone; of any other one unit more than maxAuditBody is read and   *)
(* becomes the body.  A read error leaves the rest to the handler; one that  *)
(* lies beyond what is read is not met.                                     *)
skipRequestBodyCapture(a) == a.ctype = "upload" \/ (a.declared /\ a.units > MaxBody)

ReadLimit_Tight == MaxBody
ReadLimit == MaxBody + 1

Taken(r) == IF ctx[r].rest.upto > ReadLimit THEN ReadLimit ELSE ctx[r].rest.upto

readRequestBody(r) ==
    LET a == ctx[r].ask
    IN IF skipRequestBodyCapture(a) \/ ctx[r].rest.from > ctx[r].rest.upto THEN ctx[r]
       ELSE IF ctx[r].rest.breaks /\ Taken(r) = ctx[r].rest.upto
            THEN [ctx[r] EXCEPT !.rest.from = Taken(r) + 1]
       ELSE [ctx[r] EXCEPT !.rest.upto = Taken(r), !.rest.breaks = FALSE,
                           !.payload = IF a.units <= MaxBody THEN a.body ELSE Text("cut")]

(* The part of OperateLogMiddleware before c.Next(): allowQuotaOrAbort may  *)
(* end what a merchant creates.                                             *)
QuotaAsked(a) ==
    /\ Logged(a) /\ a.method = "POST" /\ ActionFromRequest(a.method, a.marks) = "create"
    /\ usageKindOf(ClassifyPath(a.path).resource) # "" /\ ~skipUsageMerchant(a.merchant)

Capture(r) ==
    /\ Stage(r, "capture")
    /\ \/ /\ Goes(r)
          /\ ctx' = [ctx EXCEPT ![r] = IF Logged(ctx[r].ask) THEN readRequestBody(r) ELSE @]
       \/ /\ QuotaAsked(ctx[r].ask)
          /\ todo' = [todo EXCEPT ![r] = <<>>]
          /\ UNCHANGED ctx
    /\ UNCHANGED <<pairs, doc, row>>

(* What follows when the chain ends, or is aborted, below this request's    *)
(* OperateLogMiddleware.                                                    *)
Unwound_Always(r) == <<"save">>
Unwound(r) ==
    IF Logged(ctx[r].ask) /\ "capture" \notin {todo[r][i] : i \in DOMAIN todo[r]} THEN <<"save">> ELSE <<>>

(* Request.ParseForm of the standard library, whose error Verify ignores:    *)
(* once, it reads an urlencoded body to its end, of which it lists what is    *)
(* still there, or nothing if that breaks off, and appends the URL's query.   *)
ReadsForm(a) == a.ctype = "form" /\ a.method \in {"POST", "PUT", "PATCH"}
FromBody(r) ==
    LET form == ctx[r].ask.form  rest == ctx[r].rest
    IN IF ~ReadsForm(ctx[r].ask) \/ rest.breaks THEN <<>>
       ELSE SubSeq(form, rest.from, IF rest.upto < Len(form) THEN rest.upto ELSE Len(form))
Parsed(r) == IF ctx[r].form # <<>> THEN ctx[r].form ELSE FromBody(r) \o ctx[r].ask.query

(* StaticUUMD5Verifier.Verify, CallbackAuth: a rejection aborts. *)
Verified(r) == VerifyUUMD5(VerifierParams(Parsed(r), ctx[r].ask.query), Keys)

CallbackAuth(r) ==
    /\ Stage(r, "verify")
    /\ ctx' = [ctx EXCEPT ![r].form = Parsed(r),
                          ![r].verdict = IF Verified(r) THEN "passed" ELSE "rejected",
                          ![r].rest.from = IF ReadsForm(ctx[r].ask) THEN ctx[r].rest.upto + 1 ELSE @]
    /\ todo' = [todo EXCEPT ![r] = IF Verified(r) THEN Tail(@) ELSE Unwound(r)]
    /\ UNCHANGED <<pairs, doc, row>>

(* Nothing is read for a create, and a read that fails leaves no image. *)
Snapshot(r) ==
    /\ Stage(r, "snapshot")
    /\ Goes(r)
    /\ \/ /\ ctx[r].ask.method \in {"PUT", "PATCH", "DELETE"}
          /\ ctx' = [ctx EXCEPT ![r].before = loadBefore(ctx[r].ask), ![r].alone = TRUE]
       \/ UNCHANGED ctx
    /\ UNCHANGED <<pairs, doc, row>>

-----------------------------------------------------------------------------
(* The handler.  A create stores the body under the merchant it acts for,   *)
(* an update sets the keys of the body and leaves the others, a delete       *)
(* removes the document; only its own merchant may, or a caller that is     *)
(* bound to all of them or, as a super-admin can be, to none.               *)
Owner(a) == firstNonEmpty(<<IF skipUsageMerchant(a.merchant) THEN "" ELSE a.merchant, bodyMerchant(a.body)>>)
Stamp(v, t) == [p \in DOMAIN v \cup {<<"_", "updated_at">>} |-> IF p = <<"_", "updated_at">> THEN t ELSE v[p]]

Created(a) ==
    LET own == {<<"_id">>, <<"_", "merchant_id">>}
    IN Stamp([p \in DOMAIN a.body \cup own |->
                CASE p = <<"_id">> -> "i1" [] p = <<"_", "merchant_id">> -> Owner(a) [] OTHER -> a.body[p]], "t1")
Updated(v, body) ==
    LET set == {p \in DOMAIN body : Head(p) \notin {"id", "_id", "_"}}
        kept == {p \in DOMAIN v : \A q \in set : Head(p) # Head(q)}
    IN Stamp([p \in set \cup kept |-> IF p \in set THEN body[p] ELSE v[p]], "t2")

MayWork(r) ==
    LET a == ctx[r].ask
        its == a.merchant \in {Field(doc, <<"_", "merchant_id">>), "*", ""}
    IN a.writes =>
         CASE a.method = "POST" -> doc = Nil /\ Whole(r)
           [] a.method \in {"PUT", "PATCH"} -> doc # Nil /\ its /\ Whole(r)
           [] OTHER -> doc # Nil /\ its

Result(r) ==
    LET a == ctx[r].ask
    IN CASE ~a.writes -> doc
         [] a.writes /\ a.method = "POST" -> Created(a)
         [] a.writes /\ a.method \in {"PUT", "PATCH"} -> Updated(doc, a.body)
         [] OTHER -> Nil

(* c.Next(): the handler works, answers an error, or panics before or after *)
(* it has worked; a panic passes by saveOperationLog.                       *)
Handle(r) ==
    /\ Stage(r, "handle")
    /\ \E worked \in {w \in BOOLEAN : w => MayWork(r)}, panics \in BOOLEAN :
          /\ doc' = IF worked THEN Result(r) ELSE doc
          /\ ctx' = [q \in Req |->
                IF q = r THEN [ctx[r] EXCEPT !.ok = worked /\ ~panics, !.old = doc, !.new = doc']
                ELSE [ctx[q] EXCEPT !.alone = @ /\ doc' = doc]]
          /\ todo' = [todo EXCEPT ![r] = IF panics THEN <<>> ELSE Unwound(r)]
    /\ UNCHANGED <<pairs, row>>

-----------------------------------------------------------------------------
(* parseOperationFields: headers, body, namespace; a merchant that names     *)
(* nobody, and a delete, take the one of the before-image.                   *)
action(r) == ActionFromRequest(ctx[r].ask.method, ctx[r].ask.marks)
resource(r) == ClassifyPath(ctx[r].ask.path).resource

merchantID_Header(r) == firstNonEmpty(<<ctx[r].ask.merchant, bodyMerchant(ctx[r].payload), ctx[r].ask.namespace>>)
merchantID(r) ==
    LET asked == firstNonEmpty(<<ctx[r].ask.merchant, bodyMerchant(ctx[r].payload), ctx[r].ask.namespace>>)
        found == merchantFromBefore(ctx[r].before)
    IN IF (skipUsageMerchant(asked) \/ action(r) = "delete") /\ found # "" THEN found ELSE asked

(* usageBytes: what the handler said, the size in the before-image, or the  *)
(* length of the request, which is -1, so 1, when it was not declared.       *)
usageBytes(r) ==
    LET a == ctx[r].ask
    IN firstNonEmpty(<<IF a.sized THEN firstNonEmpty(<<Field(ctx[r].new, <<"size">>), Field(ctx[r].old, <<"size">>)>>)
                       ELSE "",
                       Field(ctx[r].before, <<"size">>),
                       IF a.units = 0 THEN "" ELSE IF a.declared THEN "length" ELSE "one">>)

(* UsageFromOperation, enqueueUsageFromLog, EnqueueUsage. *)
NoUsage == [delta |-> 0, kind |-> "", bytes |-> ""]
usageEvent(r) ==
    LET kind == usageKindOf(resource(r))
    IN IF ~ctx[r].ok \/ action(r) \notin {"create", "delete"} \/ kind = "" \/ skipUsageMerchant(merchantID(r))
       THEN NoUsage
       ELSE [delta |-> IF action(r) = "create" THEN 1 ELSE -1, kind |-> kind,
             bytes |-> IF kind = "image" THEN usageBytes(r) ELSE ""]

(* RedactJSON again cuts what redaction and escaping made longer than        *)
(* maxAuditBody; a unit leaves room for that growth.                         *)
After(r) ==
    {RedactJSON(ctx[r].payload)} \cup
    (IF ctx[r].ask.units = MaxBody /\ MapOrNil(ctx[r].payload) THEN {Text("cut")} ELSE {})

(* saveOperationLog: redact, compress, and mark the row with the outcome. *)
Save(r) ==
    /\ Stage(r, "save")
    /\ Goes(r)
    /\ \E after \in After(r) : \E sides \in CompressAuditBodies(action(r), ctx[r].before, after) :
          row' = [row EXCEPT ![r] =
              [action |-> action(r), resource |-> resource(r), merchant |-> merchantID(r),
               status |-> ctx[r].ok, before |-> sides[1], after |-> sides[2],
               usage |-> usageEvent(r), remote |-> clientRemoteIP(ctx[r].ask.arrival)]]
    /\ UNCHANGED <<pairs, doc, ctx>>

Next == \E r \in Req : Arrive(r) \/ Capture(r) \/ CallbackAuth(r) \/ Snapshot(r) \/ Handle(r) \/ Save(r)

Spec == Init /\ [][Next]_vars

-----------------------------------------------------------------------------
(* Type invariant of the requests. *)
TypeOK ==
    /\ IsValue(doc)
    /\ \A r \in Req :
          /\ todo[r] \in Seq({"arrive", "verify", "capture", "snapshot", "handle", "save"})
          /\ ctx[r].ask \in Asks[r] \cup {NoAsk}
          /\ ctx[r].rest.from \in Nat /\ ctx[r].rest.upto \in Nat
          /\ \A v \in {ctx[r].payload, ctx[r].before, ctx[r].old, ctx[r].new} : IsValue(v)
          /\ {ctx[r].ok, ctx[r].alone} \subseteq BOOLEAN
          /\ ctx[r].verdict \in {"none", "passed", "rejected"}
          /\ Stage(r, "save") => Logged(ctx[r].ask)
          /\ Saved(r) => Logged(ctx[r].ask) /\ row[r].usage.delta \in {-1, 0, 1}

(* The path's own collection is the first of the rules given in order, or   *)
(* the only one among those given as a map.                                 *)
OwnRuleFirst(a) ==
    LET byHand == {i \in DOMAIN Rules : Registrable(Rules[i]) /\ Rules[i].substr \in a.contains}
        others == {x \in MapRules : Registrable(x) /\ x.substr \in a.contains}
    IN IF byHand # {} THEN Rules[Min(byHand)].coll = a.coll
       ELSE others # {} /\ \A x \in others : x.coll = a.coll

(* The before-image is the document the handler found. *)
ImageHolds(r) ==
    /\ ctx[r].alone
    /\ OwnRuleFirst(ctx[r].ask)
    /\ \A p \in DOMAIN ctx[r].old : ctx[r].old[p] \notin Huge

AllChanges(r) ==
    /\ Saved(r)
    /\ ParseAuditDiffAfter(row[r].after)
    /\ Cardinality(row[r].after.changes) < MaxChanges

(* A diff that can be read back and is not at the limit of maxAuditChanges  *)
(* loses nothing: applied to the before-image it gives the redacted body, in *)
(* every field that is not to be hidden (DiffAuditJSON, CompressAuditBodies). *)
DiffReplays ==
    \A r \in Req : AllChanges(r) =>
        \E b \in normalizeAuditValue(ctx[r].before), v \in After(r) : \E a \in normalizeAuditValue(v) :
            Open(Replay(b, row[r].after.changes)) = Open(a)

(* Keys at the top of a value that end as one stand side by side: none is   *)
(* lifted from below "_" to where another one is.                           *)
Top(p) == Head(NormPath(p))
Apart(v) == \A p, q \in DOMAIN v : Top(p) = Top(q) => Head(p) = Head(q)

(* The row of an update that succeeded tells what the update did, although  *)
(* it compares a body with an image read earlier: each field that changed   *)
(* in the document is listed with its two values, and whatever is listed as *)
(* added or changed did change.  It takes a body that was captured whole, an *)
(* image nobody overtook, no two keys that normalise to one, a body that    *)
(* says of the keys no update sets what the document says, and a document   *)
(* with no key that is redacted but not skipped (CompressAuditBodies).      *)
RowTellsTheWrite ==
    \A r \in Req :
        LET a == ctx[r].ask
            old == sanitizeDoc(ctx[r].old)
            body == RedactJSON(a.body)
            new == RedactJSON(ctx[r].new)
            was == CHOOSE v \in normalizeAuditValue(old) : TRUE
            said == CHOOSE v \in normalizeAuditValue(body) : TRUE
            now == CHOOSE v \in normalizeAuditValue(new) : TRUE
            changes == row[r].after.changes
        IN /\ Saved(r) /\ row[r].action = "update" /\ row[r].status
           /\ a.writes /\ a.method \in {"PUT", "PATCH"}
           /\ row[r].after.is # "cut" /\ Cardinality(changes) < MaxChanges
           /\ ImageHolds(r)
           /\ ctx[r].payload = a.body /\ a.units < MaxBody
           /\ \A v \in {old, body, new} : MapOrNil(v) /\ Colliding(v) = {} /\ Apart(v)
           /\ \A p \in DOMAIN body : Head(p) \in {"id", "_id", "_"} => At(said, <<Top(p)>>) = At(was, <<Top(p)>>)
           /\ \A p \in DOMAIN ctx[r].old : \A i \in DOMAIN p : p[i] \notin sensitiveBodyKeys \ auditSkipExact
           => /\ \A p \in DOMAIN Open(was) \cup DOMAIN Open(now) :
                    Field(was, p) # Field(now, p) =>
                        \E e \in changes : /\ IsPrefix(e.path, p)
                                            /\ e.before = At(was, e.path) /\ e.after = At(now, e.path)
              /\ \A e \in changes : e.kind # "removed" =>
                    /\ e.before = At(was, e.path) /\ e.after = At(now, e.path) /\ e.before # e.after

(* What a captured JSON body holds below a sensitive key, at any depth,     *)
(* reaches no row (RedactJSON before CompressAuditBodies).                  *)
SecretsStayOut ==
    \A r \in Req : Saved(r) /\ ctx[r].payload = ctx[r].ask.body /\ MapOrNil(ctx[r].payload) =>
        \A v \in {row[r].after.value} \cup {e.after : e \in row[r].after.changes} :
            \A p \in DOMAIN v : v[p] \notin Secrets

(* The capture takes nothing from the handler: it reads the body to its end *)
(* unless the sender broke off, or did not say how long it is and sent more *)
(* than maxAuditBody and one unit; a verified form is there as parsed, with   *)
(* every parameter that was sent.                                           *)
TooLong(a) == ~a.declared /\ a.units > MaxBody + 1
Sent(a) == (IF ReadsForm(a) THEN a.form ELSE <<>>) \o a.query
BodyReachesHandler ==
    \A r \in Req : Stage(r, "handle") =>
        LET a == ctx[r].ask
        IN \/ Unread(r)
           \/ a.broken \/ TooLong(a)
           \/ ctx[r].verdict = "passed" /\ ReadsForm(a) /\ ctx[r].form = Sent(a)

(* One of the candidate keys signed the text of these parameters. *)
Signed(form, query) ==
    LET params == VerifierParams(form, query)
        text == CanonicalSortedKV(params)
    IN /\ text # <<>> /\ "sign" \in DOMAIN params
       /\ \E k \in Keys \ {""} : SignEqualConstantTime(params["sign"], UUMD5Sign(text, k))

(* A callback is let through exactly when one of the candidate keys signed  *)
(* the text of the parameters that were sent, in an urlencoded body and the  *)
(* query, wherever the audit capture stands in the chain.  Of a body that    *)
(* broke off or that the capture may have cut, what passes is still what was *)
(* signed and what the handler finds in the form (StaticUUMD5Verifier).  The *)
(* text, not the parameters, is signed, and no body of another type is.     *)
CallbackIsGenuine ==
    \A r \in Req : ctx[r].verdict # "none" =>
        LET a == ctx[r].ask
        IN /\ ctx[r].verdict = "passed" => Signed(ctx[r].form, a.query)
           /\ ~a.broken /\ ~TooLong(a) => (ctx[r].verdict = "passed" <=> Signed(Sent(a), a.query))

(* Whichever hops the request came by, the row has the visitor's address and *)
(* not an edge's, a gateway's or one the visitor made up (clientip.go:12-17). *)
RemoteIPIsVisitor == \A r \in Req : Saved(r) => row[r].remote = Visitor

(* A path to a module, as services mount it. *)
ToModule(path) ==
    /\ Len(path) = 4 /\ path[1] = "v1" /\ path[2] \in pathNamespaces
    /\ path[3] # ":id" /\ path[4] \notin pathPlatforms \cup {":id"}

(* Other spellings of a path to the same module: an id, another namespace, a *)
(* platform in between, the module without its service.                      *)
Aliases(path) ==
    LET service == path[3]  module == path[4]
    IN {path \o <<":id">>}
       \cup {<<"v1", ns, service, module>> : ns \in pathNamespaces}
       \cup {<<"v1", path[2], service, x, module>> : x \in pathPlatforms}
       \cup {<<"v1", path[2], m>> : m \in {m \in {module} \cap DOMAIN orphanModules : orphanModules[m] = service}}

(* However the path to a module is spelt, its rows and usage events are      *)
(* filed under one resource, so a create and a delete move one counter.      *)
SameResource ==
    \A r \in Req : Saved(r) /\ ToModule(ctx[r].ask.path) =>
        \A p \in Aliases(ctx[r].ask.path) :
            ClassifyPath(p) = ClassifyPath(ctx[r].ask.path) /\ ClassifyPath(p).resource = row[r].resource

(* A delete gives back what the create took, whoever removes the document:  *)
(* the event of a metered resource is -1 for the merchant of the document,   *)
(* and for an image it has its size (parseOperationFields, usageBytes).  The *)
(* document names no other merchant where merchantFromBefore looks first.   *)
NamesOne(v, owner) ==
    \A p \in {<<"merchant_id">>, <<"meta", "merchant_id">>} : Field(v, p) \in {"", owner}
DeleteUndoesCreate ==
    \A r \in Req :
        LET owner == Field(ctx[r].old, <<"_", "merchant_id">>)
            size == Field(ctx[r].old, <<"size">>)
        IN /\ Saved(r) /\ row[r].action = "delete" /\ row[r].status /\ ctx[r].ask.writes
           /\ ImageHolds(r) /\ ~skipUsageMerchant(owner) /\ NamesOne(ctx[r].old, owner)
           /\ usageKindOf(row[r].resource) # ""
           => /\ row[r].usage.delta = -1 /\ row[r].merchant = owner
              /\ row[r].usage.kind = "image" /\ size # "" => row[r].usage.bytes = size

=============================================================================
