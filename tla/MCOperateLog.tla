---------------------------- MODULE MCOperateLog ----------------------------
(* Constants of the model-checking run of the requests that are logged. *)
EXTENDS OperateLog, TLC

CONSTANTS r1, r2

TwoReqs == {r1, r2}

Address == [real |-> Edge, forwarded |-> Forged, cf |-> Visitor, direct |-> Gateway]

(* An update of an image by its merchant; the other requests vary it. *)
Base == [method |-> "PUT", path |-> <<"v1", "system", "fs", "image">>, marks |-> {},
         contains |-> {"/image", "/i"}, coll |-> "images", merchant |-> "m1", namespace |-> "n",
         body |-> (<<"id">> :> "i1" @@ <<"name">> :> "b" @@ <<"password">> :> "secret"
                   @@ <<"data", "token">> :> "secret"),
         form |-> <<>>, query |-> <<>>, ctype |-> "json", units |-> 1, declared |-> TRUE,
         broken |-> FALSE, sized |-> FALSE, skipped |-> FALSE, writes |-> TRUE,
         chain |-> <<"capture", "snapshot", "handle">>, arrival |-> Address]

Updates ==
    {Base,
     [Base EXCEPT !.method = "PATCH", !.body = <<"name">> :> "b", !.chain = <<"snapshot", "capture", "handle">>],
     [Base EXCEPT !.body = <<"_id">> :> "i1" @@ <<"data", "x">> :> "1" @@ <<"status">> :> "on", !.merchant = "*"],
     [Base EXCEPT !.body = <<"_", "merchant_id">> :> "m1" @@ <<"size">> :> "s3"],
     [Base EXCEPT !.contains = {"/i"}],
     [Base EXCEPT !.contains = {"/pic"}],
     [Base EXCEPT !.contains = {"/pic", "/p"}],
     [Base EXCEPT !.marks = {"ts="}, !.writes = FALSE]}

Lengths ==
    {[Base EXCEPT !.units = n, !.declared = d] : n \in {2, 3, 4}, d \in BOOLEAN}
    \cup {[Base EXCEPT !.broken = TRUE], [Base EXCEPT !.broken = TRUE, !.units = 4, !.declared = FALSE], [Base EXCEPT !.method = "GET", !.body = Nil, !.units = 0, !.writes = FALSE],
          [Base EXCEPT !.skipped = TRUE, !.units = 4, !.declared = FALSE]}

Upload == [Base EXCEPT !.method = "POST", !.ctype = "upload", !.units = 4, !.sized = TRUE,
                       !.body = <<"name">> :> "a" @@ <<"size">> :> "s2"]
Deletion == [Base EXCEPT !.method = "DELETE", !.body = Nil, !.units = 0]

Lives ==
    {Upload, [Upload EXCEPT !.sized = FALSE], Deletion, [Deletion EXCEPT !.merchant = "*"],
     [Deletion EXCEPT !.merchant = ""],
     [Deletion EXCEPT !.contains = {"/pic"}], [Deletion EXCEPT !.sized = TRUE],
     [Base EXCEPT !.method = "POST", !.merchant = "", !.body = @ @@ <<"merchant_id">> :> "m2"]}

Is(k, v) == [key |-> k, value |-> v]
Signature(signed, k) == Is("sign", UUMD5Sign(CanonicalSortedKV(VerifierParams(signed, <<>>)), k))

Fee == <<Is("order", <<"o1">>), Is("fee", <<"9">>)>>

(* The platform's call: the form has the parameters, the query the signature. *)
Pay == [Base EXCEPT !.method = "POST", !.path = <<"v1", "pay", "callback">>, !.contains = {}, !.coll = "",
                    !.ctype = "form", !.body = Text("form"), !.form = Fee, !.units = 2,
                    !.query = <<Signature(Fee, "new")>>, !.writes = FALSE,
                    !.chain = <<"capture", "verify", "handle">>]
VerifyFirst(a) == [a EXCEPT !.chain = <<"verify", "capture", "handle">>]

Signatures ==
    LET by(k) == [Pay EXCEPT !.query = <<Signature(Fee, k)>>]
    IN {by("old"), by("new"), by("stray"), VerifyFirst(by("old")), VerifyFirst(by("stray")),
        [Pay EXCEPT !.query = <<>>],
        [Pay EXCEPT !.query = <<Is("sign", <<>>), Signature(Fee, "new")>>],
        [Pay EXCEPT !.query[1].value[1] = "md5"],
        [Pay EXCEPT !.form = <<Is("sign", <<>>), Fee[1]>>, !.query = <<Signature(Fee, "old"), Fee[2]>>],
        [Pay EXCEPT !.form = <<Is("order", <<>>), Is("SIGN", <<"x">>)>>, !.query = <<Signature(<<>>, "new")>>],
        [Pay EXCEPT !.chain = <<"verify", "capture", "verify", "handle">>],
        [Pay EXCEPT !.method = "DELETE", !.writes = FALSE]}

(* Other parameters with the signed text, and with another one. *)
Texts ==
    {[Pay EXCEPT !.form = f] :
        f \in {<<Is("fee", <<"9", "&", "order", "=", "o1">>)>>, <<Fee[1], Is("fee", <<"8">>)>>,
              <<Is("order", <<"O1">>), Fee[2]>>, <<Fee[2], Is("fee", <<"8">>)>>}}

(* Signed parameters in the query of a body that is none or no form. *)
Queries ==
    {[Pay EXCEPT !.ctype = t, !.method = m, !.form = <<>>, !.body = IF t = "json" THEN <<"name">> :> "b" ELSE @,
                 !.query = Fee \o <<Signature(Fee, "new")>>] :
        t \in {"json", "form"}, m \in {"POST", "PATCH"}}

(* Forms as long as the capture reads, and longer: it leaves three units of *)
(* five.  They are signed over the first k units; some break off.           *)
Parts == Fee \o <<Is("note", <<"x">>), Is("note", <<"y">>), Is("to", <<"z">>)>>
LongForms ==
    LET form(n, d, k) == [Pay EXCEPT !.units = n, !.declared = d, !.form = SubSeq(Parts, 1, n),
                                     !.query = <<Signature(SubSeq(Parts, 1, k), "new")>>]
        broken(a) == [a EXCEPT !.broken = TRUE]
    IN {form(3, TRUE, 3), form(3, FALSE, 3), form(5, TRUE, 5), form(5, FALSE, 5), form(5, FALSE, 3),
        VerifyFirst(form(3, FALSE, 3)), VerifyFirst(form(5, FALSE, 5)),
        broken(form(2, FALSE, 2)), broken(form(3, FALSE, 3)), broken(form(5, FALSE, 3)),
        VerifyFirst(broken(form(5, FALSE, 3))),
        broken([form(2, TRUE, 2) EXCEPT !.query = Fee \o <<Signature(Fee, "new")>>])}

Callbacks == Signatures \cup Texts \cup Queries \cup LongForms

Elsewhere ==
    {[Base EXCEPT !.arrival = x] : x \in Arrivals}
    \cup {[Base EXCEPT !.path = <<"v1", "hlj", x[1], x[2]>>, !.writes = FALSE] :
            x \in {<<"member", "level">>, <<"member", "address">>, <<"auth", "password">>, <<"auth", "plan">>,
                   <<"active", "coupon">>, <<"client", "notify">>, <<"fs", "client">>, <<"order", "pad">>}}

(* Any request, and beside it one of another service that changes the       *)
(* document and is not logged.                                              *)
AnyAndRival ==
    LET rival(a) == [a EXCEPT !.skipped = TRUE, !.chain = <<"handle">>]
    IN r1 :> (Updates \cup Lengths \cup Lives \cup Callbacks \cup Elsewhere)
       @@ r2 :> {rival([Base EXCEPT !.body = <<"name">> :> "c" @@ <<"size">> :> "s3"]), rival(Upload), rival(Deletion)}

Stored == <<"_id">> :> "i1" @@ <<"_", "merchant_id">> :> "m1" @@ <<"_", "updated_at">> :> "t0"
          @@ <<"name">> :> "a" @@ <<"size">> :> "s1" @@ <<"password">> :> "hash"

FirstDocuments ==
    {Nil, Stored, Stored @@ <<"note">> :> "long", Stored @@ <<"note">> :> "huge",
     Stored @@ <<"status">> :> "on" @@ <<"_", "status">> :> "true",
     Stored @@ <<"data">> :> "flat"}

LongScalars == {"long", "huge"}
HugeScalars == {"huge"}
SecretScalars == {"secret"}
TwoKeys == {"old", "new", ""}
Names == <<"SIGN", "fee", "note", "order", "sign", "to">>
Capitals == "md5" :> "MD5" @@ "sign" :> "SIGN" @@ "fee" :> "FEE" @@ "note" :> "NOTE" @@ "order" :> "ORDER"
            @@ "to" :> "TO" @@ "key" :> "KEY" @@ "o1" :> "O1" @@ "x" :> "X" @@ "y" :> "Y" @@ "z" :> "Z"
            @@ "old" :> "OLD" @@ "new" :> "NEW" @@ "stray" :> "STRAY"
HandRules == <<[substr |-> "/image", coll |-> "images"], [substr |-> "", coll |-> "none"],
               [substr |-> "/i", coll |-> "items"]>>
MapPairs == {[substr |-> "/pic", coll |-> "images"], [substr |-> "/p", coll |-> "pages"]}
=============================================================================
