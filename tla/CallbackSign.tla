---------------------------- MODULE CallbackSign ----------------------------
(***************************************************************************)
(* The signature of a platform callback (callback_auth.go).  A string is a  *)
(* sequence of tokens, trimmed, so that what is joined without escaping can *)
(* be told apart from its parts or not, as in the code; a blank one is      *)
(* <<>>.  MD5 is the identity on the text it hashes: no two texts share a    *)
(* digest, but different parameters may share a text.                       *)
(***************************************************************************)
EXTENDS Integers, Sequences

CONSTANTS
    KeyOrder,    \* the parameters' names in the order of sort.Strings
    Capital      \* the tokens strings.ToUpper changes, and what they become

Upper(s) == [i \in DOMAIN s |-> IF s[i] \in DOMAIN Capital THEN Capital[s[i]] ELSE s[i]]

(* CanonicalSortedKV: k=v joined by &, without blank values and without the  *)
(* signature, however its name is spelt.  params maps names to strings.     *)
CanonicalSortedKV(params) ==
    LET Listed(k) == k \in DOMAIN params /\ Upper(<<k>>) # Upper(<<"sign">>) /\ params[k] # <<>>
        keys == SelectSeq(KeyOrder, Listed)
        text[i \in 0..Len(keys)] ==
            IF i = 0 THEN <<>>
            ELSE (IF i = 1 THEN <<>> ELSE text[i - 1] \o <<"&">>) \o <<keys[i], "=">> \o params[keys[i]]
    IN text[Len(keys)]

UUMD5Sign(payload, key) == <<"MD5">> \o Upper(payload \o <<"&", "key", "=", key>>)

SignEqualConstantTime(got, want) == got # <<>> /\ want # <<>> /\ Upper(got) = Upper(want)

(* VerifyUUMD5: no signature, nothing signed and a blank key never verify. *)
(* Operators whose name has an underscore are slips a run must catch.      *)
VerifyUUMD5_FirstKey(params, keys) ==
    LET payload == CanonicalSortedKV(params)
    IN /\ "sign" \in DOMAIN params
       /\ payload # <<>>
       /\ \E k \in {CHOOSE k \in keys : TRUE} : k # "" /\ SignEqualConstantTime(params["sign"], UUMD5Sign(payload, k))
VerifyUUMD5(params, keys) ==
    LET payload == CanonicalSortedKV(params)
    IN /\ "sign" \in DOMAIN params
       /\ payload # <<>>
       /\ \E k \in keys : k # "" /\ SignEqualConstantTime(params["sign"], UUMD5Sign(payload, k))

(* StaticUUMD5Verifier: of every parameter of the form the first value, if   *)
(* it is not blank; a signature that is missing then is taken from the query. *)
Given(list, k) == SelectSeq(list, LAMBDA p : p.key = k)
HasFirst(list, k) == Given(list, k) # <<>> /\ Given(list, k)[1].value # <<>>
VerifierParams(form, query) ==
    LET given == {k \in {form[i].key : i \in DOMAIN form} : HasFirst(form, k)}
        sign == IF HasFirst(query, "sign") THEN {"sign"} ELSE {}
    IN [k \in given \cup sign |-> Given(IF k \in given THEN form ELSE query, k)[1].value]
=============================================================================
