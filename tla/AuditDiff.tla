----------------------------- MODULE AuditDiff -----------------------------
(***************************************************************************)
(* How an audit row's bodies are compressed (audit_compress.go).           *)
(*                                                                         *)
(* A JSON value is a function from paths to scalars: a path is a sequence  *)
(* of keys, and the domain holds the paths of the leaves.  Nil, and an     *)
(* empty object, is the function with no path; a scalar, or a text that is *)
(* not JSON, is a function of the empty path alone.  Arrays are compared   *)
(* whole, so an array is a scalar.  The recursive walk over two objects is *)
(* stated by the paths it reports.  Go visits a map in random order: where *)
(* that shows, an operator returns the set of the possible results.        *)
(***************************************************************************)
EXTENDS Integers, FiniteSets, Sequences, SequencesExt, FiniteSetsExt, Subsequence

CONSTANTS
    MaxChanges,   \* maxAuditChanges
    Long          \* scalars longer than maxAuditHotBytes

ASSUME DiffAssumption == MaxChanges \in Nat \ {0}

Nil == <<>>
Text(s) == [p \in {<<>>} |-> s]
MapOrNil(v) == <<>> \notin DOMAIN v

(* The value below path p: Nil where there is none. *)
At(v, p) ==
    LET below == {q \in DOMAIN v : IsPrefix(p, q)}
    IN [q \in {SubSeq(r, Len(p) + 1, Len(r)) : r \in below} |-> v[p \o q]]

auditSkipExact ==
    {"password", "passwd", "old_password", "new_password", "token", "access_token",
     "refresh_token", "secret", "session_key", "jwt", "otp", "otp_secret", "opt_secret",
     "sms_code", "authorization", "cookie", "context", "logs", "phone_hash", "phone_enc",
     "phone_sec", "private", "merchant_api_key", "api_key", "user_key"}

(* The keys met here that end in a suffix are the suffixes themselves. *)
auditSkipSuffix == {"updated_at", "updated_time", "created_time", "created_at", "join_at"}

auditSummaryKeys ==
    {"id", "_id", "name", "nickname", "title", "status", "level", "merchant_id", "account_id",
     "user_id", "target_id", "phone", "email", "code", "type"}

skipAuditPath(p) ==
    /\ p # <<>>
    /\ \/ Last(p) \in auditSkipExact \cup auditSkipSuffix
       \/ Head(p) = "logs"
       \/ Head(p) = "context" /\ Len(p) > 1

-----------------------------------------------------------------------------
(* normalizeAuditValue drops context and logs, lifts what is below "_" and *)
(* calls _id id; below "_" a key keeps its name, logs stay, and a meta that *)
(* is no object goes.  (No "_" stands directly below a "_".)  Keys, of      *)
(* leaves here, that end as one overwrite each other: the last visited stays. *)
Lifted(p, i) == i > 1 /\ p[i - 1] = "_"

NormPath(p) ==
    LET renamed == [i \in DOMAIN p |-> IF p[i] = "_id" /\ ~Lifted(p, i) THEN "id" ELSE p[i]]
    IN Only(renamed, {i \in DOMAIN p : p[i] # "_"})

NormPaths(v) ==
    {p \in DOMAIN v : /\ \A i \in DOMAIN p : p[i] # "context" /\ (p[i] = "logs" => Lifted(p, i))
                      /\ p # <<>> => Last(p) # "_" /\ ~(Last(p) = "meta" /\ Lifted(p, Len(p)))}

Sources(v, q) == {p \in NormPaths(v) : NormPath(p) = q}
Colliding(v) == {q \in {NormPath(p) : p \in NormPaths(v)} : \E p, o \in Sources(v, q) : p # o}

(* last: of the keys that end as one, the one visited last. *)
Normal(v, last) ==
    [q \in {NormPath(p) : p \in NormPaths(v)} |->
        v[IF q \in Colliding(v) THEN last[q] ELSE CHOOSE p \in Sources(v, q) : TRUE]]

normalizeAuditValue(v) ==
    {Normal(v, last) : last \in {f \in [Colliding(v) -> NormPaths(v)] :
                                    \A q \in Colliding(v) : f[q] \in Sources(v, q)}}

-----------------------------------------------------------------------------
(* diffAuditValue: at every path it is not told to skip it goes on where   *)
(* both sides are objects or absent, and reports a difference elsewhere.   *)
(* An operator with an underscore in its name is a slip a run must catch.  *)
Reported(b, a, p) ==
    /\ At(b, p) # At(a, p)
    /\ ~(MapOrNil(At(b, p)) /\ MapOrNil(At(a, p)))
    /\ \A i \in 0..Len(p) : ~skipAuditPath(SubSeq(p, 1, i))
    /\ \A i \in 0..(Len(p) - 1) :
          MapOrNil(At(b, SubSeq(p, 1, i))) /\ MapOrNil(At(a, SubSeq(p, 1, i)))

Kind(b, a) == IF b = Nil THEN "added" ELSE IF a = Nil THEN "removed" ELSE "changed"

Visited(b, a) == UNION {Prefixes(p) : p \in DOMAIN b \cup DOMAIN a}

diffAuditValue_KeepOld(b, a) ==
    {[path |-> p, before |-> At(b, p), after |-> At(a, p), kind |-> Kind(At(b, p), At(a, p))] :
        p \in {p \in Visited(b, a) : Reported(b, a, p) /\ At(a, p) # Nil}}
diffAuditValue(b, a) ==
    {[path |-> p, before |-> At(b, p), after |-> At(a, p), kind |-> Kind(At(b, p), At(a, p))] :
        p \in {p \in Visited(b, a) : Reported(b, a, p)}}

(* DiffAuditJSON keeps the first MaxChanges changes of the walk, taken here *)
(* as some of them.                                                        *)
FirstChanges(all) ==
    IF Cardinality(all) > MaxChanges THEN kSubset(MaxChanges, all) ELSE {all}

DiffAuditJSON(before, after) ==
    UNION {FirstChanges(diffAuditValue(b, a)) :
              b \in normalizeAuditValue(before), a \in normalizeAuditValue(after)}

-----------------------------------------------------------------------------
(* What a row's Before or After holds: nothing, a value, a diff envelope or *)
(* a text cut at maxAuditHotBytes, which no longer parses.                 *)
Side(is, value, changes) == [is |-> is, value |-> value, changes |-> changes]
Nothing == Side("none", Nil, {})
HasLong(v) == \E p \in DOMAIN v : v[p] \in Long

truncateAuditBytes(v) ==
    IF v = Nil THEN Nothing
    ELSE IF HasLong(v) THEN Side("cut", Nil, {}) ELSE Side("value", v, {})

Envelope(changes) ==
    CASE changes = {} -> Nothing
      [] \E e \in changes : HasLong(e.before) \/ HasLong(e.after) -> Side("cut", Nil, {})
      [] OTHER -> Side("diff", Nil, changes)

(* compactAuditSummary keeps the summary keys; the merchant below "_" wins. *)
compactAuditSummary(v) ==
    IF ~MapOrNil(v) THEN v
    ELSE LET owner == <<"_", "merchant_id">>
             kept == {p \in DOMAIN v : Head(p) \in auditSummaryKeys}
         IN IF owner \in DOMAIN v
            THEN [p \in kept \cup {<<"merchant_id">>} |->
                    IF p = <<"merchant_id">> THEN v[owner] ELSE v[p]]
            ELSE [p \in kept |-> v[p]]

CompressAuditBodies(action, before, after) ==
    CASE action = "update" ->
             {<<Nothing, Envelope(changes)>> : changes \in DiffAuditJSON(before, after)}
      [] action = "create" -> {<<Nothing, truncateAuditBytes(compactAuditSummary(after))>>}
      [] action = "delete" -> {<<truncateAuditBytes(compactAuditSummary(before)), Nothing>>}
      [] OTHER -> {<<truncateAuditBytes(before), truncateAuditBytes(after)>>}

(* ParseAuditDiffAfter: does a reader get the changes back? *)
ParseAuditDiffAfter(side) == side.is = "diff"

-----------------------------------------------------------------------------
(* For the properties: the part of a value that no skipped key hides, and  *)
(* what a reader gets by applying a row's changes to the value before.     *)
Open(v) ==
    LET shown == {p \in DOMAIN v : \A i \in 1..Len(p) : ~skipAuditPath(SubSeq(p, 1, i))}
    IN [p \in shown |-> v[p]]

Replay(v, changes) ==
    LET gone == {p \in DOMAIN v : \E e \in changes : IsPrefix(e.path, p)}
        new(e) == {e.path \o q : q \in DOMAIN e.after}
        paths == (DOMAIN v \ gone) \cup UNION {new(e) : e \in changes}
        of(p) == {e \in changes : p \in new(e)}
    IN [p \in paths |-> IF of(p) = {} THEN v[p]
                        ELSE LET e == CHOOSE e \in of(p) : TRUE
                             IN e.after[SubSeq(p, Len(e.path) + 1, Len(p))]]
=============================================================================
