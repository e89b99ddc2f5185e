----------------------------- MODULE PathClass -----------------------------
(***************************************************************************)
(* The service, module and usage resource of a request path                *)
(* (oplog_classify.go) and the business action of a request (oplog.go).    *)
(* A path is the sequence of its lower-case segments; ":id" stands for a   *)
(* route parameter.  The Chinese labels are wording and are left out.      *)
(***************************************************************************)
EXTENDS Integers, Sequences, SequencesExt, FiniteSetsExt, Subsequence

pathNamespaces == {"hlj", "system", "gyb"}
pathServices ==
    {"client", "member", "order", "product", "store", "finance", "device", "feedback", "active",
     "scm", "transport", "merchant", "auth", "fs", "pay", "data", "message"}
pathPlatforms == {"mini", "pos", "pad", "rpc", "open", "common", "admin"}

(* Modules that appear without a service segment, by their service; an      *)
(* orphan segment is its own module.                                        *)
orphanModules ==
    [password |-> "auth", products |-> "product", property |-> "product", menu |-> "product",
     material |-> "scm", supplier |-> "scm", recipe |-> "scm", inventory |-> "scm",
     purchase |-> "scm", inbound |-> "scm", outbound |-> "scm", process |-> "scm",
     stocktake |-> "scm", campaign |-> "active", coupon |-> "active", ticket |-> "active",
     record |-> "active", qrcode |-> "store"]

Class(service, module, resource) ==
    [service |-> service, module |-> module, resource |-> resource]
otherClass == Class("", "", "other")

(* Parameters are dropped, then a leading version. *)
pathSegments(path) ==
    LET segs == Only(path, {i \in DOMAIN path : path[i] # ":id"})
    IN IF segs # <<>> /\ Head(segs) = "v1" THEN Tail(segs) ELSE segs

aliasModule(service, module) ==
    CASE module = "mp-dist" -> "mp"
      [] module = "notify" /\ service = "client" -> "notification"
      [] module = "address" /\ service = "member" -> "addresses"
      [] OTHER -> module

(* pickModule: the first segment that is no platform, else the first one.   *)
(* Operators whose name has an underscore are slips a run must catch.       *)
pickModule_First(service, rest) == IF rest = <<>> THEN "" ELSE aliasModule(service, Head(rest))
pickModule(service, rest) ==
    LET business == {i \in DOMAIN rest : rest[i] \notin pathPlatforms}
    IN IF rest = <<>> THEN ""
       ELSE aliasModule(service, IF business # {} THEN rest[Min(business)] ELSE Head(rest))

authResource ==
    [account |-> "admin_account", role |-> "role", tenant |-> "tenant", app |-> "app",
     password |-> "password"]

legacyResource(service, module) ==
    CASE service = "fs" -> "image"
      [] service = "member" /\ module \in {"addresses", "address"} -> "member_address"
      [] service = "member" /\ module = "level" -> "member_level"
      [] service = "auth" ->
             IF module \in DOMAIN authResource THEN authResource[module]
             ELSE IF module = "" THEN "auth" ELSE module
      [] service = "active" -> "campaign"
      [] OTHER -> service

(* finishClass, with the rule that everything under fs that is not a named  *)
(* module of its own is an image.                                           *)
finishClass(service, rest) ==
    LET picked == pickModule(service, rest)
        module == IF service = "fs" /\ (picked \in {"", "client"} \/ Contains(rest, "image"))
                  THEN "image" ELSE picked
    IN Class(service, module, legacyResource(service, module))

ClassifyPath(path) ==
    LET segs == pathSegments(path)
        known == IF segs # <<>> /\ Head(segs) \in pathNamespaces THEN Tail(segs) ELSE segs
    IN CASE known = <<>> -> otherClass
         [] known # <<>> /\ Head(known) \in pathServices -> finishClass(Head(known), Tail(known))
         [] known # <<>> /\ Head(known) \in DOMAIN orphanModules ->
                finishClass(orphanModules[Head(known)], known)
         [] OTHER -> otherClass

ActionFromMethod(method) ==
    CASE method = "POST" -> "create"
      [] method \in {"PUT", "PATCH"} -> "update"
      [] method = "DELETE" -> "delete"
      [] OTHER -> method

(* marks: the words ActionFromRequest finds in the path or the raw query. *)
ActionFromRequest(method, marks) ==
    IF "/send" \in marks THEN "notify"
    ELSE IF marks \cap {"/transfer", "ts="} # {} THEN "transfer"
    ELSE IF "/reset" \in marks THEN "reset"
    ELSE IF marks \cap {"/enable", "/disable"} # {} THEN "update"
    ELSE ActionFromMethod(method)

(* usageKindOf (usage.go): the resources that are metered. *)
meteredResources ==
    {"image", "product", "order", "member", "store", "scm", "campaign", "device", "feedback",
     "client", "finance"}
usageKindOf(resource) == IF resource \in meteredResources THEN resource ELSE ""
=============================================================================
