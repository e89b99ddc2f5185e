------------------------------ MODULE MCClient ------------------------------
(* Constants of the model-checking run of the client registry. *)
EXTENDS ClientRegistry, TLC

CONSTANTS t1, t2

TwoThreads == {t1, t2}
Codes == {"x9", "x7"}
RawCodes == {"x9", "X9", "x7", "x9;"}
CanonicalOf == [raw \in RawCodes |-> CASE raw \in {"x9", "X9"} -> "x9" [] raw = "x7" -> "x7" [] OTHER -> ""]
Names == {"admin", "office", "counter", "till"}
Defaults == [c \in Codes |-> IF c = "x9" THEN "admin" ELSE ""]
Labels == {"admin", "menu"}
HostDefaults == [l \in Labels |-> IF l = "admin" THEN "x9" ELSE ""]

(* Two spellings of one code, in either order; a host whose code is illegal. *)
NameOrders == {<<>>, <<<<"x9", "office">>, <<"X9", "counter">>>>, <<<<"X9", "counter">>, <<"x9", "office">>>>}
HostOrders == {<<<<"menu", "X9">>, <<"admin", "x9;">>>>}

CallSet ==
    {[op |-> "register", raw |-> "X9", name |-> "till"], [op |-> "register", raw |-> "x9;", name |-> "till"],
     [op |-> "name", raw |-> "x9"], [op |-> "name", raw |-> ""], [op |-> "options"],
     [op |-> "resolve", header |-> "x7", wechat |-> FALSE, hosts |-> <<"admin", "", "">>],
     [op |-> "resolve", header |-> "x9;", wechat |-> FALSE, hosts |-> <<"", "other", "other">>],
     [op |-> "resolve", header |-> "", wechat |-> TRUE, hosts |-> <<"menu", "", "">>],
     [op |-> "resolve", header |-> "", wechat |-> FALSE, hosts |-> <<"", "other", "menu">>],
     [op |-> "resolve", header |-> "", wechat |-> FALSE, hosts |-> <<"tenant", "menu", "">>]}
=============================================================================
