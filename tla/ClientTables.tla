---------------------------- MODULE ClientTables ----------------------------
(***************************************************************************)
(* The tables of client.go and the pure parts of its operations: names by  *)
(* canonical client code, client codes by the first label of a host.  A    *)
(* code as it is written (RawCode) may differ from its canonical form in   *)
(* case, or be illegal and have none.                                      *)
(***************************************************************************)
EXTENDS Integers, Sequences, FiniteSets

CONSTANTS
    Code,          \* canonical client codes
    RawCode,       \* codes as callers and the environment write them
    Canonical,     \* canonical form of a raw code, "" for an illegal one
    Name,          \* names of clients
    DefaultNames,  \* defaultClientNames, "" for a code without a name
    Label,         \* first labels of hosts
    DefaultHosts,  \* defaultClientHostLabels, "" for a label without a code
    EnvNames,      \* AUDIT_CLIENTS: the orders in which its pairs may be visited
    EnvHosts,      \* AUDIT_CLIENT_HOSTS, likewise
    WeChatCode     \* the code of the mini program, x2

ASSUME ClientTablesAssumption ==
    /\ "" \notin Code \cup Name \cup RawCode
    /\ Canonical \in [RawCode -> Code \cup {""}]
    /\ DefaultNames \in [Code -> Name \cup {""}]
    /\ DefaultHosts \in [Label -> Code \cup {""}]
    /\ "admin" \in Label /\ WeChatCode \in Code
    /\ EnvNames \subseteq Seq(RawCode \X Name) /\ EnvNames # {}
    /\ EnvHosts \subseteq Seq(Label \X RawCode) /\ EnvHosts # {}

NameTable == [Code -> Name \cup {""}]
HostTable == [Label -> Code \cup {""}]

NormalizeClientCode(raw) == IF raw \in RawCode THEN Canonical[raw] ELSE ""

(* What the environment's pairs, visited in this order, make of a table. *)
EnvironmentNames(table, pairs) ==
    [c \in Code |->
        LET hits == {i \in DOMAIN pairs : NormalizeClientCode(pairs[i][1]) = c}
        IN IF hits = {} THEN table[c]
           ELSE pairs[CHOOSE i \in hits : \A j \in hits : j <= i][2]]

EnvironmentHosts(table, pairs) ==
    [l \in Label |->
        LET hits == {i \in DOMAIN pairs : pairs[i][1] = l /\ NormalizeClientCode(pairs[i][2]) # ""}
        IN IF hits = {} THEN table[l]
           ELSE NormalizeClientCode(pairs[CHOOSE i \in hits : \A j \in hits : j <= i][2])]

(* The calls; a host is a label of the table, ".tenant.", another one, or absent. *)
Host == Label \cup {"tenant", "other", ""}
RegisterCall == [op : {"register"}, raw : RawCode, name : Name \cup {""}]
NameCall == [op : {"name"}, raw : RawCode \cup {""}]
OptionsCall == [op : {"options"}]
ResolveCall == [op : {"resolve"}, header : RawCode \cup {""}, wechat : BOOLEAN, hosts : [1..3 -> Host]]

(* RegisterClient ignores an illegal code or a blank name. *)
Registrable(call) == NormalizeClientCode(call.raw) # "" /\ call.name # ""
Registered(table, call) == [table EXCEPT ![NormalizeClientCode(call.raw)] = call.name]

UnknownClientName == "unknown"

(* ClientName: an unregistered code is shown as it is written. *)
ClientName(table, raw) ==
    LET code == NormalizeClientCode(raw)
    IN CASE raw = "" -> UnknownClientName
         [] raw # "" /\ code # "" /\ table[code] # "" -> table[code]
         [] OTHER -> raw

(* Answers are sets of triples: operation, code, name. *)
NameAnswer(raw, name) == {<<"name", raw, name>>}
OptionsAnswer(table) == {<<"option", c, table[c]>> : c \in {d \in Code : table[d] # ""}}
ResolveAnswer(code) == {<<"client", code, "">>}

(* clientFromHost, for a host that is present. *)
ClientFromHost(table, host) ==
    CASE host = "tenant" -> table["admin"]
      [] host \in Label -> table[host]
      [] OTHER -> ""

(* The code that the request itself names: its header, or the mini program. *)
Declared(call) ==
    IF NormalizeClientCode(call.header) # "" THEN NormalizeClientCode(call.header)
    ELSE IF call.wechat THEN WeChatCode ELSE ""

(* ResolveClient: what is declared, else the first of Origin, Referer and Host *)
(* that the table knows.                                                       *)
ResolveClient(table, call) ==
    LET known == {i \in 1..3 : call.hosts[i] # "" /\ ClientFromHost(table, call.hosts[i]) # ""}
    IN CASE Declared(call) # "" -> Declared(call)
         [] Declared(call) = "" /\ known = {} -> ""
         [] OTHER -> ClientFromHost(table, call.hosts[CHOOSE i \in known : \A j \in known : i <= j])
=============================================================================
