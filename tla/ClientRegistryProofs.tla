------------------------ MODULE ClientRegistryProofs ------------------------
(***************************************************************************)
(* Proofs about the client registry, for any goroutines, calls, codes and  *)
(* environment: no two of them touch a table at once, and the registry     *)
(* implements the atomic directory.                                        *)
(***************************************************************************)
EXTENDS ClientRegistry, WellFoundedInduction, TLAPS

Initialising == {"initLock", "initDrain", "init", "initEnv", "initDone"}
Writing == {"initDrain", "init", "initEnv", "drain", "write"}
Serving == {"body", "lock", "drain", "write", "scan", "rlock", "read"}

(* The mutex: who holds or awaits it shows in where the goroutines are. *)
LockInv ==
    /\ \A t \in Thread : pc[t] \in Writing <=> writer = t
    /\ readers = {t \in Thread : pc[t] = "read"}
    /\ \A t \in Thread : pc[t] \in {"init", "initEnv", "write"} => readers = {}

(* The Once: one goroutine initialises, and nobody is served before. *)
OnceInv ==
    /\ \A t \in Thread : pc[t] \in Initialising => once = "running"
    /\ \A t, u \in Thread : pc[t] \in Initialising /\ pc[u] \in Initialising => t = u
    /\ \A t \in Thread : pc[t] \in Serving \cup {"return"} => once = "done"

(* How far the tables have been filled. *)
Blank == clientNames = [c \in Code |-> ""] /\ clientHosts = [l \in Label |-> ""]
FillRight(t) ==
    /\ pc[t] \in {"initLock", "initDrain", "init"} => Blank
    /\ pc[t] = "initEnv" => clientNames = DefaultNames /\ clientHosts = DefaultHosts
    /\ pc[t] = "initDone" =>
          /\ clientNames = EnvironmentNames(DefaultNames, envNames)
          /\ clientHosts = EnvironmentHosts(DefaultHosts, envHosts)

FillInv ==
    /\ once = "new" => Blank
    /\ \A t \in Thread : FillRight(t)

(* A host that a lookup has passed is absent or unknown, and the table of  *)
(* hosts no longer changes.                                                *)
Passed(c, i) == c.hosts[i] = "" \/ ClientFromHost(clientHosts, c.hosts[i]) = ""

CallRight(t) ==
    /\ pc[t] # "idle" => call[t] \in Calls
    /\ pc[t] \in {"lock", "drain", "write"} =>
          call[t].op = "register" /\ Registrable(call[t])
    /\ pc[t] = "scan" => call[t].op = "resolve"
    /\ pc[t] \in {"rlock", "read"} => call[t].op \in {"name", "options", "resolve"}
    /\ pc[t] \in {"rlock", "read"} /\ call[t].op = "name" => call[t].raw # ""
    /\ pc[t] \in {"rlock", "read"} /\ call[t].op = "resolve" =>
          at[t] <= 3 /\ call[t].hosts[at[t]] # ""
    /\ pc[t] \in {"scan", "rlock", "read"} /\ call[t].op = "resolve" =>
          Declared(call[t]) = "" /\ \A i \in 1..3 : i < at[t] => Passed(call[t], i)
    /\ pc[t] \notin {"scan", "rlock", "read", "return"} => at[t] = 1

CallInv == \A t \in Thread : CallRight(t)

(* Nobody has an answer before it returns. *)
AnswerInv ==
    /\ answer = [t \in Thread |-> answer[t]]
    /\ \A t \in Thread : pc[t] # "return" => answer[t] = {}

IInv == AnswerInv /\ TypeOK /\ LockInv /\ OnceInv /\ FillInv /\ CallInv

-----------------------------------------------------------------------------
(* A set of natural numbers below a bound has a greatest element. *)
LEMMA LessThanOnNat == \A x, y \in Nat : <<y, x>> \notin OpToRel(<, Nat) => ~(y < x)
    BY Zenon DEF OpToRel

LEMMA LeastElement ==
    ASSUME NEW S, S \subseteq Nat, S # {} PROVE \E x \in S : \A y \in S : x <= y
<1>1. \E x \in S : \A y \in S : ~(<<y, x>> \in OpToRel(<, Nat))
    <2> HIDE DEF OpToRel
    <2> QED
        BY NatLessThanWellFounded, WFMin
<1>2. \E x \in S : \A y \in S : ~(y < x)
    <2> HIDE DEF OpToRel
    <2> QED
        BY <1>1, LessThanOnNat, Zenon
<1> QED
    BY <1>2

LEMMA GreatestElement ==
    ASSUME NEW n \in Nat, NEW S, S \subseteq 1..n, S # {}
    PROVE  \E x \in S : \A y \in S : y <= x
<1> DEFINE D == {n - x : x \in S}
<1>1. D \subseteq Nat
    OBVIOUS
<1>2. D # {}
    <2>1. PICK z \in S : TRUE
        OBVIOUS
    <2>2. n - z \in D
        BY <2>1
    <2> QED
        BY <2>2
<1>3. \E d \in D : \A y \in D : d <= y
    <2> HIDE DEF D
    <2> QED
        BY <1>1, <1>2, LeastElement
<1>4. PICK x \in S : \A y \in D : n - x <= y
    BY <1>3
<1>5. ASSUME NEW y \in S PROVE y <= x
    <2>1. n - y \in D
        OBVIOUS
    <2>2. n - x <= n - y
        BY <1>4, <2>1
    <2> QED
        BY <2>2
<1> QED
    BY <1>5

-----------------------------------------------------------------------------
(* What the environment makes of a table is a table. *)
LEMMA EnvironmentNamesType ==
    ASSUME NEW table \in NameTable, NEW pairs \in EnvNames
    PROVE  EnvironmentNames(table, pairs) \in NameTable
<1>1. pairs \in Seq(RawCode \X Name)
    BY ClientTablesAssumption
<1>2. ASSUME NEW c \in Code PROVE EnvironmentNames(table, pairs)[c] \in Name \cup {""}
    <2> DEFINE hits == {i \in DOMAIN pairs : NormalizeClientCode(pairs[i][1]) = c}
    <2>1. CASE hits = {}
        BY <2>1 DEF EnvironmentNames, NameTable
    <2>2. CASE hits # {}
        <3>1. hits \subseteq 1..Len(pairs) /\ Len(pairs) \in Nat
            BY <1>1
        <3>2. \E x \in hits : \A y \in hits : y <= x
            <4> HIDE DEF hits
            <4> QED
                BY <2>2, <3>1, GreatestElement
        <3>3. (CHOOSE i \in hits : \A j \in hits : j <= i) \in 1..Len(pairs)
            <4> HIDE DEF hits
            <4> QED
                BY <3>1, <3>2
        <3>4. \A i \in 1..Len(pairs) : pairs[i][2] \in Name
            BY <1>1
        <3>5. EnvironmentNames(table, pairs)[c] = pairs[CHOOSE i \in hits : \A j \in hits : j <= i][2]
            BY <2>2 DEF EnvironmentNames
        <3> HIDE DEF hits
        <3> QED
            BY <3>3, <3>4, <3>5
    <2> QED
        BY <2>1, <2>2
<1> QED
    BY <1>2 DEF EnvironmentNames, NameTable

LEMMA NormalizeType == \A raw : NormalizeClientCode(raw) \in Code \cup {""}
    BY ClientTablesAssumption DEF NormalizeClientCode

LEMMA EnvironmentHostsType ==
    ASSUME NEW table \in HostTable, NEW pairs \in EnvHosts
    PROVE  EnvironmentHosts(table, pairs) \in HostTable
<1>1. ASSUME NEW l \in Label PROVE EnvironmentHosts(table, pairs)[l] \in Code \cup {""}
    BY NormalizeType DEF EnvironmentHosts, HostTable
<1> QED
    BY <1>1 DEF EnvironmentHosts, HostTable

(* The defaults over empty tables are the defaults. *)
LEMMA DefaultsFill ==
    /\ [c \in Code |-> IF DefaultNames[c] # "" THEN DefaultNames[c] ELSE ""] = DefaultNames
    /\ [l \in Label |-> IF DefaultHosts[l] # "" THEN DefaultHosts[l] ELSE ""] = DefaultHosts
    BY ClientTablesAssumption

(* The initial states. *)
LEMMA InitInvariant == Init => IInv
<1> SUFFICES ASSUME Init PROVE IInv
    OBVIOUS
<1>1. TypeOK
    <2>1. clientNames \in NameTable /\ clientHosts \in HostTable
        BY DEF Init, NameTable, HostTable
    <2>2. pc \in [Thread -> {"idle"}]
        BY DEF Init
    <2>3. at \in [Thread -> 1..4]
        <3>1. at = [t \in Thread |-> 1]
            BY DEF Init
        <3> QED
            BY <3>1
    <2>4. call \in [Thread -> Calls \cup {NoCall}]
        BY DEF Init
    <2> QED
        BY <2>1, <2>2, <2>3, <2>4 DEF Init, TypeOK
<1>2. LockInv
    BY ClientRegistryAssumption DEF Init, LockInv, Writing
<1>3. OnceInv /\ FillInv /\ CallInv
    BY DEF Init, OnceInv, FillInv, FillRight, CallInv, CallRight, Blank, Initialising, Serving
<1>4. AnswerInv
    BY DEF Init, AnswerInv
<1> QED
    BY <1>1, <1>2, <1>3, <1>4 DEF IInv

(* The mutex keeps its promise through every step. *)
LEMMA LockStep == IInv /\ [Next]_vars => LockInv'
<1> SUFFICES ASSUME IInv, [Next]_vars PROVE LockInv'
    OBVIOUS
<1> USE DEF IInv, Goto, Answer, tables, lock, env, LockInv, Writing
<1>0. NoThread \notin Thread /\ pc \in [Thread -> {"idle", "once", "initLock", "initDrain", "init", "initEnv",
          "initDone", "body", "lock", "drain", "write", "scan", "rlock", "read", "return"}]
    BY ClientRegistryAssumption DEF TypeOK
<1> USE <1>0
<1>1. ASSUME NEW t \in Thread, Start(t) PROVE LockInv'
    BY <1>1 DEF Start, FirstStep
<1>2. ASSUME NEW t \in Thread, EnterOnce(t) PROVE LockInv'
    BY <1>2 DEF EnterOnce
<1>3. ASSUME NEW t \in Thread, InitDefaults(t) PROVE LockInv'
    BY <1>3 DEF InitDefaults
<1>4. ASSUME NEW t \in Thread, InitEnvironment(t) PROVE LockInv'
    BY <1>4 DEF InitEnvironment
<1>5. ASSUME NEW t \in Thread, FinishOnce(t) PROVE LockInv'
    BY <1>5 DEF FinishOnce
<1>6. ASSUME NEW t \in Thread, Announce(t) PROVE LockInv'
    BY <1>6 DEF Announce
<1>7. ASSUME NEW t \in Thread, Drain(t) PROVE LockInv'
    BY <1>7 DEF Drain
<1>8. ASSUME NEW t \in Thread, RLock(t) PROVE LockInv'
    BY <1>8 DEF RLock, MayRead
<1>9. ASSUME NEW t \in Thread, Register(t) PROVE LockInv'
    BY <1>9 DEF Register
<1>10. ASSUME NEW t \in Thread, Write(t) PROVE LockInv'
    BY <1>10 DEF Write
<1>11. ASSUME NEW t \in Thread, LookupName(t) PROVE LockInv'
    BY <1>11 DEF LookupName
<1>12. ASSUME NEW t \in Thread, Options(t) PROVE LockInv'
    BY <1>12 DEF Options
<1>13. ASSUME NEW t \in Thread, Resolve(t) PROVE LockInv'
    BY <1>13 DEF Resolve
<1>14. ASSUME NEW t \in Thread, Scan(t) PROVE LockInv'
    BY <1>14 DEF Scan, NextHost
<1>15. ASSUME NEW t \in Thread, Read(t) PROVE LockInv'
    BY <1>15 DEF Read, NextHost
<1>16. ASSUME NEW t \in Thread, Return(t) PROVE LockInv'
    BY <1>16 DEF Return
<1>17. CASE UNCHANGED vars
    BY <1>17 DEF vars
<1> QED
    BY <1>1, <1>2, <1>3, <1>4, <1>5, <1>6, <1>7, <1>8, <1>9,
       <1>10, <1>11, <1>12, <1>13, <1>14, <1>15, <1>16, <1>17
       DEF Next, Proceed, Initialise, Body

(* The Once lets one goroutine initialise and holds the others up. *)
LEMMA OnceStep == IInv /\ [Next]_vars => OnceInv'
<1> SUFFICES ASSUME IInv, [Next]_vars PROVE OnceInv'
    OBVIOUS
<1> USE DEF IInv, Goto, Answer, tables, lock, env, OnceInv, Initialising, Serving
<1>0. pc \in [Thread -> {"idle", "once", "initLock", "initDrain", "init", "initEnv",
          "initDone", "body", "lock", "drain", "write", "scan", "rlock", "read", "return"}]
    BY DEF TypeOK
<1> USE <1>0
<1>1. ASSUME NEW t \in Thread, Start(t) PROVE OnceInv'
    BY <1>1 DEF Start, FirstStep
<1>2. ASSUME NEW t \in Thread, EnterOnce(t) PROVE OnceInv'
    BY <1>2 DEF EnterOnce
<1>3. ASSUME NEW t \in Thread, InitDefaults(t) PROVE OnceInv'
    BY <1>3 DEF InitDefaults
<1>4. ASSUME NEW t \in Thread, InitEnvironment(t) PROVE OnceInv'
    BY <1>4 DEF InitEnvironment
<1>5. ASSUME NEW t \in Thread, FinishOnce(t) PROVE OnceInv'
    BY <1>5 DEF FinishOnce
<1>6. ASSUME NEW t \in Thread, Announce(t) PROVE OnceInv'
    BY <1>6 DEF Announce
<1>7. ASSUME NEW t \in Thread, Drain(t) PROVE OnceInv'
    BY <1>7 DEF Drain
<1>8. ASSUME NEW t \in Thread, RLock(t) PROVE OnceInv'
    BY <1>8 DEF RLock, MayRead
<1>9. ASSUME NEW t \in Thread, Register(t) PROVE OnceInv'
    BY <1>9 DEF Register
<1>10. ASSUME NEW t \in Thread, Write(t) PROVE OnceInv'
    BY <1>10 DEF Write
<1>11. ASSUME NEW t \in Thread, LookupName(t) PROVE OnceInv'
    BY <1>11 DEF LookupName
<1>12. ASSUME NEW t \in Thread, Options(t) PROVE OnceInv'
    BY <1>12 DEF Options
<1>13. ASSUME NEW t \in Thread, Resolve(t) PROVE OnceInv'
    BY <1>13 DEF Resolve
<1>14. ASSUME NEW t \in Thread, Scan(t) PROVE OnceInv'
    BY <1>14 DEF Scan, NextHost
<1>15. ASSUME NEW t \in Thread, Read(t) PROVE OnceInv'
    BY <1>15 DEF Read, NextHost
<1>16. ASSUME NEW t \in Thread, Return(t) PROVE OnceInv'
    BY <1>16 DEF Return
<1>17. CASE UNCHANGED vars
    BY <1>17 DEF vars
<1> QED
    BY <1>1, <1>2, <1>3, <1>4, <1>5, <1>6, <1>7, <1>8, <1>9,
       <1>10, <1>11, <1>12, <1>13, <1>14, <1>15, <1>16, <1>17
       DEF Next, Proceed, Initialise, Body

(* A step that leaves the tables alone disturbs only whom it moves. *)
LEMMA FillsNothing ==
    ASSUME FillInv, once' = "new" => once = "new",
           UNCHANGED <<clientNames, clientHosts, envNames, envHosts>>,
           \A u \in Thread : pc'[u] = pc[u] \/ FillRight(u)'
    PROVE  FillInv'
<1>1. Blank' <=> Blank
    BY DEF Blank
<1>2. ASSUME NEW u \in Thread PROVE FillRight(u)'
    <2>1. CASE pc'[u] = pc[u]
        BY <1>1, <2>1 DEF FillInv, FillRight
    <2> QED
        BY <2>1
<1> QED
    BY <1>1, <1>2 DEF FillInv

(* The tables are filled step by step by the one goroutine that may. *)
LEMMA FillStep == IInv /\ [Next]_vars => FillInv'
<1> SUFFICES ASSUME IInv, [Next]_vars PROVE FillInv'
    OBVIOUS
<1> USE DEF IInv, Goto, Answer, tables, lock, env, OnceInv, Initialising, Serving
<1>0. pc \in [Thread -> {"idle", "once", "initLock", "initDrain", "init", "initEnv",
          "initDone", "body", "lock", "drain", "write", "scan", "rlock", "read", "return"}]
    BY DEF TypeOK
<1> USE <1>0
<1>1. ASSUME NEW t \in Thread, Start(t) PROVE FillInv'
    <2>1. FillRight(t)'
        BY <1>1 DEF Start, FirstStep, FillRight
    <2> QED
        BY <1>1, <2>1, FillsNothing DEF Start, FirstStep
<1>2. ASSUME NEW t \in Thread, EnterOnce(t) PROVE FillInv'
    <2>1. FillRight(t)'
        BY <1>2 DEF EnterOnce, FillRight, FillInv, Blank
    <2> QED
        BY <1>2, <2>1, FillsNothing DEF EnterOnce
<1>3. ASSUME NEW t \in Thread, InitDefaults(t) PROVE FillInv'
    <2>1. Blank
        BY <1>3 DEF InitDefaults, FillInv, FillRight
    <2>2. clientNames' = DefaultNames /\ clientHosts' = DefaultHosts
        BY <1>3, <2>1, DefaultsFill DEF InitDefaults, Blank
    <2>3. FillRight(t)'
        BY <1>3, <2>2 DEF InitDefaults, FillRight
    <2>4. ASSUME NEW u \in Thread \ {t} PROVE FillRight(u)'
        BY <1>3 DEF InitDefaults, FillRight
    <2> QED
        BY <1>3, <2>3, <2>4 DEF InitDefaults, FillInv
<1>4. ASSUME NEW t \in Thread, InitEnvironment(t) PROVE FillInv'
    <2>1. pc' = [pc EXCEPT ![t] = "initDone"] /\ once' = "running"
        BY <1>4 DEF InitEnvironment
    <2>2. FillRight(t)'
        BY <1>4, <2>1 DEF InitEnvironment, FillInv, FillRight
    <2>3. ASSUME NEW u \in Thread \ {t} PROVE FillRight(u)'
        BY <1>4, <2>1 DEF InitEnvironment, FillRight
    <2> QED
        BY <2>1, <2>2, <2>3 DEF FillInv
<1>5. ASSUME NEW t \in Thread, FinishOnce(t) PROVE FillInv'
    <2>1. FillRight(t)'
        BY <1>5 DEF FinishOnce, FillRight
    <2> QED
        BY <1>5, <2>1, FillsNothing DEF FinishOnce
<1>6. ASSUME NEW t \in Thread, Announce(t) PROVE FillInv'
    <2>1. FillRight(t)'
        BY <1>6 DEF Announce, FillRight, FillInv, Blank
    <2> QED
        BY <1>6, <2>1, FillsNothing DEF Announce
<1>7. ASSUME NEW t \in Thread, Drain(t) PROVE FillInv'
    <2>1. FillRight(t)'
        BY <1>7 DEF Drain, FillRight, FillInv, Blank
    <2> QED
        BY <1>7, <2>1, FillsNothing DEF Drain
<1>8. ASSUME NEW t \in Thread, RLock(t) PROVE FillInv'
    <2>1. FillRight(t)'
        BY <1>8 DEF RLock, MayRead, FillRight
    <2> QED
        BY <1>8, <2>1, FillsNothing DEF RLock
<1>9. ASSUME NEW t \in Thread, Register(t) PROVE FillInv'
    <2>1. FillRight(t)'
        BY <1>9 DEF Register, FillRight
    <2> QED
        BY <1>9, <2>1, FillsNothing DEF Register
<1>10. ASSUME NEW t \in Thread, Write(t) PROVE FillInv'
    BY <1>10 DEF Write, FillInv, FillRight
<1>11. ASSUME NEW t \in Thread, LookupName(t) PROVE FillInv'
    <2>1. FillRight(t)'
        BY <1>11 DEF LookupName, FillRight
    <2> QED
        BY <1>11, <2>1, FillsNothing DEF LookupName
<1>12. ASSUME NEW t \in Thread, Options(t) PROVE FillInv'
    <2>1. FillRight(t)'
        BY <1>12 DEF Options, FillRight
    <2> QED
        BY <1>12, <2>1, FillsNothing DEF Options
<1>13. ASSUME NEW t \in Thread, Resolve(t) PROVE FillInv'
    <2>1. FillRight(t)'
        BY <1>13 DEF Resolve, FillRight
    <2> QED
        BY <1>13, <2>1, FillsNothing DEF Resolve
<1>14. ASSUME NEW t \in Thread, Scan(t) PROVE FillInv'
    <2>1. FillRight(t)'
        BY <1>14 DEF Scan, NextHost, FillRight
    <2> QED
        BY <1>14, <2>1, FillsNothing DEF Scan
<1>15. ASSUME NEW t \in Thread, Read(t) PROVE FillInv'
    <2>1. FillRight(t)'
        BY <1>15 DEF Read, NextHost, FillRight
    <2> QED
        BY <1>15, <2>1, FillsNothing DEF Read
<1>16. ASSUME NEW t \in Thread, Return(t) PROVE FillInv'
    <2>1. FillRight(t)'
        BY <1>16 DEF Return, FillRight
    <2> QED
        BY <1>16, <2>1, FillsNothing DEF Return
<1>17. CASE UNCHANGED vars
    BY <1>17 DEF vars, FillInv, FillRight, Blank
<1> QED
    BY <1>1, <1>2, <1>3, <1>4, <1>5, <1>6, <1>7, <1>8, <1>9,
       <1>10, <1>11, <1>12, <1>13, <1>14, <1>15, <1>16, <1>17
       DEF Next, Proceed, Initialise, Body

(* A goroutine that a step does not move is where it was. *)
LEMMA OthersStay ==
    ASSUME CallInv, NEW u \in Thread,
           clientHosts' = clientHosts \/ pc[u] \notin {"scan", "rlock", "read"},
           pc'[u] = pc[u], at'[u] = at[u], call'[u] = call[u]
    PROVE  CallRight(u)'
<1>1. CallRight(u)
    BY DEF CallInv
<1>2. clientHosts' = clientHosts => \A c, i : Passed(c, i)' <=> Passed(c, i)
    BY DEF Passed
<1> QED
    BY <1>1, <1>2 DEF CallRight

(* A call goes its way, and its lookup leaves only unknown hosts behind. *)
LEMMA CallStep == IInv /\ [Next]_vars => CallInv'
<1> SUFFICES ASSUME IInv, [Next]_vars PROVE CallInv'
    OBVIOUS
<1> USE DEF IInv, Goto, Answer, tables, lock, env, OnceInv, Initialising, Serving
<1>0. /\ pc \in [Thread -> {"idle", "once", "initLock", "initDrain", "init", "initEnv",
          "initDone", "body", "lock", "drain", "write", "scan", "rlock", "read", "return"}]
      /\ at \in [Thread -> 1..4] /\ call \in [Thread -> Calls \cup {NoCall}]
    BY DEF TypeOK
<1> USE <1>0
<1>1. ASSUME NEW t \in Thread, Start(t) PROVE CallInv'
    <2>1. PICK c \in Calls :
             /\ call' = [call EXCEPT ![t] = c] /\ pc' = [pc EXCEPT ![t] = "once"]
             /\ at' = at /\ clientHosts' = clientHosts /\ at[t] = 1
        BY <1>1 DEF Start, FirstStep, CallInv, CallRight
    <2>2. call'[t] \in Calls /\ pc'[t] = "once" /\ at'[t] = 1
        BY <2>1
    <2>3. CallRight(t)'
        BY <2>2 DEF CallRight
    <2> QED
        BY <1>1, <2>1, <2>3, OthersStay DEF CallInv
<1>2. ASSUME NEW t \in Thread, EnterOnce(t) PROVE CallInv'
    <2>1. CallRight(t)'
        BY <1>2 DEF EnterOnce, CallInv, CallRight, Passed
    <2> QED
        BY <1>2, <2>1, OthersStay DEF EnterOnce, CallInv
<1>3. ASSUME NEW t \in Thread, InitDefaults(t) PROVE CallInv'
    <2>1. pc[t] \in Initialising /\ pc' = [pc EXCEPT ![t] = "initEnv"] /\ at' = at /\ call' = call
        BY <1>3 DEF InitDefaults
    <2>2. \A u \in Thread : pc[u] \notin {"scan", "rlock", "read"}
        BY <2>1
    <2>3. call[t] \in Calls /\ at[t] = 1
        BY <1>3 DEF InitDefaults, CallInv, CallRight
    <2>4. CallRight(t)'
        BY <2>1, <2>3 DEF CallRight
    <2> QED
        BY <2>1, <2>2, <2>4, OthersStay DEF CallInv
<1>4. ASSUME NEW t \in Thread, InitEnvironment(t) PROVE CallInv'
    <2>1. pc[t] \in Initialising /\ pc' = [pc EXCEPT ![t] = "initDone"] /\ at' = at /\ call' = call
        BY <1>4 DEF InitEnvironment
    <2>2. \A u \in Thread : pc[u] \notin {"scan", "rlock", "read"}
        BY <2>1
    <2>3. call[t] \in Calls /\ at[t] = 1
        BY <1>4 DEF InitEnvironment, CallInv, CallRight
    <2>4. CallRight(t)'
        BY <2>1, <2>3 DEF CallRight
    <2> QED
        BY <2>1, <2>2, <2>4, OthersStay DEF CallInv
<1>5. ASSUME NEW t \in Thread, FinishOnce(t) PROVE CallInv'
    <2>1. CallRight(t)'
        BY <1>5 DEF FinishOnce, CallInv, CallRight, Passed
    <2> QED
        BY <1>5, <2>1, OthersStay DEF FinishOnce, CallInv
<1>6. ASSUME NEW t \in Thread, Announce(t) PROVE CallInv'
    <2>1. CallRight(t)'
        BY <1>6 DEF Announce, CallInv, CallRight, Passed
    <2> QED
        BY <1>6, <2>1, OthersStay DEF Announce, CallInv
<1>7. ASSUME NEW t \in Thread, Drain(t) PROVE CallInv'
    <2>1. CallRight(t)'
        BY <1>7 DEF Drain, CallInv, CallRight, Passed
    <2> QED
        BY <1>7, <2>1, OthersStay DEF Drain, CallInv
<1>8. ASSUME NEW t \in Thread, RLock(t) PROVE CallInv'
    <2>1. CallRight(t)'
        BY <1>8 DEF RLock, MayRead, CallInv, CallRight, Passed
    <2> QED
        BY <1>8, <2>1, OthersStay DEF RLock, CallInv
<1>9. ASSUME NEW t \in Thread, Register(t) PROVE CallInv'
    <2>1. CallRight(t)'
        BY <1>9 DEF Register, CallInv, CallRight, Passed
    <2> QED
        BY <1>9, <2>1, OthersStay DEF Register, CallInv
<1>10. ASSUME NEW t \in Thread, Write(t) PROVE CallInv'
    <2>1. CallRight(t)'
        BY <1>10 DEF Write, CallInv, CallRight, Passed
    <2> QED
        BY <1>10, <2>1, OthersStay DEF Write, CallInv
<1>11. ASSUME NEW t \in Thread, LookupName(t) PROVE CallInv'
    <2>1. /\ call' = call /\ at' = at /\ clientHosts' = clientHosts
          /\ call[t] \in Calls /\ call[t].op = "name" /\ at[t] = 1
          /\ \/ pc' = [pc EXCEPT ![t] = "return"]
             \/ pc' = [pc EXCEPT ![t] = "rlock"] /\ call[t].raw # ""
        BY <1>11 DEF LookupName, CallInv, CallRight
    <2>2. CallRight(t)'
        BY <2>1 DEF CallRight
    <2> QED
        BY <1>11, <2>1, <2>2, OthersStay DEF CallInv
<1>12. ASSUME NEW t \in Thread, Options(t) PROVE CallInv'
    <2>1. CallRight(t)'
        BY <1>12 DEF Options, CallInv, CallRight, Passed
    <2> QED
        BY <1>12, <2>1, OthersStay DEF Options, CallInv
<1>13. ASSUME NEW t \in Thread, Resolve(t) PROVE CallInv'
    <2>1. /\ call' = call /\ at' = at /\ clientHosts' = clientHosts
          /\ call[t] \in Calls /\ call[t].op = "resolve" /\ at[t] = 1
          /\ \/ pc' = [pc EXCEPT ![t] = "return"]
             \/ pc' = [pc EXCEPT ![t] = "scan"] /\ Declared(call[t]) = ""
        BY <1>13 DEF Resolve, CallInv, CallRight
    <2>2. \A i \in 1..3 : ~(i < at'[t])
        <3>1. at'[t] = 1
            BY <2>1
        <3> QED
            BY <3>1
    <2>3. CallRight(t)'
        BY <2>1, <2>2 DEF CallRight
    <2> QED
        BY <1>13, <2>1, <2>3, OthersStay DEF CallInv
<1>14. ASSUME NEW t \in Thread, Scan(t) PROVE CallInv'
    <2>1. /\ call' = call /\ clientHosts' = clientHosts
          /\ call[t] \in Calls /\ call[t].op = "resolve" /\ Declared(call[t]) = ""
          /\ \A i \in 1..3 : i < at[t] => Passed(call[t], i)
          /\ \/ pc' = [pc EXCEPT ![t] = "return"] /\ at' = at
             \/ pc' = [pc EXCEPT ![t] = "rlock"] /\ at' = at /\ at[t] <= 3 /\ call[t].hosts[at[t]] # ""
             \/ /\ pc' = pc /\ at' = [at EXCEPT ![t] = at[t] + 1] /\ pc[t] = "scan"
                /\ at[t] <= 3 /\ call[t].hosts[at[t]] = ""
        BY <1>14 DEF Scan, NextHost, CallInv, CallRight
    <2>2. at[t] \in 1..4 /\ at'[t] \in {at[t], at[t] + 1}
        BY <2>1
    <2>3. ASSUME NEW i \in 1..3, i < at'[t] PROVE Passed(call[t], i)
        <3>1. CASE at'[t] = at[t]
            BY <2>1, <2>3, <3>1
        <3>2. CASE at'[t] = at[t] + 1 /\ at'[t] # at[t]
            <4>1. i < at[t] \/ i = at[t]
                BY <2>2, <2>3, <3>2
            <4>2. call[t].hosts[at[t]] = ""
                BY <2>1, <3>2
            <4> QED
                BY <2>1, <4>1, <4>2 DEF Passed
        <3> QED
            BY <2>2, <3>1, <3>2
    <2>4. \A i \in 1..3 : Passed(call[t], i)' <=> Passed(call[t], i)
        BY <2>1 DEF Passed
    <2>5. CallRight(t)'
        BY <2>1, <2>3, <2>4 DEF CallRight
    <2>6. \A u \in Thread \ {t} : pc'[u] = pc[u] /\ at'[u] = at[u] /\ call'[u] = call[u]
        BY <2>1
    <2> QED
        BY <2>1, <2>5, <2>6, OthersStay DEF CallInv
<1>15. ASSUME NEW t \in Thread, Read(t) PROVE CallInv'
    <2>1. /\ call' = call /\ clientHosts' = clientHosts /\ call[t] \in Calls
          /\ \/ pc' = [pc EXCEPT ![t] = "return"] /\ at' = at
             \/ /\ pc' = [pc EXCEPT ![t] = "scan"] /\ at' = [at EXCEPT ![t] = at[t] + 1]
                /\ call[t].op = "resolve" /\ Declared(call[t]) = "" /\ at[t] <= 3
                /\ \A i \in 1..3 : i < at[t] => Passed(call[t], i)
                /\ ClientFromHost(clientHosts, call[t].hosts[at[t]]) = ""
        BY <1>15 DEF Read, NextHost, CallInv, CallRight
    <2>2. at[t] \in 1..4 /\ at'[t] \in {at[t], at[t] + 1}
        BY <2>1
    <2>3. ASSUME pc'[t] = "scan", NEW i \in 1..3, i < at'[t] PROVE Passed(call[t], i)
        <3>1. /\ at'[t] = at[t] + 1
              /\ \A j \in 1..3 : j < at[t] => Passed(call[t], j)
              /\ ClientFromHost(clientHosts, call[t].hosts[at[t]]) = ""
            BY <2>1, <2>3
        <3>2. at'[t] = at[t] + 1 /\ i < at'[t]
            BY <2>3, <3>1
        <3>3. i < at[t] \/ i = at[t]
            BY <2>2, <3>2
        <3> QED
            BY <3>1, <3>3 DEF Passed
    <2>4. \A i \in 1..3 : Passed(call[t], i)' <=> Passed(call[t], i)
        BY <2>1 DEF Passed
    <2>5. CallRight(t)'
        BY <2>1, <2>3, <2>4 DEF CallRight
    <2>6. \A u \in Thread \ {t} : pc'[u] = pc[u] /\ at'[u] = at[u] /\ call'[u] = call[u]
        BY <2>1
    <2> QED
        BY <2>1, <2>5, <2>6, OthersStay DEF CallInv
<1>16. ASSUME NEW t \in Thread, Return(t) PROVE CallInv'
    <2>1. CallRight(t)'
        BY <1>16 DEF Return, CallInv, CallRight, Passed
    <2> QED
        BY <1>16, <2>1, OthersStay DEF Return, CallInv
<1>17. CASE UNCHANGED vars
    BY <1>17 DEF vars, CallInv, CallRight, Passed
<1> QED
    BY <1>1, <1>2, <1>3, <1>4, <1>5, <1>6, <1>7, <1>8, <1>9,
       <1>10, <1>11, <1>12, <1>13, <1>14, <1>15, <1>16, <1>17
       DEF Next, Proceed, Initialise, Body

(* The index of a host stays in bounds. *)
LEMMA HostIndex ==
    ASSUME IInv, NEW t \in Thread, Scan(t) \/ Read(t)
    PROVE  at' \in [Thread -> 1..4]
<1>1. at \in [Thread -> 1..4]
    BY DEF IInv, TypeOK
<1>2. CASE Scan(t)
    <2>1. at' = at \/ at' = [at EXCEPT ![t] = at[t] + 1]
        BY <1>2, Zenon DEF Scan, NextHost
    <2>2. at' = at \/ at[t] <= 3
        BY <1>2 DEF Scan
    <2>3. CASE at' = [at EXCEPT ![t] = at[t] + 1] /\ at[t] <= 3
        BY <1>1, <2>3
    <2> QED
        BY <1>1, <2>1, <2>2, <2>3, Zenon
<1>3. CASE Read(t)
    <2>1. call[t].op = "resolve" => at[t] <= 3
        BY <1>3 DEF Read, IInv, CallInv, CallRight
    <2>2. at' = at \/ at' = [at EXCEPT ![t] = at[t] + 1]
        BY <1>3, Zenon DEF Read, NextHost
    <2>3. at' = at \/ call[t].op = "resolve"
        BY <1>3 DEF Read
    <2>4. CASE at' = [at EXCEPT ![t] = at[t] + 1] /\ at[t] <= 3
        BY <1>1, <2>4
    <2> QED
        BY <1>1, <2>1, <2>2, <2>3, <2>4, Zenon
<1> QED
    BY <1>2, <1>3

(* Types. *)
LEMMA TypeStep == IInv /\ [Next]_vars => TypeOK'
<1> SUFFICES ASSUME IInv, [Next]_vars PROVE TypeOK'
    OBVIOUS
<1> USE DEF IInv, Goto, Answer, tables, lock, env, TypeOK
<1>1. ASSUME NEW t \in Thread, Start(t) PROVE TypeOK'
    BY <1>1 DEF Start, FirstStep
<1>2. ASSUME NEW t \in Thread, EnterOnce(t) PROVE TypeOK'
    BY <1>2 DEF EnterOnce
<1>3. ASSUME NEW t \in Thread, InitDefaults(t) PROVE TypeOK'
    <2>1. clientNames' \in NameTable /\ clientHosts' \in HostTable
        BY <1>3, ClientTablesAssumption DEF InitDefaults, NameTable, HostTable
    <2> QED
        BY <1>3, <2>1 DEF InitDefaults
<1>4. ASSUME NEW t \in Thread, InitEnvironment(t) PROVE TypeOK'
    <2>1. clientNames' \in NameTable /\ clientHosts' \in HostTable
        BY <1>4, EnvironmentNamesType, EnvironmentHostsType DEF InitEnvironment
    <2> QED
        BY <1>4, <2>1 DEF InitEnvironment
<1>5. ASSUME NEW t \in Thread, FinishOnce(t) PROVE TypeOK'
    BY <1>5 DEF FinishOnce
<1>6. ASSUME NEW t \in Thread, Announce(t) PROVE TypeOK'
    BY <1>6 DEF Announce
<1>7. ASSUME NEW t \in Thread, Drain(t) PROVE TypeOK'
    BY <1>7 DEF Drain
<1>8. ASSUME NEW t \in Thread, RLock(t) PROVE TypeOK'
    BY <1>8 DEF RLock, MayRead
<1>9. ASSUME NEW t \in Thread, Register(t) PROVE TypeOK'
    BY <1>9 DEF Register
<1>10. ASSUME NEW t \in Thread, Write(t) PROVE TypeOK'
    <2>1. call[t] \in RegisterCall /\ Registrable(call[t])
        BY <1>10, ClientRegistryAssumption DEF Write, CallInv, CallRight, RegisterCall, NameCall, OptionsCall, ResolveCall
    <2>2. call[t].name \in Name
        BY <2>1 DEF RegisterCall, Registrable
    <2>3. clientNames' \in NameTable
        BY <1>10, <2>2 DEF Write, Registered, NameTable
    <2> QED
        BY <1>10, <2>3 DEF Write
<1>11. ASSUME NEW t \in Thread, LookupName(t) PROVE TypeOK'
    BY <1>11 DEF LookupName
<1>12. ASSUME NEW t \in Thread, Options(t) PROVE TypeOK'
    BY <1>12 DEF Options
<1>13. ASSUME NEW t \in Thread, Resolve(t) PROVE TypeOK'
    BY <1>13 DEF Resolve
<1>14. ASSUME NEW t \in Thread, Scan(t) PROVE TypeOK'
    <2>2. at' \in [Thread -> 1..4]
        BY <1>14, HostIndex
    <2> QED
        BY <1>14, <2>2 DEF Scan
<1>15. ASSUME NEW t \in Thread, Read(t) PROVE TypeOK'
    <2>1. at' \in [Thread -> 1..4]
        BY <1>15, HostIndex
    <2>2. pc' \in [Thread -> {"idle", "once", "initLock", "initDrain", "init", "initEnv", "initDone", "body",
                           "lock", "drain", "write", "scan", "rlock", "read", "return"}]
        BY <1>15 DEF Read
    <2>3. readers' \subseteq Thread
        BY <1>15 DEF Read
    <2> QED
        BY <1>15, <2>1, <2>2, <2>3 DEF Read
<1>16. ASSUME NEW t \in Thread, Return(t) PROVE TypeOK'
    BY <1>16 DEF Return
<1>17. CASE UNCHANGED vars
    BY <1>17 DEF vars
<1> QED
    BY <1>1, <1>2, <1>3, <1>4, <1>5, <1>6, <1>7, <1>8, <1>9,
       <1>10, <1>11, <1>12, <1>13, <1>14, <1>15, <1>16, <1>17
       DEF Next, Proceed, Initialise, Body

(* Answers appear with the return. *)
LEMMA AnswerStep == IInv /\ [Next]_vars => AnswerInv'
<1> SUFFICES ASSUME IInv, [Next]_vars PROVE AnswerInv'
    OBVIOUS
<1> USE DEF IInv, Goto, Answer, AnswerInv
<1>0. pc \in [Thread -> {"idle", "once", "initLock", "initDrain", "init", "initEnv",
          "initDone", "body", "lock", "drain", "write", "scan", "rlock", "read", "return"}]
    BY DEF TypeOK
<1> USE <1>0
<1>1. ASSUME NEW t \in Thread, Start(t) PROVE AnswerInv'
    BY <1>1 DEF Start, FirstStep
<1>2. ASSUME NEW t \in Thread, EnterOnce(t) PROVE AnswerInv'
    BY <1>2 DEF EnterOnce
<1>3. ASSUME NEW t \in Thread, InitDefaults(t) PROVE AnswerInv'
    BY <1>3 DEF InitDefaults
<1>4. ASSUME NEW t \in Thread, InitEnvironment(t) PROVE AnswerInv'
    BY <1>4 DEF InitEnvironment
<1>5. ASSUME NEW t \in Thread, FinishOnce(t) PROVE AnswerInv'
    BY <1>5 DEF FinishOnce
<1>6. ASSUME NEW t \in Thread, Announce(t) PROVE AnswerInv'
    BY <1>6 DEF Announce
<1>7. ASSUME NEW t \in Thread, Drain(t) PROVE AnswerInv'
    BY <1>7 DEF Drain
<1>8. ASSUME NEW t \in Thread, RLock(t) PROVE AnswerInv'
    BY <1>8 DEF RLock, MayRead
<1>9. ASSUME NEW t \in Thread, Register(t) PROVE AnswerInv'
    BY <1>9 DEF Register
<1>10. ASSUME NEW t \in Thread, Write(t) PROVE AnswerInv'
    BY <1>10 DEF Write
<1>11. ASSUME NEW t \in Thread, LookupName(t) PROVE AnswerInv'
    BY <1>11 DEF LookupName
<1>12. ASSUME NEW t \in Thread, Options(t) PROVE AnswerInv'
    BY <1>12 DEF Options
<1>13. ASSUME NEW t \in Thread, Resolve(t) PROVE AnswerInv'
    BY <1>13 DEF Resolve
<1>14. ASSUME NEW t \in Thread, Scan(t) PROVE AnswerInv'
    BY <1>14 DEF Scan, NextHost
<1>15. ASSUME NEW t \in Thread, Read(t) PROVE AnswerInv'
    BY <1>15 DEF Read, NextHost
<1>16. ASSUME NEW t \in Thread, Return(t) PROVE AnswerInv'
    BY <1>16 DEF Return
<1>17. CASE UNCHANGED vars
    BY <1>17 DEF vars
<1> QED
    BY <1>1, <1>2, <1>3, <1>4, <1>5, <1>6, <1>7, <1>8, <1>9,
       <1>10, <1>11, <1>12, <1>13, <1>14, <1>15, <1>16, <1>17
       DEF Next, Proceed, Initialise, Body

-----------------------------------------------------------------------------
(* The inductive invariant of the registry, for any goroutines and calls:  *)
(* clientMu and clientInitMu of client.go do what they are there for.      *)
THEOREM RegistryInvariant == Spec => []IInv
<1>1. Init => IInv
    BY InitInvariant
<1>2. IInv /\ [Next]_vars => IInv'
    BY LockStep, OnceStep, FillStep, CallStep, TypeStep, AnswerStep DEF IInv
<1> QED
    BY <1>1, <1>2, PTL DEF Spec

(* Every variable of the registry keeps its type: no operation of client.go *)
(* leaves the host loop's bounds or writes an illegal code or a blank name. *)
THEOREM RegistryTyped == Spec => []TypeOK
<1>1. IInv => TypeOK
    BY DEF IInv
<1> QED
    BY <1>1, RegistryInvariant, PTL

(* No goroutine touches a table of client.go while another one writes one. *)
THEOREM RegistryRaceFree == Spec => []RaceFree
<1>1. IInv => RaceFree
    BY DEF IInv, LockInv, Writing, RaceFree
<1> QED
    BY <1>1, RegistryInvariant, PTL

-----------------------------------------------------------------------------
(* ClientRegistry implements ClientDirectory: a call takes effect when its *)
(* goroutine reaches the return, all other steps change nothing that the   *)
(* directory sees.  The initialisation stutters because the directory's    *)
(* tables are, until the Once is done, what the initialisation will make.  *)

(* The directory computes with the same pure operators. *)
LEMMA SamePure ==
    /\ \A c : Directory!Registrable(c) = Registrable(c)
    /\ \A table, c : Directory!Registered(table, c) = Registered(table, c)
    /\ \A table, raw : Directory!ClientName(table, raw) = ClientName(table, raw)
    /\ \A raw, name : Directory!NameAnswer(raw, name) = NameAnswer(raw, name)
    /\ \A table : Directory!OptionsAnswer(table) = OptionsAnswer(table)
    /\ \A table, c : Directory!ResolveClient(table, c) = ResolveClient(table, c)
    /\ \A code : Directory!ResolveAnswer(code) = ResolveAnswer(code)
    /\ \A table, pairs : Directory!EnvironmentNames(table, pairs) = EnvironmentNames(table, pairs)
    /\ \A table, pairs : Directory!EnvironmentHosts(table, pairs) = EnvironmentHosts(table, pairs)
    BY DEF Directory!Registrable, Registrable, Directory!Registered, Registered,
           Directory!ClientName, ClientName, Directory!NameAnswer, NameAnswer,
           Directory!OptionsAnswer, OptionsAnswer, Directory!ResolveClient, ResolveClient,
           Directory!ResolveAnswer, ResolveAnswer, Directory!EnvironmentNames, EnvironmentNames,
           Directory!EnvironmentHosts, EnvironmentHosts, Directory!NormalizeClientCode, NormalizeClientCode,
           Directory!UnknownClientName, UnknownClientName, Directory!Declared, Declared,
           Directory!ClientFromHost, ClientFromHost

LEMMA InitImplements == Init => Directory!DInit
<1> SUFFICES ASSUME Init PROVE Directory!DInit
    OBVIOUS
<1>1. envNames \in EnvNames /\ namesBar = Directory!EnvironmentNames(DefaultNames, envNames)
    BY SamePure DEF Init, namesBar
<1>2. envHosts \in EnvHosts /\ hostsBar = Directory!EnvironmentHosts(DefaultHosts, envHosts)
    BY SamePure DEF Init, hostsBar
<1>3. state = [t \in Thread |-> "idle"]
    BY DEF Init, state
<1>4. call = [t \in Thread |-> NoCall] /\ answer = [t \in Thread |-> {}]
    BY DEF Init
<1> QED
    BY <1>1, <1>2, <1>3, <1>4 DEF Directory!DInit

-----------------------------------------------------------------------------
(* What the directory sees of a goroutine's position. *)
Phase(label) == CASE label = "idle" -> "idle" [] label = "return" -> "done" [] OTHER -> "called"

LEMMA StateMoves ==
    ASSUME TypeOK, NEW t \in Thread, NEW label, pc' = [pc EXCEPT ![t] = label]
    PROVE  /\ state[t] = Phase(pc[t])
           /\ state' = [state EXCEPT ![t] = Phase(label)]
           /\ Phase(label) = Phase(pc[t]) => state' = state
    BY DEF TypeOK, state, Phase

(* The directory's tables: fixed until the Once is done, then the registry's. *)
LEMMA BarsStay ==
    ASSUME envNames' = envNames, envHosts' = envHosts, once' = once,
           once = "done" => clientNames' = clientNames /\ clientHosts' = clientHosts
    PROVE  namesBar' = namesBar /\ hostsBar' = hostsBar
    BY DEF namesBar, hostsBar

(* A step that changes no phase, call, answer or table of the directory. *)
LEMMA Stutters ==
    ASSUME TypeOK, NEW t \in Thread, NEW label, pc' = [pc EXCEPT ![t] = label],
           Phase(label) = Phase(pc[t]), call' = call, answer' = answer,
           namesBar' = namesBar, hostsBar' = hostsBar
    PROVE  UNCHANGED Directory!dvars
<1>1. state' = state
    BY StateMoves
<1> QED
    BY <1>1 DEF Directory!dvars

(* The step by which a call takes effect. *)
LEMMA TakesEffect ==
    ASSUME TypeOK, NEW t \in Thread, pc' = [pc EXCEPT ![t] = "return"],
           Phase(pc[t]) = "called", call' = call, hostsBar' = hostsBar,
           namesBar' = IF call[t].op = "register" /\ Registrable(call[t])
                       THEN Registered(namesBar, call[t]) ELSE namesBar,
           answer' = [answer EXCEPT ![t] = Directory!Reply(call[t])]
    PROVE  Directory!DNext
<1>1. Phase("return") = "done"
    BY DEF Phase
<1>2. state[t] = "called" /\ state' = [state EXCEPT ![t] = "done"]
    BY <1>1, StateMoves
<1>3. namesBar' = IF call[t].op = "register" /\ Directory!Registrable(call[t])
                  THEN Directory!Registered(namesBar, call[t]) ELSE namesBar
    BY SamePure
<1>4. Directory!TakeEffect(t)
    BY <1>2, <1>3 DEF Directory!TakeEffect
<1> QED
    BY <1>4 DEF Directory!DNext

(* What a call answers, by its operation. *)
LEMMA Replies ==
    ASSUME NEW c
    PROVE  /\ c.op = "register" => Directory!Reply(c) = {}
           /\ c.op = "name" => Directory!Reply(c) = NameAnswer(c.raw, ClientName(namesBar, c.raw))
           /\ c.op = "options" => Directory!Reply(c) = OptionsAnswer(namesBar)
           /\ c.op = "resolve" => Directory!Reply(c) = ResolveAnswer(ResolveClient(hostsBar, c))
    BY SamePure DEF Directory!Reply

(* The least member of a set of places. *)
LEMMA LeastOfThree ==
    \A S : \A i \in S : S \subseteq 1..3 /\ (\A j \in 1..3 : j < i => j \notin S) =>
        (CHOOSE k \in S : \A j \in S : k <= j) = i
<1> SUFFICES ASSUME NEW S, NEW i \in S, S \subseteq 1..3, \A j \in 1..3 : j < i => j \notin S
             PROVE  (CHOOSE k \in S : \A j \in S : k <= j) = i
    OBVIOUS
<1>1. \A j \in S : i <= j
    OBVIOUS
<1>2. \A k \in S : (\A j \in S : k <= j) => k = i
    BY <1>1
<1> QED
    BY <1>1, <1>2

(* ResolveClient by the place where the lookup ended: at a host that is *)
(* known after hosts that are not, or after all of them.                *)
LEMMA ResolvedAt ==
    ASSUME NEW table, NEW c, NEW i \in 1..3, Declared(c) = "", c.hosts[i] # "",
           ClientFromHost(table, c.hosts[i]) # "",
           \A j \in 1..3 : j < i => c.hosts[j] = "" \/ ClientFromHost(table, c.hosts[j]) = ""
    PROVE  ResolveClient(table, c) = ClientFromHost(table, c.hosts[i])
<1> DEFINE known == {j \in 1..3 : c.hosts[j] # "" /\ ClientFromHost(table, c.hosts[j]) # ""}
<1>1. i \in known /\ known \subseteq 1..3
    OBVIOUS
<1>2. \A j \in 1..3 : j < i => j \notin known
    BY Zenon
<1>3. (CHOOSE k \in known : \A j \in known : k <= j) = i
    <2> HIDE DEF known
    <2> QED
        BY <1>1, <1>2, LeastOfThree, Zenon
<1>4. ResolveClient(table, c) =
         ClientFromHost(table, c.hosts[CHOOSE k \in known : \A j \in known : k <= j])
    <2>1. known # {}
        BY <1>1
    <2> QED
        BY <2>1 DEF ResolveClient
<1> QED
    BY <1>3, <1>4

LEMMA ResolvedNowhere ==
    ASSUME NEW table, NEW c, Declared(c) = "",
           \A j \in 1..3 : c.hosts[j] = "" \/ ClientFromHost(table, c.hosts[j]) = ""
    PROVE  ResolveClient(table, c) = ""
<1>1. {j \in 1..3 : c.hosts[j] # "" /\ ClientFromHost(table, c.hosts[j]) # ""} = {}
    OBVIOUS
<1> QED
    BY <1>1 DEF ResolveClient

-----------------------------------------------------------------------------
(* The branches of the loop over the hosts. *)
LEMMA ScanCases ==
    ASSUME NEW t \in Thread, Scan(t)
    PROVE  /\ pc[t] = "scan" /\ call' = call
           /\ \/ /\ at[t] > 3 /\ pc' = [pc EXCEPT ![t] = "return"]
                 /\ answer' = [answer EXCEPT ![t] = ResolveAnswer("")]
              \/ (pc' = pc \/ pc' = [pc EXCEPT ![t] = "rlock"]) /\ answer' = answer
<1>1. pc[t] = "scan" /\ call' = call
    BY DEF Scan
<1>2. CASE at[t] > 3 /\ Goto(t, "return") /\ Answer(t, ResolveAnswer(""))
    BY <1>1, <1>2 DEF Goto, Answer
<1>3. CASE answer' = answer /\ (pc' = pc \/ Goto(t, "rlock"))
    BY <1>1, <1>3 DEF Goto
<1> QED
    BY <1>2, <1>3 DEF Scan

LEMMA PassedAll ==
    ASSUME IInv, NEW t \in Thread, Scan(t), at[t] > 3
    PROVE  \A i \in 1..3 : Passed(call[t], i)
<1>1. at[t] \in 1..4
    BY DEF IInv, TypeOK
<1>2. \A i \in 1..3 : i < at[t]
    BY <1>1
<1>3. \A i \in 1..3 : i < at[t] => Passed(call[t], i)
    BY DEF Scan, IInv, CallInv, CallRight
<1> QED
    BY <1>2, <1>3

LEMMA ReadIndex ==
    ASSUME IInv, NEW t \in Thread, Read(t), call[t].op = "resolve"
    PROVE  at[t] \in 1..3
<1>1. at[t] \in 1..4
    BY DEF IInv, TypeOK
<1>2. at[t] <= 3
    BY DEF Read, IInv, CallInv, CallRight
<1> QED
    BY <1>1, <1>2

-----------------------------------------------------------------------------
LEMMA StepImplements ==
    IInv /\ IInv' /\ [Next]_vars => [Directory!DNext]_(Directory!dvars)
<1> SUFFICES ASSUME IInv, IInv', [Next]_vars PROVE [Directory!DNext]_(Directory!dvars)
    OBVIOUS
<1>0. /\ TypeOK /\ LockInv /\ OnceInv /\ FillInv /\ CallInv /\ AnswerInv
      /\ DOMAIN pc = Thread
    BY DEF IInv, TypeOK
<1> USE <1>0
<1>1. ASSUME NEW t \in Thread, Start(t) PROVE [Directory!DNext]_(Directory!dvars)
    <2>1. namesBar' = namesBar /\ hostsBar' = hostsBar
        BY <1>1, BarsStay DEF Start, env, tables
    <2>2. PICK c \in Calls : call' = [call EXCEPT ![t] = c] /\ pc' = [pc EXCEPT ![t] = "once"]
        BY <1>1 DEF Start, FirstStep, Goto
    <2>3. state[t] = "idle" /\ state' = [state EXCEPT ![t] = "called"]
        <3>1. Phase("idle") = "idle" /\ Phase("once") = "called" /\ pc[t] = "idle"
            BY <1>1 DEF Phase, Start
        <3>2. state[t] = Phase(pc[t]) /\ state' = [state EXCEPT ![t] = Phase("once")]
            BY <2>2, StateMoves
        <3> QED
            BY <3>1, <3>2
    <2>4. Directory!Invoke(t)
        BY <1>1, <2>1, <2>2, <2>3 DEF Directory!Invoke, Start
    <2> QED
        BY <2>4 DEF Directory!DNext
<1>2. ASSUME NEW t \in Thread, EnterOnce(t) PROVE [Directory!DNext]_(Directory!dvars)
    <2>1. namesBar' = namesBar /\ hostsBar' = hostsBar
        BY <1>2 DEF EnterOnce, env, tables, namesBar, hostsBar
    <2>2. \E label : /\ pc' = [pc EXCEPT ![t] = label] /\ Phase(label) = Phase(pc[t])
                     /\ call' = call /\ answer' = answer
        BY <1>2 DEF EnterOnce, Phase, Goto
    <2> QED
        BY <2>1, <2>2, Stutters
<1>3. ASSUME NEW t \in Thread, InitDefaults(t) PROVE [Directory!DNext]_(Directory!dvars)
    <2>1. namesBar' = namesBar /\ hostsBar' = hostsBar
        BY <1>3, BarsStay DEF InitDefaults, env, OnceInv, Initialising
    <2>2. \E label : /\ pc' = [pc EXCEPT ![t] = label] /\ Phase(label) = Phase(pc[t])
                     /\ call' = call /\ answer' = answer
        BY <1>3 DEF InitDefaults, Phase, Goto
    <2> QED
        BY <2>1, <2>2, Stutters
<1>4. ASSUME NEW t \in Thread, InitEnvironment(t) PROVE [Directory!DNext]_(Directory!dvars)
    <2>1. namesBar' = namesBar /\ hostsBar' = hostsBar
        BY <1>4, BarsStay DEF InitEnvironment, env, OnceInv, Initialising
    <2>2. \E label : /\ pc' = [pc EXCEPT ![t] = label] /\ Phase(label) = Phase(pc[t])
                     /\ call' = call /\ answer' = answer
        BY <1>4 DEF InitEnvironment, Phase, Goto
    <2> QED
        BY <2>1, <2>2, Stutters
<1>5. ASSUME NEW t \in Thread, FinishOnce(t) PROVE [Directory!DNext]_(Directory!dvars)
    <2>1. /\ once = "running" /\ once' = "done"
          /\ clientNames = EnvironmentNames(DefaultNames, envNames)
          /\ clientHosts = EnvironmentHosts(DefaultHosts, envHosts)
        BY <1>5 DEF FinishOnce, OnceInv, Initialising, FillInv, FillRight
    <2>2. namesBar' = namesBar /\ hostsBar' = hostsBar
        BY <1>5, <2>1 DEF FinishOnce, tables, namesBar, hostsBar
    <2>3. \E label : /\ pc' = [pc EXCEPT ![t] = label] /\ Phase(label) = Phase(pc[t])
                     /\ call' = call /\ answer' = answer
        BY <1>5 DEF FinishOnce, Phase, Goto
    <2> QED
        BY <2>2, <2>3, Stutters
<1>6. ASSUME NEW t \in Thread, Announce(t) PROVE [Directory!DNext]_(Directory!dvars)
    <2>1. namesBar' = namesBar /\ hostsBar' = hostsBar
        BY <1>6, BarsStay DEF Announce, env, tables
    <2>2. \E label : /\ pc' = [pc EXCEPT ![t] = label] /\ Phase(label) = Phase(pc[t])
                     /\ call' = call /\ answer' = answer
        BY <1>6 DEF Announce, Phase, Goto
    <2> QED
        BY <2>1, <2>2, Stutters
<1>7. ASSUME NEW t \in Thread, Drain(t) PROVE [Directory!DNext]_(Directory!dvars)
    <2>1. namesBar' = namesBar /\ hostsBar' = hostsBar
        BY <1>7, BarsStay DEF Drain, env, tables
    <2>2. \E label : /\ pc' = [pc EXCEPT ![t] = label] /\ Phase(label) = Phase(pc[t])
                     /\ call' = call /\ answer' = answer
        BY <1>7 DEF Drain, Phase, Goto
    <2> QED
        BY <2>1, <2>2, Stutters
<1>8. ASSUME NEW t \in Thread, RLock(t) PROVE [Directory!DNext]_(Directory!dvars)
    <2>1. namesBar' = namesBar /\ hostsBar' = hostsBar
        BY <1>8, BarsStay DEF RLock, env, tables
    <2>2. \E label : /\ pc' = [pc EXCEPT ![t] = label] /\ Phase(label) = Phase(pc[t])
                     /\ call' = call /\ answer' = answer
        BY <1>8 DEF RLock, Phase, Goto
    <2> QED
        BY <2>1, <2>2, Stutters
<1>9. ASSUME NEW t \in Thread, Register(t) PROVE [Directory!DNext]_(Directory!dvars)
    <2>1. namesBar' = namesBar /\ hostsBar' = hostsBar
        BY <1>9, BarsStay DEF Register, env, tables
    <2>2. CASE Registrable(call[t])
        BY <1>9, <2>1, <2>2, Stutters DEF Register, Phase, Goto
    <2>3. CASE ~Registrable(call[t])
        <3>1. answer' = [answer EXCEPT ![t] = Directory!Reply(call[t])]
            BY <1>9, Replies DEF Register, AnswerInv
        <3> QED
            BY <1>9, <2>1, <2>3, <3>1, TakesEffect DEF Register, Phase, Goto
    <2> QED
        BY <2>2, <2>3
<1>10. ASSUME NEW t \in Thread, Write(t) PROVE [Directory!DNext]_(Directory!dvars)
    <2>1. once = "done" /\ once' = "done" /\ call[t].op = "register" /\ Registrable(call[t])
        BY <1>10 DEF Write, OnceInv, Serving, CallInv, CallRight
    <2>2. namesBar' = Registered(namesBar, call[t]) /\ hostsBar' = hostsBar
        BY <1>10, <2>1 DEF Write, namesBar, hostsBar
    <2>3. answer' = [answer EXCEPT ![t] = Directory!Reply(call[t])]
        BY <1>10, <2>1, Replies DEF Write, AnswerInv
    <2> QED
        BY <1>10, <2>1, <2>2, <2>3, TakesEffect DEF Write, Phase, Goto
<1>11. ASSUME NEW t \in Thread, LookupName(t) PROVE [Directory!DNext]_(Directory!dvars)
    <2>1. namesBar' = namesBar /\ hostsBar' = hostsBar
        BY <1>11, BarsStay DEF LookupName, env, tables
    <2>2. CASE call[t].raw = ""
        <3>1. ClientName(namesBar, "") = UnknownClientName
            BY DEF ClientName
        <3>2. answer' = [answer EXCEPT ![t] = Directory!Reply(call[t])]
            BY <1>11, <2>2, <3>1, Replies DEF LookupName, Answer
        <3> QED
            BY <1>11, <2>1, <2>2, <3>2, TakesEffect DEF LookupName, Phase, Goto
    <2>3. CASE call[t].raw # ""
        BY <1>11, <2>1, <2>3, Stutters DEF LookupName, Phase, Goto
    <2> QED
        BY <2>2, <2>3
<1>12. ASSUME NEW t \in Thread, Options(t) PROVE [Directory!DNext]_(Directory!dvars)
    <2>1. namesBar' = namesBar /\ hostsBar' = hostsBar
        BY <1>12, BarsStay DEF Options, env, tables
    <2>2. \E label : /\ pc' = [pc EXCEPT ![t] = label] /\ Phase(label) = Phase(pc[t])
                     /\ call' = call /\ answer' = answer
        BY <1>12 DEF Options, Phase, Goto
    <2> QED
        BY <2>1, <2>2, Stutters
<1>13. ASSUME NEW t \in Thread, Resolve(t) PROVE [Directory!DNext]_(Directory!dvars)
    <2>1. namesBar' = namesBar /\ hostsBar' = hostsBar
        BY <1>13, BarsStay DEF Resolve, env, tables
    <2>2. CASE Declared(call[t]) # ""
        <3>1. ResolveClient(hostsBar, call[t]) = Declared(call[t])
            BY <2>2 DEF ResolveClient
        <3>2. answer' = [answer EXCEPT ![t] = Directory!Reply(call[t])]
            BY <1>13, <2>2, <3>1, Replies DEF Resolve, Answer
        <3> QED
            BY <1>13, <2>1, <2>2, <3>2, TakesEffect DEF Resolve, Phase, Goto
    <2>3. CASE Declared(call[t]) = ""
        BY <1>13, <2>1, <2>3, Stutters DEF Resolve, Phase, Goto
    <2> QED
        BY <2>2, <2>3
<1>14. ASSUME NEW t \in Thread, Scan(t) PROVE [Directory!DNext]_(Directory!dvars)
    <2>1. namesBar' = namesBar /\ hostsBar' = hostsBar
        BY <1>14, BarsStay DEF Scan, env, tables
    <2>2. CASE /\ at[t] > 3 /\ pc' = [pc EXCEPT ![t] = "return"]
               /\ answer' = [answer EXCEPT ![t] = ResolveAnswer("")]
        <3>1. \A i \in 1..3 : Passed(call[t], i)
            BY <1>14, <2>2, PassedAll
        <3>2. pc[t] = "scan" /\ call' = call
            BY <1>14, ScanCases
        <3>3. Declared(call[t]) = "" /\ call[t].op = "resolve"
            BY <3>2 DEF CallInv, CallRight
        <3>4. hostsBar = clientHosts
            BY <3>2 DEF OnceInv, Serving, hostsBar
        <3>5. ResolveClient(hostsBar, call[t]) = ""
            BY <3>1, <3>3, <3>4, ResolvedNowhere DEF Passed
        <3>6. Directory!Reply(call[t]) = ResolveAnswer("")
            BY <3>3, <3>5, Replies
        <3>7. Phase(pc[t]) = "called" /\ call[t].op # "register"
            BY <3>2, <3>3 DEF Phase
        <3> QED
            BY <2>1, <2>2, <3>2, <3>6, <3>7, TakesEffect
    <2>3. CASE (pc' = pc \/ pc' = [pc EXCEPT ![t] = "rlock"]) /\ answer' = answer
        <3>1. pc[t] = "scan" /\ call' = call
            BY <1>14, ScanCases
        <3>2. \E label : pc' = [pc EXCEPT ![t] = label] /\ Phase(label) = Phase(pc[t])
            <4>1. Phase("scan") = "called" /\ Phase("rlock") = "called"
                BY DEF Phase
            <4>2. CASE pc' = pc
                <5>1. pc' = [pc EXCEPT ![t] = "scan"]
                    BY <3>1, <4>2 DEF TypeOK
                <5> QED
                    BY <3>1, <4>1, <5>1
            <4>3. CASE pc' = [pc EXCEPT ![t] = "rlock"]
                BY <3>1, <4>1, <4>3
            <4> QED
                BY <2>3, <4>2, <4>3
        <3> QED
            BY <2>1, <2>3, <3>1, <3>2, Stutters
    <2> QED
        BY <1>14, <2>2, <2>3, ScanCases
<1>15. ASSUME NEW t \in Thread, Read(t) PROVE [Directory!DNext]_(Directory!dvars)
    <2>1. namesBar' = namesBar /\ hostsBar' = hostsBar
        BY <1>15, BarsStay DEF Read, env, tables
    <2>2. namesBar = clientNames /\ hostsBar = clientHosts
        BY <1>15 DEF Read, OnceInv, Serving, namesBar, hostsBar
    <2>3. pc[t] = "read" /\ call' = call
        BY <1>15 DEF Read
    <2>4. ASSUME pc' = [pc EXCEPT ![t] = "return"], call[t].op # "register",
                 answer' = [answer EXCEPT ![t] = Directory!Reply(call[t])]
          PROVE  Directory!DNext
        BY <2>1, <2>3, <2>4, TakesEffect DEF Phase
    <2>5. CASE call[t].op = "name"
        BY <1>15, <2>2, <2>4, <2>5, Replies DEF Read, Goto, Answer
    <2>6. CASE call[t].op = "options"
        BY <1>15, <2>2, <2>4, <2>6, Replies DEF Read, Goto, Answer
    <2>7. CASE call[t].op = "resolve" /\ ClientFromHost(clientHosts, call[t].hosts[at[t]]) # ""
        <3>1. at[t] \in 1..3
            BY <1>15, <2>7, ReadIndex
        <3>2. ResolveClient(hostsBar, call[t]) = ClientFromHost(clientHosts, call[t].hosts[at[t]])
            <4>1. /\ Declared(call[t]) = "" /\ call[t].hosts[at[t]] # ""
                  /\ \A i \in 1..3 : i < at[t] => Passed(call[t], i)
                BY <2>3, <2>7 DEF CallInv, CallRight
            <4>2. \A i \in 1..3 : i < at[t] =>
                     call[t].hosts[i] = "" \/ ClientFromHost(clientHosts, call[t].hosts[i]) = ""
                BY <4>1 DEF Passed
            <4>3. ResolveClient(clientHosts, call[t]) = ClientFromHost(clientHosts, call[t].hosts[at[t]])
                BY <2>7, <3>1, <4>1, <4>2, ResolvedAt
            <4> QED
                BY <2>2, <4>3
        <3> QED
            BY <1>15, <2>4, <2>7, <3>2, Replies DEF Read, Goto, Answer
    <2>8. CASE call[t].op = "resolve" /\ ClientFromHost(clientHosts, call[t].hosts[at[t]]) = ""
        <3>1. pc' = [pc EXCEPT ![t] = "scan"] /\ answer' = answer
            BY <1>15, <2>8 DEF Read, Goto, Answer
        <3> QED
            BY <2>1, <2>3, <3>1, Stutters DEF Phase
    <2> QED
        BY <1>15, <2>5, <2>6, <2>7, <2>8 DEF Read
<1>16. ASSUME NEW t \in Thread, Return(t) PROVE [Directory!DNext]_(Directory!dvars)
    <2>1. namesBar' = namesBar /\ hostsBar' = hostsBar
        BY <1>16, BarsStay DEF Return, env, tables
    <2>2. state[t] = "done" /\ state' = [state EXCEPT ![t] = "idle"]
        BY <1>16, StateMoves DEF Return, Phase, Goto
    <2>3. Directory!Return(t)
        BY <1>16, <2>1, <2>2 DEF Directory!Return, Return, Answer
    <2> QED
        BY <2>3 DEF Directory!DNext
<1>17. CASE UNCHANGED vars
    BY <1>17 DEF vars, Directory!dvars, namesBar, hostsBar, state
<1> QED
    BY <1>1, <1>2, <1>3, <1>4, <1>5, <1>6, <1>7, <1>8, <1>9,
       <1>10, <1>11, <1>12, <1>13, <1>14, <1>15, <1>16, <1>17
       DEF Next, Proceed, Initialise, Body

-----------------------------------------------------------------------------
(* The registry of client.go implements the atomic directory, for any      *)
(* goroutines, calls and environment: no registration is undone by the     *)
(* lazy defaults, and no lookup sees a half-filled table.                  *)
THEOREM RegistryImplementsDirectory == Spec => ImplementsDirectory
<1>1. Init => Directory!DInit
    BY InitImplements
<1>2. IInv /\ IInv' /\ [Next]_vars => [Directory!DNext]_(Directory!dvars)
    BY StepImplements
<1> QED
    BY <1>1, <1>2, RegistryInvariant, PTL DEF Spec, ImplementsDirectory, Directory!DSpec

=============================================================================
