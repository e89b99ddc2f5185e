--------------------------- MODULE ClientRegistry ---------------------------
(***************************************************************************)
(* The registry of client.go as goroutines run it: initClients behind a    *)
(* sync.Once that every operation enters first, the two tables behind one  *)
(* sync.RWMutex, a lookup of a host that takes the lock anew for each of   *)
(* Origin, Referer and Host.  A writer announces itself and then waits for *)
(* the readers to leave; readers that come later wait for it.              *)
(***************************************************************************)
EXTENDS ClientTables

CONSTANTS
    Thread, NoThread,   \* goroutines
    Calls, NoCall       \* calls they may make

ASSUME ClientRegistryAssumption ==
    /\ NoThread \notin Thread
    /\ Calls \subseteq RegisterCall \cup NameCall \cup OptionsCall \cup ResolveCall

VARIABLES
    clientNames, clientHosts,
    once,             \* clientInitMu: not run, running, done
    writer, readers,  \* clientMu
    envNames, envHosts,  \* the order in which Go will visit the environment's pairs
    pc, at,           \* where each goroutine is; which host it looks at
    call, answer

tables == <<clientNames, clientHosts>>
lock == <<writer, readers>>
env == <<envNames, envHosts>>
vars == <<clientNames, clientHosts, once, writer, readers, envNames, envHosts, pc, at, call, answer>>

Init ==
    /\ clientNames = [c \in Code |-> ""]
    /\ clientHosts = [l \in Label |-> ""]
    /\ once = "new"
    /\ writer = NoThread /\ readers = {}
    /\ envNames \in EnvNames /\ envHosts \in EnvHosts
    /\ pc = [t \in Thread |-> "idle"]
    /\ at = [t \in Thread |-> 1]
    /\ call = [t \in Thread |-> NoCall]
    /\ answer = [t \in Thread |-> {}]

Goto(t, label) == pc' = [pc EXCEPT ![t] = label]
Answer(t, a) == answer' = [answer EXCEPT ![t] = a]

(* Every operation starts with initClients.  Operators whose name has an *)
(* underscore are slips a run must catch.                                *)
FirstStep_LookupsOnly(c) == IF c.op = "register" THEN "body" ELSE "once"
FirstStep(c) == "once"

Start(t) ==
    /\ pc[t] = "idle"
    /\ \E c \in Calls : call' = [call EXCEPT ![t] = c] /\ Goto(t, FirstStep(c))
    /\ UNCHANGED <<tables, once, lock, env, at, answer>>

-----------------------------------------------------------------------------
(* clientInitMu.Do: the first runs the function, the others wait for its end. *)
EnterOnce(t) ==
    /\ pc[t] = "once"
    /\ \/ once = "new" /\ once' = "running" /\ Goto(t, "initLock")
       \/ once = "done" /\ Goto(t, "body") /\ UNCHANGED once
    /\ UNCHANGED <<tables, lock, env, at, call, answer>>

InitDefaults(t) ==
    /\ pc[t] = "init"
    /\ clientNames' = [c \in Code |-> IF DefaultNames[c] # "" THEN DefaultNames[c] ELSE clientNames[c]]
    /\ clientHosts' = [l \in Label |-> IF DefaultHosts[l] # "" THEN DefaultHosts[l] ELSE clientHosts[l]]
    /\ Goto(t, "initEnv")
    /\ UNCHANGED <<once, lock, env, at, call, answer>>

InitEnvironment(t) ==
    /\ pc[t] = "initEnv"
    /\ clientNames' = EnvironmentNames(clientNames, envNames)
    /\ clientHosts' = EnvironmentHosts(clientHosts, envHosts)
    /\ writer' = NoThread
    /\ Goto(t, "initDone")
    /\ UNCHANGED <<once, readers, env, at, call, answer>>

FinishOnce(t) ==
    /\ pc[t] = "initDone"
    /\ once' = "done"
    /\ Goto(t, "body")
    /\ UNCHANGED <<tables, lock, env, at, call, answer>>

-----------------------------------------------------------------------------
(* clientMu.Lock: announce, then wait for the readers. *)
Announce(t) ==
    /\ pc[t] \in {"lock", "initLock"}
    /\ writer = NoThread
    /\ writer' = t
    /\ Goto(t, IF pc[t] = "lock" THEN "drain" ELSE "initDrain")
    /\ UNCHANGED <<tables, once, readers, env, at, call, answer>>

Drain(t) ==
    /\ pc[t] \in {"drain", "initDrain"}
    /\ readers = {}
    /\ Goto(t, IF pc[t] = "drain" THEN "write" ELSE "init")
    /\ UNCHANGED <<tables, once, lock, env, at, call, answer>>

MayRead_Always == TRUE
MayRead == writer = NoThread

RLock(t) ==
    /\ pc[t] = "rlock"
    /\ MayRead
    /\ readers' = readers \cup {t}
    /\ Goto(t, "read")
    /\ UNCHANGED <<tables, once, writer, env, at, call, answer>>

-----------------------------------------------------------------------------
(* RegisterClient *)
Register(t) ==
    /\ pc[t] = "body" /\ call[t].op = "register"
    /\ Goto(t, IF Registrable(call[t]) THEN "lock" ELSE "return")
    /\ UNCHANGED <<tables, once, lock, env, at, call, answer>>

Write(t) ==
    /\ pc[t] = "write"
    /\ clientNames' = Registered(clientNames, call[t])
    /\ writer' = NoThread
    /\ Goto(t, "return")
    /\ UNCHANGED <<clientHosts, once, readers, env, at, call, answer>>

(* ClientName, ClientOptions and ResolveClient up to the lock *)
LookupName(t) ==
    /\ pc[t] = "body" /\ call[t].op = "name"
    /\ IF call[t].raw = "" THEN Goto(t, "return") /\ Answer(t, NameAnswer("", UnknownClientName))
       ELSE Goto(t, "rlock") /\ UNCHANGED answer
    /\ UNCHANGED <<tables, once, lock, env, at, call>>

Options(t) ==
    /\ pc[t] = "body" /\ call[t].op = "options"
    /\ Goto(t, "rlock")
    /\ UNCHANGED <<tables, once, lock, env, at, call, answer>>

Resolve(t) ==
    /\ pc[t] = "body" /\ call[t].op = "resolve"
    /\ IF Declared(call[t]) # "" THEN Goto(t, "return") /\ Answer(t, ResolveAnswer(Declared(call[t])))
       ELSE Goto(t, "scan") /\ UNCHANGED answer
    /\ UNCHANGED <<tables, once, lock, env, at, call>>

NextHost_Skips(i) == i + 2
NextHost_Same(i) == i
NextHost(i) == i + 1

(* The loop over Origin, Referer and Host; clientFromHost skips an absent one. *)
Scan(t) ==
    /\ pc[t] = "scan"
    /\ \/ at[t] > 3 /\ Goto(t, "return") /\ Answer(t, ResolveAnswer("")) /\ UNCHANGED at
       \/ /\ at[t] <= 3 /\ call[t].hosts[at[t]] = ""
          /\ at' = [at EXCEPT ![t] = NextHost(@)]
          /\ UNCHANGED <<pc, answer>>
       \/ at[t] <= 3 /\ call[t].hosts[at[t]] # "" /\ Goto(t, "rlock") /\ UNCHANGED <<at, answer>>
    /\ UNCHANGED <<tables, once, lock, env, call>>

(* What is read under the lock, and the unlock. *)
Read(t) ==
    /\ pc[t] = "read"
    /\ readers' = readers \ {t}
    /\ \/ /\ call[t].op = "name"
          /\ Answer(t, NameAnswer(call[t].raw, ClientName(clientNames, call[t].raw)))
          /\ Goto(t, "return") /\ UNCHANGED at
       \/ /\ call[t].op = "options"
          /\ Answer(t, OptionsAnswer(clientNames))
          /\ Goto(t, "return") /\ UNCHANGED at
       \/ /\ call[t].op = "resolve"
          /\ LET code == ClientFromHost(clientHosts, call[t].hosts[at[t]])
             IN IF code # "" THEN Answer(t, ResolveAnswer(code)) /\ Goto(t, "return") /\ UNCHANGED at
                ELSE at' = [at EXCEPT ![t] = NextHost(@)] /\ Goto(t, "scan") /\ UNCHANGED answer
    /\ UNCHANGED <<tables, once, writer, env, call>>

Return(t) ==
    /\ pc[t] = "return"
    /\ Goto(t, "idle")
    /\ call' = [call EXCEPT ![t] = NoCall]
    /\ Answer(t, {})
    /\ at' = [at EXCEPT ![t] = 1]
    /\ UNCHANGED <<tables, once, lock, env>>

-----------------------------------------------------------------------------
Body(t) == Register(t) \/ LookupName(t) \/ Options(t) \/ Resolve(t) \/ Scan(t)
Initialise(t) == EnterOnce(t) \/ InitDefaults(t) \/ InitEnvironment(t) \/ FinishOnce(t)
Proceed(t) == Initialise(t) \/ Drain(t) \/ Body(t) \/ Write(t) \/ Read(t) \/ Return(t)

Next == \E t \in Thread : Start(t) \/ Proceed(t) \/ Announce(t) \/ RLock(t)

(* A goroutine that can go on does; Go's mutexes do not starve a waiter. *)
Fairness == \A t \in Thread : WF_vars(Proceed(t)) /\ SF_vars(Announce(t)) /\ SF_vars(RLock(t))

Spec == Init /\ [][Next]_vars /\ Fairness

-----------------------------------------------------------------------------
(* Type invariant of the registry. *)
TypeOK ==
    /\ clientNames \in NameTable /\ clientHosts \in HostTable
    /\ once \in {"new", "running", "done"}
    /\ writer \in Thread \cup {NoThread} /\ readers \subseteq Thread
    /\ envNames \in EnvNames /\ envHosts \in EnvHosts
    /\ pc \in [Thread -> {"idle", "once", "initLock", "initDrain", "init", "initEnv", "initDone", "body",
                          "lock", "drain", "write", "scan", "rlock", "read", "return"}]
    /\ at \in [Thread -> 1..4]
    /\ call \in [Thread -> Calls \cup {NoCall}]

(* Nobody touches a table while another goroutine writes one: Go ends the *)
(* process on such a concurrent map access (clientMu).                    *)
RaceFree ==
    \A t \in Thread : pc[t] \in {"init", "initEnv", "write"} =>
        \A u \in Thread \ {t} : pc[u] \notin {"init", "initEnv", "write", "read"}

(* Every call returns: no lock is left behind, no reader and writer wait for *)
(* each other, and nobody waits for the initialisation for ever.             *)
CallsReturn == \A t \in Thread : pc[t] = "once" ~> pc[t] = "idle"

(* The registry is the directory that is configured before anybody looks and *)
(* in which every call takes effect at one moment: a registration is never   *)
(* undone by the defaults, a lookup never sees a half-filled table.          *)
state == [t \in Thread |->
    CASE pc[t] = "idle" -> "idle" [] pc[t] = "return" -> "done" [] OTHER -> "called"]
namesBar == IF once = "done" THEN clientNames ELSE EnvironmentNames(DefaultNames, envNames)
hostsBar == IF once = "done" THEN clientHosts ELSE EnvironmentHosts(DefaultHosts, envHosts)

Directory == INSTANCE ClientDirectory WITH names <- namesBar, hosts <- hostsBar
ImplementsDirectory == Directory!DSpec

=============================================================================
