--------------------------- MODULE ClientDirectory ---------------------------
(***************************************************************************)
(* What client.go promises, as if every call took effect at one moment     *)
(* between its start and its end: a directory that is configured before    *)
(* anybody looks, and that registrations update one after another.         *)
(***************************************************************************)
EXTENDS ClientTables

CONSTANTS Thread, Calls, NoCall

VARIABLES names, hosts, state, call, answer

dvars == <<names, hosts, state, call, answer>>

DInit ==
    /\ \E pairs \in EnvNames : names = EnvironmentNames(DefaultNames, pairs)
    /\ \E pairs \in EnvHosts : hosts = EnvironmentHosts(DefaultHosts, pairs)
    /\ state = [t \in Thread |-> "idle"]
    /\ call = [t \in Thread |-> NoCall]
    /\ answer = [t \in Thread |-> {}]

Invoke(t) ==
    /\ state[t] = "idle"
    /\ state' = [state EXCEPT ![t] = "called"]
    /\ \E c \in Calls : call' = [call EXCEPT ![t] = c]
    /\ UNCHANGED <<names, hosts, answer>>

(* What a call answers, from the tables as they are. *)
Reply(c) ==
    CASE c.op = "register" -> {}
      [] c.op = "name" -> NameAnswer(c.raw, ClientName(names, c.raw))
      [] c.op = "options" -> OptionsAnswer(names)
      [] c.op = "resolve" -> ResolveAnswer(ResolveClient(hosts, c))

TakeEffect(t) ==
    /\ state[t] = "called"
    /\ state' = [state EXCEPT ![t] = "done"]
    /\ names' = IF call[t].op = "register" /\ Registrable(call[t]) THEN Registered(names, call[t]) ELSE names
    /\ answer' = [answer EXCEPT ![t] = Reply(call[t])]
    /\ UNCHANGED <<hosts, call>>

Return(t) ==
    /\ state[t] = "done"
    /\ state' = [state EXCEPT ![t] = "idle"]
    /\ call' = [call EXCEPT ![t] = NoCall]
    /\ answer' = [answer EXCEPT ![t] = {}]
    /\ UNCHANGED <<names, hosts>>

DNext == \E t \in Thread : Invoke(t) \/ TakeEffect(t) \/ Return(t)

DSpec == DInit /\ [][DNext]_dvars
=============================================================================
