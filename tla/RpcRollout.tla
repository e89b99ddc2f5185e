----------------------------- MODULE RpcRollout -----------------------------
(***************************************************************************)
(* The authentication of calls between services (rpcauth.go) while the     *)
(* shared token is introduced or changed, service by service, through the  *)
(* window that middle.rpc.allowUnauthenticated opens.  Each service reads  *)
(* its own configuration anew for every call that it sends or receives;    *)
(* calls are under way while configurations change.  The order in which an *)
(* operator changes them is outside the repository.                        *)
(***************************************************************************)
CONSTANTS
    Service,  \* services, each both caller and callee
    Call,     \* calls
    Old, New, \* the token before and after the change
    Other     \* what an older caller's Token header may hold instead

NoToken == ""

ASSUME RpcRolloutAssumption ==
    /\ NoToken \notin {Old, New, Other}
    /\ Old # New /\ Other \notin {Old, New}

VARIABLES
    auth,     \* rpc.auth_token of each service
    legacy,   \* rpc.token of each service
    allow,    \* middle.rpc.allowUnauthenticated of each service
    call      \* the calls

vars == <<auth, legacy, allow, call>>
config == <<auth, legacy, allow>>

(* at: the service that found the token wrong and has not read its window. *)
Nowhere == ""
NoCall == [state |-> "none", internal |-> NoToken, token |-> NoToken, at |-> Nowhere]

(* InternalToken: the older key counts only where the newer is not set.    *)
(* Operators whose name has an underscore are slips a run must catch.      *)
InternalToken_LegacyFirst(s) == IF legacy[s] # NoToken THEN legacy[s] ELSE auth[s]
InternalToken(s) == IF auth[s] # NoToken THEN auth[s] ELSE legacy[s]

(* Before the change calls succeed: all services share the old token, under *)
(* either key, or every service's window is open.                           *)
Init ==
    /\ auth \in [Service -> {Old, NoToken}]
    /\ legacy \in [Service -> {Old, NoToken}]
    /\ \E open \in BOOLEAN : allow = [s \in Service |-> open]
    /\ \A s \in Service : InternalToken(s) = Old \/ allow[s]
    /\ call = [c \in Call |-> NoCall]

(* The operator opens every window, then sets every token, then closes the   *)
(* windows once every service has the token and the calls that were sent or  *)
(* are being judged without it have ended.                                  *)
OpenWindow(s) ==
    /\ ~allow[s] /\ \A t \in Service : auth[t] # New
    /\ allow' = [allow EXCEPT ![s] = TRUE]
    /\ UNCHANGED <<auth, legacy, call>>

SetAuthToken(s) ==
    /\ auth[s] # New /\ \A t \in Service : allow[t]
    /\ auth' = [auth EXCEPT ![s] = New]
    /\ UNCHANGED <<legacy, allow, call>>

CloseWindow(s) ==
    /\ allow[s]
    /\ \A t \in Service : auth[t] = New
    /\ \A c \in Call : /\ call[c].state = "sent" => New \in {call[c].internal, call[c].token}
                       /\ call[c].state # "doubted"
    /\ allow' = [allow EXCEPT ![s] = FALSE]
    /\ UNCHANGED <<auth, legacy, call>>

(* SetInternalToken leaves the header alone where no token is configured. *)
InternalHeader_Forwarded(s, carried) == IF InternalToken(s) # NoToken THEN InternalToken(s) ELSE carried
InternalHeader(s, carried) == InternalToken(s)

(* A call of a service: the token goes into X-Internal-Token; an older caller *)
(* puts it into Token; a caller without one adds nothing of its own.       *)
Send(c, s) ==
    /\ call[c].state = "none"
    /\ \E older \in BOOLEAN, carried \in {NoToken, Other} :
          call' = [call EXCEPT ![c] =
              [state |-> "sent",
               internal |-> IF older THEN NoToken ELSE InternalHeader(s, carried),
               token |-> IF older THEN InternalToken(s) ELSE carried, at |-> Nowhere]]
    /\ UNCHANGED config

(* RPCAuthMiddleware: Token counts only without X-Internal-Token. *)
Presented(c) == IF call[c].internal # NoToken THEN call[c].internal ELSE call[c].token

ValidInternalToken(s, got) ==
    LET want == InternalToken(s) IN want # NoToken /\ got # NoToken /\ got = want

AllowUnauthenticated(s) == allow[s]

(* The token is read first, and only where it does not match the window:     *)
(* the configuration may change in between.                                 *)
Receive(c, s) ==
    /\ call[c].state = "sent"
    /\ call' = [call EXCEPT ![c] =
          IF ValidInternalToken(s, Presented(c)) THEN [@ EXCEPT !.state = "accepted"]
          ELSE [@ EXCEPT !.state = "doubted", !.at = s]]
    /\ UNCHANGED config

ReadWindow(c, s) ==
    /\ call[c].state = "doubted" /\ call[c].at = s
    /\ call' = [call EXCEPT ![c].state = IF AllowUnauthenticated(s) THEN "accepted" ELSE "rejected"]
    /\ UNCHANGED config

Next ==
    \/ \E s \in Service : OpenWindow(s) \/ SetAuthToken(s) \/ CloseWindow(s)
    \/ \E c \in Call, s \in Service : Send(c, s) \/ Receive(c, s) \/ ReadWindow(c, s)

Spec == Init /\ [][Next]_vars

-----------------------------------------------------------------------------
(* Type invariant of the rollout. *)
TypeOK ==
    /\ auth \in [Service -> {Old, New, NoToken}]
    /\ legacy \in [Service -> {Old, NoToken}]
    /\ allow \in [Service -> BOOLEAN]
    /\ call \in [Call -> [state : {"none", "sent", "doubted", "accepted", "rejected"},
                          internal : {Old, New, NoToken}, token : {Old, New, Other, NoToken},
                          at : Service \cup {Nowhere}]]

(* While the token is introduced or changed, no call between services is *)
(* rejected, whenever it is sent, and to whichever service (RPCAuth-     *)
(* Middleware, SetInternalToken and the window).                         *)
NobodyRejected == \A c \in Call : call[c].state # "rejected"

=============================================================================
