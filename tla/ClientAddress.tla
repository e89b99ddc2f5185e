--------------------------- MODULE ClientAddress ---------------------------
(***************************************************************************)
(* Which address a row gives for the visitor (clientip.go), and the hops    *)
(* before the service: Cloudflare, nginx and APISIX, which are external.    *)
(***************************************************************************)

CONSTANTS Visitor, Forged, Edge, Gateway   \* addresses; Edge is in cloudflareCIDRs

ASSUME AddressAssumption ==
    /\ "" \notin {Visitor, Forged, Edge, Gateway} /\ "junk" \notin {Visitor, Forged, Edge, Gateway}
    /\ Edge \notin {Visitor, Forged, Gateway}

validIP(s) == IF s \in {"", "junk"} THEN "" ELSE s
isCloudflareIP(ip) == ip = Edge

(* firstValid: the first header whose first element is an address. *)
firstValid(x, y, z) == IF validIP(x) # "" THEN x ELSE IF validIP(y) # "" THEN y ELSE validIP(z)

(* Operators whose name has an underscore are slips a run must catch. *)
clientRemoteIP_KeepPeer(h) == firstValid(h.real, h.forwarded, h.direct)
clientRemoteIP(h) ==
    LET peer == firstValid(h.real, h.forwarded, h.direct)
    IN IF isCloudflareIP(peer) /\ validIP(h.cf) # "" THEN h.cf
       ELSE IF peer = "" THEN h.direct ELSE peer

(* What a visitor that does not come through Cloudflare may put in its header. *)
MadeUp == {"", "junk", Forged}

(* The headers that reach the service.  Cloudflare overwrites its own       *)
(* header; nginx writes X-Real-IP, with the visitor's address when it knows *)
(* the edge's network; X-Forwarded-For begins with what the visitor sent.   *)
Arrivals ==
    {[real |-> IF restored THEN Visitor ELSE Edge, forwarded |-> f, cf |-> Visitor, direct |-> Gateway] :
        restored \in BOOLEAN, f \in {"junk", Forged}}
    \cup {[real |-> Visitor, forwarded |-> f, cf |-> c, direct |-> Gateway] :
        f \in {Visitor, Forged}, c \in MadeUp}
=============================================================================
