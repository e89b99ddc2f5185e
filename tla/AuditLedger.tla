---------------------------- MODULE AuditLedger ----------------------------
(***************************************************************************)
(* What the audit path promises, without channels, loops or goroutines: a  *)
(* bounded first-in first-out ledger.  Each row is accepted into a FIFO    *)
(* that is published in order, or, when the FIFO is full, is dropped if it *)
(* is not critical and diverted to the database if it is.  A process       *)
(* configured to stay synchronous stores every row in the database.        *)
(***************************************************************************)
EXTENDS Naturals, Sequences

CONSTANTS Req, Critical, QueueCap, Faults

VARIABLES
    async,    \* whether rows go through the FIFO
    status,   \* what has become of each row
    pending,  \* the accepted rows that are not settled, oldest first
    log       \* the rows published, oldest first

vars == <<async, status, pending, log>>

Init ==
    /\ async \in BOOLEAN
    /\ status = [r \in Req |-> "open"]
    /\ pending = <<>>
    /\ log = <<>>

(* One row may be in the publisher's hands besides the QueueCap queued. *)
Accept(r) ==
    /\ async
    /\ status[r] = "open"
    /\ Len(pending) <= QueueCap
    /\ pending' = Append(pending, r)
    /\ status' = [status EXCEPT ![r] = "accepted"]
    /\ UNCHANGED <<async, log>>

(* Only a full FIFO turns a row away, and a critical row is not given up. *)
Overflow(r) ==
    /\ async
    /\ status[r] = "open"
    /\ Len(pending) >= QueueCap
    /\ status' = [status EXCEPT ![r] = IF r \in Critical THEN "diverted" ELSE "dropped"]
    /\ UNCHANGED <<async, pending, log>>

Insert(r) ==
    /\ status[r] = IF async THEN "diverted" ELSE "open"
    /\ \/ status' = [status EXCEPT ![r] = "stored"]
       \/ /\ "insert" \in Faults
          /\ status' = [status EXCEPT ![r] = "lost"]
    /\ UNCHANGED <<async, pending, log>>

(* The oldest accepted row is published, perhaps twice, or lost. *)
Settle ==
    /\ pending # <<>>
    /\ \/ /\ log' = Append(log, Head(pending))
          /\ status' = [status EXCEPT ![Head(pending)] = "published"]
       \/ /\ "duplicate" \in Faults
          /\ log' = Append(Append(log, Head(pending)), Head(pending))
          /\ status' = [status EXCEPT ![Head(pending)] = "published"]
       \/ /\ "publish" \in Faults
          /\ log' = log
          /\ status' = [status EXCEPT ![Head(pending)] = "lost"]
    /\ pending' = Tail(pending)
    /\ UNCHANGED async

(* A crash takes every accepted row, and the rows of the requests that were *)
(* being served; what was published or stored stays.                       *)
Crash ==
    /\ pending' = <<>>
    /\ \E dying \in SUBSET {r \in Req : status[r] \in {"open", "diverted", "dropped"}} :
          status' = [r \in Req |-> IF status[r] = "accepted" \/ r \in dying
                                   THEN "lost" ELSE status[r]]
    /\ UNCHANGED <<async, log>>

Next == (\E r \in Req : Accept(r) \/ Overflow(r) \/ Insert(r)) \/ Settle \/ Crash

Spec == Init /\ [][Next]_vars
=============================================================================
