-------------------------- MODULE AuditRefinement --------------------------
(***************************************************************************)
(* AuditPipeline implements AuditLedger when the process initialises the   *)
(* publisher before it serves requests.  A row's fate is settled by the    *)
(* select of EnqueueAudit, before saveOperationLog acts on it: a row that  *)
(* met a full queue is dropped or diverted from that moment on.            *)
(***************************************************************************)
EXTENDS AuditPipeline

(* The rows the one channel and the one loop hold, oldest first. *)
pendingBar ==
    IF auditCh = None THEN <<>>
    ELSE IF hold[auditCh] = None THEN chans[auditCh]
    ELSE <<hold[auditCh]>> \o chans[auditCh]

(* The row met a full queue and the fallback has not been carried out. *)
Overflowed(r) == pc[r] \in {"fallback", "insert"} /\ ch[r] # None

fate(r) ==
    CASE r \in mongo -> "stored"
      [] InPipeline(r) -> "accepted"
      [] InKafka(r) -> "published"
      [] lost[r] = "full" -> "dropped"
      [] lost[r] \notin {"no", "full"} -> "lost"
      [] Overflowed(r) -> IF r \in Critical THEN "diverted" ELSE "dropped"
      [] OTHER -> "open"

statusBar == [r \in Req |-> fate(r)]

Ledger == INSTANCE AuditLedger WITH status <- statusBar, pending <- pendingBar, log <- kafka

(* Every step of the pipeline is a step of the ledger or changes nothing   *)
(* the ledger sees: rows are published in the order they were accepted,    *)
(* only a full queue turns a row away, no critical row is given up, and a  *)
(* row is accepted or stored, never both.                                  *)
ImplementsLedger == Ledger!Spec
=============================================================================
