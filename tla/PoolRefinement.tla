--------------------------- MODULE PoolRefinement ----------------------------
(***************************************************************************)
(* PoolLifecycle implements PoolPromise: the refinement mapping.           *)
(***************************************************************************)
EXTENDS PoolLifecycle

\* Failed rows wait too: they are requeued, or retried by their owner.
Stage(r) ==
    CASE db[r].status = "fresh"                             -> "absent"
      [] db[r].status \in {"pending", "scheduled", "failed"} -> "waiting"
      [] db[r].status = "broadcast"                         -> "sent"
      [] db[r].status = "confirmed"                         -> "confirmed"
      [] OTHER                                              -> "removed"

\* Rows whose owner, or whose locktime, has said when they may go.
Released == {r \in Row : ask[r].kind \notin {"none", "hold"}}

\* Rows in the hands of an actor that will send or mark them.  The failed rows
\* the broadcast loop has listed are not: it looks at them again.
Claimed ==
    (IF tickPc = "requeue" THEN {} ELSE tickTodo)
        \cup {r \in Row : r \in {tickCur, cliCur}}
        \cup blkTodo \cup prcTodo
        \cup {r \in Row : \/ ing[r].pc = "stored"
                          \/ ing[r].pc = "inserted" /\ db[r].mode = "immediate"}

Promise == INSTANCE PoolPromise
    WITH stage    <- [r \in Row |-> Stage(r)],
         tx       <- [r \in Row |-> db[r].tx],
         released <- Released,
         claimed  <- Claimed,
         public   <- accepted,
         chain    <- {t \in Tx : net[t] = "mined"}

\* The loops, the ingest, the web API and the command line, interleaved with
\* faults and restarts, keep the promise of the pool: a transaction is made
\* public only after its owner or its locktime released it and an actor then
\* listed it as waiting; it is recorded as sent only once it is public, and as
\* confirmed only while it is in the chain; and a removed row stays removed.
PromiseKept == Promise!Spec
=============================================================================
