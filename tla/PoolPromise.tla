----------------------------- MODULE PoolPromise -----------------------------
(***************************************************************************)
(* What the pool promises to the owner of a transaction, without loops,    *)
(* clocks, backends or processes.  A transaction taken in waits until it   *)
(* is released; only a released one is claimed for sending, and only a     *)
(* claimed one is made public, recorded as sent, or put back to wait.      *)
(* What is recorded is true of the network, and a removed row stays so.    *)
(***************************************************************************)
CONSTANTS Row, Tx, NULL

VARIABLES
    stage,     \* of each row: absent, waiting, sent, confirmed or removed
    tx,        \* the transaction of each row
    released,  \* rows whose owner has said when, or that they may go
    claimed,   \* rows an actor is about to send or to mark from what it read
    public,    \* transactions the network has been given
    chain      \* transactions in the block chain

vars == <<stage, tx, released, claimed, public, chain>>

InTable(r) == stage[r] \in {"waiting", "sent", "confirmed"}

Init ==
    /\ stage = [r \in Row |-> "absent"]
    /\ tx = [r \in Row |-> NULL]
    /\ released = {} /\ claimed = {} /\ public = {} /\ chain = {}

\* A claim may be dropped at any time, by any step.
LetGo == claimed' \subseteq claimed

\* A transaction is taken in: held, released at once by its own locktime, or
\* released and on its way.
Take(r, t) ==
    /\ stage[r] = "absent"
    /\ stage' = [stage EXCEPT ![r] = "waiting"]
    /\ tx' = [tx EXCEPT ![r] = t]
    /\ \/ UNCHANGED released /\ LetGo
       \/ released' = released \cup {r} /\ claimed' \subseteq claimed \cup {r}
    /\ UNCHANGED <<public, chain>>

\* The owner gives an instruction; a row that was sent waits again.
Instruct(r) ==
    /\ stage[r] # "absent"
    /\ stage' = [stage EXCEPT ![r] = IF InTable(r) THEN "waiting" ELSE @]
    /\ released' = released \cup {r}
    /\ UNCHANGED <<tx, claimed, public, chain>>

\* An actor lists rows it will handle later.
Claim ==
    /\ claimed' \subseteq
          claimed \cup {r \in Row : stage[r] = "waiting" /\ r \in released}
    /\ UNCHANGED <<stage, tx, released, public, chain>>

Publish(r) ==
    /\ r \in claimed
    /\ public' = public \cup {tx[r]}
    /\ LetGo
    /\ UNCHANGED <<stage, tx, released, chain>>

\* The owner has a row sent at once, released or not.
SendNow(r) ==
    /\ stage[r] \in {"waiting", "sent"}
    /\ released' = released \cup {r}
    /\ \/ public' = public \cup {tx[r]} /\ claimed' \subseteq claimed \cup {r}
       \/ UNCHANGED public /\ LetGo
    /\ UNCHANGED <<stage, tx, chain>>

Record(r) ==
    /\ r \in claimed /\ InTable(r) /\ tx[r] \in public
    /\ stage' = [stage EXCEPT ![r] = "sent"]
    /\ LetGo
    /\ UNCHANGED <<tx, released, public, chain>>

\* A mark made from what was read before the row was sent.
Reopen(r) ==
    /\ r \in claimed /\ stage[r] \in {"sent", "confirmed"}
    /\ stage' = [stage EXCEPT ![r] = "waiting"]
    /\ LetGo
    /\ UNCHANGED <<tx, released, public, chain>>

Confirm(r) ==
    /\ InTable(r) /\ tx[r] \in chain
    /\ stage' = [stage EXCEPT ![r] = "confirmed"]
    /\ UNCHANGED <<tx, released, claimed, public, chain>>

Remove(r) ==
    /\ InTable(r)
    /\ stage' = [stage EXCEPT ![r] = "removed"]
    /\ UNCHANGED <<tx, released, claimed, public, chain>>

\* Blocks and reorganisations, of what the network has been given.
Network ==
    /\ chain' \subseteq public
    /\ UNCHANGED <<stage, tx, released, claimed, public>>

Next ==
    \/ Claim \/ Network
    \/ \E r \in Row :
        \/ \E t \in Tx : Take(r, t)
        \/ Instruct(r) \/ Publish(r) \/ SendNow(r) \/ Record(r) \/ Reopen(r)
        \/ Confirm(r) \/ Remove(r)

Spec == Init /\ [][Next]_vars
=============================================================================
