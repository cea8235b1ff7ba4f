-------------------------- MODULE MCPoolLifecycle ---------------------------
(* Values for TLC: the threshold is 10, so heights are below and times above *)
(* it, and a transaction is identified by its locktime.                      *)
EXTENDS PoolRefinement, TLC

CONSTANTS tFree, tPast, tBlock, tTime, tEdge

MCLockOf ==
    [t \in Tx |-> CASE t = tFree  -> 0
                    [] t = tPast  -> 1
                    [] t = tBlock -> 2
                    [] t = tTime  -> 12
                    [] t = tEdge  -> LOCKTIME_THRESHOLD]

\* Rows are interchangeable identifiers.
RowSymmetry == Permutations(Row)
=============================================================================
