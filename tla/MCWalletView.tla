----------------------------- MODULE MCWalletView -----------------------------
(***************************************************************************)
(* An instance of WalletView for TLC.                                      *)
(***************************************************************************)
EXTENDS WalletView

CONSTANTS coin, spend, a, b

\* "coin" pays 2 to a, and "spend" takes them and pays 1 to b.
MCPays ==
    [t \in Tx |-> [sh \in Sh |-> CASE t = coin /\ sh = a  -> 2
                                   [] t = spend /\ sh = b -> 1
                                   [] OTHER               -> 0]]
MCIns  == [t \in Tx |-> IF t = coin THEN {} ELSE {<<coin, a>>}]

\* The indexer has "coin" from the start, but a wallet may send it once more.
MCMaxStores == [t \in Tx |-> 1]
=============================================================================
