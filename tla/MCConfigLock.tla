---------------------------- MODULE MCConfigLock ----------------------------
(* Instances of ConfigLock for TLC: an electrs that answers in the clear or  *)
(* over TLS, and another indexer, which a user may type in.                  *)
EXTENDS ConfigLock

CONSTANTS node, nodeTls, other

MCVariants == [u \in Url |-> IF u = node THEN {nodeTls} ELSE {}]
=============================================================================
