--------------------------- MODULE MCOperatorManager ---------------------------
(***************************************************************************)
(* Instance of OperatorManager for TLC: two replicas (artifacts/operator-  *)
(* manager.yaml) and the shortest lease that the assumption allows.        *)
(***************************************************************************)
EXTENDS OperatorManager

CONSTANTS r1, r2

\* The default, and a list in which an entry before "*" decides.
Lists == {<<"*">>, <<"-rediscluster", "*">>}
=============================================================================
