-------------------------- MODULE MCFiberScheduler --------------------------
(* Instances of FiberScheduler for TLC: how many operations each fiber of  *)
(* the program may call.                                                   *)
EXTENDS FiberScheduler

(* Enough for main to open a scope, fork two children and use them.        *)
MainHasFour == [f \in Fibers |-> IF f = Main THEN 4 ELSE 2]
(* The same, with a second child that calls one operation.                 *)
OneChildIsShort == [f \in Fibers |-> IF f = Main THEN 4 ELSE IF f = 2 THEN 2 ELSE 1]
=============================================================================
