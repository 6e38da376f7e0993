------------------------------ MODULE MC_RunqLat ------------------------------
(***************************************************************************)
(* Model of runqlat.c for TLC.  SingleThreaded: two single-task processes  *)
(* (task id = tgid).  MultiThreaded: process 1 has its leader (task id 1)  *)
(* and a second thread (task id 3).                                        *)
(***************************************************************************)
EXTENDS RunqLat

CONSTANTS a, b

MCTasks == {a, b}
SingleTid == (a :> 1) @@ (b :> 2)
SingleTgid == (a :> 1) @@ (b :> 2)
MultiTid == (a :> 1) @@ (b :> 3)
MultiTgid == (a :> 1) @@ (b :> 1)
=============================================================================
