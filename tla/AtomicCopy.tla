------------------------------ MODULE AtomicCopy ------------------------------
(***************************************************************************)
(* What a copy promises to whoever lists the directory it is made in: its  *)
(* name comes to name the whole file, at once and for good, or never does; *)
(* and whoever asked for the copy is told once, of a success only when the *)
(* file is there.  A copy that is said to have failed may still appear.    *)
(***************************************************************************)

VARIABLES
  names,  (* what the name of the copy names: nothing, or the whole file    *)
  told    (* what was said of it: not yet, ok or failed                    *)

Init == names = "nothing" /\ told = "not yet"

Appear == names = "nothing" /\ told # "ok" /\ names' = "whole" /\ UNCHANGED told

Succeed == told = "not yet" /\ names = "whole" /\ told' = "ok" /\ UNCHANGED names

Fail == told = "not yet" /\ told' = "failed" /\ UNCHANGED names

Next == Appear \/ Succeed \/ Fail

Spec == Init /\ [][Next]_<<names, told>>
=============================================================================
