----------------------------- MODULE PrivateFrames -----------------------------
(***************************************************************************)
(* What a compiled program may rely on, wherever the compiler puts its      *)
(* frames: each activation has a frame of its own.  An object of it holds   *)
(* what its activation stored until the activation is left, and nothing     *)
(* that other activations do is seen there.                                 *)
(***************************************************************************)
EXTENDS Naturals, Sequences

CONSTANTS
  Funcs,
  Objs     \* the objects of a frame

VARIABLE calls   \* live activations: the function, and the objects that hold what it stored

Init == calls = <<>>

Enter == \E f \in Funcs : calls' = Append(calls, [fn |-> f, holds |-> {}])

Leave ==
  /\ Len(calls) > 1
  /\ calls' = SubSeq(calls, 1, Len(calls) - 1)

Store ==
  /\ calls # <<>>
  /\ \E i \in Objs : calls' = [calls EXCEPT ![Len(calls)].holds = @ \cup {i}]

Next == Enter \/ Leave \/ Store

Spec == Init /\ [][Next]_calls
=============================================================================
