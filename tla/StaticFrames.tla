------------------------------ MODULE StaticFrames ------------------------------
(***************************************************************************)
(* V6ClangStaticStackAlloc composed with the program it compiled: the pass  *)
(* runs to its end, then the program runs, interrupts and all, with the     *)
(* frames the pass made static.                                             *)
(***************************************************************************)
EXTENDS StaticStackAlloc, ActivationStack

vars == <<prog, passVars, runVars>>

Init == PassInit /\ RunInit

CompileStep == pc # "run" /\ PassNext /\ UNCHANGED runVars

RunStep == pc = "run" /\ RunNext(static, slots) /\ UNCHANGED passVars

Next == CompileStep \/ RunStep

Spec == Init /\ [][Next]_vars

(* The pass is a sequential program that nothing else holds up.             *)
FairSpec == Spec /\ WF_vars(CompileStep)

-----------------------------------------------------------------------------
(* The type invariant of the pass and of the running program.               *)
TypeOK == PassTypeOK /\ RunTypeOK

(* A function given a static frame cannot be re-entered while a previous    *)
(* activation is still live: the one correctness requirement the pass names *)
(* (V6ClangStaticStackAlloc.cpp, comment of hasNoCallbackEvidenceImpl).     *)
StaticNotReentered == NotReenteredIn(static)

(* What a live activation stored in its static frame is there until that    *)
(* activation stores again: neither an interrupt handler, nor a callee, nor *)
(* another object of the frame overwrites it.                               *)
FramesIntact == FramesIntactIn(static, slots)

(* What activation d still finds of what it stored in its static frame.     *)
Found(d) ==
  {i \in stack[d].stored :
     \A b \in FrameBytes :
       b \in slots[stack[d].fn][i].off
               ..(slots[stack[d].fn][i].off + slots[stack[d].fn][i].size - 1)
         => mem[stack[d].fn][b] = [depth |-> d, obj |-> i]}

Calls ==
  [d \in 1..Len(stack) |->
     [fn |-> stack[d].fn, holds |-> IF stack[d].fn \in static THEN Found(d) ELSE {}]]

Private == INSTANCE PrivateFrames WITH calls <- Calls, Objs <- 1..MaxObjs

(* The program with static frames, all activations of a function sharing    *)
(* one, behaves as a program in which every activation has its own          *)
(* (V6ClangRegisterInfo::eliminateFrameIndex turns the one into the other). *)
ImplementsPrivate == Private!Spec
=============================================================================
