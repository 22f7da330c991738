------------------------------ MODULE AllocaFrames ------------------------------
(***************************************************************************)
(* V6ClangAllocaPromote composed with the program it rewrote: the pass runs *)
(* to its end, then the program runs with its locals in the globals.        *)
(***************************************************************************)
EXTENDS AllocaPromote, ActivationStack

vars == <<prog, promoteVars, runVars>>

Init == PromoteInit /\ RunInit

CompileStep == at # "run" /\ PromoteNext /\ UNCHANGED runVars

RunStep == at = "run" /\ RunNext(promoted, homes) /\ UNCHANGED promoteVars

Next == CompileStep \/ RunStep

Spec == Init /\ [][Next]_vars

-----------------------------------------------------------------------------

(* Promotion is all or nothing, also when the frame turns out too large     *)
(* half way through the layout: a function keeps every static alloca and    *)
(* has no global, or each of them has its full size in a global that a      *)
(* 16-bit index can address and of which no byte is left over.              *)
AllOrNothing ==
  \A f \in Funcs : ~(f = cur /\ at = "replace") =>
    LET used == {i \in 1..MaxObjs : homes[f][i].size > 0} IN
    IF f \in promoted
    THEN /\ used = {i \in DOMAIN prog.allocas[f] : prog.allocas[f][i].static}
         /\ \A i \in used : prog.allocas[f][i].size <= homes[f][i].size
         /\ gvSize[f] <= MaxTotal
         /\ \A b \in 0..(gvSize[f] - 1) :
              \E i \in used : b \in homes[f][i].off..(homes[f][i].off + homes[f][i].size - 1)
    ELSE used = {} /\ gvSize[f] = 0

(* Distinct locals of a promoted function have distinct addresses and share *)
(* no byte, empty ones included, and lie inside the global.                 *)
LocalsApart ==
  \A f \in promoted : \A i, j \in DOMAIN prog.allocas[f] :
    (prog.allocas[f][i].static /\ prog.allocas[f][j].static) =>
      LET a == homes[f][i]
          b == homes[f][j]
      IN /\ a.off + a.size <= gvSize[f]
         /\ i # j => a.off # b.off /\ (a.off + a.size <= b.off \/ b.off + b.size <= a.off)

(* A function whose locals are in a global is never entered again while an  *)
(* activation of it is live (file comment, "For non-reentrant functions").  *)
PromotedNotReentered == NotReenteredIn(promoted)

(* Every local keeps what the live activation stored in it.                 *)
LocalsIntact == FramesIntactIn(promoted, homes)
=============================================================================
