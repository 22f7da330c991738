----------------------------- MODULE AllocaPromote -----------------------------
(***************************************************************************)
(* V6ClangAllocaPromote: before instruction selection, the static allocas   *)
(* of a function that cannot be re-entered become parts of one global,      *)
(* __v6clang_a.F.  Its own search from the interrupt handlers, and evidence *)
(* that, unlike V6ClangStaticStackAlloc's, looks at no callee's body.       *)
(***************************************************************************)
EXTENDS CallGraph

CONSTANT MaxTotal   \* 65535 in the code: bytes that a 16-bit index can address

VARIABLES
  at,         \* where the pass is
  InterruptReachable,
  worklist,
  todo,       \* functions of the module not looked at yet
  cur,        \* F
  Static,     \* static allocas of F's entry block collected so far, as indices of p.allocas[F]
  k,          \* the alloca the collection, the layout or the replacement has come to
  Offsets,
  Total,
  gvSize,     \* bytes of __v6clang_a.F, 0 when there is none
  homes,      \* where in the global each replaced alloca lies
  promoted    \* functions for which promoteAllocas returned true

promoteVars == <<at, InterruptReachable, worklist, todo, cur, Static, k, Offsets, Total,
                 gvSize, homes, promoted>>
searchVars == <<InterruptReachable, worklist>>
layoutVars == <<Static, k, Offsets, Total>>
resultVars == <<gvSize, homes, promoted>>

NoHome == [off |-> 0, size |-> 0]
Alloca == [size : 0..MaxSize, static : BOOLEAN]

ASSUME AllocasAssumption ==
  /\ MaxTotal \in Nat
  /\ \A p \in Programs :
       /\ p.allocas \in [Funcs -> Seq(Alloca)]
       /\ \A f \in Funcs : Len(p.allocas[f]) <= MaxObjs

PromoteInit ==
  /\ prog \in Programs
  /\ at = "analyze"
  /\ InterruptReachable = {} /\ worklist = {}
  /\ todo = Defined(prog)
  /\ cur = NoFunc
  /\ Static = <<>> /\ k = 0 /\ Offsets = <<>> /\ Total = 0
  /\ gvSize = [f \in Funcs |-> 0]
  /\ homes = [f \in Funcs |-> [i \in 1..MaxObjs |-> NoHome]]
  /\ promoted = {}

SeedInterrupts ==
  /\ at = "analyze"
  /\ InterruptReachable' = prog.isrAttr
  /\ worklist' = prog.isrAttr
  /\ at' = "search"
  /\ UNCHANGED <<prog, todo, cur, layoutVars, resultVars>>

SearchOne ==
  /\ at = "search"
  /\ \E f \in worklist :
       LET new == VisibleCallees(prog, f) \ InterruptReachable IN
       /\ InterruptReachable' = InterruptReachable \cup new
       /\ worklist' = (worklist \ {f}) \cup new
  /\ UNCHANGED <<prog, at, todo, cur, layoutVars, resultVars>>

SearchDone ==
  /\ at = "search"
  /\ worklist = {}
  /\ at' = "pick"
  /\ UNCHANGED <<prog, searchVars, todo, cur, layoutVars, resultVars>>

-----------------------------------------------------------------------------
(* Evidence: no call but inline asm and calls promised not to call back.    *)
HasEvidenceVisible(f) ==   \* mutant
  \A i \in DOMAIN prog.sites[f] :
    LET s == prog.sites[f][i] IN
    s.kind = "asm" \/ PromisesNoCallback(prog, s) \/ (VisibleCall(prog, s) /\ s.callee # f)
HasEvidence(f) ==
  \A i \in DOMAIN prog.sites[f] :
    prog.sites[f][i].kind = "asm" \/ PromisesNoCallback(prog, prog.sites[f][i])

EligibleNotMarked(f) ==   \* mutant
  /\ f \in prog.noRecurse \/ HasEvidence(f)
  /\ f \notin prog.isrAttr
  /\ f \notin prog.addrTaken
Eligible(f) ==
  /\ f \in prog.noRecurse \/ HasEvidence(f)
  /\ f \notin prog.isrAttr
  /\ f \notin InterruptReachable
  /\ f \notin prog.addrTaken

(* The next function of the module; one that is not eligible is left as it  *)
(* is.                                                                      *)
PickFunction ==
  /\ at = "pick"
  /\ \E f \in todo :
       /\ todo' = todo \ {f}
       /\ IF Eligible(f)
          THEN cur' = f /\ Static' = <<>> /\ k' = 1 /\ at' = "collect"
          ELSE UNCHANGED <<cur, Static, k, at>>
  /\ UNCHANGED <<prog, searchVars, Offsets, Total, resultVars>>

(* The next alloca of the entry block joins Static when its size is static. *)
CollectAlloca ==
  /\ at = "collect"
  /\ k <= Len(prog.allocas[cur])
  /\ Static' = IF prog.allocas[cur][k].static THEN Append(Static, k) ELSE Static
  /\ k' = k + 1
  /\ UNCHANGED <<prog, at, searchVars, todo, cur, Offsets, Total, resultVars>>

StartLayout ==
  /\ at = "collect"
  /\ k > Len(prog.allocas[cur])
  /\ at' = IF Static = <<>> THEN "pick" ELSE "layout"
  /\ Offsets' = <<>>
  /\ Total' = 0
  /\ k' = 1
  /\ UNCHANGED <<prog, searchVars, todo, cur, Static, resultVars>>

RoundedAsIs(n) == n   \* mutant
Rounded(n) == IF n = 0 THEN 1 ELSE n
SizeOf(f, i) == Rounded(prog.allocas[f][i].size)

LayOutUpTo ==   \* mutant
  /\ at = "layout"
  /\ k <= Len(Static)
  /\ LET sum == Total + SizeOf(cur, Static[k]) IN
     IF sum > MaxTotal
     THEN Static' = SubSeq(Static, 1, k - 1) /\ UNCHANGED <<Offsets, Total, k>>
     ELSE Offsets' = Append(Offsets, Total) /\ Total' = sum /\ k' = k + 1 /\ UNCHANGED Static
  /\ UNCHANGED <<prog, at, searchVars, todo, cur, resultVars>>

(* One alloca gets the next offset; a frame that grows too large is given   *)
(* up as a whole.                                                           *)
LayOut ==
  /\ at = "layout"
  /\ k <= Len(Static)
  /\ Offsets' = Append(Offsets, Total)
  /\ Total' = Total + SizeOf(cur, Static[k])
  /\ k' = k + 1
  /\ at' = IF Total' > MaxTotal THEN "pick" ELSE "layout"
  /\ UNCHANGED <<prog, searchVars, todo, cur, Static, resultVars>>

CreateGlobal ==
  /\ at = "layout"
  /\ k > Len(Static)
  /\ gvSize' = [gvSize EXCEPT ![cur] = Total]
  /\ k' = 1
  /\ at' = "replace"
  /\ UNCHANGED <<prog, searchVars, todo, cur, Static, Offsets, Total, homes, promoted>>

(* An alloca is replaced by its address in the global and erased.           *)
Replace ==
  /\ at = "replace"
  /\ k <= Len(Static)
  /\ homes' = [homes EXCEPT ![cur][Static[k]] = [off |-> Offsets[k], size |-> SizeOf(cur, Static[k])]]
  /\ k' = k + 1
  /\ UNCHANGED <<prog, at, searchVars, todo, cur, Static, Offsets, Total, gvSize, promoted>>

FinishFunction ==
  /\ at = "replace"
  /\ k > Len(Static)
  /\ promoted' = promoted \cup {cur}
  /\ at' = "pick"
  /\ UNCHANGED <<prog, searchVars, todo, cur, layoutVars, gvSize, homes>>

PromoteDone ==
  /\ at = "pick"
  /\ todo = {}
  /\ at' = "run"
  /\ UNCHANGED <<prog, searchVars, todo, cur, layoutVars, resultVars>>

PromoteNext ==
  \/ SeedInterrupts \/ SearchOne \/ SearchDone \/ PickFunction \/ CollectAlloca \/ StartLayout
  \/ LayOut \/ CreateGlobal \/ Replace \/ FinishFunction \/ PromoteDone
=============================================================================
