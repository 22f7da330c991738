--------------------------- MODULE AllocaFramesProofs ---------------------------
(***************************************************************************)
(* Proofs about V6ClangAllocaPromote and the program it leaves: for every   *)
(* set of well-formed programs, a function's locals move as a whole into a  *)
(* global that they fill and share no byte of, and, when the interrupt      *)
(* handlers are marked and closed under visible calls, no two activations   *)
(* share a global, so that each finds there what it stored.                 *)
(***************************************************************************)
EXTENDS AllocaFrames, ActivationStackProofs

Home == [off : Nat, size : Nat]

(* promoteAllocas is at work on cur.                                        *)
Busy == at \in {"collect", "layout", "replace"}

PromoteTypeOK ==
  /\ prog \in Programs
  /\ at \in {"analyze", "search", "pick", "collect", "layout", "replace", "run"}
  /\ InterruptReachable \subseteq Defined(prog) \cup prog.isrAttr
  /\ worklist \subseteq Funcs
  /\ todo \subseteq Defined(prog)
  /\ cur \in Funcs \cup {NoFunc}
  /\ Static \in Seq(1..MaxObjs)
  /\ k \in Nat
  /\ Offsets \in Seq(Nat)
  /\ Total \in Nat
  /\ gvSize \in [Funcs -> Nat]
  /\ homes \in [Funcs -> [1..MaxObjs -> Home]]
  /\ promoted \subseteq Defined(prog)

(* What the search has found is closed under visible calls, but for the     *)
(* functions still on the worklist.                                         *)
SearchInv ==
  /\ at # "analyze" => prog.isrAttr \subseteq InterruptReachable
  /\ \A f \in InterruptReachable \ worklist : VisibleCallees(prog, f) \subseteq InterruptReachable
  /\ at \notin {"analyze", "search"} => worklist = {}

(* Every function is looked at once, and only an eligible one is promoted.  *)
ChoiceInv ==
  /\ Busy => cur \in Defined(prog) /\ cur \notin promoted /\ cur \notin todo /\ Eligible(cur)
  /\ promoted \cap todo = {}
  /\ at \in {"analyze", "search"} => promoted = {}
  /\ \A f \in promoted : Eligible(f)

(* Static holds the static allocas among the first k - 1, and after the     *)
(* collection all of them, each once.                                       *)
CollectInv ==
  Busy =>
    LET n == IF at = "collect" THEN k - 1 ELSE Len(prog.allocas[cur]) IN
    /\ n \in 0..Len(prog.allocas[cur])
    /\ \A j \in 1..Len(Static) : Static[j] \in 1..n /\ prog.allocas[cur][Static[j]].static
    /\ \A i \in 1..n : prog.allocas[cur][i].static => \E j \in 1..Len(Static) : Static[j] = i
    /\ \A j, l \in 1..Len(Static) : j # l => Static[j] # Static[l]

(* The allocas laid out so far fill 0..Total - 1 one after the other.       *)
LaidOut(n) ==
  /\ Len(Offsets) = n
  /\ Total <= MaxTotal
  /\ \A j \in 1..n : Offsets[j] + SizeOf(cur, Static[j]) <= Total
  /\ \A j, l \in 1..n : j < l => Offsets[j] + SizeOf(cur, Static[j]) <= Offsets[l]
  /\ \A b \in 0..(Total - 1) : \E j \in 1..n :
       b \in Offsets[j]..(Offsets[j] + SizeOf(cur, Static[j]) - 1)

LayoutInv ==
  /\ at = "layout" => k \in 1..(Len(Static) + 1) /\ LaidOut(k - 1)
  /\ at = "replace" => k \in 1..(Len(Static) + 1) /\ LaidOut(Len(Static)) /\ gvSize[cur] = Total

(* A function not promoted has no home in a global, except the one whose    *)
(* allocas are being replaced: of these the first k - 1 have.               *)
HomesInv ==
  /\ \A f \in Funcs : f \notin promoted /\ ~(f = cur /\ at = "replace") =>
       gvSize[f] = 0 /\ \A i \in 1..MaxObjs : homes[f][i].size = 0
  /\ at = "replace" =>
       /\ \A j \in 1..(k - 1) :
            homes[cur][Static[j]] = [off |-> Offsets[j], size |-> SizeOf(cur, Static[j])]
       /\ \A i \in 1..MaxObjs : homes[cur][i].size > 0 => \E j \in 1..(k - 1) : Static[j] = i

(* A function whose allocas have all been replaced has each static alloca   *)
(* in the global, its bytes apart from the others', and no byte to spare.   *)
Moved(f) ==
  /\ \A i \in 1..MaxObjs : homes[f][i].size > 0 <=> i \in 1..Len(prog.allocas[f]) /\ prog.allocas[f][i].static
  /\ \A i \in 1..Len(prog.allocas[f]) : prog.allocas[f][i].static =>
       /\ prog.allocas[f][i].size <= homes[f][i].size
       /\ homes[f][i].off + homes[f][i].size <= gvSize[f]
       /\ \A j \in 1..Len(prog.allocas[f]) : prog.allocas[f][j].static /\ i # j =>
            homes[f][i].off + homes[f][i].size <= homes[f][j].off \/ homes[f][j].off + homes[f][j].size <= homes[f][i].off
  /\ gvSize[f] <= MaxTotal
  /\ \A b \in 0..(gvSize[f] - 1) : \E i \in 1..MaxObjs :
       homes[f][i].size > 0 /\ b \in homes[f][i].off..(homes[f][i].off + homes[f][i].size - 1)

MovedInv == \A f \in promoted : Moved(f)

PromoteInv ==
  /\ PromoteTypeOK
  /\ SearchInv
  /\ ChoiceInv
  /\ CollectInv
  /\ LayoutInv
  /\ HomesInv
  /\ MovedInv

IInv ==
  /\ PromoteInv
  /\ StackInv
  /\ at # "run" => stack = <<>>
(* What the pass reads of the allocas of a well-formed program.             *)
LEMMA AllocaFacts ==
  ASSUME prog \in Programs, NEW f \in Funcs
  PROVE  /\ prog.allocas[f] \in Seq(Alloca)
         /\ Len(prog.allocas[f]) \in 0..MaxObjs
         /\ DOMAIN prog.allocas[f] = 1..Len(prog.allocas[f])
         /\ 1..Len(prog.allocas[f]) \subseteq 1..MaxObjs
         /\ \A i \in 1..Len(prog.allocas[f]) :
              /\ prog.allocas[f][i].size \in Nat
              /\ SizeOf(f, i) \in Nat \ {0}
              /\ prog.allocas[f][i].size <= SizeOf(f, i)
<1>1. prog.allocas[f] \in Seq(Alloca) /\ Len(prog.allocas[f]) <= MaxObjs
  BY AllocasAssumption
<1>2. Len(prog.allocas[f]) \in Nat /\ DOMAIN prog.allocas[f] = 1..Len(prog.allocas[f])
  BY <1>1
<1>3. MaxObjs \in Nat /\ MaxSize \in Nat
  BY BoundsAssumption DEF BoundsAssumption
<1>4. \A i \in 1..Len(prog.allocas[f]) : prog.allocas[f][i] \in Alloca
  BY <1>1, ElementOfSeq
<1>5. \A i \in 1..Len(prog.allocas[f]) : prog.allocas[f][i].size \in Nat
  BY <1>3, <1>4 DEF Alloca
<1>6. \A i \in 1..Len(prog.allocas[f]) :
        SizeOf(f, i) \in Nat \ {0} /\ prog.allocas[f][i].size <= SizeOf(f, i)
  BY <1>5 DEF SizeOf, Rounded
<1>. QED
  BY <1>1, <1>2, <1>3, <1>5, <1>6

LEMMA CollectedFacts ==
  ASSUME PromoteTypeOK, CollectInv, Busy
  PROVE  /\ cur \in Funcs => \A j \in 1..Len(Static) :
              /\ Static[j] \in 1..Len(prog.allocas[cur])
              /\ Static[j] \in 1..MaxObjs
              /\ SizeOf(cur, Static[j]) \in Nat \ {0}
         /\ Len(Static) \in Nat
<1>1. Len(Static) \in Nat
  BY DEF PromoteTypeOK
<1>2. ASSUME cur \in Funcs, NEW j \in 1..Len(Static)
      PROVE  Static[j] \in 1..Len(prog.allocas[cur])
  <2>1. Len(prog.allocas[cur]) \in Nat
    BY <1>2, AllocaFacts DEF PromoteTypeOK
  <2>. DEFINE n == IF at = "collect" THEN k - 1 ELSE Len(prog.allocas[cur])
  <2>2. n \in 0..Len(prog.allocas[cur]) /\ Static[j] \in 1..n
    BY <1>2 DEF CollectInv
  <2>. HIDE DEF n
  <2>. QED
    BY <2>1, <2>2
<1>. QED
  BY <1>1, <1>2, AllocaFacts DEF PromoteTypeOK

LEMMA PromoteInitInv == PromoteInit => PromoteInv
<1>. SUFFICES ASSUME PromoteInit PROVE PromoteInv
  OBVIOUS
<1>a. /\ prog \in Programs /\ at = "analyze" /\ InterruptReachable = {} /\ worklist = {}
      /\ todo = Defined(prog) /\ cur = NoFunc /\ Static = <<>> /\ k = 0 /\ Offsets = <<>> /\ Total = 0
      /\ gvSize = [f \in Funcs |-> 0]
      /\ homes = [f \in Funcs |-> [i \in 1..MaxObjs |-> NoHome]]
      /\ promoted = {}
  BY DEF PromoteInit
<1>b. NoHome \in Home /\ NoHome.size = 0
  BY DEF NoHome, Home
<1>c. homes \in [Funcs -> [1..MaxObjs -> Home]] /\ \A f \in Funcs : \A i \in 1..MaxObjs : homes[f][i].size = 0
  BY <1>a, <1>b
<1>d. gvSize \in [Funcs -> Nat] /\ \A f \in Funcs : gvSize[f] = 0
  BY <1>a
<1>1. PromoteTypeOK
  BY <1>a, <1>c, <1>d DEF PromoteTypeOK
<1>2. SearchInv /\ ChoiceInv /\ CollectInv /\ LayoutInv
  BY <1>a DEF SearchInv, ChoiceInv, CollectInv, LayoutInv, Busy
<1>3. HomesInv
  BY <1>a, <1>c, <1>d DEF HomesInv
<1>4. MovedInv
  BY <1>a DEF MovedInv
<1>. QED
  BY <1>1, <1>2, <1>3, <1>4 DEF PromoteInv

LEMMA SameProgram == PromoteNext => prog' = prog
BY DEF PromoteNext, SeedInterrupts, SearchOne, SearchDone, PickFunction, CollectAlloca, StartLayout,
       LayOut, CreateGlobal, Replace, FinishFunction, PromoteDone

(* The pass keeps its types.                                                *)
LEMMA TypeNext ==
  ASSUME PromoteInv, PromoteNext
  PROVE  PromoteTypeOK'
<1>a. /\ prog \in Programs /\ prog' = prog /\ InterruptReachable \subseteq Defined(prog) \cup prog.isrAttr
      /\ worklist \subseteq Funcs /\ todo \subseteq Defined(prog) /\ cur \in Funcs \cup {NoFunc}
      /\ Static \in Seq(1..MaxObjs) /\ k \in Nat /\ Offsets \in Seq(Nat) /\ Total \in Nat
      /\ gvSize \in [Funcs -> Nat] /\ homes \in [Funcs -> [1..MaxObjs -> Home]]
      /\ promoted \subseteq Defined(prog)
  BY SameProgram DEF PromoteInv, PromoteTypeOK
<1>b. Defined(prog)' = Defined(prog) /\ prog.isrAttr \subseteq Funcs /\ Defined(prog) \subseteq Funcs
  BY <1>a, ProgramFacts DEF Defined
<1>c. Busy => cur \in Defined(prog) /\ cur \in Funcs
  BY <1>b DEF PromoteInv, ChoiceInv
<1>d. Busy => \A j \in 1..Len(Static) : Static[j] \in 1..MaxObjs /\ SizeOf(cur, Static[j]) \in Nat
  BY <1>c, CollectedFacts DEF PromoteInv
<1>1. CASE SeedInterrupts
  BY <1>1, <1>a, <1>b DEF SeedInterrupts, layoutVars, resultVars, PromoteTypeOK
<1>2. CASE SearchOne
  <2>1. \A f : VisibleCallees(prog, f) \subseteq Defined(prog)
    BY DEF VisibleCallees
  <2>2. at' = at /\ at = "search"
    BY <1>2 DEF SearchOne
  <2>. QED
    BY <1>2, <2>1, <2>2, <1>a, <1>b DEF SearchOne, layoutVars, resultVars, PromoteTypeOK
<1>3. CASE SearchDone
  BY <1>3, <1>a, <1>b DEF SearchDone, searchVars, layoutVars, resultVars, PromoteTypeOK
<1>4. CASE PickFunction
  <2>1. PICK f \in todo :
       /\ todo' = todo \ {f}
       /\ IF Eligible(f)
          THEN cur' = f /\ Static' = <<>> /\ k' = 1 /\ at' = "collect"
          ELSE UNCHANGED <<cur, Static, k, at>>
    BY <1>4 DEF PickFunction
  <2>2. at = "pick" /\ UNCHANGED <<searchVars, Offsets, Total, resultVars>>
    BY <1>4 DEF PickFunction
  <2>3. /\ at' \in {"pick", "collect"} /\ cur' \in Funcs \cup {NoFunc}
        /\ Static' \in Seq(1..MaxObjs) /\ k' \in Nat
    <3>1. CASE Eligible(f)
      <4>1. cur' = f /\ Static' = <<>> /\ k' = 1 /\ at' = "collect"
        BY <2>1, <3>1, Zenon
      <4>. QED
        BY <4>1, <1>a, <1>b
    <3>2. CASE ~Eligible(f)
      BY <2>1, <2>2, <1>a, <3>2
    <3>. QED
      BY <3>1, <3>2
  <2>. QED
    BY <2>1, <2>2, <2>3, <1>a, <1>b DEF searchVars, resultVars, PromoteTypeOK
<1>5. CASE CollectAlloca
  <2>1. /\ at = "collect" /\ at' = at /\ k \in 1..Len(prog.allocas[cur])
        /\ Static' = IF prog.allocas[cur][k].static THEN Append(Static, k) ELSE Static
    <3>1. k - 1 \in 0..Len(prog.allocas[cur]) /\ Len(prog.allocas[cur]) \in Nat
      BY <1>5, <1>a, <1>c, AllocaFacts DEF CollectAlloca, PromoteInv, CollectInv, Busy
    <3>. QED
      BY <1>5, <1>a, <3>1 DEF CollectAlloca
  <2>2. k \in 1..MaxObjs
    BY <2>1, <1>a, <1>c, AllocaFacts DEF Busy
  <2>3. Static' \in Seq(1..MaxObjs) /\ k' \in Nat
    <3>1. Append(Static, k) \in Seq(1..MaxObjs)
      BY <2>2, <1>a
    <3>2. Static' \in {Append(Static, k), Static}
      BY <2>1
    <3>. QED
      <4>1. k' = k + 1
        BY <1>5 DEF CollectAlloca
      <4>2. Static' \in Seq(1..MaxObjs)
        BY <1>a, <3>1, <3>2, Zenon
      <4>. QED
        BY <1>a, <4>1, <4>2
  <2>. QED
    BY <1>5, <2>1, <2>3, <1>a, <1>b DEF CollectAlloca, searchVars, resultVars, PromoteTypeOK
<1>6. CASE StartLayout
  BY <1>6, <1>a, <1>b DEF StartLayout, searchVars, resultVars, PromoteTypeOK
<1>7. CASE LayOut
  <2>1. at = "layout" /\ k \in 1..Len(Static)
    BY <1>7, <1>a DEF LayOut, PromoteInv, LayoutInv
  <2>2. SizeOf(cur, Static[k]) \in Nat
    BY <1>d, <2>1 DEF Busy
  <2>3. Total' \in Nat /\ Offsets' \in Seq(Nat) /\ k' \in Nat /\ at' \in {"pick", "layout"}
    BY <1>7, <1>a, <2>2 DEF LayOut
  <2>. QED
    BY <1>7, <2>3, <1>a, <1>b DEF LayOut, searchVars, resultVars, PromoteTypeOK
<1>8. CASE CreateGlobal
  <2>1. gvSize' \in [Funcs -> Nat]
    BY <1>8, <1>a DEF CreateGlobal
  <2>. QED
    BY <1>8, <2>1, <1>a, <1>b DEF CreateGlobal, searchVars, PromoteTypeOK
<1>9. CASE Replace
  <2>1. at = "replace" /\ k \in 1..Len(Static) /\ Len(Offsets) = Len(Static)
    BY <1>9, <1>a DEF Replace, PromoteInv, LayoutInv, LaidOut
  <2>2. [off |-> Offsets[k], size |-> SizeOf(cur, Static[k])] \in Home
    <3>1. Offsets[k] \in Nat
      BY <1>a, <2>1
    <3>. QED
      BY <1>d, <2>1, <3>1 DEF Home, Busy
  <2>3. cur \in Funcs
    BY <1>c, <2>1 DEF Busy
  <2>4. homes' \in [Funcs -> [1..MaxObjs -> Home]]
    <3>1. homes' = [homes EXCEPT ![cur] = [homes[cur] EXCEPT ![Static[k]] = [off |-> Offsets[k], size |-> SizeOf(cur, Static[k])]]]
      BY <1>9 DEF Replace
    <3>2. [homes[cur] EXCEPT ![Static[k]] = [off |-> Offsets[k], size |-> SizeOf(cur, Static[k])]] \in [1..MaxObjs -> Home]
      BY <1>a, <2>2, <2>3
    <3>. QED
      BY <1>a, <3>1, <3>2
  <2>. QED
    BY <1>9, <2>1, <2>4, <1>a, <1>b DEF Replace, searchVars, PromoteTypeOK
<1>10. CASE FinishFunction
  <2>1. promoted' \subseteq Defined(prog)
    BY <1>10, <1>a, <1>c DEF FinishFunction, Busy
  <2>. QED
    BY <1>10, <2>1, <1>a, <1>b DEF FinishFunction, searchVars, layoutVars, PromoteTypeOK
<1>11. CASE PromoteDone
  BY <1>11, <1>a, <1>b DEF PromoteDone, searchVars, layoutVars, resultVars, PromoteTypeOK
<1>. QED
  BY <1>1, <1>2, <1>3, <1>4, <1>5, <1>6, <1>7, <1>8, <1>9, <1>10, <1>11 DEF PromoteNext

(* After the search, InterruptReachable contains the marked handlers and is *)
(* closed under visible calls.                                              *)
LEMMA SearchNext ==
  ASSUME PromoteInv, PromoteNext
  PROVE  SearchInv'
<1>a. /\ prog' = prog
      /\ \A f : VisibleCallees(prog, f)' = VisibleCallees(prog, f)
  BY SameProgram DEF VisibleCallees, Defined
<1>b. /\ at # "analyze" => prog.isrAttr \subseteq InterruptReachable
      /\ \A f \in InterruptReachable \ worklist : VisibleCallees(prog, f) \subseteq InterruptReachable
      /\ at \notin {"analyze", "search"} => worklist = {}
  BY DEF PromoteInv, SearchInv
<1>1. CASE SeedInterrupts
  BY <1>1, <1>a DEF SeedInterrupts, SearchInv
<1>2. CASE SearchOne
  <2>1. PICK f \in worklist :
          LET new == VisibleCallees(prog, f) \ InterruptReachable IN
            /\ InterruptReachable' = InterruptReachable \cup new
            /\ worklist' = (worklist \ {f}) \cup new
    BY <1>2 DEF SearchOne
  <2>2. at = "search" /\ at' = at
    BY <1>2 DEF SearchOne
  <2>3. InterruptReachable \subseteq InterruptReachable' /\ VisibleCallees(prog, f) \subseteq InterruptReachable'
    BY <2>1
  <2>4. ASSUME NEW g \in InterruptReachable' \ worklist'
        PROVE  VisibleCallees(prog, g) \subseteq InterruptReachable'
    <3>1. g = f \/ g \in InterruptReachable \ worklist
      BY <2>1
    <3>. QED
      BY <1>b, <2>3, <3>1
  <2>. QED
    BY <1>a, <1>b, <2>2, <2>3, <2>4 DEF SearchInv
<1>3. CASE SearchDone
  BY <1>3, <1>a, <1>b DEF SearchDone, searchVars, SearchInv
<1>4. CASE PickFunction
  <2>1. at = "pick" /\ at' \in {"pick", "collect"} /\ UNCHANGED searchVars
    BY <1>4, Zenon DEF PickFunction
  <2>. QED
    BY <2>1, <1>a, <1>b DEF searchVars, SearchInv
<1>5. CASE CollectAlloca
  BY <1>5, <1>a, <1>b DEF CollectAlloca, searchVars, SearchInv
<1>6. CASE StartLayout
  BY <1>6, <1>a, <1>b DEF StartLayout, searchVars, SearchInv
<1>7. CASE LayOut
  BY <1>7, <1>a, <1>b DEF LayOut, searchVars, SearchInv
<1>8. CASE CreateGlobal
  BY <1>8, <1>a, <1>b DEF CreateGlobal, searchVars, SearchInv
<1>9. CASE Replace
  BY <1>9, <1>a, <1>b DEF Replace, searchVars, SearchInv
<1>10. CASE FinishFunction
  BY <1>10, <1>a, <1>b DEF FinishFunction, searchVars, SearchInv
<1>11. CASE PromoteDone
  BY <1>11, <1>a, <1>b DEF PromoteDone, searchVars, SearchInv
<1>. QED
  BY <1>1, <1>2, <1>3, <1>4, <1>5, <1>6, <1>7, <1>8, <1>9, <1>10, <1>11 DEF PromoteNext

(* Once the search is over, no function becomes or ceases to be eligible.   *)
LEMMA ChoiceNext ==
  ASSUME PromoteInv, PromoteNext
  PROVE  ChoiceInv'
<1>a. /\ prog' = prog
      /\ todo \subseteq Defined(prog) /\ Defined(prog)' = Defined(prog)
  BY SameProgram DEF PromoteInv, PromoteTypeOK, Defined
<1>b. InterruptReachable' = InterruptReachable => \A f : Eligible(f)' <=> Eligible(f)
  BY <1>a DEF Eligible, HasEvidence, PromisesNoCallback
<1>c. /\ Busy => cur \in Defined(prog) /\ cur \notin promoted /\ cur \notin todo /\ Eligible(cur)
      /\ promoted \cap todo = {}
      /\ at \in {"analyze", "search"} => promoted = {}
      /\ \A f \in promoted : Eligible(f)
  BY DEF PromoteInv, ChoiceInv
<1>f. ASSUME cur' = cur, at' \in {"collect", "layout", "replace", "pick", "run"}, InterruptReachable' = InterruptReachable,
             todo' = todo, promoted' = promoted, Busy' => Busy
      PROVE  ChoiceInv'
  <2>1. Eligible(cur)' <=> Eligible(cur)
    BY <1>b, <1>f DEF Eligible, HasEvidence, PromisesNoCallback
  <2>2. \A f \in promoted' : Eligible(f)'
    BY <1>b, <1>c, <1>f
  <2>. QED
    BY <1>a, <1>c, <1>f, <2>1, <2>2 DEF ChoiceInv
<1>1. CASE SeedInterrupts
  BY <1>1, <1>c DEF SeedInterrupts, resultVars, ChoiceInv, Busy
<1>2. CASE SearchOne
  BY <1>2, <1>c DEF SearchOne, resultVars, ChoiceInv, Busy
<1>3. CASE SearchDone
  BY <1>3, <1>c DEF SearchDone, resultVars, ChoiceInv, Busy
<1>4. CASE PickFunction
  <2>1. PICK f \in todo :
       /\ todo' = todo \ {f}
       /\ IF Eligible(f)
          THEN cur' = f /\ Static' = <<>> /\ k' = 1 /\ at' = "collect"
          ELSE UNCHANGED <<cur, Static, k, at>>
    BY <1>4 DEF PickFunction
  <2>2. at = "pick" /\ InterruptReachable' = InterruptReachable /\ promoted' = promoted
    BY <1>4 DEF PickFunction, searchVars, resultVars
  <2>3. \A g \in promoted' : Eligible(g)'
    BY <1>b, <1>c, <2>2
  <2>4. promoted' \cap todo' = {}
    BY <1>c, <2>1, <2>2
  <2>5. CASE Eligible(f)
    <3>1. cur' = f /\ at' = "collect"
      BY <2>1, <2>5, Zenon
    <3>2. Eligible(cur)'
      BY <1>a, <2>2, <2>5, <3>1 DEF Eligible, HasEvidence, PromisesNoCallback
    <3>3. f \notin promoted' /\ f \notin todo' /\ f \in Defined(prog)'
      BY <1>a, <1>c, <2>1, <2>2
    <3>. QED
      BY <2>3, <2>4, <3>1, <3>2, <3>3 DEF ChoiceInv
  <2>6. CASE ~Eligible(f)
    BY <2>1, <2>2, <2>3, <2>4, <2>6 DEF ChoiceInv, Busy
  <2>. QED
    BY <2>5, <2>6
<1>5. CASE CollectAlloca
  BY <1>5, <1>f DEF CollectAlloca, searchVars, resultVars, Busy
<1>6. CASE StartLayout
  BY <1>6, <1>f DEF StartLayout, searchVars, resultVars, Busy
<1>7. CASE LayOut
  BY <1>7, <1>f DEF LayOut, searchVars, resultVars, Busy
<1>8. CASE CreateGlobal
  BY <1>8, <1>f DEF CreateGlobal, searchVars, Busy
<1>9. CASE Replace
  BY <1>9, <1>f DEF Replace, searchVars, Busy
<1>10. CASE FinishFunction
  <2>1. /\ at = "replace" /\ at' = "pick" /\ InterruptReachable' = InterruptReachable
        /\ todo' = todo /\ promoted' = promoted \cup {cur}
    BY <1>10 DEF FinishFunction, searchVars
  <2>2. \A g \in promoted' : Eligible(g)'
    BY <1>b, <1>c, <2>1 DEF Busy
  <2>. QED
    BY <1>c, <2>1, <2>2 DEF ChoiceInv, Busy
<1>11. CASE PromoteDone
  BY <1>11, <1>f DEF PromoteDone, searchVars, resultVars, Busy
<1>. QED
  BY <1>1, <1>2, <1>3, <1>4, <1>5, <1>6, <1>7, <1>8, <1>9, <1>10, <1>11 DEF PromoteNext

(* Static grows to exactly the static allocas of the entry block.           *)
LEMMA CollectNext ==
  ASSUME PromoteInv, PromoteNext
  PROVE  CollectInv'
<1>a. prog' = prog
  BY SameProgram
<1>b. /\ Static \in Seq(1..MaxObjs) /\ Len(Static) \in Nat /\ k \in Nat
      /\ Busy => cur \in Funcs /\ Len(prog.allocas[cur]) \in Nat
  BY ProgramFacts, AllocaFacts DEF PromoteInv, PromoteTypeOK, ChoiceInv
<1>f. ASSUME cur' = cur, Static' = Static, Busy' => Busy, at # "collect", at' # "collect"
      PROVE  CollectInv'
  BY <1>a, <1>f DEF PromoteInv, CollectInv
<1>1. CASE SeedInterrupts \/ SearchOne \/ SearchDone \/ PromoteDone
  <2>1. at' \in {"search", "pick", "run"}
    BY <1>1 DEF SeedInterrupts, SearchOne, SearchDone, PromoteDone
  <2>. QED
    BY <2>1 DEF CollectInv, Busy
<1>4. CASE PickFunction
  <2>1. PICK f \in todo :
          IF Eligible(f)
          THEN cur' = f /\ Static' = <<>> /\ k' = 1 /\ at' = "collect"
          ELSE UNCHANGED <<cur, Static, k, at>>
    BY <1>4 DEF PickFunction
  <2>2. at = "pick"
    BY <1>4 DEF PickFunction
  <2>3. CASE Eligible(f)
    <3>1. cur' = f /\ Static' = <<>> /\ k' = 1 /\ at' = "collect"
      BY <2>1, <2>3, Zenon
    <3>2. f \in Funcs /\ Len(prog.allocas[f]) \in Nat
      BY ProgramFacts, AllocaFacts DEF PromoteInv, PromoteTypeOK
    <3>3. Len(Static') = 0 /\ k' - 1 = 0
      BY <3>1
    <3>. QED
      BY <1>a, <3>1, <3>2, <3>3 DEF CollectInv
  <2>4. CASE ~Eligible(f)
    <3>1. at' = "pick"
      BY <2>1, <2>2, <2>4
    <3>. QED
      BY <3>1 DEF CollectInv, Busy
  <2>. QED
    BY <2>3, <2>4
<1>5. CASE CollectAlloca
  <2>. DEFINE allocas == prog.allocas[cur]
              n == k - 1
              m == Len(Static)
  <2>1. /\ at = "collect" /\ at' = "collect" /\ k <= Len(allocas) /\ cur' = cur /\ k' = k + 1
        /\ Static' = IF allocas[k].static THEN Append(Static, k) ELSE Static
    BY <1>5 DEF CollectAlloca
  <2>2. /\ n \in 0..Len(allocas)
        /\ \A j \in 1..m : Static[j] \in 1..n /\ allocas[Static[j]].static
        /\ \A i \in 1..n : allocas[i].static => \E j \in 1..m : Static[j] = i
        /\ \A j, l \in 1..m : j # l => Static[j] # Static[l]
    BY <2>1 DEF PromoteInv, CollectInv, Busy
  <2>3. k \in 1..Len(allocas) /\ k' - 1 = k /\ k = n + 1 /\ n \in Nat /\ m \in Nat /\ Len(allocas) \in Nat
    BY <1>b, <2>1, <2>2 DEF Busy
  <2>. HIDE DEF n, m, allocas
  <2>4. CASE allocas[k].static
    <3>1. Static' = Append(Static, k) /\ Len(Static') = m + 1 /\ Static'[m + 1] = k
          /\ \A j \in 1..m : Static'[j] = Static[j]
      <4>1. Static' = Append(Static, k)
        BY <2>1, <2>4, Zenon
      <4>. QED
        BY <1>b, <4>1 DEF m
    <3>2. \A j \in 1..m + 1 : j \in 1..m \/ j = m + 1
      BY <2>3
    <3>3. \A j \in 1..m + 1 : Static'[j] \in 1..k /\ allocas[Static'[j]].static
      <4>1. \A j \in 1..m : Static[j] \in 1..k
        BY <2>2, <2>3
      <4>. QED
        BY <2>2, <2>3, <2>4, <3>1, <3>2, <4>1
    <3>4. ASSUME NEW i \in 1..k, allocas[i].static PROVE \E j \in 1..m + 1 : Static'[j] = i
      <4>1. i \in 1..n \/ i = k
        BY <2>3
      <4>2. m + 1 \in 1..m + 1 /\ 1..m \subseteq 1..m + 1
        BY <2>3
      <4>3. CASE i = k
        BY <3>1, <4>2, <4>3
      <4>4. CASE i \in 1..n
        BY <2>2, <3>1, <3>4, <4>2, <4>4
      <4>. QED
        BY <4>1, <4>3, <4>4
    <3>5. ASSUME NEW j \in 1..m + 1, NEW l \in 1..m + 1, j # l PROVE Static'[j] # Static'[l]
      <4>1. \A i \in 1..m : Static[i] # k
        BY <2>2, <2>3
      <4>. QED
        BY <2>2, <3>1, <3>2, <3>5, <4>1
    <3>6. k \in 0..Len(allocas)
      BY <2>3
    <3>. QED
      BY <1>a, <2>1, <2>3, <3>1, <3>3, <3>4, <3>5, <3>6 DEF CollectInv, allocas
  <2>5. CASE ~allocas[k].static
    <3>1. Static' = Static /\ Len(Static') = m
      BY <2>1, <2>5 DEF m
    <3>2. \A i \in 1..k : i \in 1..n \/ i = k
      BY <2>3
    <3>3. \A j \in 1..m : Static'[j] \in 1..k /\ allocas[Static'[j]].static
      BY <2>2, <2>3, <3>1
    <3>4. \A i \in 1..k : allocas[i].static => \E j \in 1..m : Static'[j] = i
      BY <2>2, <2>5, <3>1, <3>2
    <3>5. k \in 0..Len(allocas)
      BY <2>3
    <3>6. \A j, l \in 1..m : j # l => Static'[j] # Static'[l]
      BY <2>2, <3>1
    <3>. QED
      BY <1>a, <2>1, <2>3, <3>1, <3>3, <3>4, <3>5, <3>6 DEF CollectInv, allocas
  <2>. QED
    BY <2>4, <2>5
<1>6. CASE StartLayout
  <2>1. /\ at = "collect" /\ at' \in {"pick", "layout"} /\ cur' = cur /\ Static' = Static
        /\ k > Len(prog.allocas[cur])
    BY <1>6 DEF StartLayout
  <2>2. k - 1 = Len(prog.allocas[cur])
    <3>1. k - 1 \in 0..Len(prog.allocas[cur])
      BY <2>1 DEF PromoteInv, CollectInv, Busy
    <3>. QED
      BY <1>b, <2>1, <3>1 DEF Busy
  <2>. QED
    BY <1>a, <2>1, <2>2 DEF PromoteInv, CollectInv, Busy
<1>7. CASE LayOut
  BY <1>7, <1>f DEF LayOut, Busy
<1>8. CASE CreateGlobal
  BY <1>8, <1>f DEF CreateGlobal, Busy
<1>9. CASE Replace
  BY <1>9, <1>f DEF Replace, Busy
<1>10. CASE FinishFunction
  BY <1>10, <1>f DEF FinishFunction, layoutVars, Busy
<1>. QED
  BY <1>1, <1>4, <1>5, <1>6, <1>7, <1>8, <1>9, <1>10 DEF PromoteNext

(* Each alloca laid out begins where the ones before it end.                *)
LEMMA LayoutNext ==
  ASSUME PromoteInv, PromoteNext
  PROVE  LayoutInv'
<1>a. prog' = prog /\ \A f, i : SizeOf(f, i)' = SizeOf(f, i)
  BY SameProgram DEF SizeOf
<1>b. /\ Static \in Seq(1..MaxObjs) /\ Len(Static) \in Nat /\ k \in Nat /\ Total \in Nat
      /\ Offsets \in Seq(Nat) /\ MaxTotal \in Nat /\ gvSize \in [Funcs -> Nat]
      /\ Busy => cur \in Funcs
  BY ProgramFacts, AllocasAssumption DEF PromoteInv, PromoteTypeOK, ChoiceInv
<1>c. Busy => \A j \in 1..Len(Static) : SizeOf(cur, Static[j]) \in Nat \ {0}
  BY <1>b, CollectedFacts DEF PromoteInv
<1>d. /\ at = "layout" => k \in 1..(Len(Static) + 1) /\ LaidOut(k - 1)
      /\ at = "replace" => k \in 1..(Len(Static) + 1) /\ LaidOut(Len(Static)) /\ gvSize[cur] = Total
  BY DEF PromoteInv, LayoutInv
<1>1. CASE SeedInterrupts \/ SearchOne \/ SearchDone \/ PickFunction \/ CollectAlloca
           \/ FinishFunction \/ PromoteDone
  <2>1. PickFunction => at' \in {"pick", "collect"}
    BY Zenon DEF PickFunction
  <2>2. at' \notin {"layout", "replace"}
    BY <1>1, <2>1 DEF SeedInterrupts, SearchOne, SearchDone, CollectAlloca, FinishFunction, PromoteDone
  <2>. QED
    BY <2>2 DEF LayoutInv
<1>2. CASE StartLayout
  <2>1. /\ at' \in {"pick", "layout"} /\ Offsets' = <<>> /\ Total' = 0 /\ k' = 1 /\ Static' = Static
    BY <1>2 DEF StartLayout
  <2>2. Len(Offsets') = 0 /\ Total' <= MaxTotal /\ k' - 1 = 0
    BY <1>b, <2>1
  <2>3. (LaidOut(k - 1))'
    BY <2>1, <2>2 DEF LaidOut
  <2>4. k' \in 1..(Len(Static') + 1)
    BY <1>b, <2>1
  <2>. QED
    BY <2>1, <2>3, <2>4 DEF LayoutInv
<1>3. CASE LayOut
  <2>. DEFINE n == k - 1
              size == SizeOf(cur, Static[k])
  <2>1. /\ at = "layout" /\ k <= Len(Static) /\ Offsets' = Append(Offsets, Total) /\ Total' = Total + size
        /\ k' = k + 1 /\ cur' = cur /\ Static' = Static
        /\ at' = IF Total' > MaxTotal THEN "pick" ELSE "layout"
    BY <1>3 DEF LayOut
  <2>2. k \in 1..Len(Static) /\ LaidOut(n) /\ n \in Nat /\ k = n + 1 /\ k' - 1 = k
    BY <1>b, <1>d, <2>1
  <2>3. size \in Nat \ {0} /\ \A j \in 1..k : SizeOf(cur, Static[j]) \in Nat \ {0}
    BY <1>b, <1>c, <2>1, <2>2 DEF Busy
  <2>4. /\ Len(Offsets) = n
        /\ Len(Offsets') = k /\ Offsets'[k] = Total /\ \A j \in 1..n : Offsets'[j] = Offsets[j] /\ Offsets[j] \in Nat
    BY <1>b, <2>1, <2>2 DEF LaidOut
  <2>5. \A j \in 1..k : j \in 1..n \/ j = k
    BY <2>2
  <2>. HIDE DEF n, size
  <2>6. \A j \in 1..k : Offsets'[j] + SizeOf(cur, Static[j]) <= Total'
    <3>1. Offsets'[k] + SizeOf(cur, Static[k]) <= Total'
      BY <1>b, <2>1, <2>3, <2>4 DEF size
    <3>2. ASSUME NEW j \in 1..n PROVE Offsets'[j] + SizeOf(cur, Static[j]) <= Total'
      <4>1. Offsets[j] + SizeOf(cur, Static[j]) <= Total
        BY <2>2 DEF LaidOut
      <4>2. SizeOf(cur, Static[j]) \in Nat /\ Offsets[j] \in Nat
        BY <2>2, <2>3, <2>4
      <4>. QED
        BY <1>b, <2>1, <2>3, <2>4, <4>1, <4>2
    <3>. QED
      BY <2>5, <3>1, <3>2
  <2>7. ASSUME NEW j \in 1..k, NEW l \in 1..k, j < l
        PROVE  Offsets'[j] + SizeOf(cur, Static[j]) <= Offsets'[l]
    <3>1. j \in 1..n
      BY <2>2, <2>7
    <3>2. CASE l = k
      BY <2>2, <2>4, <3>1, <3>2 DEF LaidOut
    <3>3. CASE l \in 1..n
      BY <2>2, <2>4, <2>7, <3>1, <3>3 DEF LaidOut
    <3>. QED
      BY <2>5, <3>2, <3>3
  <2>8. ASSUME NEW b \in 0..(Total' - 1)
        PROVE  \E j \in 1..k : b \in Offsets'[j]..(Offsets'[j] + SizeOf(cur, Static[j]) - 1)
    <3>1. CASE b < Total
      <4>1. PICK j \in 1..n : b \in Offsets[j]..(Offsets[j] + SizeOf(cur, Static[j]) - 1)
        <5>1. b \in 0..(Total - 1)
          BY <1>b, <2>8, <3>1
        <5>. QED
          BY <2>2, <5>1 DEF LaidOut
      <4>2. j \in 1..k
        BY <2>2
      <4>. QED
        BY <2>4, <4>1, <4>2
    <3>2. CASE ~(b < Total)
      <4>1. b \in Total..(Total + size - 1)
        BY <1>b, <2>1, <2>3, <2>8, <3>2
      <4>. QED
        BY <2>2, <2>4, <4>1 DEF size
    <3>. QED
      BY <3>1, <3>2
  <2>9. Total' <= MaxTotal => (LaidOut(k - 1))'
    BY <1>a, <2>1, <2>2, <2>4, <2>6, <2>7, <2>8 DEF LaidOut, SizeOf
  <2>10. at' = "layout" => Total' <= MaxTotal
    BY <1>b, <2>1, <2>3
  <2>11. k' \in 1..(Len(Static') + 1) /\ at' # "replace"
    BY <1>b, <2>1, <2>2
  <2>. QED
    BY <2>9, <2>10, <2>11 DEF LayoutInv
<1>4. CASE CreateGlobal
  <2>1. /\ at = "layout" /\ k > Len(Static) /\ gvSize' = [gvSize EXCEPT ![cur] = Total] /\ k' = 1 /\ at' = "replace"
        /\ UNCHANGED <<cur, Static, Offsets, Total>>
    BY <1>4 DEF CreateGlobal
  <2>2. k - 1 = Len(Static) /\ LaidOut(Len(Static))
    BY <1>b, <1>d, <2>1
  <2>3. gvSize'[cur'] = Total'
    BY <1>b, <2>1 DEF Busy
  <2>4. Len(Static') = Len(Static) /\ (LaidOut(Len(Static)))'
    BY <1>a, <2>1, <2>2 DEF LaidOut, SizeOf
  <2>5. k' \in 1..(Len(Static') + 1)
    BY <1>b, <2>1
  <2>. QED
    BY <2>1, <2>3, <2>4, <2>5 DEF LayoutInv
<1>5. CASE Replace
  <2>1. /\ at = "replace" /\ at' = at /\ k <= Len(Static) /\ k' = k + 1
        /\ UNCHANGED <<cur, Static, Offsets, Total, gvSize>>
    BY <1>5 DEF Replace
  <2>2. (LaidOut(Len(Static)))'
    BY <1>a, <1>d, <2>1 DEF LaidOut, SizeOf
  <2>3. k' \in 1..(Len(Static') + 1) /\ gvSize'[cur'] = Total'
    BY <1>b, <1>d, <2>1
  <2>. QED
    BY <2>1, <2>2, <2>3 DEF LayoutInv
<1>. QED
  BY <1>1, <1>2, <1>3, <1>4, <1>5 DEF PromoteNext

(* Only the function at work gets homes, one alloca after the other.        *)
LEMMA HomesNext ==
  ASSUME PromoteInv, PromoteNext
  PROVE  HomesInv'
<1>a. prog' = prog /\ \A f, i : SizeOf(f, i)' = SizeOf(f, i)
  BY SameProgram DEF SizeOf
<1>b. /\ Len(Static) \in Nat /\ k \in Nat
      /\ gvSize \in [Funcs -> Nat] /\ homes \in [Funcs -> [1..MaxObjs -> Home]]
      /\ Busy => cur \in Funcs /\ cur \notin promoted
  BY ProgramFacts DEF PromoteInv, PromoteTypeOK, ChoiceInv
<1>c. Busy => \A j \in 1..Len(Static) : Static[j] \in 1..MaxObjs /\ SizeOf(cur, Static[j]) \in Nat \ {0}
  BY <1>b, CollectedFacts DEF PromoteInv
<1>d. /\ \A f \in Funcs : f \notin promoted /\ ~(f = cur /\ at = "replace") =>
           gvSize[f] = 0 /\ \A i \in 1..MaxObjs : homes[f][i].size = 0
      /\ at = "replace" =>
           /\ \A j \in 1..(k - 1) :
                homes[cur][Static[j]] = [off |-> Offsets[j], size |-> SizeOf(cur, Static[j])]
           /\ \A i \in 1..MaxObjs : homes[cur][i].size > 0 => \E j \in 1..(k - 1) : Static[j] = i
  BY DEF PromoteInv, HomesInv
<1>f. ASSUME at # "replace", at' # "replace", UNCHANGED resultVars
      PROVE  HomesInv'
  BY <1>d, <1>f DEF HomesInv, resultVars
<1>1. CASE SeedInterrupts \/ SearchOne \/ SearchDone \/ PickFunction \/ CollectAlloca
           \/ StartLayout \/ LayOut \/ PromoteDone
  <2>1. PickFunction => at = "pick" /\ at' \in {"pick", "collect"} /\ UNCHANGED resultVars
    BY Zenon DEF PickFunction
  <2>2. at # "replace" /\ at' # "replace" /\ UNCHANGED resultVars
    BY <1>1, <2>1 DEF SeedInterrupts, SearchOne, SearchDone, CollectAlloca, StartLayout, LayOut, PromoteDone
  <2>. QED
    BY <1>f, <2>2
<1>2. CASE CreateGlobal
  <2>1. /\ at = "layout" /\ gvSize' = [gvSize EXCEPT ![cur] = Total] /\ k' = 1 /\ at' = "replace"
        /\ cur' = cur /\ homes' = homes /\ promoted' = promoted
    BY <1>2 DEF CreateGlobal
  <2>2. cur \in Funcs /\ cur \notin promoted
    BY <1>b, <2>1 DEF Busy
  <2>3. \A f \in Funcs : f # cur => gvSize'[f] = gvSize[f]
    BY <1>b, <2>1
  <2>4. \A i \in 1..MaxObjs : ~(homes[cur][i].size > 0)
    BY <1>d, <2>1, <2>2
  <2>5. 1..(k' - 1) = {}
    BY <2>1
  <2>. QED
    BY <1>d, <2>1, <2>3, <2>4, <2>5 DEF HomesInv
<1>3. CASE Replace
  <2>. DEFINE home == [off |-> Offsets[k], size |-> SizeOf(cur, Static[k])]
              n == k - 1
  <2>1. /\ at = "replace" /\ at' = at /\ k <= Len(Static) /\ k' = k + 1
        /\ homes' = [homes EXCEPT ![cur] = [homes[cur] EXCEPT ![Static[k]] = home]]
        /\ UNCHANGED <<cur, Static, Offsets, gvSize, promoted>>
    BY <1>3 DEF Replace
  <2>2. k \in 1..Len(Static) /\ n \in Nat /\ k = n + 1 /\ k' - 1 = k
    BY <1>b, <2>1 DEF PromoteInv, LayoutInv
  <2>3. cur \in Funcs /\ \A j \in 1..Len(Static) : Static[j] \in 1..MaxObjs
    BY <1>b, <1>c, <2>1 DEF Busy
  <2>. HIDE DEF home, n
  <2>4. /\ \A f \in Funcs : f # cur => homes'[f] = homes[f]
        /\ homes'[cur] = [homes[cur] EXCEPT ![Static[k]] = home]
    BY <1>b, <2>1, <2>3
  <2>5. /\ homes'[cur][Static[k]] = home
        /\ \A i \in 1..MaxObjs : i # Static[k] => homes'[cur][i] = homes[cur][i]
    <3>1. homes[cur] \in [1..MaxObjs -> Home]
      BY <1>b, <2>3
    <3>2. Static[k] \in 1..MaxObjs
      BY <2>2, <2>3
    <3>3. ASSUME NEW H \in [1..MaxObjs -> Home], NEW K \in [1..MaxObjs -> Home],
                 NEW j \in 1..MaxObjs, NEW h, K = [H EXCEPT ![j] = h]
          PROVE  K[j] = h /\ \A i \in 1..MaxObjs : i # j => K[i] = H[i]
      BY <3>3
    <3>4. DOMAIN homes[cur] = 1..MaxObjs
      BY <3>1
    <3>5. homes'[cur][Static[k]] = home
      BY <2>4, <3>2, <3>4, Zenon
    <3>6. ASSUME NEW i \in 1..MaxObjs, i # Static[k] PROVE homes'[cur][i] = homes[cur][i]
      BY <2>4, <3>4, <3>6, Zenon
    <3>. QED
      BY <3>5, <3>6
  <2>6. \A j \in 1..k : j \in 1..n \/ j = k
    BY <2>2
  <2>7. \A j \in 1..n : j \in 1..Len(Static) /\ Static[j] # Static[k]
    <3>1. \A j \in 1..n : j \in 1..Len(Static) /\ j # k
      BY <1>b, <2>2
    <3>. QED
      BY <2>1, <2>2, <3>1 DEF PromoteInv, CollectInv, Busy
  <2>8. \A j \in 1..k : homes'[cur][Static[j]] = [off |-> Offsets[j], size |-> SizeOf(cur, Static[j])]
    <3>1. ASSUME NEW j \in 1..n
          PROVE  homes'[cur][Static[j]] = [off |-> Offsets[j], size |-> SizeOf(cur, Static[j])]
      BY <1>d, <2>1, <2>3, <2>5, <2>7 DEF n
    <3>. QED
      BY <2>5, <2>6, <3>1 DEF home
  <2>9. ASSUME NEW i \in 1..MaxObjs, homes'[cur][i].size > 0 PROVE \E j \in 1..k : Static[j] = i
    <3>1. CASE i = Static[k]
      BY <2>2, <3>1
    <3>2. CASE i # Static[k]
      <4>1. \E j \in 1..n : Static[j] = i
        BY <1>d, <2>1, <2>5, <2>9, <3>2 DEF n
      <4>. QED
        BY <2>2, <4>1
    <3>. QED
      BY <3>1, <3>2
  <2>10. \A f \in Funcs : f \notin promoted' /\ ~(f = cur' /\ at' = "replace") =>
           gvSize'[f] = 0 /\ \A i \in 1..MaxObjs : homes'[f][i].size = 0
    BY <1>d, <2>1, <2>4
  <2>11. /\ \A j \in 1..(k' - 1) :
              homes'[cur'][Static'[j]] = [off |-> Offsets'[j], size |-> SizeOf(cur, Static[j])]
         /\ \A j \in 1..(k' - 1) : SizeOf(cur, Static[j]) = SizeOf(cur, Static[j])'
         /\ \A i \in 1..MaxObjs : homes'[cur'][i].size > 0 => \E j \in 1..(k' - 1) : Static'[j] = i
    BY <1>a, <2>1, <2>2, <2>8, <2>9 DEF SizeOf
  <2>. QED
    BY <2>10, <2>11 DEF HomesInv
<1>4. CASE FinishFunction
  <2>1. /\ at = "replace" /\ at' = "pick" /\ cur' = cur /\ promoted' = promoted \cup {cur}
        /\ gvSize' = gvSize /\ homes' = homes
    BY <1>4 DEF FinishFunction
  <2>. QED
    BY <1>d, <2>1 DEF HomesInv
<1>. QED
  BY <1>1, <1>2, <1>3, <1>4 DEF PromoteNext

(* What the last replacement leaves is the whole move.                      *)
LEMMA ReplacedIsMoved ==
  ASSUME PromoteInv, FinishFunction
  PROVE  Moved(cur)
<1>. DEFINE allocas == prog.allocas[cur]
            m == Len(Static)
            size(j) == SizeOf(cur, Static[j])
<1>a. /\ at = "replace" /\ k > m
  BY DEF FinishFunction
<1>b. /\ m \in Nat /\ k \in Nat /\ cur \in Funcs /\ prog \in Programs /\ k - 1 = m
      /\ LaidOut(m) /\ gvSize[cur] = Total /\ Total \in Nat /\ Offsets \in Seq(Nat)
  <2>1. /\ m \in Nat /\ k \in Nat /\ cur \in Funcs /\ prog \in Programs /\ Total \in Nat /\ Offsets \in Seq(Nat)
    BY <1>a, ProgramFacts DEF PromoteInv, PromoteTypeOK, ChoiceInv, Busy
  <2>2. k \in 1..(m + 1) /\ LaidOut(m) /\ gvSize[cur] = Total
    BY <1>a DEF PromoteInv, LayoutInv
  <2>. QED
    BY <1>a, <2>1, <2>2
<1>c. \A j \in 1..m : /\ Static[j] \in 1..Len(allocas) /\ Static[j] \in 1..MaxObjs
                      /\ size(j) \in Nat \ {0} /\ Offsets[j] \in Nat
  <2>1. Len(Offsets) = m
    BY <1>b DEF LaidOut
  <2>2. \A j \in 1..m : Offsets[j] \in Nat
    BY <1>b, <2>1
  <2>. QED
    BY <1>a, <1>b, <2>2, CollectedFacts DEF PromoteInv, Busy
<1>d. /\ \A j \in 1..m : allocas[Static[j]].static
      /\ \A i \in 1..Len(allocas) : allocas[i].static => \E j \in 1..m : Static[j] = i
      /\ \A j, l \in 1..m : j # l => Static[j] # Static[l]
  BY <1>a DEF PromoteInv, CollectInv, Busy
<1>e. /\ \A j \in 1..m : homes[cur][Static[j]] = [off |-> Offsets[j], size |-> size(j)]
      /\ \A i \in 1..MaxObjs : homes[cur][i].size > 0 => \E j \in 1..m : Static[j] = i
  BY <1>a, <1>b DEF PromoteInv, HomesInv
<1>f. /\ \A j \in 1..m : allocas[Static[j]].size <= size(j)
      /\ 1..Len(allocas) \subseteq 1..MaxObjs
  BY <1>b, <1>c, AllocaFacts
<1>g. /\ Total <= MaxTotal
      /\ \A j \in 1..m : Offsets[j] + size(j) <= Total
      /\ \A j, l \in 1..m : j < l => Offsets[j] + size(j) <= Offsets[l]
      /\ \A b \in 0..(Total - 1) : \E j \in 1..m : b \in Offsets[j]..(Offsets[j] + size(j) - 1)
  BY <1>b DEF LaidOut
<1>h. \A j \in 1..m : homes[cur][Static[j]].off = Offsets[j] /\ homes[cur][Static[j]].size = size(j)
  <2>. HIDE DEF size, m
  <2>. SUFFICES ASSUME NEW j \in 1..m
                PROVE  homes[cur][Static[j]].off = Offsets[j] /\ homes[cur][Static[j]].size = size(j)
    OBVIOUS
  <2>1. homes[cur][Static[j]] = [off |-> Offsets[j], size |-> size(j)]
    BY <1>e
  <2>. QED
    BY <2>1
<1>. HIDE DEF allocas, m, size
<1>1. ASSUME NEW i \in 1..MaxObjs
      PROVE  homes[cur][i].size > 0 <=> i \in 1..Len(allocas) /\ allocas[i].static
  <2>1. homes[cur][i].size > 0 => i \in 1..Len(allocas) /\ allocas[i].static
    BY <1>c, <1>d, <1>e
  <2>2. i \in 1..Len(allocas) /\ allocas[i].static => homes[cur][i].size > 0
    BY <1>c, <1>d, <1>h
  <2>. QED
    BY <2>1, <2>2
<1>2. ASSUME NEW i \in 1..Len(allocas), allocas[i].static
      PROVE  /\ allocas[i].size <= homes[cur][i].size
             /\ homes[cur][i].off + homes[cur][i].size <= gvSize[cur]
             /\ \A j \in 1..Len(allocas) : allocas[j].static /\ i # j =>
                  homes[cur][i].off + homes[cur][i].size <= homes[cur][j].off
                    \/ homes[cur][j].off + homes[cur][j].size <= homes[cur][i].off
  <2>1. PICK x \in 1..m : Static[x] = i
    BY <1>d, <1>2
  <2>2. ASSUME NEW j \in 1..Len(allocas), allocas[j].static, i # j
        PROVE  homes[cur][i].off + homes[cur][i].size <= homes[cur][j].off
                 \/ homes[cur][j].off + homes[cur][j].size <= homes[cur][i].off
    <3>1. PICK y \in 1..m : Static[y] = j
      BY <1>d, <2>2
    <3>2. x < y \/ y < x
      BY <1>b, <2>1, <2>2, <3>1
    <3>. QED
      BY <1>g, <1>h, <2>1, <3>1, <3>2
  <2>. QED
    BY <1>b, <1>f, <1>g, <1>h, <2>1, <2>2
<1>3. ASSUME NEW b \in 0..(gvSize[cur] - 1)
      PROVE  \E i \in 1..MaxObjs : homes[cur][i].size > 0 /\ b \in homes[cur][i].off..(homes[cur][i].off + homes[cur][i].size - 1)
  <2>1. PICK j \in 1..m : b \in Offsets[j]..(Offsets[j] + size(j) - 1)
    BY <1>b, <1>g
  <2>2. size(j) > 0 /\ Static[j] \in 1..MaxObjs
    BY <1>c
  <2>. QED
    BY <1>h, <2>1, <2>2
<1>4. gvSize[cur] <= MaxTotal
  BY <1>b, <1>g
<1>. HIDE <1>b, <1>g
<1>. QED
  BY <1>1, <1>2, <1>3, <1>4, Zenon DEF Moved, allocas

(* The global of a promoted function stays as it is.                        *)
LEMMA MovedNext ==
  ASSUME PromoteInv, PromoteNext
  PROVE  MovedInv'
<1>a. /\ prog' = prog /\ MovedInv
      /\ gvSize \in [Funcs -> Nat] /\ homes \in [Funcs -> [1..MaxObjs -> Home]]
      /\ promoted \subseteq Funcs
      /\ Busy => cur \in Funcs /\ cur \notin promoted
  BY SameProgram, ProgramFacts DEF PromoteInv, PromoteTypeOK, ChoiceInv
<1>f. ASSUME NEW f, gvSize'[f] = gvSize[f], homes'[f] = homes[f], Moved(f)
      PROVE  Moved(f)'
  BY <1>a, <1>f DEF Moved
<1>g. ASSUME promoted' = promoted,
             \A f \in promoted : gvSize'[f] = gvSize[f] /\ homes'[f] = homes[f]
      PROVE  MovedInv'
  BY <1>a, <1>f, <1>g DEF MovedInv
<1>1. CASE SeedInterrupts \/ SearchOne \/ SearchDone \/ PickFunction \/ CollectAlloca
           \/ StartLayout \/ LayOut \/ PromoteDone
  <2>1. UNCHANGED resultVars
    BY <1>1 DEF SeedInterrupts, SearchOne, SearchDone, PickFunction, CollectAlloca, StartLayout,
                LayOut, PromoteDone
  <2>. QED
    BY <1>g, <2>1 DEF resultVars
<1>2. CASE CreateGlobal
  <2>1. /\ at = "layout" /\ gvSize' = [gvSize EXCEPT ![cur] = Total]
        /\ homes' = homes /\ promoted' = promoted
    BY <1>2 DEF CreateGlobal
  <2>2. \A f \in promoted : gvSize'[f] = gvSize[f]
    BY <1>a, <2>1 DEF Busy
  <2>. QED
    BY <1>g, <2>1, <2>2
<1>3. CASE Replace
  <2>1. at = "replace" /\ gvSize' = gvSize /\ promoted' = promoted
    BY <1>3 DEF Replace
  <2>2. \E h : homes' = [homes EXCEPT ![cur] = h]
    BY <1>3 DEF Replace
  <2>3. \A f \in promoted : homes'[f] = homes[f]
    BY <1>a, <2>1, <2>2 DEF Busy
  <2>. QED
    BY <1>g, <2>1, <2>3
<1>4. CASE FinishFunction
  <2>1. promoted' = promoted \cup {cur} /\ gvSize' = gvSize /\ homes' = homes
    BY <1>4 DEF FinishFunction
  <2>2. \A f \in promoted' : Moved(f)
    BY <1>4, <1>a, <2>1, ReplacedIsMoved DEF MovedInv
  <2>. QED
    BY <1>f, <2>1, <2>2 DEF MovedInv
<1>. QED
  BY <1>1, <1>2, <1>3, <1>4 DEF PromoteNext

LEMMA PromoteNextInv == PromoteInv /\ PromoteNext => PromoteInv'
BY TypeNext, SearchNext, ChoiceNext, CollectNext, LayoutNext, HomesNext, MovedNext DEF PromoteInv

LEMMA PromoteStutterInv == PromoteInv /\ UNCHANGED <<prog, promoteVars>> => PromoteInv'
<1>. SUFFICES ASSUME PromoteInv, UNCHANGED <<prog, promoteVars>> PROVE PromoteInv'
  OBVIOUS
<1>1. /\ prog' = prog /\ at' = at /\ InterruptReachable' = InterruptReachable /\ worklist' = worklist
      /\ todo' = todo /\ cur' = cur /\ Static' = Static /\ k' = k /\ Offsets' = Offsets /\ Total' = Total
      /\ gvSize' = gvSize /\ homes' = homes /\ promoted' = promoted
  BY DEF promoteVars
<1>2. PromoteTypeOK'
  BY <1>1 DEF PromoteInv, PromoteTypeOK, Defined
<1>3. SearchInv'
  BY <1>1 DEF PromoteInv, SearchInv, VisibleCallees, Defined
<1>4. ChoiceInv'
  <2>1. Eligible(cur)' <=> Eligible(cur)
    BY <1>1 DEF Eligible, HasEvidence, PromisesNoCallback
  <2>2. \A f : Eligible(f)' <=> Eligible(f)
    BY <1>1 DEF Eligible, HasEvidence, PromisesNoCallback
  <2>. QED
    BY <1>1, <2>1, <2>2 DEF PromoteInv, ChoiceInv, Busy, Defined
<1>5. CollectInv'
  BY <1>1 DEF PromoteInv, CollectInv, Busy
<1>6. LayoutInv'
  BY <1>1 DEF PromoteInv, LayoutInv, LaidOut, SizeOf
<1>7. HomesInv'
  BY <1>1 DEF PromoteInv, HomesInv, SizeOf
<1>8. MovedInv'
  BY <1>1 DEF PromoteInv, MovedInv, Moved
<1>. QED
  BY <1>2, <1>3, <1>4, <1>5, <1>6, <1>7, <1>8 DEF PromoteInv

LEMMA InitInv == Init => IInv
<1>1. Init => PromoteInv
  BY PromoteInitInv DEF Init
<1>2. Init => StackInv
  BY StackInitInv DEF Init, PromoteInit
<1>3. Init => stack = <<>>
  BY DEF Init, RunInit
<1>. QED
  BY <1>1, <1>2, <1>3 DEF IInv

LEMMA NextInv == IInv /\ [Next]_vars => IInv'
<1>. SUFFICES ASSUME IInv, [Next]_vars PROVE IInv'
  OBVIOUS
<1>1. CASE CompileStep
  <2>1. PromoteNext /\ UNCHANGED runVars /\ at # "run"
    BY <1>1 DEF CompileStep
  <2>2. PromoteInv' /\ prog' = prog
    BY <2>1, PromoteNextInv, SameProgram DEF IInv
  <2>3. StackInv'
    BY <2>1, <2>2, StackStutterInv DEF IInv, runVars
  <2>. QED
    BY <2>1, <2>2, <2>3 DEF IInv, runVars
<1>2. CASE RunStep
  <2>1. RunNext(promoted, homes) /\ UNCHANGED promoteVars /\ at = "run"
    BY <1>2 DEF RunStep
  <2>2. prog' = prog
    BY <2>1 DEF RunNext, Start, Call, Return, Interrupt, SetInte, StoreObject
  <2>3. PromoteInv'
    BY <2>1, <2>2, PromoteStutterInv DEF IInv
  <2>4. StackInv'
    BY <2>1, StackNextInv DEF IInv
  <2>. QED
    BY <2>1, <2>3, <2>4 DEF IInv, promoteVars
<1>3. CASE UNCHANGED vars
  <2>1. prog' = prog /\ UNCHANGED promoteVars /\ UNCHANGED runVars
    BY <1>3 DEF vars
  <2>2. PromoteInv'
    BY <2>1, PromoteStutterInv DEF IInv
  <2>3. StackInv'
    BY <2>1, StackStutterInv DEF IInv, runVars
  <2>. QED
    BY <2>1, <2>2, <2>3 DEF IInv, promoteVars, runVars
<1>. QED
  BY <1>1, <1>2, <1>3 DEF Next

LEMMA Invariance == Spec => []IInv
BY InitInv, NextInv, PTL DEF Spec

-----------------------------------------------------------------------------
LEMMA MovedAsAWhole == PromoteInv => AllOrNothing
<1>. SUFFICES ASSUME PromoteInv, NEW f \in Funcs, ~(f = cur /\ at = "replace")
              PROVE  LET used == {i \in 1..MaxObjs : homes[f][i].size > 0} IN
                     IF f \in promoted
                     THEN /\ used = {i \in DOMAIN prog.allocas[f] : prog.allocas[f][i].static}
                          /\ \A i \in used : prog.allocas[f][i].size <= homes[f][i].size
                          /\ gvSize[f] <= MaxTotal
                          /\ \A b \in 0..(gvSize[f] - 1) :
                               \E i \in used : b \in homes[f][i].off..(homes[f][i].off + homes[f][i].size - 1)
                     ELSE used = {} /\ gvSize[f] = 0
  BY DEF AllOrNothing
<1>. DEFINE used == {i \in 1..MaxObjs : homes[f][i].size > 0}
<1>1. CASE f \in promoted
  <2>1. Moved(f)
    BY <1>1 DEF PromoteInv, MovedInv
  <2>2. DOMAIN prog.allocas[f] = 1..Len(prog.allocas[f]) /\ 1..Len(prog.allocas[f]) \subseteq 1..MaxObjs
    BY AllocaFacts DEF PromoteInv, PromoteTypeOK
  <2>3. used = {i \in DOMAIN prog.allocas[f] : prog.allocas[f][i].static}
    BY <2>1, <2>2 DEF Moved
  <2>4. \A i \in used : prog.allocas[f][i].size <= homes[f][i].size
    BY <2>1, <2>2, <2>3 DEF Moved
  <2>5. \A b \in 0..(gvSize[f] - 1) :
          \E i \in used : b \in homes[f][i].off..(homes[f][i].off + homes[f][i].size - 1)
    BY <2>1 DEF Moved
  <2>. QED
    BY <1>1, <2>1, <2>3, <2>4, <2>5 DEF Moved
<1>2. CASE f \notin promoted
  <2>1. gvSize[f] = 0 /\ \A i \in 1..MaxObjs : homes[f][i].size = 0
    BY <1>2 DEF PromoteInv, HomesInv
  <2>. QED
    BY <1>2, <2>1
<1>. QED
  BY <1>1, <1>2

LEMMA MovedApart == PromoteInv => LocalsApart
<1>. SUFFICES ASSUME PromoteInv, NEW f \in promoted,
                     NEW i \in DOMAIN prog.allocas[f], NEW j \in DOMAIN prog.allocas[f],
                     prog.allocas[f][i].static, prog.allocas[f][j].static
              PROVE  /\ homes[f][i].off + homes[f][i].size <= gvSize[f]
                     /\ i # j => /\ homes[f][i].off # homes[f][j].off
                                 /\ \/ homes[f][i].off + homes[f][i].size <= homes[f][j].off
                                    \/ homes[f][j].off + homes[f][j].size <= homes[f][i].off
  BY DEF LocalsApart
<1>1. Moved(f) /\ f \in Funcs /\ prog \in Programs
  BY ProgramFacts DEF PromoteInv, MovedInv, PromoteTypeOK
<1>2. /\ i \in 1..Len(prog.allocas[f]) /\ j \in 1..Len(prog.allocas[f])
      /\ i \in 1..MaxObjs /\ j \in 1..MaxObjs
  BY <1>1, AllocaFacts
<1>3. /\ homes[f][i].off \in Nat /\ homes[f][i].size \in Nat /\ homes[f][i].size > 0
      /\ homes[f][j].off \in Nat /\ homes[f][j].size \in Nat /\ homes[f][j].size > 0
  <2>1. homes[f][i] \in Home /\ homes[f][j] \in Home
    BY <1>1, <1>2 DEF PromoteInv, PromoteTypeOK
  <2>2. homes[f][i].size > 0 /\ homes[f][j].size > 0
    BY <1>1, <1>2 DEF Moved
  <2>. QED
    BY <2>1, <2>2 DEF Home
<1>4. /\ homes[f][i].off + homes[f][i].size <= gvSize[f]
      /\ i # j => \/ homes[f][i].off + homes[f][i].size <= homes[f][j].off
                  \/ homes[f][j].off + homes[f][j].size <= homes[f][i].off
  BY <1>1, <1>2 DEF Moved
<1>. QED
  BY <1>3, <1>4

(* Promotion is all or nothing (promoteAllocas bails out before it creates  *)
(* the global, or replaces every static alloca): whatever the allocas and   *)
(* their sizes, a function has none of its locals in a global, or each one  *)
(* in full, in a global of at most MaxTotal bytes with none left over.      *)
THEOREM MovesAreWhole == Spec => []AllOrNothing
<1>1. IInv => AllOrNothing
  BY MovedAsAWhole DEF IInv
<1>. QED
  BY <1>1, Invariance, PTL

(* The offsets promoteAllocas packs, a byte at least for each alloca, keep  *)
(* the locals of a promoted function apart and inside its global.           *)
THEOREM LocalsStayApart == Spec => []LocalsApart
<1>1. IInv => LocalsApart
  BY MovedApart DEF IInv
<1>. QED
  BY <1>1, Invariance, PTL

-----------------------------------------------------------------------------
(* A function whose calls all promise not to call back, inline asm aside,   *)
(* or that is marked norecurse, never comes back to itself.                 *)
LEMMA EvidenceEnough ==
  ASSUME prog \in Programs, NEW f \in Defined(prog), f \in prog.noRecurse \/ HasEvidence(f)
  PROVE  f \notin prog.reach[f]
<1>a. /\ f \in Funcs /\ IsReach(prog) /\ Truthful(prog)
      /\ prog.reach \in [Funcs -> SUBSET Funcs]
  BY ProgramFacts
<1>1. CASE f \in prog.noRecurse
  BY <1>1, <1>a DEF Truthful
<1>2. CASE HasEvidence(f)
  <2>. SUFFICES ASSUME f \in prog.reach[f] PROVE FALSE
    OBVIOUS
  <2>. DEFINE S == {x \in Funcs : x # f /\ f \notin prog.reach[x]}
  <2>1. ASSUME NEW t \in Targets(prog, f)
        PROVE  t \in S
    <3>1. PICK i \in DOMAIN prog.sites[f] : t \in SiteTargets(prog, prog.sites[f][i])
      BY <2>1 DEF Targets
    <3>2. t \in Funcs /\ prog.sites[f][i].kind # "asm"
      BY <3>1 DEF SiteTargets
    <3>3. PromisesNoCallback(prog, prog.sites[f][i])
      BY <1>2, <3>1, <3>2 DEF HasEvidence
    <3>4. prog.reach[t] \cap Defined(prog) = {}
      BY <1>a, <3>1, <3>3 DEF Truthful
    <3>. QED
      BY <3>2, <3>4
  <2>2. ASSUME NEW x \in S
        PROVE  Targets(prog, x) \subseteq S
    <3>1. Targets(prog, x) \subseteq prog.reach[x]
      BY <1>a DEF IsReach
    <3>2. \A t \in prog.reach[x] : t \in Funcs /\ prog.reach[t] \subseteq prog.reach[x]
      BY <1>a DEF IsReach
    <3>. QED
      BY <3>1, <3>2
  <2>3. Targets(prog, f) \subseteq S /\ S \in SUBSET Funcs
    BY <2>1
  <2>4. prog.reach[f] \subseteq S
    <3>. HIDE DEF S
    <3>. QED
      BY <1>a, <2>2, <2>3 DEF IsReach
  <2>. QED
    BY <2>4
<1>. QED
  BY <1>1, <1>2

(* In a state of the invariant no promoted function is live twice, provided *)
(* the interrupt handlers of the program are closed.                        *)
LEMMA NotReenteredState ==
  ASSUME IInv, \A p \in Programs : ClosedInterrupts(p)
  PROVE  PromotedNotReentered
<1>1. ASSUME NEW f \in promoted
      PROVE  f \notin prog.reach[f] /\ ~FromHandler(f)
  <2>1. f \in Defined(prog) /\ Eligible(f) /\ prog \in Programs
    BY DEF IInv, PromoteInv, PromoteTypeOK, ChoiceInv
  <2>2. f \notin prog.reach[f]
    BY <2>1, EvidenceEnough DEF Eligible
  <2>3. at \notin {"analyze", "search"}
    BY DEF IInv, PromoteInv, ChoiceInv
  <2>4. /\ InterruptReachable \in SUBSET Funcs
        /\ prog.isrAttr \subseteq InterruptReachable
        /\ \A x \in InterruptReachable : VisibleCallees(prog, x) \subseteq InterruptReachable
    <3>1. InterruptReachable \subseteq Defined(prog) \cup prog.isrAttr
      BY DEF IInv, PromoteInv, PromoteTypeOK
    <3>. QED
      BY <2>1, <2>3, <3>1, ProgramFacts DEF IInv, PromoteInv, SearchInv
  <2>5. f \notin InterruptReachable /\ ClosedInterrupts(prog)
    BY <2>1 DEF Eligible
  <2>. QED
    BY <2>1, <2>2, <2>4, <2>5, OutsideHandlers
<1>. QED
  BY <1>1, NotReenteredStack DEF IInv, PromotedNotReentered

(* A function whose locals were promoted (isFunctionEligible) is never      *)
(* entered again while an activation of it is live, for every program       *)
(* whose attributes are true and whose interrupt handlers are all marked    *)
(* and reach only functions the pass's search can see.                      *)
THEOREM PromotedOnce ==
  ASSUME \A p \in Programs : ClosedInterrupts(p)
  PROVE  Spec => []PromotedNotReentered
<1>1. Init => IInv
  BY InitInv
<1>2. IInv /\ [Next]_vars => IInv'
  BY NextInv
<1>3. IInv => PromotedNotReentered
  BY NotReenteredState
<1>. QED
  BY <1>1, <1>2, <1>3, PTL DEF Spec

(* The locals in every global are apart, as memory sees them.               *)
LEMMA HomesApart ==
  ASSUME IInv
  PROVE  ApartIn(promoted, homes)
<1>. SUFFICES ASSUME NEW f \in promoted, NEW i \in 1..MaxObjs, NEW j \in 1..MaxObjs, i # j,
                     NEW b \in Bytes(homes[f][i]), b \in Bytes(homes[f][j])
              PROVE  FALSE
  BY DEF ApartIn
<1>1. Moved(f) /\ f \in Funcs
  BY ProgramFacts DEF IInv, PromoteInv, MovedInv, PromoteTypeOK
<1>2. homes[f][i] \in Home /\ homes[f][j] \in Home
  BY <1>1 DEF IInv, PromoteInv, PromoteTypeOK
<1>3. /\ homes[f][i].off \in Nat /\ homes[f][i].size \in Nat
      /\ homes[f][j].off \in Nat /\ homes[f][j].size \in Nat
  BY <1>2 DEF Home
<1>4. /\ b \in Int
      /\ b >= homes[f][i].off /\ b < homes[f][i].off + homes[f][i].size
      /\ b >= homes[f][j].off /\ b < homes[f][j].off + homes[f][j].size
  BY <1>3 DEF Bytes
<1>5. homes[f][i].size > 0 /\ homes[f][j].size > 0
  BY <1>3, <1>4
<1>6. \/ homes[f][i].off + homes[f][i].size <= homes[f][j].off
      \/ homes[f][j].off + homes[f][j].size <= homes[f][i].off
  BY <1>1, <1>5 DEF Moved
<1>. QED
  BY <1>3, <1>4, <1>6

LEMMA LocalsKeptNext ==
  ASSUME IInv, PromotedNotReentered, LocalsIntact, [Next]_vars
  PROVE  LocalsIntact'
<1>1. CASE CompileStep
  <2>1. stack' = <<>>
    BY <1>1 DEF CompileStep, runVars, IInv
  <2>. QED
    BY <2>1 DEF LocalsIntact, FramesIntactIn
<1>2. CASE UNCHANGED vars
  BY <1>2 DEF vars, promoteVars, runVars, LocalsIntact, FramesIntactIn
<1>3. CASE RunStep
  <2>1. RunNext(promoted, homes) /\ UNCHANGED <<promoted, homes>>
    BY <1>3 DEF RunStep, promoteVars
  <2>2. FramesIntactIn(promoted, homes) /\ NotReenteredIn(promoted) /\ ApartIn(promoted, homes) /\ StackInv
    BY HomesApart DEF LocalsIntact, PromotedNotReentered, IInv
  <2>3. \A fns, layout :
          /\ NotReenteredIn(fns) /\ ApartIn(fns, layout)
          /\ FramesIntactIn(fns, layout) /\ RunNext(fns, layout)
          => FramesIntactIn(fns, layout)'
    BY <2>2, FramesNext
  <2>. QED
    BY <2>1, <2>2, <2>3 DEF LocalsIntact, FramesIntactIn
<1>. QED
  BY <1>1, <1>2, <1>3 DEF Next

(* A local in the global keeps what the live activation stored in it, under *)
(* the same condition on the handlers: __v6clang_a.F serves the function as *)
(* its allocas on the stack would.                                          *)
THEOREM LocalsKept ==
  ASSUME \A p \in Programs : ClosedInterrupts(p)
  PROVE  Spec => []LocalsIntact
<1>1. Init => IInv /\ LocalsIntact
  <2>1. Init => LocalsIntact
    BY DEF Init, RunInit, LocalsIntact, FramesIntactIn
  <2>. QED
    BY <2>1, InitInv
<1>2. IInv /\ LocalsIntact /\ [Next]_vars => IInv' /\ LocalsIntact'
  BY NextInv, NotReenteredState, LocalsKeptNext
<1>. QED
  BY <1>1, <1>2, PTL DEF Spec
=============================================================================
