--------------------------- MODULE StaticFramesProofs ---------------------------
(***************************************************************************)
(* Proofs about V6ClangStaticStackAlloc and the programs it compiles, for   *)
(* every set of well-formed programs.  The pass first: its types, the       *)
(* closure of the interrupt search, the soundness of the non-reentrancy     *)
(* evidence, the layout of the frames.  Then the running program.           *)
(***************************************************************************)
EXTENDS StaticFrames, ActivationStackProofs

-----------------------------------------------------------------------------
(* Type correctness of the pass.                                            *)

PInv == prog \in Programs /\ PassTypeOK

LEMMA PassInitInv == PassInit => PInv
<1>. SUFFICES ASSUME PassInit PROVE PInv
  OBVIOUS
<1>1. prog \in Programs
  BY DEF PassInit
<1>2. PassTypeOK
  BY <1>1, ProgramFacts, BoundsAssumption DEF BoundsAssumption, PassInit, PassTypeOK, Unvisited, NoSlot, Defined
<1>. QED
  BY <1>1, <1>2 DEF PInv

(* The innermost function of the search is a defined one.                   *)
LEMMA DfsTopType ==
  ASSUME PInv, path # <<>>
  PROVE  /\ Len(path) \in Nat \ {0}
         /\ DfsTop \in Defined(prog)
         /\ DfsTop \in Funcs
         /\ next[DfsTop] \in 0..MaxSites + 1
         /\ Len(prog.sites[DfsTop]) \in 0..MaxSites
         /\ prog.sites[DfsTop] \in Seq(Site)
<1>1. path \in Seq(Defined(prog)) /\ next \in [Funcs -> 0..MaxSites + 1]
  BY DEF PInv, PassTypeOK
<1>2. Len(path) \in Nat \ {0} /\ path[Len(path)] \in Defined(prog)
  BY <1>1
<1>. QED
  BY <1>1, <1>2, ProgramFacts DEF PInv, DfsTop

LEMMA PassNextInv ==
  ASSUME PInv, PassNext
  PROVE  PInv'
<1>. USE DEF PInv
<1>a. prog \in Programs /\ prog' = prog
  BY DEF PassNext, SeedInterrupts, BfsStep, BfsDone, PickFunction, DfsSkip, DfsEnter,
     DfsReject, DfsReturn, DfsAccept, CheckEligible, SumObject, CreateGlobal,
     AssignSlot, FinishFunction, PassDone
<1>b. /\ prog.sites \in [Funcs -> Seq(Site)]
      /\ \A f \in Funcs : Len(prog.sites[f]) \in 0..MaxSites
      /\ prog.isrAttr \subseteq Funcs
      /\ \A f \in Funcs : Len(prog.objs[f]) \in 0..MaxObjs
      /\ Defined(prog) \subseteq Funcs
  BY <1>a, ProgramFacts
<1>. USE <1>a, BoundsAssumption DEF BoundsAssumption
<1>1. CASE SeedInterrupts
  BY <1>1, <1>b DEF SeedInterrupts, PassTypeOK
<1>2. CASE BfsStep
  BY <1>2, <1>b DEF BfsStep, PassTypeOK, VisibleCallees
<1>3. CASE BfsDone
  BY <1>3 DEF BfsDone, PassTypeOK
<1>4. CASE PickFunction
  <2>1. PICK f \in todo :
          /\ todo' = todo \ {f} /\ cur' = f
          /\ next' = Unvisited \/ next' = [Unvisited EXCEPT ![f] = 1]
          /\ path' = <<>> \/ path' = <<f>>
          /\ pc' \in {"check", "dfs"}
    BY <1>4 DEF PickFunction
  <2>2. f \in Defined(prog) /\ f \in Funcs
    BY <2>1, <1>b DEF PassTypeOK
  <2>3. next' \in [Funcs -> 0..MaxSites + 1]
    <3>1. Unvisited \in [Funcs -> 0..MaxSites + 1]
      BY DEF Unvisited
    <3>2. [Unvisited EXCEPT ![f] = 1] \in [Funcs -> 0..MaxSites + 1]
      BY <3>1, <2>2
    <3>. QED
      BY <2>1, <3>1, <3>2
  <2>4. path' \in Seq(Defined(prog))
    <3>1. <<>> \in Seq(Defined(prog)) /\ <<f>> \in Seq(Defined(prog))
      BY <2>2
    <3>. QED
      BY <2>1, <3>1
  <2>. QED
    BY <1>4, <2>1, <2>2, <2>3, <2>4 DEF PickFunction, PassTypeOK
<1>5. CASE DfsSkip
  <2>1. /\ DfsTop \in Funcs /\ next[DfsTop] + 1 \in 0..MaxSites + 1
        /\ next' = [next EXCEPT ![DfsTop] = @ + 1]
    BY <1>5, DfsTopType DEF DfsSkip, DfsAtSite
  <2>2. next' \in [Funcs -> 0..MaxSites + 1]
    BY <2>1 DEF PassTypeOK
  <2>. QED
    BY <1>5, <2>2 DEF DfsSkip, PassTypeOK
<1>6. CASE DfsEnter
  <2>1. DfsSite.callee \in Defined(prog) /\ DfsSite.callee \in Funcs
    BY <1>6, <1>b DEF DfsEnter, VisibleCall
  <2>2. DfsTop \in Funcs /\ next[DfsTop] + 1 \in 0..MaxSites + 1
    BY <1>6, DfsTopType DEF DfsEnter, DfsAtSite
  <2>3. next' \in [Funcs -> 0..MaxSites + 1]
    <3>. DEFINE mid == [next EXCEPT ![DfsTop] = next[DfsTop] + 1]
    <3>1. next' = [mid EXCEPT ![DfsSite.callee] = 1]
      BY <1>6 DEF DfsEnter
    <3>2. mid \in [Funcs -> 0..MaxSites + 1]
      BY <2>2 DEF PassTypeOK
    <3>. HIDE DEF mid
    <3>. QED
      BY <3>1, <3>2, <2>1
  <2>4. path' \in Seq(Defined(prog))
    BY <1>6, <2>1 DEF DfsEnter, PassTypeOK
  <2>. QED
    BY <1>6, <2>3, <2>4 DEF DfsEnter, DfsAtSite, PassTypeOK
<1>7. CASE DfsReject
  BY <1>7 DEF DfsReject, PassTypeOK
<1>8. CASE DfsReturn
  <2>1. path \in Seq(Defined(prog)) /\ path # <<>> /\ path' = SubSeq(path, 1, Len(path) - 1)
    BY <1>8 DEF DfsReturn, PassTypeOK
  <2>2. path' \in Seq(Defined(prog))
    <3>. HIDE DEF PInv
    <3>. QED
      BY <2>1
  <2>3. UNCHANGED <<prog, pc, InterruptReachable, worklist, todo, cur, next, objs, fi,
                    TotalSize, Offset, gvSize, slots, static>>
    BY <1>8 DEF DfsReturn
  <2>. QED
    BY <2>2, <2>3, Zenon DEF PassTypeOK
<1>9. CASE DfsAccept
  BY <1>9 DEF DfsAccept, PassTypeOK
<1>10. CASE CheckEligible
  <2>1. cur \in Defined(prog) \ todo /\ objs \in [Funcs -> Seq(Obj)]
    BY <1>10 DEF CheckEligible, PassTypeOK
  <2>2. cur \in Funcs
    BY <1>b, <2>1
  <2>3. objs[cur] \in Seq(Obj)
    BY <2>1, <2>2
  <2>4. Len(objs[cur]) \in Nat
    BY <2>3
  <2>5. /\ pc = "check"
        /\ \/ pc' = "sum" /\ fi' = 1 /\ TotalSize' = 0
           \/ pc' = "pick" /\ fi' = fi /\ TotalSize' = TotalSize
        /\ UNCHANGED <<prog, InterruptReachable, worklist, todo, cur, next, path, objs,
                       Offset, gvSize, slots, static>>
    BY <1>10, Zenon DEF CheckEligible
  <2>6. fi' \in 0..MaxObjs + 1 /\ TotalSize' \in Nat
    <3>1. fi \in 0..MaxObjs + 1 /\ TotalSize \in Nat
      BY Zenon DEF PassTypeOK
    <3>. HIDE DEF PInv
    <3>. QED
      BY <2>5, <3>1
  <2>7. pc' \in {"sum", "assign"} => fi' \in 1..Len(objs'[cur']) + 1
    <3>. HIDE DEF PInv
    <3>. QED
      BY <2>4, <2>5
  <2>8. pc' \in {"dfs", "check", "sum", "assign"} => cur' \in Defined(prog') \ todo'
    BY <2>1, <2>5, Zenon
  <2>9. pc' \in {"analyze", "bfs", "pick", "dfs", "check", "sum", "assign", "run"}
    BY <2>5
  <2>. QED
    BY <2>5, <2>6, <2>7, <2>8, <2>9, Zenon DEF PassTypeOK
<1>c. ASSUME pc \in {"sum", "assign"}
      PROVE  /\ cur \in Funcs /\ objs[cur] \in Seq(Obj) /\ fi \in Nat
             /\ Len(objs[cur]) = Len(prog.objs[cur]) /\ Len(objs[cur]) \in 0..MaxObjs
             /\ fi <= Len(objs[cur]) =>
                  /\ fi \in DOMAIN objs[cur] /\ fi \in 1..MaxObjs
                  /\ objs[cur][fi].size \in 0..MaxSize
                  /\ fi + 1 \in 1..Len(objs[cur]) + 1 /\ fi + 1 \in 0..MaxObjs + 1
  <2>1. /\ cur \in Funcs /\ objs[cur] \in Seq(Obj)
        /\ Len(objs[cur]) = Len(prog.objs[cur]) /\ Len(objs[cur]) \in 0..MaxObjs
        /\ fi \in 1..Len(objs[cur]) + 1
    BY <1>b, <1>c DEF PassTypeOK
  <2>2. fi <= Len(objs[cur]) => fi \in DOMAIN objs[cur] /\ fi \in 1..MaxObjs
    BY <2>1
  <2>3. fi \in DOMAIN objs[cur] => objs[cur][fi] \in Obj
    BY <2>1
  <2>4. fi \in DOMAIN objs[cur] => objs[cur][fi].size \in 0..MaxSize
    BY <2>3 DEF Obj
  <2>5. fi <= Len(objs[cur]) => fi + 1 \in 1..Len(objs[cur]) + 1 /\ fi + 1 \in 0..MaxObjs + 1
    BY <2>1
  <2>. QED
    BY <2>1, <2>2, <2>4, <2>5
<1>11. CASE SumObject
  <2>1. TotalSize' \in Nat
    <3>1. TotalSize \in Nat /\ objs[cur][fi].size \in Nat
      <4>1. pc = "sum" /\ fi <= Len(objs[cur])
        BY <1>11 DEF SumObject
      <4>2. objs[cur][fi].size \in 0..MaxSize
        BY <1>c, <4>1
      <4>3. TotalSize \in Nat
        BY DEF PassTypeOK
      <4>. QED
        BY <4>2, <4>3
    <3>. QED
      BY <1>11, <3>1 DEF SumObject
  <2>2. fi' = fi + 1 /\ fi <= Len(objs[cur]) /\ pc = "sum" /\ objs' = objs /\ cur' = cur /\ pc' = pc
    BY <1>11 DEF SumObject
  <2>3. fi' \in 0..MaxObjs + 1 /\ fi' \in 1..Len(objs'[cur']) + 1
    BY <1>c, <2>2
  <2>. QED
    BY <1>11, <2>1, <2>2, <2>3 DEF SumObject, PassTypeOK
<1>12. CASE CreateGlobal
  <2>1. /\ pc = "sum" /\ pc' \in {"pick", "assign"}
        /\ fi' = fi \/ fi' = 1
        /\ pc' = "assign" => fi' = 1
        /\ Offset' = Offset \/ Offset' = 0
        /\ gvSize' = gvSize \/ gvSize' = [gvSize EXCEPT ![cur] = TotalSize]
        /\ UNCHANGED <<prog, InterruptReachable, worklist, todo, cur, next, path, objs,
                       TotalSize, slots, static>>
    BY <1>12 DEF CreateGlobal
  <2>2. cur \in Funcs /\ Len(objs[cur]) \in Nat
    BY <1>c, <2>1
  <2>3. gvSize \in [Funcs -> Nat] /\ TotalSize \in Nat /\ Offset \in Nat /\ fi \in 0..MaxObjs + 1
    BY Zenon DEF PassTypeOK
  <2>4. cur \in Defined(prog) \ todo
    BY <2>1 DEF PassTypeOK
  <2>5. gvSize' \in [Funcs -> Nat]
    <3>. HIDE DEF PInv
    <3>. QED
      BY <2>1, <2>2, <2>3
  <2>6. Offset' \in Nat /\ fi' \in 0..MaxObjs + 1
    <3>. HIDE DEF PInv
    <3>. QED
      BY <2>1, <2>3
  <2>7. pc' \in {"sum", "assign"} => fi' \in 1..Len(objs'[cur']) + 1
    <3>. HIDE DEF PInv
    <3>. QED
      BY <2>1, <2>2
  <2>8. pc' \in {"dfs", "check", "sum", "assign"} => cur' \in Defined(prog') \ todo'
    BY <2>1, <2>4, Zenon
  <2>9. pc' \in {"analyze", "bfs", "pick", "dfs", "check", "sum", "assign", "run"}
    BY <2>1
  <2>. QED
    BY <2>1, <2>5, <2>6, <2>7, <2>8, <2>9, Zenon DEF PassTypeOK
<1>13. CASE AssignSlot
  <2>1. fi' = fi + 1 /\ fi <= Len(objs[cur]) /\ pc = "assign" /\ objs' = objs /\ cur' = cur /\ pc' = pc
    BY <1>13 DEF AssignSlot
  <2>2. fi' \in 0..MaxObjs + 1 /\ fi' \in 1..Len(objs'[cur']) + 1
    BY <1>c, <2>1
  <2>3. slots' \in [Funcs -> [1..MaxObjs -> [off : Nat, size : 0..MaxSize]]] /\ Offset' \in Nat
    <3>1. cur \in Funcs /\ fi \in 1..MaxObjs /\ objs[cur][fi].size \in 0..MaxSize /\ Offset \in Nat
      BY <1>c, <2>1 DEF PassTypeOK
    <3>2. slots[cur] \in [1..MaxObjs -> [off : Nat, size : 0..MaxSize]]
      BY <3>1 DEF PassTypeOK
    <3>3. [off |-> Offset, size |-> objs[cur][fi].size] \in [off : Nat, size : 0..MaxSize]
      BY <3>1
    <3>4. [slots[cur] EXCEPT ![fi] = [off |-> Offset, size |-> objs[cur][fi].size]]
            \in [1..MaxObjs -> [off : Nat, size : 0..MaxSize]]
      BY <3>1, <3>2, <3>3
    <3>5. CASE objs[cur][fi].dead \/ objs[cur][fi].size = 0
      BY <1>13, <3>5 DEF AssignSlot, PassTypeOK
    <3>6. CASE ~(objs[cur][fi].dead \/ objs[cur][fi].size = 0)
      <4>1. /\ slots' = [slots EXCEPT ![cur] = [slots[cur] EXCEPT ![fi] =
                            [off |-> Offset, size |-> objs[cur][fi].size]]]
            /\ Offset' = Offset + objs[cur][fi].size
        BY <1>13, <3>6 DEF AssignSlot
      <4>2. slots' \in [Funcs -> [1..MaxObjs -> [off : Nat, size : 0..MaxSize]]]
        BY <3>1, <3>4, <4>1 DEF PassTypeOK
      <4>3. Offset' \in Nat
        BY <3>1, <4>1
      <4>. QED
        BY <4>2, <4>3
    <3>. QED
      BY <3>5, <3>6
  <2>. QED
    BY <1>13, <2>1, <2>2, <2>3 DEF AssignSlot, PassTypeOK
<1>14. CASE FinishFunction
  <2>1. pc = "assign" /\ pc' = "pick" /\ cur' = cur /\ todo' = todo
    BY <1>14 DEF FinishFunction
  <2>2. static' \subseteq Defined(prog) \ todo
    BY <1>14, <2>1 DEF FinishFunction, PassTypeOK
  <2>3. objs' \in [Funcs -> Seq(Obj)] /\ \A f \in Funcs : Len(objs'[f]) = Len(prog.objs[f])
    <3>. DEFINE new == [i \in DOMAIN objs[cur] |-> IF objs[cur][i].dead THEN objs[cur][i]
                                                   ELSE [objs[cur][i] EXCEPT !.size = 0]]
    <3>1. cur \in Funcs /\ objs[cur] \in Seq(Obj) /\ Len(objs[cur]) = Len(prog.objs[cur])
      BY <1>c, <2>1
    <3>2. \A i \in DOMAIN objs[cur] : new[i] \in Obj
      <4>1. \A i \in DOMAIN objs[cur] : objs[cur][i] \in Obj
        BY <3>1
      <4>. QED
        BY <4>1 DEF Obj
    <3>3. new \in Seq(Obj) /\ Len(new) = Len(objs[cur])
      <4>1. DOMAIN objs[cur] = 1..Len(objs[cur]) /\ Len(objs[cur]) \in Nat
        BY <3>1
      <4>2. new \in [1..Len(objs[cur]) -> Obj]
        BY <3>2, <4>1
      <4>. QED
        BY <4>1, <4>2
    <3>4. objs' = [objs EXCEPT ![cur] = new]
      BY <1>14 DEF FinishFunction
    <3>. HIDE DEF new
    <3>. QED
      BY <3>1, <3>3, <3>4 DEF PassTypeOK
  <2>. QED
    BY <1>14, <2>1, <2>2, <2>3 DEF FinishFunction, PassTypeOK
<1>15. CASE PassDone
  BY <1>15 DEF PassDone, PassTypeOK
<1>. QED
  BY <1>1, <1>2, <1>3, <1>4, <1>5, <1>6, <1>7, <1>8, <1>9, <1>10, <1>11, <1>12,
     <1>13, <1>14, <1>15 DEF PassNext

-----------------------------------------------------------------------------
(* The search from the interrupt handlers.                                  *)

BfsInv ==
  /\ pc # "analyze" => prog.isrAttr \subseteq InterruptReachable
  /\ pc \notin {"analyze", "bfs"} => worklist = {}
  /\ \A f \in InterruptReachable : f \in prog.isrAttr \/ \E h \in prog.isrAttr : f \in prog.reach[h]
  /\ \A f \in InterruptReachable \ worklist : VisibleCallees(prog, f) \subseteq InterruptReachable

(* A visible callee is something the caller reaches.                        *)
LEMMA VisibleIsReached ==
  ASSUME prog \in Programs, NEW f \in Funcs, NEW g \in VisibleCallees(prog, f)
  PROVE  g \in prog.reach[f] /\ g \in Funcs
<1>1. PICK i \in DOMAIN prog.sites[f] : prog.sites[f][i].kind = "direct" /\ prog.sites[f][i].callee = g
  BY DEF VisibleCallees
<1>2. g \in Funcs
  BY DEF VisibleCallees, Defined
<1>3. g \in SiteTargets(prog, prog.sites[f][i])
  BY <1>1, <1>2 DEF SiteTargets
<1>4. g \in Targets(prog, f)
  BY <1>3 DEF Targets
<1>5. Targets(prog, f) \subseteq prog.reach[f]
  BY ProgramFacts DEF IsReach
<1>. QED
  BY <1>2, <1>4, <1>5

LEMMA BfsInitInv == PassInit => BfsInv
BY DEF PassInit, BfsInv

LEMMA BfsNextInv ==
  ASSUME PInv, BfsInv, PassNext
  PROVE  BfsInv'
<1>a. prog \in Programs /\ InterruptReachable \subseteq Funcs /\ prog.isrAttr \subseteq Funcs
  BY ProgramFacts DEF PInv, PassTypeOK
<1>1. CASE SeedInterrupts
  BY <1>1 DEF SeedInterrupts, BfsInv
<1>2. CASE BfsStep
  <2>1. PICK f \in worklist :
          /\ InterruptReachable' = InterruptReachable \cup (VisibleCallees(prog, f) \ InterruptReachable)
          /\ worklist' = (worklist \ {f}) \cup (VisibleCallees(prog, f) \ InterruptReachable)
    BY <1>2 DEF BfsStep
  <2>2. f \in InterruptReachable /\ f \in Funcs
    BY <1>a, <2>1 DEF PInv, PassTypeOK
  <2>3. pc = "bfs" /\ pc' = "bfs" /\ prog' = prog
    BY <1>2 DEF BfsStep
  <2>4. ASSUME NEW g \in VisibleCallees(prog, f)
        PROVE  g \in prog.isrAttr \/ \E h \in prog.isrAttr : g \in prog.reach[h]
    <3>1. g \in prog.reach[f] /\ g \in Funcs
      BY <1>a, <2>2, VisibleIsReached
    <3>2. f \in prog.isrAttr \/ \E h \in prog.isrAttr : f \in prog.reach[h]
      BY <2>2 DEF BfsInv
    <3>3. \A h \in prog.isrAttr : f \in prog.reach[h] => prog.reach[f] \subseteq prog.reach[h]
      BY <1>a, <2>2, ProgramFacts DEF IsReach
    <3>. QED
      BY <3>1, <3>2, <3>3
  <2>5. \A x \in InterruptReachable' : x \in prog.isrAttr \/ \E h \in prog.isrAttr : x \in prog.reach[h]
    BY <2>1, <2>4 DEF BfsInv
  <2>6. \A x \in InterruptReachable' \ worklist' : VisibleCallees(prog, x) \subseteq InterruptReachable'
    BY <2>1 DEF BfsInv
  <2>. QED
    BY <2>1, <2>3, <2>5, <2>6 DEF BfsInv
<1>3. CASE BfsDone
  BY <1>3 DEF BfsDone, BfsInv
<1>4. ASSUME ~SeedInterrupts, ~BfsStep, ~BfsDone
      PROVE  /\ pc \notin {"analyze", "bfs"}
             /\ UNCHANGED <<prog, InterruptReachable, worklist>>
  BY <1>4 DEF PassNext, PickFunction, DfsSkip, DfsEnter, DfsReject, DfsReturn, DfsAccept,
     DfsAtSite, CheckEligible, SumObject, CreateGlobal, AssignSlot, FinishFunction, PassDone
<1>. QED
  BY <1>1, <1>2, <1>3, <1>4 DEF BfsInv

LEMMA BfsImpliesClosure == PInv /\ BfsInv => InterruptClosure
BY DEF BfsInv, InterruptClosure

-----------------------------------------------------------------------------
(* The depth-first search for evidence that cur is not re-entered.          *)

Handled(s) ==
  SafeSite(prog, s) \/ (s.kind = "direct" /\ s.callee \in Funcs \ {cur} /\ next[s.callee] > 0)

DfsInv ==
  pc = "dfs" =>
    /\ next[cur] > 0
    /\ \A f \in Funcs : next[f] > 0 => f = cur \/ f \in prog.reach[cur]
    /\ \A f \in Funcs : next[f] > 0 =>
         \A i \in 1..Len(prog.sites[f]) : i < next[f] => Handled(prog.sites[f][i])
    /\ \A f \in Funcs : (next[f] > 0 /\ next[f] <= Len(prog.sites[f]))
         => \E k \in 1..Len(path) : path[k] = f
    /\ \A k \in 1..Len(path) : next[path[k]] > 0

(* When the recursion is over, what was visited is closed under calls that  *)
(* are not known to be harmless, and none of those calls enters cur.        *)
LEMMA SearchSound ==
  ASSUME PInv, DfsInv, pc = "dfs", path = <<>>
  PROVE  cur \notin prog.reach[cur]
<1>. SUFFICES ASSUME cur \in prog.reach[cur] PROVE FALSE
  OBVIOUS
<1>a. /\ prog \in Programs /\ cur \in Defined(prog) /\ cur \in Funcs
      /\ next \in [Funcs -> 0..MaxSites + 1]
  BY ProgramFacts DEF PInv, PassTypeOK
<1>b. /\ IsReach(prog) /\ Truthful(prog)
      /\ prog.sites \in [Funcs -> Seq(Site)] /\ prog.reach \in [Funcs -> SUBSET Funcs]
  BY <1>a, ProgramFacts
<1>. DEFINE S == {x \in Funcs : x # cur /\ (next[x] > 0 \/ cur \notin prog.reach[x])}
<1>1. ASSUME NEW x \in Funcs, next[x] > 0, NEW t \in Targets(prog, x)
      PROVE  t \in S
  <2>1. PICK i \in DOMAIN prog.sites[x] : t \in SiteTargets(prog, prog.sites[x][i])
    BY <1>1 DEF Targets
  <2>. DEFINE s == prog.sites[x][i]
  <2>2. i \in 1..Len(prog.sites[x]) /\ Len(prog.sites[x]) \in Nat
    BY <1>b
  <2>3. ~(next[x] <= Len(prog.sites[x]))
    BY <1>1 DEF DfsInv
  <2>4. i < next[x]
    BY <1>a, <2>2, <2>3
  <2>5. Handled(s)
    BY <1>1, <2>2, <2>4 DEF DfsInv
  <2>6. t \in Funcs /\ t \in prog.reach[x]
    BY <1>1, <1>b, <2>1 DEF IsReach, SiteTargets
  <2>7. t \in prog.reach[cur]
    BY <1>1, <1>a, <1>b, <2>6 DEF DfsInv, IsReach
  <2>8. CASE s.kind = "direct" /\ s.callee \in Funcs \ {cur} /\ next[s.callee] > 0
    BY <2>1, <2>6, <2>8 DEF SiteTargets
  <2>9. CASE s.kind = "asm"
    BY <2>1, <2>9 DEF SiteTargets
  <2>10. CASE PromisesNoCallback(prog, s)
    <3>1. prog.reach[t] \cap Defined(prog) = {}
      BY <1>b, <1>1, <2>1, <2>10 DEF Truthful
    <3>. QED
      BY <1>a, <2>6, <3>1
  <2>11. CASE s.kind = "direct" /\ s.callee \in prog.noRecurse
    <3>1. t \in prog.noRecurse /\ t \notin prog.reach[t]
      BY <1>b, <2>1, <2>11 DEF SiteTargets, Truthful
    <3>2. cur \in prog.reach[t] => prog.reach[cur] \subseteq prog.reach[t]
      BY <1>a, <1>b, <2>6 DEF IsReach
    <3>. QED
      BY <2>6, <2>7, <3>1, <3>2
  <2>. QED
    BY <2>5, <2>8, <2>9, <2>10, <2>11 DEF Handled, SafeSite
<1>2. ASSUME NEW x \in S
      PROVE  Targets(prog, x) \subseteq S
  <2>1. CASE next[x] > 0
    BY <1>1, <2>1
  <2>2. CASE cur \notin prog.reach[x]
    <3>1. Targets(prog, x) \subseteq prog.reach[x]
      BY <1>b DEF IsReach
    <3>2. \A t \in prog.reach[x] : t \in Funcs /\ prog.reach[t] \subseteq prog.reach[x]
      BY <1>b DEF IsReach
    <3>. QED
      BY <2>2, <3>1, <3>2
  <2>. QED
    BY <2>1, <2>2
<1>3. Targets(prog, cur) \subseteq S
  BY <1>a, <1>1 DEF DfsInv
<1>4. S \in SUBSET Funcs
  OBVIOUS
<1>5. prog.reach[cur] \subseteq S
  <2>. HIDE DEF S
  <2>. QED
    BY <1>a, <1>b, <1>2, <1>3, <1>4 DEF IsReach
<1>. QED
  BY <1>5

LEMMA DfsInitInv == PassInit => DfsInv
BY DEF PassInit, DfsInv

LEMMA DfsNextInv ==
  ASSUME PInv, DfsInv, PassNext
  PROVE  DfsInv'
<1>a. /\ prog \in Programs /\ prog.sites \in [Funcs -> Seq(Site)]
      /\ next \in [Funcs -> 0..MaxSites + 1] /\ path \in Seq(Defined(prog))
      /\ Defined(prog) \subseteq Funcs /\ MaxSites \in Nat
      /\ \A f \in Funcs : Len(prog.sites[f]) \in 0..MaxSites
  BY ProgramFacts, BoundsAssumption DEF PInv, PassTypeOK, BoundsAssumption
<1>b. next \in [Funcs -> Nat] /\ \A f \in Funcs : Len(prog.sites[f]) \in Nat
  BY <1>a
<1>1. CASE PickFunction
  <2>1. PICK f \in todo :
          /\ cur' = f /\ prog' = prog
          /\ pc' = "dfs" => path' = <<f>> /\ next' = [Unvisited EXCEPT ![f] = 1]
    BY <1>1 DEF PickFunction
  <2>2. f \in Funcs
    BY <1>a, <2>1 DEF PInv, PassTypeOK
  <2>. SUFFICES ASSUME pc' = "dfs" PROVE DfsInv'
    BY DEF DfsInv
  <2>3. \A g \in Funcs : next'[g] = IF g = f THEN 1 ELSE 0
    BY <2>1, <2>2 DEF Unvisited
  <2>4. Len(path') = 1 /\ path'[1] = f
    BY <2>1
  <2>5. \A g \in Funcs : next'[g] > 0 => g = f
    BY <2>3
  <2>6. \A i \in 1..Len(prog.sites[f]) : ~(i < next'[f])
    BY <2>2, <2>3, <1>a
  <2>7. \E k \in 1..Len(path') : path'[k] = f
    BY <2>4
  <2>8. \A k \in 1..Len(path') : path'[k] = f
    BY <2>4
  <2>9. next'[f] > 0
    BY <2>2, <2>3
  <2>. QED
    BY <2>1, <2>2, <2>5, <2>6, <2>7, <2>8, <2>9 DEF DfsInv
<1>2. CASE DfsSkip
  <2>1. /\ pc = "dfs" /\ pc' = "dfs" /\ path' = path /\ cur' = cur /\ prog' = prog
        /\ path # <<>> /\ next[DfsTop] <= Len(prog.sites[DfsTop])
        /\ next' = [next EXCEPT ![DfsTop] = next[DfsTop] + 1]
        /\ SafeSite(prog, prog.sites[DfsTop][next[DfsTop]])
    BY <1>2 DEF DfsSkip, DfsAtSite, DfsSite
  <2>2. DfsTop \in Funcs /\ Len(path) \in Nat \ {0} /\ DfsTop = path[Len(path)]
    BY <2>1, DfsTopType DEF DfsTop
  <2>3. next[DfsTop] > 0
    BY <2>1, <2>2 DEF DfsInv
  <2>4. \A f \in Funcs : next'[f] = IF f = DfsTop THEN next[f] + 1 ELSE next[f]
    BY <1>a, <2>1
  <2>5. \A f \in Funcs : (next'[f] > 0) <=> (next[f] > 0)
    BY <1>b, <2>3, <2>4
  <2>5a. next \in [Funcs -> Nat]
    BY <1>a
  <2>6. ASSUME NEW f \in Funcs, next'[f] > 0, NEW i \in 1..Len(prog.sites[f]), i < next'[f]
        PROVE  Handled(prog.sites[f][i])'
    <3>1. Handled(prog.sites[f][i])
      <4>1. CASE i < next[f]
        BY <2>1, <2>5, <2>6, <4>1 DEF DfsInv
      <4>2. CASE f = DfsTop /\ i = next[f]
        BY <2>1, <4>2 DEF Handled
      <4>. QED
        BY <2>4, <2>5a, <2>6, <4>1, <4>2
    <3>3. CASE SafeSite(prog, prog.sites[f][i])
      BY <2>1, <3>3 DEF Handled
    <3>4. CASE prog.sites[f][i].kind = "direct" /\ prog.sites[f][i].callee \in Funcs \ {cur} /\ next[prog.sites[f][i].callee] > 0
      <4>1. next'[prog.sites[f][i].callee] > 0
        BY <2>1, <2>2, <2>3, <2>5a, <3>4
      <4>. QED
        BY <2>1, <3>4, <4>1 DEF Handled
    <3>. QED
      BY <3>1, <3>3, <3>4 DEF Handled
  <2>7. \A f \in Funcs : (next'[f] > 0 /\ next'[f] <= Len(prog.sites[f]))
          => next[f] > 0 /\ next[f] <= Len(prog.sites[f])
    BY <1>b, <2>4, <2>5
  <2>8. \A k \in 1..Len(path) : path[k] \in Funcs
    BY <1>a
  <2>9. cur \in Funcs
    BY <1>a, <2>1 DEF PInv, PassTypeOK
  <2>. QED
    BY <2>1, <2>5, <2>6, <2>7, <2>8, <2>9 DEF DfsInv
<1>3. CASE DfsEnter
  <2>. DEFINE c == DfsSite.callee
  <2>1. /\ pc = "dfs" /\ pc' = "dfs" /\ cur' = cur /\ prog' = prog
        /\ path # <<>> /\ next[DfsTop] <= Len(prog.sites[DfsTop])
        /\ next[c] = 0 /\ c \in Defined(prog) /\ DfsSite.kind = "direct"
        /\ next' = [[next EXCEPT ![DfsTop] = next[DfsTop] + 1] EXCEPT ![c] = 1]
        /\ path' = Append(path, c)
    BY <1>3 DEF DfsEnter, DfsAtSite, VisibleCall
  <2>2a. DfsTop \in Funcs /\ Len(path) \in Nat \ {0} /\ DfsTop = path[Len(path)]
    BY <2>1, DfsTopType DEF DfsTop
  <2>2b. c \in Funcs /\ cur \in Funcs
    BY <1>a, <2>1 DEF PInv, PassTypeOK
  <2>2. /\ DfsTop \in Funcs /\ Len(path) \in Nat \ {0} /\ DfsTop = path[Len(path)]
        /\ c \in Funcs /\ cur \in Funcs /\ next \in [Funcs -> Nat]
    BY <1>b, <2>2a, <2>2b
  <2>3. next[DfsTop] > 0 /\ next[cur] > 0
    BY <2>1, <2>2 DEF DfsInv
  <2>. HIDE DEF c
  <2>4. \A f \in Funcs : next'[f] = IF f = c THEN 1 ELSE IF f = DfsTop THEN next[f] + 1 ELSE next[f]
    BY <2>1, <2>2
  <2>5. \A f \in Funcs : (next'[f] > 0) <=> (next[f] > 0 \/ f = c)
    BY <2>2, <2>3, <2>4
  <2>6. c # cur /\ c # DfsTop
    BY <2>1, <2>2, <2>3
  <2>7. next[DfsTop] \in 1..Len(prog.sites[DfsTop]) /\ Len(prog.sites[DfsTop]) \in Nat
    BY <1>a, <2>1, <2>2, <2>3
  <2>8. c \in prog.reach[cur]
    <3>1. c \in SiteTargets(prog, DfsSite)
      BY <2>1, <2>2 DEF SiteTargets, c
    <3>2. c \in Targets(prog, DfsTop)
      <4>1. next[DfsTop] \in DOMAIN prog.sites[DfsTop]
        BY <1>a, <2>2, <2>7
      <4>. QED
        BY <3>1, <4>1 DEF Targets, DfsSite
    <3>3. DfsTop = cur \/ DfsTop \in prog.reach[cur]
      BY <2>1, <2>2, <2>3 DEF DfsInv
    <3>. QED
      BY <1>a, <2>2, <3>2, <3>3, ProgramFacts DEF IsReach
  <2>9. ASSUME NEW f \in Funcs, next'[f] > 0, NEW i \in 1..Len(prog.sites[f]), i < next'[f]
        PROVE  Handled(prog.sites[f][i])'
    <3>1. f # c
      <4>. SUFFICES ASSUME f = c PROVE FALSE
        OBVIOUS
      <4>. QED
        BY <2>4, <2>9
    <3>2. CASE i < next[f]
      <4>1. Handled(prog.sites[f][i])
        BY <2>1, <2>5, <2>9, <3>1, <3>2 DEF DfsInv
      <4>2. CASE SafeSite(prog, prog.sites[f][i])
        BY <2>1, <4>2 DEF Handled
      <4>3. CASE prog.sites[f][i].kind = "direct" /\ prog.sites[f][i].callee \in Funcs \ {cur} /\ next[prog.sites[f][i].callee] > 0
        <5>1. next'[prog.sites[f][i].callee] > 0
          BY <2>5, <4>3
        <5>. QED
          BY <2>1, <4>3, <5>1 DEF Handled
      <4>. QED
        BY <4>1, <4>2, <4>3 DEF Handled
    <3>3. CASE f = DfsTop /\ i = next[f]
      <4>1. prog.sites[f][i].kind = "direct" /\ prog.sites[f][i].callee = c
        BY <2>1, <3>3 DEF DfsSite, c
      <4>2. next'[c] > 0
        BY <2>2, <2>5
      <4>. QED
        BY <2>1, <2>2, <2>6, <4>1, <4>2 DEF Handled
    <3>. QED
      BY <2>2, <2>4, <2>9, <3>1, <3>2, <3>3
  <2>10. /\ Len(path') = Len(path) + 1 /\ path'[Len(path) + 1] = c
         /\ \A k \in 1..Len(path) : path'[k] = path[k] /\ path[k] \in Funcs
    BY <1>a, <2>1, <2>2
  <2>11. ASSUME NEW f \in Funcs, next'[f] > 0, next'[f] <= Len(prog.sites[f])
         PROVE  \E k \in 1..Len(path') : path'[k] = f
    <3>1. CASE f = c
      BY <2>2, <2>10, <3>1
    <3>2. CASE f # c
      <4>1. next[f] > 0 /\ next[f] <= Len(prog.sites[f])
        BY <1>b, <2>4, <2>5, <2>11, <3>2
      <4>2. PICK k \in 1..Len(path) : path[k] = f
        BY <2>1, <4>1 DEF DfsInv
      <4>. QED
        BY <2>2, <2>10, <4>2
    <3>. QED
      BY <3>1, <3>2
  <2>12. \A k \in 1..Len(path') : next'[path'[k]] > 0
    <3>1. \A k \in 1..Len(path) : next[path[k]] > 0
      BY <2>1 DEF DfsInv
    <3>. QED
      BY <2>2, <2>5, <2>10, <3>1
  <2>13. \A f \in Funcs : next'[f] > 0 => f = cur \/ f \in prog.reach[cur]
    BY <2>1, <2>5, <2>8 DEF DfsInv
  <2>. QED
    BY <2>1, <2>2, <2>3, <2>5, <2>9, <2>11, <2>12, <2>13 DEF DfsInv
<1>4. CASE DfsReturn
  <2>1. /\ pc = "dfs" /\ path # <<>> /\ ~(next[DfsTop] <= Len(prog.sites[DfsTop]))
        /\ path' = SubSeq(path, 1, Len(path) - 1)
        /\ pc' = pc /\ cur' = cur /\ next' = next /\ prog' = prog
        /\ Len(path) \in Nat \ {0} /\ DfsTop = path[Len(path)] /\ DfsTop \in Funcs
    BY <1>4, <1>a, DfsTopType DEF DfsReturn, DfsTop
  <2>2. Len(path') = Len(path) - 1 /\ \A k \in 1..Len(path) - 1 : path'[k] = path[k]
    <3>1. path \in Seq(Funcs)
      BY <1>a
    <3>. QED
      BY <2>1, <3>1, PoppedSeq
  <2>3. ASSUME NEW f \in Funcs, next[f] > 0, next[f] <= Len(prog.sites[f])
        PROVE  \E k \in 1..Len(path') : path'[k] = f
    <3>1. PICK k \in 1..Len(path) : path[k] = f
      BY <2>1, <2>3 DEF DfsInv
    <3>2. k # Len(path)
      BY <2>1, <2>3, <3>1
    <3>. QED
      BY <2>1, <2>2, <3>1, <3>2
  <2>4. \A k \in 1..Len(path') : next[path'[k]] > 0
    BY <2>1, <2>2 DEF DfsInv
  <2>5. \A s : Handled(s)' <=> Handled(s)
    BY <2>1 DEF Handled
  <2>. QED
    BY <2>1, <2>3, <2>4, <2>5 DEF DfsInv
<1>5. ASSUME ~PickFunction, ~DfsSkip, ~DfsEnter, ~DfsReturn
      PROVE  pc' # "dfs"
  BY <1>5 DEF PassNext, SeedInterrupts, BfsStep, BfsDone, DfsReject, DfsAccept,
     CheckEligible, SumObject, CreateGlobal, AssignSlot, FinishFunction, PassDone
<1>. QED
  BY <1>1, <1>2, <1>3, <1>4, <1>5 DEF DfsInv

LEMMA EvidenceNextInv ==
  ASSUME PInv, DfsInv, EvidenceSound, PassNext
  PROVE  EvidenceSound'
<1>1. CASE PickFunction
  <2>1. PICK f \in todo : cur' = f /\ prog' = prog /\ (pc' = "check" => f \in prog.noRecurse)
                        /\ pc' \in {"check", "dfs"}
    BY <1>1 DEF PickFunction
  <2>2. Truthful(prog)
    BY ProgramFacts DEF PInv
  <2>. QED
    BY <2>1, <2>2 DEF EvidenceSound, Truthful
<1>2. CASE DfsAccept
  BY <1>2, SearchSound DEF DfsAccept, EvidenceSound
<1>3. ASSUME ~PickFunction, ~DfsAccept, pc' \in {"check", "sum", "assign"}
      PROVE  pc \in {"check", "sum", "assign"} /\ prog' = prog /\ cur' = cur
  BY <1>3 DEF PassNext, SeedInterrupts, BfsStep, BfsDone, DfsSkip, DfsEnter, DfsReject,
     DfsReturn, DfsAtSite, CheckEligible, SumObject, CreateGlobal, AssignSlot,
     FinishFunction, PassDone
<1>. QED
  BY <1>1, <1>2, <1>3 DEF EvidenceSound

-----------------------------------------------------------------------------
(* What is known of every function that got a static frame.                 *)

StaticInv ==
  /\ static # {} => pc \notin {"analyze", "bfs"}
  /\ \A f \in static : f \notin prog.reach[f] /\ f \notin InterruptReachable
  /\ pc \in {"sum", "assign"} => cur \notin InterruptReachable

LEMMA StaticInitInv == PassInit => StaticInv
BY DEF PassInit, StaticInv

LEMMA StaticNextInv ==
  ASSUME PInv, EvidenceSound, StaticInv, PassNext
  PROVE  StaticInv'
<1>1. CASE SeedInterrupts
  BY <1>1 DEF SeedInterrupts, StaticInv
<1>2. CASE BfsStep
  BY <1>2 DEF BfsStep, StaticInv
<1>3. CASE CheckEligible
  BY <1>3 DEF CheckEligible, Eligible, StaticInv
<1>4. CASE FinishFunction
  <2>1. /\ static' = static \cup {cur} /\ pc = "assign" /\ pc' = "pick"
        /\ prog' = prog /\ InterruptReachable' = InterruptReachable
    BY <1>4 DEF FinishFunction
  <2>. QED
    BY <2>1 DEF StaticInv, EvidenceSound
<1>5. ASSUME ~SeedInterrupts, ~BfsStep, ~CheckEligible, ~FinishFunction
      PROVE  /\ UNCHANGED <<prog, InterruptReachable, static>>
             /\ pc \notin {"analyze", "bfs"} => pc' \notin {"analyze", "bfs"}
             /\ pc' \in {"sum", "assign"} => pc \in {"sum", "assign"} /\ cur' = cur
  BY <1>5 DEF PassNext, BfsDone, PickFunction, DfsSkip, DfsEnter, DfsReject, DfsReturn,
     DfsAccept, DfsAtSite, SumObject, CreateGlobal, AssignSlot, PassDone
<1>. QED
  BY <1>1, <1>2, <1>3, <1>4, <1>5 DEF StaticInv

-----------------------------------------------------------------------------
(* The layout of the static frames.                                         *)

LayoutInv ==
  /\ SlotsDisjoint
  /\ \A f \in Funcs : (f \in todo \/ (f = cur /\ pc \in {"dfs", "check", "sum"})) =>
       \A i \in 1..MaxObjs : slots[f][i].size = 0
  /\ pc = "assign" => \A i \in 1..MaxObjs :
       /\ i >= fi => slots[cur][i].size = 0
       /\ slots[cur][i].size > 0 => slots[cur][i].off + slots[cur][i].size <= Offset

LEMMA LayoutInitInv == PassInit => LayoutInv
<1>. SUFFICES ASSUME PassInit PROVE LayoutInv
  OBVIOUS
<1>1. pc = "analyze" /\ \A f \in Funcs : \A i \in 1..MaxObjs : slots[f][i].size = 0
  BY DEF PassInit, NoSlot
<1>2. SlotsDisjoint
  BY <1>1 DEF SlotsDisjoint
<1>. QED
  BY <1>1, <1>2 DEF LayoutInv

LEMMA LayoutNextInv ==
  ASSUME PInv, LayoutInv, PassNext
  PROVE  LayoutInv'
<1>a. /\ slots \in [Funcs -> [1..MaxObjs -> [off : Nat, size : 0..MaxSize]]]
      /\ Offset \in Nat /\ fi \in Nat /\ MaxObjs \in Nat /\ todo \subseteq Funcs
      /\ MaxSize \in Nat
  BY ProgramFacts, BoundsAssumption DEF PInv, PassTypeOK, BoundsAssumption
<1>b. \A f \in Funcs : \A i \in 1..MaxObjs : slots[f][i].off \in Nat /\ slots[f][i].size \in Nat
  BY <1>a
<1>1. CASE AssignSlot
  <2>1. /\ pc = "assign" /\ pc' = "assign" /\ cur' = cur /\ todo' = todo /\ fi' = fi + 1
        /\ fi <= Len(objs[cur]) /\ fi \in 1..Len(objs[cur]) + 1
    BY <1>1 DEF AssignSlot, PInv, PassTypeOK
  <2>2. cur \in Funcs /\ cur \notin todo /\ Len(objs[cur]) \in 0..MaxObjs
    BY <2>1, ProgramFacts DEF PInv, PassTypeOK
  <2>3. fi \in 1..MaxObjs
    BY <1>a, <2>1, <2>2
  <2>4. CASE objs[cur][fi].dead \/ objs[cur][fi].size = 0
    <3>1. slots' = slots /\ Offset' = Offset
      BY <1>1, <2>4 DEF AssignSlot
    <3>2. \A i \in 1..MaxObjs : i >= fi + 1 => i >= fi
      BY <1>a
    <3>. QED
      BY <2>1, <3>1, <3>2 DEF LayoutInv, SlotsDisjoint
  <2>5. CASE ~(objs[cur][fi].dead \/ objs[cur][fi].size = 0)
    <3>. DEFINE n == objs[cur][fi].size
                new == [off |-> Offset, size |-> n]
    <3>1. slots' = [slots EXCEPT ![cur] = [slots[cur] EXCEPT ![fi] = new]] /\ Offset' = Offset + n
      BY <1>1, <2>5 DEF AssignSlot
    <3>2. n \in Nat
      <4>1. objs[cur] \in Seq(Obj)
        BY <2>2 DEF PInv, PassTypeOK
      <4>2. objs[cur][fi] \in Obj
        BY <2>1, <2>2, <4>1
      <4>. QED
        BY <1>a, <4>2 DEF Obj
    <3>3. new.off = Offset /\ new.size = n
      OBVIOUS
    <3>. HIDE DEF n, new
    <3>4. \A i \in 1..MaxObjs : slots'[cur][i] = IF i = fi THEN new ELSE slots[cur][i]
      BY <1>a, <2>2, <2>3, <3>1
    <3>5. \A f \in Funcs : f # cur => slots'[f] = slots[f]
      BY <1>a, <3>1
    <3>6. \A i \in 1..MaxObjs : slots[cur][i].size > 0 => slots[cur][i].off + slots[cur][i].size <= Offset
      BY <2>1 DEF LayoutInv
    <3>7. ASSUME NEW i \in 1..MaxObjs, slots[cur][i].size > 0
          PROVE  ~Overlap(slots[cur][i], new) /\ ~Overlap(new, slots[cur][i])
      BY <1>a, <1>b, <2>2, <3>2, <3>3, <3>6, <3>7 DEF Overlap
    <3>8. SlotsDisjoint'
      <4>1. ASSUME NEW f \in Funcs, NEW i \in 1..MaxObjs, NEW j \in 1..MaxObjs,
                   i # j, slots'[f][i].size > 0, slots'[f][j].size > 0
            PROVE  ~Overlap(slots'[f][i], slots'[f][j])
        <5>1. CASE f # cur
          BY <3>5, <4>1, <5>1 DEF LayoutInv, SlotsDisjoint
        <5>2. CASE f = cur /\ i = fi
          BY <3>4, <3>7, <4>1, <5>2
        <5>3. CASE f = cur /\ j = fi
          BY <3>4, <3>7, <4>1, <5>3
        <5>4. CASE f = cur /\ i # fi /\ j # fi
          BY <2>2, <3>4, <4>1, <5>4 DEF LayoutInv, SlotsDisjoint
        <5>. QED
          BY <5>1, <5>2, <5>3, <5>4
      <4>. QED
        BY <4>1 DEF SlotsDisjoint, Overlap
    <3>9. \A f \in Funcs : f \in todo => \A i \in 1..MaxObjs : slots'[f][i].size = 0
      BY <2>2, <3>5 DEF LayoutInv
    <3>10. ASSUME NEW i \in 1..MaxObjs
           PROVE  /\ i >= fi + 1 => slots'[cur][i].size = 0
                  /\ slots'[cur][i].size > 0 => slots'[cur][i].off + slots'[cur][i].size <= Offset + n
      <4>1. CASE i = fi
        BY <1>a, <3>2, <3>3, <3>4, <4>1
      <4>2. CASE i # fi
        <5>1. slots'[cur][i] = slots[cur][i]
          BY <3>4, <4>2
        <5>2. i >= fi + 1 => slots[cur][i].size = 0
          BY <1>a, <2>1 DEF LayoutInv
        <5>3. slots[cur][i].off \in Nat /\ slots[cur][i].size \in Nat
          BY <1>b, <2>2
        <5>. QED
          BY <1>a, <3>2, <3>6, <5>1, <5>2, <5>3
      <4>. QED
        BY <4>1, <4>2
    <3>. QED
      BY <2>1, <3>1, <3>8, <3>9, <3>10 DEF LayoutInv
  <2>. QED
    BY <2>4, <2>5
<1>2. CASE PickFunction
  <2>1. PICK f \in todo : todo' = todo \ {f} /\ cur' = f /\ slots' = slots /\ pc' # "assign"
    BY <1>2 DEF PickFunction
  <2>. QED
    BY <1>a, <2>1 DEF LayoutInv, SlotsDisjoint
<1>3. CASE CreateGlobal
  <2>1. /\ slots' = slots /\ todo' = todo /\ cur' = cur /\ pc = "sum"
        /\ pc' \in {"pick", "assign"}
    BY <1>3 DEF CreateGlobal
  <2>2. cur \in Funcs
    BY <2>1, ProgramFacts DEF PInv, PassTypeOK
  <2>3. \A i \in 1..MaxObjs : slots[cur][i].size = 0
    BY <2>1, <2>2 DEF LayoutInv
  <2>. QED
    BY <2>1, <2>3 DEF LayoutInv, SlotsDisjoint
<1>4. ASSUME ~AssignSlot, ~PickFunction, ~CreateGlobal
      PROVE  /\ UNCHANGED <<slots, todo, cur>>
             /\ pc' # "assign"
             /\ pc' \in {"dfs", "check", "sum"} => pc \in {"dfs", "check", "sum"}
  BY <1>4 DEF PassNext, SeedInterrupts, BfsStep, BfsDone, DfsSkip, DfsEnter, DfsReject,
     DfsReturn, DfsAccept, DfsAtSite, CheckEligible, SumObject, FinishFunction, PassDone
<1>. QED
  BY <1>1, <1>2, <1>3, <1>4 DEF LayoutInv, SlotsDisjoint

-----------------------------------------------------------------------------
(* Where the objects of every function are, laid out or not.                *)

(* Bytes that object i of f takes in the static frame.                      *)
Weight(f, i) == IF objs[f][i].dead THEN 0 ELSE objs[f][i].size

(* P[k] is what the objects of f before k take together.  The two loops of  *)
(* the pass walk through one such P.                                        *)
Sums(P, f, n) ==
  /\ P[1] = 0
  /\ \A i \in 1..(n - 1) : P[i + 1] = P[i] + Weight(f, i)
  /\ \A i, j \in 1..n : i <= j => P[i] <= P[j]

Prefixes == [1..(MaxObjs + 1) -> Nat]

HomeInv ==
  /\ \A f \in static : \A i \in DOMAIN prog.objs[f] :
       ~prog.objs[f][i].dead /\ prog.objs[f][i].size > 0 =>
         /\ slots[f][i].size = prog.objs[f][i].size /\ objs[f][i].size = 0
         /\ slots[f][i].off + prog.objs[f][i].size <= gvSize[f]
  /\ \A f \in Funcs \ static : objs[f] = prog.objs[f]
  /\ \A f \in Funcs \ static : ~(f = cur /\ pc = "assign") =>
       \A i \in 1..MaxObjs : slots[f][i].size = 0
  /\ pc \in {"dfs", "check", "sum", "assign"} => cur \notin static
  /\ pc = "sum" => \E P \in Prefixes : Sums(P, cur, fi) /\ TotalSize = P[fi]
  /\ pc = "assign" =>
       /\ \E P \in Prefixes : /\ Sums(P, cur, Len(objs[cur]) + 1)
                              /\ Offset = P[fi] /\ gvSize[cur] = P[Len(objs[cur]) + 1]
       /\ \A i \in 1..(fi - 1) : ~objs[cur][i].dead => slots[cur][i].size = objs[cur][i].size

LEMMA HomeImpliesOneHome == PInv /\ HomeInv => OneHome
<1>. SUFFICES ASSUME PInv, HomeInv, NEW f \in Defined(prog) \ todo, NEW i \in DOMAIN prog.objs[f],
                     ~prog.objs[f][i].dead, prog.objs[f][i].size > 0, ~(f = cur /\ pc = "assign")
              PROVE  IF f \in static
                     THEN /\ slots[f][i].size = prog.objs[f][i].size /\ objs[f][i].size = 0
                          /\ slots[f][i].off + prog.objs[f][i].size <= gvSize[f]
                     ELSE slots[f][i].size = 0 /\ objs[f][i].size = prog.objs[f][i].size
  BY DEF OneHome
<1>1. f \in Funcs /\ i \in 1..MaxObjs
  BY ProgramFacts, BoundsAssumption DEF PInv, BoundsAssumption
<1>. QED
  BY <1>1 DEF HomeInv

LEMMA HomeInitInv == PassInit => HomeInv
<1>. SUFFICES ASSUME PassInit PROVE HomeInv
  OBVIOUS
<1>1. /\ pc = "analyze" /\ static = {} /\ objs = prog.objs
      /\ \A f \in Funcs : \A i \in 1..MaxObjs : slots[f][i].size = 0
  BY DEF PassInit, NoSlot
<1>. QED
  BY <1>1 DEF HomeInv

(* The facts about the function being laid out.                             *)
LEMMA LaidOutFacts ==
  ASSUME PInv, pc \in {"sum", "assign"}
  PROVE  /\ cur \in Funcs /\ cur \in Defined(prog)
         /\ Len(objs[cur]) \in 0..MaxObjs /\ MaxObjs \in Nat
         /\ fi \in 1..(Len(objs[cur]) + 1)
         /\ \A i \in 1..Len(objs[cur]) : Weight(cur, i) \in Nat /\ objs[cur][i] \in Obj
<1>1. /\ cur \in Funcs /\ cur \in Defined(prog)
      /\ Len(objs[cur]) \in 0..MaxObjs /\ MaxObjs \in Nat /\ MaxSize \in Nat
      /\ fi \in 1..(Len(objs[cur]) + 1)
      /\ objs[cur] \in Seq(Obj)
  BY ProgramFacts, BoundsAssumption DEF PInv, PassTypeOK, BoundsAssumption
<1>2. \A i \in 1..Len(objs[cur]) : objs[cur][i] \in Obj
  BY <1>1
<1>. QED
  BY <1>1, <1>2 DEF Weight, Obj

(* One object more in the sum.                                              *)
LEMMA SumGrows ==
  ASSUME PInv, pc = "sum", fi <= Len(objs[cur]), NEW P \in Prefixes, Sums(P, cur, fi)
  PROVE  \E Q \in Prefixes : Sums(Q, cur, fi + 1) /\ Q[fi + 1] = P[fi] + Weight(cur, fi)
<1>. DEFINE w == Weight(cur, fi)
            Q == [P EXCEPT ![fi + 1] = P[fi] + w]
<1>1. /\ fi \in 1..MaxObjs /\ fi \in Nat /\ MaxObjs \in Nat
      /\ \A i \in 1..fi : Weight(cur, i) \in Nat
  BY LaidOutFacts
<1>2. \A i \in 1..(MaxObjs + 1) : P[i] \in Nat
  BY DEF Prefixes
<1>3. w \in Nat /\ fi \in 1..(MaxObjs + 1) /\ fi + 1 \in 1..(MaxObjs + 1)
  BY <1>1
<1>. HIDE DEF w
<1>4. P[fi] + w \in Nat
  BY <1>2, <1>3
<1>5. /\ Q \in Prefixes
      /\ Q[fi + 1] = P[fi] + w
      /\ \A i \in 1..fi : Q[i] = P[i]
  BY <1>1, <1>3, <1>4 DEF Prefixes
<1>. HIDE DEF Q
<1>6. Q[1] = 0
  BY <1>1, <1>5 DEF Sums
<1>7. ASSUME NEW i \in 1..fi PROVE Q[i + 1] = Q[i] + Weight(cur, i)
  <2>1. CASE i = fi
    BY <1>5, <2>1 DEF w
  <2>2. CASE i # fi
    <3>1. i \in 1..(fi - 1) /\ i + 1 \in 1..fi
      BY <1>1, <2>2
    <3>. QED
      BY <1>5, <3>1 DEF Sums
  <2>. QED
    BY <2>1, <2>2
<1>8. ASSUME NEW i \in 1..(fi + 1), NEW j \in 1..(fi + 1), i <= j PROVE Q[i] <= Q[j]
  <2>1. i \in 1..(MaxObjs + 1) /\ j \in 1..(MaxObjs + 1)
    BY <1>1
  <2>2. CASE j \in 1..fi
    <3>1. i \in 1..fi
      BY <1>1, <1>8, <2>2
    <3>. QED
      BY <1>5, <1>8, <2>2, <3>1 DEF Sums
  <2>3. CASE j = fi + 1 /\ i \in 1..fi
    <3>1. P[i] <= P[fi]
      BY <1>1, <2>3 DEF Sums
    <3>2. P[i] \in Nat /\ P[fi] \in Nat
      BY <1>2, <1>3, <2>1
    <3>. QED
      BY <1>3, <1>5, <2>3, <3>1, <3>2
  <2>4. CASE j = fi + 1 /\ i = fi + 1
    BY <1>4, <1>5, <2>4
  <2>. QED
    BY <1>1, <2>2, <2>3, <2>4
<1>9. Sums(Q, cur, fi + 1)
  <2>1. (fi + 1) - 1 = fi
    BY <1>1
  <2>. QED
    BY <1>6, <1>7, <1>8, <2>1 DEF Sums
<1>. QED
  BY <1>5, <1>9 DEF w

(* The steps that lay nothing out.                                          *)
LEMMA HomeKept ==
  ASSUME HomeInv, UNCHANGED <<prog, objs, gvSize, slots, static, cur>>,
         pc' \in {"dfs", "check", "sum", "assign"} => pc \in {"dfs", "check", "sum", "assign"},
         pc' \notin {"sum", "assign"}, pc # "assign"
  PROVE  HomeInv'
BY DEF HomeInv

LEMMA HomeNextInv ==
  ASSUME PInv, LayoutInv, HomeInv, PassNext
  PROVE  HomeInv'
<1>a. /\ slots \in [Funcs -> [1..MaxObjs -> [off : Nat, size : 0..MaxSize]]]
      /\ objs \in [Funcs -> Seq(Obj)] /\ gvSize \in [Funcs -> Nat] /\ static \subseteq Funcs
      /\ static \subseteq Defined(prog) \ todo
      /\ MaxObjs \in Nat /\ MaxSize \in Nat /\ TotalSize \in Nat /\ Offset \in Nat
  BY ProgramFacts, BoundsAssumption DEF PInv, PassTypeOK, BoundsAssumption
<1>1. CASE PickFunction
  <2>1. PICK f \in todo : cur' = f /\ pc' \in {"check", "dfs"}
    BY <1>1 DEF PickFunction
  <2>2. pc = "pick" /\ UNCHANGED <<prog, objs, gvSize, slots, static>> /\ f \notin static
    BY <1>1, <1>a DEF PickFunction
  <2>. QED
    BY <2>1, <2>2 DEF HomeInv
<1>2. CASE CheckEligible
  <2>1. /\ pc = "check" /\ UNCHANGED <<prog, objs, gvSize, slots, static, cur>>
        /\ pc' = "pick" \/ (pc' = "sum" /\ fi' = 1 /\ TotalSize' = 0)
    BY <1>2 DEF CheckEligible
  <2>2. CASE pc' = "pick"
    BY <2>1, <2>2, HomeKept
  <2>3. CASE pc' = "sum"
    <3>. DEFINE P == [i \in 1..(MaxObjs + 1) |-> 0]
    <3>1. P \in Prefixes /\ P[1] = 0 /\ fi' = 1 /\ TotalSize' = 0
      BY <1>a, <2>1, <2>3 DEF Prefixes
    <3>. HIDE DEF P
    <3>2. Sums(P, cur, fi)' /\ TotalSize' = P[fi']
      BY <3>1 DEF Sums
    <3>3. \E Q \in Prefixes : Sums(Q, cur, fi)' /\ TotalSize' = Q[fi']
      BY <3>1, <3>2
    <3>. QED
      BY <2>1, <2>3, <3>3 DEF HomeInv, Prefixes
  <2>. QED
    BY <2>1, <2>2, <2>3
<1>3. CASE SumObject
  <2>1. /\ pc = "sum" /\ pc' = "sum" /\ UNCHANGED <<prog, objs, gvSize, slots, static, cur>>
        /\ fi <= Len(objs[cur]) /\ fi' = fi + 1
        /\ TotalSize' = IF objs[cur][fi].dead THEN TotalSize ELSE TotalSize + objs[cur][fi].size
    BY <1>3 DEF SumObject
  <2>2. PICK P \in Prefixes : Sums(P, cur, fi) /\ TotalSize = P[fi]
    BY <2>1 DEF HomeInv
  <2>3. PICK Q \in Prefixes : Sums(Q, cur, fi + 1) /\ Q[fi + 1] = P[fi] + Weight(cur, fi)
    BY <2>1, <2>2, SumGrows
  <2>4. TotalSize' = Q[fi']
    BY <1>a, <2>1, <2>2, <2>3 DEF Weight
  <2>5. Sums(Q, cur, fi)'
    BY <2>1, <2>3 DEF Sums, Weight
  <2>. QED
    BY <2>1, <2>4, <2>5 DEF HomeInv, Prefixes
<1>4. CASE CreateGlobal
  <2>1. /\ pc = "sum" /\ UNCHANGED <<prog, objs, slots, static, cur>>
        /\ fi > Len(objs[cur])
        /\ \/ pc' = "pick" /\ gvSize' = gvSize
           \/ pc' = "assign" /\ fi' = 1 /\ Offset' = 0 /\ gvSize' = [gvSize EXCEPT ![cur] = TotalSize]
    BY <1>4 DEF CreateGlobal
  <2>2. CASE pc' = "pick" /\ gvSize' = gvSize
    BY <2>1, <2>2, HomeKept
  <2>3. CASE pc' = "assign" /\ fi' = 1 /\ Offset' = 0 /\ gvSize' = [gvSize EXCEPT ![cur] = TotalSize]
    <3>1. PICK P \in Prefixes : Sums(P, cur, fi) /\ TotalSize = P[fi]
      BY <2>1 DEF HomeInv
    <3>2. fi = Len(objs[cur]) + 1 /\ cur \in Funcs /\ cur \notin static
      BY <2>1, LaidOutFacts DEF HomeInv
    <3>3. gvSize'[cur] = P[Len(objs[cur]) + 1] /\ Offset' = P[fi']
      BY <1>a, <2>1, <2>3, <3>1, <3>2 DEF Sums
    <3>4. Sums(P, cur, Len(objs[cur]) + 1)'
      BY <2>1, <3>1, <3>2 DEF Sums, Weight
    <3>5. \A f \in static : gvSize'[f] = gvSize[f]
      BY <1>a, <2>3, <3>2
    <3>6. \E Q \in Prefixes : /\ Sums(Q, cur, Len(objs[cur]) + 1)'
                             /\ Offset' = Q[fi'] /\ gvSize'[cur'] = Q[Len(objs'[cur']) + 1]
      BY <2>1, <3>3, <3>4
    <3>7. \A i \in 1..(fi' - 1) : FALSE
      BY <2>3
    <3>8. \A f \in static' : \A i \in DOMAIN prog'.objs[f] :
            ~prog'.objs[f][i].dead /\ prog'.objs[f][i].size > 0 =>
              /\ slots'[f][i].size = prog'.objs[f][i].size /\ objs'[f][i].size = 0
              /\ slots'[f][i].off + prog'.objs[f][i].size <= gvSize'[f]
      BY <2>1, <3>5 DEF HomeInv
    <3>9. \A f \in Funcs \ static' : ~(f = cur' /\ pc' = "assign") =>
            \A i \in 1..MaxObjs : slots'[f][i].size = 0
      BY <2>1, <2>3 DEF HomeInv
    <3>. QED
      BY <2>1, <2>3, <3>2, <3>6, <3>7, <3>8, <3>9 DEF HomeInv, Prefixes
  <2>. QED
    BY <2>1, <2>2, <2>3
<1>5. CASE AssignSlot
  <2>. DEFINE o == objs[cur][fi]
  <2>1. /\ pc = "assign" /\ pc' = "assign" /\ fi' = fi + 1
        /\ UNCHANGED <<prog, objs, gvSize, static, cur>>
        /\ fi <= Len(objs[cur])
    BY <1>5 DEF AssignSlot
  <2>2. /\ cur \in Funcs /\ cur \notin static
        /\ fi \in 1..Len(objs[cur]) /\ fi \in 1..MaxObjs /\ fi \in Nat
        /\ o \in Obj
    BY <2>1, LaidOutFacts DEF HomeInv
  <2>3. /\ slots' = IF o.dead \/ o.size = 0 THEN slots
                   ELSE [slots EXCEPT ![cur] = [slots[cur] EXCEPT ![fi] = [off |-> Offset, size |-> o.size]]]
        /\ Offset' = Offset + Weight(cur, fi)
    <3>1. CASE o.dead \/ o.size = 0
      <4>1. Weight(cur, fi) = 0
        BY <2>2, <3>1 DEF Weight
      <4>. QED
        BY <1>5, <1>a, <3>1, <4>1 DEF AssignSlot
    <3>2. CASE ~(o.dead \/ o.size = 0)
      BY <1>5, <3>2 DEF AssignSlot, Weight
    <3>. QED
      BY <3>1, <3>2
  <2>. HIDE DEF o
  <2>4. /\ \A f \in Funcs : f # cur => slots'[f] = slots[f]
        /\ \A i \in 1..MaxObjs : i # fi => slots'[cur][i] = slots[cur][i]
        /\ ~o.dead /\ o.size # 0 => slots'[cur][fi].size = o.size
        /\ o.dead \/ o.size = 0 => slots'[cur][fi] = slots[cur][fi]
    BY <1>a, <2>2, <2>3
  <2>5. PICK P \in Prefixes : /\ Sums(P, cur, Len(objs[cur]) + 1)
                             /\ Offset = P[fi] /\ gvSize[cur] = P[Len(objs[cur]) + 1]
    BY <2>1 DEF HomeInv
  <2>6. Offset' = P[fi']
    BY <2>1, <2>2, <2>3, <2>5 DEF Sums
  <2>7. \E Q \in Prefixes : /\ Sums(Q, cur, Len(objs[cur]) + 1)'
                           /\ Offset' = Q[fi'] /\ gvSize'[cur'] = Q[Len(objs'[cur']) + 1]
    <3>1. Sums(P, cur, Len(objs[cur]) + 1)'
      BY <2>1, <2>5 DEF Sums, Weight
    <3>. QED
      BY <2>1, <2>5, <2>6, <3>1
  <2>8. ASSUME NEW i \in 1..(fi' - 1), ~objs[cur][i].dead
        PROVE  slots'[cur][i].size = objs[cur][i].size
    <3>1. CASE i = fi /\ o.size # 0
      BY <2>4, <2>8, <3>1 DEF o
    <3>2. CASE i = fi /\ o.size = 0
      <4>1. slots[cur][fi].size = 0
        BY <2>1, <2>2 DEF LayoutInv
      <4>. QED
        BY <2>4, <3>2, <4>1 DEF o
    <3>3. CASE i # fi
      <4>1. i \in 1..(fi - 1) /\ i \in 1..MaxObjs
        BY <1>a, <2>1, <2>2, <3>3
      <4>. QED
        BY <2>1, <2>4, <2>8, <3>3, <4>1 DEF HomeInv
    <3>. QED
      BY <3>1, <3>2, <3>3
  <2>9. \A f \in static' : \A i \in DOMAIN prog'.objs[f] :
            ~prog'.objs[f][i].dead /\ prog'.objs[f][i].size > 0 =>
              /\ slots'[f][i].size = prog'.objs[f][i].size /\ objs'[f][i].size = 0
              /\ slots'[f][i].off + prog'.objs[f][i].size <= gvSize'[f]
    <3>1. \A f \in static : f \in Funcs /\ f # cur
      BY <1>a, <2>2
    <3>2. \A f \in static : slots'[f] = slots[f]
      BY <2>4, <3>1
    <3>. QED
      BY <2>1, <3>2 DEF HomeInv
  <2>10. \A f \in Funcs \ static' : ~(f = cur' /\ pc' = "assign") =>
            \A i \in 1..MaxObjs : slots'[f][i].size = 0
    BY <2>1, <2>4 DEF HomeInv
  <2>. QED
    BY <2>1, <2>2, <2>7, <2>8, <2>9, <2>10 DEF HomeInv, Prefixes
<1>6. CASE FinishFunction
  <2>. DEFINE zeroed == [i \in DOMAIN objs[cur] |-> IF objs[cur][i].dead THEN objs[cur][i]
                                                   ELSE [objs[cur][i] EXCEPT !.size = 0]]
  <2>1. /\ pc = "assign" /\ pc' = "pick" /\ fi > Len(objs[cur])
        /\ UNCHANGED <<prog, gvSize, slots, cur>>
        /\ static' = static \cup {cur}
        /\ objs' = [objs EXCEPT ![cur] = zeroed]
    BY <1>6 DEF FinishFunction
  <2>2. /\ cur \in Funcs /\ cur \notin static /\ fi = Len(objs[cur]) + 1
        /\ Len(objs[cur]) \in 0..MaxObjs /\ DOMAIN objs[cur] = 1..Len(objs[cur])
        /\ objs[cur] = prog.objs[cur]
        /\ \A i \in 1..Len(objs[cur]) : objs[cur][i] \in Obj
    BY <1>a, <2>1, LaidOutFacts DEF HomeInv
  <2>3. /\ \A f \in Funcs : f # cur => objs'[f] = objs[f]
        /\ objs'[cur] = zeroed
    BY <1>a, <2>1, <2>2
  <2>4. \A i \in 1..Len(objs[cur]) : ~objs[cur][i].dead => zeroed[i].size = 0
    BY <2>2 DEF Obj
  <2>. HIDE DEF zeroed
  <2>5. PICK P \in Prefixes : /\ Sums(P, cur, Len(objs[cur]) + 1)
                             /\ Offset = P[fi] /\ gvSize[cur] = P[Len(objs[cur]) + 1]
    BY <2>1 DEF HomeInv
  <2>6. Offset = gvSize[cur]
    BY <2>2, <2>5
  <2>7. ASSUME NEW i \in 1..Len(objs[cur]), ~objs[cur][i].dead, objs[cur][i].size > 0
        PROVE  /\ slots[cur][i].size = objs[cur][i].size
               /\ slots[cur][i].off + objs[cur][i].size <= gvSize[cur]
    <3>1. i \in 1..(fi - 1) /\ i \in 1..MaxObjs
      BY <1>a, <2>2
    <3>2. slots[cur][i].size = objs[cur][i].size
      BY <2>1, <2>7, <3>1 DEF HomeInv
    <3>3. slots[cur][i].off + slots[cur][i].size <= Offset
      BY <2>1, <2>7, <3>1, <3>2 DEF LayoutInv
    <3>. QED
      BY <2>6, <3>2, <3>3
  <2>8. \A f \in static' : \A i \in DOMAIN prog'.objs[f] :
            ~prog'.objs[f][i].dead /\ prog'.objs[f][i].size > 0 =>
              /\ slots'[f][i].size = prog'.objs[f][i].size /\ objs'[f][i].size = 0
              /\ slots'[f][i].off + prog'.objs[f][i].size <= gvSize'[f]
    <3>. SUFFICES ASSUME NEW f \in static', NEW i \in DOMAIN prog.objs[f],
                         ~prog.objs[f][i].dead, prog.objs[f][i].size > 0
                  PROVE  /\ slots[f][i].size = prog.objs[f][i].size /\ objs'[f][i].size = 0
                         /\ slots[f][i].off + prog.objs[f][i].size <= gvSize[f]
      BY <2>1
    <3>1. CASE f = cur
      BY <2>2, <2>3, <2>4, <2>7, <3>1
    <3>2. CASE f # cur
      <4>1. f \in static /\ f \in Funcs
        BY <1>a, <2>1, <3>2
      <4>. QED
        BY <2>3, <3>2, <4>1 DEF HomeInv
    <3>. QED
      BY <3>1, <3>2
  <2>9. \A f \in Funcs \ static' : objs'[f] = prog'.objs[f]
    BY <2>1, <2>3 DEF HomeInv
  <2>10. \A f \in Funcs \ static' : \A i \in 1..MaxObjs : slots'[f][i].size = 0
    BY <2>1 DEF HomeInv
  <2>. QED
    BY <2>1, <2>8, <2>9, <2>10 DEF HomeInv
<1>7. ASSUME ~PickFunction, ~CheckEligible, ~SumObject, ~CreateGlobal, ~AssignSlot, ~FinishFunction
      PROVE  /\ UNCHANGED <<prog, objs, gvSize, slots, static, cur>>
             /\ pc' \notin {"sum", "assign"} /\ pc # "assign"
             /\ pc' \in {"dfs", "check", "sum", "assign"} => pc \in {"dfs", "check", "sum", "assign"}
  BY <1>7 DEF PassNext, SeedInterrupts, BfsStep, BfsDone, DfsSkip, DfsEnter, DfsReject,
     DfsReturn, DfsAccept, DfsAtSite, PassDone
<1>. QED
  BY <1>1, <1>2, <1>3, <1>4, <1>5, <1>6, <1>7, HomeKept

-----------------------------------------------------------------------------
(* The pass as a whole.                                                     *)

CompileInv ==
  /\ PInv
  /\ BfsInv
  /\ DfsInv
  /\ EvidenceSound
  /\ StaticInv
  /\ LayoutInv
  /\ HomeInv

LEMMA CompileInitInv == PassInit => CompileInv
<1>1. PassInit => EvidenceSound
  BY DEF PassInit, EvidenceSound
<1>. QED
  BY <1>1, PassInitInv, BfsInitInv, DfsInitInv, StaticInitInv, LayoutInitInv,
     HomeInitInv DEF CompileInv

LEMMA CompileNextInv == CompileInv /\ PassNext => CompileInv'
BY PassNextInv, BfsNextInv, DfsNextInv, EvidenceNextInv, StaticNextInv, LayoutNextInv,
   HomeNextInv DEF CompileInv

LEMMA CompileStutterInv == CompileInv /\ UNCHANGED <<prog, passVars>> => CompileInv'
<1>. SUFFICES ASSUME CompileInv, UNCHANGED <<prog, passVars>> PROVE CompileInv'
  OBVIOUS
<1>1. UNCHANGED <<prog, pc, InterruptReachable, worklist, todo, cur, next, path, objs, fi,
                  TotalSize, Offset, gvSize, slots, static>>
  BY DEF passVars
<1>2. PInv'
  BY <1>1 DEF CompileInv, PInv, PassTypeOK
<1>3. BfsInv'
  BY <1>1 DEF CompileInv, BfsInv
<1>4. DfsInv'
  <2>1. \A s : Handled(s)' <=> Handled(s)
    BY <1>1 DEF Handled
  <2>. QED
    BY <1>1, <2>1 DEF CompileInv, DfsInv
<1>5. EvidenceSound' /\ StaticInv'
  BY <1>1 DEF CompileInv, EvidenceSound, StaticInv
<1>6. LayoutInv'
  BY <1>1 DEF CompileInv, LayoutInv, SlotsDisjoint
<1>7. HomeInv'
  <2>1. \A P, f, n : Sums(P, f, n) => Sums(P, f, n)'
    BY <1>1 DEF Sums, Weight
  <2>. QED
    BY <1>1, <2>1 DEF CompileInv, HomeInv, Prefixes
<1>. QED
  BY <1>2, <1>3, <1>4, <1>5, <1>6, <1>7 DEF CompileInv

-----------------------------------------------------------------------------
(* The pass compiles one program.                                           *)
LEMMA SameProgram == PassNext => prog' = prog
BY DEF PassNext, SeedInterrupts, BfsStep, BfsDone, PickFunction, DfsSkip, DfsEnter, DfsReject,
   DfsReturn, DfsAccept, DfsAtSite, CheckEligible, SumObject, CreateGlobal, AssignSlot,
   FinishFunction, PassDone

-----------------------------------------------------------------------------
(* The pass and the running program.                                        *)

IInv == CompileInv /\ StackInv /\ (pc # "run" => stack = <<>>)

LEMMA InitInv == Init => IInv
<1>. SUFFICES ASSUME Init PROVE IInv
  OBVIOUS
<1>1. CompileInv
  BY CompileInitInv DEF Init
<1>2. StackInv
  BY StackInitInv DEF Init, PassInit
<1>. QED
  BY <1>1, <1>2 DEF IInv, Init, RunInit

LEMMA NextInv ==
  ASSUME IInv, [Next]_vars
  PROVE  IInv'
<1>1. CASE CompileStep
  <2>1. PassNext /\ pc # "run" /\ UNCHANGED <<stack, inte, mem>>
    BY <1>1 DEF CompileStep, runVars
  <2>2. CompileInv'
    BY <2>1, CompileNextInv DEF IInv
  <2>3. prog' = prog
    BY <2>1, SameProgram
  <2>. QED
    BY <2>1, <2>2, <2>3, StackStutterInv DEF IInv
<1>2. CASE UNCHANGED vars
  <2>1. UNCHANGED <<prog, passVars>> /\ UNCHANGED <<prog, pc, stack, inte, mem>>
    BY <1>2 DEF vars, passVars, runVars
  <2>. QED
    BY <2>1, CompileStutterInv, StackStutterInv DEF IInv
<1>3. CASE RunStep
  <2>1. RunNext(static, slots) /\ pc = "run" /\ UNCHANGED passVars
    BY <1>3 DEF RunStep
  <2>2. prog' = prog
    BY <2>1 DEF RunNext, Start, Call, Return, Interrupt, SetInte, StoreObject
  <2>3. pc' = pc /\ UNCHANGED <<prog, passVars>>
    BY <2>1, <2>2 DEF passVars
  <2>4. CompileInv'
    BY <2>3, CompileStutterInv DEF IInv
  <2>5. StackInv'
    BY <2>1, StackNextInv DEF IInv
  <2>. QED
    BY <2>1, <2>3, <2>4, <2>5 DEF IInv
<1>. QED
  BY <1>1, <1>2, <1>3 DEF Next
-----------------------------------------------------------------------------
(* Type correctness: every variable of the pass and of the running program  *)
(* keeps its type, for every set of well-formed programs.                   *)
THEOREM TypeCorrect == Spec => []TypeOK
<1>1. Init => IInv
  BY InitInv
<1>2. IInv /\ [Next]_vars => IInv'
  BY NextInv
<1>3. IInv => TypeOK
  BY DEF IInv, CompileInv, PInv, StackInv, TypeOK
<1>. QED
  BY <1>1, <1>2, <1>3, PTL DEF Spec

LEMMA Invariance == Spec => []IInv
BY InitInv, NextInv, PTL DEF Spec

(* The search from the interrupt handlers is closed when it ends, for every *)
(* module (analyzeInterruptReachability).                                   *)
THEOREM SearchClosed == Spec => []InterruptClosure
<1>1. IInv => InterruptClosure
  BY BfsImpliesClosure DEF IInv, CompileInv
<1>. QED
  BY <1>1, Invariance, PTL

(* A function that is laid out cannot come back to itself, whichever the    *)
(* evidence (hasNoCallbackEvidenceImpl).                                    *)
THEOREM EvidenceIsSound == Spec => []EvidenceSound
<1>1. IInv => EvidenceSound
  BY DEF IInv, CompileInv
<1>. QED
  BY <1>1, Invariance, PTL

(* No two objects of a static frame share a byte (the second layout loop of *)
(* runOnMachineFunction).                                                   *)
THEOREM SlotsNeverOverlap == Spec => []SlotsDisjoint
<1>1. IInv => SlotsDisjoint
  BY DEF IInv, CompileInv, LayoutInv
<1>. QED
  BY <1>1, Invariance, PTL

(* Every live object has one home: the two loops of runOnMachineFunction    *)
(* add up the same bytes, and a function is laid out whole or not at all.   *)
THEOREM ObjectsHaveOneHome == Spec => []OneHome
<1>1. IInv => OneHome
  BY HomeImpliesOneHome DEF IInv, CompileInv
<1>. QED
  BY <1>1, Invariance, PTL

(* In a state of the invariant no static function is live twice, provided   *)
(* the interrupt handlers of the program are closed.                        *)
LEMMA NotReenteredState ==
  ASSUME IInv, \A p \in Programs : ClosedInterrupts(p)
  PROVE  StaticNotReentered
<1>. SUFFICES ASSUME NEW f \in static PROVE f \notin prog.reach[f] /\ (stack = <<>> \/ ~FromHandler(f))
  <2>1. CASE stack = <<>>
    BY <2>1 DEF StaticNotReentered, NotReenteredIn
  <2>2. CASE stack # <<>>
    BY <2>2, NotReenteredStack DEF IInv, StaticNotReentered
  <2>. QED
    BY <2>1, <2>2
<1>1. f \notin prog.reach[f] /\ f \notin InterruptReachable /\ f \in Defined(prog)
  BY DEF IInv, CompileInv, PInv, PassTypeOK, StaticInv
<1>2. ASSUME stack # <<>> PROVE ~FromHandler(f)
  <2>1. pc = "run"
    BY <1>2 DEF IInv
  <2>2. /\ InterruptReachable \in SUBSET Funcs
        /\ prog.isrAttr \subseteq InterruptReachable
        /\ \A x \in InterruptReachable : VisibleCallees(prog, x) \subseteq InterruptReachable
    BY <2>1 DEF IInv, CompileInv, PInv, PassTypeOK, BfsInv
  <2>3. ClosedInterrupts(prog)
    BY DEF IInv, CompileInv, PInv
  <2>. QED
    BY <1>1, <2>2, <2>3, OutsideHandlers
<1>. QED
  BY <1>1, <1>2

(* A function with a static frame is never re-entered while a previous      *)
(* activation is live (V6ClangStaticStackAlloc.cpp, hasNoCallbackEvidence), *)
(* for every program whose attributes are true and whose interrupt          *)
(* handlers are all marked and reach only functions the search can see.     *)
THEOREM NotReentered ==
  ASSUME \A p \in Programs : ClosedInterrupts(p)
  PROVE  Spec => []StaticNotReentered
<1>1. Init => IInv
  BY InitInv
<1>2. IInv /\ [Next]_vars => IInv'
  BY NextInv
<1>3. IInv => StaticNotReentered
  BY NotReenteredState
<1>. QED
  BY <1>1, <1>2, <1>3, PTL DEF Spec

-----------------------------------------------------------------------------
(* The contents of the static frames.                                       *)

LEMMA FramesInit == Init => FramesIntact
BY DEF Init, RunInit, FramesIntact, FramesIntactIn

(* The objects of every static frame are apart.                             *)
LEMMA SlotsApart ==
  ASSUME IInv
  PROVE  ApartIn(static, slots)
<1>1. slots \in [Funcs -> [1..MaxObjs -> [off : Nat, size : 0..MaxSize]]] /\ MaxSize \in Nat
  BY BoundsAssumption DEF IInv, CompileInv, PInv, PassTypeOK, BoundsAssumption
<1>2. SlotsDisjoint /\ static \subseteq Funcs
  BY ProgramFacts DEF IInv, CompileInv, PInv, PassTypeOK, LayoutInv
<1>3. ASSUME NEW f \in static, NEW i \in 1..MaxObjs, NEW j \in 1..MaxObjs, i # j,
             slots[f][j].size > 0, NEW b \in Bytes(slots[f][i]), b \in Bytes(slots[f][j])
      PROVE  FALSE
  <2>1. slots[f][i] \in [off : Nat, size : 0..MaxSize] /\ slots[f][j] \in [off : Nat, size : 0..MaxSize]
    BY <1>1, <1>2
  <2>2. /\ slots[f][i].off \in Nat /\ slots[f][i].size \in Nat
        /\ slots[f][j].off \in Nat /\ slots[f][j].size \in Nat
    BY <1>1, <2>1
  <2>3. /\ b \in Int
        /\ b >= slots[f][i].off /\ b < slots[f][i].off + slots[f][i].size
        /\ b >= slots[f][j].off /\ b < slots[f][j].off + slots[f][j].size
    BY <1>3, <2>2 DEF Bytes
  <2>4. slots[f][i].size > 0
    BY <2>2, <2>3
  <2>5. ~Overlap(slots[f][i], slots[f][j])
    BY <1>2, <1>3, <2>4 DEF SlotsDisjoint
  <2>. QED
    BY <2>2, <2>3, <2>5 DEF Overlap
<1>. QED
  BY <1>3 DEF ApartIn

LEMMA FramesKeptNext ==
  ASSUME IInv, StaticNotReentered, FramesIntact, [Next]_vars
  PROVE  FramesIntact'
<1>1. CASE CompileStep
  <2>1. stack' = <<>>
    BY <1>1 DEF CompileStep, runVars, IInv
  <2>. QED
    BY <2>1 DEF FramesIntact, FramesIntactIn
<1>2. CASE UNCHANGED vars
  BY <1>2 DEF vars, passVars, runVars, FramesIntact, FramesIntactIn
<1>3. CASE RunStep
  <2>1. RunNext(static, slots) /\ UNCHANGED <<static, slots>>
    BY <1>3 DEF RunStep, passVars
  <2>2. FramesIntactIn(static, slots) /\ NotReenteredIn(static) /\ ApartIn(static, slots) /\ StackInv
    BY SlotsApart DEF FramesIntact, StaticNotReentered, IInv
  <2>3. \A fns, layout :
          /\ NotReenteredIn(fns) /\ ApartIn(fns, layout)
          /\ FramesIntactIn(fns, layout) /\ RunNext(fns, layout)
          => FramesIntactIn(fns, layout)'
    BY <2>2, FramesNext
  <2>. QED
    BY <2>1, <2>2, <2>3 DEF FramesIntact, FramesIntactIn
<1>. QED
  BY <1>1, <1>2, <1>3 DEF Next

(* What a live activation stored in its static frame is there until that    *)
(* activation stores again, under the same condition on the handlers: the   *)
(* frames of eliminateFrameIndex's static path are as private as the ones   *)
(* on the stack.                                                            *)
THEOREM FramesKept ==
  ASSUME \A p \in Programs : ClosedInterrupts(p)
  PROVE  Spec => []FramesIntact
<1>1. Init => IInv /\ FramesIntact
  BY InitInv, FramesInit
<1>2. IInv /\ FramesIntact /\ [Next]_vars => IInv' /\ FramesIntact'
  BY NextInv, NotReenteredState, FramesKeptNext
<1>. QED
  BY <1>1, <1>2, PTL DEF Spec

-----------------------------------------------------------------------------
(* The program the pass compiled implements one with private frames.  With  *)
(* FramesIntact an activation finds all it stored, so that Calls is read    *)
(* off the stack alone; then each step of the program is a step of          *)
(* PrivateFrames or a stutter.                                              *)
(* A sequence read through a function, element by element.                  *)
Mapped(F, s) == [d \in 1..Len(s) |-> F[s[d]]]

LEMMA MappedElements ==
  ASSUME NEW A, NEW F, NEW s \in Seq(A)
  PROVE  /\ Len(Mapped(F, s)) = Len(s)
         /\ \A d \in 1..Len(s) : Mapped(F, s)[d] = F[s[d]]
<1>1. Len(s) \in Nat
  BY LenProperties
<1>. QED
  BY <1>1 DEF Mapped

LEMMA MappedType ==
  ASSUME NEW A, NEW B, NEW F, NEW s \in Seq(A), \A x \in A : F[x] \in B
  PROVE  Mapped(F, s) \in Seq(B)
<1>1. Len(s) \in Nat /\ \A d \in 1..Len(s) : s[d] \in A
  BY LenProperties
<1>2. Mapped(F, s) \in [1..Len(s) -> B]
  BY <1>1 DEF Mapped
<1>. QED
  BY <1>1, <1>2

LEMMA MappedAppend ==
  ASSUME NEW A, NEW F, NEW s \in Seq(A), NEW a \in A
  PROVE  Mapped(F, Append(s, a)) = Append(Mapped(F, s), F[a])
<1>. DEFINE B == {F[x] : x \in A}
            n == Len(s)
            t == Append(s, a)
            m == Mapped(F, s)
<1>1. /\ t \in Seq(A) /\ Len(t) = n + 1
      /\ \A d \in 1..n : t[d] = s[d]
      /\ t[n + 1] = a
  BY AppendProperties
<1>2. m \in Seq(B) /\ Len(m) = n /\ \A d \in 1..n : m[d] = F[s[d]]
  BY MappedType, MappedElements
<1>. HIDE DEF t, m
<1>3. /\ Mapped(F, t) \in Seq(B) /\ Len(Mapped(F, t)) = n + 1
      /\ \A d \in 1..(n + 1) : Mapped(F, t)[d] = F[t[d]]
  BY <1>1, MappedType, MappedElements
<1>4. /\ Append(m, F[a]) \in Seq(B)
      /\ Len(Append(m, F[a])) = n + 1
      /\ \A d \in 1..n : Append(m, F[a])[d] = m[d]
      /\ Append(m, F[a])[n + 1] = F[a]
  BY <1>2, AppendProperties
<1>5. n \in Nat /\ \A d \in 1..(n + 1) : d \in 1..n \/ d = n + 1
  BY LenProperties
<1>6. \A d \in 1..(n + 1) : Mapped(F, t)[d] = Append(m, F[a])[d]
  BY <1>1, <1>2, <1>3, <1>4, <1>5
<1>7. Mapped(F, t) = Append(m, F[a])
  BY <1>3, <1>4, <1>6, SeqEqual
<1>. QED
  BY <1>7 DEF t, m

LEMMA MappedPrefix ==
  ASSUME NEW A, NEW F, NEW s \in Seq(A), Len(s) > 1
  PROVE  Mapped(F, SubSeq(s, 1, Len(s) - 1)) = SubSeq(Mapped(F, s), 1, Len(s) - 1)
<1>. DEFINE B == {F[x] : x \in A}
            n == Len(s)
            t == SubSeq(s, 1, n - 1)
            m == Mapped(F, s)
<1>1. n \in Nat /\ \A d \in 1..n : s[d] \in A
  BY LenProperties
<1>2. \A d \in 1..n - 1 : d \in 1..n /\ 1 + d - 1 = d
  BY <1>1
<1>3. t \in Seq(A) /\ Len(t) = n - 1 /\ \A d \in 1..n - 1 : t[d] = s[d]
  BY <1>1, <1>2
<1>. HIDE DEF t
<1>4. m \in Seq(B) /\ Len(m) = n /\ \A d \in 1..n : m[d] = F[s[d]]
  <2>1. m \in Seq(B)
    BY MappedType
  <2>2. Len(m) = n /\ \A d \in 1..n : m[d] = F[s[d]]
    BY MappedElements
  <2>. HIDE DEF m
  <2>. QED
    BY <2>1, <2>2
<1>. HIDE DEF m
<1>5. /\ Mapped(F, t) \in Seq(B) /\ Len(Mapped(F, t)) = n - 1
      /\ \A d \in 1..n - 1 : Mapped(F, t)[d] = F[t[d]]
  BY <1>3, MappedType, MappedElements
<1>6. /\ SubSeq(m, 1, n - 1) \in Seq(B) /\ Len(SubSeq(m, 1, n - 1)) = n - 1
      /\ \A d \in 1..n - 1 : SubSeq(m, 1, n - 1)[d] = m[d]
  <2>1. \A d \in 1..n - 1 : m[d] \in B
    BY <1>1, <1>2, <1>4, ElementOfSeq
  <2>2. /\ SubSeq(m, 1, n - 1) \in Seq(B) /\ Len(SubSeq(m, 1, n - 1)) = n - 1
        /\ \A d \in 1..(n - 1) - 1 + 1 : SubSeq(m, 1, n - 1)[d] = m[1 + d - 1]
    <3>. HIDE DEF n
    <3>1. n - 1 \in Int /\ 1 <= n - 1 /\ (n - 1) - 1 + 1 = n - 1
      BY <1>1 DEF n
    <3>. QED
      BY <2>1, <3>1, SubSeqProperties
  <2>. QED
    BY <1>1, <1>2, <2>2
<1>7. \A d \in 1..n - 1 : Mapped(F, t)[d] = SubSeq(m, 1, n - 1)[d]
  <2>. HIDE DEF n
  <2>. SUFFICES ASSUME NEW d \in 1..n - 1
                PROVE  Mapped(F, t)[d] = SubSeq(m, 1, n - 1)[d]
    OBVIOUS
  <2>1. m[d] = F[s[d]] /\ t[d] = s[d]
    BY <1>2, <1>3, <1>4
  <2>. QED
    BY <1>5, <1>6, <2>1
<1>8. Mapped(F, t) = SubSeq(m, 1, n - 1)
  BY <1>5, <1>6, <1>7, SeqEqual
<1>. QED
  BY <1>8 DEF t, m

-----------------------------------------------------------------------------
Entry == [fn : Funcs, holds : SUBSET (1..MaxObjs)]

Shown == [a \in Act |-> [fn |-> a.fn, holds |-> IF a.fn \in static THEN a.stored ELSE {}]]

LEMMA ShownType == \A a \in Act : Shown[a] \in Entry
BY DEF Shown, Act, Entry

(* An activation finds all it stored.                                       *)
LEMMA AllFound ==
  ASSUME IInv, FramesIntact
  PROVE  Calls = Mapped(Shown, stack)
<1>1. stack \in Seq(Act)
  BY DEF IInv, StackInv, RunTypeOK, Act
<1>2. ASSUME NEW d \in 1..Len(stack), stack[d].fn \in static
      PROVE  Found(d) = stack[d].stored
  BY <1>2 DEF Found, FramesIntact, FramesIntactIn
<1>3. \A d \in 1..Len(stack) : stack[d] \in Act
  BY <1>1, ElementOfSeq
<1>. QED
  BY <1>2, <1>3 DEF Calls, Mapped, Shown

LEMMA AllFoundNext ==
  ASSUME IInv', FramesIntact'
  PROVE  Calls' = Mapped(Shown', stack')
<1>1. stack' \in Seq(Act)
  BY DEF IInv, StackInv, RunTypeOK, Act
<1>2. ASSUME NEW d \in 1..Len(stack'), stack'[d].fn \in static'
      PROVE  Found(d)' = stack'[d].stored
  BY <1>2 DEF Found, FramesIntact, FramesIntactIn
<1>3. \A d \in 1..Len(stack') : stack'[d] \in Act
  BY <1>1, ElementOfSeq
<1>. QED
  BY <1>2, <1>3 DEF Calls, Mapped, Shown

(* Every step of the program is one of the private frames, or none.         *)
LEMMA PrivateStep ==
  ASSUME IInv, IInv', FramesIntact, FramesIntact', [Next]_vars
  PROVE  [Private!Next]_Calls
<1>. DEFINE n == Len(stack)
            m == Mapped(Shown, stack)
<1>1. /\ stack \in Seq(Act) /\ n \in Nat
      /\ stack' \in Seq(Act)
  BY LenProperties DEF IInv, StackInv, RunTypeOK, Act
<1>2. Calls = m /\ Calls' = Mapped(Shown', stack')
  BY AllFound, AllFoundNext
<1>3. m \in Seq(Entry) /\ Len(m) = n /\ \A d \in 1..n : m[d] = Shown[stack[d]]
  <2>1. m \in Seq(Entry)
    BY <1>1, ShownType, MappedType
  <2>2. Len(m) = n /\ \A d \in 1..n : m[d] = Shown[stack[d]]
    BY <1>1, MappedElements
  <2>. QED
    BY <2>1, <2>2
<1>4. static' = static => Shown' = Shown
  BY DEF Shown
<1>5. CASE CompileStep
  <2>1. stack = <<>> /\ stack' = <<>>
    BY <1>5 DEF CompileStep, runVars, IInv
  <2>. QED
    BY <2>1 DEF Calls
<1>6. CASE UNCHANGED vars
  <2>1. stack' = stack /\ static' = static
    BY <1>6 DEF vars, passVars, runVars
  <2>. QED
    BY <1>2, <1>4, <2>1
<1>7. CASE RunStep
  <2>1. static' = static /\ RunNext(static, slots)
    BY <1>7 DEF RunStep, passVars
  <2>2. ASSUME NEW f \in Funcs, NEW q \in BOOLEAN, stack' = Append(stack, Activation(f, q))
        PROVE  Private!Enter
    <3>1. Activation(f, q) \in Act
      BY DEF Activation, Act
    <3>2. Shown[Activation(f, q)] = [fn |-> f, holds |-> {}]
      BY <3>1 DEF Shown, Activation
    <3>3. Calls' = Append(m, Shown[Activation(f, q)])
      BY <1>1, <1>2, <1>4, <2>1, <2>2, <3>1, MappedAppend
    <3>. QED
      BY <1>2, <3>2, <3>3 DEF Private!Enter
  <2>3. CASE Start
    <3>1. stack' = Append(stack, Activation(prog.main, FALSE))
      <4>1. \A x : <<x>> = Append(<<>>, x)
        OBVIOUS
      <4>. QED
        BY <2>3, <4>1 DEF Start
    <3>2. prog.main \in Funcs
      BY ProgramFacts DEF IInv, CompileInv, PInv, Defined
    <3>. QED
      BY <2>2, <3>1, <3>2 DEF Private!Next
  <2>4. CASE Call
    <3>1. PICK f \in Targets(prog, Running) : stack' = Append(stack, Activation(f, FALSE))
      BY <2>4 DEF Call
    <3>2. f \in Funcs
      BY <3>1 DEF Targets, SiteTargets
    <3>. QED
      BY <2>2, <3>1, <3>2 DEF Private!Next
  <2>5. CASE Interrupt
    <3>1. PICK f \in prog.handlers : stack' = Append(stack, Activation(f, TRUE))
      BY <2>5 DEF Interrupt
    <3>2. f \in Funcs
      BY <3>1, ProgramFacts DEF IInv, CompileInv, PInv
    <3>. QED
      BY <2>2, <3>1, <3>2 DEF Private!Next
  <2>6. CASE Return
    <3>1. n > 1 /\ stack' = SubSeq(stack, 1, n - 1)
      BY <2>6 DEF Return
    <3>2. Calls' = SubSeq(m, 1, n - 1)
      BY <1>1, <1>2, <1>4, <2>1, <3>1, MappedPrefix
    <3>. QED
      BY <1>2, <1>3, <3>1, <3>2 DEF Private!Leave, Private!Next
  <2>7. CASE SetInte
    BY <1>2, <1>4, <2>1, <2>7 DEF SetInte
  <2>8. CASE StoreObject(static, slots)
    <3>1. PICK i \in 1..MaxObjs :
            stack' = [stack EXCEPT ![n] = [stack[n] EXCEPT !.stored = @ \cup {i}]]
      BY <2>8 DEF StoreObject
    <3>2. stack # <<>> /\ stack[n].fn \in static
      BY <2>8 DEF StoreObject, Running
    <3>3. n \in 1..n /\ stack[n] \in Act
      BY <1>1, <3>2, ElementOfSeq
    <3>. DEFINE top == [stack[n] EXCEPT !.stored = @ \cup {i}]
    <3>4. /\ top \in Act
          /\ Shown[top] = [Shown[stack[n]] EXCEPT !.holds = @ \cup {i}]
          /\ Shown[top] \in Entry
      <4>1. top \in Act /\ top.fn = stack[n].fn /\ top.stored = stack[n].stored \cup {i}
        BY <3>3 DEF Act
      <4>2. /\ Shown[stack[n]] = [fn |-> stack[n].fn, holds |-> stack[n].stored]
            /\ Shown[top] = [fn |-> stack[n].fn, holds |-> stack[n].stored \cup {i}]
        <5>. HIDE DEF top
        <5>. QED
          BY <3>2, <3>3, <4>1 DEF Shown
      <4>. HIDE DEF top
      <4>3. [Shown[stack[n]] EXCEPT !.holds = @ \cup {i}] = Shown[top]
        <5>1. \A f, h : [[fn |-> f, holds |-> h] EXCEPT !.holds = @ \cup {i}]
                           = [fn |-> f, holds |-> h \cup {i}]
          OBVIOUS
        <5>. QED
          BY <4>2, <5>1, Zenon
      <4>4. Shown[top] \in Entry
        BY <4>1, ShownType
      <4>. QED
        BY <4>1, <4>3, <4>4
    <3>. HIDE DEF top
    <3>5. /\ Len(stack') = n
          /\ \A d \in 1..n : stack'[d] = IF d = n THEN top ELSE stack[d]
      BY <1>1, <3>1, <3>3, <3>4, ExceptSeq DEF top
    <3>6. /\ Calls' \in Seq(Entry) /\ Len(Calls') = n
          /\ \A d \in 1..n : Calls'[d] = Shown[stack'[d]]
      BY <1>1, <1>2, <1>4, <2>1, <3>5, ShownType, MappedType, MappedElements
    <3>7. /\ [m EXCEPT ![n] = Shown[top]] \in Seq(Entry)
          /\ Len([m EXCEPT ![n] = Shown[top]]) = n
          /\ \A d \in 1..n : [m EXCEPT ![n] = Shown[top]][d] = IF d = n THEN Shown[top] ELSE m[d]
      BY <1>3, <3>3, <3>4, ExceptSeq
    <3>8. Calls' = [m EXCEPT ![n] = Shown[top]]
      <4>. DEFINE changed == [m EXCEPT ![n] = Shown[top]]
      <4>1. Calls' \in Seq(Entry) /\ changed \in Seq(Entry) /\ Len(Calls') = Len(changed)
        BY <3>6, <3>7
      <4>2. ASSUME NEW d \in 1..Len(Calls') PROVE Calls'[d] = changed[d]
        <5>1. d \in 1..n
          BY <3>6
        <5>2. Calls'[d] = Shown[IF d = n THEN top ELSE stack[d]]
          BY <3>5, <3>6, <5>1
        <5>3. changed[d] = IF d = n THEN Shown[top] ELSE Shown[stack[d]]
          BY <1>3, <3>7, <5>1
        <5>. QED
          BY <5>2, <5>3
      <4>. HIDE DEF changed
      <4>3. Calls' = changed
        BY <4>1, <4>2, SeqEqual
      <4>. QED
        BY <4>3 DEF changed
    <3>9. Calls' = [m EXCEPT ![n] = [m[n] EXCEPT !.holds = @ \cup {i}]]
      BY <1>3, <3>3, <3>4, <3>8
    <3>10. Calls # <<>> /\ Len(Calls) = n
      BY <1>2, <1>3, <3>3
    <3>. QED
      BY <1>2, <3>9, <3>10 DEF Private!Store, Private!Next
  <2>. QED
    BY <2>1, <2>3, <2>4, <2>5, <2>6, <2>7, <2>8 DEF RunNext
<1>. QED
  BY <1>5, <1>6, <1>7 DEF Next

(* With frames that are shared by all activations of a function the program *)
(* does what it does with a frame for each activation, when every handler   *)
(* is marked and calls only functions the search can see: what              *)
(* V6ClangStaticStackAlloc.cpp calls safe to allocate statically.           *)
THEOREM StaticIsPrivate ==
  ASSUME \A p \in Programs : ClosedInterrupts(p)
  PROVE  Spec => ImplementsPrivate
<1>1. Init => Private!Init
  BY DEF Init, RunInit, Private!Init, Calls
<1>2. Init => IInv /\ FramesIntact
  BY InitInv, FramesInit
<1>3. IInv /\ FramesIntact /\ [Next]_vars => IInv' /\ FramesIntact'
  BY NextInv, NotReenteredState, FramesKeptNext
<1>4. IInv /\ FramesIntact /\ IInv' /\ FramesIntact' /\ [Next]_vars => [Private!Next]_Calls
  BY PrivateStep
<1>. QED
  BY <1>1, <1>2, <1>3, <1>4, PTL DEF Spec, ImplementsPrivate, Private!Spec
=============================================================================
