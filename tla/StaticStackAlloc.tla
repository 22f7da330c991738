---------------------------- MODULE StaticStackAlloc ----------------------------
(***************************************************************************)
(* V6ClangStaticStackAlloc: the machine-function pass that gives a function *)
(* a frame at a fixed address, __v6clang_ss.F, instead of one on the stack. *)
(* The first function it runs on makes it search the module from the        *)
(* functions marked "interrupt"; then each function in turn is looked at,   *)
(* its non-reentrancy argued from attributes or by a depth-first search of  *)
(* its callees, and its frame objects are given consecutive offsets.        *)
(* One action per loop iteration or early return.  The search queue is a    *)
(* set and the functions come in any order: what is computed depends on     *)
(* neither.                                                                 *)
(***************************************************************************)
EXTENDS CallGraph

VARIABLES
  pc,         \* where the pass is
  InterruptReachable,
  worklist,
  todo,       \* functions the pass has not run on yet
  cur,        \* MF's function
  next,       \* hasNoCallbackEvidenceImpl: the next call site of each visited function, 0 if unvisited
  path,       \* and its recursion: the functions being scanned, the innermost last
  objs,       \* MachineFrameInfo: size and deadness of each frame object
  fi,         \* the object index of the two layout loops
  TotalSize,
  Offset,
  gvSize,     \* bytes of __v6clang_ss.F, 0 when there is none
  slots,      \* V6ClangMachineFunctionInfo::StaticSlots and StaticSizes
  static      \* functions for which setStaticStack was called

passVars == <<pc, InterruptReachable, worklist, todo, cur, next, path, objs, fi,
              TotalSize, Offset, gvSize, slots, static>>

Unvisited == [f \in Funcs |-> 0]
NoSlot == [off |-> 0, size |-> 0]

PassInit ==
  /\ prog \in Programs
  /\ pc = "analyze"
  /\ InterruptReachable = {}
  /\ worklist = {}
  /\ todo = Defined(prog)
  /\ cur = NoFunc
  /\ next = Unvisited
  /\ path = <<>>
  /\ objs = prog.objs
  /\ fi = 0
  /\ TotalSize = 0
  /\ Offset = 0
  /\ gvSize = [f \in Funcs |-> 0]
  /\ slots = [f \in Funcs |-> [i \in 1..MaxObjs |-> NoSlot]]
  /\ static = {}

(* The seeds: every function with the "interrupt" attribute.                *)
SeedInterrupts ==
  /\ pc = "analyze"
  /\ InterruptReachable' = prog.isrAttr
  /\ worklist' = prog.isrAttr
  /\ pc' = "bfs"
  /\ UNCHANGED <<prog, todo, cur, next, path, objs, fi, TotalSize, Offset, gvSize,
                 slots, static>>

(* Mutants: a new callee is never searched; a known one is searched again.  *)
BfsStepOneLevel ==
  /\ pc = "bfs"
  /\ \E f \in worklist :
       /\ InterruptReachable' = InterruptReachable \cup VisibleCallees(prog, f)
       /\ worklist' = worklist \ {f}
  /\ UNCHANGED <<prog, pc, todo, cur, next, path, objs, fi, TotalSize, Offset,
                 gvSize, slots, static>>

BfsStepAgain ==
  /\ pc = "bfs"
  /\ \E f \in worklist :
       /\ InterruptReachable' = InterruptReachable \cup VisibleCallees(prog, f)
       /\ worklist' = (worklist \ {f}) \cup VisibleCallees(prog, f)
  /\ UNCHANGED <<prog, pc, todo, cur, next, path, objs, fi, TotalSize, Offset,
                 gvSize, slots, static>>

(* One function off the queue: its direct callees with a body here are      *)
(* inserted, and queued when they are new.                                  *)
BfsStep ==
  /\ pc = "bfs"
  /\ \E f \in worklist :
       LET new == VisibleCallees(prog, f) \ InterruptReachable IN
       /\ InterruptReachable' = InterruptReachable \cup new
       /\ worklist' = (worklist \ {f}) \cup new
  /\ UNCHANGED <<prog, pc, todo, cur, next, path, objs, fi, TotalSize, Offset,
                 gvSize, slots, static>>

BfsDone ==
  /\ pc = "bfs"
  /\ worklist = {}
  /\ pc' = "pick"
  /\ UNCHANGED <<prog, InterruptReachable, worklist, todo, cur, next, path, objs, fi,
                 TotalSize, Offset, gvSize, slots, static>>

(* Mutant: the function is not taken off the list.                          *)
PickFunctionAgain ==
  /\ pc = "pick"
  /\ \E f \in todo :
       /\ cur' = f
       /\ pc' = "check"
  /\ UNCHANGED <<prog, todo, InterruptReachable, worklist, next, path, objs, fi, TotalSize,
                 Offset, gvSize, slots, static>>

(* runOnMachineFunction(f): a norecurse function goes straight to the other *)
(* conditions, any other one has to pass the search first.                  *)
PickFunction ==
  /\ pc = "pick"
  /\ \E f \in todo :
       /\ todo' = todo \ {f}
       /\ cur' = f
       /\ IF f \in prog.noRecurse
          THEN /\ pc' = "check"
               /\ path' = <<>>
               /\ next' = Unvisited
          ELSE /\ pc' = "dfs"
               /\ path' = <<f>>
               /\ next' = [Unvisited EXCEPT ![f] = 1]
  /\ UNCHANGED <<prog, InterruptReachable, worklist, objs, fi, TotalSize, Offset,
                 gvSize, slots, static>>

DfsTop == path[Len(path)]
DfsSite == prog.sites[DfsTop][next[DfsTop]]
DfsAtSite == pc = "dfs" /\ path # <<>> /\ next[DfsTop] <= Len(prog.sites[DfsTop])

(* A call site that cannot transfer control back into F.                    *)
DfsSkip ==
  /\ DfsAtSite
  /\ SafeSite(prog, DfsSite)
  /\ next' = [next EXCEPT ![DfsTop] = @ + 1]
  /\ UNCHANGED <<prog, pc, InterruptReachable, worklist, todo, cur, path, objs, fi,
                 TotalSize, Offset, gvSize, slots, static>>

(* A callee with a body that was not visited yet: search it first.          *)
DfsEnter ==
  /\ DfsAtSite
  /\ ~SafeSite(prog, DfsSite)
  /\ VisibleCall(prog, DfsSite)
  /\ next[DfsSite.callee] = 0
  /\ next' = [next EXCEPT ![DfsTop] = @ + 1, ![DfsSite.callee] = 1]
  /\ path' = Append(path, DfsSite.callee)
  /\ UNCHANGED <<prog, pc, InterruptReachable, worklist, todo, cur, objs, fi,
                 TotalSize, Offset, gvSize, slots, static>>

(* An unknown target, an unmarked declaration, or a function met before: a  *)
(* false that every caller of the recursion passes on.  F is not eligible.  *)
DfsReject ==
  /\ DfsAtSite
  /\ ~SafeSite(prog, DfsSite)
  /\ ~(VisibleCall(prog, DfsSite) /\ next[DfsSite.callee] = 0)
  /\ pc' = "pick"
  /\ UNCHANGED <<prog, InterruptReachable, worklist, todo, cur, next, path, objs, fi,
                 TotalSize, Offset, gvSize, slots, static>>

(* The body is exhausted: true goes back to the caller of the recursion.    *)
DfsReturn ==
  /\ pc = "dfs"
  /\ path # <<>>
  /\ next[DfsTop] > Len(prog.sites[DfsTop])
  /\ path' = SubSeq(path, 1, Len(path) - 1)
  /\ UNCHANGED <<prog, pc, InterruptReachable, worklist, todo, cur, next, objs, fi,
                 TotalSize, Offset, gvSize, slots, static>>

DfsAccept ==
  /\ pc = "dfs"
  /\ path = <<>>
  /\ pc' = "check"
  /\ UNCHANGED <<prog, InterruptReachable, worklist, todo, cur, next, path, objs, fi,
                 TotalSize, Offset, gvSize, slots, static>>

(* Mutant: what interrupt handlers call is not asked.                       *)
EligibleInInterrupts(f) ==
  /\ f \notin prog.isrAttr
  /\ f \notin prog.addrTaken
  /\ \E i \in DOMAIN objs[f] : ~objs[f][i].dead /\ objs[f][i].size > 0

Eligible(f) ==
  /\ f \notin prog.isrAttr
  /\ f \notin InterruptReachable
  /\ f \notin prog.addrTaken
  /\ \E i \in DOMAIN objs[f] : ~objs[f][i].dead /\ objs[f][i].size > 0

CheckEligible ==
  /\ pc = "check"
  /\ IF Eligible(cur)
     THEN pc' = "sum" /\ fi' = 1 /\ TotalSize' = 0
     ELSE pc' = "pick" /\ UNCHANGED <<fi, TotalSize>>
  /\ UNCHANGED <<prog, InterruptReachable, worklist, todo, cur, next, path, objs,
                 Offset, gvSize, slots, static>>

(* First loop: what the live objects need together.                         *)
SumObject ==
  /\ pc = "sum"
  /\ fi <= Len(objs[cur])
  /\ TotalSize' = IF objs[cur][fi].dead THEN TotalSize ELSE TotalSize + objs[cur][fi].size
  /\ fi' = fi + 1
  /\ UNCHANGED <<prog, pc, InterruptReachable, worklist, todo, cur, next, path, objs,
                 Offset, gvSize, slots, static>>

(* Mutant: the offset of the last function is kept.                         *)
CreateGlobalOffsetKept ==
  /\ pc = "sum"
  /\ fi > Len(objs[cur])
  /\ IF TotalSize = 0
     THEN pc' = "pick" /\ UNCHANGED <<fi, gvSize>>
     ELSE gvSize' = [gvSize EXCEPT ![cur] = TotalSize] /\ pc' = "assign" /\ fi' = 1
  /\ UNCHANGED <<prog, InterruptReachable, worklist, todo, cur, next, path, objs,
                 TotalSize, Offset, slots, static>>

(* The global is created with exactly that size; nothing to do for size 0.  *)
CreateGlobal ==
  /\ pc = "sum"
  /\ fi > Len(objs[cur])
  /\ IF TotalSize = 0
     THEN pc' = "pick" /\ UNCHANGED <<fi, Offset, gvSize>>
     ELSE /\ gvSize' = [gvSize EXCEPT ![cur] = TotalSize]
          /\ pc' = "assign"
          /\ fi' = 1
          /\ Offset' = 0
  /\ UNCHANGED <<prog, InterruptReachable, worklist, todo, cur, next, path, objs,
                 TotalSize, slots, static>>

(* Mutant: the offset is not advanced.                                      *)
AssignSlotInPlace ==
  /\ pc = "assign"
  /\ fi <= Len(objs[cur])
  /\ slots' = [slots EXCEPT ![cur][fi] =
                 IF objs[cur][fi].dead THEN @ ELSE [off |-> Offset, size |-> objs[cur][fi].size]]
  /\ fi' = fi + 1
  /\ UNCHANGED <<prog, pc, InterruptReachable, worklist, todo, cur, next, path, objs,
                 TotalSize, Offset, gvSize, static>>

(* Second loop: consecutive offsets for the live, non-empty objects.        *)
AssignSlot ==
  /\ pc = "assign"
  /\ fi <= Len(objs[cur])
  /\ IF objs[cur][fi].dead \/ objs[cur][fi].size = 0
     THEN UNCHANGED <<slots, Offset>>
     ELSE /\ slots' = [slots EXCEPT ![cur][fi] = [off |-> Offset, size |-> objs[cur][fi].size]]
          /\ Offset' = Offset + objs[cur][fi].size
  /\ fi' = fi + 1
  /\ UNCHANGED <<prog, pc, InterruptReachable, worklist, todo, cur, next, path, objs,
                 TotalSize, gvSize, static>>

(* setStaticStack, and the sizes zeroed so that frame lowering reserves     *)
(* nothing on the stack for these objects.                                  *)
FinishFunction ==
  /\ pc = "assign"
  /\ fi > Len(objs[cur])
  /\ static' = static \cup {cur}
  /\ objs' = [objs EXCEPT ![cur] =
                [i \in DOMAIN objs[cur] |-> IF objs[cur][i].dead THEN objs[cur][i]
                                            ELSE [objs[cur][i] EXCEPT !.size = 0]]]
  /\ pc' = "pick"
  /\ UNCHANGED <<prog, InterruptReachable, worklist, todo, cur, next, path, fi,
                 TotalSize, Offset, gvSize, slots>>

PassDone ==
  /\ pc = "pick"
  /\ todo = {}
  /\ pc' = "run"
  /\ UNCHANGED <<prog, InterruptReachable, worklist, todo, cur, next, path, objs, fi,
                 TotalSize, Offset, gvSize, slots, static>>

PassNext ==
  \/ SeedInterrupts \/ BfsStep \/ BfsDone \/ PickFunction
  \/ DfsSkip \/ DfsEnter \/ DfsReject \/ DfsReturn \/ DfsAccept
  \/ CheckEligible \/ SumObject \/ CreateGlobal \/ AssignSlot \/ FinishFunction
  \/ PassDone

-----------------------------------------------------------------------------
(* Every variable of the pass stays in its set (V6ClangStaticStackAlloc's   *)
(* members and the locals of its loops).                                    *)
PassTypeOK ==
  /\ pc \in {"analyze", "bfs", "pick", "dfs", "check", "sum", "assign", "run"}
  /\ InterruptReachable \subseteq Funcs
  /\ worklist \subseteq InterruptReachable
  /\ todo \subseteq Defined(prog)
  /\ cur \in Defined(prog) \cup {NoFunc}
  /\ pc \in {"dfs", "check", "sum", "assign"} => cur \in Defined(prog) \ todo
  /\ next \in [Funcs -> 0..MaxSites + 1]
  /\ path \in Seq(Defined(prog))
  /\ objs \in [Funcs -> Seq(Obj)]
  /\ \A f \in Funcs : Len(objs[f]) = Len(prog.objs[f])
  /\ fi \in 0..MaxObjs + 1
  /\ pc \in {"sum", "assign"} => fi \in 1..Len(objs[cur]) + 1
  /\ TotalSize \in Nat
  /\ Offset \in Nat
  /\ gvSize \in [Funcs -> Nat]
  /\ slots \in [Funcs -> [1..MaxObjs -> [off : Nat, size : 0..MaxSize]]]
  /\ static \subseteq Defined(prog) \ todo

(* When the search from the interrupt handlers is over it has closed its    *)
(* set: every handler is in it, and so is every function with a body that a *)
(* member calls directly; and it holds nothing a handler cannot call.       *)
InterruptClosure ==
  pc \notin {"analyze", "bfs"} =>
    /\ prog.isrAttr \subseteq InterruptReachable
    /\ \A f \in InterruptReachable :
         /\ VisibleCallees(prog, f) \subseteq InterruptReachable
         /\ f \in prog.isrAttr \/ \E h \in prog.isrAttr : f \in prog.reach[h]

(* A function the pass goes on to lay out cannot come back to itself: that  *)
(* is what norecurse or the depth-first search has to establish, whatever   *)
(* the order of the call sites and however the callees share callees.       *)
EvidenceSound ==
  pc \in {"check", "sum", "assign"} => cur \notin prog.reach[cur]

Overlap(a, b) == a.off < b.off + b.size /\ b.off < a.off + a.size

(* Two objects of one static frame never share a byte.                      *)
SlotsDisjoint ==
  \A f \in Funcs : \A i, j \in 1..MaxObjs :
    (i # j /\ slots[f][i].size > 0 /\ slots[f][j].size > 0)
      => ~Overlap(slots[f][i], slots[f][j])

(* Every live frame object has exactly one home: a slot of its full size in *)
(* the function's static frame, inside the global that another loop sized,  *)
(* and nothing left for the stack frame; or its place in the stack frame    *)
(* and no slot.                                                             *)
OneHome ==
  \A f \in Defined(prog) \ todo : \A i \in DOMAIN prog.objs[f] :
    LET o == prog.objs[f][i] IN
    (~o.dead /\ o.size > 0 /\ ~(f = cur /\ pc = "assign")) =>
      IF f \in static
      THEN /\ slots[f][i].size = o.size /\ objs[f][i].size = 0
           /\ slots[f][i].off + o.size <= gvSize[f]
      ELSE slots[f][i].size = 0 /\ objs[f][i].size = o.size

(* The breadth-first and depth-first searches end, and every function of    *)
(* the module gets its decision.                                            *)
PassTerminates == <>(pc = "run" /\ todo = {})
=============================================================================
