--------------------------- MODULE RegValueForwarding ---------------------------
(***************************************************************************)
(* V6ClangRegValueForwarding (O92).  A forward analysis over the blocks of  *)
(* a function finds out, for every byte register, whether it holds what     *)
(* another register holds or a known immediate; a MOV or MVI that writes    *)
(* what its destination holds already is then erased.  Blocks come from a   *)
(* worklist; predecessors not computed yet are left out of the meet; a      *)
(* budget stops the iteration.  After the pass the function runs.           *)
(***************************************************************************)
EXTENDS FlowProgram, FiniteSets, SequencesExt

CONSTANTS
  NoReg,
  Functions  \* the functions a run considers

(* The entry block has no predecessor.  rpo is a reverse postorder of the   *)
(* blocks that can be reached: each of them but the first comes after one   *)
(* of its predecessors, and brings all its successors with it.              *)
ASSUME FunctionsAssumption ==
  \A f \in Functions :
    LET Blocks == DOMAIN f.code IN
    /\ IsFiniteSet(Blocks) /\ Blocks \subseteq Nat /\ f.entry \in Blocks
    /\ f.code \in [Blocks -> Seq(Instr)]
    /\ f.succ \in [Blocks -> Seq(Blocks)]
    /\ f.rpo \in Seq(Blocks) /\ f.rpo # <<>> /\ f.rpo[1] = f.entry
    /\ \A b \in Blocks : f.entry \notin Range(f.succ[b])
    /\ \A i \in 2..Len(f.rpo) : \E h \in 1..(i - 1) : f.rpo[i] \in Range(f.succ[f.rpo[h]])
    /\ \A i \in DOMAIN f.rpo : Range(f.succ[f.rpo[i]]) \subseteq Range(f.rpo)

ASSUME NoRegAssumption == NoReg \notin Regs

VARIABLES
  pc,
  work,      \* the rest of Worklist
  budget,
  cur,       \* the block transfer() walks over
  trace,     \* the state maps S of this walk: before every instruction so far
  states,    \* the walk of each block's last transfer: InState first, OutState last
  computed,
  todo,      \* blocks that are still to be transformed
  code       \* the instructions, the erased ones "gone"

passVars == <<pc, work, budget, cur, trace, states, computed, todo, code>>
vars == <<fn, runVars, passVars>>

-----------------------------------------------------------------------------
(* ValState, and StateMap: a register that is not in the map is at Top.     *)
Top == [K |-> "Top", R |-> NoReg, C |-> 0]
RegVal(r) == [K |-> "Reg", R |-> r, C |-> 0]
ConstVal(c) == [K |-> "Const", R |-> NoReg, C |-> c]
ValState == {Top} \cup {RegVal(r) : r \in Regs} \cup {ConstVal(c) : c \in Values}
StateMap == [Regs -> ValState]
Unknown == [r \in Regs |-> Top]

getCanon(S, r) == IF S[r] = Top THEN RegVal(r) ELSE S[r]

(* clobberReg and clobberMask, for a set of registers: a register and the   *)
(* ones known to be equal to it.                                            *)
ClobberKeysOnly(S, defs) == [r \in Regs |-> IF r \in defs THEN Top ELSE S[r]]   \* mutant
Clobber(S, defs) ==
  [r \in Regs |-> IF r \in defs \/ (S[r].K = "Reg" /\ S[r].R \in defs) THEN Top ELSE S[r]]

Assign(S, d, v) == [Clobber(S, {d}) EXCEPT ![d] = v]

(* The write of a MOV or MVI is redundant.                                  *)
Redundant(S, i) ==
  \/ i.op = "MOV" /\ getCanon(S, i.d) = getCanon(S, i.s)
  \/ i.op = "MVI" /\ ~i.symbolic /\ getCanon(S, i.d) = ConstVal(i.n)

(* transfer() over one instruction.                                         *)
Transfer(S, i) ==
  CASE Redundant(S, i) \/ i.op \in {"keep", "gone"} -> S
    [] i.op = "MOV" /\ ~Redundant(S, i) -> Assign(S, i.d, getCanon(S, i.s))
    [] i.op = "MVI" /\ ~Redundant(S, i) ->
         IF i.symbolic THEN Clobber(S, {i.d}) ELSE Assign(S, i.d, ConstVal(i.n))
    [] i.op = "asm" -> Unknown
    [] i.op = "other" -> Clobber(S, i.defs)

(* The meet of the OutStates of the blocks in ps.                           *)
Preds(b) == {p \in DOMAIN fn.code : b \in Range(fn.succ[p])}
InState(b) == states[b][1]
OutState(b) == Last(states[b])

MeetAnyOne(ps) == IF ps = {} THEN Unknown ELSE OutState(CHOOSE p \in ps : TRUE)   \* mutant
Meet(ps) ==
  IF ps = {} THEN Unknown
  ELSE LET p == CHOOSE p \in ps : TRUE IN
       [r \in Regs |-> IF \A q \in ps : OutState(q)[r] = OutState(p)[r] THEN OutState(p)[r] ELSE Top]

-----------------------------------------------------------------------------
PassInit ==
  /\ pc = "pick"
  /\ work = fn.rpo
  /\ budget = (Cardinality(DOMAIN fn.code) + 4) * 8 + 64
  /\ cur = fn.entry
  /\ trace = <<Unknown>>
  /\ states = [b \in DOMAIN fn.code |-> <<Unknown>>]
  /\ computed = {}
  /\ todo = DOMAIN fn.code
  /\ code = fn.code

Init == fn \in Functions /\ ProgramInit /\ PassInit

(* An iteration of the worklist loop begins: In is the meet over the        *)
(* predecessors that have been computed.                                    *)
PickBlock ==
  /\ pc = "pick"
  /\ work # <<>> /\ budget > 0
  /\ budget' = budget - 1
  /\ cur' = Head(work)
  /\ work' = Tail(work)
  /\ trace' = <<Meet(Preds(Head(work)) \cap computed)>>
  /\ pc' = "transfer"
  /\ UNCHANGED <<fn, runVars, states, computed, todo, code>>

TransferInstr ==
  /\ pc = "transfer"
  /\ Len(trace) <= Len(code[cur])
  /\ trace' = Append(trace, Transfer(Last(trace), code[cur][Len(trace)]))
  /\ UNCHANGED <<fn, runVars, pc, work, budget, cur, states, computed, todo, code>>

(* The end of the iteration.                                                *)
StoreBlock ==
  /\ pc = "transfer"
  /\ Len(trace) = Len(code[cur]) + 1
  /\ states' = [states EXCEPT ![cur] = trace]
  /\ computed' = computed \cup {cur}
  /\ work' = IF cur \notin computed \/ Last(trace) # OutState(cur) THEN work \o fn.succ[cur]
                                                                   ELSE work
  /\ pc' = "pick"
  /\ UNCHANGED <<fn, runVars, budget, cur, trace, todo, code>>

(* Nothing is left to visit, or the budget is used up: what has been found  *)
(* is used in either case.                                                  *)
EndAnalysis ==
  /\ pc = "pick"
  /\ work = <<>> \/ budget = 0
  /\ pc' = "transform"
  /\ UNCHANGED <<fn, runVars, work, budget, cur, trace, states, computed, todo, code>>

(* transfer() with Transform set, for one block after another.              *)
TransformBlock ==
  /\ pc = "transform"
  /\ \E b \in todo : /\ \A c \in todo : b <= c
                     /\ cur' = b
                     /\ trace' = <<InState(b)>>
                     /\ todo' = todo \ {b}
  /\ pc' = "erase"
  /\ UNCHANGED <<fn, runVars, work, budget, states, computed, code>>

EraseInstr ==
  /\ pc = "erase"
  /\ Len(trace) <= Len(code[cur])
  /\ LET k == Len(trace) IN
     /\ trace' = Append(trace, Transfer(Last(trace), code[cur][k]))
     /\ code' = IF Redundant(Last(trace), code[cur][k])
                THEN [code EXCEPT ![cur][k] = Plain("gone")] ELSE code
  /\ UNCHANGED <<fn, runVars, pc, work, budget, cur, states, computed, todo>>

EndBlock ==
  /\ pc = "erase"
  /\ Len(trace) = Len(code[cur]) + 1
  /\ pc' = "transform"
  /\ UNCHANGED <<fn, runVars, work, budget, cur, trace, states, computed, todo, code>>

PassDone ==
  /\ pc = "transform"
  /\ todo = {}
  /\ pc' = "run"
  /\ UNCHANGED <<fn, runVars, work, budget, cur, trace, states, computed, todo, code>>

(* The function that the pass leaves behind runs.                           *)
Run ==
  /\ pc = "run"
  /\ Enter \/ Step(code) \/ Branch(code)
  /\ UNCHANGED passVars

Next ==
  \/ PickBlock \/ TransferInstr \/ StoreBlock \/ EndAnalysis
  \/ TransformBlock \/ EraseInstr \/ EndBlock \/ PassDone
  \/ Run

Spec == Init /\ [][Next]_vars

-----------------------------------------------------------------------------

(* A state map that claims only what the registers hold.                    *)
TrueOf(S, r) ==
  \A x \in Regs : /\ S[x].K = "Reg" => r[x] = r[S[x].R]
                  /\ S[x].K = "Const" => r[x] = S[x].C

(* Wherever the running function is, whichever way it came, the registers   *)
(* hold what the analysis says of that place.                               *)
FactsTrue ==
  entered => TrueOf(states[blk][pos + 1], reg)

(* The function left behind runs as the one given: the instruction that was *)
(* erased would have changed nothing.                                       *)
Given == INSTANCE FlowProgram
SameProgram == Given!Program
=============================================================================
