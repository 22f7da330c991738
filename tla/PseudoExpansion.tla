----------------------------- MODULE PseudoExpansion -----------------------------
(***************************************************************************)
(* The end of instruction selection and the expansion of pseudo             *)
(* instructions after register allocation, over one basic block.  The       *)
(* comparison that ends the block is lowered; then the block is walked once *)
(* and each pseudo replaced, looking at the instructions still ahead to     *)
(* find out what is dead and at those already behind to find constants;     *)
(* then the block runs, beside the meaning of what it was made from.        *)
(***************************************************************************)
EXTENDS MemoryExpansion, CompareLowering, SequencesExt

CONSTANTS
  Machines,  \* the machines that may enter a block, by name
  Blocks,    \* the blocks a run considers
  MaxIter    \* how often a block that loops is run

(* A block: items, the comparison that ends it or NoComparison, its other   *)
(* predecessors' code, and whether it is its own successor; the sets of     *)
(* registers that may be live in its successors; the machines that enter.   *)
NoComparison == [use |-> "none"]

(* What the items have destroyed, and what they read that none before them  *)
(* wrote: nothing destroyed is read, in the block or behind it.             *)
RECURSIVE Destroyed(_)
Destroyed(items) ==
  IF items = <<>> THEN {} ELSE (Destroyed(Front(items)) \cup Clobbers(Last(items))) \ Results(Last(items))
ReadBefore(items) ==
  UNION {Reads(items[k]) \ UNION {Results(items[h]) : h \in 1..(k - 1)} : k \in DOMAIN items}
WellDefined(items, live) ==
  /\ live \subseteq Regs \cup {"F"}
  /\ \A k \in DOMAIN items : Reads(items[k]) \cap Destroyed(SubSeq(items, 1, k - 1)) = {}
  /\ live \cap Destroyed(items) = {}

ASSUME BlocksAssumption ==
  \A b \in Blocks :
    /\ b.enter \subseteq DOMAIN Machines
    /\ \A live \in b.lives : WellDefined(b.items, live) /\ (b.loops => ReadBefore(b.items) \subseteq live)

ASSUME MachinesAssumption ==
  \A x \in DOMAIN Machines :
    /\ Machines[x].reg \in [Regs \cup {"F"} -> Byte] /\ Machines[x].sp \in Addr
    /\ \A a \in DOMAIN Machines[x].mem : a \in Addr /\ Machines[x].mem[a] \in Byte

VARIABLES
  input,     \* a block, with one set of live registers
  preds,     \* the code of the predecessors; an LXI there may be folded away
  before,    \* the 8080 code of the block so far
  rest,      \* the items that are not expanded yet
  pc,
  m, ref,    \* the machine that runs the code, and the one the items define
  taken, refTaken,
  iter

passVars == <<preds, before, rest>>
runVars == <<m, ref, taken, refTaken, iter>>
vars == <<input, pc, passVars, runVars>>

ExecAll(s, code) == FoldLeft(Exec, s, code)

Init ==
  /\ \E b \in Blocks : \E live \in b.lives, x \in b.enter :
       /\ input = [items |-> b.items, cmp |-> b.cmp, loops |-> b.loops, live |-> live]
       /\ preds = b.preds
       /\ m = Machines[x]
  /\ before = <<>> /\ rest = input.items
  /\ pc = "lower"
  /\ ref = m
  /\ taken = FALSE /\ refTaken = FALSE
  /\ iter = 0

(* Instruction selection appends the comparison and its branch.             *)
Lower ==
  /\ pc = "lower"
  /\ rest' = rest \o (IF input.cmp = NoComparison THEN <<>> ELSE LowerComparison(input.cmp))
  /\ pc' = "expand"
  /\ UNCHANGED <<input, preds, before, runVars>>

-----------------------------------------------------------------------------
(* What an expansion may look at.                                           *)

(* isRegDeadAfter and isRegDeadAtMI: the first item ahead that touches a    *)
(* part of r decides: one that reads it means it lives, one that only       *)
(* writes it that it is dead.                                               *)
Writes(i) == Defs(i) \cup (IF i.op = "DAD" THEN {"F"} ELSE {})
Touches(i, r) == (Reads(i) \cup Writes(i)) \cap Parts(r) # {}
NextTouch(ahead, r) == SelectInSeq(ahead, LAMBDA i : Touches(i, r))
Dead(ahead, r) ==
  LET k == NextTouch(ahead, r) IN
  IF k = 0 THEN input.live \cap Parts(r) = {}
  ELSE Reads(ahead[k]) \cap Parts(r) = {}
DeadSet(ahead) == {r \in Regs \cup Pairs \cup {"F"} : Dead(ahead, r)}

(* findDefiningLXI: among the last ScanLimit instructions the last one that *)
(* writes p, if it is an LXI; else what the predecessors end in.  The first *)
(* one has to have the LXI; a later one may also not touch the pair.        *)
ScanLimit == 16
DefOf(code, p) ==
  LET from == IF Len(code) > ScanLimit THEN Len(code) - ScanLimit + 1 ELSE 1
      at == {k \in from..Len(code) : Writes8080(code[k]) \cap Parts(p) # {}}
  IN IF at = {} THEN 0 ELSE Max(at)
LxiIn(code, p) == DefOf(code, p) # 0 /\ code[DefOf(code, p)].op = "LXI"
ConstIn(code, p) == code[DefOf(code, p)].n
ConstOf(p) ==
  IF DefOf(before, p) # 0
  THEN IF LxiIn(before, p) THEN ConstIn(before, p) ELSE NoConst
  ELSE IF /\ preds # <<>> /\ LxiIn(preds[1], p)
          /\ \A k \in DOMAIN preds :
               DefOf(preds[k], p) # 0 => LxiIn(preds[k], p) /\ ConstIn(preds[k], p) = ConstIn(preds[1], p)
       THEN ConstIn(preds[1], p) ELSE NoConst

Context ==
  [dead |-> DeadSet(Tail(rest)), const |-> [p \in Pairs |-> ConstOf(p)], prev |-> before]

Code(i, c) ==
  CASE ~IsPseudo(i) -> <<i>>
    [] i.op \in {"INX16", "DCX16"} -> StepCode(i)
    [] i.op = "DAD16" -> DadCode(i, c)            [] i.op = "ADD16" -> AddCode(i, c)
    [] i.op = "SUB16" -> SubCode(i, c)            [] i.op = "NEG16" -> NegCode(i)
    [] i.op = "NEG8" -> Neg8Code(i, c)            [] i.op = "SEXT" -> SextCode(i)
    [] i.op \in {"AND16", "OR16", "XOR16"} -> LogicCode(i, c)
    [] i.op \in Immediates -> LogicImmCode(i, c)  [] i.op = "BUILD_PAIR" -> BuildPairCode(i)
    [] i.op = "SHL16" -> ShlCode(i, c)            [] i.op = "SRL16" -> SrlCode(i, c)
    [] i.op = "SRA16" -> SraCode(i, c)            [] i.op = "ROTL16_1" -> RotlCode
    [] i.op \in Shifts8 -> Shift8Code(i)
    [] i.op = "CMP16" -> Minus(i.s, i.t)          [] i.op = "CMP16_IMM" -> MinusFrom(i.n, i.s)
    [] i.op = "CMP16_ZERO" -> ZeroTest(i.s)       [] i.op = "CMP16_SIGN" -> SignTestCode(i.s)
    [] i.op = "CMP8_ZERO" -> Cmp8ZeroCode(i, c)   [] i.op = "BRCOND" -> <<J(i.d, "taken")>>
    [] i.op = "BR_CC16" -> BrCode(i)              [] i.op = "BR_CC16_IMM" -> BrImmCode(i)
    [] i.op = "LOAD16_P" -> Load16Code(i, c)      [] i.op = "STORE16_P" -> Store16Code(i, c)
    [] i.op = "LOAD16_G" -> Load16GlobalCode(i, c) [] i.op = "STORE16_G" -> Store16GlobalCode(i, c)
    [] i.op = "LOAD8_P" -> Load8Code(i, c)        [] i.op = "STORE8_P" -> Store8Code(i, c)
    [] i.op = "STORE8_IMM_P" -> Store8ImmCode(i, c)
    [] i.op = "ALU_M" -> AtAddress(i.t, c, <<Alu(i.d, "M")>>)
    [] i.op = "INR_M" -> AtAddress(i.t, c, <<Inr("M")>>)
    [] i.op = "DCR_M" -> AtAddress(i.t, c, <<Dcr("M")>>)

(* The folded LXI goes when it is in this block and the pair is dead; so    *)
(* does the copy that NEG8 folds.                                           *)
EraseKeepsPair(i, c) ==   \* mutant
  LET p == FoldedPair(i, c) IN
  IF p # "" /\ DefOf(before, p) # 0 THEN RemoveAt(before, DefOf(before, p))
  ELSE IF FoldsCopy(i, c) THEN Front(before) ELSE before
Erased(i, c) ==
  LET p == FoldedPair(i, c) IN
  IF p # "" /\ DefOf(before, p) # 0 /\ p \in c.dead THEN RemoveAt(before, DefOf(before, p))
  ELSE IF FoldsCopy(i, c) THEN Front(before) ELSE before

Expand ==
  /\ pc = "expand" /\ rest # <<>>
  /\ LET i == Head(rest)  c == Context IN before' = Erased(i, c) \o Code(i, c)
  /\ rest' = Tail(rest)
  /\ UNCHANGED <<input, preds, pc, runVars>>

-----------------------------------------------------------------------------
(* The block is entered over one of its predecessors.                       *)
Enter ==
  /\ pc = "expand" /\ rest = <<>>
  /\ \E code \in (IF preds = <<>> THEN {<<>>} ELSE Range(preds)) :
       m' = ExecAll(m, code) /\ ref' = m'
  /\ pc' = "run"
  /\ UNCHANGED <<input, passVars, taken, refTaken, iter>>

(* An interrupt may come after any instruction; the code runs up to the     *)
(* first jump whose condition holds.                                        *)
Jumps(s, i) == i.op = "J" /\ (i.s = "" \/ Holds(i.s, s.reg["F"]))
After(s, i, irq) == IF irq THEN Interrupted(Exec(s, i), 7) ELSE Exec(s, i)
RECURSIVE RunCode(_, _, _)
RunCode(s, code, irq) ==
  IF code = <<>> THEN [m |-> s, to |-> "fall"]
  ELSE IF Jumps(s, Head(code)) THEN [m |-> s, to |-> Head(code).d]
  ELSE RunCode(After(s, Head(code), irq), Tail(code), irq)

Run ==
  /\ pc = "run" /\ iter < MaxIter
  /\ \E irq \in BOOLEAN :
       LET end == RunCode(m, before, irq) IN m' = end.m /\ taken' = (end.to = "taken")
  /\ ref' = FoldLeft(Meaning, ref, input.items)
  /\ refTaken' = (input.cmp # NoComparison /\ Truth(ref', input.cmp))
  /\ iter' = iter + 1
  /\ pc' = IF input.loops /\ iter' < MaxIter THEN "run" ELSE "done"
  /\ UNCHANGED <<input, passVars>>

Next == Lower \/ Expand \/ Enter \/ Run

Spec == Init /\ [][Next]_vars

-----------------------------------------------------------------------------

Ran == iter > 0

(* The registers somebody still reads hold what the items of the block say, *)
(* and the stack pointer is where it was, after every run of the block.     *)
RegistersRight ==
  Ran => (\A r \in input.live : m.reg[r] = ref.reg[r]) /\ m.sp = ref.sp

(* So does memory, but for the bytes below the stack pointer.               *)
BelowStack == {Wrap(m.sp + Top16 - k) : k \in 1..8}
MemoryRight ==
  Ran => \A a \in (DOMAIN m.mem \cup DOMAIN ref.mem) \ BelowStack : At(m.mem, a) = At(ref.mem, a)

(* The block goes where the comparison of the program says.                 *)
BranchRight == Ran => taken = refTaken
=============================================================================
