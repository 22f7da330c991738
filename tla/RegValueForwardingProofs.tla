------------------------ MODULE RegValueForwardingProofs ------------------------
(***************************************************************************)
(* Proofs about V6ClangRegValueForwarding, for every function over any      *)
(* registers and values: when its worklist has been drained, the state maps *)
(* claim only what the registers hold wherever the function runs, and the   *)
(* code the pass leaves behind runs as the code it was given.  Whether the  *)
(* iteration budget lets the worklist drain is not settled here.            *)
(***************************************************************************)
EXTENDS RegValueForwarding, SequenceTheorems, TLAPS

Blocks == DOMAIN fn.code

(* What is used of the assumption on the functions.                         *)
LEMMA FunctionFacts ==
  ASSUME fn \in Functions
  PROVE  /\ fn.entry \in Blocks
         /\ fn.code \in [Blocks -> Seq(Instr)]
         /\ fn.succ \in [Blocks -> Seq(Blocks)]
         /\ fn.rpo \in Seq(Blocks)
         /\ fn.rpo # <<>>
         /\ fn.rpo[1] = fn.entry
         /\ \A b \in Blocks : fn.entry \notin Range(fn.succ[b])
<1>. DEFINE F(f) ==
       /\ IsFiniteSet(DOMAIN f.code) /\ DOMAIN f.code \subseteq Nat /\ f.entry \in DOMAIN f.code
       /\ f.code \in [DOMAIN f.code -> Seq(Instr)]
       /\ f.succ \in [DOMAIN f.code -> Seq(DOMAIN f.code)]
       /\ f.rpo \in Seq(DOMAIN f.code) /\ f.rpo # <<>> /\ f.rpo[1] = f.entry
       /\ \A b \in DOMAIN f.code : f.entry \notin Range(f.succ[b])
<1>1. \A f \in Functions : F(f)
  BY FunctionsAssumption DEF FunctionsAssumption
<1>2. F(fn)
  BY <1>1
<1>. QED
  BY <1>2 DEF Blocks

(* The kinds of instructions, and the fields each of them has.              *)
LEMMA InstrKinds ==
  ASSUME NEW i \in Instr
  PROVE  \/ i.op = "MOV" /\ i.d \in Regs /\ i.s \in Regs
         \/ i.op = "MVI" /\ i.d \in Regs /\ i.n \in Values /\ i.symbolic \in BOOLEAN
         \/ i.op \in {"keep", "asm", "gone"}
         \/ i.op = "other" /\ i.defs \subseteq Regs
BY DEF Instr

-----------------------------------------------------------------------------
(* The operators of the analysis.                                           *)

(* A register value is a Top, a register or a constant, and which.          *)
LEMMA ValKinds ==
  ASSUME NEW v \in ValState
  PROVE  \/ v = Top
         \/ v.K = "Reg" /\ v.R \in Regs
         \/ v.K = "Const" /\ v.C \in Values
BY DEF ValState, Top, RegVal, ConstVal

LEMMA CanonType ==
  ASSUME NEW S \in StateMap, NEW r \in Regs
  PROVE  getCanon(S, r) \in ValState
BY DEF getCanon, StateMap, ValState

(* Clobbering and assigning give state maps.                                *)
LEMMA ClobberType ==
  ASSUME NEW S \in StateMap, NEW defs
  PROVE  Clobber(S, defs) \in StateMap
BY DEF Clobber, StateMap, ValState

LEMMA AssignType ==
  ASSUME NEW S \in StateMap, NEW d \in Regs, NEW v \in ValState
  PROVE  Assign(S, d, v) \in StateMap
BY ClobberType DEF Assign, StateMap

LEMMA UnknownType == Unknown \in StateMap
BY DEF Unknown, StateMap, ValState

(* transfer() leaves the map alone at a redundant write.                    *)
LEMMA TransferIdle ==
  ASSUME NEW S, NEW i, Redundant(S, i) \/ i.op \in {"keep", "gone"}
  PROVE  Transfer(S, i) = S
BY DEF Transfer, Redundant

LEMMA TransferType ==
  ASSUME NEW S \in StateMap, NEW i \in Instr
  PROVE  Transfer(S, i) \in StateMap
<1>1. CASE Redundant(S, i) \/ i.op \in {"keep", "gone"}
  BY <1>1, TransferIdle
<1>2. CASE i.op = "MOV" /\ ~Redundant(S, i)
  <2>1. Transfer(S, i) = Assign(S, i.d, getCanon(S, i.s))
    BY <1>2 DEF Transfer
  <2>. QED
    BY <1>2, <2>1, InstrKinds, CanonType, AssignType
<1>3. CASE i.op = "MVI" /\ ~Redundant(S, i)
  <2>1. Transfer(S, i) = IF i.symbolic THEN Clobber(S, {i.d}) ELSE Assign(S, i.d, ConstVal(i.n))
    BY <1>3 DEF Transfer
  <2>2. i.d \in Regs /\ ConstVal(i.n) \in ValState
    BY <1>3, InstrKinds DEF ValState
  <2>. QED
    BY <2>1, <2>2, ClobberType, AssignType
<1>4. CASE i.op = "asm"
  BY <1>4, UnknownType DEF Transfer, Redundant
<1>5. CASE i.op = "other"
  BY <1>5, ClobberType DEF Transfer, Redundant
<1>. QED
  BY <1>1, <1>2, <1>3, <1>4, <1>5, InstrKinds

(* What a register is traced back to is what it holds.                      *)
LEMMA CanonTrue ==
  ASSUME NEW S \in StateMap, NEW r \in [Regs -> Values], TrueOf(S, r), NEW x \in Regs
  PROVE  /\ getCanon(S, x).K = "Reg" => getCanon(S, x).R \in Regs /\ r[x] = r[getCanon(S, x).R]
         /\ getCanon(S, x).K = "Const" => r[x] = getCanon(S, x).C
BY DEF getCanon, TrueOf, StateMap, ValState, Top, RegVal, ConstVal

(* A redundant instruction changes nothing and loses nothing.               *)
LEMMA RedundantIdle ==
  ASSUME NEW S \in StateMap, NEW i \in Instr, NEW r \in [Regs -> Values],
         TrueOf(S, r), Redundant(S, i)
  PROVE  Moved(i, r) = r /\ Loses(i) = {}
<1>1. CASE i.op = "MOV"
  <2>1. i.d \in Regs /\ i.s \in Regs /\ getCanon(S, i.d) = getCanon(S, i.s)
    BY <1>1, InstrKinds DEF Redundant
  <2>2. getCanon(S, i.d).K \in {"Reg", "Const"}
    BY <2>1 DEF getCanon, StateMap, ValState, Top, RegVal, ConstVal
  <2>3. r[i.d] = r[i.s]
    BY <2>1, <2>2, CanonTrue
  <2>. QED
    BY <1>1, <2>1, <2>3 DEF Moved, Loses
<1>2. CASE i.op = "MVI"
  <2>1. i.d \in Regs /\ ~i.symbolic /\ getCanon(S, i.d) = ConstVal(i.n)
    BY <1>2, InstrKinds DEF Redundant
  <2>2. r[i.d] = i.n
    BY <2>1, CanonTrue DEF ConstVal
  <2>. QED
    BY <1>2, <2>1, <2>2 DEF Moved, Loses
<1>. QED
  BY <1>1, <1>2 DEF Redundant

(* Clobbering the registers that change keeps a state map true of them.     *)
LEMMA ClobberTrue ==
  ASSUME NEW S \in StateMap, NEW defs \in SUBSET Regs,
         NEW r \in [Regs -> Values], NEW t \in [Regs -> Values], TrueOf(S, r),
         \A x \in Regs \ defs : t[x] = r[x]
  PROVE  TrueOf(Clobber(S, defs), t)
<1>. SUFFICES ASSUME NEW x \in Regs
              PROVE  /\ Clobber(S, defs)[x].K = "Reg" => t[x] = t[Clobber(S, defs)[x].R]
                     /\ Clobber(S, defs)[x].K = "Const" => t[x] = Clobber(S, defs)[x].C
  BY DEF TrueOf
<1>1. CASE x \in defs \/ (S[x].K = "Reg" /\ S[x].R \in defs)
  BY <1>1 DEF Clobber, Top
<1>2. CASE x \notin defs /\ ~(S[x].K = "Reg" /\ S[x].R \in defs)
  <2>1. Clobber(S, defs)[x] = S[x]
    BY <1>2 DEF Clobber
  <2>2. S[x] \in ValState
    BY DEF StateMap
  <2>. QED
    BY <1>2, <2>1, <2>2, ValKinds DEF TrueOf, Top
<1>. QED
  BY <1>1, <1>2

(* A true claim about a register may be added.                              *)
LEMMA ClaimTrue ==
  ASSUME NEW S \in StateMap, NEW t, TrueOf(S, t), NEW d \in Regs, NEW v,
         v.K = "Reg" => t[d] = t[v.R],
         v.K = "Const" => t[d] = v.C
  PROVE  TrueOf([S EXCEPT ![d] = v], t)
BY DEF TrueOf, StateMap

(* Transfer is sound: a state map true before an instruction gives one that *)
(* is true after it, whatever the instruction leaves in the registers it    *)
(* loses.                                                                   *)
LEMMA TransferTrue ==
  ASSUME NEW S \in StateMap, NEW i \in Instr,
         NEW r \in [Regs -> Values], NEW t \in [Regs -> Values], TrueOf(S, r),
         \A x \in Regs : x \notin Loses(i) => t[x] = Moved(i, r)[x]
  PROVE  TrueOf(Transfer(S, i), t)
<1>1. CASE Redundant(S, i)
  <2>1. t = r
    BY <1>1, RedundantIdle
  <2>. QED
    BY <1>1, <2>1, TransferIdle
<1>2. CASE i.op \in {"keep", "gone"}
  <2>1. t = r
    BY <1>2 DEF Loses, Moved
  <2>. QED
    BY <1>2, <2>1, TransferIdle
<1>3. CASE i.op = "MOV" /\ ~Redundant(S, i)
  <2>. DEFINE v == getCanon(S, i.s)
              A == Clobber(S, {i.d})
  <2>1. Transfer(S, i) = [A EXCEPT ![i.d] = v]
    BY <1>3 DEF Transfer, Assign
  <2>2. i.d \in Regs /\ i.s \in Regs
    BY <1>3, InstrKinds
  <2>3. t[i.d] = r[i.s] /\ \A x \in Regs \ {i.d} : t[x] = r[x]
    BY <1>3, <2>2 DEF Loses, Moved
  <2>4. TrueOf(A, t) /\ A \in StateMap
    BY <2>2, <2>3, ClobberTrue, ClobberType
  <2>5. v.K = "Reg" => v.R \in Regs /\ r[i.s] = r[v.R]
    BY <2>2, CanonTrue
  <2>6. v.K = "Const" => r[i.s] = v.C
    BY <2>2, CanonTrue
  <2>7. /\ v.K = "Reg" => t[i.d] = t[v.R]
        /\ v.K = "Const" => t[i.d] = v.C
    BY <2>2, <2>3, <2>5, <2>6
  <2>. HIDE DEF v, A
  <2>8. TrueOf([A EXCEPT ![i.d] = v], t)
    BY <2>2, <2>4, <2>7, ClaimTrue
  <2>. QED
    BY <2>1, <2>8
<1>4. CASE i.op = "MVI" /\ ~Redundant(S, i)
  <2>. DEFINE A == Clobber(S, {i.d})
  <2>1. Transfer(S, i) = IF i.symbolic THEN A ELSE [A EXCEPT ![i.d] = ConstVal(i.n)]
    BY <1>4 DEF Transfer, Assign
  <2>2. i.d \in Regs /\ i.symbolic \in BOOLEAN
    BY <1>4, InstrKinds
  <2>3. \A x \in Regs \ {i.d} : t[x] = r[x]
    BY <1>4, <2>2 DEF Loses, Moved
  <2>4. TrueOf(A, t) /\ A \in StateMap
    BY <2>2, <2>3, ClobberTrue, ClobberType
  <2>5. ~i.symbolic => t[i.d] = i.n
    BY <1>4, <2>2 DEF Loses, Moved
  <2>6. CASE ~i.symbolic
    <3>1. /\ ConstVal(i.n).K = "Reg" => t[i.d] = t[ConstVal(i.n).R]
          /\ ConstVal(i.n).K = "Const" => t[i.d] = ConstVal(i.n).C
      BY <2>5, <2>6 DEF ConstVal
    <3>. HIDE DEF A
    <3>2. TrueOf([A EXCEPT ![i.d] = ConstVal(i.n)], t)
      BY <2>2, <2>4, <3>1, ClaimTrue
    <3>. QED
      BY <2>1, <2>6, <3>2
  <2>. QED
    BY <2>1, <2>2, <2>4, <2>6
<1>5. CASE i.op = "asm"
  BY <1>5 DEF Transfer, Redundant, TrueOf, Unknown, Top
<1>6. CASE i.op = "other"
  <2>1. Transfer(S, i) = Clobber(S, i.defs)
    BY <1>6 DEF Transfer, Redundant
  <2>2. i.defs \subseteq Regs
    BY <1>6, InstrKinds
  <2>3. \A x \in Regs \ i.defs : t[x] = r[x]
    BY <1>6 DEF Loses, Moved
  <2>. QED
    BY <2>1, <2>2, <2>3, ClobberTrue
<1>. QED
  BY <1>1, <1>2, <1>3, <1>4, <1>5, <1>6, InstrKinds

-----------------------------------------------------------------------------
(* The inductive invariant: types first.                                    *)

PassType ==
  /\ fn \in Functions
  /\ pc \in {"pick", "transfer", "transform", "erase", "run"}
  /\ work \in Seq(Blocks)
  /\ cur \in Blocks
  /\ trace \in Seq(StateMap) /\ trace # <<>>
  /\ states \in [Blocks -> Seq(StateMap)] /\ \A b \in Blocks : states[b] # <<>>
  /\ computed \subseteq Blocks
  /\ todo \subseteq Blocks
  /\ code \in [Blocks -> Seq(Instr)]
  /\ \A b \in Blocks : Len(code[b]) = Len(fn.code[b])

RunType ==
  /\ entered \in BOOLEAN
  /\ blk \in Blocks
  /\ pos \in 0..Len(fn.code[blk])
  /\ reg \in [Regs -> Values]
  /\ entered => pc = "run"
  /\ ~entered => blk = fn.entry /\ pos = 0

(* t is the walk of transfer() over the instructions of b, as far as it is. *)
IsWalk(b, t) ==
  /\ Len(t) <= Len(fn.code[b]) + 1
  /\ \A k \in 1..(Len(t) - 1) : t[k + 1] = Transfer(t[k], fn.code[b][k])

(* S claims at most what the computed predecessors of b agree on, and       *)
(* nothing at the entry.                                                    *)
AtMeet(S, b) ==
  /\ \A p \in computed : b \in Range(fn.succ[p]) =>
       \A r \in Regs : S[r] = Top \/ S[r] = OutState(p)[r]
  /\ b = fn.entry => S = Unknown

Pending(b) == b \in Range(work) \/ (pc = "transfer" /\ b = cur)

(* Every block computed is the walk of its instructions; it starts at the   *)
(* meet or is still to be visited again; and so is, or is computed, each of *)
(* its successors.                                                          *)
AnalysisInv ==
  /\ \A b \in computed : IsWalk(b, states[b]) /\ Len(states[b]) = Len(fn.code[b]) + 1
  /\ \A b \in computed : Pending(b) \/ AtMeet(InState(b), b)
  /\ fn.entry \in computed \/ Pending(fn.entry)
  /\ \A p \in computed : \A b \in Range(fn.succ[p]) : b \in computed \/ Pending(b)
  /\ pc = "transfer" => IsWalk(cur, trace) /\ AtMeet(trace[1], cur)

(* What has been erased so far was redundant where it stood.                *)
ErasedOnly(b) ==
  \A k \in 1..Len(fn.code[b]) :
    \/ code[b][k] = fn.code[b][k]
    \/ code[b][k] = Plain("gone") /\ Redundant(states[b][k], fn.code[b][k])

CodeInv ==
  /\ pc \in {"pick", "transfer"} => code = fn.code
  /\ \A b \in computed : ErasedOnly(b)
  /\ \A b \in todo : code[b] = fn.code[b]
  /\ pc = "erase" =>
       /\ cur \notin todo
       /\ Len(trace) <= Len(fn.code[cur]) + 1
       /\ \A k \in Len(trace)..Len(fn.code[cur]) : code[cur][k] = fn.code[cur][k]
       /\ cur \in computed => \A k \in 1..Len(trace) : trace[k] = states[cur][k]

RunInv == entered /\ work = <<>> => blk \in computed /\ TrueOf(states[blk][pos + 1], reg)

IInv == PassType /\ RunType /\ AnalysisInv /\ CodeInv /\ RunInv

(* The last state of a walk.                                                *)
LEMMA LastState ==
  ASSUME NEW t \in Seq(StateMap), t # <<>>
  PROVE  /\ Len(t) \in Nat \ {0}
         /\ Last(t) = t[Len(t)]
         /\ Last(t) \in StateMap
         /\ \A k \in 1..Len(t) : t[k] \in StateMap
BY DEF Last

(* What is in a sequence, and in one that another is appended to.           *)
LEMMA RangeOfConcat ==
  ASSUME NEW T, NEW s \in Seq(T), NEW t \in Seq(T)
  PROVE  /\ s \o t \in Seq(T)
         /\ Range(s \o t) = Range(s) \cup Range(t)
         /\ s = <<>> => Range(s) = {}
<1>1. s = <<>> => Range(s) = {}
  BY DEF Range
<1>. QED
  BY <1>1, RangeConcatenation, ConcatProperties

LEMMA RangeOfTail ==
  ASSUME NEW T, NEW s \in Seq(T), s # <<>>
  PROVE  /\ Head(s) \in T /\ Tail(s) \in Seq(T)
         /\ Range(s) = {Head(s)} \cup Range(Tail(s))
<1>1. Len(s) \in Nat \ {0} /\ Len(Tail(s)) = Len(s) - 1 /\ Head(s) = s[1]
  BY HeadTailProperties
<1>2. \A k \in 1..Len(Tail(s)) : Tail(s)[k] = s[k + 1]
  BY HeadTailProperties
<1>3. \A k \in 1..Len(s) : k = 1 \/ (k - 1 \in 1..Len(Tail(s)) /\ s[k] = Tail(s)[k - 1])
  BY <1>1, <1>2
<1>4. \A k \in 1..Len(Tail(s)) : k + 1 \in 1..Len(s)
  BY <1>1
<1>5. Range(s) = {s[k] : k \in 1..Len(s)} /\ Range(Tail(s)) = {Tail(s)[k] : k \in 1..Len(Tail(s))}
  <2>1. Tail(s) \in Seq(T)
    BY HeadTailProperties
  <2>2. DOMAIN s = 1..Len(s) /\ DOMAIN Tail(s) = 1..Len(Tail(s))
    BY <2>1
  <2>. QED
    BY <2>2, Zenon DEF Range
<1>6. ASSUME NEW k \in 1..Len(s) PROVE s[k] \in {Head(s)} \cup Range(Tail(s))
  <2>1. CASE k = 1
    BY <1>1, <2>1
  <2>2. CASE k # 1
    <3>. DEFINE j == k - 1
    <3>1. j \in 1..Len(Tail(s)) /\ s[k] = Tail(s)[j]
      BY <1>3, <2>2
    <3>. HIDE DEF j
    <3>. QED
      BY <1>5, <3>1
  <2>. QED
    BY <2>1, <2>2
<1>7. {Head(s)} \cup Range(Tail(s)) \subseteq Range(s)
  <2>1. Head(s) \in Range(s)
    BY <1>1, <1>5
  <2>2. ASSUME NEW k \in 1..Len(Tail(s)) PROVE Tail(s)[k] \in Range(s)
    BY <1>2, <1>4, <1>5
  <2>. QED
    BY <1>5, <2>1, <2>2
<1>. QED
  BY <1>5, <1>6, <1>7, HeadTailProperties

(* The meet claims at most what each of the blocks claims at its end.       *)
LEMMA MeetSound ==
  ASSUME PassType, NEW ps \in SUBSET Blocks
  PROVE  /\ Meet(ps) \in StateMap
         /\ \A p \in ps : \A r \in Regs : Meet(ps)[r] = Top \/ Meet(ps)[r] = OutState(p)[r]
         /\ ps = {} => Meet(ps) = Unknown
<1>1. \A p \in ps : OutState(p) \in StateMap
  BY LastState DEF PassType, OutState
<1>2. CASE ps = {}
  BY <1>2, UnknownType DEF Meet
<1>3. CASE ps # {}
  <2>. DEFINE p == CHOOSE p \in ps : TRUE
  <2>1. p \in ps
    BY <1>3
  <2>2. Meet(ps) = [r \in Regs |->
          IF \A q \in ps : OutState(q)[r] = OutState(p)[r] THEN OutState(p)[r] ELSE Top]
    BY <1>3 DEF Meet
  <2>. HIDE DEF p
  <2>3. \A r \in Regs : OutState(p)[r] \in ValState
    BY <1>1, <2>1 DEF StateMap
  <2>4. Meet(ps) \in StateMap
    BY <2>2, <2>3 DEF StateMap, ValState
  <2>. QED
    BY <1>3, <2>1, <2>2, <2>4
<1>. QED
  BY <1>2, <1>3

-----------------------------------------------------------------------------
(* The first state.                                                         *)
LEMMA InitInv == Init => IInv
<1>. SUFFICES ASSUME Init PROVE IInv
  OBVIOUS
<1>. USE DEF Init, ProgramInit, PassInit
<1>1. PassType
  <2>1. Blocks = DOMAIN fn.code
    BY DEF Blocks
  <2>2. <<Unknown>> \in Seq(StateMap) /\ <<Unknown>> # <<>>
    BY UnknownType
  <2>. QED
    BY <2>1, <2>2, FunctionFacts DEF PassType
<1>2. RunType
  <2>0. entered = FALSE /\ blk = fn.entry /\ pos = 0 /\ blk \in Blocks
    BY FunctionFacts
  <2>1. reg \in [Regs -> Values]
    BY ValuesAssumption DEF ValuesAssumption
  <2>2. Len(fn.code[fn.entry]) \in Nat
    BY FunctionFacts
  <2>. QED
    <3>. HIDE DEF Init, ProgramInit, PassInit
    <3>1. entered \in BOOLEAN
      BY <2>0
    <3>2. pos \in 0..Len(fn.code[blk])
      BY <2>0, <2>2
    <3>. QED
      BY <2>0, <2>1, <3>1, <3>2 DEF RunType
<1>3. fn.entry \in Range(work)
  <2>1. 1 \in DOMAIN fn.rpo
    BY FunctionFacts
  <2>. QED
    BY <2>1, FunctionFacts DEF Range
<1>4. AnalysisInv
  BY <1>3 DEF AnalysisInv, Pending
<1>5. CodeInv
  BY DEF CodeInv
<1>. QED
  BY <1>1, <1>2, <1>4, <1>5 DEF IInv, RunInv

(* The steps of the analysis leave the program alone.                       *)
LEMMA RunTypeKept ==
  ASSUME RunType, UNCHANGED <<fn, runVars>>, pc # "run"
  PROVE  RunType' /\ RunInv' /\ ~entered
BY DEF RunType, RunInv, runVars, Blocks

(* As long as the states of the blocks stay, so does what is at the meet.   *)
LEMMA MeetKept ==
  ASSUME UNCHANGED <<fn, states, computed>>
  PROVE  /\ \A S, b : AtMeet(S, b) => AtMeet(S, b)'
         /\ \A b, t : IsWalk(b, t) => IsWalk(b, t)'
BY DEF AtMeet, IsWalk, OutState

(* The block being analysed and what the walk of it looks like: all that    *)
(* the steps inside one block change of what PassType speaks of.            *)
LEMMA PassTypeKept ==
  ASSUME PassType, UNCHANGED <<fn, work, states, computed, code>>,
         pc' \in {"pick", "transfer", "transform", "erase", "run"},
         cur' \in Blocks, trace' \in Seq(StateMap), trace' # <<>>, todo' \subseteq Blocks
  PROVE  PassType'
<1>1. Blocks' = Blocks
  BY DEF Blocks
<1>2. fn' \in Functions /\ work' \in Seq(Blocks') /\ computed' \subseteq Blocks'
  BY <1>1 DEF PassType
<1>3. states' \in [Blocks' -> Seq(StateMap)] /\ \A b \in Blocks' : states'[b] # <<>>
  BY <1>1 DEF PassType
<1>4. code' \in [Blocks' -> Seq(Instr)] /\ \A b \in Blocks' : Len(code'[b]) = Len(fn'.code[b])
  BY <1>1 DEF PassType
<1>. QED
  BY <1>1, <1>2, <1>3, <1>4, Zenon DEF PassType

(* The code of a block is a sequence.                                       *)
LEMMA CodeIsSeq ==
  ASSUME PassType, NEW b \in Blocks
  PROVE  fn.code[b] \in Seq(Instr) /\ Len(fn.code[b]) \in Nat
<1>1. fn \in Functions
  BY DEF PassType
<1>2. fn.code \in [Blocks -> Seq(Instr)]
  BY <1>1, FunctionFacts
<1>3. fn.code[b] \in Seq(Instr)
  BY <1>2
<1>. QED
  BY <1>3

LEMMA PickInv == IInv /\ PickBlock => IInv'
<1>. SUFFICES ASSUME IInv, PickBlock PROVE IInv'
  OBVIOUS
<1>. USE DEF IInv, PickBlock
<1>1. /\ Head(work) \in Blocks /\ Tail(work) \in Seq(Blocks)
      /\ Range(work) = {Head(work)} \cup Range(Tail(work))
  BY RangeOfTail DEF PassType
<1>2. Blocks' = Blocks /\ UNCHANGED <<fn, states, computed>>
  BY DEF Blocks
<1>. DEFINE ps == Preds(Head(work)) \cap computed
<1>3. ps \in SUBSET Blocks
  BY DEF Preds, Blocks
<1>4. /\ Meet(ps) \in StateMap
      /\ \A p \in ps : \A r \in Regs : Meet(ps)[r] = Top \/ Meet(ps)[r] = OutState(p)[r]
      /\ ps = {} => Meet(ps) = Unknown
  BY <1>3, MeetSound
<1>5. PassType'
  <2>1. <<Meet(ps)>> \in Seq(StateMap) /\ <<Meet(ps)>> # <<>>
    BY <1>4
  <2>. QED
    BY <1>1, <1>2, <2>1 DEF PassType
<1>6. AtMeet(Meet(ps), Head(work))
  <2>1. \A p \in computed : Head(work) \in Range(fn.succ[p]) => p \in ps
    BY DEF Preds, Blocks, PassType
  <2>2. Head(work) = fn.entry => ps = {}
    BY FunctionFacts DEF Preds, PassType, Blocks
  <2>. HIDE DEF ps
  <2>. QED
    BY <1>4, <2>1, <2>2 DEF AtMeet
<1>7. IsWalk(Head(work), <<Meet(ps)>>)
  <2>1. PassType /\ Head(work) \in Blocks
    BY <1>1
  <2>2. Len(fn.code[Head(work)]) \in Nat
    BY <2>1, CodeIsSeq, Zenon
  <2>. QED
    BY <2>2 DEF IsWalk
<1>8. trace'[1] = Meet(ps) /\ trace' = <<Meet(ps)>> /\ cur' = Head(work) /\ pc' = "transfer"
  OBVIOUS
<1>9. \A b : Pending(b) => Pending(b)'
  BY <1>1, <1>8 DEF Pending
<1>10. AnalysisInv'
  <2>. HIDE DEF ps
  <2>1. IsWalk(cur, trace)' /\ AtMeet(trace[1], cur)'
    BY <1>2, <1>6, <1>7, <1>8, MeetKept DEF AtMeet, IsWalk, OutState
  <2>2. \A b \in computed' : (Pending(b) \/ AtMeet(InState(b), b))'
    BY <1>2, <1>9 DEF AnalysisInv, AtMeet, InState, OutState
  <2>3. \A b \in computed' : (IsWalk(b, states[b]) /\ Len(states[b]) = Len(fn.code[b]) + 1)'
    BY <1>2 DEF AnalysisInv, IsWalk
  <2>4. (fn.entry \in computed \/ Pending(fn.entry))'
    BY <1>2, <1>9 DEF AnalysisInv
  <2>5. \A p \in computed' : \A b \in Range(fn'.succ[p]) : (b \in computed \/ Pending(b))'
    BY <1>2, <1>9 DEF AnalysisInv
  <2>. QED
    BY <2>1, <2>2, <2>3, <2>4, <2>5 DEF AnalysisInv
<1>11. CodeInv'
  BY <1>2 DEF CodeInv, ErasedOnly
<1>. QED
  BY <1>5, <1>10, <1>11, RunTypeKept

(* One more state of a walk.                                                *)
LEMMA WalkGrows ==
  ASSUME fn \in Functions, NEW b \in Blocks, NEW t \in Seq(StateMap), t # <<>>,
         Len(t) <= Len(fn.code[b])
  PROVE  LET u == Append(t, Transfer(Last(t), fn.code[b][Len(t)])) IN
         /\ u \in Seq(StateMap) /\ u # <<>>
         /\ Len(u) = Len(t) + 1
         /\ \A k \in 1..Len(t) : u[k] = t[k]
         /\ u[Len(t) + 1] = Transfer(t[Len(t)], fn.code[b][Len(t)])
         /\ IsWalk(b, t) => IsWalk(b, u)
<1>. DEFINE v == Transfer(Last(t), fn.code[b][Len(t)])
            u == Append(t, v)
<1>1. Len(t) \in Nat \ {0} /\ Last(t) = t[Len(t)] /\ Last(t) \in StateMap
  BY LastState
<1>2. fn.code[b] \in Seq(Instr) /\ Len(fn.code[b]) \in Nat
  BY FunctionFacts
<1>3. fn.code[b][Len(t)] \in Instr
  BY <1>1, <1>2
<1>4. v \in StateMap
  BY <1>1, <1>3, TransferType
<1>. HIDE DEF v
<1>5. /\ u \in Seq(StateMap) /\ u # <<>>
      /\ Len(u) = Len(t) + 1
      /\ \A k \in 1..Len(t) : u[k] = t[k]
      /\ u[Len(t) + 1] = v
  BY <1>1, <1>4, AppendProperties
<1>6. v = Transfer(t[Len(t)], fn.code[b][Len(t)])
  BY <1>1 DEF v
<1>. HIDE DEF u
<1>7. ASSUME IsWalk(b, t) PROVE IsWalk(b, u)
  <2>1. Len(u) <= Len(fn.code[b]) + 1
    BY <1>1, <1>2, <1>5
  <2>2. ASSUME NEW k \in 1..(Len(u) - 1) PROVE u[k + 1] = Transfer(u[k], fn.code[b][k])
    <3>1. CASE k = Len(t)
      BY <1>1, <1>5, <1>6, <3>1
    <3>2. CASE k # Len(t)
      <4>1. k \in 1..(Len(t) - 1) /\ k \in 1..Len(t) /\ k + 1 \in 1..Len(t)
        BY <1>1, <1>5, <2>2, <3>2
      <4>. QED
        BY <1>5, <1>7, <4>1 DEF IsWalk
    <3>. QED
      BY <3>1, <3>2
  <2>. QED
    BY <2>1, <2>2 DEF IsWalk
<1>. QED
  BY <1>5, <1>6, <1>7 DEF u, v

LEMMA TransferInv == IInv /\ TransferInstr => IInv'
<1>. SUFFICES ASSUME IInv, TransferInstr PROVE IInv'
  OBVIOUS
<1>1. /\ pc = "transfer" /\ pc' = pc /\ cur' = cur /\ code = fn.code
      /\ UNCHANGED <<fn, runVars, work, states, computed, todo, code>>
      /\ Len(trace) <= Len(fn.code[cur])
      /\ trace' = Append(trace, Transfer(Last(trace), fn.code[cur][Len(trace)]))
      /\ PassType /\ RunType /\ AnalysisInv /\ CodeInv /\ RunInv
  BY DEF IInv, TransferInstr, CodeInv
<1>2. Blocks' = Blocks
  BY <1>1 DEF Blocks
<1>3. /\ trace' \in Seq(StateMap) /\ trace' # <<>>
      /\ trace'[1] = trace[1]
      /\ IsWalk(cur, trace')
  <2>1. 1 \in 1..Len(trace)
    BY <1>1, LastState DEF PassType
  <2>. QED
    BY <1>1, <2>1, WalkGrows DEF PassType, AnalysisInv
<1>4. PassType'
  <2>1. cur' \in Blocks /\ todo' \subseteq Blocks
    BY <1>1 DEF PassType
  <2>2. pc' \in {"pick", "transfer", "transform", "erase", "run"}
    BY <1>1
  <2>. QED
    BY <1>1, <1>3, <2>1, <2>2, PassTypeKept
<1>5. AnalysisInv'
  <2>1. (IsWalk(cur, trace) /\ AtMeet(trace[1], cur))'
    <3>1. AtMeet(trace[1], cur)
      BY <1>1 DEF AnalysisInv
    <3>2. IsWalk(cur, trace)'
      BY <1>1, <1>3 DEF IsWalk
    <3>3. AtMeet(trace[1], cur)'
      BY <1>1, <1>3, <3>1 DEF AtMeet, OutState
    <3>. QED
      BY <3>2, <3>3
  <2>. QED
    BY <1>1, <2>1 DEF AnalysisInv, IsWalk, AtMeet, InState, OutState, Pending
<1>6. CodeInv'
  BY <1>1 DEF CodeInv, ErasedOnly
<1>. QED
  BY <1>1, <1>4, <1>5, <1>6, RunTypeKept DEF IInv

LEMMA StoreInv == IInv /\ StoreBlock => IInv'
<1>. SUFFICES ASSUME IInv, StoreBlock PROVE IInv'
  OBVIOUS
<1>1. /\ pc = "transfer" /\ pc' = "pick" /\ cur' = cur /\ code = fn.code
      /\ UNCHANGED <<fn, runVars, trace, todo, code>>
      /\ Len(trace) = Len(fn.code[cur]) + 1
      /\ states' = [states EXCEPT ![cur] = trace]
      /\ computed' = computed \cup {cur}
      /\ PassType /\ RunType /\ AnalysisInv /\ CodeInv /\ RunInv
  BY DEF IInv, StoreBlock, CodeInv
<1>2. Blocks' = Blocks
  BY <1>1 DEF Blocks
<1>. DEFINE changed == cur \notin computed \/ Last(trace) # OutState(cur)
<1>3. work' = IF changed THEN work \o fn.succ[cur] ELSE work
  BY DEF StoreBlock
<1>4. /\ work \o fn.succ[cur] \in Seq(Blocks)
      /\ Range(work \o fn.succ[cur]) = Range(work) \cup Range(fn.succ[cur])
  <2>1. work \in Seq(Blocks) /\ fn.succ[cur] \in Seq(Blocks)
    BY <1>1, FunctionFacts DEF PassType
  <2>. QED
    BY <2>1, RangeOfConcat
<1>5. /\ work' \in Seq(Blocks)
      /\ \A b \in Range(work) : b \in Range(work')
      /\ changed => \A b \in Range(fn.succ[cur]) : b \in Range(work')
  BY <1>1, <1>3, <1>4 DEF PassType
<1>6. /\ states' \in [Blocks -> Seq(StateMap)]
      /\ states'[cur] = trace
      /\ \A b \in Blocks : b # cur => states'[b] = states[b]
      /\ \A b \in Blocks : states'[b] # <<>>
  BY <1>1 DEF PassType
<1>7. PassType'
  BY <1>1, <1>2, <1>5, <1>6 DEF PassType
<1>8. \A b \in Blocks : b # cur => OutState(b)' = OutState(b) /\ InState(b)' = InState(b)
  BY <1>6 DEF OutState, InState
<1>9. OutState(cur)' = Last(trace) /\ InState(cur)' = trace[1]
  BY <1>6, <1>1 DEF OutState, InState
(* Who is not visited again still claims no more than its predecessors.     *)
<1>10. ASSUME NEW S, NEW b, AtMeet(S, b), b \notin Range(work')
       PROVE  AtMeet(S, b)'
  <2>1. ASSUME NEW p \in computed', b \in Range(fn.succ[p]), NEW r \in Regs
        PROVE  S[r] = Top \/ S[r] = OutState(p)'[r]
    <3>1. p \in computed /\ OutState(p)' = OutState(p)
      <4>1. CASE p = cur
        <5>1. ~changed
          BY <1>5, <1>10, <2>1, <4>1
        <5>. QED
          BY <1>6, <4>1, <5>1 DEF OutState
      <4>2. CASE p # cur
        BY <1>1, <1>8, <2>1, <4>2 DEF PassType
      <4>. QED
        BY <4>1, <4>2
    <3>. QED
      BY <1>10, <2>1, <3>1 DEF AtMeet
  <2>. QED
    BY <1>1, <1>10, <2>1 DEF AtMeet
<1>11. \A b \in computed' : (Pending(b) \/ AtMeet(InState(b), b))'
  <2>. SUFFICES ASSUME NEW b \in computed', b \notin Range(work') PROVE AtMeet(InState(b), b)'
    BY DEF Pending
  <2>1. b \in Blocks
    BY <1>1 DEF PassType
  <2>2. CASE b = cur
    <3>1. AtMeet(trace[1], cur)
      BY <1>1 DEF AnalysisInv
    <3>2. \A S : AtMeet(S, b) => AtMeet(S, b)'
      BY <1>10
    <3>. QED
      BY <1>1, <1>9, <2>2, <3>1, <3>2 DEF AtMeet
  <2>3. CASE b # cur
    <3>1. AtMeet(InState(b), b)
      BY <1>1, <1>5, <2>3 DEF AnalysisInv, Pending
    <3>2. \A S : AtMeet(S, b) => AtMeet(S, b)'
      BY <1>10
    <3>. QED
      BY <1>8, <2>1, <2>3, <3>1, <3>2 DEF AtMeet
  <2>. QED
    BY <2>2, <2>3
<1>12. \A b \in computed' : (IsWalk(b, states[b]) /\ Len(states[b]) = Len(fn.code[b]) + 1)'
  <2>1. IsWalk(cur, states'[cur]) /\ Len(states'[cur]) = Len(fn.code[cur]) + 1
    BY <1>1, <1>6 DEF AnalysisInv
  <2>2. ASSUME NEW b \in computed, b # cur
        PROVE  IsWalk(b, states'[b]) /\ Len(states'[b]) = Len(fn.code[b]) + 1
    BY <1>1, <1>6, <2>2 DEF AnalysisInv, PassType
  <2>3. \A b \in computed' : IsWalk(b, states'[b]) /\ Len(states'[b]) = Len(fn.code[b]) + 1
    BY <1>1, <2>1, <2>2
  <2>4. \A b, t : IsWalk(b, t) => IsWalk(b, t)'
    BY <1>1 DEF IsWalk
  <2>. QED
    BY <1>1, <2>3, <2>4 DEF IsWalk
<1>13. (fn.entry \in computed \/ Pending(fn.entry))'
  BY <1>1, <1>5 DEF AnalysisInv, Pending
<1>14. \A p \in computed' : \A b \in Range(fn'.succ[p]) : (b \in computed \/ Pending(b))'
  BY <1>1, <1>5 DEF AnalysisInv, Pending
<1>15. AnalysisInv'
  BY <1>1, <1>11, <1>12, <1>13, <1>14 DEF AnalysisInv
<1>16. CodeInv'
  BY <1>1 DEF CodeInv, ErasedOnly
<1>. QED
  BY <1>1, <1>7, <1>15, <1>16, RunTypeKept DEF IInv

(* The steps that leave the analysis as it is.                              *)
LEMMA AnalysisKept ==
  ASSUME AnalysisInv, UNCHANGED <<fn, work, states, computed>>, pc # "transfer", pc' # "transfer"
  PROVE  AnalysisInv'
BY DEF AnalysisInv, IsWalk, AtMeet, InState, OutState, Pending

LEMMA EndAnalysisInv == IInv /\ EndAnalysis => IInv'
<1>. SUFFICES ASSUME IInv, EndAnalysis PROVE IInv'
  OBVIOUS
<1>1. /\ pc = "pick" /\ pc' = "transform"
      /\ UNCHANGED <<fn, runVars, work, cur, trace, states, computed, todo, code>>
      /\ PassType /\ RunType /\ AnalysisInv /\ CodeInv /\ RunInv
  BY DEF IInv, EndAnalysis
<1>2. PassType'
  BY <1>1 DEF PassType, Blocks
<1>3. CodeInv'
  BY <1>1 DEF CodeInv, ErasedOnly
<1>. QED
  BY <1>1, <1>2, <1>3, AnalysisKept, RunTypeKept DEF IInv

LEMMA TransformInv == IInv /\ TransformBlock => IInv'
<1>. SUFFICES ASSUME IInv, TransformBlock PROVE IInv'
  OBVIOUS
<1>1. /\ pc = "transform" /\ pc' = "erase"
      /\ UNCHANGED <<fn, runVars, work, states, computed, code>>
      /\ PassType /\ RunType /\ AnalysisInv /\ CodeInv /\ RunInv
  BY DEF IInv, TransformBlock
<1>2. PICK b \in todo : cur' = b /\ trace' = <<InState(b)>> /\ todo' = todo \ {b}
  BY DEF TransformBlock
<1>3. b \in Blocks /\ states[b] \in Seq(StateMap) /\ states[b] # <<>>
  BY <1>1, <1>2 DEF PassType
<1>4. InState(b) = states[b][1] /\ InState(b) \in StateMap
  BY <1>3, LastState DEF InState
<1>5. PassType'
  <2>1. cur' \in Blocks /\ trace' \in Seq(StateMap) /\ trace' # <<>>
    BY <1>2, <1>3, <1>4
  <2>2. todo' \subseteq Blocks
    BY <1>1, <1>2 DEF PassType
  <2>3. pc' \in {"pick", "transfer", "transform", "erase", "run"}
    BY <1>1
  <2>. QED
    BY <1>1, <2>1, <2>2, <2>3, PassTypeKept
<1>6. CodeInv'
  <2>1. Len(trace') = 1 /\ Len(fn.code[b]) \in Nat /\ trace'[1] = states[b][1]
    BY <1>1, <1>2, <1>3, <1>4, FunctionFacts DEF PassType
  <2>2. code[b] = fn.code[b]
    BY <1>1, <1>2 DEF CodeInv
  <2>. QED
    BY <1>1, <1>2, <2>1, <2>2 DEF CodeInv, ErasedOnly
<1>. QED
  BY <1>1, <1>5, <1>6, AnalysisKept, RunTypeKept DEF IInv

LEMMA EraseInv == IInv /\ EraseInstr => IInv'
<1>. SUFFICES ASSUME IInv, EraseInstr PROVE IInv'
  OBVIOUS
<1>. DEFINE k == Len(trace)
            i == fn.code[cur][k]
<1>1. /\ pc = "erase" /\ pc' = pc /\ cur' = cur
      /\ UNCHANGED <<fn, runVars, work, states, computed, todo>>
      /\ PassType /\ RunType /\ AnalysisInv /\ CodeInv /\ RunInv
  BY DEF IInv, EraseInstr
<1>2. /\ cur \in Blocks /\ k \in Nat \ {0} /\ Len(fn.code[cur]) \in Nat
      /\ code[cur] \in Seq(Instr) /\ Len(code[cur]) = Len(fn.code[cur])
  BY <1>1, LastState, FunctionFacts DEF PassType
<1>3. k <= Len(fn.code[cur]) /\ code[cur][k] = i /\ Last(trace) = trace[k]
  <2>1. k <= Len(fn.code[cur])
    BY <1>2 DEF EraseInstr
  <2>. QED
    BY <1>1, <1>2, <2>1 DEF CodeInv, Last
<1>4. /\ trace' = Append(trace, Transfer(Last(trace), i))
      /\ code' = IF Redundant(trace[k], i) THEN [code EXCEPT ![cur][k] = Plain("gone")] ELSE code
  BY <1>3 DEF EraseInstr
<1>5. /\ trace' \in Seq(StateMap) /\ trace' # <<>>
      /\ Len(trace') = k + 1
      /\ \A j \in 1..k : trace'[j] = trace[j]
      /\ trace'[k + 1] = Transfer(trace[k], i)
  BY <1>1, <1>2, <1>3, <1>4, WalkGrows DEF PassType
<1>. HIDE DEF k, i
<1>6. /\ \A b \in Blocks : b # cur => code'[b] = code[b]
      /\ code' \in [Blocks -> Seq(Instr)]
      /\ Len(code'[cur]) = Len(code[cur])
      /\ \A j \in 1..Len(fn.code[cur]) : j # k => code'[cur][j] = code[cur][j]
      /\ code'[cur][k] = code[cur][k] \/ (code'[cur][k] = Plain("gone") /\ Redundant(trace[k], i))
  <2>1. CASE ~Redundant(trace[k], i)
    BY <1>1, <1>4, <2>1 DEF PassType
  <2>2. CASE Redundant(trace[k], i)
    <3>. DEFINE c == [code[cur] EXCEPT ![k] = Plain("gone")]
    <3>1. code' = [code EXCEPT ![cur] = c]
      BY <1>4, <2>2
    <3>2. Plain("gone") \in Instr
      BY DEF Plain, Instr
    <3>3. /\ c \in Seq(Instr) /\ Len(c) = Len(code[cur])
          /\ \A j \in 1..Len(fn.code[cur]) : j # k => c[j] = code[cur][j]
          /\ c[k] = Plain("gone")
      BY <1>2, <1>3, <3>2, ExceptSeq
    <3>. HIDE DEF c
    <3>. QED
      BY <1>1, <1>2, <2>2, <3>1, <3>3 DEF PassType
  <2>. QED
    BY <2>1, <2>2
<1>7. PassType'
  <2>1. UNCHANGED <<fn, pc, work, cur, states, computed, todo>> /\ Blocks' = Blocks
    BY <1>1 DEF Blocks
  <2>2. \A b \in Blocks : Len(code'[b]) = Len(fn.code[b])
    BY <1>1, <1>2, <1>6 DEF PassType
  <2>. QED
    BY <1>1, <1>5, <1>6, <2>1, <2>2 DEF PassType
(* In a block that was computed the trace runs along the walk kept of it.   *)
<1>8. ASSUME cur \in computed
      PROVE  /\ \A j \in 1..Len(trace') : trace'[j] = states[cur][j]
             /\ trace[k] = states[cur][k]
  <2>1. \A j \in 1..k : trace[j] = states[cur][j]
    BY <1>1, <1>8 DEF CodeInv, k
  <2>2. /\ Len(states[cur]) = Len(fn.code[cur]) + 1
        /\ \A j \in 1..(Len(states[cur]) - 1) :
             states[cur][j + 1] = Transfer(states[cur][j], fn.code[cur][j])
    BY <1>1, <1>8 DEF AnalysisInv, IsWalk
  <2>3. states[cur][k + 1] = Transfer(states[cur][k], i)
    BY <1>2, <1>3, <2>2 DEF i
  <2>4. k \in 1..k /\ \A j \in 1..(k + 1) : j \in 1..k \/ j = k + 1
    BY <1>2
  <2>. QED
    BY <1>5, <2>1, <2>3, <2>4
<1>9. \A b \in computed' : ErasedOnly(b)'
  <2>. SUFFICES ASSUME NEW b \in computed, NEW j \in 1..Len(fn.code[b])
                PROVE  \/ code'[b][j] = fn.code[b][j]
                       \/ code'[b][j] = Plain("gone") /\ Redundant(states[b][j], fn.code[b][j])
    BY <1>1 DEF ErasedOnly
  <2>1. \/ code[b][j] = fn.code[b][j]
        \/ code[b][j] = Plain("gone") /\ Redundant(states[b][j], fn.code[b][j])
    BY <1>1 DEF CodeInv, ErasedOnly
  <2>2. CASE b = cur /\ j = k
    BY <1>3, <1>6, <1>8, <2>2 DEF i
  <2>3. CASE ~(b = cur /\ j = k)
    BY <1>1, <1>6, <2>1, <2>3 DEF PassType
  <2>. QED
    BY <2>2, <2>3
<1>10. CodeInv'
  <2>1. \A b \in todo' : code'[b] = fn'.code[b]
    BY <1>1, <1>6 DEF CodeInv, PassType
  <2>2. Len(trace') <= Len(fn'.code[cur']) + 1
    BY <1>1, <1>2, <1>3, <1>5
  <2>3. \A j \in Len(trace')..Len(fn'.code[cur']) : code'[cur'][j] = fn'.code[cur'][j]
    <3>. SUFFICES ASSUME NEW j \in (k + 1)..Len(fn.code[cur])
                  PROVE  code'[cur][j] = fn.code[cur][j]
      BY <1>1, <1>5
    <3>1. j \in k..Len(fn.code[cur]) /\ j \in 1..Len(fn.code[cur]) /\ j # k
      BY <1>2
    <3>. QED
      BY <1>1, <1>6, <3>1 DEF CodeInv, k
  <2>. QED
    BY <1>1, <1>8, <1>9, <2>1, <2>2, <2>3 DEF CodeInv
<1>. QED
  BY <1>1, <1>7, <1>10, AnalysisKept, RunTypeKept DEF IInv

LEMMA EndBlockInv == IInv /\ EndBlock => IInv'
<1>. SUFFICES ASSUME IInv, EndBlock PROVE IInv'
  OBVIOUS
<1>1. /\ pc = "erase" /\ pc' = "transform"
      /\ UNCHANGED <<fn, runVars, work, cur, trace, states, computed, todo, code>>
      /\ PassType /\ RunType /\ AnalysisInv /\ CodeInv /\ RunInv
  BY DEF IInv, EndBlock
<1>2. PassType'
  BY <1>1 DEF PassType, Blocks
<1>3. CodeInv'
  BY <1>1 DEF CodeInv, ErasedOnly
<1>. QED
  BY <1>1, <1>2, <1>3, AnalysisKept, RunTypeKept DEF IInv

LEMMA PassDoneInv == IInv /\ PassDone => IInv'
<1>. SUFFICES ASSUME IInv, PassDone PROVE IInv'
  OBVIOUS
<1>1. /\ pc = "transform" /\ pc' = "run"
      /\ UNCHANGED <<fn, runVars, work, cur, trace, states, computed, todo, code>>
      /\ PassType /\ RunType /\ AnalysisInv /\ CodeInv /\ RunInv
  BY DEF IInv, PassDone
<1>2. PassType'
  BY <1>1 DEF PassType, Blocks
<1>3. CodeInv'
  BY <1>1 DEF CodeInv, ErasedOnly
<1>. QED
  BY <1>1, <1>2, <1>3, AnalysisKept, RunTypeKept DEF IInv

-----------------------------------------------------------------------------
(* The function runs.                                                       *)

(* Where the entered function is, when the worklist was drained.            *)
LEMMA Drained ==
  ASSUME IInv, pc = "run", work = <<>>
  PROVE  /\ fn.entry \in computed
         /\ \A p \in computed : \A b \in Range(fn.succ[p]) : b \in computed
         /\ \A b \in computed : AtMeet(InState(b), b)
<1>1. Range(work) = {}
  BY DEF Range
<1>2. \A b : ~Pending(b)
  BY <1>1 DEF Pending
<1>. QED
  BY <1>2 DEF IInv, AnalysisInv

LEMMA EnterInv ==
  ASSUME IInv, pc = "run", Enter, UNCHANGED passVars
  PROVE  IInv'
<1>1. /\ entered' = TRUE /\ reg' \in [Regs -> Values]
      /\ UNCHANGED <<fn, blk, pos, passVars>>
      /\ ~entered
      /\ PassType /\ RunType /\ AnalysisInv /\ CodeInv
  BY DEF IInv, Enter
<1>2. PassType' /\ CodeInv'
  BY <1>1 DEF PassType, CodeInv, ErasedOnly, Blocks, passVars
<1>3. AnalysisInv'
  BY <1>1, AnalysisKept DEF passVars
<1>4. RunType'
  <2>1. entered' \in BOOLEAN
    BY <1>1
  <2>. QED
    BY <1>1, <2>1 DEF RunType, Blocks, passVars
<1>5. ASSUME work' = <<>> PROVE blk' \in computed' /\ TrueOf(states'[blk'][pos' + 1], reg')
  <2>1. work = <<>> /\ blk = fn.entry /\ pos = 0
    BY <1>1, <1>5 DEF RunType, passVars
  <2>2. fn.entry \in computed /\ AtMeet(InState(fn.entry), fn.entry)
    BY <2>1, Drained
  <2>3. states[fn.entry][1] = Unknown
    BY <2>2 DEF AtMeet, InState
  <2>. QED
    BY <1>1, <2>1, <2>2, <2>3 DEF passVars, TrueOf, Unknown, Top
<1>. QED
  BY <1>2, <1>3, <1>4, <1>5 DEF IInv, RunInv
-----------------------------------------------------------------------------

(* A step of the code left behind is the step of the code given: what was   *)
(* erased was idle.                                                         *)
LEMMA StepTruth ==
  ASSUME IInv, pc = "run", work = <<>>, Step(code)
  PROVE  /\ pos < Len(fn.code[blk])
         /\ fn.code[blk][pos + 1] \in Instr
         /\ TrueOf(states[blk][pos + 1], reg) /\ states[blk][pos + 1] \in StateMap
         /\ LET i == fn.code[blk][pos + 1] IN
            \E v \in [Regs -> Values] :
              reg' = [r \in Regs |-> IF r \in Loses(i) THEN v[r] ELSE Moved(i, reg)[r]]
<1>. DEFINE i == fn.code[blk][pos + 1]
            j == code[blk][pos + 1]
<1>1. /\ entered /\ pos < Len(code[blk])
      /\ PassType /\ RunType /\ AnalysisInv /\ CodeInv /\ RunInv
  BY DEF IInv, Step
<1>2. PICK v \in [Regs -> Values] :
        reg' = [r \in Regs |-> IF r \in Loses(j) THEN v[r] ELSE Moved(j, reg)[r]]
  BY DEF Step
<1>3. /\ blk \in Blocks /\ reg \in [Regs -> Values] /\ pos \in Nat
      /\ fn.code[blk] \in Seq(Instr) /\ Len(code[blk]) = Len(fn.code[blk])
  <2>1. blk \in Blocks /\ reg \in [Regs -> Values] /\ pos \in 0..Len(fn.code[blk])
    BY <1>1 DEF RunType
  <2>2. fn.code[blk] \in Seq(Instr) /\ Len(fn.code[blk]) \in Nat
    BY <1>1, <2>1, CodeIsSeq, Zenon
  <2>3. Len(code[blk]) = Len(fn.code[blk])
    BY <1>1, <2>1 DEF PassType
  <2>. QED
    BY <2>1, <2>2, <2>3
<1>4. pos + 1 \in 1..Len(fn.code[blk]) /\ i \in Instr /\ pos < Len(fn.code[blk])
  BY <1>1, <1>3
<1>5. blk \in computed /\ TrueOf(states[blk][pos + 1], reg)
  BY <1>1 DEF RunInv
<1>6. states[blk][pos + 1] \in StateMap
  <2>1. /\ states[blk] \in Seq(StateMap) /\ Len(states[blk]) = Len(fn.code[blk]) + 1
        /\ Len(fn.code[blk]) \in Nat
    BY <1>1, <1>3, <1>5 DEF AnalysisInv, PassType
  <2>2. pos + 1 \in 1..Len(states[blk])
    BY <1>3, <1>4, <2>1
  <2>. QED
    BY <2>1, <2>2
<1>7. j = i \/ (j = Plain("gone") /\ Redundant(states[blk][pos + 1], i))
  BY <1>1, <1>4, <1>5 DEF CodeInv, ErasedOnly
<1>8. CASE j = i
  BY <1>2, <1>4, <1>5, <1>6, <1>8
<1>9. CASE j = Plain("gone") /\ Redundant(states[blk][pos + 1], i)
  <2>. HIDE DEF i, j
  <2>1. reg' = [r \in Regs |-> reg[r]]
    BY <1>2, <1>9 DEF Plain, Loses, Moved
  <2>2. Moved(i, reg) = reg /\ Loses(i) = {}
    BY <1>3, <1>4, <1>5, <1>6, <1>9, RedundantIdle
  <2>3. reg' = [r \in Regs |-> IF r \in Loses(i) THEN reg[r] ELSE Moved(i, reg)[r]]
    BY <2>1, <2>2
  <2>. QED
    BY <1>3, <1>4, <1>5, <1>6, <2>3 DEF i
<1>. QED
  BY <1>7, <1>8, <1>9

LEMMA StepInv ==
  ASSUME IInv, pc = "run", Step(code), UNCHANGED passVars
  PROVE  IInv'
<1>. DEFINE j == code[blk][pos + 1]
<1>1. /\ entered /\ pos < Len(code[blk]) /\ pos' = pos + 1
      /\ UNCHANGED <<fn, entered, blk, passVars>>
      /\ PassType /\ RunType /\ AnalysisInv /\ CodeInv /\ RunInv
  BY DEF IInv, Step
<1>2. PassType' /\ CodeInv'
  BY <1>1 DEF PassType, CodeInv, ErasedOnly, Blocks, passVars
<1>3. AnalysisInv'
  BY <1>1, AnalysisKept DEF passVars
<1>4. RunType'
  <2>1. /\ blk \in Blocks /\ pos \in Nat /\ Len(code[blk]) = Len(fn.code[blk])
        /\ code[blk] \in Seq(Instr) /\ reg \in [Regs -> Values]
    BY <1>1 DEF PassType, RunType
  <2>2. pos' \in 0..Len(fn.code[blk])
    BY <1>1, <2>1
  <2>3. j \in Instr
    BY <1>1, <2>1
  <2>4. PICK v \in [Regs -> Values] :
          reg' = [r \in Regs |-> IF r \in Loses(j) THEN v[r] ELSE Moved(j, reg)[r]]
    BY DEF Step
  <2>. HIDE DEF j
  <2>5. Moved(j, reg) \in [Regs -> Values]
    BY <2>1, <2>3, InstrKinds DEF Moved
  <2>6. reg' \in [Regs -> Values]
    BY <2>4, <2>5
  <2>. QED
    BY <1>1, <2>2, <2>6 DEF RunType, Blocks, passVars
<1>5. ASSUME work' = <<>> PROVE blk' \in computed' /\ TrueOf(states'[blk'][pos' + 1], reg')
  <2>. DEFINE i == fn.code[blk][pos + 1]
              S == states[blk][pos + 1]
  <2>1. work = <<>> /\ blk \in computed
    BY <1>1, <1>5 DEF RunInv, passVars
  <2>2. /\ pos < Len(fn.code[blk]) /\ i \in Instr /\ TrueOf(S, reg) /\ S \in StateMap
        /\ \E v \in [Regs -> Values] :
             reg' = [r \in Regs |-> IF r \in Loses(i) THEN v[r] ELSE Moved(i, reg)[r]]
    BY <2>1, StepTruth
  <2>3. states[blk][pos + 2] = Transfer(S, i)
    <3>1. /\ Len(states[blk]) = Len(fn.code[blk]) + 1
          /\ \A k \in 1..(Len(states[blk]) - 1) :
               states[blk][k + 1] = Transfer(states[blk][k], fn.code[blk][k])
      BY <1>1, <2>1 DEF AnalysisInv, IsWalk
    <3>2. pos \in Nat /\ Len(fn.code[blk]) \in Nat
      <4>1. blk \in Blocks /\ pos \in 0..Len(fn.code[blk])
        BY <1>1 DEF RunType
      <4>2. Len(fn.code[blk]) \in Nat
        BY <1>1, <4>1, CodeIsSeq, Zenon
      <4>. QED
        BY <4>1, <4>2
    <3>3. pos + 1 \in 1..(Len(states[blk]) - 1) /\ (pos + 1) + 1 = pos + 2
      BY <2>2, <3>1, <3>2
    <3>. QED
      BY <3>1, <3>3
  <2>4. reg \in [Regs -> Values] /\ reg' \in [Regs -> Values] /\ pos \in Nat
    BY <1>1, <1>4 DEF RunType
  <2>. HIDE DEF i, S
  <2>5. TrueOf(Transfer(S, i), reg')
    <3>1. \A x \in Regs : x \notin Loses(i) => reg'[x] = Moved(i, reg)[x]
      BY <2>2
    <3>2. \A t \in [Regs -> Values] :
            (\A x \in Regs : x \notin Loses(i) => t[x] = Moved(i, reg)[x]) => TrueOf(Transfer(S, i), t)
      BY <2>2, <2>4, TransferTrue
    <3>. QED
      BY <2>4, <3>1, <3>2
  <2>6. pos' + 1 = pos + 2
    BY <1>1, <2>4
  <2>. QED
    BY <1>1, <2>1, <2>3, <2>5, <2>6 DEF passVars
<1>. QED
  BY <1>2, <1>3, <1>4, <1>5 DEF IInv, RunInv

(* Every claim at the start of a block is a claim at the end of the one     *)
(* that branches to it.                                                     *)
LEMMA BranchInv ==
  ASSUME IInv, pc = "run", Branch(code), UNCHANGED passVars
  PROVE  IInv'
<1>1. /\ entered /\ pos = Len(code[blk]) /\ pos' = 0
      /\ UNCHANGED <<fn, entered, reg, passVars>>
      /\ PassType /\ RunType /\ AnalysisInv /\ CodeInv /\ RunInv
  BY DEF IInv, Branch
<1>2. PICK j \in DOMAIN fn.succ[blk] : blk' = fn.succ[blk][j]
  BY DEF Branch
<1>3. /\ blk \in Blocks /\ fn.succ[blk] \in Seq(Blocks) /\ Len(code[blk]) = Len(fn.code[blk])
      /\ fn.code \in [Blocks -> Seq(Instr)]
  BY <1>1, FunctionFacts DEF PassType, RunType
<1>4. blk' \in Blocks /\ blk' \in Range(fn.succ[blk])
  BY <1>2, <1>3 DEF Range
<1>5. PassType' /\ CodeInv'
  <2>1. PassType'
    BY <1>1 DEF PassType, Blocks, passVars
  <2>2. CodeInv'
    BY <1>1 DEF CodeInv, ErasedOnly, passVars
  <2>. QED
    BY <2>1, <2>2
<1>6. AnalysisInv'
  BY <1>1, AnalysisKept DEF passVars
<1>7. RunType'
  <2>1. pos' \in 0..Len(fn.code[blk'])
    BY <1>1, <1>3, <1>4
  <2>. QED
    BY <1>1, <1>4, <2>1 DEF RunType, Blocks, passVars
<1>8. ASSUME work' = <<>> PROVE blk' \in computed' /\ TrueOf(states'[blk'][pos' + 1], reg')
  <2>1. work = <<>> /\ blk \in computed /\ TrueOf(states[blk][pos + 1], reg)
    BY <1>1, <1>8 DEF RunInv, passVars
  <2>2. blk' \in computed
    BY <1>4, <2>1, Drained
  <2>3. AtMeet(InState(blk)', blk')
    <3>1. \A b \in computed : AtMeet(InState(b), b)
      BY <2>1, Drained
    <3>. QED
      BY <1>1, <2>2, <3>1 DEF InState, passVars
  <2>4. OutState(blk) = states[blk][pos + 1]
    <3>1. states[blk] \in Seq(StateMap) /\ Len(states[blk]) = Len(fn.code[blk]) + 1
      BY <1>1, <1>3, <2>1 DEF PassType, AnalysisInv
    <3>. QED
      BY <1>1, <1>3, <3>1 DEF OutState, Last
  <2>. DEFINE S == states[blk'][1]
              T == states[blk][pos + 1]
  <2>5. \A r \in Regs : S[r] = Top \/ S[r] = T[r]
    <3>1. InState(blk)' = S
      BY <1>1 DEF InState, passVars
    <3>. HIDE DEF S, T
    <3>. QED
      BY <1>4, <2>1, <2>3, <2>4, <3>1 DEF AtMeet, T
  <2>6. TrueOf(S, reg)
    <3>. HIDE DEF S, T
    <3>1. TrueOf(T, reg)
      BY <2>1 DEF T
    <3>. QED
      BY <2>5, <3>1 DEF TrueOf, Top
  <2>. QED
    BY <1>1, <2>2, <2>6 DEF passVars
<1>. QED
  BY <1>5, <1>6, <1>7, <1>8 DEF IInv, RunInv

LEMMA NextInv == IInv /\ [Next]_vars => IInv'
<1>. SUFFICES ASSUME IInv, [Next]_vars PROVE IInv'
  OBVIOUS
<1>1. CASE PickBlock
  BY <1>1, PickInv
<1>2. CASE TransferInstr
  BY <1>2, TransferInv
<1>3. CASE StoreBlock
  BY <1>3, StoreInv
<1>4. CASE EndAnalysis
  BY <1>4, EndAnalysisInv
<1>5. CASE TransformBlock
  BY <1>5, TransformInv
<1>6. CASE EraseInstr
  BY <1>6, EraseInv
<1>7. CASE EndBlock
  BY <1>7, EndBlockInv
<1>8. CASE PassDone
  BY <1>8, PassDoneInv
<1>9. CASE Run
  BY <1>9, EnterInv, StepInv, BranchInv DEF Run
<1>10. CASE UNCHANGED vars
  <2>1. UNCHANGED <<fn, runVars, pc, work, cur, trace, states, computed, todo, code>>
    BY <1>10 DEF vars, passVars
  <2>2. PassType'
    BY <2>1, PassTypeKept DEF IInv, PassType
  <2>3. RunType' /\ RunInv'
    BY <2>1 DEF runVars, IInv, RunType, RunInv, Blocks
  <2>4. AnalysisInv'
    <3>. USE <2>1 DEF IInv, AnalysisInv, IsWalk, AtMeet, InState, OutState, Pending
    <3>1. \A b \in computed' : IsWalk(b, states[b])' /\ Len(states'[b]) = Len(fn'.code[b]) + 1
      OBVIOUS
    <3>2. \A b \in computed' : Pending(b)' \/ AtMeet(InState(b), b)'
      OBVIOUS
    <3>3. (fn.entry \in computed \/ Pending(fn.entry))'
      OBVIOUS
    <3>4. (\A p \in computed : \A b \in Range(fn.succ[p]) : b \in computed \/ Pending(b))'
      OBVIOUS
    <3>5. (pc = "transfer" => IsWalk(cur, trace) /\ AtMeet(trace[1], cur))'
      OBVIOUS
    <3>. QED
      BY <3>1, <3>2, <3>3, <3>4, <3>5, Zenon
  <2>5. CodeInv'
    BY <2>1, Zenon DEF IInv, CodeInv, ErasedOnly
  <2>. QED
    BY <2>2, <2>3, <2>4, <2>5 DEF IInv
<1>. QED
  BY <1>1, <1>2, <1>3, <1>4, <1>5, <1>6, <1>7, <1>8, <1>9, <1>10 DEF Next

LEMMA Invariance == Spec => []IInv
BY InitInv, NextInv, PTL DEF Spec

(* The maps of a drained analysis are true: wherever the function is, on    *)
(* whichever way it came, its registers hold what they are said to hold     *)
(* (getCanon, clobberReg, the meet and the worklist of processFunction).    *)
THEOREM DrainedFactsTrue == Spec => [](work = <<>> => FactsTrue)
<1>1. IInv => (work = <<>> => FactsTrue)
  BY DEF IInv, RunInv, FactsTrue
<1>. QED
  BY <1>1, Invariance, PTL

-----------------------------------------------------------------------------
(* The function left behind implements the one given.                       *)

LEMMA GivenInit == Init => Given!ProgramInit
BY DEF Init, ProgramInit, Given!ProgramInit

LEMMA GivenNext ==
  ASSUME IInv, [Next]_vars, entered => work = <<>>
  PROVE  [Given!ProgramNext]_<<fn, Given!runVars>>
<1>1. CASE Run /\ Enter
  BY <1>1 DEF Given!ProgramNext, Given!Enter, Enter
<1>2. CASE Run /\ Step(code)
  <2>1. pc = "run" /\ Step(code) /\ work = <<>> /\ entered
    BY <1>2 DEF Run, Step
  <2>2. /\ pos < Len(fn.code[blk])
        /\ \E v \in [Regs -> Values] :
             reg' = [r \in Regs |-> IF r \in Loses(fn.code[blk][pos + 1]) THEN v[r]
                                    ELSE Moved(fn.code[blk][pos + 1], reg)[r]]
    BY <2>1, StepTruth
  <2>3. Step(fn.code)
    BY <2>1, <2>2 DEF Step
  <2>. QED
    BY <2>3 DEF Given!ProgramNext, Given!Step, Step, Given!Loses, Loses, Given!Moved, Moved
<1>3. CASE Run /\ Branch(code)
  <2>1. Len(code[blk]) = Len(fn.code[blk])
    BY DEF IInv, PassType, RunType
  <2>. QED
    BY <1>3, <2>1 DEF Given!ProgramNext, Given!Branch, Branch
<1>4. CASE ~Run
  BY <1>4 DEF Next, PickBlock, TransferInstr, StoreBlock, EndAnalysis, TransformBlock, EraseInstr,
             EndBlock, PassDone, vars, runVars, Given!runVars
<1>. QED
  BY <1>1, <1>2, <1>3, <1>4 DEF Run

(* When the worklist was drained, the code that runForwardPass leaves runs  *)
(* as the code it was given: each step is one of the given program or none. *)
THEOREM DrainedSameProgram == Spec /\ [](entered => work = <<>>) => SameProgram
<1>1. IInv /\ (entered => work = <<>>) /\ [Next]_vars => [Given!ProgramNext]_<<fn, Given!runVars>>
  BY GivenNext
<1>. QED
  BY <1>1, GivenInit, Invariance, PTL DEF Spec, SameProgram, Given!Program
=============================================================================
