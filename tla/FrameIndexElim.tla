---------------------------- MODULE FrameIndexElim ----------------------------
(***************************************************************************)
(* The lowering of stack-slot pseudo-instructions to 8080 code:             *)
(* V6ClangRegisterInfo::eliminateFrameIndex and the 8-bit expansions of     *)
(* V6ClangSpillExpand.  A basic block is lowered from its first instruction *)
(* to its last, and runs as it is lowered, next to the abstract machine the *)
(* register allocator reckons with: registers, slots, and nothing else.     *)
(***************************************************************************)
EXTENDS Intel8080, SequencesExt

CONSTANTS
  Slots,     \* frame indices, 1..n
  GVBase,    \* where __v6clang_ss.F lies
  SP0,       \* SP while the block runs: the frame begins there
  Junk,      \* what an interrupt leaves below SP
  Undef,     \* the value of a register nothing may read
  Inputs     \* the blocks a run considers, each with the frames it may have

VARIABLES
  mbb,       \* the basic block: a sequence of pseudo-instructions
  frame,     \* static: slots in __v6clang_ss.F; reserved, liveOut: registers
  pos,       \* instructions of mbb lowered so far
  code,      \* what is left to run of the last one's 8080 code
  m,         \* the 8080
  a          \* the abstract machine: reg, slot, and addr, where each slot lies

elimVars == <<mbb, frame, pos, code, m, a>>

(* kill: the register operand is killed or, in a reload, dead.  In DEF, an  *)
(* instruction that computes a value, fi is that value.                     *)
Mi(op, reg, fi, kill) == [op |-> op, reg |-> reg, fi |-> fi, kill |-> kill, src |-> ""]
Copy(d, s) == [op |-> "MOV", reg |-> d, fi |-> 0, kill |-> FALSE, src |-> s]

(* An 8080 instruction in the block; what it reads of undef does not matter,*)
(* what it reads of killed is not read again.                               *)
Mc(i, undef, killed) == [op |-> "MC", i |-> i, undef |-> undef, killed |-> killed, patch |-> 0]

Spills == {"SPILL8", "SPILL16"}
Reloads == {"RELOAD8", "RELOAD16"}
Stores == {"STORE8_FI", "STORE16_FI"}
Loads == {"LOAD8_FI", "LOAD16_FI"}

(* The register operands, as the .td file declares them.                    *)
UsesOf(mi) ==
  CASE mi.op \in Spills \cup Stores \cup {"USE"} -> Parts(mi.reg)
    [] mi.op = "MOV" -> {mi.src}
    [] mi.op = "MC"  -> Reads8080(mi.i) \ mi.undef
    [] OTHER -> {}

DefsOf(mi) ==
  CASE mi.op \in Reloads \cup {"DEF", "MOV", "CALL"} -> Parts(mi.reg)
    [] mi.op \in Loads \cup {"LEA_FI"} -> Parts(mi.reg) \cup {"H", "L"}
    [] mi.op \in Stores -> {"H", "L"}
    [] mi.op = "MC" -> Writes8080(mi.i)
    [] OTHER -> {}

(* Instruction k of the block replaced by the instructions of s.            *)
Replace(block, k, s) == SubSeq(block, 1, k - 1) \o s \o SubSeq(block, k + 1, Len(block))

(* isRegDeadAfterMI: after instruction k, r is redefined before it is used, *)
(* or reaches the end of the block and no successor takes it.               *)
DeadAfter(block, k, liveOut, r) ==
  LET touching == {j \in k + 1..Len(block) : r \in UsesOf(block[j]) \cup DefsOf(block[j])}
      first == CHOOSE j \in touching : \A i \in touching : j <= i
  IN IF touching = {} THEN r \notin liveOut ELSE r \notin UsesOf(block[first])

DeadSet(k) == {r \in Regs : DeadAfter(mbb, k, frame.liveOut, r)}

-----------------------------------------------------------------------------
(* The expansions.  D is the set of registers that are dead afterwards.     *)
PairDeadLowHalf(D, p) == Lo[p] \in D   \* mutant
PairDead(D, p) == {Hi[p], Lo[p]} \subseteq D
OtherHalf == [H |-> "L", L |-> "H"]

(* findDeadSpareGPR8: a dead register that is neither reserved nor excluded.*)
NoReg == ""
SpareIn(D, reserved, excluded) ==
  LET spares == <<"B", "C", "D", "E">>
      free == {i \in 1..4 : spares[i] \in D \ (reserved \cup {excluded})}
  IN IF free = {} THEN NoReg ELSE spares[Min(free)]

(* Through A: straight if A is dead, else around a copy of A in a spare     *)
(* register, else as the fallback has it.                                   *)
ThroughA(D, reserved, excluded, body, fallback) ==
  LET spare == SpareIn(D, reserved, excluded) IN
  IF "A" \in D THEN body
  ELSE IF spare # NoReg THEN <<Mov(spare, "A")>> \o body \o <<Mov("A", spare)>>
  ELSE fallback

Around(p, body) == <<Push(p)>> \o body \o <<Pop(p)>>

(* expandSpill8Static and expandReload8Static, r not A.                     *)
StaticSpill8(D, reserved, r, addr) ==
  LET viaA == <<Mov("A", r), Sta(addr)>>
      viaM == <<Lxi("HL", addr), MovToM(r)>>
  IN IF r \in {"H", "L"} THEN ThroughA(D, reserved, NoReg, viaA, Around("PSW", viaA))
     ELSE IF PairDead(D, "HL") THEN viaM
     ELSE ThroughA(D, reserved, r, viaA, Around("HL", viaM))

StaticReload8(D, reserved, r, addr) ==
  LET viaA == <<Lda(addr), Mov(r, "A")>>
      viaM == <<Lxi("HL", addr), MovFromM(r)>>
  IN IF r \in {"H", "L"}
     THEN IF OtherHalf[r] \in D THEN viaM
          ELSE ThroughA(D, reserved, NoReg, viaA, Around("PSW", viaA))
     ELSE IF PairDead(D, "HL") THEN viaM
     ELSE ThroughA(D, reserved, r, viaA, Around("HL", viaM))

StoreBytes(p) == <<MovToM(Lo[p]), Inx("HL"), MovToM(Hi[p])>>
LoadBytes(p) == <<MovFromM(Lo[p]), Inx("HL"), MovFromM(Hi[p])>>

StaticSpill16(D, p, kill, addr) ==
  CASE p = "HL" -> <<Shld(addr)>>
    [] p = "DE" -> <<Xchg, Shld(addr)>> \o (IF kill /\ PairDead(D, "HL") THEN <<>> ELSE <<Xchg>>)
    [] p = "BC" -> IF PairDead(D, "HL")
                   THEN <<Mov("L", "C"), Mov("H", "B"), Shld(addr)>>
                   ELSE Around("HL", <<Lxi("HL", addr)>> \o StoreBytes("BC"))

StaticReload16(D, p, addr) ==
  CASE p = "HL" -> <<Lhld(addr)>>
    [] p = "DE" -> (IF PairDead(D, "HL") THEN <<>> ELSE <<Xchg>>) \o <<Lhld(addr), Xchg>>
    [] p = "BC" -> IF PairDead(D, "HL")
                   THEN <<Lhld(addr), Mov("C", "L"), Mov("B", "H")>>
                   ELSE Around("HL", <<Lxi("HL", addr)>> \o LoadBytes("BC"))

StaticCode(D, reserved, mi, addr) ==
  CASE mi.op = "LEA_FI"     -> <<Lxi(mi.reg, addr)>>
    [] mi.op = "SPILL8"     -> IF mi.reg = "A" THEN <<Sta(addr)>> ELSE StaticSpill8(D, reserved, mi.reg, addr)
    [] mi.op = "RELOAD8"    -> IF mi.reg = "A" THEN <<Lda(addr)>> ELSE StaticReload8(D, reserved, mi.reg, addr)
    [] mi.op = "SPILL16"    -> StaticSpill16(D, mi.reg, mi.kill, addr)
    [] mi.op = "RELOAD16"   -> StaticReload16(D, mi.reg, addr)
    [] mi.op = "LOAD8_FI"   -> IF mi.reg = "A" THEN <<Lda(addr)>> ELSE <<Lxi("HL", addr), MovFromM(mi.reg)>>
    [] mi.op = "LOAD16_FI"  -> IF mi.reg = "HL" THEN <<Lhld(addr)>> ELSE <<Lxi("HL", addr)>> \o LoadBytes(mi.reg)
    [] mi.op = "STORE8_FI"  -> IF mi.reg = "A" THEN <<Sta(addr)>> ELSE <<Lxi("HL", addr), MovToM(mi.reg)>>
    [] mi.op = "STORE16_FI" -> <<Lxi("HL", addr)>> \o StoreBytes(mi.reg)

(* Without a static slot: HL is pointed into the stack frame with DAD SP.   *)
(* A pair that is live is pushed first, and the slot is then 2 further up.  *)
AtSlot(off) == <<Lxi("HL", off), DadSp>>

SavingNoAdjust(D, p, body) == IF PairDead(D, p) THEN body[0] ELSE Around(p, body[0])   \* mutant
Saving(D, p, body) == IF PairDead(D, p) THEN body[0] ELSE Around(p, body[2])

DynamicSpill8(D, r, off) ==
  LET val == IF r = "H" THEN "D" ELSE "E"
      other == IF r = "H" THEN "E" ELSE "D"
  IN IF r \in {"H", "L"}
     THEN Saving(D, "DE", [o \in {0, 2} |->
            <<Mov(val, r), Mov(other, OtherHalf[r])>> \o AtSlot(off + o)
              \o <<MovToM(val), Mov("H", "D"), Mov("L", "E")>>])
     ELSE Saving(D, "HL", [o \in {0, 2} |-> AtSlot(off + o) \o <<MovToM(r)>>])

DynamicReload8(D, r, off) ==
  IF r \notin {"H", "L"} THEN Saving(D, "HL", [o \in {0, 2} |-> AtSlot(off + o) \o <<MovFromM(r)>>])
  ELSE IF OtherHalf[r] \in D THEN AtSlot(off) \o <<MovFromM(r)>>
  ELSE Saving(D, "DE", [o \in {0, 2} |->
         <<Mov("D", OtherHalf[r])>> \o AtSlot(off + o) \o <<MovFromM(r), Mov(OtherHalf[r], "D")>>])

DynamicSpill16(D, p, kill, off) ==
  IF p = "HL"
  THEN Saving(D, "DE", [o \in {0, 2} |->
         <<Mov("D", "H"), Mov("E", "L")>> \o AtSlot(off + o) \o StoreBytes("DE")
           \o (IF kill THEN <<>> ELSE <<Mov("H", "D"), Mov("L", "E")>>)])
  ELSE Saving(D, "HL", [o \in {0, 2} |-> AtSlot(off + o) \o StoreBytes(p)])

DynamicReload16(D, p, off) ==
  IF p = "HL"
  THEN Saving(D, "DE", [o \in {0, 2} |->
         AtSlot(off + o) \o LoadBytes("DE") \o <<Mov("H", "D"), Mov("L", "E")>>])
  ELSE Saving(D, "HL", [o \in {0, 2} |-> AtSlot(off + o) \o LoadBytes(p)])

DynamicCode(D, mi, off) ==
  CASE mi.op = "LEA_FI"     -> AtSlot(off) \o (CASE mi.reg = "HL" -> <<>>
                                                 [] mi.reg = "DE" -> <<Xchg>>
                                                 [] mi.reg = "BC" -> <<Mov("B", "H"), Mov("C", "L")>>)
    [] mi.op = "LOAD8_FI"   -> AtSlot(off) \o <<MovFromM(mi.reg)>>
    [] mi.op = "LOAD16_FI"  -> AtSlot(off) \o
                                 (IF mi.reg = "HL"
                                  THEN <<MovFromM("A"), Inx("HL"), MovFromM("H"), Mov("L", "A")>>
                                  ELSE LoadBytes(mi.reg))
    [] mi.op = "STORE8_FI"  -> AtSlot(off) \o <<MovToM(mi.reg)>>
    [] mi.op = "STORE16_FI" -> AtSlot(off) \o StoreBytes(mi.reg)
    [] mi.op = "SPILL8"     -> DynamicSpill8(D, mi.reg, off)
    [] mi.op = "RELOAD8"    -> DynamicReload8(D, mi.reg, off)
    [] mi.op = "SPILL16"    -> DynamicSpill16(D, mi.reg, mi.kill, off)
    [] mi.op = "RELOAD16"   -> DynamicReload16(D, mi.reg, off)

Offset(fi) == 2 * (fi - 1)
SlotAddr(fi) == (IF fi \in frame.static THEN GVBase ELSE SP0) + Offset(fi)

(* Both bytes of every slot, static or not, lie in memory.                  *)
ASSUME SlotsAssumption ==
  /\ Slots \subseteq Nat \ {0} /\ {GVBase, SP0} \subseteq Nat
  /\ \A fi \in Slots : {GVBase + Offset(fi) + 1, SP0 + Offset(fi) + 1} \subseteq Addr

(* The global lies apart from the stack frame and the free stack below it.  *)
ASSUME LayoutAssumption ==
  /\ SP0 \in Addr /\ SP0 >= 4 /\ Junk \in Byte
  /\ \A fi, gi \in Slots : \/ GVBase + Offset(fi) + 1 < SP0 - 4
                          \/ GVBase + Offset(fi) > SP0 + Offset(gi) + 1

(* Instructions without a frame index are 8080 instructions already.        *)
CodeFor(k) ==
  LET mi == mbb[k]
      D == DeadSet(k)
  IN CASE mi.op = "MOV" -> <<Mov(mi.reg, mi.src)>>
       [] mi.op = "DEF" -> IF mi.reg \in Pairs THEN <<Lxi(mi.reg, mi.fi * (ByteSize + 1))>>
                           ELSE <<Mvi(mi.reg, mi.fi)>>
       [] mi.op = "USE" -> <<>>
       [] mi.op = "CALL" -> <<Mvi("A", Junk), Lxi("BC", Junk), Lxi("DE", Junk), Lxi("HL", Junk)>>
       [] OTHER -> IF mi.fi \in frame.static
                   THEN StaticCode(D, frame.reserved, mi, GVBase + Offset(mi.fi))
                   ELSE DynamicCode(D, mi, Offset(mi.fi))

-----------------------------------------------------------------------------
(* What an instruction means before lowering: the values it moves, the      *)
(* registers it declares clobbered, and a killed source that nothing reads. *)
Put(reg, p, w) == IF p \in Pairs THEN [reg EXCEPT ![Hi[p]] = w.hi, ![Lo[p]] = w.lo]
                                 ELSE [reg EXCEPT ![p] = w.lo]
Lose(reg, S) == [r \in Regs |-> IF r \in S THEN Undef ELSE reg[r]]
Value(s, r) == IF r \in Pairs THEN [hi |-> s.reg[Hi[r]], lo |-> s.reg[Lo[r]]]
                              ELSE [hi |-> Undef, lo |-> s.reg[r]]

Meaning(s, mi) ==
  CASE mi.op \in Spills  -> [reg |-> Lose(s.reg, IF mi.kill THEN Parts(mi.reg) ELSE {}),
                             slot |-> [s.slot EXCEPT ![mi.fi] = Value(s, mi.reg)],
                             addr |-> s.addr]
    [] mi.op \in Stores  -> [reg |-> Lose(s.reg, {"H", "L"} \cup (IF mi.kill THEN Parts(mi.reg) ELSE {})),
                             slot |-> [s.slot EXCEPT ![mi.fi] = Value(s, mi.reg)],
                             addr |-> s.addr]
    [] mi.op \in Reloads -> [s EXCEPT !.reg = Lose(Put(@, mi.reg, s.slot[mi.fi]),
                                                   IF mi.kill THEN Parts(mi.reg) ELSE {})]
    [] mi.op \in Loads   -> [s EXCEPT !.reg = Put(Lose(@, {"H", "L"}), mi.reg, s.slot[mi.fi])]
    [] mi.op = "LEA_FI"  -> [s EXCEPT !.reg = Put(Lose(@, {"H", "L"}), mi.reg,
                               [hi |-> s.addr[mi.fi] \div ByteSize, lo |-> s.addr[mi.fi] % ByteSize])]
    [] mi.op = "MOV"     -> [s EXCEPT !.reg = Put(@, mi.reg, Value(s, mi.src))]
    [] mi.op = "DEF"     -> [s EXCEPT !.reg = Put(@, mi.reg, [hi |-> mi.fi, lo |-> mi.fi])]
    [] mi.op = "USE"     -> [s EXCEPT !.reg = Lose(@, IF mi.kill THEN Parts(mi.reg) ELSE {})]
    [] mi.op = "CALL"    -> [s EXCEPT !.reg = Lose(@, Regs)]

Read(s, r) == IF r \in Pairs THEN <<s.reg[Hi[r]], s.reg[Lo[r]]>> ELSE <<s.reg[r]>>

(* A block run on the abstract machine: after k instructions, its state and *)
(* what its USE instructions read.                                          *)
Trace(block, s0) ==
  LET at[k \in 0..Len(block)] ==
        IF k = 0 THEN [s |-> s0, out |-> <<>>]
        ELSE [s |-> Meaning(at[k - 1].s, block[k]),
              out |-> IF block[k].op = "USE"
                      THEN Append(at[k - 1].out, Read(at[k - 1].s, block[k].reg))
                      ELSE at[k - 1].out]
  IN at

Observed(block, s0) == Trace(block, s0)[Len(block)].out

-----------------------------------------------------------------------------
(* Every register starts with a value of its own, and so does every byte of *)
(* the slots.                                                               *)
RegNumber == [A |-> 1, B |-> 2, C |-> 3, D |-> 4, E |-> 5, H |-> 6, L |-> 7, F |-> 0]
MemAtStart == [x \in Addr |-> (x + 3) % ByteSize]
AbstractAtStart ==
  [reg |-> [r \in Regs |-> RegNumber[r]],
   slot |-> [fi \in Slots |-> [hi |-> MemAtStart[SlotAddr(fi) + 1], lo |-> MemAtStart[SlotAddr(fi)]]],
   addr |-> [fi \in Slots |-> SlotAddr(fi)]]

ElimInit ==
  /\ \E in \in Inputs : mbb = in.mbb /\ frame \in in.frames
  /\ pos = 0
  /\ code = <<>>
  /\ m = [reg |-> RegNumber, sp |-> SP0, mem |-> MemAtStart]
  /\ a = AbstractAtStart

(* eliminateFrameIndex on the next instruction.                             *)
Eliminate ==
  /\ code = <<>>
  /\ pos < Len(mbb)
  /\ pos' = pos + 1
  /\ code' = CodeFor(pos + 1)
  /\ a' = Meaning(a, mbb[pos + 1])
  /\ UNCHANGED <<mbb, frame, m>>

Execute ==
  /\ code # <<>>
  /\ m' = Exec(m, Head(code))
  /\ code' = Tail(code)
  /\ UNCHANGED <<mbb, frame, pos, a>>

Interrupt ==
  /\ m' = Interrupted(m, Junk)
  /\ UNCHANGED <<mbb, frame, pos, code, a>>

-----------------------------------------------------------------------------
(* Between two instructions of the block every register that is still to be *)
(* read, and every reserved one, holds the value the allocator put there:   *)
(* an expansion destroys only what is dead or what it declares clobbered,   *)
(* whatever was spared by the liveness scan.                                *)
LiveKept ==
  code = <<>> =>
    \A r \in Regs : (r \in frame.reserved \/ r \notin DeadSet(pos)) /\ a.reg[r] # Undef
                     => m.reg[r] = a.reg[r]

(* Every slot holds the last value spilled to it, also when an interrupt    *)
(* pushed its return address between any two 8080 instructions; the stack   *)
(* is left as it was found, and nothing but the slots and the free stack    *)
(* below SP is written: the caller's frame above is safe.                   *)
SlotsKept ==
  code = <<>> =>
    /\ \A fi \in Slots :
         /\ a.slot[fi].lo # Undef => m.mem[SlotAddr(fi)] = a.slot[fi].lo
         /\ a.slot[fi].hi # Undef => m.mem[SlotAddr(fi) + 1] = a.slot[fi].hi
    /\ m.sp = SP0
    /\ \A x \in Addr : m.mem[x] # MemAtStart[x] =>
         \/ x < SP0 /\ x >= SP0 - 4
         \/ \E fi \in Slots : x \in {SlotAddr(fi), SlotAddr(fi) + 1}
=============================================================================
