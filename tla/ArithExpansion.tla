----------------------------- MODULE ArithExpansion -----------------------------
(***************************************************************************)
(* expandPostRAPseudo for the pseudos that compute and compare: the 8080    *)
(* code each becomes.  The context c says what the expansion may look at:   *)
(* c.dead, the registers, pairs and flags whose value nobody reads any more *)
(* (isRegDeadAfter, isRegDeadAtMI); c.const[p], the constant an LXI is      *)
(* known to have put into p (findDefiningLXI); and c.prev, the code emitted *)
(* before it in the block.                                                  *)
(***************************************************************************)
EXTENDS PseudoInstr, FiniteSetsExt

NoConst == -1

When(cond, code) == IF cond THEN code ELSE <<>>
Times(n, i) == [k \in 1..n |-> i]
RECURSIVE Repeat(_, _)
Repeat(n, code) == IF n = 0 THEN <<>> ELSE code \o Repeat(n - 1, code)

CopyPair(d, s) == IF d = s THEN <<>> ELSE <<Mov(Hi[d], Hi[s]), Mov(Lo[d], Lo[s])>>
KeepHL(keep, code) == When(keep, <<Push("HL")>>) \o code \o When(keep, <<Pop("HL")>>)
ClearA == Alu("XRA", "A")
AddA == Alu("ADD", "A")

-----------------------------------------------------------------------------
(* A small constant is added by stepping the other operand: eight cycles a  *)
(* step against the LXI and DAD it saves, which is three steps at most for  *)
(* speed, size or both.                                                     *)
MaxSteps == 3
Steps(v) == IF Signed(v) \in (-MaxSteps)..MaxSteps THEN Signed(v) ELSE 0
Step(p, n) == Times(IF n < 0 THEN -n ELSE n, IF n < 0 THEN Dcx(p) ELSE Inx(p))

(* The pair whose LXI the expansion of i makes unnecessary, or "".          *)
ConstPair(i, c) ==
  CASE i.op = "DAD16" -> IF i.t = "HL" THEN i.s ELSE i.t
    [] i.op = "ADD16" -> IF c.const[i.t] # NoConst THEN i.t ELSE i.s
    [] i.op = "SUB16" -> i.t
BasePair(i, c) == IF ConstPair(i, c) = i.t THEN i.s ELSE i.t

FoldedPair(i, c) ==
  IF /\ i.op \in {"DAD16", "ADD16", "SUB16"}
     /\ "F" \in c.dead
     /\ c.const[ConstPair(i, c)] # NoConst
     /\ Steps(c.const[ConstPair(i, c)]) # 0
     /\ i.op # "DAD16" => i.d = BasePair(i, c)
  THEN ConstPair(i, c) ELSE ""

(* INX16 and DCX16, by any number of steps.                                 *)
StepCode(i) == Times(i.n, IF i.op = "INX16" THEN Inx(i.d) ELSE Dcx(i.d))

HLDead(c) == {"H", "L"} \subseteq c.dead

DadCode(i, c) ==
  LET base == IF i.t = "HL" THEN "HL" ELSE i.s
      add == IF i.t = "HL" THEN i.s ELSE i.t
      keep == i.d # "HL" /\ ~HLDead(c)
      sum == IF FoldedPair(i, c) # "" THEN Step("HL", Steps(c.const[add])) ELSE <<Dad(add)>>
  IN IF FoldedPair(i, c) = "" /\ keep /\ base = "HL" /\ add = "DE" /\ i.d = "DE"
     THEN <<Xchg, Dad("DE"), Xchg>>
     ELSE KeepHL(keep, CopyPair("HL", base) \o sum \o CopyPair(i.d, "HL"))

ByBytes(d, s, t, low, high) ==
  <<Mov("A", Lo[s]), Alu(low, Lo[t]), Mov(Lo[d], "A"),
    Mov("A", Hi[s]), Alu(high, Hi[t]), Mov(Hi[d], "A")>>

AddCode(i, c) ==
  LET both == {i.s, i.t}
      other(p) == IF i.s = p THEN i.t ELSE i.s
      swap(p) == <<Xchg, Dad(p), Xchg>>
  IN
  IF FoldedPair(i, c) # "" THEN Step(i.d, Steps(c.const[ConstPair(i, c)]))
  ELSE CASE i.d = "HL" /\ "HL" \in both -> <<Dad(other("HL"))>>
         [] i.d = "HL" /\ "HL" \notin both ->
              IF Cardinality(both) = 2 /\ "DE" \in both /\ "DE" \in c.dead
              THEN <<Xchg, Dad(other("DE"))>>
              ELSE CopyPair("HL", i.s) \o <<Dad(i.t)>>
         [] i.d = "DE" /\ both = {"DE"}       -> swap("HL")
         [] i.d = "DE" /\ both = {"DE", "BC"} -> swap("BC")
         [] i.d = "BC" /\ both = {"DE", "BC"} /\ "DE" \in c.dead -> swap("BC") \o CopyPair("BC", "DE")
         [] i.d = "DE" /\ "HL" \in both ->
              IF "HL" \in c.dead THEN <<Dad(other("HL")), Xchg>>
              ELSE IF other("HL") = "DE" THEN swap("DE")
              ELSE KeepHL(TRUE, <<Dad(other("HL")), Xchg>>)
         [] i.d = "BC" /\ "HL" \in both ->
              KeepHL("HL" \notin c.dead, <<Dad(other("HL"))>> \o CopyPair("BC", "HL"))
         [] OTHER -> ByBytes(i.d, i.s, i.t, "ADD", "ADC")

SubCode(i, c) ==
  IF FoldedPair(i, c) # "" THEN Step(i.d, -Steps(c.const[i.t]))
  ELSE ByBytes(i.d, i.s, i.t, "SUB", "SBB")

-----------------------------------------------------------------------------
(* Negation, sign extension, bitwise operations.                            *)
NegCode(i) ==
  <<ClearA, Alu("SUB", Lo[i.s]), Mov(Lo[i.d], "A"),
    Alu("SBB", "A"), Alu("SUB", Hi[i.s]), Mov(Hi[i.d], "A")>>

(* NEG8 takes its operand from A when the copy out of A is the instruction  *)
(* before it; that copy then goes.                                          *)
FoldsCopy(i, c) ==
  /\ i.op = "NEG8"
  /\ i.s # "A" /\ (i.s = i.d \/ i.s \in c.dead)
  /\ c.prev # <<>> /\ c.prev[Len(c.prev)] = Mov(i.s, "A")

Neg8Code(i, c) ==
  (IF i.s = "A" \/ FoldsCopy(i, c) THEN <<Cma, Inr("A")>> ELSE <<ClearA, Alu("SUB", i.s)>>)
    \o When(i.d # "A", <<Mov(i.d, "A")>>)

SignOf(r) == <<Mov("A", r), Rotate("RLC"), Alu("SBB", "A")>>
SextCode(i) == When(i.s # Lo[i.d], <<Mov(Lo[i.d], i.s)>>) \o SignOf(i.s) \o <<Mov(Hi[i.d], "A")>>

BuildPairCode(i) ==
  When(i.t # Hi[i.d], <<Mov(Hi[i.d], i.t)>>) \o When(i.s # Lo[i.d], <<Mov(Lo[i.d], i.s)>>)

AluName == [AND16 |-> "ANA", OR16 |-> "ORA", XOR16 |-> "XRA",
            AND16_IMM |-> "ANA", OR16_IMM |-> "ORA", XOR16_IMM |-> "XRA"]

LogicCode(i, c) ==
  LET op == AluName[i.op]  code == ByBytes(i.d, i.s, i.t, op, op)
  IN IF Hi[i.d] \in c.dead THEN SubSeq(code, 1, 3) ELSE code

LogicImmByte(op, b, r) ==
  LET same == IF op = "AND16_IMM" THEN ByteSize - 1 ELSE 0
      fixed == IF op = "AND16_IMM" THEN 0 ELSE ByteSize - 1
  IN IF b = same THEN <<>>
     ELSE IF b = fixed /\ op # "XOR16_IMM" THEN <<Mvi(r, b)>>
     ELSE <<Mvi("A", b), Alu(AluName[op], r), Mov(r, "A")>>
LogicImmCode(i, c) ==
  LogicImmByte(i.op, i.n % ByteSize, Lo[i.d])
    \o When(Hi[i.d] \notin c.dead, LogicImmByte(i.op, i.n \div ByteSize, Hi[i.d]))

-----------------------------------------------------------------------------
(* Shifts by a constant, 1..15 for a pair and 1..7 for A.                   *)
ViaHL(i, c, code) ==
  IF i.d = "DE" /\ i.s = "DE" THEN <<Xchg>> \o code \o <<Xchg>>
  ELSE KeepHL(i.d # "HL" /\ ~HLDead(c), CopyPair("HL", i.s) \o code \o CopyPair(i.d, "HL"))

(* Eight bits more, A above HL: shift left what is left of eight.           *)
By24Bits(seed, n) ==
  seed \o Repeat(8 - n, <<Dad("HL"), Alu("ADC", "A")>>) \o <<Mov("L", "H"), Mov("H", "A")>>

(* Turning a byte right by n, in the shorter direction.                     *)
Turn(n) == IF n <= 4 THEN Times(n, Rotate("RRC")) ELSE Times(8 - n, Rotate("RLC"))
LowMask(n) == 2^(8 - n) - 1
HighMask(n) == (ByteSize - 1) - LowMask(n)

ShlCode(i, c) ==
  LET low == Mov("A", Lo[i.s])  finish == <<Mvi(Lo[i.d], 0), Mov(Hi[i.d], "A")>> IN
  CASE i.n < 8  -> ViaHL(i, c, Times(i.n, Dad("HL")))
    [] i.n = 8  -> <<Mov(Hi[i.d], Lo[i.s]), Mvi(Lo[i.d], 0)>>
    [] i.n \in 9..13  -> <<low>> \o Times(i.n - 8, AddA) \o finish
    [] i.n \in 14..15 -> <<low>> \o Times(16 - i.n, Rotate("RRC"))
                           \o <<AluImm("ANA", IF i.n = 14 THEN 192 ELSE 128)>> \o finish

(* priorClearsCarry: the last instruction before that defines the flags.    *)
SetsFlags(x) == "F" \in Writes8080(x) \/ x.op = "DAD"
CarryClear(prev) ==
  LET at == {k \in 1..Len(prev) : SetsFlags(prev[k])}
  IN at # {} /\ prev[Max(at)].op \in {"ANA", "XRA", "ORA"}

ShiftBit(d, first) ==
  <<Mov("A", Hi[d])>> \o first \o <<Rotate("RAR"), Mov(Hi[d], "A"),
    Mov("A", Lo[d]), Rotate("RAR"), Mov(Lo[d], "A")>>
SignToCarry(d) == <<Rotate("RLC"), Mov("A", Hi[d])>>

SrlCode(i, c) ==
  CASE i.n <= 2 -> CopyPair(i.d, i.s)
                     \o ShiftBit(i.d, When(~CarryClear(c.prev), <<Alu("ORA", "A")>>))
                     \o Repeat(i.n - 1, ShiftBit(i.d, <<Alu("ORA", "A")>>))
    [] i.n \in 3..7 -> ViaHL(i, c, By24Bits(<<ClearA>>, i.n))
    [] i.n = 8  -> <<Mov(Lo[i.d], Hi[i.s]), Mvi(Hi[i.d], 0)>>
    [] i.n > 8  -> <<Mov("A", Hi[i.s])>> \o Turn(i.n - 8)
                     \o <<AluImm("ANA", LowMask(i.n - 8)), Mov(Lo[i.d], "A"), Mvi(Hi[i.d], 0)>>

(* SRA by 9..15 works on the high byte alone and then fills in its sign.    *)
SraLowCode(i, c) ==
  LET n == i.n - 8  hi == Hi[i.s]  lo == Lo[i.d]
      wanted == Hi[i.d] \notin c.dead
      sign == SignOf(hi) \o When(wanted, <<Mov(Hi[i.d], "A")>>)
      half(r) == <<Mov("A", r), Rotate("RLC"), Mov("A", r), Rotate("RAR"), Mov(lo, "A")>>
  IN CASE n = 1 /\ ~wanted -> half(hi)
       [] n = 1 /\ wanted  -> <<Mov("A", hi), Mov(lo, hi)>> \o Tail(sign) \o half(lo)
       [] n = 7 -> sign \o <<Mov(lo, "A")>>
       [] OTHER -> <<Mov("A", hi)>> \o Turn(n) \o <<AluImm("ANA", LowMask(n)), Mov(lo, "A")>>
                     \o sign \o <<AluImm("ANA", HighMask(n)), Alu("ORA", lo), Mov(lo, "A")>>

SraCode(i, c) ==
  CASE i.n <= 2 -> CopyPair(i.d, i.s) \o Repeat(i.n, ShiftBit(i.d, SignToCarry(i.d)))
    [] i.n \in 3..7 -> ViaHL(i, c, By24Bits(SignOf("H"), i.n))
    [] i.n = 8  -> <<Mov("A", Hi[i.s]), Mov(Lo[i.d], Hi[i.s])>> \o Tail(SignOf(Hi[i.s]))
                     \o <<Mov(Hi[i.d], "A")>>
    [] i.n > 8  -> SraLowCode(i, c)

RotlCode == <<Dad("HL"), Mvi("A", 0), Alu("ADC", "L"), Mov("L", "A")>>

(* Of A: instruction selection already builds these from one-bit steps.     *)
Shift8Code(i) ==
  CASE i.op = "SHL8"  -> Times(i.n, AddA)
    [] i.op = "SRL8"  -> Turn(i.n) \o <<AluImm("ANA", LowMask(i.n))>>
    [] i.op = "ROTR8" -> Turn(i.n)
    [] i.op = "ROTL8" -> IF i.n > 4 THEN Times(8 - i.n, Rotate("RRC")) ELSE Times(i.n, Rotate("RLC"))

-----------------------------------------------------------------------------
(* Comparisons: the flags a conditional jump then looks at.                 *)
Minus(s, t) == <<Mov("A", Lo[s]), Alu("SUB", Lo[t]), Mov("A", Hi[s]), Alu("SBB", Hi[t])>>
MinusFrom(n, s) ==
  <<Mvi("A", n % ByteSize), Alu("SUB", Lo[s]), Mvi("A", n \div ByteSize), Alu("SBB", Hi[s])>>

ZeroTest(p) == <<Mov("A", Hi[p]), Alu("ORA", Lo[p])>>
SignTestCode(p) == <<ClearA, Alu("ADD", Hi[p])>>

Cmp8ZeroCode(i, c) ==
  IF i.s = "A" THEN <<Alu("ORA", "A")>>
  ELSE IF "A" \in c.dead THEN <<ClearA, Alu("CMP", i.s)>>
  ELSE <<Inr(i.s), Dcr(i.s)>>

(* Equality branches look at one byte after the other, in two blocks.       *)
EqualBranch(cc, first, second) ==
  first \o <<J("NZ", IF cc = "Z" THEN "fall" ELSE "taken")>> \o second \o <<J(cc, "taken"), J("", "fall")>>

BrCode(i) ==
  IF i.d \in {"Z", "NZ"}
  THEN EqualBranch(i.d, <<Mov("A", Lo[i.s]), Alu("CMP", Lo[i.t])>>, <<Mov("A", Hi[i.s]), Alu("CMP", Hi[i.t])>>)
  ELSE Minus(i.s, i.t) \o <<J(i.d, "taken")>>

BrImmCode(i) ==
  LET lo == i.n % ByteSize  hi == i.n \div ByteSize IN
  IF i.d \notin {"Z", "NZ"} THEN MinusFrom(i.n, i.s) \o <<J(i.d, "taken")>>
  ELSE IF i.n = 0 THEN ZeroTest(i.s) \o <<J(i.d, "taken")>>
  ELSE EqualBranch(i.d, <<Mvi("A", lo), Alu("CMP", Lo[i.s])>>,
                   When(lo # hi, <<Mvi("A", hi)>>) \o <<Alu("CMP", Hi[i.s])>>)
=============================================================================
