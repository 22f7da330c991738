------------------------------ MODULE PseudoInstr ------------------------------
(***************************************************************************)
(* The pseudo instructions that live from instruction selection to the      *)
(* expansion after register allocation: what they compute, and what their   *)
(* declarations in V6ClangInstrInfo.td promise the register allocator they  *)
(* read, define and destroy.                                                *)
(***************************************************************************)
EXTENDS Intel8080, Bitwise

Pseudo(op, d, s, t, n) == [op |-> op, d |-> d, s |-> s, t |-> t, n |-> n]

ThreePairs == {"ADD16", "SUB16", "AND16", "OR16", "XOR16", "DAD16"}
Immediates == {"AND16_IMM", "OR16_IMM", "XOR16_IMM"}
Shifts == {"SHL16", "SRL16", "SRA16"}
Shifts8 == {"SHL8", "SRL8", "ROTL8", "ROTR8"}
Compares == {"CMP16", "CMP16_IMM", "CMP16_ZERO", "CMP16_SIGN", "CMP8_ZERO"}
Branches == {"BR_CC16", "BR_CC16_IMM", "BRCOND"}
MemoryOps == {"ALU_M", "INR_M", "DCR_M"}    \* ALU_M: d names the operation
PseudoOps == ThreePairs \cup Immediates \cup Shifts \cup Shifts8 \cup Compares \cup Branches \cup MemoryOps
               \cup {"NEG16", "NEG8", "SEXT", "BUILD_PAIR", "INX16", "DCX16", "ROTL16_1",
                     "LOAD16_P", "STORE16_P", "LOAD16_G", "STORE16_G",
                     "LOAD8_P", "STORE8_P", "STORE8_IMM_P"}

Half(r) == IF r = "" THEN {} ELSE Parts(r)
IsPseudo(i) == i.op \in PseudoOps

Reads(i) ==
  IF ~IsPseudo(i) THEN Reads8080(i)
  ELSE Half(i.s) \cup Half(i.t)
         \cup (IF i.op \in {"ALU_M"} THEN {"A"} ELSE {})
         \cup (IF i.op = "BRCOND" THEN {"F"} ELSE {})

(* SHL16 and its like stand for the pseudo of their shift amount.           *)
Clobbers(i) ==
  CASE i.op \in (ThreePairs \ {"DAD16"}) \cup Immediates \cup {"NEG16", "NEG8", "SEXT", "ROTL16_1"} -> {"A", "F"}
    [] i.op \in {"CMP16", "CMP16_IMM", "CMP16_ZERO", "CMP16_SIGN", "BR_CC16", "BR_CC16_IMM"} -> {"A", "F"}
    [] i.op = "SHL16"              -> IF i.n < 8 THEN {"F"} ELSE IF i.n = 8 THEN {} ELSE {"A", "F"}
    [] i.op = "SRL16" /\ i.n = 8   -> {}
    [] i.op = "SRA16" \/ (i.op = "SRL16" /\ i.n # 8) -> {"A", "F"}
    [] i.op \in Shifts8 \cup {"DAD16", "CMP8_ZERO"} -> {"F"}
    [] OTHER                       -> {}

Results(i) ==
  IF ~IsPseudo(i) THEN Writes8080(i)
  ELSE CASE i.op = "ALU_M" -> IF i.d = "CMP" THEN {"F"} ELSE {"A", "F"}
         [] i.op \in {"INR_M", "DCR_M"} -> {"F"}
         [] i.op \in Branches -> {}
         [] OTHER -> Half(i.d)

Defs(i) == Results(i) \cup Clobbers(i)

-----------------------------------------------------------------------------
Signed(v) == IF v < (ByteSize * ByteSize) \div 2 THEN v ELSE v - (ByteSize * ByteSize)
Signed8(v) == IF v < ByteSize \div 2 THEN v ELSE v - ByteSize
BitOp(op, x, y) == CASE op \in {"AND16", "AND16_IMM"} -> x & y
                     [] op \in {"OR16", "OR16_IMM"}   -> x | y
                     [] op \in {"XOR16", "XOR16_IMM"} -> x ^^ y

(* The pair an arithmetic pseudo computes.                                  *)
Value16(m, i) ==
  LET x == Pair(m, i.s)  y == Pair(m, i.t) IN
  CASE i.op \in {"ADD16", "DAD16"} -> Wrap(x + y)
    [] i.op = "SUB16"    -> Wrap(x - y)
    [] i.op \in {"AND16", "OR16", "XOR16"} -> BitOp(i.op, x, y)
    [] i.op \in Immediates -> BitOp(i.op, x, i.n)
    [] i.op = "NEG16"    -> Wrap(-x)
    [] i.op = "INX16"    -> Wrap(x + i.n)
    [] i.op = "DCX16"    -> Wrap(x - i.n)
    [] i.op = "SHL16"    -> Wrap(x * 2^i.n)
    [] i.op = "SRL16"    -> x \div 2^i.n
    [] i.op = "SRA16"    -> Wrap(Signed(x) \div 2^i.n)
    [] i.op = "ROTL16_1" -> Wrap(2 * x) + (x \div ((ByteSize * ByteSize) \div 2))
    [] i.op = "SEXT"     -> Wrap(Signed8(m.reg[i.s]))
    [] i.op = "BUILD_PAIR" -> (m.reg[i.t] * ByteSize) + m.reg[i.s]
    [] i.op = "LOAD16_P" -> Word(m, x)
    [] i.op = "LOAD16_G" -> Word(m, i.n)

Value8(m, i) ==
  LET x == m.reg[i.s] IN
  CASE i.op = "NEG8"  -> (-x) % ByteSize
    [] i.op = "SHL8"  -> (x * 2^i.n) % ByteSize
    [] i.op = "SRL8"  -> x \div 2^i.n
    [] i.op = "ROTL8" -> ((x * 2^i.n) % ByteSize) + ((x * 2^i.n) \div ByteSize)
    [] i.op = "ROTR8" -> (x \div 2^i.n) + ((x * 2^(8 - i.n)) % ByteSize)

StoreWord(m, a, p) == [m EXCEPT !.mem = PutWord(@, a, m.reg[Hi[p]], m.reg[Lo[p]])]

(* What an item of a block means for a machine; a compare or branch leaves  *)
(* it as it is.                                                             *)
Meaning(m, i) ==
  CASE ~IsPseudo(i) -> Exec(m, i)
    [] i.op \in Compares \cup Branches -> m
    [] i.op = "STORE16_P"    -> StoreWord(m, Pair(m, i.t), i.s)
    [] i.op = "STORE16_G"    -> StoreWord(m, i.n, i.s)
    [] i.op = "LOAD8_P"      -> [m EXCEPT !.reg[i.d] = At(m.mem, Pair(m, i.s))]
    [] i.op = "STORE8_P"     -> [m EXCEPT !.mem = StoreAt(@, Pair(m, i.t), m.reg[i.s])]
    [] i.op = "STORE8_IMM_P" -> [m EXCEPT !.mem = StoreAt(@, Pair(m, i.t), i.n)]
    [] i.op = "ALU_M"        -> [m EXCEPT !.reg = AluResult(@, i.d, At(m.mem, Pair(m, i.t)))]
    [] i.op \in {"INR_M", "DCR_M"} ->
         LET a == Pair(m, i.t)
             v == (At(m.mem, a) + (IF i.op = "INR_M" THEN 1 ELSE -1)) % ByteSize
         IN [m EXCEPT !.mem = StoreAt(@, a, v), !.reg["F"] = Flags(Carry(@), v)]
    [] i.op \in Shifts8 \cup {"NEG8"} -> [m EXCEPT !.reg[i.d] = Value8(m, i)]
    [] OTHER                 -> [m EXCEPT !.reg = SetPair(@, i.d, Value16(m, i))]
=============================================================================
