------------------------------- MODULE Intel8080 -------------------------------
(***************************************************************************)
(* As much of the 8080 as the generated code uses: the registers, the       *)
(* stack pointer, memory, and the instructions that move bytes, compute in  *)
(* the accumulator and branch.  "F" holds the flags: carry, zero and sign   *)
(* (parity and auxiliary carry are never read by the code that is modelled).*)
(* A machine may carry only the memory that matters: what is outside reads  *)
(* as 0 until it is written.                                                *)
(***************************************************************************)
EXTENDS Integers, Sequences

CONSTANT ByteSize   \* 256 on the 8080; a power of two, three bits at least for the flags

ASSUME ByteSizeAssumption == ByteSize \in Nat \ {0} /\ ByteSize % 8 = 0

Byte == 0..(ByteSize - 1)
Addr == 0..(ByteSize * ByteSize - 1)
Wrap(n) == n % (ByteSize * ByteSize)

Regs == {"A", "B", "C", "D", "E", "H", "L"}
Pairs == {"BC", "DE", "HL"}
Hi == [BC |-> "B", DE |-> "D", HL |-> "H", PSW |-> "A"]
Lo == [BC |-> "C", DE |-> "E", HL |-> "L", PSW |-> "F"]
Parts(r) == IF r \in Pairs THEN {Hi[r], Lo[r]} ELSE {r}

Machine == [reg : [Regs \cup {"F"} -> Byte], sp : Addr, mem : [Addr -> Byte]]

-----------------------------------------------------------------------------
(* Instructions; n is an immediate or an address.                           *)
Instr(op, d, s, n) == [op |-> op, d |-> d, s |-> s, n |-> n]
Mov(d, s) == Instr("MOV", d, s, 0)
MovFromM(d) == Instr("MOVrM", d, "M", 0)
MovToM(s) == Instr("MOVMr", "M", s, 0)
Mvi(d, n) == Instr("MVI", d, "", n)
Lxi(p, n) == Instr("LXI", p, "", n)
Inx(p) == Instr("INX", p, "", 0)
Dcx(p) == Instr("DCX", p, "", 0)
Dad(p) == Instr("DAD", p, "", 0)
DadSp == Dad("SP")
Sphl == Instr("SPHL", "", "", 0)
Xchg == Instr("XCHG", "", "", 0)
Push(p) == Instr("PUSH", p, "", 0)
Pop(p) == Instr("POP", p, "", 0)
Lda(a) == Instr("LDA", "A", "", a)
Sta(a) == Instr("STA", "", "A", a)
Lhld(a) == Instr("LHLD", "HL", "", a)
Shld(a) == Instr("SHLD", "", "HL", a)
Ldax(p) == Instr("LDAX", "A", p, 0)
Stax(p) == Instr("STAX", p, "A", 0)
Alu(op, s) == Instr(op, "A", s, 0)        \* s: a register, or "M"
AluImm(op, n) == Instr(op, "A", "", n)
Rotate(op) == Instr(op, "A", "A", 0)
Cma == Instr("CMA", "A", "A", 0)
Inr(d) == Instr("INR", d, "", 0)          \* d: a register, or "M"
Dcr(d) == Instr("DCR", d, "", 0)
MviM(n) == Instr("MVIM", "M", "", n)
J(cc, to) == Instr("J", to, cc, 0)

AluOps == {"ADD", "ADC", "SUB", "SBB", "ANA", "ORA", "XRA", "CMP"}
Rotates == {"RLC", "RRC", "RAL", "RAR"}

-----------------------------------------------------------------------------
Pair(m, p) == m.reg[Hi[p]] * ByteSize + m.reg[Lo[p]]
SetSp(m, v) == [m EXCEPT !.sp = Wrap(v)]
SetPair(reg, p, v) == [reg EXCEPT ![Hi[p]] = v \div ByteSize, ![Lo[p]] = v % ByteSize]
At(mem, a) == IF a \in DOMAIN mem THEN mem[a] ELSE 0
StoreAt(mem, a, v) ==
  IF a \in DOMAIN mem THEN [mem EXCEPT ![a] = v]
  ELSE [x \in DOMAIN mem \cup {a} |-> IF x = a THEN v ELSE mem[x]]
Word(m, a) == At(m.mem, Wrap(a + 1)) * ByteSize + At(m.mem, a)
PutWord(mem, a, hi, lo) == StoreAt(StoreAt(mem, a, lo), Wrap(a + 1), hi)

Carry(f) == f % 2
Zero(f) == (f \div (ByteSize \div 4)) % 2
Sign(f) == f \div (ByteSize \div 2)
Flags(cy, v) == cy + (IF v = 0 THEN ByteSize \div 4 ELSE 0)
                   + (IF v >= ByteSize \div 2 THEN ByteSize \div 2 ELSE 0)
SetCarry(reg, cy) == [reg EXCEPT !["F"] = (@ - Carry(@)) + cy]
Holds(cc, f) ==
  CASE cc = "Z" -> Zero(f) = 1  [] cc = "NZ" -> Zero(f) = 0
    [] cc = "C" -> Carry(f) = 1 [] cc = "NC" -> Carry(f) = 0
    [] cc = "M" -> Sign(f) = 1  [] cc = "P"  -> Sign(f) = 0

(* The bits of which a number of x and y that is in ones have set.          *)
BitSum(x, y, ones) ==
  LET from[w \in 1..ByteSize] ==
        IF w >= ByteSize THEN 0
        ELSE (IF ((x \div w) % 2) + ((y \div w) % 2) \in ones THEN w ELSE 0) + from[2 * w]
  IN from[1]

(* The accumulator and carry after an operation on it.                      *)
AluSum(op, x, y, cy) ==
  CASE op = "ADD" -> x + y
    [] op = "ADC" -> x + y + cy
    [] op \in {"SUB", "CMP"} -> x - y
    [] op = "SBB" -> x - y - cy
    [] op = "ANA" -> BitSum(x, y, {2})
    [] op = "ORA" -> BitSum(x, y, {1, 2})
    [] op = "XRA" -> BitSum(x, y, {1})

AluResult(reg, op, y) ==
  LET sum == AluSum(op, reg["A"], y, Carry(reg["F"]))
      f == Flags(IF sum \in Byte THEN 0 ELSE 1, sum % ByteSize)
  IN [reg EXCEPT !["A"] = IF op = "CMP" THEN @ ELSE sum % ByteSize, !["F"] = f]

RotateResult(reg, op) ==
  LET a == reg["A"]  top == a \div (ByteSize \div 2)  low == a % 2
      into == IF op \in {"RAL", "RAR"} THEN Carry(reg["F"]) ELSE IF op = "RLC" THEN top ELSE low
      left == op \in {"RLC", "RAL"}
  IN [reg EXCEPT !["A"] = IF left THEN ((2 * a) % ByteSize) + into ELSE (a \div 2) + (into * (ByteSize \div 2)),
                 !["F"] = (@ - Carry(@)) + (IF left THEN top ELSE low)]

(* What one instruction does; a jump leaves the machine as it is.           *)
Exec(m, i) ==
  CASE i.op = "MOV"   -> [m EXCEPT !.reg[i.d] = m.reg[i.s]]
    [] i.op = "MOVrM" -> [m EXCEPT !.reg[i.d] = At(m.mem, Pair(m, "HL"))]
    [] i.op = "MOVMr" -> [m EXCEPT !.mem = StoreAt(@, Pair(m, "HL"), m.reg[i.s])]
    [] i.op = "MVI"   -> [m EXCEPT !.reg[i.d] = i.n]
    [] i.op = "LXI" /\ i.d = "SP" -> SetSp(m, i.n)
    [] i.op = "INX" /\ i.d = "SP" -> SetSp(m, m.sp + 1)
    [] i.op = "DCX" /\ i.d = "SP" -> SetSp(m, m.sp + ByteSize * ByteSize - 1)
    [] i.op = "SPHL"  -> SetSp(m, Pair(m, "HL"))
    [] i.op = "LXI" /\ i.d # "SP" -> [m EXCEPT !.reg = SetPair(@, i.d, i.n)]
    [] i.op = "INX" /\ i.d # "SP" -> [m EXCEPT !.reg = SetPair(@, i.d, Wrap(Pair(m, i.d) + 1))]
    [] i.op = "DCX" /\ i.d # "SP" -> [m EXCEPT !.reg = SetPair(@, i.d, Wrap(Pair(m, i.d) + ByteSize * ByteSize - 1))]
    [] i.op = "DAD"   -> LET sum == Pair(m, "HL") + (IF i.d = "SP" THEN m.sp ELSE Pair(m, i.d)) IN
                         [m EXCEPT !.reg = SetCarry(SetPair(@, "HL", Wrap(sum)), IF sum = Wrap(sum) THEN 0 ELSE 1)]
    [] i.op = "XCHG"  -> [m EXCEPT !.reg = SetPair(SetPair(@, "HL", Pair(m, "DE")), "DE", Pair(m, "HL"))]
    [] i.op = "PUSH"  -> LET to == Wrap(m.sp + ByteSize * ByteSize - 2) IN
                         [m EXCEPT !.sp = to,
                                   !.mem = PutWord(@, to, m.reg[Hi[i.d]], m.reg[Lo[i.d]])]
    [] i.op = "POP"   -> [m EXCEPT !.sp = Wrap(@ + 2), !.reg = SetPair(@, i.d, Word(m, m.sp))]
    [] i.op = "LDA"   -> [m EXCEPT !.reg["A"] = At(m.mem, i.n)]
    [] i.op = "STA"   -> [m EXCEPT !.mem = StoreAt(@, i.n, m.reg["A"])]
    [] i.op = "LHLD"  -> [m EXCEPT !.reg = SetPair(@, "HL", Word(m, i.n))]
    [] i.op = "SHLD"  -> [m EXCEPT !.mem = PutWord(@, i.n, m.reg["H"], m.reg["L"])]
    [] i.op = "LDAX"  -> [m EXCEPT !.reg["A"] = At(m.mem, Pair(m, i.s))]
    [] i.op = "STAX"  -> [m EXCEPT !.mem = StoreAt(@, Pair(m, i.d), m.reg["A"])]
    [] i.op = "MVIM"  -> [m EXCEPT !.mem = StoreAt(@, Pair(m, "HL"), i.n)]
    [] i.op = "CMA"   -> [m EXCEPT !.reg["A"] = ByteSize - 1 - @]
    [] i.op \in {"INR", "DCR"} ->
         LET at == Pair(m, "HL")
             old == IF i.d = "M" THEN At(m.mem, at) ELSE m.reg[i.d]
             new == (IF i.op = "INR" THEN old + 1 ELSE old - 1) % ByteSize
             f == Flags(Carry(m.reg["F"]), new)
         IN IF i.d = "M" THEN [m EXCEPT !.mem = StoreAt(@, at, new), !.reg["F"] = f]
            ELSE [m EXCEPT !.reg[i.d] = new, !.reg["F"] = f]
    [] i.op \in AluOps ->
         LET y == IF i.s = "M" THEN At(m.mem, Pair(m, "HL")) ELSE IF i.s = "" THEN i.n ELSE m.reg[i.s]
         IN [m EXCEPT !.reg = AluResult(@, i.op, y)]
    [] i.op \in Rotates -> [m EXCEPT !.reg = RotateResult(@, i.op)]
    [] i.op = "J"     -> m

(* The registers an instruction reads and writes; "F" only where the code   *)
(* that asks looks at it.                                                   *)
AtHL(r) == IF r = "M" THEN {"H", "L"} ELSE IF r = "" THEN {} ELSE Parts(r)

Reads8080(i) ==
  CASE i.op = "MOV"              -> {i.s}
    [] i.op \in {"MOVrM", "SHLD", "MVIM"} -> {"H", "L"}
    [] i.op = "DAD"              -> {"H", "L"} \cup (IF i.d = "SP" THEN {} ELSE Parts(i.d))
    [] i.op = "MOVMr"            -> {i.s, "H", "L"}
    [] i.op = "XCHG"             -> {"D", "E", "H", "L"}
    [] i.op \in {"INX", "DCX", "PUSH"} -> IF i.d = "SP" THEN {} ELSE {Hi[i.d], Lo[i.d]}
    [] i.op \in {"INR", "DCR"}   -> AtHL(i.d)
    [] i.op = "STA"              -> {"A"}
    [] i.op = "LDAX"             -> Parts(i.s)
    [] i.op = "STAX"             -> {"A"} \cup Parts(i.d)
    [] i.op \in AluOps           -> {"A"} \cup AtHL(i.s)
    [] i.op \in Rotates \cup {"CMA"} -> {"A"}
    [] OTHER                     -> {}

Writes8080(i) ==
  CASE i.op \in {"MOV", "MOVrM", "MVI", "LDA", "LDAX"} -> {i.d}
    [] i.op \in {"LXI", "INX", "DCX", "POP"} -> IF i.d = "SP" THEN {} ELSE {Hi[i.d], Lo[i.d]}
    [] i.op \in {"INR", "DCR"}   -> IF i.d = "M" THEN {"F"} ELSE {i.d, "F"}
    [] i.op = "CMP"              -> {"F"}
    [] i.op \in (AluOps \ {"CMP"}) \cup Rotates -> {"A", "F"}
    [] i.op = "CMA"              -> {"A"}
    [] i.op \in {"DAD", "LHLD"}  -> {"H", "L"}
    [] i.op = "XCHG"             -> {"D", "E", "H", "L"}
    [] OTHER                     -> {}

(* An interrupt whose handler keeps every register pushes the return        *)
(* address: what was below the stack pointer is lost.                       *)
Interrupted(m, junk) ==
  LET to == Wrap(m.sp + ByteSize * ByteSize - 2) IN
  [m EXCEPT !.mem = PutWord(@, to, junk, junk)]
=============================================================================
