----------------------------- MODULE PeepholeFolds -----------------------------
(***************************************************************************)
(* The rewrites of the peephole pass that runs after register allocation    *)
(* (V6ClangPeephole.cpp), each at one position of one basic block.  A       *)
(* rewrite returns the block's new code and the position where its walk     *)
(* goes on.  out is the set of registers live into some successor.          *)
(***************************************************************************)
EXTENDS Intel8080, SequencesExt

CONSTANTS
  ChainWindow,  \* kChainWindow, 8 in the code: how far a copy's reader is sought
  ScanWindow    \* kMaxScanWindow, 16 in the code: how far a load's user is sought

ASSUME WindowAssumption == {ChainWindow, ScanWindow} \subseteq Nat \ {0}

(* An O61 placeholder: an immediate 0 that carries the label through which  *)
(* the running program overwrites it.                                       *)
Hole == -1
ImmZero(n) == n \in {0, Hole}

(* A call passes the registers of arg, returns ret and, if its callee was   *)
(* compiled before it (n = 1), is known to keep B, C, D and E.              *)
Call(ret, arg, n) == Instr("CALL", ret, arg, n)
Ret(reg) == Instr("RET", reg, "", 0)
TailJmp(i) == [i EXCEPT !.op = "TAILJMP"]
Jmp(to) == Instr("JMP", to, "", 0)
XraA(undef) == Instr("XRA", "A", "A", undef)   \* 1: its old A is not read

Named(r) == IF r = "" THEN {} ELSE IF r = "AE" THEN {"A", "E"} ELSE Parts(r)
IsJcc(i) == i.op = "J"
Jumps == {"J", "JMP"}
Kept(i) == IF i.n = 1 THEN {"B", "C", "D", "E"} ELSE {}

(* The operands an instruction reads and writes, SP and F included, and     *)
(* what only the register mask of a call says it destroys.  A tail jump is  *)
(* built with its target alone.                                             *)
Uses(i) ==
  CASE i.op = "CALL" -> Named(i.s) \cup {"SP"}
    [] i.op = "RET"  -> Named(i.d) \cup {"SP"}
    [] i.op \in {"TAILJMP", "JMP"} -> {}
    [] i.op \in {"J", "RAL", "RAR"} -> {"F"} \cup Reads8080(i)
    [] i.op \in {"ADC", "SBB"} -> {"F"} \cup Reads8080(i)
    [] i = XraA(1)   -> {}
    [] i.op \in {"PUSH", "POP"} -> {"SP"} \cup Reads8080(i)
    [] OTHER         -> Reads8080(i)
Defs(i) ==
  CASE i.op = "CALL" -> Named(i.d) \cup {"SP"}
    [] i.op \in {"RET", "PUSH"} -> {"SP"}
    [] i.op = "POP"  -> Writes8080(i) \cup {"SP"}
    [] i.op \in {"TAILJMP", "JMP"} -> {}
    [] i.op = "DAD"  -> Writes8080(i) \cup {"F"}
    [] OTHER         -> Writes8080(i)
Masked(i) == IF i.op = "CALL" THEN (Regs \cup {"F"}) \ (Kept(i) \cup Named(i.d)) ELSE {}
Operands(i) == Uses(i) \cup Defs(i)
Stores(i) == i.op \in {"MOVMr", "MVIM", "STA", "STAX", "SHLD", "PUSH"} \/ (i.op \in {"INR", "DCR"} /\ i.d = "M")

-----------------------------------------------------------------------------
Shape(c, k, is) == k + Len(is) - 1 <= Len(c) /\ SubSeq(c, k, k + Len(is) - 1) = is
Splice(c, from, to, is) == SubSeq(c, 1, from - 1) \o is \o SubSeq(c, to + 1, Len(c))
Edit(c, k) == [code |-> c, next |-> k]
Stay(c, k) == Edit(c, k + 1)
Earliest(s) == IF s = {} THEN 0 ELSE Min(s)
Ahead(c, k) == (k + 1)..Len(c)
Between(k, j) == (k + 1)..(j - 1)
IsMov(i) == i.op = "MOV"

(* isRegDeadAfter: the first instruction with a part of r decides; a pair   *)
(* counts as dead as soon as one of its halves is written.                  *)
DeadIgnoringBlockEnd(c, k, r, out) ==   \* mutant
  LET j == Earliest({h \in Ahead(c, k) : Operands(c[h]) \cap Parts(r) # {}}) IN
  j = 0 \/ Uses(c[j]) \cap Parts(r) = {}

DeadAfter(c, k, r, out) ==
  LET j == Earliest({h \in Ahead(c, k) : Operands(c[h]) \cap Parts(r) # {}}) IN
  IF j = 0 THEN Parts(r) \cap out = {} ELSE Uses(c[j]) \cap Parts(r) = {}

(* isRegLiveBefore, without the operands' kill flags.                       *)
LiveBefore(c, k, r, liveIn) ==
  LET s == {h \in 1..(k - 1) : r \in Defs(c[h]) \cup Masked(c[h])} IN
  IF s = {} THEN r \in liveIn ELSE r \in Defs(c[Max(s)])

(* hasNonCarryFlagUseBeforeFullFlagDef                                      *)
NonCarryUse(c, k, out) ==
  LET reader(i) == IsJcc(i) /\ i.s \notin {"C", "NC"}
      j == Earliest({h \in Ahead(c, k) : reader(c[h]) \/ ("F" \in Defs(c[h]) /\ c[h].op # "DAD")})
  IN IF j = 0 THEN "F" \in out ELSE reader(c[j])

ZeroTest(i) == i = Alu("ORA", "A") \/ (i.op = "CMP" /\ i.s = "" /\ ImmZero(i.n))
Counts(i) == i.op \in {"INR", "DCR"}
ZeroBranch(i) == IsJcc(i) /\ i.s \in {"Z", "NZ"}
RegAlu(i) == i.op \in AluOps /\ i.s \in Regs

-----------------------------------------------------------------------------
XchgSwapRedundancy(c, k, out) ==
  LET r1 == c[k].d  r2 == c[k + 1].d IN
  IF /\ k + 4 <= Len(c)
     /\ Shape(c, k, <<Mov(r1, "H"), Mov(r2, "L"), Xchg, Mov("D", r1), Mov("E", r2)>>)
     /\ {r1, r2} \cap {"H", "L", "D", "E"} = {} /\ r1 # r2
     /\ DeadAfter(c, k + 4, r1, out) /\ DeadAfter(c, k + 4, r2, out)
  THEN Edit(Splice(c, k, k + 4, <<Xchg>>), k) ELSE Stay(c, k)

(* Two XCHG with nothing between them that has D, E, H or L as an operand.  *)
CancelXchg(c, k) ==
  LET touches(i) == i = Xchg \/ Operands(i) \cap {"D", "E", "H", "L"} # {}
      j == Earliest({h \in Ahead(c, k) : touches(c[h])})
  IN IF c[k] = Xchg /\ j # 0 /\ c[j] = Xchg
     THEN Edit(Splice(Splice(c, j, j, <<>>), k, k, <<>>), k) ELSE Stay(c, k)

(* A static-stack spill and its reload become PUSH and POP when no other    *)
(* reload can see the spill; reads: some path out of the block reloads it.  *)
Spills(i, a) == i.op \in {"SHLD", "LHLD"} /\ i.n = a
ReloadInThisBlock(c, k, j, exits, reads) ==   \* mutant
  LET after == Earliest({h \in Ahead(c, j) : Spills(c[h], c[k].n)}) IN after # 0 /\ c[after].op = "LHLD"

UncoveredReload(c, k, j, exits, reads) ==
  LET a == c[k].n
      after == Earliest({h \in Ahead(c, j) : Spills(c[h], a)})
      top == Earliest({h \in 1..(k - 1) : Spills(c[h], a)})
  IN IF after # 0 THEN c[after].op = "LHLD"
     ELSE \/ "loop" \in exits /\ top # 0 /\ c[top].op = "LHLD"
          \/ exits # {} /\ reads

ShldLhldToPushPop(c, k, exits, reads) ==
  LET a == c[k].n
      j == Earliest({h \in Ahead(c, k) : Spills(c[h], a)})
      depth(h) == 2 * (Cardinality({g \in Between(k, h) : c[g].op = "PUSH"})
                       - Cardinality({g \in Between(k, h) : c[g].op = "POP"}))
      spKnown == \A h \in Between(k, j) :
                   /\ "SP" \in Defs(c[h]) => c[h].op \in {"PUSH", "POP", "CALL"}
                   /\ depth(h + 1) >= 0
  IN IF /\ c[k].op = "SHLD" /\ j # 0 /\ c[j].op = "LHLD"
        /\ spKnown /\ depth(j) = 0
        /\ ~UncoveredReload(c, k, j, exits, reads)
     THEN Edit([c EXCEPT ![k] = Push("HL"), ![j] = Pop("HL")], k + 1) ELSE Stay(c, k)

DeadPopPush(c, k, out) ==
  LET p == c[k].d
      j == Earliest({h \in Ahead(c, k) : Operands(c[h]) \cap {Hi[p], Lo[p], "SP"} # {}})
      dead == IF p = "PSW" THEN DeadAfter(c, j, "A", out) /\ DeadAfter(c, j, "F", out)
              ELSE DeadAfter(c, j, p, out)
  IN IF c[k].op = "POP" /\ j # 0 /\ c[j] = Push(p) /\ dead
     THEN Edit(Splice(Splice(c, j, j, <<>>), k, k, <<>>), k) ELSE Stay(c, k)

(* A pair copied to BC or DE, stepped there, copied back and spilled: HL is *)
(* stepped in place; copied there and back: not at all.                     *)
InxDcxSpill(c, k, out) ==
  LET p == IF c[k].d \in {"C", "B"} THEN "BC" ELSE "DE"
      lo == Lo[p]  hi == Hi[p]  step == c[k + 2].op
      spilled(n) == c[k + n].op = "SHLD" /\ DeadAfter(c, k + n, p, out)
  IN IF /\ k + 5 <= Len(c) /\ c[k].d \in {"C", "E"} /\ step \in {"INX", "DCX"}
        /\ Shape(c, k, <<Mov(lo, "L"), Mov(hi, "H"), Instr(step, p, "", 0), Mov("L", lo), Mov("H", hi)>>)
        /\ spilled(5)
     THEN Edit(Splice(c, k, k + 4, <<Instr(step, "HL", "", 0)>>), k)
     ELSE IF /\ k + 4 <= Len(c) /\ c[k].d \in {"B", "D"}
             /\ Shape(c, k, <<Mov(hi, "H"), Mov(lo, "L"), Mov("L", lo), Mov("H", hi)>>)
             /\ spilled(4)
     THEN Edit(Splice(c, k, k + 3, <<>>), k)
     ELSE Stay(c, k)

PairCopyRoundTrip(c, k) ==
  LET a1 == c[k].d  b1 == c[k].s  a2 == c[k + 1].d  b2 == c[k + 1].s IN
  IF /\ k + 3 <= Len(c) /\ IsMov(c[k]) /\ IsMov(c[k + 1])
     /\ Shape(c, k + 2, <<Mov(b1, a1), Mov(b2, a2)>>)
     /\ Cardinality({a1, b1, a2, b2}) = 4
  THEN Edit(Splice(c, k + 2, k + 3, <<>>), k + 2) ELSE Stay(c, k)

(* MOV r,M and the operation that reads r, with only what cannot disturb    *)
(* HL, memory, A and the flags between them.                                *)
MovAluM(c, k, out) ==
  LET r == c[k].d
      safe(i) == /\ i.op \notin {"CALL", "RET", "TAILJMP"} \cup Jumps
                 /\ ~Stores(i)
                 /\ Operands(i) \cap {r, "H", "L"} = {} /\ Defs(i) \cap {"A", "F"} = {}
      user(i) == RegAlu(i) /\ i.s = r
      j == Earliest({h \in Ahead(c, k) : h <= k + ScanWindow /\ (user(c[h]) \/ ~safe(c[h]))})
  IN IF /\ c[k].op = "MOVrM" /\ r # "A"
        /\ j # 0 /\ user(c[j]) /\ DeadAfter(c, j, r, out)
     THEN Edit(Splice([c EXCEPT ![j] = Alu(c[j].op, "M")], k, k, <<>>), k) ELSE Stay(c, k)

IncDecMviM(c, k, out) ==
  IF /\ k + 2 <= Len(c) /\ c[k + 1].op \in {"INR", "DCR"}
     /\ Shape(c, k, <<MovFromM("A"), Instr(c[k + 1].op, "A", "", 0), MovToM("A")>>)
     /\ DeadAfter(c, k + 2, "A", out)
  THEN Edit(Splice(c, k, k + 2, <<Instr(c[k + 1].op, "M", "", 0)>>), k + 1)
  ELSE IF /\ k + 1 <= Len(c)
          /\ Shape(c, k, <<Mvi("A", c[k].n), MovToM("A")>>) /\ DeadAfter(c, k + 1, "A", out)
  THEN Edit(Splice(c, k, k + 1, <<MviM(c[k].n)>>), k + 1)
  ELSE Stay(c, k)

Erased(c, k) == Edit(Splice(c, k, k, <<>>), k)
SelfMov(c, k) == IF IsMov(c[k]) /\ c[k].d = c[k].s THEN Erased(c, k) ELSE Stay(c, k)
DeadMviAnyLabel(c, k, out) ==   \* mutant
  IF c[k].op = "MVI" /\ c[k].d # "A" /\ DeadAfter(c, k, c[k].d, out) THEN Erased(c, k) ELSE Stay(c, k)

DeadMvi(c, k, out) ==
  IF c[k].op = "MVI" /\ c[k].d # "A" /\ c[k].n # Hole /\ DeadAfter(c, k, c[k].d, out)
  THEN Erased(c, k) ELSE Stay(c, k)
DeadMov(c, k, out) ==
  IF IsMov(c[k]) /\ c[k].d # c[k].s /\ DeadAfter(c, k, c[k].d, out) THEN Erased(c, k) ELSE Stay(c, k)

(* What the walk from a copy into x meets first: MOV z,x or any other       *)
(* instruction that x is an operand of, or that destroys x.                 *)
Consumes(i, x) == IsMov(i) /\ i.s = x
Consumer(c, k, x, masks) ==
  LET j == Earliest({h \in Ahead(c, k) : h <= k + ChainWindow
                       /\ x \in Operands(c[h]) \cup (IF masks THEN Masked(c[h]) ELSE {})})
  IN IF j # 0 /\ Consumes(c[j], x) /\ c[j].d # x THEN j ELSE 0

MovChain(c, k, out) ==
  LET x == c[k].d  y == c[k].s
      j == Consumer(c, k, x, TRUE)
      z == c[j].d
      yLost == \E h \in Between(k, j) : y \in Defs(c[h]) \cup Masked(c[h])
      zTouched == \E h \in Between(k, j) : z \in Operands(c[h]) \cup Masked(c[h])
      onlyLater == [c EXCEPT ![j] = Mov(z, y)]
  IN IF ~(IsMov(c[k]) /\ x # y /\ j # 0 /\ DeadAfter(c, j, x, out)) THEN Stay(c, k)
     ELSE IF ~yLost /\ z = y
     THEN Edit(Splice(Splice(c, j, j, <<>>), k, k, <<>>), IF j = 2 THEN 2 ELSE j - 1)
     ELSE IF ~yLost THEN Erased(onlyLater, k)
     ELSE IF ~zTouched THEN Edit(Splice([c EXCEPT ![k] = Mov(z, y)], j, j, <<>>), k + 1)
     ELSE Stay(c, k)

MviChain(c, k, out) ==
  LET x == c[k].d  j == Consumer(c, k, x, FALSE) IN
  IF c[k].op = "MVI" /\ c[k].n # Hole /\ j # 0 /\ DeadAfter(c, j, x, out)
  THEN Erased([c EXCEPT ![j] = Mvi(c[j].d, c[k].n)], k) ELSE Stay(c, k)

(* A zero test of a counter that has just been stepped goes; a counter      *)
(* stepped in A is stepped where it lives.                                  *)
CounterBranch(c, k, out) ==
  LET tested == ZeroBranch(c[k]) /\ k > 2 /\ ZeroTest(c[k - 1])
      aDead == DeadAfter(c, k, "A", out)
      r == c[k - 2].d
      step == Instr(c[k - 3].op, r, "", 0)
  IN IF ~tested THEN Stay(c, k)
     ELSE IF /\ k > 4 /\ r # "A" /\ Counts(c[k - 3]) /\ aDead
             /\ Shape(c, k - 4, <<Mov("A", r), Instr(c[k - 3].op, "A", "", 0), Mov(r, "A")>>)
     THEN Edit(Splice(c, k - 4, k - 1, <<step>>), k - 2)
     ELSE IF /\ k > 3 /\ IsMov(c[k - 2]) /\ c[k - 2].d = "A" /\ c[k - 2].s # "A"
             /\ Counts(c[k - 3]) /\ c[k - 3].d = c[k - 2].s /\ aDead
     THEN Edit(Splice(c, k - 2, k - 1, <<>>), k - 1)
     ELSE IF Counts(c[k - 2]) /\ c[k - 2].d = "A" THEN Edit(Splice(c, k - 1, k - 1, <<>>), k)
     ELSE Stay(c, k)

(* MOV A,r; ORA A becomes XRA A; CMP r before a branch: A must be dead, or  *)
(* the block that follows begin with MVI A,0.                               *)
XraCmpZeroTest(c, k, out, liveIn, fallZero) ==
  IF /\ k + 2 <= Len(c) /\ IsMov(c[k]) /\ c[k].d = "A" /\ c[k].s # "A"
     /\ ZeroTest(c[k + 1]) /\ ZeroBranch(c[k + 2])
     /\ DeadAfter(c, k + 2, "A", out) \/ fallZero
  THEN Edit(Splice(c, k, k + 1, <<XraA(IF LiveBefore(c, k, "A", liveIn) THEN 0 ELSE 1), Alu("CMP", c[k].s)>>), k + 3)
  ELSE Stay(c, k)

XchgDad(c, k, out) ==
  IF Shape(c, k, <<Xchg, Dad("DE")>>) /\ DeadAfter(c, k + 1, "DE", out)
  THEN Edit(Splice(c, k, k, <<>>), k + 1) ELSE Stay(c, k)

(* A call that returns, or falls into a block that only returns, is a jump. *)
TailCallKeepsRet(c, fallRet) ==   \* mutant
  LET n == Len(c) IN
  IF n >= 2 /\ c[n].op = "RET" /\ c[n - 1].op = "CALL" THEN [c EXCEPT ![n - 1] = TailJmp(@)]
  ELSE IF n >= 1 /\ c[n].op = "CALL" /\ fallRet THEN [c EXCEPT ![n] = TailJmp(@)]
  ELSE c

TailCall(c, fallRet) ==
  LET n == Len(c) IN
  IF n >= 2 /\ c[n].op = "RET" /\ c[n - 1].op = "CALL" THEN Append(SubSeq(c, 1, n - 2), TailJmp(c[n - 1]))
  ELSE IF n >= 1 /\ c[n].op = "CALL" /\ fallRet THEN [c EXCEPT ![n] = TailJmp(@)]
  ELSE c

MviAluImm(c, k, out) ==
  LET r == c[k].d
      user(i) == RegAlu(i) /\ i.s = r
      j == Earliest({h \in Ahead(c, k) : c[h].op = "CALL" \/ r \in Operands(c[h])})
  IN IF /\ c[k].op = "MVI" /\ r # "A"
        /\ j # 0 /\ user(c[j]) /\ DeadAfter(c, j, r, out)
     THEN Erased([c EXCEPT ![j] = AluImm(c[j].op, c[k].n)], k) ELSE Stay(c, k)

MviZeroToXraA(c, k, out, liveIn) ==
  IF c[k] = Mvi("A", 0) /\ ~NonCarryUse(c, k, out) /\ DeadAfter(c, k, "F", out)
  THEN Edit([c EXCEPT ![k] = XraA(IF LiveBefore(c, k, "A", liveIn) THEN 0 ELSE 1)], k + 1) ELSE Stay(c, k)
=============================================================================
