----------------------------- MODULE CompareLowering -----------------------------
(***************************************************************************)
(* LowerBR_CC and LowerSELECT_CC, with the selection of BR_CC16: how a      *)
(* comparison of the program becomes a pseudo instruction and a condition   *)
(* of the flags.  The 8080 has no jump for "greater" and none for "less or  *)
(* equal": operands are swapped, constants adjusted, conditions inverted.   *)
(* An operand is a register (reg) or, when reg is "", the constant n.       *)
(***************************************************************************)
EXTENDS PseudoInstr

Operand(reg, n) == [reg |-> reg, n |-> n]
IsConst(x) == x.reg = ""
Top16 == ByteSize * ByteSize
SignBit16 == Top16 \div 2
SignBit8 == ByteSize \div 2

(* What the program asks: use BR or SELECT, width 8 or 16, cc an            *)
(* ISD::CondCode.                                                           *)
Comparison(use, width, cc, l, r) == [use |-> use, width |-> width, cc |-> cc, l |-> l, r |-> r]

ValueOf(m, x, width) == IF IsConst(x) THEN x.n ELSE IF width = 8 THEN m.reg[x.reg] ELSE Pair(m, x.reg)
Truth(m, q) ==
  LET a == ValueOf(m, q.l, q.width)
      b == ValueOf(m, q.r, q.width)
      s(v) == IF q.width = 8 THEN Signed8(v) ELSE Signed(v)
  IN CASE q.cc = "EQ" -> a = b [] q.cc = "NE" -> a # b
       [] q.cc = "LT" -> s(a) < s(b) [] q.cc = "LE" -> s(a) <= s(b)
       [] q.cc = "GT" -> s(a) > s(b) [] q.cc = "GE" -> s(a) >= s(b)
       [] q.cc = "ULT" -> a < b [] q.cc = "ULE" -> a <= b
       [] q.cc = "UGT" -> a > b [] q.cc = "UGE" -> a >= b

-----------------------------------------------------------------------------
(* matchI16SignedZeroTest                                                   *)
SignTest(q) ==
  /\ q.width = 16 /\ IsConst(q.r)
  /\ \/ q.cc \in {"GE", "LT"} /\ q.r.n = 0
     \/ q.cc \in {"GT", "LE"} /\ q.r.n = Top16 - 1
SignCC(q) == IF q.cc \in {"GE", "GT"} THEN "P" ELSE "M"

Swapped == [GT |-> "LT", LE |-> "GE", UGT |-> "ULT", ULE |-> "UGE"]
Canonical(q) ==
  IF q.cc \in DOMAIN Swapped THEN [q EXCEPT !.cc = Swapped[@], !.l = q.r, !.r = q.l] ELSE q

(* getV6ClangCC, and the condition that holds exactly when cc does not.     *)
FlagCC == [EQ |-> "Z", NE |-> "NZ", LT |-> "M", GE |-> "P", ULT |-> "C", UGE |-> "NC"]
Inverted == [C |-> "NC", NC |-> "C", M |-> "P", P |-> "M"]
Ordering == DOMAIN Inverted

(* A lowered comparison: the operands, the condition, and whether the flags *)
(* come from l - r ("reg") or from constant r minus l ("imm").              *)
Lowered(l, r, cc, how) == [l |-> l, r |-> r, cc |-> cc, how |-> how]

(* K - 1 and the inverted condition; there is no K - 1 below the least      *)
(* value of the comparison's order.                                         *)
CanAdjust(q, cc) == q.r.n # (IF cc \in {"C", "NC"} THEN 0 ELSE SignBit16)
Adjusted(q, cc) == Lowered(q.l, Operand("", Wrap(q.r.n - 1)), Inverted[cc], "imm")

Ordered16(q, cc) ==
  IF IsConst(q.l) THEN Lowered(q.r, q.l, cc, "imm")
  ELSE IF IsConst(q.r) /\ CanAdjust(q, cc) THEN Adjusted(q, cc)
  ELSE Lowered(q.l, q.r, cc, IF q.use = "SELECT" /\ IsConst(q.r) THEN "imm" ELSE "reg")

NoAdjust16(q) ==   \* mutant
  LET cc == FlagCC[q.cc] IN
  IF cc \in Ordering /\ IsConst(q.r) THEN Lowered(q.l, q.r, Inverted[cc], "imm")
  ELSE IF cc \in Ordering THEN Ordered16(q, cc)
  ELSE Lowered(q.l, q.r, cc, IF IsConst(q.r) THEN "imm" ELSE "reg")
Lower16(q) ==
  LET cc == FlagCC[q.cc] IN
  IF cc \in Ordering THEN Ordered16(q, cc)
  ELSE Lowered(q.l, q.r, cc, IF IsConst(q.r) THEN "imm" ELSE "reg")

(* A byte constant goes to the right, where CPI takes it.                   *)
Greatest8(cc) == IF cc \in {"C", "NC"} THEN ByteSize - 1 ELSE SignBit8 - 1
Lower8(q) ==
  LET cc == FlagCC[q.cc] IN
  IF ~IsConst(q.l) THEN Lowered(q.l, q.r, cc, "reg")
  ELSE IF cc \notin Ordering THEN Lowered(q.r, q.l, cc, "reg")
  ELSE IF q.l.n # Greatest8(cc) THEN Lowered(q.r, Operand("", q.l.n + 1), Inverted[cc], "reg")
  ELSE Lowered(q.l, q.r, cc, "reg")

-----------------------------------------------------------------------------
(* The selected instructions.  CMP reads A: what is compared goes there;    *)
(* a comparison with 0 is CMP8_ZERO, whatever its condition.                *)
IntoA(x) == IF IsConst(x) THEN <<Mvi("A", x.n)>> ELSE IF x.reg = "A" THEN <<>> ELSE <<Mov("A", x.reg)>>
Select8(w) ==
  (IF IsConst(w.r) /\ w.r.n = 0 /\ ~IsConst(w.l) THEN <<Pseudo("CMP8_ZERO", "", w.l.reg, "", 0)>>
   ELSE IntoA(w.l) \o <<IF IsConst(w.r) THEN AluImm("CMP", w.r.n) ELSE Alu("CMP", w.r.reg)>>)
    \o <<Pseudo("BRCOND", w.cc, "", "", 0)>>

(* A constant that no form with an immediate takes is loaded into a pair    *)
(* nobody else uses.                                                        *)
Materialized(q, w) ==
  LET free == CHOOSE p \in Pairs : p # w.l.reg
  IN IF IsConst(w.r) /\ w.how = "reg" THEN <<<<Lxi(free, w.r.n)>>, free>> ELSE <<<<>>, w.r.reg>>

SelectBr16(q, w) ==
  IF w.how = "imm" THEN <<Pseudo("BR_CC16_IMM", w.cc, w.l.reg, "", w.r.n)>>
  ELSE Materialized(q, w)[1] \o <<Pseudo("BR_CC16", w.cc, w.l.reg, Materialized(q, w)[2], 0)>>

SelectCmp16(q, w) ==
  <<IF q.cc \in {"EQ", "NE"} /\ IsConst(q.r) /\ q.r.n = 0 THEN Pseudo("CMP16_ZERO", "", q.l.reg, "", 0)
    ELSE IF w.how = "imm" THEN Pseudo("CMP16_IMM", "", w.l.reg, "", w.r.n)
    ELSE Pseudo("CMP16", "", w.l.reg, w.r.reg, 0),
    Pseudo("BRCOND", w.cc, "", "", 0)>>

LowerComparison(q) ==
  LET k == Canonical(q) IN
  IF SignTest(q) THEN <<Pseudo("CMP16_SIGN", "", q.l.reg, "", 0), Pseudo("BRCOND", SignCC(q), "", "", 0)>>
  ELSE IF q.width = 8 THEN Select8(Lower8(k))
  ELSE IF q.use = "BR" THEN SelectBr16(k, Lower16(k))
  ELSE SelectCmp16(k, Lower16(k))
=============================================================================
