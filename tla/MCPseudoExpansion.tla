--------------------------- MODULE MCPseudoExpansion ---------------------------
(* Blocks of one pseudo instruction with every choice of operands and of    *)
(* live registers, and blocks where what stands before or after it matters. *)
EXTENDS PseudoExpansion

(* Registers: high and low byte apart, pointers before a page's end.        *)
Reg(a, bc, de, hl, cy) ==
  SetPair(SetPair(SetPair([r \in Regs \cup {"F"} |-> IF r = "A" THEN a ELSE cy], "BC", bc), "DE", de), "HL", hl)
Memory == [x \in {4607, 4608, 8703, 8704, 12799, 12800} |-> x % 251]
Values16 == {0, 1, 255, 256, 257, 16383, 32767, 32768, 49152, 65280, 65535}
Values8 == {0, 1, 63, 127, 128, 192, 255}
Compared == (Values16 \cup Values8) \X (Values16 \cup Values8)

(* Three machines by name, and one for every two values to compare: in HL   *)
(* and DE, and in A, B and C.                                               *)
MCMachines ==
  [x \in {<<"odd">>, <<"even">>, <<"pointers">>} \cup Compared |->
     [reg |-> CASE x = <<"odd">> -> Reg(90, 33023, 32513, 65408, 1)
                [] x = <<"even">> -> Reg(255, 4660, 65535, 129, 0)
                [] x = <<"pointers">> -> Reg(90, 4607, 8703, 12799, 129)
                [] OTHER -> Reg(x[1] % 256, (x[1] % 256) * 256 + (x[2] % 256), x[2], x[1], 1),
      sp |-> 16384, mem |-> Memory]]
Numbers == {<<"odd">>, <<"even">>}
Pointers == <<"pointers">>

Block(items, lives, enter) ==
  [items |-> items, cmp |-> NoComparison, lives |-> lives, preds |-> <<>>, loops |-> FALSE, enter |-> enter]

(* Registers live behind a block: what its items leave alone.               *)
Lives(items, of) == {l \in of : WellDefined(items, l)}
Bytes6 == {"B", "C", "D", "E", "H", "L"}
SomeLive ==
  {UNION {Parts(p) : p \in s} : s \in SUBSET Pairs} \cup {{r} : r \in Bytes6} \cup {Bytes6 \ {r} : r \in Bytes6}
AnyLive == SUBSET (Regs \cup {"F"})

-----------------------------------------------------------------------------
Arithmetic ==
  {Pseudo(op, d, s, t, 0) : op \in ThreePairs, d \in Pairs, s \in Pairs, t \in Pairs}
  \cup {Pseudo(op, d, s, "", 0) : op \in {"NEG16"}, d \in Pairs, s \in Pairs}
  \cup {Pseudo("ROTL16_1", "HL", "HL", "", 0)}
  \cup {Pseudo(op, d, d, "", n) : op \in {"INX16", "DCX16"}, d \in Pairs, n \in {1, 3}}
  \cup {Pseudo(op, d, d, "", n) : op \in Immediates, d \in Pairs, n \in {0, 255, 65280, 65535, 4351, 61440}}
  \cup {Pseudo("SEXT", d, s, "", 0) : d \in Pairs, s \in Regs}
  \cup {i \in {Pseudo("BUILD_PAIR", d, s, t, 0) : d \in Pairs, s \in Regs, t \in Regs} :
          i.s = Hi[i.d] => i.t = Hi[i.d]}
  \cup {Pseudo("NEG8", d, s, "", 0) : d \in Regs, s \in Regs}
  \cup {Pseudo(op, "A", "A", "", n) : op \in Shifts8, n \in 1..7}
ShiftOps == {Pseudo(op, d, s, "", n) : op \in Shifts, d \in Pairs, s \in Pairs, n \in 1..15}
ShiftLive(i) ==
  {Parts(i.d), Parts(i.d) \cup {"H", "L"}, {Lo[i.d]}, {Lo[i.d], "H"}, Bytes6}

MemoryAccess ==
  {Pseudo(op, d, s, "", 0) : op \in {"LOAD16_P"}, d \in Pairs, s \in Pairs}
  \cup {Pseudo("STORE16_P", "", s, t, 0) : s \in Pairs, t \in Pairs}
  \cup {Pseudo("LOAD16_G", d, "", "", 8703) : d \in Pairs}
  \cup {Pseudo("STORE16_G", "", s, "", 8703) : s \in Pairs}
  \cup {Pseudo("LOAD8_P", d, s, "", 0) : d \in Regs, s \in Pairs}
  \cup {Pseudo("STORE8_P", "", s, t, 0) : s \in Regs, t \in Pairs}
  \cup {Pseudo("STORE8_IMM_P", "", "", t, 77) : t \in Pairs}
  \cup {Pseudo("ALU_M", op, "", t, 0) : op \in {"ADC", "CMP"}, t \in Pairs}
  \cup {Pseudo(op, "", "", t, 0) : op \in {"INR_M", "DCR_M"}, t \in Pairs}

(* What the source gets wrong, by name; the passing run leaves it out.      *)
(* STORE16_G of DE with HL dead leaves DE exchanged; STORE16_P of BC to     *)
(* where BC points steps BC back though it was not stepped, or stores B     *)
(* after the step.                                                          *)
LosesStored(i, live) ==
  /\ i.op = "STORE16_G" /\ i.s = "DE"
  /\ {"H", "L"} \cap live = {} /\ {"D", "E"} \cap live # {}
StoresItself(i, live) ==
  /\ i.op = "STORE16_P" /\ i.s = "BC" /\ i.t = "BC"
  /\ {"B", "C", "H", "L"} \cap live # {}
(* LOAD8_P through BC takes B or C itself as the spare register.            *)
SparesAddress(i, live) ==
  /\ i.op = "LOAD8_P" /\ i.s = "BC" /\ i.d # "A" /\ "A" \in live
  /\ {"B", "C"} \ ({i.d} \cup live) # {}

Singles ==
  {Block(<<i>>, Lives(<<i>>, SomeLive), Numbers) : i \in Arithmetic}
  \cup {Block(<<i>>, Lives(<<i>>, ShiftLive(i)), Numbers) : i \in ShiftOps}
Keeps(i, live) == ~LosesStored(i, live) /\ ~StoresItself(i, live) /\ ~SparesAddress(i, live)
Accesses ==
  {Block(<<i>>, {l \in Lives(<<i>>, AnyLive) : Keeps(i, l)}, {Pointers}) : i \in MemoryAccess}

-----------------------------------------------------------------------------
(* A constant that may be folded: loaded in the block or at the end of the  *)
(* predecessors; what follows may still want it; the block may be its own   *)
(* successor.  A constant is not added to itself.                           *)
Adds == {i \in {Pseudo(op, d, s, t, 0) : op \in {"DAD16", "ADD16", "SUB16"}, d \in Pairs, s \in Pairs, t \in Pairs} :
           i.s # i.t}
Constants == {0, 1, 3, 4, 65535, 65533, 65532}
PairLives == {UNION {Parts(p) : p \in s} : s \in SUBSET Pairs}
Folds ==
  UNION {{Block(<<Lxi(p, n)>> \o x \o <<i>> \o y, Lives(<<i>> \o y, PairLives), {<<"odd">>}) :
            p \in {i.s, i.t}, n \in Constants,
            x \in {<<>>, <<Inx("BC")>>}, y \in {<<>>, <<Mov("A", Hi[i.t])>>, <<Lxi(i.t, 4660)>>}} : i \in Adds}

(* Ways in over one predecessor or two, in both orders: they load BC, load  *)
(* another constant, change it behind the load, do not load it, or leave it *)
(* alone, in sight or so far back that the search does not come to it.      *)
Fill(n) == [k \in 1..n |-> Mvi("A", k)]
Ways == {<<Lxi("BC", 2)>>, <<Lxi("BC", 2), Mvi("A", 3)>>, <<Lxi("BC", 3)>>, <<Lxi("BC", 2), Inx("BC")>>,
         <<Mvi("C", 2)>>, <<Mvi("A", 3)>>, <<Lxi("BC", 2)>> \o Fill(ScanLimit)}
Arrivals == {<<w>> : w \in Ways} \cup (Ways \X Ways) \cup {<<<<Lxi("DE", 65535)>>>>, <<<<Mvi("E", 1)>>>>}
EnteredBy(x, i, a, again) ==
  [Block(x \o <<i>>, {l \in PairLives : again => Reads(i) \subseteq l}, {<<"odd">>}) EXCEPT !.preds = a, !.loops = again]
Loaded(i, a) == {p \in {i.s, i.t} : LxiIn(a[1], p)}

(* A block that changes, behind the fold, the pair it found constant in its *)
(* predecessors runs its second round with the first one's constant.        *)
ChangesConstant(i, a) == i.d \in Loaded(i, a)

(* A predecessor that leaves the pair alone counts as one that loads it     *)
(* when it is listed behind one that does; and a pair that the block itself *)
(* wrote too far back for the search counts as one it leaves alone.         *)
PassedOver(i, a) == \E p \in Loaded(i, a) : \E k \in DOMAIN a : DefOf(a[k], p) = 0
BeyondWindow(x, i, a) ==
  \E p \in Loaded(i, a) : DefOf(x, p) = 0 /\ \E k \in DOMAIN x : Parts(p) \cap Writes8080(x[k]) # {}

Entered ==
  UNION {{EnteredBy(<<>>, i, a, again) : again \in IF ChangesConstant(i, a) THEN {FALSE} ELSE BOOLEAN} :
           <<i, a>> \in {e \in Adds \X Arrivals : ~PassedOver(e[1], e[2])}}
FarBack == {<<j>> \o Fill(n) : j \in {Lxi("BC", 3), Inx("BC")}, n \in {ScanLimit - 1, ScanLimit}}
Windowed ==
  {EnteredBy(e[1], e[2], e[3], FALSE) :
     e \in {f \in FarBack \X Adds \X {<<<<Lxi("BC", 2)>>>>, <<<<Mvi("A", 3)>>>>} : ~BeyondWindow(f[1], f[2], f[3])}}
MCChanged ==
  {EnteredBy(<<>>, i, a, TRUE) : i \in {x \in Adds : x.d = "BC" /\ x.s = "DE" /\ x.t = "BC"},
                                 a \in {<<<<Lxi("BC", 2)>>, <<Lxi("BC", 2), Mvi("A", 3)>>>>}}

(* What comes before: flags, the copy NEG8 folds, a pseudo.                 *)
Prefixed ==
  {Block(x \o <<Pseudo("SRL16", d, d, "", n)>>, {Parts(d)}, Numbers) :
     x \in {<<Alu(op, "B")>> : op \in {"ANA", "ORA", "ADD", "SUB"}} \cup {<<Alu("XRA", "A"), Dad("DE")>>,
            <<Alu("ANA", "B"), Mvi("A", 1)>>, <<Alu("ANA", "C"), Inr("E")>>}, d \in Pairs, n \in 1..3}
  \cup {Block(<<Mov(r, "A")>> \o x \o <<Pseudo("NEG8", d, r, "", 0)>> \o y, {{d}, {d, r}}, Numbers) :
          d \in Regs \ {"A"}, r \in {"B", "E"}, x \in {<<>>, <<Inx("HL")>>}, y \in {<<>>, <<Mov("A", "B")>>}}

(* Pseudos one after the other.                                             *)
Common == {Pseudo("LOAD16_P", "DE", "HL", "", 0), Pseudo("LOAD16_P", "HL", "DE", "", 0),
           Pseudo("STORE16_P", "", "BC", "DE", 0), Pseudo("STORE16_P", "", "DE", "BC", 0),
           Pseudo("LOAD16_G", "DE", "", "", 8703), Pseudo("STORE16_G", "", "BC", "", 8703),
           Pseudo("ADD16", "DE", "HL", "BC", 0), Pseudo("SUB16", "BC", "BC", "DE", 0),
           Pseudo("DAD16", "BC", "DE", "BC", 0), Pseudo("SRL16", "DE", "DE", "", 5),
           Pseudo("AND16", "HL", "DE", "HL", 0), Pseudo("LOAD8_P", "A", "BC", "", 0),
           Pseudo("STORE8_P", "", "A", "DE", 0), Pseudo("STORE8_IMM_P", "", "", "BC", 5),
           Pseudo("ALU_M", "ADD", "", "DE", 0), Pseudo("INR_M", "", "", "BC", 0)}
Rows ==
  {Block(<<i, j, k>>, Lives(<<i, j, k>>, {{"D", "E"}, {"A", "H", "L"}, Bytes6}), {Pointers}) :
     i \in Common, j \in Common, k \in Common}

-----------------------------------------------------------------------------
(* Comparisons of a pair or a byte with a constant or another one.  Signed  *)
(* ones look at the sign of a difference, which must not overflow.          *)
SignedCC == {"LT", "LE", "GT", "GE"}
Conditions == {"EQ", "NE", "ULT", "ULE", "UGT", "UGE"} \cup SignedCC
Near(w, x) == IF w = 8 THEN Signed8(x) \in (-64)..63 ELSE Signed(x) \in (-16384)..16383
Part(w, x) == IF w = 8 THEN x % 256 ELSE x

Entries(q) ==
  {x \in Compared :
     /\ IsConst(q.r) => x[2] = 0
     /\ (q.cc \in SignedCC /\ ~SignTest(q)) => \A k \in 1..2 : Near(q.width, Part(q.width, x[k]))}

Questions ==
  {Comparison(use, 16, cc, Operand("HL", 0), r) :
     use \in {"BR", "SELECT"}, cc \in Conditions, r \in {Operand("DE", 0)} \cup {Operand("", n) : n \in Values16}}
  \cup {Comparison("BR", 8, cc, Operand("B", 0), r) :
     cc \in Conditions, r \in {Operand("C", 0)} \cup {Operand("", n) : n \in Values8}}
  \cup {Comparison("BR", 8, cc, Operand("A", 0), Operand("", n)) : cc \in Conditions, n \in Values8 \ {127, 255}}

(* Comparisons that are always or never true do not reach the lowering.     *)
Decided(q) == IsConst(q.r) /\ q.cc \in {"ULT", "UGE"} /\ q.r.n = 0
Overflows(q) == IsConst(q.r) /\ q.cc \in SignedCC /\ ~Near(q.width, q.r.n)

(* What the source gets wrong: the zero flag of CMP16 is that of the high   *)
(* byte alone; the sign flag of XRA A; CMP r is that of -r.                 *)
SelectsEqual(q) ==
  q.use = "SELECT" /\ q.width = 16 /\ q.cc \in {"EQ", "NE"} /\ q.r # Operand("", 0)
TestsSign8(q) ==
  /\ q.width = 8 /\ q.l.reg # "A" /\ IsConst(q.r)
  /\ <<q.cc, q.r.n>> \in {<<"LT", 0>>, <<"GE", 0>>, <<"GT", 255>>, <<"LE", 255>>}

Compare(q, lives) == [Block(<<>>, lives, Entries(q)) EXCEPT !.cmp = q]
ZeroTests == {q \in Questions : q.width = 8 /\ q.cc \in {"EQ", "NE"} /\ q.r = Operand("", 0)}
Asked == {q \in Questions : ~Decided(q) /\ ~(Overflows(q) /\ ~SignTest(q))}
Comparisons ==
  {Compare(q, {{"H", "L"}}) : q \in {z \in Asked : ~SelectsEqual(z) /\ ~TestsSign8(z)}}
  \cup {Compare(q, {{"A", "B"}}) : q \in ZeroTests}

MCBlocks == Singles \cup Accesses \cup Folds \cup Entered \cup Windowed \cup Prefixed \cup Rows \cup Comparisons
=============================================================================
