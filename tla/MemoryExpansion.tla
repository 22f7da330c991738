---------------------------- MODULE MemoryExpansion ----------------------------
(***************************************************************************)
(* expandPostRAPseudo for the pseudos that load, store and compute with     *)
(* memory.  They declare that they keep every register but their result,    *)
(* so each shape finds a spare register, or saves what it needs on the      *)
(* stack, or steps a pointer back.                                          *)
(***************************************************************************)
EXTENDS ArithExpansion

(* findDeadGR8AtMI: the first dead register that is no part of the pairs    *)
(* and registers excluded, or "".                                           *)
FirstOf(list) == IF list = <<>> THEN "" ELSE Head(list)
Spare(c, excluded) ==
  FirstOf(SelectSeq(<<"B", "C", "D", "E", "H", "L">>, LAMBDA r : r \in c.dead \ excluded))

(* While DE and HL are exchanged, D and E hold what H and L will get back.  *)
SpareSwapped(c) ==
  FirstOf(SelectSeq(<<<<"B", "B">>, <<"C", "C">>, <<"H", "D">>, <<"L", "E">>>>, LAMBDA x : x[1] \in c.dead))
SpareNotSwapped(c) == IF SpareSwapped(c) = "" THEN "" ELSE SpareSwapped(c)[1]   \* mutant
SpareSwappedReg(c) == IF SpareSwapped(c) = "" THEN "" ELSE SpareSwapped(c)[2]

Partner == [B |-> "B", C |-> "C", H |-> "D", L |-> "E", D |-> "H", E |-> "L"]

(* Code that needs register A, or the register r when there is one: A is    *)
(* kept on the stack if somebody still reads it.                            *)
KeepPsw(c, code) == When("A" \notin c.dead, <<Push("PSW")>>) \o code \o When("A" \notin c.dead, <<Pop("PSW")>>)
KeepIfA(c, r, code) == IF r = "A" THEN KeepPsw(c, code) ELSE code
OrA(r) == IF r = "" THEN "A" ELSE r

(* A pointer that was stepped goes back unless it is dead.                  *)
StepBack(c, p) == When(p \notin c.dead, <<Dcx(p)>>)
ViaXchg(code) == <<Xchg>> \o code \o <<Xchg>>
BCToHL == CopyPair("HL", "BC")

FromHL(lo, hi) == <<MovFromM(lo), Inx("HL"), MovFromM(hi)>>
ToHL(lo, hi) == <<MovToM(lo), Inx("HL"), MovToM(hi)>>
FromBC(lo, hi) == <<Ldax("BC"), Mov(lo, "A"), Inx("BC"), Ldax("BC"), Mov(hi, "A")>>
ToBC(lo, hi) == <<Mov("A", lo), Stax("BC"), Inx("BC"), Mov("A", hi), Stax("BC")>>
PairThroughHL(tmp) == <<MovFromM(tmp), Inx("HL"), MovFromM("H"), Mov("L", tmp)>>

-----------------------------------------------------------------------------
(* LOAD16_P: i.d := the word at i.s.                                        *)
Load16ByHL(i, c) ==
  IF i.d = "HL"
  THEN LET tmp == OrA(Spare(c, Parts("HL"))) IN KeepIfA(c, tmp, PairThroughHL(tmp))
  ELSE FromHL(Lo[i.d], Hi[i.d]) \o StepBack(c, "HL")

Load16ByDE(i, c) ==
  CASE i.d = "DE" -> LET tmp == OrA(SpareSwappedReg(c))
                     IN KeepIfA(c, tmp, ViaXchg(PairThroughHL(tmp)))
    [] i.d = "HL" -> ViaXchg(FromHL("E", "D")) \o StepBack(c, "DE")
    [] i.d = "BC" -> ViaXchg(FromHL("C", "B")) \o StepBack(c, "DE")

Load16ByBC(i, c) ==
  LET aDead == "A" \in c.dead
      spareHL == FirstOf(SelectSeq(<<"H", "L">>, LAMBDA r : r \in c.dead))
      spareDE == Spare(c, Parts("HL") \cup Parts("BC"))
      tmp == Spare(c, Parts("BC"))
  IN
  CASE i.d = "HL" ->
         IF ~aDead /\ spareDE # "" THEN BCToHL \o PairThroughHL(spareDE)
         ELSE KeepPsw(c, FromBC("L", "H")) \o StepBack(c, "BC")
    [] i.d = "BC" ->
         IF "HL" \in c.dead THEN BCToHL \o FromHL("C", "B")
         ELSE IF aDead /\ tmp # ""
         THEN <<Ldax("BC"), Mov(tmp, "A"), Inx("BC"), Ldax("BC"), Mov("B", "A"), Mov("C", tmp)>>
         ELSE KeepHL(TRUE, BCToHL \o FromHL("C", "B"))
    [] i.d = "DE" ->
         IF "HL" \in c.dead THEN BCToHL \o FromHL("E", "D")
         ELSE IF aDead THEN FromBC("E", "D") \o StepBack(c, "BC")
         ELSE IF spareHL # ""
         THEN <<Mov(spareHL, "A")>> \o FromBC("E", "D") \o <<Mov("A", spareHL)>> \o StepBack(c, "BC")
         ELSE KeepHL(TRUE, BCToHL \o FromHL("E", "D"))

Load16Code(i, c) ==
  CASE i.s = "HL" -> Load16ByHL(i, c) [] i.s = "DE" -> Load16ByDE(i, c) [] i.s = "BC" -> Load16ByBC(i, c)

(* STORE16_P: the word at i.t := i.s.                                       *)
Store16ByHL(i, c) ==
  LET tmp == OrA(Spare(c, Parts("HL"))) IN
  (IF i.s # "HL" THEN ToHL(Lo[i.s], Hi[i.s])
   ELSE KeepIfA(c, tmp, <<Mov(tmp, "H"), MovToM("L"), Inx("HL"), MovToM(tmp)>>))
    \o StepBack(c, "HL")

Store16ByDE(i, c) ==
  LET tmp == OrA(SpareSwappedReg(c)) IN
  (CASE i.s = "DE" -> KeepIfA(c, tmp, ViaXchg(<<Mov(tmp, "H"), MovToM("L"), Inx("HL"), MovToM(tmp)>>))
     [] i.s = "HL" -> ViaXchg(ToHL("E", "D"))
     [] i.s = "BC" -> ViaXchg(ToHL("C", "B")))
    \o StepBack(c, "DE")

(* A in the spare register while it carries the bytes, or on the stack.     *)
WithA(c, r, code) ==
  IF "A" \in c.dead THEN code
  ELSE IF r # "" THEN <<Mov(r, "A")>> \o code \o <<Mov("A", r)>>
  ELSE KeepPsw(c, code)

Store16ByBC(i, c) ==
  LET tmp == Spare(c, Parts("BC") \cup Parts(i.s)) IN
  (IF i.s # "BC" THEN WithA(c, tmp, ToBC(Lo[i.s], Hi[i.s]))
   ELSE IF "HL" \in c.dead THEN BCToHL \o ToHL("C", "B")
   ELSE IF tmp # "" THEN WithA(c, tmp, ToBC("C", "B"))
   ELSE KeepHL(TRUE, BCToHL \o ToHL("C", "B")))
    \o StepBack(c, "BC")

Store16Code(i, c) ==
  CASE i.t = "HL" -> Store16ByHL(i, c) [] i.t = "DE" -> Store16ByDE(i, c) [] i.t = "BC" -> Store16ByBC(i, c)

(* LOAD16_G and STORE16_G: the address is a constant.                       *)
Load16GlobalCode(i, c) ==
  CASE i.d = "HL" -> <<Lhld(i.n)>>
    [] i.d = "DE" -> When("HL" \notin c.dead, <<Xchg>>) \o <<Lhld(i.n), Xchg>>
    [] i.d = "BC" ->
         IF "HL" \notin c.dead /\ "A" \in c.dead
         THEN <<Lda(i.n), Mov("C", "A"), Lda(Wrap(i.n + 1)), Mov("B", "A")>>
         ELSE KeepHL("HL" \notin c.dead, <<Lhld(i.n)>> \o CopyPair("BC", "HL"))

Store16GlobalCode(i, c) ==
  CASE i.s = "HL" -> <<Shld(i.n)>>
    [] i.s = "DE" -> <<Xchg, Shld(i.n)>> \o When("HL" \notin c.dead, <<Xchg>>)
    [] i.s = "BC" ->
         IF "HL" \notin c.dead /\ "A" \in c.dead
         THEN <<Mov("A", "C"), Sta(i.n), Mov("A", "B"), Sta(Wrap(i.n + 1))>>
         ELSE KeepHL("HL" \notin c.dead, BCToHL \o <<Shld(i.n)>>)

-----------------------------------------------------------------------------
(* Bytes: LOAD8_P, STORE8_P, STORE8_IMM_P.                                  *)
Load8Code(i, c) ==
  LET viaA == <<Ldax(i.s)>> \o When(i.d # "A", <<Mov(i.d, "A")>>) IN
  CASE i.s = "HL" -> <<MovFromM(i.d)>>
    [] i.s # "HL" /\ (i.d = "A" \/ "A" \in c.dead)       -> viaA
    [] i.s = "DE" /\ ~(i.d = "A" \/ "A" \in c.dead) -> ViaXchg(<<MovFromM(Partner[i.d])>>)
    [] i.s = "BC" /\ ~(i.d = "A" \/ "A" \in c.dead) -> WithA(c, Spare(c, {i.d}), viaA)

Store8Code(i, c) ==
  LET viaA == When(i.s # "A", <<Mov("A", i.s)>>) \o <<Stax(i.t)>> IN
  CASE i.t = "HL" -> <<MovToM(i.s)>>
    [] i.t # "HL" /\ (i.s = "A" \/ "A" \in c.dead)  -> viaA
    [] i.t = "DE" /\ ~(i.s = "A" \/ "A" \in c.dead) -> ViaXchg(<<MovToM(Partner[i.s])>>)
    [] i.t = "BC" /\ ~(i.s = "A" \/ "A" \in c.dead) -> WithA(c, Spare(c, Parts("BC") \cup {i.s}), viaA)

(* expandMemOpM: an instruction with a memory operand, through HL.          *)
AtAddress(p, c, code) ==
  CASE p = "HL" -> code
    [] p = "DE" -> <<Xchg>> \o code \o When(~({"HL", "DE"} \subseteq c.dead), <<Xchg>>)
    [] p = "BC" -> KeepHL("HL" \notin c.dead, BCToHL \o code)

Store8ImmCode(i, c) ==
  IF i.t = "HL" THEN <<MviM(i.n)>>
  ELSE IF "A" \in c.dead THEN <<Mvi("A", i.n), Stax(i.t)>>
  ELSE IF i.t = "DE" THEN ViaXchg(<<MviM(i.n)>>)
  ELSE IF "HL" \notin c.dead /\ "DE" \in c.dead THEN CopyPair("DE", "BC") \o ViaXchg(<<MviM(i.n)>>)
  ELSE KeepHL("HL" \notin c.dead, BCToHL \o <<MviM(i.n)>>)
=============================================================================
