------------------------------- MODULE MCPeephole -------------------------------
(* Blocks: what each rewrite looks for, with one more instruction at any    *)
(* place of it, or with what another rewrite looks for before or after it,  *)
(* every kind of exit, and several sets of live registers.                  *)
EXTENDS LatePasses

Slot == 32      \* the static-stack slot
Global == 40    \* a variable of the program

Reg(a, bc, de, hl, f) ==
  SetPair(SetPair(SetPair([r \in Regs \cup {"F"} |-> IF r = "A" THEN a ELSE f], "BC", bc), "DE", de), "HL", hl)
Memory == [x \in {Slot, Slot + 1, Global, 66, 67, 68, 192, 193, 194, 195} |-> (x * 7) % 16]
MCMachines ==
  [x \in {"zero", "one", "carry"} |->
     [reg |-> CASE x = "zero" -> Reg(0, 0, 82, 67, 4) [] x = "one" -> Reg(9, 97, 84, 67, 0)
                [] OTHER -> Reg(15, 17, 17, 66, 1),
      sp |-> 192, mem |-> Memory]]

-----------------------------------------------------------------------------
PairPatterns ==
  {<<Pop("BC"), Push("BC")>>, <<Xchg, Dad("DE")>>,
   <<Mov("C", "L"), Mov("B", "H"), Inx("BC"), Mov("L", "C"), Mov("H", "B"), Shld(Slot)>>,
   <<Mov("D", "H"), Mov("E", "L"), Mov("L", "E"), Mov("H", "D"), Shld(Slot)>>}
SlotPatterns ==
  {<<Shld(Slot), Lhld(Slot)>>, <<Shld(Slot), Push("DE"), Pop("DE"), Lhld(Slot)>>,
   <<Lhld(Slot), Inx("HL"), Shld(Slot), Mvi("L", 3), Lhld(Slot)>>}
Counters ==
  {<<Mov("A", "B"), Dcr("A"), Mov("B", "A"), Alu("ORA", "A")>>, <<Inr("B"), Mov("A", "B"), AluImm("CMP", 0)>>,
   <<Dcr("A"), Alu("ORA", "A")>>}
ZeroTests == {<<Mov("A", "C"), Alu("ORA", "A")>>, <<Mov("A", "E"), AluImm("CMP", 0)>>}
Copies ==
  {<<Mov("B", "C"), Mov("D", "B")>>, <<Mov("C", "B"), Mov("B", "C")>>, <<Mvi("B", 3), Mov("D", "B")>>,
   <<Mvi("A", Hole), Mov("D", "A")>>, <<Mov("E", "A"), Mvi("A", 0), Mov("C", "E")>>,
   <<Mov("B", "H"), Mov("C", "L"), Mov("H", "B"), Mov("L", "C")>>,
   <<Mov("B", "H"), Mov("C", "L"), Xchg, Mov("D", "B"), Mov("E", "C")>>,
   <<Mov("C", "C")>>, <<Mov("B", "E")>>, <<Mvi("C", 3)>>, <<Mvi("C", Hole)>>}
Memories ==
  {<<MovFromM("B"), Alu("ADD", "B")>>, <<MovFromM("E"), Alu("CMP", "E")>>, <<MovFromM("A"), Inr("A"), MovToM("A")>>,
   <<Mvi("A", 5), MovToM("A")>>, <<Mvi("A", Hole), MovToM("A")>>}
Immediate ==
  {<<Mvi("C", 3), Alu("ADD", "C")>>, <<Mvi("C", Hole), Alu("SUB", "C")>>, <<Mvi("E", 0), Alu("CMP", "E")>>,
   <<Mvi("A", 0)>>, <<Mvi("A", Hole)>>, <<Mvi("A", 0), Alu("ADC", "B")>>, <<Xchg, Xchg>>,
   <<Pop("PSW"), Push("PSW")>>}
Plain == SlotPatterns \cup Copies \cup Memories \cup Immediate

(* What the passes behind the peephole pass look for.                       *)
Constants ==
  {<<Mvi("B", 3), MovToM("B"), Mvi("B", n)>> : n \in {2, 3, 4, 5, Hole}}
    \cup {<<Mvi("B", 3), MovToM("B"), Mvi("C", 3)>>, <<Mvi("B", Hole), MovToM("B"), Mvi("C", 0)>>,
          <<Mvi("B", 15), MovToM("B"), Mvi("B", 0)>>, <<Lxi("DE", 18), Push("DE"), Pop("BC"), Lxi("DE", 18)>>,
          <<Lxi("DE", 18), Xchg, Stax("BC"), Mvi("H", 1), Mvi("D", 2)>>, <<Mov("B", "A"), MovToM("B"), Mov("A", "B")>>}
Addresses ==
  {<<Lxi("HL", 66), MovFromM("C"), Lxi("HL", n), MovToM("C")>> : n \in {64, 66, 67, 68, 192}}
    \cup {<<LxiSym("HL", "g", 66), MovFromM("C"), LxiSym("HL", g, 67), MovToM("C")>> : g \in {"g", "h"}}
    \cup {<<Lxi("HL", Hole), MovFromM("C"), Lxi("HL", 66)>>, <<Lxi("HL", 66), Dcx("HL"), MovToM("A"), Lxi("HL", 67)>>,
          <<Lxi("HL", 66), Mov("C", "B"), Lxi("HL", 68)>>}
Exchanges ==
  {c \o <<Lxi("HL", 66)>> : c \in CopyingPair("HL", "DE")} \cup {c \o <<Lxi("DE", 18)>> : c \in CopyingPair("DE", "HL")}
    \cup CopyingPair("HL", "DE") \cup CopyingPair("DE", "HL") \cup {<<Xchg, Mov("D", "H"), Mov("E", "L"), Lhld(Slot)>>}
Late == Constants \cup Addresses \cup Exchanges
LateFillers ==
  {Mov("B", "C"), Mov("H", "A"), Mvi("C", 3), Inr("B"), Dcr("A"), Pop("DE"), Xchg, Inx("HL"), Call("HL", "HL", 0), Lhld(Slot)}
FlagTests ==
  {<<Alu("SUB", "B"), Alu("ORA", "A")>>, <<Alu("SBB", "D"), Mov("H", "A"), Mov("A", "H"), Alu("ORA", "A")>>,
   <<Alu("ADD", "B"), Mov("C", "A"), Alu("XRA", "A"), Alu("CMP", "C")>>, <<Inr("A"), Mov("L", "A"), AluImm("CMP", 0)>>}

Patterns == PairPatterns \cup Plain

Fillers ==
  {Mov("B", "C"), Mov("C", "A"), Mov("A", "E"), Mov("D", "B"), Mov("H", "A"), Mvi("C", 5), Mvi("A", 0),
   Inr("B"), Dcr("A"), Alu("ADD", "C"), Alu("ADC", "B"), Alu("CMP", "E"), Rotate("RAL"), Push("DE"), Pop("DE"),
   Push("BC"), Xchg, Dad("BC"), Inx("HL"), Lxi("DE", 18), Sta(Global), Lda(Global), MovToM("A"), MovFromM("C"),
   Lhld(Slot), Shld(Slot), Call("A", "AE", 0), Call("HL", "HL", 1)}

FewFillers == {Mov("D", "B"), Mvi("C", 5), Alu("ADC", "B"), Push("DE"), Pop("DE"), Lhld(Slot), Shld(Slot), MovToM("A")}

(* How a block ends, with the exits that leaves.                            *)
Ends == {<<Ret("HL")>>, <<J("C", "taken")>>, <<J("NZ", "loop")>>, <<Call("A", "AE", 0), Ret("A")>>}
Branching == {<<J("Z", "taken")>>, <<J("NZ", "loop")>>, <<J("NZ", "taken"), Jmp("fall")>>}

RetLive(c) == IF c # <<>> /\ Last(c).op = "RET" THEN Parts(Last(c).d) ELSE {}
Few == {"A", "C", "D", "H", "L"}
Lives == {{}, {"A", "H", "L"}, Few, Regs, Regs \cup {"F"}}
Behind(c, fall, taken, reads) ==
  [live |-> [fall |-> fall, taken |-> taken, ret |-> RetLive(c)], reads |-> reads]

-----------------------------------------------------------------------------
Out(c, w) ==
  w.live["fall"] \cup w.live["taken"] \cup (IF J("NZ", "loop") \in Range(c) THEN Regs \cup LiveThrough(c, {}) ELSE {})
Before(c, k) == SubSeq(c, 1, k - 1)

(* Nothing a call destroyed is read.                                        *)
RECURSIVE Lost(_)
Lost(c) == IF c = <<>> THEN {} ELSE (Lost(Front(c)) \cup Masked(Last(c))) \ Defs(Last(c))
WellFormed(c, w) ==
  /\ \A k \in DOMAIN c : Uses(c[k]) \cap Lost(Before(c, k)) = {}
  /\ (w.live["fall"] \cup w.live["taken"]) \cap Lost(c) = {}

(* Blocks the passes are known to break; README.md tells each.                 *)
Ops(c) == {c[k].op : k \in DOMAIN c}
Swapped(p) == IF p = "HL" THEN {Mov("D", "H"), Mov("E", "L")} ELSE IF p = "DE" THEN {Mov("H", "D"), Mov("L", "E")} ELSE {}
HalfDead(c, w) ==
  \E k \in DOMAIN c, p \in Pairs :
    /\ (p # "HL" /\ c[k].op \in {"PUSH", "SHLD", "DAD"}) \/ c[k] \in Swapped(p)
    /\ DeadAfter(c, k, p, Out(c, w))
    /\ \E r \in Parts(p) : ~DeadAfter(c, k, r, Out(c, w))
CallBetweenXchg(c) ==
  \E k \in DOMAIN c : c[k].op = "CALL" /\ Xchg \in Range(Before(c, k)) /\ Xchg \in Range(SubSeq(c, k, Len(c)))
CarryPastCount(c, w) ==
  \E k \in DOMAIN c : \E h \in Ahead(c, k) :
    /\ c[k] = Mvi("A", 0) /\ Counts(c[h])
    /\ "F" \in Out(c, w) \/ \E g \in Ahead(c, h) : "F" \in Uses(c[g])
ArgumentDropped(c, fallRet) ==
  /\ (c # <<>> /\ Last(c).op = "CALL" /\ fallRet) \/ {"CALL", "RET"} \subseteq Ops(c)
  /\ \E k \in DOMAIN c : "E" \in Defs(c[k]) /\ c[k].op # "CALL"
ReadsCarry(i) == i.op \in {"ADC", "SBB", "RAL", "RAR"} \/ (IsJcc(i) /\ i.s \in {"C", "NC"})
StaleCarry(c) ==
  \E k \in DOMAIN c :
    /\ ZeroTest(c[k]) \/ (c[k] = Alu("CMP", "E") /\ Mvi("E", 0) \in Range(c))
    /\ \E h \in DOMAIN c :
         ReadsCarry(c[h]) /\ (J("NZ", "loop") \in Range(c) \/ (h > k /\ \A g \in Between(k, h) : ~WritesAAndFlags(c[g])))
LoadLost(c) ==
  \E k \in DOMAIN c : \E j \in Ahead(c, k) :
    /\ LoadsHL(c[k]) /\ \A h \in Between(k, j) : (Operands(c[h]) \cup Masked(c[h])) \cap {"H", "L"} = {}
    /\ HLTouched(c[j]) /\ Uses(c[j]) \cap {"H", "L"} = {}
    /\ c[k].n = Hole \/ ~({"H", "L"} \subseteq Defs(c[j]) \cup Masked(c[j]))
CountedFlags(c, w) ==
  /\ "F" \in Out(c, w)
  /\ \E k \in DOMAIN c : \E j \in Ahead(c, k) :
       {c[k].op, c[j].op} = {"MVI"} /\ c[k].d = c[j].d /\ (c[k].n - c[j].n) % ByteSize \in {1, ByteSize - 1}
ZeroLost(c, w) ==
  \E k \in DOMAIN c : \E j \in Ahead(c, k) :
    /\ ClearsA(c[k]) /\ c[j].op = "CMP"
    /\ ~DeadAfter(c, j, "A", Out(c, w)) \/ \E h \in Ahead(c, k) : c[h].op = "MVI" /\ c[h].n = 0
BridgeSeen(c, w) ==
  \E k \in DOMAIN c : \E j \in Ahead(c, k) :
    LET r == c[k].d IN
    /\ c[k] = Mov(r, "A") /\ c[j] = Alu("CMP", r)
    /\ \/ \E h \in Between(k, j) : r \in Uses(c[h])
       \/ \E h \in Ahead(c, k) : r \in Operands(c[h]) \ NamedIn(c[h])
       \/ \E p \in Pairs : r \in Parts(p) /\ Parts(p) \subseteq Out(c, w)
FlagsBehindTest(c, w) == "F" \in Out(c, w) /\ \E k \in DOMAIN c : ZeroTest(c[k])
AccumulatorTaken(c, w, fallZero) ==
  fallZero /\ "A" \in Out(c, w) /\ \E k \in DOMAIN c : IsJcc(c[k]) /\ c[k].s = "NZ"
Sound(c, w, fallZero, fallRet) ==
  /\ WellFormed(c, w) /\ ~HalfDead(c, w) /\ ~CallBetweenXchg(c) /\ ~CarryPastCount(c, w)
  /\ ~StaleCarry(c) /\ ~ZeroLost(c, w) /\ ~BridgeSeen(c, w)
  /\ ~LoadLost(c) /\ ~CountedFlags(c, w) /\ ~ArgumentDropped(c, fallRet)
  /\ ~FlagsBehindTest(c, w) /\ ~AccumulatorTaken(c, w, fallZero)

-----------------------------------------------------------------------------
After(before, c, worlds, fallZero, fallRet) ==
  [code |-> c, before |-> before, slot |-> {Slot, Slot + 1}, fallZero |-> fallZero, fallRet |-> fallRet,
   behind |-> {w \in worlds : Sound(c, w, fallZero, fallRet)}, enter |-> DOMAIN Machines]
Block(c, worlds, fallZero, fallRet) == After(<<>>, c, worlds, fallZero, fallRet)
Reload(c) == IF "SHLD" \in Ops(c) /\ "RET" \notin Ops(c) THEN BOOLEAN ELSE {FALSE}
Plainly(c, lives) == Block(c, {Behind(c, l, l \cup {"A"}, r) : l \in lives, r \in Reload(c)}, FALSE, FALSE)

Inserted(p, is) == {p} \cup {InsertAt(p, k, i) : k \in 1..(Len(p) + 1), i \in is}
Straight == {Plainly(c, Lives) : c \in UNION {Inserted(p, Fillers) : p \in Patterns}}
Leaving == {Plainly(c \o e, IF Last(e).op = "RET" THEN {{}} ELSE {Few}) : c \in UNION {Inserted(p, FewFillers) : p \in Patterns}, e \in Ends}
Tests == UNION {Inserted(p, Fillers) : p \in Counters \cup ZeroTests}
Tested == {Plainly(c \o e, {{}, Few}) : c \in Tests, e \in Branching}
Two == {Plainly(p \o q, {Few, Regs}) : p \in Patterns, q \in Patterns}
ZeroNext ==
  {Block(c, {Behind(c, l \ {"A"}, l, FALSE) : l \in {{}, Few}}, TRUE, FALSE) : c \in {c \o e : c \in Tests, e \in Branching}}
ReturnNext ==
  {Block(c, {Behind(c, {"A"}, {}, FALSE)}, FALSE, TRUE) :
     c \in {Append(c, Call("A", "AE", n)) : c \in UNION {Inserted(p, FewFillers) : p \in Plain}, n \in 0..1}}


Later ==
  {Block(c, {Behind(c, l, l, FALSE) : l \in Lives \cup {{"B", "H", "L"}}}, FALSE, FALSE) :
     c \in UNION {Inserted(p, LateFillers) : p \in Late}}
FlagTested == {Plainly(c \o e, {{}, Few}) : c \in UNION {Inserted(p, Fillers) : p \in FlagTests}, e \in Branching}
Predecessors ==
  {Append(b, J(cc, to)) : cc \in {"Z", "NZ"}, to \in {"here", "past"},
     b \in {<<Mov("A", "B"), Alu("ORA", "C")>>, <<Mvi("D", 2), Alu("ORA", "A")>>, <<Inr("B"), AluImm("CMP", 9)>>,
            <<Alu("XRA", "A"), Alu("CMP", "C")>>, <<Lxi("BC", 18), Xchg, Alu("ADD", "C")>>}}
Inherited ==
  {After(b, <<Mvi(r, n), MovToM(r)>>, {Behind(<<>>, l, l, FALSE) : l \in {Few, Regs}}, FALSE, FALSE) :
     b \in Predecessors, r \in {"A", "B", "C", "D"}, n \in {0, 1, 2, 9}}

MCBlocks == <<Later, FlagTested, Inherited, Straight, Leaving, Tested, Two, ZeroNext, ReturnNext>>

(* (x - y) >> 1 over 16 bits, as V6CLANG_SRL16_RAR is expanded.             *)
Difference == <<Mov("A", "L"), Alu("SUB", "E"), Mov("L", "A"), Mov("A", "H"), Alu("SBB", "D"), Mov("H", "A")>>
Halved ==
  <<Mov("A", "H"), Alu("ORA", "A"), Rotate("RAR"), Mov("H", "A"), Mov("A", "L"), Rotate("RAR"), Mov("L", "A")>>
MCStaleCarry ==
  <<{[code |-> Difference \o Halved, before |-> <<>>, slot |-> {}, fallZero |-> FALSE, fallRet |-> FALSE,
      behind |-> {Behind(<<>>, {"H", "L"}, {}, FALSE)}, enter |-> DOMAIN Machines]}>>
=============================================================================
