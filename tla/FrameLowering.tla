----------------------------- MODULE FrameLowering -----------------------------
(***************************************************************************)
(* One function on the run-time stack: the argument registers the calling   *)
(* convention gives it, the prologue and epilogue of V6ClangFrameLowering,  *)
(* the block copies V6ClangSPTrickOpt rewrites, the call-frame information  *)
(* V6ClangCFI derives from the final code, and a run of that code in which  *)
(* an interrupt may come between any two instructions.                      *)
(***************************************************************************)
EXTENDS Intel8080, SequencesExt

CONSTANTS
  Functions,  \* the functions a run considers
  Entry,      \* SP when the function is entered; the return address is there
  Junk,       \* what an interrupt leaves below SP, a callee in registers
  Src, Dst    \* where a block copy reads and writes

VARIABLES
  f,       \* args: types, used: the arguments read; ret: what is returned;
           \* locals, out: bytes of locals and of outgoing arguments; fp, size,
           \* isr: has a frame pointer, is built for size, is a handler;
           \* copy: bytes copied, keep: registers live across the copy;
           \* call: "no" or whom it calls; exits: blocks that return, 0 if the
           \* entry block does
  phase,   \* the pass that is next, or "run"
  code,    \* the blocks in layout order
  rows,    \* the call-frame rows: rows[b][k + 1] holds after k instructions
  cfi,     \* the state of V6ClangCFI
  at,      \* the running block and the instructions of it done
  m, ie    \* the 8080 and its interrupt-enable flip-flop

frameVars == <<f, phase, code, rows, cfi, at, m, ie>>

-----------------------------------------------------------------------------
(* The calling convention: V6ClangArgAllocator hands out registers from two *)
(* free lists; what finds none goes to the stack.                           *)
Without(list, S) == SelectSeq(list, LAMBDA r : r \notin S)
PairOf(r) == {p \in Pairs : r \in Parts(p)}

Assign(st, type) ==
  LET list == IF type = "i8" THEN st.i8 ELSE st.i16
      r == Head(list)
  IN IF list = <<>>
     THEN [st EXCEPT !.where = Append(@, [reg |-> "", at |-> st.stack]),
                     !.stack = @ + (IF type = "i8" THEN 1 ELSE 2)]
     ELSE [st EXCEPT !.where = Append(@, [reg |-> r, at |-> 0]),
                     !.i8 = Without(@, Parts(r)),
                     !.i16 = Without(@, {r} \cup PairOf(r))]

Where(args) ==
  FoldLeft(Assign, [i8 |-> <<"A", "B", "C", "D", "E", "L", "H">>, i16 |-> <<"HL", "DE", "BC">>,
                    where |-> <<>>, stack |-> 0], args).where

(* The halves that are live into the entry block: an argument nobody reads  *)
(* leaves no live-in.                                                       *)
LiveIn(fn) ==
  UNION {Parts(Where(fn.args)[i].reg) : i \in {j \in fn.used : Where(fn.args)[j].reg # ""}}

RetRegs(r) == CASE r = "none" -> {} [] r = "i8" -> {"A"} [] r = "i16" -> {"H", "L"}
                [] r = "i32" -> {"D", "E", "H", "L"}

-----------------------------------------------------------------------------
(* PrologEpilogInserter lays out the locals right below the incoming SP and,*)
(* unless there is a frame pointer, the outgoing arguments below them.      *)
FrameSizeNoCalls(fn) == fn.locals   \* mutant
FrameSize(fn) == fn.locals + (IF fn.fp THEN 0 ELSE fn.out)
LocalOffset(fn, k) == k - fn.locals

Occupied(fn) == LiveIn(fn) \cap {"H", "L"} # {} /\ LiveIn(fn) \cap {"D", "E"} # {}
SavesArgs(fn) == Occupied(fn) /\ (fn.fp \/ FrameSize(fn) > 0)   \* Case 1 of emitPrologue
ArgSave(fn) == IF SavesArgs(fn) THEN 4 ELSE 0
StackSize(fn) == FrameSize(fn) + ArgSave(fn)                    \* once emitPrologue has run

(* chooseDeadPair: the first pair neither half of which is live.            *)
NoPair == ""
PairOrder == <<"PSW", "BC", "DE", "HL">>
DeadPair(live) ==
  LET dead == {k \in 1..4 : {Hi[PairOrder[k]], Lo[PairOrder[k]]} \cap live = {}}
  IN IF dead = {} THEN NoPair ELSE PairOrder[CHOOSE k \in dead : \A j \in dead : k <= j]

Times(n, i) == [k \in 1..n |-> i]

PushPop(fn, n, live) == (n \in {2, 4} \/ (n = 6 /\ fn.size)) /\ DeadPair(live) # NoPair

(* emitSPAdjustment, in its three tiers, and spAdjustClobbersHL.            *)
ClobbersHL(fn, n, live) == n > 0 /\ ~PushPop(fn, n, live) /\ n \notin {2, 4}

AdjustSP(fn, n, live, down) ==
  IF n = 0 THEN <<>>
  ELSE IF PushPop(fn, n, live)
       THEN Times(n \div 2, IF down THEN Push(DeadPair(live)) ELSE Pop(DeadPair(live)))
  ELSE IF n \in {2, 4} THEN Times(n, IF down THEN Dcx("SP") ELSE Inx("SP"))
  ELSE <<Lxi("HL", IF down THEN Wrap(ByteSize * ByteSize - n) ELSE n), DadSp, Sphl>>

HLToDE == <<Mov("D", "H"), Mov("E", "L")>>
DEToHL == <<Mov("H", "D"), Mov("L", "E")>>
SetFP == <<Push("BC"), Lxi("HL", 0), DadSp, Mov("B", "H"), Mov("C", "L")>>

ReloadArgsNoPsw(n) ==   \* mutant
  <<Lxi("HL", n), DadSp, MovFromM("E"), Inx("HL"), MovFromM("D"),
    Inx("HL"), MovFromM("A"), Inx("HL"), MovFromM("H"), Mov("L", "A")>>
ReloadArgs(n) ==
  <<Lxi("HL", n), DadSp, MovFromM("E"), Inx("HL"), MovFromM("D"), Push("PSW"),
    Inx("HL"), MovFromM("A"), Inx("HL"), MovFromM("H"), Mov("L", "A"), Pop("PSW")>>

Prologue(fn) ==
  LET live == LiveIn(fn)
      adjust == AdjustSP(fn, FrameSize(fn), live, TRUE)
      fp == IF fn.fp THEN SetFP ELSE <<>>
      save == live \cap {"H", "L"} # {} /\ (fn.fp \/ ClobbersHL(fn, FrameSize(fn), live))
  IN IF SavesArgs(fn)
     THEN <<Push("HL"), Push("DE")>> \o fp \o adjust \o ReloadArgs(FrameSize(fn))
     ELSE (IF save THEN HLToDE ELSE <<>>) \o fp \o adjust \o (IF save THEN DEToHL ELSE <<>>)

Epilogue(fn) ==
  LET live == RetRegs(fn.ret)
      save == fn.ret = "i16" /\ (fn.fp \/ ClobbersHL(fn, StackSize(fn), live))
      restore == IF fn.fp THEN <<Mov("H", "B"), Mov("L", "C"), Sphl, Pop("BC")>>
                                 \o AdjustSP(fn, ArgSave(fn), live, FALSE)
                 ELSE AdjustSP(fn, StackSize(fn), live, FALSE)
  IN (IF save THEN HLToDE ELSE <<>>) \o restore \o (IF save THEN DEToHL ELSE <<>>)

-----------------------------------------------------------------------------
(* The body, between prologue and epilogue.  "BODY": it has read its        *)
(* arguments and has values of its own in the registers; "STORE": it fills  *)
(* its locals; then the copy, byte by byte; "SEEN": it reads what it kept   *)
(* over the copy; "OUT" and "CALL": it stores arguments at SP and calls;    *)
(* "RESULT": it computes what it returns.                                   *)
Mark(op) == Instr(op, "", "", 0)

(* n rounds of w instructions each.                                         *)
Rounds(w, n, round(_)) == [p \in 1..w * n |-> round((p - 1) \div w)[1 + ((p - 1) % w)]]

CopyByte(k) == <<Lxi("HL", Src + k), MovFromM("A"), Lxi("HL", Dst + k), MovToM("A")>>
CopyBytes(first, n) == Rounds(4, n, LAMBDA k : CopyByte(first + k))

Entered == <<Mark("BODY"), Mark("STORE")>>
Rest == <<Mark("SEEN"), Mark("OUT"), Mark("CALL"), Mark("RESULT")>>
Body(fn) == Entered \o CopyBytes(0, fn.copy) \o Rest

(* V6ClangSPTrickOpt: six bytes and more, from consecutive addresses to     *)
(* consecutive addresses, are popped two by two with SP as the data pointer.*)
(* An odd last byte is copied after that, and its own copy is left alone.   *)
MinBytes == 6

CopyWord(k) == <<Pop("HL"), Shld(Dst + 2 * k)>>

TrickNoDi(n) ==   \* mutant
  <<Lxi("HL", 0), DadSp, Xchg, Lxi("SP", Src)>>
    \o Rounds(2, n \div 2, CopyWord) \o <<Xchg, Sphl, Mark("EI")>>
Trick(n) ==
  <<Mark("DI"), Lxi("HL", 0), DadSp, Xchg, Lxi("SP", Src)>>
    \o Rounds(2, n \div 2, CopyWord) \o <<Xchg, Sphl, Mark("EI")>>

(* The copy comes right after the stores to the locals.                     *)
Even(n) == n - (n % 2)
Tricks(fn) == ~fn.isr /\ Even(fn.copy) >= MinBytes
CopyStart(fn) == Len(Prologue(fn)) + Len(Entered)

SPTrick(fn, blk) ==
  IF ~Tricks(fn) THEN blk
  ELSE SubSeq(blk, 1, CopyStart(fn)) \o Trick(Even(fn.copy))
         \o CopyBytes(Even(fn.copy), fn.copy - Even(fn.copy))
         \o SubSeq(blk, CopyStart(fn) + 4 * Even(fn.copy) + 1, Len(blk))

-----------------------------------------------------------------------------
(* What the instructions and the body's own steps do.  A "framed" callee    *)
(* saves and restores BC, any other leaves in the registers what it likes.  *)
BodyValue == [A |-> 2, B |-> 3, C |-> 4, D |-> 5, E |-> 6, H |-> 7, L |-> 1, F |-> 0]
Result == [A |-> 6, B |-> 0, C |-> 0, D |-> 1, E |-> 3, H |-> 5, L |-> 7, F |-> 0]
LocalMark(k) == 1 + (k % (ByteSize - 1))
FPRegs(fn) == IF fn.fp THEN {"B", "C"} ELSE {}

(* eliminateFrameIndex: the slot lies at SP plus this.                      *)
SpOffset(fn, objectOffset) == objectOffset + StackSize(fn)
LocalAddr(fn, x, k) == Wrap(x.sp + SpOffset(fn, LocalOffset(fn, k)))
StackArgAddr(fn, x, i) == Wrap(x.sp + SpOffset(fn, 2 + Where(fn.args)[i].at))

(* Bytes a set of addresses holds after a body stores to it.                *)
Store(mem, n, addr(_), val(_)) ==
  [x \in Addr |-> IF \E k \in 0..n - 1 : addr(k) = x
                  THEN val(CHOOSE k \in 0..n - 1 : addr(k) = x) ELSE mem[x]]

With(reg, S, vals) == [r \in Regs \cup {"F"} |-> IF r \in S THEN vals[r] ELSE reg[r]]

Effect(fn, x, i) ==
  CASE i.op = "BODY"   -> [x EXCEPT !.reg = With(@, (Regs \cup {"F"}) \ FPRegs(fn), BodyValue)]
    [] i.op = "STORE"  -> [x EXCEPT !.mem = Store(@, fn.locals, LAMBDA k : LocalAddr(fn, x, k), LocalMark)]
    [] i.op = "OUT"    -> [x EXCEPT !.mem = Store(@, fn.out, LAMBDA k : Wrap(x.sp + k), LAMBDA k : Junk)]
    [] i.op = "CALL" /\ fn.call # "no" ->
         [Interrupted(x, Junk) EXCEPT
            !.reg = With(@, (Regs \cup {"F"}) \ (IF fn.call = "framed" THEN {"B", "C"} ELSE {}),
                         [r \in Regs \cup {"F"} |-> Junk])]
    [] i.op = "RESULT" -> [x EXCEPT !.reg = With(@, RetRegs(fn.ret), Result)]
    [] i.op \in {"SEEN", "DI", "EI"} \/ (i.op = "CALL" /\ fn.call = "no") -> x
    [] OTHER           -> Exec(x, i)

-----------------------------------------------------------------------------
(* What the functions may be.  With a frame pointer neither the offsets of  *)
(* frame indices nor the reload of saved arguments count the saved BC, an   *)
(* argument in BC is lost, outgoing arguments get no room and a callee may  *)
(* lose BC; and the epilogue that needs HL does not keep a 32-bit result.   *)
FPTrouble(fn) ==
  \/ \E i \in fn.used : Where(fn.args)[i].reg \in {"", "B", "C", "BC"}
  \/ fn.out > 0 \/ fn.call = "plain"
  \/ SavesArgs(fn)
  \/ fn.ret = "i32"

LosesLong(fn) == fn.ret = "i32" /\ ClobbersHL(fn, StackSize(fn), RetRegs(fn.ret))

FunctionType(fn) ==
  /\ fn.locals \in Nat /\ fn.out \in Nat /\ fn.copy \in Nat /\ fn.exits \in Nat
  /\ fn.fp \in BOOLEAN /\ fn.size \in BOOLEAN /\ fn.isr \in BOOLEAN
  /\ fn.ret \in {"none", "i8", "i16", "i32"} /\ fn.call \in {"no", "framed", "plain"}
  /\ fn.keep \subseteq {"B", "C"} \ FPRegs(fn)
  /\ \A i \in fn.used :
       LET w == Where(fn.args)[i] IN
       /\ w.reg \in Regs \cup Pairs \cup {""}
       /\ w.at \in Nat /\ Entry + 2 + w.at \in Addr

(* The bytes copied do not overlap where they go, and the stack does not    *)
(* grow down to either: four bytes below the frame, for the accumulator and *)
(* flags in the prologue or a saved BC, and for an interrupt.               *)
Room(fn) == Src + fn.copy <= Dst /\ Dst + fn.copy + StackSize(fn) + 4 < Entry

ASSUME MachineAssumption ==
  Entry \in Addr /\ Junk \in Byte /\ Src \in Nat /\ Dst \in Nat
ASSUME FunctionsAssumption ==
  \A fn \in Functions :
    FunctionType(fn) /\ Room(fn) /\ ~(fn.fp /\ FPTrouble(fn)) /\ ~LosesLong(fn)

-----------------------------------------------------------------------------
(* V6ClangCFI: one walk over the final code.  reg and off: CFA = reg + off; *)
(* pc: the return address can be found, at CFA - 2; bc: the BC of the caller*)
(* is in BC (0) or at CFA - bc, a rule that stays until another one comes.  *)
BodyOffsetNoSave(fn) == IF fn.fp THEN 4 ELSE 2 + FrameSize(fn)   \* mutant
BodyOffset(fn) == IF fn.fp THEN IF SavesArgs(fn) THEN 8 ELSE 4 ELSE 2 + StackSize(fn)

RowAtStart(b, bc) ==
  [reg |-> IF b > 1 /\ f.fp THEN "BC" ELSE "SP", off |-> IF b = 1 THEN 2 ELSE BodyOffset(f),
   pc |-> ~f.isr, bc |-> bc]

BlockStart(b, bc) ==
  [blk |-> b, pos |-> 0, row |-> RowAtStart(b, bc), fpOn |-> b > 1 /\ f.fp, saved |-> <<>>]

Nth(b, k) == IF k < 1 THEN Mark("") ELSE code[b][k]

(* The state after instruction i that follows prev and, before it, prev2:   *)
(* the first case of the walk that applies.                                 *)
Lost(c) == [c EXCEPT !.row.pc = FALSE]
Moved(c, n) == IF c.row.reg = "SP" THEN [c EXCEPT !.row.off = Wrap(@ + ByteSize * ByteSize + n)] ELSE c

RowAfter(c, i, prev, prev2) ==
  LET activating == f.fp /\ ~c.fpOn /\ c.blk = 1 IN
  IF i.op = "LXI" /\ i.d = "SP" THEN [Lost(c) EXCEPT !.saved = <<c.row>>]
  ELSE IF ~c.row.pc
       THEN IF i = Sphl /\ prev = Xchg /\ c.saved # <<>>
            THEN [c EXCEPT !.row = c.saved[1], !.saved = <<>>] ELSE c
  ELSE IF activating /\ i = Push("BC")
       THEN [Moved(c, 2) EXCEPT !.row.bc = Moved(c, 2).row.off]
  ELSE IF activating /\ i = Mov("C", "L") /\ prev = Mov("B", "H")
       THEN [c EXCEPT !.row.reg = "BC", !.fpOn = TRUE]
  ELSE IF c.fpOn /\ i = Pop("BC")
       THEN [c EXCEPT !.row = [@ EXCEPT !.reg = "SP", !.off = 2 + ArgSave(f), !.bc = 0], !.fpOn = FALSE]
  ELSE CASE i.op = "PUSH"  -> Moved(c, 2)
         [] i.op = "POP"   -> Moved(c, 0 - 2)
         [] i = Dcx("SP")  -> Moved(c, 1)
         [] i = Inx("SP")  -> Moved(c, 0 - 1)
         [] i = Sphl /\ c.row.reg = "SP" ->
              IF prev = DadSp /\ prev2.op = "LXI" /\ prev2.d = "HL" THEN Moved(c, 0 - prev2.n)
              ELSE Lost(c)
         [] OTHER -> c

-----------------------------------------------------------------------------
RegNumber == [A |-> 1, B |-> 2, C |-> 3, D |-> 4, E |-> 5, H |-> 6, L |-> 7, F |-> 0]
MemAtStart == [x \in Addr |-> (x + 3) % ByteSize]

FrameInit ==
  /\ f \in Functions
  /\ phase = "pei"
  /\ code = <<>>
  /\ rows = <<>>
  /\ cfi = [blk |-> 0, pos |-> 0]
  /\ at = [blk |-> 1, pos |-> 0]
  /\ m = [reg |-> RegNumber, sp |-> Entry, mem |-> MemAtStart]
  /\ ie = ~f.isr

(* Prologue and epilogues; the call-frame pseudo-instructions are erased.   *)
InsertPrologEpilog ==
  /\ phase = "pei"
  /\ LET entry == Prologue(f) \o Body(f)
         exit == Epilogue(f) \o <<Mark("RET")>>
     IN code' = IF f.exits = 0 THEN <<entry \o exit>> ELSE <<entry>> \o Times(f.exits, exit)
  /\ phase' = "sp"
  /\ UNCHANGED <<f, rows, cfi, at, m, ie>>

RunSPTrick ==
  /\ phase = "sp"
  /\ code' = [code EXCEPT ![1] = SPTrick(f, @)]
  /\ phase' = "cfi"
  /\ UNCHANGED <<f, rows, cfi, at, m, ie>>

Walked == IF cfi.blk = 0 THEN <<>> ELSE code[cfi.blk]

CfiBlock ==
  /\ phase = "cfi"
  /\ cfi.pos = Len(Walked)
  /\ LET b == cfi.blk + 1 IN
     IF b > Len(code) THEN phase' = "run" /\ UNCHANGED <<rows, cfi>>
     ELSE /\ cfi' = BlockStart(b, IF b = 1 THEN 0 ELSE cfi.row.bc)
          /\ rows' = Append(rows, <<cfi'.row>>)
          /\ UNCHANGED phase
  /\ UNCHANGED <<f, code, at, m, ie>>

CfiStep ==
  /\ phase = "cfi"
  /\ cfi.pos < Len(Walked)
  /\ LET k == cfi.pos + 1
         c == IF f.isr THEN cfi
              ELSE RowAfter(cfi, Nth(cfi.blk, k), Nth(cfi.blk, k - 1), Nth(cfi.blk, k - 2))
     IN /\ cfi' = [c EXCEPT !.pos = k]
        /\ rows' = [rows EXCEPT ![cfi.blk] = Append(@, c.row)]
  /\ UNCHANGED <<f, phase, code, at, m, ie>>

AtEnd == at.pos = Len(code[at.blk])
NextOp == IF phase # "run" \/ AtEnd THEN "" ELSE code[at.blk][at.pos + 1].op

Execute ==
  /\ NextOp \notin {"", "RET"}
  /\ m' = Effect(f, m, code[at.blk][at.pos + 1])
  /\ ie' = (IF NextOp = "EI" THEN TRUE ELSE IF NextOp = "DI" THEN FALSE ELSE ie)
  /\ at' = [at EXCEPT !.pos = @ + 1]
  /\ UNCHANGED <<f, phase, code, rows, cfi>>

(* The entry block ends in a jump to one of the blocks that return.         *)
Branch ==
  /\ phase = "run"
  /\ AtEnd
  /\ \E b \in 2..Len(code) : at' = [blk |-> b, pos |-> 0]
  /\ UNCHANGED <<f, phase, code, rows, cfi, m, ie>>

Interrupt ==
  /\ phase = "run"
  /\ ie
  /\ m' = Interrupted(m, Junk)
  /\ UNCHANGED <<f, phase, code, rows, cfi, at, ie>>

FrameNext ==
  \/ InsertPrologEpilog \/ RunSPTrick \/ CfiBlock \/ CfiStep
  \/ Execute \/ Branch \/ Interrupt

FrameSpec == FrameInit /\ [][FrameNext]_frameVars

-----------------------------------------------------------------------------

(* When the body starts, each argument is where the allocator of argument   *)
(* registers and the frame-index offsets put it: whatever tier moved SP and *)
(* whatever registers it went through, no argument was destroyed.           *)
ArgsKept ==
  NextOp = "BODY" =>
    \A i \in f.used :
      LET w == Where(f.args)[i] IN
      IF w.reg # "" THEN \A r \in Parts(w.reg) : m.reg[r] = RegNumber[r]
      ELSE StackArgAddr(f, m, i) = Entry + 2 + w.at /\ m.mem[StackArgAddr(f, m, i)] = MemAtStart[Entry + 2 + w.at]

(* At RET the stack pointer is back at the return address, the returned     *)
(* value is in the registers of the calling convention, a frame pointer of  *)
(* the caller is back in BC, nothing of the caller's stack was written, and *)
(* interrupts are enabled just as they were.                                *)
ReturnsRight ==
  NextOp = "RET" =>
    /\ m.sp = Entry
    /\ \A r \in RetRegs(f.ret) : m.reg[r] = Result[r]
    /\ f.fp => m.reg["B"] = RegNumber["B"] /\ m.reg["C"] = RegNumber["C"]
    /\ \A x \in Entry..(ByteSize * ByteSize - 1) : m.mem[x] = MemAtStart[x]
    /\ ie = ~f.isr

(* What the body stored in its locals stays there: interrupts, calls, the   *)
(* outgoing arguments and a copy that borrows SP write elsewhere.           *)
LocalsKept ==
  NextOp \in {"SEEN", "OUT", "CALL", "RESULT"} =>
    \A k \in 0..f.locals - 1 : m.mem[LocalAddr(f, m, k)] = LocalMark(k)

(* A copy leaves what the byte-by-byte copy would: the bytes at Dst, no     *)
(* other byte of data, and the registers the body reads afterwards; an      *)
(* interrupt that comes during it pushes nothing over the data.             *)
CopyRight ==
  NextOp = "SEEN" =>
    /\ \A x \in 0..(Dst + f.copy) :
         m.mem[x] = MemAtStart[IF x \in Dst..Dst + f.copy - 1 THEN Src + x - Dst ELSE x]
    /\ \A r \in f.keep : m.reg[r] = BodyValue[r]

(* What a debugger computes from the row at the next instruction.           *)
Row == rows[at.blk][at.pos + 1]
Cfa == Wrap(Row.off + (IF Row.reg = "SP" THEN m.sp ELSE Pair(m, "BC")))

(* Wherever a row says that the return address can be found, it is found at *)
(* CFA - 2, and the caller's BC where the row says; it cannot be found only *)
(* while SP points at data or in a handler.  A local's home, relative to    *)
(* the frame base, is where the code accesses it.                           *)
CfiRight ==
  phase = "run" =>
    /\ Row.pc => Cfa = Entry + 2
    /\ Row.pc /\ f.fp => IF Row.bc = 0 THEN Pair(m, "BC") = Pair([reg |-> RegNumber], "BC")
                         ELSE Word(m, Wrap(Cfa + ByteSize * ByteSize - Row.bc)) = Pair([reg |-> RegNumber], "BC")
    /\ ~Row.pc => f.isr \/ m.sp <= Src + f.copy
    /\ NextOp \in {"SEEN", "OUT", "CALL", "RESULT"} /\ Row.pc /\ ~f.fp =>
         \A k \in 0..f.locals - 1 : Cfa - BodyOffset(f) + SpOffset(f, LocalOffset(f, k)) = LocalAddr(f, m, k)
=============================================================================
