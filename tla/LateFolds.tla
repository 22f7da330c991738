------------------------------- MODULE LateFolds -------------------------------
(***************************************************************************)
(* The passes over a basic block that follow the peephole pass: each walks  *)
(* the block once and carries along what it knows of the registers.  Here   *)
(* is one step of each walk, at position k of code c, with what is known s; *)
(* it returns the code, the position where the walk goes on and what is     *)
(* known there.                                                             *)
(***************************************************************************)
EXTENDS PeepholeFolds

CONSTANT MaxDelta   \* 1 for speed, 2 balanced, 3 for size: steps of HL that replace an LXI

ASSUME MaxDeltaAssumption == MaxDelta \in 1..3

(* LXI p with the address of a variable (Intel8080's LXI ignores s).        *)
LxiSym(p, sym, n) == Instr("LXI", p, sym, n)
IsPlainImm(i) == i.s = "" /\ i.n # Hole

Knowing(c, k, s) == [code |-> c, next |-> k, known |-> s]
Replaced(c, k, is, s) == Knowing(Splice(c, k, k, is), k + Len(is), s)
Passed(c, k, s) == Knowing(c, k + 1, s)

IdentityOp(i) == i \in {Alu("ORA", "A"), Alu("ANA", "A")}

-----------------------------------------------------------------------------
(* V6ClangLoadImmCombine.  known[r] is {} or the one value r is known to    *)
(* hold.                                                                    *)
NoneKnown == [r \in Regs |-> {}]
Forget(known, rs) == [r \in Regs |-> IF r \in rs THEN {} ELSE known[r]]
Halves(known, p, n) == [known EXCEPT ![Hi[p]] = {n \div ByteSize}, ![Lo[p]] = {n % ByteSize}]

KnowCounted(known, i) ==
  LET by == IF i.op = "INR" THEN 1 ELSE -1 IN [known EXCEPT ![i.d] = {(v + by) % ByteSize : v \in @}]

(* What is known after i, which is not replaced.                            *)
KnowAfter(known, i) ==
  CASE i.op = "MVI" -> IF IsPlainImm(i) THEN [known EXCEPT ![i.d] = {i.n}] ELSE Forget(known, {i.d})
    [] i.op = "MOV" -> [known EXCEPT ![i.d] = known[i.s]]
    [] i.op = "LXI" /\ i.d \in Pairs /\ IsPlainImm(i) -> Halves(known, i.d, i.n)
    [] i.op \in {"INR", "DCR"} /\ i.d \in Regs -> KnowCounted(known, i)
    [] i.op = "XRA" /\ i.s = "A" -> [known EXCEPT !["A"] = {0}]
    [] i.op = "XCHG" -> [known EXCEPT !["D"] = known["H"], !["H"] = known["D"], !["E"] = known["L"], !["L"] = known["E"]]
    [] i.op \in {"CALL", "TAILJMP"} -> NoneKnown
    [] OTHER -> Forget(known, Defs(i))

(* findRegWithValue: A is taken last.                                       *)
Holders(known, n, but) == {r \in Regs \ {but} : known[r] = {n}}
FindRegWithValue(rs) ==
  LET order == <<"B", "C", "D", "E", "H", "L", "A">> IN order[Earliest({h \in DOMAIN order : order[h] \in rs})]

LoadImmStep(c, k, known) ==
  LET i == c[k]
      then == KnowAfter(known, i)
      holders == Holders(known, i.n, i.d)
      near(by) == known[i.d] = {(i.n + by) % ByteSize}
  IN CASE i.op = "MVI" /\ IsPlainImm(i) ->
            IF known[i.d] = {i.n} THEN Replaced(c, k, <<>>, known)
            ELSE IF holders # {} THEN Replaced(c, k, <<Mov(i.d, FindRegWithValue(holders))>>, then)
            ELSE IF near(-1) THEN Replaced(c, k, <<Inr(i.d)>>, then)
            ELSE IF near(1) THEN Replaced(c, k, <<Dcr(i.d)>>, then)
            ELSE Passed(c, k, then)
       [] i.op = "LXI" /\ i.d \in Pairs /\ IsPlainImm(i) /\ then = known -> Replaced(c, k, <<>>, known)
       [] OTHER -> Passed(c, k, then)

(* What the only predecessor leaves known: initFromPredecessor over its     *)
(* code, as far as the registers are live here, and what its branch proves. *)
KnowThrough(b) == FoldLeft(KnowAfter, NoneKnown, b)

ProvenZero(b, here) ==
  LET n == Len(b)
      last == b[n]
      onZero == (last.s = "NZ" /\ last.d # here) \/ (last.s = "Z" /\ last.d = here)
      compared == b[n - 2].op = "XRA" /\ b[n - 2].s = "A" /\ b[n - 1].op = "CMP" /\ b[n - 1].s \in Regs
      pair == {p \in Pairs : n > 2 /\ Shape(b, n - 2, <<Mov("A", Hi[p]), Alu("ORA", Lo[p]), last>>)}
  IN IF n > 2 /\ ZeroBranch(last) /\ compared THEN [r \in {"A"} |-> 0]
     ELSE IF ~onZero \/ n < 2 THEN <<>>
     ELSE IF b[n - 1] \in {Alu("ORA", "A"), Alu("ANA", "A")} THEN [r \in {"A"} |-> 0]
     ELSE IF pair # {} THEN [r \in {"A"} \cup UNION {Parts(p) : p \in pair} |-> 0]
     ELSE IF b[n - 1].op = "CMP" /\ b[n - 1].s = "" THEN [r \in {"A"} |-> IF b[n - 1].n = Hole THEN 0 ELSE b[n - 1].n]
     ELSE <<>>

KnowAtEntry(b, here, liveIn) ==
  IF b = <<>> THEN NoneKnown
  ELSE LET proven == ProvenZero(b, here)  through == KnowThrough(b) IN
       [r \in Regs |-> IF r \in DOMAIN proven THEN {proven[r]} ELSE IF r \in liveIn THEN through[r] ELSE {}]

-----------------------------------------------------------------------------
(* V6ClangLoadStoreOpt.  What HL holds, relative to a base: {} if unknown.  *)
HLAddr(i) == [base |-> IF i.n = Hole THEN "hole" ELSE i.s, off |-> IF i.n = Hole THEN 0 ELSE i.n]
HLTouched(i) == (Defs(i) \cup Masked(i)) \cap {"H", "L"} # {}
LoadsHL(i) == i.op = "LXI" /\ i.d = "HL"

Times(n, i) == [h \in 1..n |-> i]
FoldHLStep(c, k, hl) ==
  LET i == c[k]
      new == HLAddr(i)
      deltas == {new.off - a.off : a \in {a \in hl : a.base = new.base}}
      bump(by) == {[a EXCEPT !.off = @ + by] : a \in hl}
  IN CASE i = Inx("HL") -> Passed(c, k, bump(1))
       [] i = Dcx("HL") -> Passed(c, k, bump(-1))
       [] LoadsHL(i) ->
            IF deltas # {} /\ deltas \subseteq 0..MaxDelta
            THEN Replaced(c, k, Times(Max(deltas), Inx("HL")), {new})
            ELSE IF deltas # {} /\ deltas \subseteq (-MaxDelta)..0
            THEN Replaced(c, k, Times(-Min(deltas), Dcx("HL")), {new})
            ELSE Passed(c, k, {new})
       [] OTHER -> Passed(c, k, IF HLTouched(i) THEN {} ELSE hl)

(* LXI HL goes when HL, or a half of it, is written before it is read.      *)
DeadLxiStep(c, k) ==
  LET j == Earliest({h \in Ahead(c, k) : HLTouched(c[h]) \/ Uses(c[h]) \cap {"H", "L"} # {}}) IN
  IF LoadsHL(c[k]) /\ j # 0 /\ Uses(c[j]) \cap {"H", "L"} = {} THEN Erased(c, k) ELSE Stay(c, k)

-----------------------------------------------------------------------------
(* V6ClangXchgOpt: two MOVs that copy DE to HL, or HL to DE, are XCHG when  *)
(* the pair copied from is dead; the walk then starts again.                *)
CopyingPair(from, to) ==
  {<<Mov(Hi[to], Hi[from]), Mov(Lo[to], Lo[from])>>, <<Mov(Lo[to], Lo[from]), Mov(Hi[to], Hi[from])>>}

TryXchg(c, k, out) ==
  LET dead(from, to) == SubSeq(c, k, k + 1) \in CopyingPair(from, to) /\ DeadAfter(c, k + 1, from, out) IN
  IF k < Len(c) /\ (dead("HL", "DE") \/ dead("DE", "HL"))
  THEN Edit(Splice(c, k, k + 1, <<Xchg>>), 1) ELSE Stay(c, k)

CancelNextXchg(c, k) ==
  IF Shape(c, k, <<Xchg, Xchg>>) THEN Edit(Splice(c, k, k + 1, <<>>), k) ELSE Stay(c, k)

(* V6ClangZeroTestOpt                                                       *)
ZeroTestStep(c, k) == IF c[k] = AluImm("CMP", 0) THEN Edit([c EXCEPT ![k] = Alu("ORA", "A")], k + 1) ELSE Stay(c, k)

-----------------------------------------------------------------------------
(* V6ClangRegValueForwarding within a block: the register or the immediate  *)
(* that each register is known to equal.                                    *)
InReg(r) == [K |-> "Reg", R |-> r, C |-> 0]
Const(n) == [K |-> "Const", R |-> "", C |-> n]
Itself == [r \in Regs |-> InReg(r)]
Broken(S, rs) == [r \in Regs |-> IF r \in rs \/ (S[r].K = "Reg" /\ S[r].R \in rs) THEN InReg(r) ELSE S[r]]

ForwardStep(c, k, S) ==
  LET i == c[k]
      canon == IF i.op = "MOV" THEN S[i.s] ELSE Const(i.n)
      tracked == i.op = "MOV" \/ (i.op = "MVI" /\ IsPlainImm(i))
  IN IF tracked /\ S[i.d] = canon THEN Replaced(c, k, <<>>, S)
     ELSE IF tracked THEN Passed(c, k, [Broken(S, {i.d}) EXCEPT ![i.d] = canon])
     ELSE IF IdentityOp(i) THEN Passed(c, k, S)
     ELSE Passed(c, k, Broken(S, Defs(i) \cup Masked(i)))

-----------------------------------------------------------------------------
(* V6ClangRedundantFlagElim.  zero: the zero flag tells whether A is 0, and *)
(* whether the registers of copies are, to which the instructions at these  *)
(* positions copied A (0 for A itself).  It knows registers by name: an     *)
(* operand that is a pair hides its halves.                                 *)
Stale == [zero |-> FALSE, copies |-> <<>>]
Fresh == [zero |-> TRUE, copies |-> "A" :> 0]
ByName(r) == IF r \in Pairs THEN {} ELSE Named(r)
NamedIn(i) == ByName(i.d) \cup ByName(i.s)
WritesAAndFlags(i) == i.op \in AluOps \ {"CMP"} \/ (Counts(i) /\ i.d = "A")
WritesANoFlags(i) == (i.op \in {"MOV", "MOVrM", "MVI"} /\ i.d = "A") \/ i.op \in {"LDA", "LDAX"} \/ i = Pop("PSW")
WritesFlagsNoA(i) == (Counts(i) /\ i.d # "A") \/ i.op \in {"DAD", "CMP"} \cup Rotates
ControlFlow(i) == i.op \in {"CALL", "TAILJMP", "RET"} \cup Jumps
ClearsA(i) == i.op = "XRA" /\ i.s = "A"

(* isBridgeDead; live-in lists name a pair when both its halves are live.   *)
BridgeDead(c, k, r, out) ==
  LET j == Earliest({h \in Ahead(c, k) : r \in NamedIn(c[h]) \cap Operands(c[h])})
      inPair == \E p \in Pairs : r \in Parts(p) /\ Parts(p) \subseteq out
  IN IF j = 0 THEN r \notin out \/ inPair ELSE r \notin Uses(c[j])

Dropped(c, k) == IF k = 0 THEN c ELSE Splice(c, k, k, <<>>)

FlagStep(c, k, s, out) ==
  LET i == c[k]
      r == c[k + 1].s
      bridge == s.copies[r]
      others == {x \in DOMAIN s.copies : bridge = 0 \/ s.copies[x] # bridge}
      earlier(at) == IF bridge # 0 /\ at > bridge THEN at - 1 ELSE at
      lost == NamedIn(i) \cap Defs(i)
  IN IF s.zero /\ IdentityOp(i) THEN Replaced(c, k, <<>>, s)
     ELSE IF /\ s.zero /\ ClearsA(i) /\ k < Len(c) /\ c[k + 1].op = "CMP"
             /\ r \in DOMAIN s.copies /\ (bridge = 0 \/ BridgeDead(c, k + 1, r, out))
     THEN Knowing(Dropped(Splice(c, k, k + 1, <<>>), bridge), earlier(k),
                  [s EXCEPT !.copies = [x \in others |-> earlier(@[x])]])
     ELSE IF WritesAAndFlags(i) THEN Passed(c, k, Fresh)
     ELSE IF s.zero /\ IsMov(i) /\ i.s = "A" /\ i.d # "A"
     THEN Passed(c, k, [s EXCEPT !.copies = (i.d :> k) @@ @])
     ELSE IF WritesANoFlags(i) \/ WritesFlagsNoA(i) \/ ControlFlow(i) THEN Passed(c, k, Stale)
     ELSE Passed(c, k, [s EXCEPT !.copies = [x \in DOMAIN @ \ lost |-> @[x]]])
=============================================================================
