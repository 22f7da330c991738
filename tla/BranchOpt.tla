-------------------------------- MODULE BranchOpt --------------------------------
(***************************************************************************)
(* V6ClangBranchOpt: eight sweeps over the blocks of a function, in layout  *)
(* order, that shorten its branches and keep the lists of successors the    *)
(* later passes rely on.  Of the code only what the sweeps look at is told  *)
(* apart.  The function that results is run beside the given one.           *)
(***************************************************************************)
EXTENDS Naturals, FiniteSets, SequencesExt

CONSTANTS
  Names,      \* of basic blocks; any other target is a symbol
  Values,     \* what a register may hold: 0..n
  Functions,  \* the functions a run considers, in families
  MaxSteps    \* how many instructions of a function are run

ASSUME ValuesAssumption == IsFiniteSet(Values) /\ Values # {} /\ Values = 0..(Cardinality(Values) - 1)

NoBlock == "none"
ASSUME NoBlockAssumption == NoBlock \notin Names

VARIABLES
  given,   \* the function as it comes to the pass
  fn,      \* as it is now: layout, code, succ (successors), dead (blocks to erase)
  sweep    \* how many sweeps are behind it

vars == <<given, fn, sweep>>

-----------------------------------------------------------------------------
(* Instructions.  Jcc and JMP go to a block, or to a symbol like TAILJMP;   *)
(* an MVI whose operand the program patches holds anything.                 *)
Inst(op, cond, to) == [op |-> op, cond |-> cond, to |-> to, d |-> "", s |-> "", n |-> 0, patched |-> FALSE]
Jcc(cond, to) == Inst("Jcc", cond, to)
Jmp(to) == Inst("JMP", "", to)
TailJmp(f) == Inst("TAILJMP", "", f)
Call(f) == Inst("CALL", "", f)
Ccc(cond, f) == Inst("Ccc", cond, f)
Rcc(cond) == Inst("Rcc", cond, "")
Ret == Inst("RET", "", "")
Mov(d, s) == [Inst("MOV", "", "") EXCEPT !.d = d, !.s = s]
Mvi(d, n) == [Inst("MVI", "", "") EXCEPT !.d = d, !.n = n]
Cpi(n) == [Inst("CPI", "", "") EXCEPT !.n = n]
Add(r) == [Inst("ADD", "", "") EXCEPT !.s = r]

Inverted ==
  [NZ |-> "Z", Z |-> "NZ", NC |-> "C", C |-> "NC", PO |-> "PE", PE |-> "PO", P |-> "M", M |-> "P"]

LayoutSucc(F, b) ==
  LET k == CHOOSE k \in DOMAIN F.layout : F.layout[k] = b IN
  IF k < Len(F.layout) THEN F.layout[k + 1] ELSE NoBlock
Blocks(F) == ToSet(F.layout)
Preds(F, b) == {p \in Blocks(F) : b \in F.succ[p]}
OnlyPredAny(F, b) == Preds(F, b) # {}   \* mutant
OnlyPred(F, b) == Cardinality(Preds(F, b)) = 1

IsLocal(i) == i.op \in {"Jcc", "JMP"} /\ i.to \in Names
ReturnOnly(F, b) == F.code[b] # <<>> /\ F.code[b][1].op = "RET"
JmpOnly(F, b) == Len(F.code[b]) = 1 /\ F.code[b][1].op \in {"JMP", "TAILJMP"}

(* b ends in is instead of its instructions from k on, and loses e.         *)
Ends(F, b, k, is) == [F EXCEPT !.code[b] = SubSeq(@, 1, k - 1) \o is]
Without(F, b, e) == [F EXCEPT !.succ[b] = @ \ {e}]
Dead(F, b) == [F EXCEPT !.dead = @ \cup {b}]

(* The dead blocks are erased at the end of a sweep.                        *)
Bury(F) ==
  [F EXCEPT !.layout = SelectSeq(@, LAMBDA b : b \notin F.dead),
            !.succ = [b \in Names |-> IF b \in F.dead THEN {} ELSE @[b]],
            !.dead = {}]

-----------------------------------------------------------------------------
(* Jcc over a block that only returns becomes the opposite Rcc.             *)
InvertOverRet(F, b) ==
  LET c == F.code[b]
      n == Len(c)
      k == IF n > 1 /\ c[n].op = "JMP" /\ c[n - 1].op = "Jcc" THEN n - 1 ELSE n
      ret == LayoutSucc(F, b)
  IN IF /\ n > 0 /\ c[k].op = "Jcc" /\ IsLocal(c[k]) /\ ret # NoBlock
        /\ ReturnOnly(F, ret) /\ OnlyPred(F, ret)
        /\ k < n => c[n].to = ret
        /\ LayoutSucc(F, ret) = c[k].to /\ ~JmpOnly(F, c[k].to)
     THEN Dead(Without(Ends(F, b, k, <<Rcc(Inverted[c[k].cond])>>), b, ret), ret)
     ELSE F

(* CPI n; JNZ over a block that puts n, or A, in a register which is then   *)
(* returned becomes CPI n; RZ.                                              *)
ZeroSelect(F, b) ==
  LET c == F.code[b]
      n == Len(c)
      arm == LayoutSucc(F, b)
      skip == c[n].to
      puts(i) == (i.op = "MVI" /\ i.n = c[n - 1].n) \/ (i.op = "MOV" /\ i.s = "A")
  IN IF /\ n > 1 /\ c[n].op = "Jcc" /\ c[n].cond = "NZ" /\ IsLocal(c[n]) /\ c[n - 1].op = "CPI"
        /\ arm # NoBlock /\ arm \in F.succ[b] /\ F.succ[arm] = {skip} /\ OnlyPred(F, arm)
        /\ LayoutSucc(F, arm) = skip
        /\ Len(F.code[arm]) = 1 /\ puts(F.code[arm][1])
        /\ F.code[skip] = <<Mov("A", F.code[arm][1].d), Ret>>
     THEN Dead(Without(Ends(F, b, n, <<Rcc("Z")>>), b, arm), arm)
     ELSE F

(* Mutant: the block the branch led to stays the only successor listed.     *)
ThreadAtOldSuccessor(F, b, k) ==
  LET i == F.code[b][k] IN
  IF ~IsLocal(i) \/ ~JmpOnly(F, i.to) THEN F ELSE [F EXCEPT !.code[b][k].to = F.code[i.to][1].to]

(* A branch to a block that only jumps goes where that block goes.          *)
ThreadAt(F, b, k) ==
  LET i == F.code[b][k]
      final == F.code[i.to][1].to
      through == Without([F EXCEPT !.code[b][k].to = final], b, i.to)
  IN IF ~IsLocal(i) \/ ~JmpOnly(F, i.to) THEN F
     ELSE IF final \in Names THEN [through EXCEPT !.succ[b] = @ \cup {final}] ELSE through

Thread(F, b) == FoldLeftDomain(LAMBDA G, k : ThreadAt(G, b, k), F, F.code[b])

(* Jcc over a JMP takes the place of the JMP.                               *)
InvertBranch(F, b) ==
  LET c == F.code[b]
      n == Len(c)
  IN IF /\ n > 1 /\ c[n].op \in {"JMP", "TAILJMP"}
        /\ c[n - 1].op = "Jcc" /\ IsLocal(c[n - 1]) /\ c[n - 1].to = LayoutSucc(F, b)
     THEN Ends(F, b, n - 1, <<Jcc(Inverted[c[n - 1].cond], c[n].to)>>)
     ELSE F

(* Jcc over a block that only calls becomes the opposite Ccc.               *)
FoldCall(F, b) ==
  LET c == F.code[b]
      n == Len(c)
      callee == LayoutSucc(F, b)
      skip == c[n].to
  IN IF /\ n > 0 /\ c[n].op = "Jcc" /\ IsLocal(c[n])
        /\ callee # NoBlock /\ callee # skip /\ callee \in F.succ[b]
        /\ OnlyPred(F, callee) /\ F.succ[callee] = {skip} /\ LayoutSucc(F, callee) = skip
        /\ Len(F.code[callee]) = 1 /\ F.code[callee][1].op = "CALL"
     THEN LET calls == Ends(F, b, n, <<Ccc(Inverted[c[n].cond], F.code[callee][1].to)>>) IN
          Dead(Without(Ends(calls, callee, 1, <<>>), b, callee), callee)
     ELSE F

(* JMP to the next block goes.                                              *)
RemoveJmp(F, b) ==
  LET c == F.code[b] IN
  IF c # <<>> /\ Last(c).op = "JMP" /\ IsLocal(Last(c)) /\ Last(c).to = LayoutSucc(F, b)
  THEN Ends(F, b, Len(c), <<>>) ELSE F

(* The first Jcc to a block that only returns becomes Rcc.                  *)
FoldReturn(F, b) ==
  LET c == F.code[b]
      at == {k \in DOMAIN c : c[k].op = "Jcc" /\ IsLocal(c[k]) /\ ReturnOnly(F, c[k].to)}
      k == CHOOSE k \in at : \A h \in at : k <= h
  IN IF at = {} THEN F
     ELSE Without([F EXCEPT !.code[b][k] = Rcc(c[k].cond)], b, c[k].to)

(* Blocks nothing leads to, but for the entry.                              *)
Unreached(F) == [F EXCEPT !.dead = {b \in ToSet(Tail(F.layout)) : Preds(F, b) = {}}]

-----------------------------------------------------------------------------
Sweep(n, to) ==
  /\ sweep = n
  /\ fn' = Bury(to)
  /\ sweep' = n + 1
  /\ UNCHANGED given

InvertConditionalOverRET == Sweep(0, FoldLeft(InvertOverRet, fn, fn.layout))
FoldZeroSelectReturn     == Sweep(1, FoldLeft(ZeroSelect, fn, fn.layout))
ThreadJMPOnlyBlocks      == Sweep(2, FoldLeft(Thread, fn, fn.layout))
InvertConditionalBranch  == Sweep(3, FoldLeft(InvertBranch, fn, fn.layout))
FoldConditionalCalls     == Sweep(4, FoldLeft(FoldCall, fn, fn.layout))
RemoveRedundantJMP       == Sweep(5, FoldLeft(RemoveJmp, fn, fn.layout))
FoldConditionalReturns   == Sweep(6, FoldLeft(FoldReturn, fn, fn.layout))
RemoveDeadBlocks         == Sweep(7, Unreached(fn))

(* Where the code of b leads.                                               *)
Leaves(c) == c # <<>> /\ Last(c).op \in {"JMP", "TAILJMP", "RET"}
Leads(F, b) ==
  {i.to : i \in {i \in ToSet(F.code[b]) : IsLocal(i)}}
    \cup (IF Leaves(F.code[b]) THEN {} ELSE {LayoutSucc(F, b)})

Init ==
  /\ \E f \in DOMAIN Functions : given \in Functions[f]
  /\ fn = [given EXCEPT !.succ = [b \in Names |-> IF b \in Blocks(given) THEN Leads(given, b) ELSE {}]]
  /\ sweep = 0

Next ==
  \/ InvertConditionalOverRET \/ FoldZeroSelectReturn \/ ThreadJMPOnlyBlocks \/ InvertConditionalBranch
  \/ FoldConditionalCalls \/ RemoveRedundantJMP \/ FoldConditionalReturns \/ RemoveDeadBlocks

Spec == Init /\ [][Next]_vars

-----------------------------------------------------------------------------
(* How a function runs: m holds the registers, the flags, what has been     *)
(* called so far, with its arguments, and where the function went.  Of the  *)
(* flags only Z and C ever change.                                          *)
Machine == [A : Values, E : Values, Z : {FALSE}, C : {FALSE}, log : {<<>>}, ended : {FALSE}]

Holds(cond, m) ==
  CASE cond = "Z" -> m.Z [] cond = "NZ" -> ~m.Z [] cond = "C" -> m.C [] cond = "NC" -> ~m.C
    [] cond \in {"M", "PE"} -> TRUE [] cond \in {"P", "PO"} -> FALSE

Wrap(v) == v % Cardinality(Values)
Logged(m, f) == [m EXCEPT !.log = Append(@, <<f, m.A, m.E>>)]
Called(m, f) == [Logged(m, f) EXCEPT !.A = Wrap(m.A + m.E + 1), !.E = m.A, !.Z = m.C, !.C = ~m.Z]
Returned(m) == [m EXCEPT !.log = Append(@, <<"ret", m.A>>), !.ended = TRUE]
Left(m, f) == [Logged(m, f) EXCEPT !.ended = TRUE]

Exec(m, i, patch) ==
  CASE i.op = "MOV" -> [m EXCEPT ![i.d] = m[i.s]]
    [] i.op = "MVI" -> [m EXCEPT ![i.d] = IF i.patched THEN patch ELSE i.n]
    [] i.op = "CPI" -> [m EXCEPT !.Z = (m.A = i.n), !.C = (m.A < i.n)]
    [] i.op = "ADD" -> [m EXCEPT !.A = Wrap(m.A + m[i.s]), !.Z = (Wrap(m.A + m[i.s]) = 0),
                                 !.C = (m.A + m[i.s] \notin Values)]

RECURSIVE RunFrom(_, _, _, _, _, _)
RunFrom(F, b, k, m, patch, steps) ==
  IF m.ended \/ steps = 0 THEN m
  ELSE IF b = NoBlock THEN Left(m, "lost")
  ELSE IF k > Len(F.code[b]) THEN RunFrom(F, LayoutSucc(F, b), 1, m, patch, steps)
  ELSE LET i == F.code[b][k]
           on(n) == RunFrom(F, b, k + 1, n, patch, steps - 1)
           taken == i.cond = "" \/ Holds(i.cond, m)
       IN CASE ~taken -> on(m)
            [] taken /\ i.op \in {"RET", "Rcc"} -> Returned(m)
            [] taken /\ i.op \in {"CALL", "Ccc"} -> on(Called(m, i.to))
            [] taken /\ IsLocal(i) ->
                 IF i.to \in Blocks(F) THEN RunFrom(F, i.to, 1, m, patch, steps - 1) ELSE Left(m, "lost")
            [] taken /\ ~IsLocal(i) /\ i.op \in {"Jcc", "JMP", "TAILJMP"} -> Left(m, i.to)
            [] OTHER -> on(Exec(m, i, patch))

RunOf(F, m, patch) == RunFrom(F, F.layout[1], 1, m, patch, MaxSteps)

-----------------------------------------------------------------------------
(* After every sweep the function calls what the given one calls, with the  *)
(* same arguments, in the same order, and goes where it goes: it returns    *)
(* the same value or jumps to the same symbol.  (It takes fewer steps: of a *)
(* run that has not ended only the beginning can be compared.)              *)
SameCalls ==
  fn.code # given.code => \A m \in Machine, patch \in Values :
    LET want == RunOf(given, m, patch)  got == RunOf(fn, m, patch) IN
    IF want.ended THEN got.ended /\ got.log = want.log ELSE IsPrefix(want.log, got.log)

(* The successor lists the later passes read miss no block that the code    *)
(* leads to, unless there is nothing in it but a return, and every such     *)
(* block is still there.                                                    *)
SuccessorsKept ==
  \A b \in Blocks(fn) : \A e \in Leads(fn, b) :
    e \in Blocks(fn) /\ (e \in fn.succ[b] \/ ReturnOnly(fn, e))
=============================================================================
