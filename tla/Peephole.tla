-------------------------------- MODULE Peephole --------------------------------
(***************************************************************************)
(* The peephole pass over one basic block: the live-ins are computed anew,  *)
(* then each rewrite walks the block once, in the pass's order, over what   *)
(* the rewrites before it left.  The block that results is run beside the   *)
(* one the pass was given.                                                  *)
(***************************************************************************)
EXTENDS PeepholeFolds

CONSTANTS
  Blocks,    \* the blocks a run considers, in families
  Machines,  \* the machines that may enter a block, by name
  Patches,   \* bytes the running program may have written into a placeholder
  StackEnd,  \* how far down the stack may reach
  MaxIter,   \* how often a block that loops is run
  Judged     \* after how many steps the block is run beside the given one

(* A block: its code; the addresses of a static-stack spill slot, private   *)
(* to the function; whether the next block in layout begins with MVI A,0,   *)
(* or only returns; what may be behind it: the registers live where each    *)
(* exit leads ("loop" is the block itself), and whether some block there    *)
(* reloads the slot; the machines that enter it, or its only predecessor    *)
(* if before holds the code of one, which ends in a branch to "here" or     *)
(* past it.                                                                 *)
ASSUME BlocksAssumption ==
  \A f \in DOMAIN Blocks : \A b \in Blocks[f] :
    /\ b.enter \subseteq DOMAIN Machines
    /\ \A w \in b.behind : \A e \in DOMAIN w.live : w.live[e] \subseteq Regs \cup {"F"}
    /\ b.fallZero => \A w \in b.behind : "A" \notin w.live["fall"]

VARIABLES
  block,
  code,
  liveIn,   \* the block's live-in list
  step      \* how many of the pass's steps are behind it

vars == <<block, code, liveIn, step>>

-----------------------------------------------------------------------------
Exits(c) ==
  {c[k].d : k \in {h \in DOMAIN c : c[h].op \in Jumps}}
    \cup (IF c # <<>> /\ Last(c).op \in {"RET", "TAILJMP", "JMP"} THEN {} ELSE {"fall"})
LiveAt(exit, loopLive) == IF exit = "loop" THEN loopLive ELSE block.live[exit]
LiveOut(c, loopLive) == UNION {LiveAt(e, loopLive) : e \in Exits(c)}

RECURSIVE LiveThrough(_, _)
LiveThrough(c, live) ==
  IF c = <<>> THEN live
  ELSE LiveThrough(Front(c), (live \ (Defs(Last(c)) \cup Masked(Last(c)))) \cup (Uses(Last(c)) \ {"SP"}))

(* Twice: what a block that loops reads itself is live behind it.           *)
RecomputeLiveIns ==
  /\ step = 0
  /\ liveIn' = LiveThrough(code, LiveOut(code, LiveThrough(code, LiveOut(code, {}))))
  /\ step' = 1
  /\ UNCHANGED <<block, code>>

-----------------------------------------------------------------------------
LiveBehind(c) == LiveOut(c, liveIn)

(* A rewrite takes the code and the position of a walk to its new code and  *)
(* to where it goes on, until it is behind the block.                       *)
Walks == [code : Seq([op : STRING, d : STRING, s : STRING, n : Int]), next : Nat]
Walk(Fold(_, _), c) ==
  LET rest[e \in Walks] == IF e.next > Len(e.code) THEN e.code ELSE rest[Fold(e.code, e.next)]
  IN rest[Edit(c, 1)]

Rewrite(n, to) ==
  /\ step = n
  /\ code' = to
  /\ step' = n + 1
  /\ UNCHANGED <<block, liveIn>>

FoldXchgSwapRedundancy    == Rewrite(1, Walk(LAMBDA c, k : XchgSwapRedundancy(c, k, LiveBehind(c)), code))
CancelAdjacentXchg        == Rewrite(2, Walk(CancelXchg, code))
FoldShldLhldToPushPop     == Rewrite(3, Walk(LAMBDA c, k : ShldLhldToPushPop(c, k, Exits(c), block.reads), code))
EliminateDeadPopPush      == Rewrite(4, Walk(LAMBDA c, k : DeadPopPush(c, k, LiveBehind(c)), code))
FoldInxDcxSpillRoundTrip  == Rewrite(5, Walk(LAMBDA c, k : InxDcxSpill(c, k, LiveBehind(c)), code))
FoldPairCopyRoundTrip     == Rewrite(6, Walk(PairCopyRoundTrip, code))
FoldMovAluM               == Rewrite(7, Walk(LAMBDA c, k : MovAluM(c, k, LiveBehind(c)), code))
FoldIncDecMviM            == Rewrite(8, Walk(LAMBDA c, k : IncDecMviM(c, k, LiveBehind(c)), code))
EliminateSelfMov          == Rewrite(9, Walk(SelfMov, code))
EliminateDeadMVI          == Rewrite(10, Walk(LAMBDA c, k : DeadMvi(c, k, LiveBehind(c)), code))
EliminateDeadMov          == Rewrite(11, Walk(LAMBDA c, k : DeadMov(c, k, LiveBehind(c)), code))
CollapseMovChain          == Rewrite(12, Walk(LAMBDA c, k : MviChain(c, k, LiveBehind(c)),
                                       Walk(LAMBDA c, k : MovChain(c, k, LiveBehind(c)), code)))
FoldCounterBranch         == Rewrite(13, Walk(LAMBDA c, k : CounterBranch(c, k, LiveBehind(c)), code))
FoldXraCmpZeroTest        ==
  Rewrite(14, Walk(LAMBDA c, k : XraCmpZeroTest(c, k, LiveBehind(c), liveIn, block.fallZero), code))
FoldXchgDad               == Rewrite(15, Walk(LAMBDA c, k : XchgDad(c, k, LiveBehind(c)), code))
EliminateTailCall         == Rewrite(16, TailCall(code, block.fallRet))
FoldMviAluImm             == Rewrite(17, Walk(LAMBDA c, k : MviAluImm(c, k, LiveBehind(c)), code))
FoldMviZeroToXraA         == Rewrite(18, Walk(LAMBDA c, k : MviZeroToXraA(c, k, LiveBehind(c), liveIn), code))
Done == 19

Init ==
  /\ \E f \in DOMAIN Blocks : \E b \in Blocks[f] : \E w \in b.behind :
       block = [code |-> b.code, before |-> b.before, slot |-> b.slot, enter |-> b.enter, live |-> w.live, reads |-> w.reads,
                fallZero |-> b.fallZero, fallRet |-> b.fallRet]
  /\ code = block.code
  /\ liveIn = {}
  /\ step = 0

Next ==
  \/ RecomputeLiveIns
  \/ FoldXchgSwapRedundancy \/ CancelAdjacentXchg \/ FoldShldLhldToPushPop
  \/ EliminateDeadPopPush \/ FoldInxDcxSpillRoundTrip \/ FoldPairCopyRoundTrip
  \/ FoldMovAluM \/ FoldIncDecMviM \/ EliminateSelfMov \/ EliminateDeadMVI
  \/ EliminateDeadMov \/ CollapseMovChain \/ FoldCounterBranch \/ FoldXraCmpZeroTest
  \/ FoldXchgDad \/ EliminateTailCall \/ FoldMviAluImm \/ FoldMviZeroToXraA

Spec == Init /\ [][Next]_vars

-----------------------------------------------------------------------------
(* How a block runs.  A callee computes its result from its arguments and   *)
(* leaves junk in what it need not keep, below the stack pointer too.       *)
Junk == 5
Called(m, i) ==
  LET result == (FoldSet(LAMBDA r, sum : sum + m.reg[r], 3, Named(i.s))) % ByteSize
      to == Wrap(m.sp + ByteSize * ByteSize - 2)
  IN [m EXCEPT !.mem = PutWord(@, to, Junk, Junk),
               !.reg = [r \in DOMAIN @ |-> IF r \in Named(i.d) THEN result
                                           ELSE IF r \in Kept(i) THEN @[r] ELSE Junk]]
Returned(m) == [m EXCEPT !.sp = Wrap(@ + 2)]
Filled(i, patch) == IF i.op # "CALL" /\ i.n = Hole THEN [i EXCEPT !.n = patch] ELSE i

RECURSIVE RunFrom(_, _, _, _, _)
RunFrom(m, c, k, patch, iter) ==
  IF k > Len(c) THEN IF block.fallRet THEN [m |-> Returned(m), to |-> "ret"] ELSE [m |-> m, to |-> "fall"]
  ELSE LET i == Filled(c[k], patch) IN
       CASE i.op = "CALL"    -> RunFrom(Called(m, i), c, k + 1, patch, iter)
         [] i.op = "RET"     -> [m |-> Returned(m), to |-> "ret"]
         [] i.op = "TAILJMP" -> [m |-> Returned(Called(m, i)), to |-> "ret"]
         [] i.op \in Jumps ->
              IF IsJcc(i) /\ ~Holds(i.s, m.reg["F"]) THEN RunFrom(m, c, k + 1, patch, iter)
              ELSE IF i.d = "loop" /\ iter < MaxIter THEN RunFrom(m, c, 1, patch, iter + 1)
              ELSE [m |-> m, to |-> i.d]
         [] OTHER            -> RunFrom(Exec(m, i), c, k + 1, patch, iter)

RECURSIVE Along(_, _, _)
Along(m, c, patch) == IF c = <<>> THEN m ELSE Along(Exec(m, Filled(Head(c), patch)), Tail(c), patch)

(* The machine x as it enters the block, if it does.                        *)
Entering(x, patch) ==
  IF block.before = <<>> THEN {Machines[x]}
  ELSE LET m == Along(Machines[x], Front(block.before), patch)  branch == Last(block.before) IN
       IF Holds(branch.s, m.reg["F"]) = (branch.d = "here") THEN {m} ELSE {}

Given(m, patch) == RunFrom(m, block.code, 1, patch, 1)
Rewritten(m, patch) == RunFrom(m, code, 1, patch, 1)
Rewrote == step \in Judged /\ code # block.code

-----------------------------------------------------------------------------

(* The rewritten block leaves over the same exit, with the same stack       *)
(* pointer and the same values in every register that is live there.        *)
RegistersKept ==
  Rewrote => \A x \in block.enter, p \in Patches : \A m \in Entering(x, p) :
    LET want == Given(m, p)  got == Rewritten(m, p) IN
    /\ got.to = want.to /\ got.m.sp = want.m.sp
    /\ \A r \in LiveAt(want.to, liveIn) : got.m.reg[r] = want.m.reg[r]

(* It leaves memory as the given one does, but for what is below the stack  *)
(* pointer and for a spill slot that no path out of the block reloads.      *)
MemoryKept ==
  Rewrote => \A x \in block.enter, p \in Patches : \A m \in Entering(x, p) :
    LET want == Given(m, p).m  got == Rewritten(m, p).m
        private == IF block.reads THEN {} ELSE block.slot
    IN \A a \in ((DOMAIN want.mem \cup DOMAIN got.mem) \ private) :
         a >= want.sp \/ a < StackEnd => At(got.mem, a) = At(want.mem, a)

(* Every placeholder the spills write to is still there, once.              *)
Placeholders(c) == {k \in DOMAIN c : c[k].n = Hole}
PatchedKept == Cardinality(Placeholders(code)) = Cardinality(Placeholders(block.code))
=============================================================================
