------------------------------- MODULE LatePasses -------------------------------
(***************************************************************************)
(* The block goes on from the peephole pass through the passes behind it,   *)
(* one action a pass, in the order of addPreEmitPass; branch optimisation,  *)
(* which works on whole functions, is left out between them, and of         *)
(* register value forwarding (RegValueForwarding) a block by itself is here.*)
(***************************************************************************)
EXTENDS Peephole, LateFolds

(* One step of the pass that carries knowledge along.                       *)
Learn(pass, c, k, known) ==
  CASE pass = "imm"     -> LoadImmStep(c, k, known)
    [] pass = "hl"      -> FoldHLStep(c, k, known)
    [] pass = "forward" -> ForwardStep(c, k, known)
    [] pass = "flags"   -> FlagStep(c, k, known, LiveBehind(c))

RECURSIVE Scan(_, _, _, _)
Scan(pass, c, k, known) ==
  IF k > Len(c) THEN c ELSE LET e == Learn(pass, c, k, known) IN Scan(pass, e.code, e.next, e.known)

LoadImmCombine     == Rewrite(Done, Scan("imm", code, 1, KnowAtEntry(block.before, "here", liveIn)))
LoadStoreOpt       == Rewrite(Done + 1, Walk(DeadLxiStep, Scan("hl", code, 1, {})))
XchgOpt            == Rewrite(Done + 2, Walk(CancelNextXchg, Walk(LAMBDA c, k : TryXchg(c, k, LiveBehind(c)), code)))
ZeroTestOpt        == Rewrite(Done + 3, Walk(ZeroTestStep, code))
ForwardRegValues   == Rewrite(Done + 4, Scan("forward", code, 1, Itself))
RedundantFlagElim  == Rewrite(Done + 5, Scan("flags", code, 1, Stale))

LateNext ==
  Next \/ LoadImmCombine \/ LoadStoreOpt \/ XchgOpt \/ ZeroTestOpt \/ ForwardRegValues \/ RedundantFlagElim

LateSpec == Init /\ [][LateNext]_vars
=============================================================================
