------------------------------- MODULE MCBranchOpt -------------------------------
(* Functions of up to five blocks, the last of which leaves.                *)
EXTENDS BranchOpt

MCNames == {"b1", "b2", "b3", "b4", "b5"}
Order == <<"b1", "b2", "b3", "b4", "b5">>
MCValues == 0..2

Function(blocks) ==
  [layout |-> SubSeq(Order, 1, Len(blocks)),
   code |-> [b \in MCNames |-> IF \E k \in DOMAIN blocks : Order[k] = b
                               THEN blocks[CHOOSE k \in DOMAIN blocks : Order[k] = b] ELSE <<>>],
   succ |-> [b \in MCNames |-> {}], dead |-> {}]

Inner(n) == ToSet(SubSeq(Order, 2, n))

(* A block's two branches go to different places, and no Jcc to the next    *)
(* block: a return could be folded from it, and the block the code falls    *)
(* into be erased.                                                          *)
Sensible(f) ==
  \A k \in DOMAIN f.layout : LET c == f.code[f.layout[k]] IN
    \A h \in DOMAIN c : c[h].op = "Jcc" =>
      c[h].to # LayoutSucc(f, f.layout[k]) /\ (h < Len(c) => c[h + 1].to # c[h].to)

(* Of a block's two branches one goes, through a block that only jumps,     *)
(* where the other goes: threading both loses that successor, and the block *)
(* is erased if there is no other way to it.                                *)
Chained(f) ==
  \E b \in Blocks(f) : LET c == f.code[b]  n == Len(c) IN
    /\ n > 1 /\ c[n - 1].op = "Jcc" /\ IsLocal(c[n])
    /\ f.code[c[n - 1].to] = <<Jmp(c[n].to)>> /\ JmpOnly(f, c[n].to)

(* CPI n; JNZ over a patched MVI that holds n until the program patches it. *)
PatchedArm(f) ==
  \E b \in Blocks(f) \ {Last(f.layout)} : LET c == f.code[b]  arm == f.code[LayoutSucc(f, b)] IN
    /\ Len(c) > 1 /\ Last(c).op = "Jcc" /\ c[Len(c) - 1].op = "CPI"
    /\ arm # <<>> /\ arm[1].patched /\ arm[1].n = c[Len(c) - 1].n

Built(blocks) == {f \in {Function(x) : x \in blocks} : Sensible(f) /\ ~Chained(f) /\ ~PatchedArm(f)}

Branches(n) ==
  {<<>>} \cup {<<Jcc(cond, t)>> : cond \in {"NZ", "C"}, t \in Inner(n)}
    \cup {<<Jcc(cond, t), Jmp(u)>> : cond \in {"NZ", "C"}, t, u \in Inner(n)}
    \cup {<<Jcc("Z", "b3"), TailJmp("g")>>}
Leaving == {<<Ret>>, <<TailJmp("f")>>, <<Mov("A", "E"), Ret>>, <<Jmp("b2")>>, <<Call("g"), Ret>>}
Passing(n) ==
  {<<>>, <<Mvi("E", 1)>>, <<Mov("E", "A")>>, <<Call("f")>>}
    \cup {<<Add("E"), Jcc("Z", "b4")>>, <<Add("E"), Jcc("NC", "b2")>>}
    \cup {<<Jmp(t)>> : t \in Inner(n)}

FourBlocks ==
  Built({<<<<Cpi(1)>> \o x, y, z, w>> : x \in Branches(4), y, z \in Passing(4) \cup Leaving, w \in Leaving})

(* Every condition, over every block that a sweep removes.                  *)
EveryCondition ==
  Built({<<<<Cpi(1), Jcc(cond, "b3")>>, x, y>> :
           cond \in DOMAIN Inverted, y \in Leaving,
           x \in {<<Ret>>, <<Call("f")>>, <<Call("f"), Add("E")>>, <<Jmp("b2")>>, <<TailJmp("f")>>}})

(* One thing after the other: what a sweep leaves is what a later one, or   *)
(* the same one further on, looks for.                                      *)
Few == {<<Ret>>, <<Call("f")>>, <<Jmp("b5")>>, <<Cpi(1), Jcc("C", "b5")>>, <<Jcc("NZ", "b4")>>, <<Mov("E", "A")>>}
FiveBlocks ==
  Built({<<<<Cpi(1), Jcc("NZ", t)>>, x, y, z, w>> :
           t \in {"b3", "b4", "b5"}, x, y, z \in Few,
           w \in {<<Ret>>, <<Mov("A", "E"), Ret>>, <<TailJmp("f")>>}})

(* Arms with a patched immediate.                                           *)
Patched(d, n) == [Mvi(d, n) EXCEPT !.patched = TRUE]
PatchedBlocks ==
  Built({<<<<Cpi(n), Jcc("NZ", "b3")>>, <<i>>, <<Mov("A", "E"), Ret>>>> :
           n \in 0..1, i \in {Patched("E", 0), Mvi("E", 0), Mvi("E", 1), Mvi("A", 1), Mov("E", "A"), Mov("A", "E")}})

MCFunctions == <<EveryCondition, FiveBlocks, PatchedBlocks, FourBlocks>>
=============================================================================
