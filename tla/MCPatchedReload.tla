---------------------------- MODULE MCPatchedReload ----------------------------
(* A 16-bit and two 8-bit slots, spilled and reloaded by blocks of five or   *)
(* six instructions: one slot many times, or the slots mixed.               *)
EXTENDS PatchedReload

MCSlots == {1, 2, 3}

(* A slot has no value before the first spill to it.                        *)
Start == [reg |-> [r \in Regs |-> RegNumber[r]],
          slot |-> [fi \in MCSlots |-> [hi |-> Undef, lo |-> Undef]],
          addr |-> [fi \in MCSlots |-> 0]]

(* Register allocation reads what has a value.                              *)
Readable(s, mi) ==
  /\ \A r \in UsesOf(mi) : s.reg[r] # Undef
  /\ mi.op \in Reloads => s.slot[mi.fi].lo # Undef

(* Looking back, one half of HL is found killed while the other has a value.*)
HalfKilled(half, s, mi) ==
  LET S == {"H", "L"} IN
  IF DefsOf(mi) \cap S # {} \/ mi.op = "CALL" THEN FALSE
  ELSE IF KilledBy(mi) \cap S # {} THEN \E r \in S : s.reg[r] # Undef
  ELSE half

(* Every block of P, with one of the instructions of S after it.            *)
Extend(P, S) ==
  {LET s == Meaning(p.s, x) IN
     [mbb |-> Append(p.mbb, x), s |-> s, half |-> HalfKilled(p.half, s, x),
      swapped |-> p.swapped \/ (p.half /\ x.op = "SPILL16" /\ x.reg = "DE")] :
     <<p, x>> \in {q \in P \X S : Readable(q[1].s, q[2])}}

Spill16(regs) == {Mi("SPILL16", r, 1, k) : r \in regs, k \in BOOLEAN}
Spill8(regs) == {Mi("SPILL8", r, 2, k) : r \in regs, k \in BOOLEAN}
Reload16(regs) == {Mi("RELOAD16", r, 1, FALSE) : r \in regs}
Reload8(regs) == {Mi("RELOAD8", r, 2, FALSE) : r \in regs}
UsesIn(regs) == {Mi("USE", r, 0, FALSE) : r \in regs}

Empty == {[mbb |-> <<>>, s |-> Start, half |-> FALSE, swapped |-> FALSE]}

(* The 16-bit slot: one or more spills, up to three reloads.                *)
Words == Reload16(Pairs) \cup {Mi("SPILL16", "DE", 1, FALSE), Mi("DEF", "L", 3, FALSE), Mi("CALL", "HL", 0, FALSE)}
WordBlocks ==
  Extend(Extend(Extend(Extend(Extend(Empty, Spill16(Pairs)), Words), Words), Reload16(Pairs)), UsesIn({"HL", "DE"}))

(* The 8-bit slot.                                                          *)
Bytes == Reload8({"A", "B", "H"}) \cup {Mi("SPILL8", "A", 2, FALSE), Mi("DEF", "HL", 3, FALSE), Mi("CALL", "A", 0, FALSE)}
ByteBlocks ==
  Extend(Extend(Extend(Extend(Extend(Empty, Spill8({"A", "H", "C"})), Bytes), Bytes),
                Reload8({"A", "C", "L"})), UsesIn({"A", "C", "HL"}))

(* All slots: the order in which they are treated varies.                   *)
Mixed == Reload8({"B", "H"}) \cup Reload16({"DE", "BC"})
           \cup {Mi("USE", "H", 0, TRUE), Mi("RELOAD8", "H", 3, FALSE)}
Spilled == Extend(Extend(Empty, Spill8({"A", "E"})), Spill16({"DE", "BC"}))
             \cup Extend(Extend(Empty, Spill16({"DE", "BC"})), Spill8({"A", "L"}))
             \cup Extend(Extend(Empty, Spill8({"A", "L"})), {Mi("SPILL8", r, 3, FALSE) : r \in {"A", "D"}})
MixedBlocks == Extend(Extend(Extend(Extend(Spilled, Mixed), Mixed), Mixed), UsesIn({"A", "B", "HL"}))

(* The slot is spilled from DE while one half of HL, or none, has a value.  *)
Halves == Reload16({"BC", "DE"}) \cup {Mi("USE", "H", 0, TRUE), Mi("DEF", "L", 3, FALSE)}
HalfBlocks ==
  Extend(Extend(Extend(Extend(Extend(Extend(Empty, Spill16({"BC"})), Halves), Halves), Halves),
                Spill16({"DE"})), UsesIn({"L", "BC"}))

Blocks == WordBlocks \cup ByteBlocks \cup MixedBlocks \cup HalfBlocks

Input(p) == [mbb |-> p.mbb, frames |-> {[static |-> MCSlots, words |-> {1}, reserved |-> {},
                                         liveIn |-> Regs, liveOut |-> {}]}]

MCInputs == {Input(p) : p \in {x \in Blocks : ~x.swapped}}
=============================================================================
