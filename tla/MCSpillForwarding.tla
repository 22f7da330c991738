--------------------------- MODULE MCSpillForwarding ---------------------------
(* Blocks of up to five instructions over two slots and two registers that  *)
(* overlap a third, every kill and dead flag, for the walk; for the         *)
(* expansions one stack-slot instruction before every set of live           *)
(* registers, and pairs of instructions for the liveness scan.  The 8080    *)
(* has three-bit bytes.                                                     *)
EXTENDS SpillForwarding

MCSlots == {1, 2}

Start == [reg |-> [r \in Regs |-> RegNumber[r]],
          slot |-> [fi \in MCSlots |-> [hi |-> 10 + fi, lo |-> 20 + fi]],
          addr |-> [fi \in MCSlots |-> 0]]

(* Register allocation reads no register after it is killed.                *)
Readable(s, mi) == \A r \in UsesOf(mi) : s.reg[r] # Undef

(* A register is killed by its spill to one slot while another slot has the *)
(* same value.                                                              *)
KillsCopy(s, mi) ==
  mi.op \in Spills /\ mi.kill /\
    \E fi \in MCSlots \ {mi.fi} :
      IF mi.op = "SPILL16" THEN s.slot[fi] = Value(s, mi.reg)
      ELSE s.slot[fi].lo = s.reg[mi.reg]

(* Every block of P, with one of the instructions of S after it.            *)
Extend(P, S) ==
  {[mbb |-> Append(p.mbb, x), s |-> Meaning(p.s, x), copied |-> p.copied \/ KillsCopy(p.s, x)] :
     <<p, x>> \in {q \in P \X S : Readable(q[1].s, q[2])}}

Ops(spill, reload, regs) ==
  {Mi(op, r, fi, k) : op \in {spill, reload}, r \in regs, fi \in MCSlots, k \in BOOLEAN}
Words == Ops("SPILL16", "RELOAD16", {"HL", "DE"})
           \cup {Mi("DEF", "E", 2, FALSE), Mi("USE", "HL", 0, FALSE), Mi("CALL", "HL", 0, FALSE)}
Bytes == Ops("SPILL8", "RELOAD8", {"H", "A"})
           \cup {Mi("DEF", "HL", 1, FALSE), Mi("CALL", "A", 0, FALSE)}
UsesIn(S) == {Mi("USE", r, 0, FALSE) : r \in S}

Empty == {[mbb |-> <<>>, s |-> Start, copied |-> FALSE]}
Spilled16 == {Mi("SPILL16", "HL", fi, k) : fi \in {1}, k \in BOOLEAN}
Spilled8 == {Mi("SPILL8", "H", fi, k) : fi \in {1}, k \in BOOLEAN}

Blocks ==
  Extend(Extend(Extend(Extend(Empty, Words), Words), Words), UsesIn({"HL", "DE"}))
    \cup Extend(Extend(Extend(Extend(Extend(Empty, Spilled16), Words), Words), Words), UsesIn({"HL"}))
    \cup Extend(Extend(Extend(Extend(Empty, Spilled8), Bytes), Bytes), UsesIn({"H", "A"}))

Frame(static, reserved, liveOut) == [static |-> static, reserved |-> reserved, liveOut |-> liveOut]

Forwarded == {[mbb |-> p.mbb, frames |-> {Frame({1}, {}, {})}] : p \in {x \in Blocks : ~x.copied}}

-----------------------------------------------------------------------------
Accesses(fi) ==
  {Mi(op, r, fi, k) : op \in {"SPILL8", "RELOAD8"}, r \in Regs, k \in BOOLEAN}
    \cup {Mi(op, p, fi, k) : op \in {"SPILL16", "RELOAD16"}, p \in Pairs, k \in BOOLEAN}
    \cup {Mi("LOAD8_FI", r, fi, FALSE) : r \in Regs}
    \cup {Mi(op, p, fi, FALSE) : op \in {"LEA_FI", "LOAD16_FI"}, p \in Pairs}
    \cup {Mi("STORE8_FI", r, fi, k) : r \in Regs \ {"H", "L"}, k \in BOOLEAN}
    \cup {Mi("STORE16_FI", p, fi, k) : p \in {"BC", "DE"}, k \in BOOLEAN}

(* LOAD16_FI into HL, off the stack, while A is live.                       *)
LoadsThroughA(block, frame0) ==
  \E k \in DOMAIN block :
    /\ block[k].op = "LOAD16_FI" /\ block[k].reg = "HL"
    /\ block[k].fi \notin frame0.static
    /\ ~DeadAfter(block, k, frame0.liveOut, "A")

Expanded(block, frames) == [mbb |-> block, frames |-> {f \in frames : ~LoadsThroughA(block, f)}]

Single == {Expanded(<<mi>>, {Frame(s, {}, l) : s \in {{}, MCSlots}, l \in SUBSET Regs}) : mi \in Accesses(2)}

(* The frame pointer is BC: reserved, never in a live-in list.              *)
WithFP ==
  {Expanded(<<mi>>, {Frame(s, {"B", "C"}, l) : s \in {{}, MCSlots}, l \in SUBSET (Regs \ {"B", "C"})}) :
     mi \in {x \in Accesses(2) : Parts(x.reg) \cap {"B", "C"} = {}}}

Then == {Mi("USE", r, 0, FALSE) : r \in {"A", "E", "L", "HL"}}
          \cup {Mi("DEF", r, 5, FALSE) : r \in {"A", "L", "DE"}}
          \cup {Mi("RELOAD8", "H", 1, FALSE), Mi("RELOAD16", "DE", 2, FALSE),
                Mi("SPILL16", "HL", 1, TRUE), Mi("STORE16_FI", "DE", 2, FALSE), Copy("L", "E")}
(* The registers without a value after x.                                   *)
Lost(x) ==
  (IF x.kill THEN Parts(x.reg) ELSE {})
    \cup (IF x.op \in Stores THEN {"H", "L"}
          ELSE IF x.op \in Loads \cup {"LEA_FI"} THEN {"H", "L"} \ Parts(x.reg) ELSE {})

(* A slot is the program's or is spilled to, in one width; no register is   *)
(* read after it is lost, or killed while another slot has its value.     *)
Follows(x, y) ==
  /\ UsesOf(y) \cap Lost(x) = {}
  /\ y.op = "RELOAD16" => x.op \in {"SPILL16", "RELOAD16"}
  /\ y.op = "STORE16_FI" => x.op \notin Spills \cup Reloads
  /\ y.kill /\ y.op = "SPILL16" /\ Parts(x.reg) \cap Parts(y.reg) # {} => x.op \notin Spills \cup Reloads

Double ==
  {Expanded(<<x, y>>, {Frame(s, {}, l) : s \in {{}, {1}, MCSlots}, l \in {{}, {"A", "H"}, {"L", "D"}, Regs}}) :
     <<x, y>> \in {q \in Accesses(2) \X Then : Follows(q[1], q[2])}}

MCInputs == Forwarded \cup Single \cup WithFP \cup Double
=============================================================================
