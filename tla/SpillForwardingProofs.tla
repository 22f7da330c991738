------------------------- MODULE SpillForwardingProofs -------------------------
(***************************************************************************)
(* Theorems about SpillForwarding, for every block: the walk, and the       *)
(* lowering of stack-slot pseudo-instructions, what their 8080 code leaves  *)
(* in registers and slots, interrupted or not.                              *)
(***************************************************************************)
EXTENDS SpillForwarding, NaturalsInduction, WellFoundedInduction, SequenceTheorems, TLAPS

Instrs(role) == {mi \in Pseudo : Operands(mi, role)}

(* The states of the abstract machine.                                      *)
Values == Int \cup {Undef}
Slot == [hi : Values, lo : Values]
State == [reg : [Regs -> Values], slot : [Slots -> Slot], addr : [Slots -> Int]]

-----------------------------------------------------------------------------
(* Registers and pairs.                                                     *)
LEMMA PartsFacts ==
  /\ \A p \in Pairs : /\ Hi[p] \in Regs /\ Lo[p] \in Regs /\ Hi[p] # Lo[p]
                      /\ Parts(p) = {Hi[p], Lo[p]} /\ p \notin Regs /\ p # NoReg
  /\ \A r \in Regs : Parts(r) = {r} /\ r \notin Pairs /\ r # NoReg
BY DEF Pairs, Regs, Hi, Lo, Parts, NoReg

LEMMA PartsApart ==
  ASSUME NEW p \in Pairs, NEW q \in Pairs, p # q
  PROVE  Parts(p) \cap Parts(q) = {}
BY DEF Pairs, Hi, Lo, Parts

(* Put gives a register or a pair the value w, Lose takes the registers of  *)
(* S away; the others stay.                                                 *)
LEMMA PutFacts ==
  ASSUME NEW reg \in [Regs -> Values], NEW d \in Regs \cup Pairs, NEW w \in Slot
  PROVE  /\ Put(reg, d, w) \in [Regs -> Values]
         /\ d \in Pairs => Put(reg, d, w)[Hi[d]] = w.hi /\ Put(reg, d, w)[Lo[d]] = w.lo
         /\ d \in Regs => Put(reg, d, w)[d] = w.lo
         /\ \A r \in Regs : r \notin Parts(d) => Put(reg, d, w)[r] = reg[r]
<1>1. w.hi \in Values /\ w.lo \in Values
  BY DEF Slot
<1>2. CASE d \in Pairs
  BY <1>1, <1>2, PartsFacts DEF Put
<1>3. CASE d \in Regs
  BY <1>1, <1>3, PartsFacts DEF Put
<1>. QED
  BY <1>2, <1>3

LEMMA LoseFacts ==
  ASSUME NEW reg \in [Regs -> Values], NEW S
  PROVE  /\ Lose(reg, S) \in [Regs -> Values]
         /\ \A r \in Regs : Lose(reg, S)[r] = IF r \in S THEN Undef ELSE reg[r]
BY DEF Lose, Values

LEMMA ValueFacts ==
  ASSUME NEW s \in State, NEW r \in Regs \cup Pairs
  PROVE  /\ Value(s, r) \in Slot
         /\ r \in Pairs => Value(s, r).hi = s.reg[Hi[r]] /\ Value(s, r).lo = s.reg[Lo[r]]
         /\ r \in Regs => Value(s, r).hi = Undef /\ Value(s, r).lo = s.reg[r]
BY PartsFacts DEF Value, State, Slot, Values

(* The operands of an instruction, by kind.                                 *)
LEMMA OperandFacts ==
  ASSUME NEW role, NEW mi \in Instrs(role)
  PROVE  /\ mi \in Pseudo /\ mi.kill \in BOOLEAN
         /\ mi.op \in Spills \cup Reloads =>
              /\ mi.fi \in Slots /\ role[mi.fi] # "program"
              /\ role[mi.fi] = "byte" => mi.reg \in Regs
              /\ role[mi.fi] = "word" => mi.reg \in Pairs
              /\ role[mi.fi] \in {"byte", "word"}
         /\ mi.op \in Stores => mi.fi \in Slots /\ role[mi.fi] = "program" /\ mi.reg \in Regs \cup Pairs
         /\ mi.op \in Loads \cup {"LEA_FI"} =>
              mi.fi \in Slots /\ role[mi.fi] = "program" /\ mi.reg \in Regs \cup Pairs
         /\ mi.op = "MOV" => mi.reg \in Regs /\ mi.src \in Regs /\ ~mi.kill
         /\ mi.op \in {"DEF", "USE"} => mi.reg \in Regs \cup Pairs
         /\ mi.op = "DEF" => mi.fi \in Int
         /\ mi.op \in Spills \cup Reloads \cup Stores \cup Loads \cup {"LEA_FI", "MOV", "DEF", "USE", "CALL"}
<1>1. mi \in Pseudo /\ Operands(mi, role)
  BY DEF Instrs
<1>2. mi.op \in Spills \cup Reloads \cup Stores \cup Loads \cup {"LEA_FI", "MOV", "DEF", "USE", "CALL"}
      /\ mi.kill \in BOOLEAN /\ mi.fi \in Nat
  BY <1>1 DEF Pseudo
<1>3. CASE mi.op \in Spills \cup Reloads
  BY <1>1, <1>2, <1>3 DEF Operands, Spills, Reloads, Stores, Loads
<1>4. CASE mi.op \in Stores
  BY <1>1, <1>2, <1>4 DEF Operands, Spills, Reloads, Stores, Loads, Pairs
<1>5. CASE mi.op \in Loads \cup {"LEA_FI"}
  BY <1>1, <1>2, <1>5 DEF Operands, Spills, Reloads, Stores, Loads
<1>6. CASE mi.op = "MOV"
  BY <1>1, <1>2, <1>6 DEF Operands, Spills, Reloads, Stores, Loads
<1>7. CASE mi.op = "DEF"
  BY <1>1, <1>2, <1>7 DEF Operands, Spills, Reloads, Stores, Loads
<1>8. CASE mi.op = "USE"
  BY <1>1, <1>2, <1>8 DEF Operands, Spills, Reloads, Stores, Loads
<1>9. CASE mi.op = "CALL"
  BY <1>1, <1>2, <1>9 DEF Operands, Spills, Reloads, Stores, Loads
<1>. QED
  BY <1>2, <1>3, <1>4, <1>5, <1>6, <1>7, <1>8, <1>9

(* What an instruction leaves alone, and what it moves.                     *)
Lost(mi) == IF mi.kill THEN Parts(mi.reg) ELSE {}
Writes(mi) == mi.op \in Spills \cup Stores

LEMMA MeaningCases ==
  ASSUME NEW s, NEW mi
  PROVE  /\ mi.op \in Spills => Meaning(s, mi) =
              [reg |-> Lose(s.reg, Lost(mi)), slot |-> [s.slot EXCEPT ![mi.fi] = Value(s, mi.reg)], addr |-> s.addr]
         /\ mi.op \in Stores => Meaning(s, mi) =
              [reg |-> Lose(s.reg, {"H", "L"} \cup Lost(mi)), slot |-> [s.slot EXCEPT ![mi.fi] = Value(s, mi.reg)], addr |-> s.addr]
         /\ mi.op \in Reloads => Meaning(s, mi) =
              [s EXCEPT !.reg = Lose(Put(@, mi.reg, s.slot[mi.fi]), Lost(mi))]
         /\ mi.op \in Loads => Meaning(s, mi) =
              [s EXCEPT !.reg = Put(Lose(@, {"H", "L"}), mi.reg, s.slot[mi.fi])]
         /\ mi.op = "LEA_FI" => Meaning(s, mi) =
              [s EXCEPT !.reg = Put(Lose(@, {"H", "L"}), mi.reg,
                                    [hi |-> s.addr[mi.fi] \div ByteSize, lo |-> s.addr[mi.fi] % ByteSize])]
         /\ mi.op = "MOV" => Meaning(s, mi) = [s EXCEPT !.reg = Put(@, mi.reg, Value(s, mi.src))]
         /\ mi.op = "DEF" => Meaning(s, mi) = [s EXCEPT !.reg = Put(@, mi.reg, [hi |-> mi.fi, lo |-> mi.fi])]
         /\ mi.op = "USE" => Meaning(s, mi) = [s EXCEPT !.reg = Lose(@, Lost(mi))]
         /\ mi.op = "CALL" => Meaning(s, mi) = [s EXCEPT !.reg = Lose(@, Regs)]
<1>1. mi.op \in Spills =>
     Meaning(s, mi) = [reg |-> Lose(s.reg, Lost(mi)), slot |-> [s.slot EXCEPT ![mi.fi] = Value(s, mi.reg)], addr |-> s.addr]
  BY Zenon DEF Meaning, Lost, Spills, Stores, Reloads, Loads
<1>2. mi.op \in Stores =>
     Meaning(s, mi) = [reg |-> Lose(s.reg, {"H", "L"} \cup Lost(mi)), slot |-> [s.slot EXCEPT ![mi.fi] = Value(s, mi.reg)], addr |-> s.addr]
  BY Zenon DEF Meaning, Lost, Spills, Stores, Reloads, Loads
<1>3. mi.op \in Reloads =>
     Meaning(s, mi) = [s EXCEPT !.reg = Lose(Put(@, mi.reg, s.slot[mi.fi]), Lost(mi))]
  BY Zenon DEF Meaning, Lost, Spills, Stores, Reloads, Loads
<1>4. mi.op \in Loads =>
     Meaning(s, mi) = [s EXCEPT !.reg = Put(Lose(@, {"H", "L"}), mi.reg, s.slot[mi.fi])]
  BY Zenon DEF Meaning, Lost, Spills, Stores, Reloads, Loads
<1>5. mi.op = "LEA_FI" =>
     Meaning(s, mi) = [s EXCEPT !.reg = Put(Lose(@, {"H", "L"}), mi.reg,
                          [hi |-> s.addr[mi.fi] \div ByteSize, lo |-> s.addr[mi.fi] % ByteSize])]
  BY Zenon DEF Meaning, Lost, Spills, Stores, Reloads, Loads
<1>6. mi.op = "MOV" =>
     Meaning(s, mi) = [s EXCEPT !.reg = Put(@, mi.reg, Value(s, mi.src))]
  BY Zenon DEF Meaning, Lost, Spills, Stores, Reloads, Loads
<1>7. mi.op = "DEF" =>
     Meaning(s, mi) = [s EXCEPT !.reg = Put(@, mi.reg, [hi |-> mi.fi, lo |-> mi.fi])]
  BY Zenon DEF Meaning, Lost, Spills, Stores, Reloads, Loads
<1>8. mi.op = "USE" =>
     Meaning(s, mi) = [s EXCEPT !.reg = Lose(@, Lost(mi))]
  BY Zenon DEF Meaning, Lost, Spills, Stores, Reloads, Loads
<1>9. mi.op = "CALL" =>
     Meaning(s, mi) = [s EXCEPT !.reg = Lose(@, Regs)]
  BY Zenon DEF Meaning, Lost, Spills, Stores, Reloads, Loads
<1>. QED
  BY <1>1, <1>2, <1>3, <1>4, <1>5, <1>6, <1>7, <1>8, <1>9

LEMMA DefsCases ==
  ASSUME NEW mi
  PROVE  /\ mi.op \in Reloads \cup {"DEF", "MOV"} => DefsOf(mi) = Parts(mi.reg)
         /\ mi.op \in Loads \cup {"LEA_FI"} => DefsOf(mi) = Parts(mi.reg) \cup {"H", "L"}
         /\ mi.op \in Stores => DefsOf(mi) = {"H", "L"}
         /\ mi.op \in Spills \cup {"USE"} => DefsOf(mi) = {}
<1>1. mi.op \in Reloads \cup {"DEF", "MOV"} => DefsOf(mi) = Parts(mi.reg)
  BY Zenon DEF DefsOf, Reloads, Loads, Stores, Spills
<1>2. mi.op \in Loads \cup {"LEA_FI"} => DefsOf(mi) = Parts(mi.reg) \cup {"H", "L"}
  BY Zenon DEF DefsOf, Reloads, Loads, Stores, Spills
<1>3. mi.op \in Stores => DefsOf(mi) = {"H", "L"}
  BY Zenon DEF DefsOf, Reloads, Loads, Stores, Spills
<1>4. mi.op \in Spills \cup {"USE"} => DefsOf(mi) = {}
  BY Zenon DEF DefsOf, Reloads, Loads, Stores, Spills
<1>. QED
  BY <1>1, <1>2, <1>3, <1>4

LEMMA StateParts ==
  ASSUME NEW s \in State
  PROVE  /\ s.reg \in [Regs -> Values] /\ s.slot \in [Slots -> Slot] /\ s.addr \in [Slots -> Int]
         /\ \A g : [s EXCEPT !.reg = g] = [reg |-> g, slot |-> s.slot, addr |-> s.addr]
<1>. DEFINE R == [Regs -> Values]
            T == [Slots -> Slot]
            A == [Slots -> Int]
<1>1. s \in [reg : R, slot : T, addr : A]
  BY DEF State
<1>. HIDE DEF R, T, A
<1>2. s.reg \in R /\ s.slot \in T /\ s.addr \in A
  BY <1>1
<1>3. \A g : [s EXCEPT !.reg = g] = [reg |-> g, slot |-> s.slot, addr |-> s.addr]
  BY <1>1
<1>. QED
  BY <1>2, <1>3 DEF R, T, A

LEMMA MeaningFacts ==
  ASSUME NEW role, NEW mi \in Instrs(role), NEW s \in State
  PROVE  /\ Meaning(s, mi) \in State
         /\ mi.op # "CALL" => \A r \in Regs : r \notin DefsOf(mi) \cup Lost(mi) =>
              Meaning(s, mi).reg[r] = s.reg[r]
         /\ \A f \in Slots : ~(Writes(mi) /\ f = mi.fi) => Meaning(s, mi).slot[f] = s.slot[f]
         /\ Writes(mi) => Meaning(s, mi).slot[mi.fi] = Value(s, mi.reg)
         /\ Meaning(s, mi).addr = s.addr
<1>. DEFINE t == Meaning(s, mi)
<1>1. s.reg \in [Regs -> Values] /\ s.slot \in [Slots -> Slot] /\ s.addr \in [Slots -> Int]
  BY StateParts
<1>2. CASE mi.op \in Spills \cup Stores
  <2>. DEFINE S == IF mi.op \in Spills THEN Lost(mi) ELSE {"H", "L"} \cup Lost(mi)
  <2>1. mi.fi \in Slots /\ mi.reg \in Regs \cup Pairs
    BY <1>2, OperandFacts
  <2>2. t = [reg |-> Lose(s.reg, S), slot |-> [s.slot EXCEPT ![mi.fi] = Value(s, mi.reg)], addr |-> s.addr]
    <3>1. mi.op \in Stores => mi.op \notin Spills
      BY DEF Spills, Stores
    <3>. QED
      BY <1>2, <3>1, MeaningCases
  <2>3. S \subseteq DefsOf(mi) \cup Lost(mi)
    BY <1>2 DEF DefsOf, Spills, Reloads, Loads, Stores
  <2>. HIDE DEF S, t
  <2>4. Value(s, mi.reg) \in Slot
    BY <2>1, ValueFacts
  <2>5. t \in State
    BY <1>1, <2>2, <2>4, LoseFacts DEF State
  <2>6. \A r \in Regs : r \notin S => t.reg[r] = s.reg[r]
    BY <1>1, <2>2, LoseFacts
  <2>7. t.slot[mi.fi] = Value(s, mi.reg) /\ \A f \in Slots : f # mi.fi => t.slot[f] = s.slot[f]
    BY <1>1, <2>1, <2>2
  <2>. QED
    BY <1>2, <2>2, <2>3, <2>5, <2>6, <2>7 DEF Writes, t
<1>3. CASE mi.op \in Reloads
  <2>. DEFINE g == Put(s.reg, mi.reg, s.slot[mi.fi])
  <2>1. mi.fi \in Slots /\ mi.reg \in Regs \cup Pairs /\ s.slot[mi.fi] \in Slot
    BY <1>1, <1>3, OperandFacts
  <2>2. t = [reg |-> Lose(g, Lost(mi)), slot |-> s.slot, addr |-> s.addr]
    <3>1. t = [s EXCEPT !.reg = Lose(g, Lost(mi))]
      BY <1>3, MeaningCases
    <3>. HIDE DEF t, g
    <3>. QED
      BY <3>1, StateParts
  <2>3. g \in [Regs -> Values] /\ \A r \in Regs : r \notin Parts(mi.reg) => g[r] = s.reg[r]
    BY <1>1, <2>1, PutFacts
  <2>4. Parts(mi.reg) = DefsOf(mi)
    BY <1>3, DefsCases
  <2>. HIDE DEF g, t
  <2>5. t \in State
    BY <1>1, <2>2, <2>3, LoseFacts DEF State
  <2>6. \A r \in Regs : r \notin DefsOf(mi) \cup Lost(mi) => t.reg[r] = s.reg[r]
    BY <2>2, <2>3, <2>4, LoseFacts
  <2>. QED
    BY <1>3, <2>2, <2>5, <2>6 DEF Writes, t, Spills, Reloads, Stores
<1>4. CASE mi.op \in Loads \cup {"LEA_FI"}
  <2>. DEFINE g == Lose(s.reg, {"H", "L"})
              w == IF mi.op \in Loads THEN s.slot[mi.fi]
                   ELSE [hi |-> s.addr[mi.fi] \div ByteSize, lo |-> s.addr[mi.fi] % ByteSize]
  <2>1. mi.fi \in Slots /\ mi.reg \in Regs \cup Pairs
    BY <1>4, OperandFacts
  <2>2. t = [reg |-> Put(g, mi.reg, w), slot |-> s.slot, addr |-> s.addr]
    <3>1. mi.op = "LEA_FI" => mi.op \notin Loads
      BY DEF Loads
    <3>2. t = [s EXCEPT !.reg = Put(Lose(@, {"H", "L"}), mi.reg, w)]
      BY <1>4, <3>1, MeaningCases
    <3>. HIDE DEF t, w
    <3>. QED
      BY <3>2, StateParts
  <2>3. w \in Slot
    <3>1. s.addr[mi.fi] \div ByteSize \in Int /\ s.addr[mi.fi] % ByteSize \in Int
      BY <1>1, <2>1, ByteSizeAssumption
    <3>. QED
      BY <1>1, <2>1, <3>1 DEF Slot, Values
  <2>. HIDE DEF w
  <2>4. g \in [Regs -> Values] /\ \A r \in Regs : r \notin {"H", "L"} => g[r] = s.reg[r]
    BY <1>1, LoseFacts
  <2>. HIDE DEF g, t
  <2>5. Put(g, mi.reg, w) \in [Regs -> Values] /\ \A r \in Regs : r \notin Parts(mi.reg) => Put(g, mi.reg, w)[r] = g[r]
    BY <2>1, <2>3, <2>4, PutFacts
  <2>6. DefsOf(mi) = Parts(mi.reg) \cup {"H", "L"}
    BY <1>4, DefsCases
  <2>7. t \in State
    BY <1>1, <2>2, <2>5 DEF State
  <2>8. \A r \in Regs : r \notin DefsOf(mi) => t.reg[r] = s.reg[r]
    BY <2>2, <2>4, <2>5, <2>6
  <2>. QED
    BY <1>4, <2>2, <2>7, <2>8 DEF Writes, t, Spills, Loads, Stores
<1>5. CASE mi.op \in {"MOV", "DEF"}
  <2>. DEFINE w == IF mi.op = "MOV" THEN Value(s, mi.src) ELSE [hi |-> mi.fi, lo |-> mi.fi]
  <2>1. mi.reg \in Regs \cup Pairs
    BY <1>5, OperandFacts
  <2>2. t = [reg |-> Put(s.reg, mi.reg, w), slot |-> s.slot, addr |-> s.addr]
    <3>1. t = [s EXCEPT !.reg = Put(@, mi.reg, w)]
      BY <1>5, MeaningCases
    <3>. HIDE DEF t, w
    <3>. QED
      BY <3>1, StateParts
  <2>3. w \in Slot
    <3>1. CASE mi.op = "MOV"
      BY <3>1, OperandFacts, ValueFacts
    <3>2. CASE mi.op = "DEF"
      BY <3>2, OperandFacts DEF Slot, Values
    <3>. QED
      BY <1>5, <3>1, <3>2
  <2>4. DefsOf(mi) = Parts(mi.reg)
    BY <1>5, DefsCases
  <2>. HIDE DEF w, t
  <2>5. Put(s.reg, mi.reg, w) \in [Regs -> Values]
        /\ \A r \in Regs : r \notin Parts(mi.reg) => Put(s.reg, mi.reg, w)[r] = s.reg[r]
    BY <1>1, <2>1, <2>3, PutFacts
  <2>6. t \in State
    BY <1>1, <2>2, <2>5 DEF State
  <2>. QED
    BY <1>5, <2>2, <2>4, <2>5, <2>6 DEF Writes, t, Spills, Stores
<1>7. CASE mi.op = "USE" \/ mi.op = "CALL"
  <2>. DEFINE S == IF mi.op = "USE" THEN Lost(mi) ELSE Regs
  <2>1. t = [reg |-> Lose(s.reg, S), slot |-> s.slot, addr |-> s.addr]
    <3>1. t = [s EXCEPT !.reg = Lose(@, S)]
      BY <1>7, MeaningCases
    <3>. HIDE DEF S, t
    <3>. QED
      BY <3>1, StateParts
  <2>2. mi.op = "USE" => S = Lost(mi)
    OBVIOUS
  <2>. HIDE DEF S, t
  <2>3. t \in State
    BY <1>1, <2>1, LoseFacts DEF State
  <2>4. \A r \in Regs : r \notin S => t.reg[r] = s.reg[r]
    BY <1>1, <2>1, LoseFacts
  <2>. QED
    BY <1>7, <2>1, <2>2, <2>3, <2>4 DEF Writes, t, Spills, Stores
<1>. QED
  BY <1>2, <1>3, <1>4, <1>5, <1>7, OperandFacts

-----------------------------------------------------------------------------
(* Runs of a block on the abstract machine.                                 *)

(* What is not empty has a least element.                                   *)
LEMMA LeastElement ==
  ASSUME NEW T, T \subseteq Nat, T # {}
  PROVE  \E n \in T : \A m0 \in T : n <= m0
<1>1. PICK n \in T : \A m0 \in T : ~(<<m0, n>> \in OpToRel(<, Nat))
  BY NatLessThanWellFounded, WFMin
<1>2. \A m0 \in T : ~(m0 < n)
  BY <1>1 DEF OpToRel
<1>. QED
  BY <1>2

After(x, mi) ==
  [s   |-> Meaning(x.s, mi),
   out |-> IF mi.op = "USE" THEN Append(x.out, Read(x.s, mi.reg)) ELSE x.out]

(* The run of b from s0, as far as n.                                       *)
IsRun(f, b, s0, n) ==
  f = [k \in 0..n |-> IF k = 0 THEN [s |-> s0, out |-> <<>>] ELSE After(f[k - 1], b[k])]

LEMMA RunExists ==
  ASSUME NEW b, Len(b) \in Nat, NEW s0
  PROVE  \E f : IsRun(f, b, s0, Len(b))
<1>. DEFINE n == Len(b)
            Bad == {k \in Nat : k <= n /\ ~\E f : IsRun(f, b, s0, k)}
<1>. SUFFICES Bad = {}
  OBVIOUS
<1>. SUFFICES ASSUME Bad # {} PROVE FALSE
  OBVIOUS
<1>0. Bad \subseteq Nat
  OBVIOUS
<1>1. PICK k \in Bad : \A j \in Bad : k <= j
  <2>. HIDE DEF Bad
  <2>. QED
    BY <1>0, LeastElement
<1>2. k \in Nat /\ k <= n /\ ~\E f : IsRun(f, b, s0, k)
  OBVIOUS
<1>3. k # 0
  <2>1. IsRun([j \in 0..0 |-> [s |-> s0, out |-> <<>>]], b, s0, 0)
    BY DEF IsRun
  <2>. QED
    BY <1>2, <2>1
<1>4. k - 1 \in Nat /\ k - 1 <= n /\ ~(k <= k - 1)
  BY <1>2, <1>3
<1>5. PICK f : IsRun(f, b, s0, k - 1)
  <2>1. k - 1 \notin Bad
    <3>. HIDE DEF Bad
    <3>. QED
      BY <1>1, <1>4
  <2>. QED
    BY <1>4, <2>1
<1>. DEFINE g == [j \in 0..k |-> IF j = k THEN After(f[k - 1], b[k]) ELSE f[j]]
<1>6. \A j \in 0..k - 1 : f[j] = IF j = 0 THEN [s |-> s0, out |-> <<>>] ELSE After(f[j - 1], b[j])
  BY <1>5, <1>4 DEF IsRun
<1>7. g[k] = After(f[k - 1], b[k]) /\ \A j \in 0..k : j # k => g[j] = f[j]
  BY <1>2
<1>8. g = [j \in 0..k |-> g[j]]
  OBVIOUS
<1>. HIDE DEF g
<1>9. ASSUME NEW j \in 0..k
      PROVE  g[j] = IF j = 0 THEN [s |-> s0, out |-> <<>>] ELSE After(g[j - 1], b[j])
  <2>1. CASE j = k
    <3>1. k - 1 \in 0..k /\ k - 1 # k
      BY <1>2, <1>3
    <3>. QED
      BY <1>3, <1>7, <2>1, <3>1
  <2>2. CASE j # k
    <3>1. j \in 0..k - 1 /\ (j # 0 => j - 1 \in 0..k /\ j - 1 # k)
      BY <1>2, <2>2
    <3>2. g[j] = f[j] /\ (j # 0 => g[j - 1] = f[j - 1])
      BY <1>7, <2>2, <3>1
    <3>. QED
      BY <1>6, <3>1, <3>2
  <2>. QED
    BY <2>1, <2>2
<1>10. IsRun(g, b, s0, k)
  BY <1>8, <1>9 DEF IsRun
<1>. QED
  BY <1>2, <1>10

LEMMA TraceRuns ==
  ASSUME NEW b, Len(b) \in Nat, NEW s0
  PROVE  /\ Trace(b, s0)[0] = [s |-> s0, out |-> <<>>]
         /\ \A k \in 1..Len(b) : Trace(b, s0)[k] = After(Trace(b, s0)[k - 1], b[k])
<1>. DEFINE t == Trace(b, s0)
<1>1. PICK f : IsRun(f, b, s0, Len(b))
  BY RunExists
<1>2. IsRun(t, b, s0, Len(b))
  <2>1. t = CHOOSE g : IsRun(g, b, s0, Len(b))
    BY DEF Trace, IsRun, After
  <2>. HIDE DEF t
  <2>. QED
    BY <1>1, <2>1
<1>. HIDE DEF t
<1>3. \A k \in 0..Len(b) : t[k] = IF k = 0 THEN [s |-> s0, out |-> <<>>] ELSE After(t[k - 1], b[k])
  BY <1>2 DEF IsRun
<1>. QED
  BY <1>3 DEF t

(* Blocks that begin alike run alike.                                       *)
LEMMA TracePrefix ==
  ASSUME NEW b, Len(b) \in Nat, NEW c, Len(c) \in Nat, NEW s0,
         NEW n \in Nat, n <= Len(b), n <= Len(c), \A k \in 1..n : b[k] = c[k]
  PROVE  \A k \in 0..n : Trace(b, s0)[k] = Trace(c, s0)[k]
<1>. DEFINE t == Trace(b, s0)
            u == Trace(c, s0)
            Bad == {k \in Nat : k <= n /\ t[k] # u[k]}
<1>1. /\ t[0] = u[0]
      /\ \A k \in 1..n : t[k] = After(t[k - 1], b[k]) /\ u[k] = After(u[k - 1], c[k])
  <2>1. t[0] = [s |-> s0, out |-> <<>>] /\ \A k \in 1..Len(b) : t[k] = After(t[k - 1], b[k])
    BY TraceRuns
  <2>2. u[0] = [s |-> s0, out |-> <<>>] /\ \A k \in 1..Len(c) : u[k] = After(u[k - 1], c[k])
    BY TraceRuns
  <2>3. \A k \in 1..n : k \in 1..Len(b) /\ k \in 1..Len(c)
    OBVIOUS
  <2>. HIDE DEF t, u
  <2>. QED
    BY <2>1, <2>2, <2>3
<1>. SUFFICES Bad = {}
  OBVIOUS
<1>. HIDE DEF t, u
<1>. SUFFICES ASSUME Bad # {} PROVE FALSE
  OBVIOUS
<1>0. Bad \subseteq Nat
  OBVIOUS
<1>2. PICK k \in Bad : \A j \in Bad : k <= j
  <2>. HIDE DEF Bad
  <2>. QED
    BY <1>0, LeastElement
<1>3. k \in Nat /\ k <= n /\ t[k] # u[k] /\ k # 0
  BY <1>1
<1>4. k - 1 \in Nat /\ k - 1 <= n /\ ~(k <= k - 1) /\ k \in 1..n
  BY <1>3
<1>5. t[k - 1] = u[k - 1]
  <2>1. k - 1 \notin Bad
    <3>. HIDE DEF Bad
    <3>. QED
      BY <1>2, <1>4
  <2>. QED
    BY <1>4, <2>1
<1>. QED
  BY <1>1, <1>3, <1>4, <1>5

LEMMA SameStart ==
  ASSUME NEW b, Len(b) \in Nat, NEW c, Len(c) \in Nat, NEW s0,
         NEW k \in Nat \ {0}, k - 1 <= Len(b), k - 1 <= Len(c), \A i \in 1..k - 1 : c[i] = b[i]
  PROVE  Trace(c, s0)[k - 1] = Trace(b, s0)[k - 1]
<1>. DEFINE n == k - 1
<1>1. n \in Nat /\ n <= Len(b) /\ n <= Len(c) /\ n \in 0..n /\ \A i \in 1..n : c[i] = b[i]
  OBVIOUS
<1>. HIDE DEF n
<1>2. \A i \in 0..n : Trace(c, s0)[i] = Trace(b, s0)[i]
  BY <1>1, TracePrefix
<1>. QED
  BY <1>1, <1>2 DEF n

LEMMA TraceType ==
  ASSUME NEW role, NEW b \in Seq(Instrs(role)), NEW s0 \in State
  PROVE  \A k \in 0..Len(b) : Trace(b, s0)[k].s \in State
<1>. DEFINE t == Trace(b, s0)
            Bad == {k \in Nat : k <= Len(b) /\ t[k].s \notin State}
<1>1. /\ t[0].s = s0
      /\ \A k \in 1..Len(b) : t[k].s = Meaning(t[k - 1].s, b[k])
  <2>1. t[0] = [s |-> s0, out |-> <<>>] /\ \A k \in 1..Len(b) : t[k] = After(t[k - 1], b[k])
    BY TraceRuns
  <2>2. \A x, mi : After(x, mi).s = Meaning(x.s, mi)
    BY DEF After
  <2>. HIDE DEF t
  <2>. QED
    BY <2>1, <2>2
<1>. SUFFICES Bad = {}
  OBVIOUS
<1>. HIDE DEF t
<1>. SUFFICES ASSUME Bad # {} PROVE FALSE
  OBVIOUS
<1>0. Bad \subseteq Nat
  OBVIOUS
<1>2. PICK k \in Bad : \A j \in Bad : k <= j
  <2>. HIDE DEF Bad
  <2>. QED
    BY <1>0, LeastElement
<1>3. k \in Nat /\ k <= Len(b) /\ t[k].s \notin State /\ k # 0
  BY <1>1
<1>4. k - 1 \in Nat /\ k - 1 <= Len(b) /\ ~(k <= k - 1) /\ k \in 1..Len(b)
  BY <1>3
<1>5. t[k - 1].s \in State
  <2>1. k - 1 \notin Bad
    <3>. HIDE DEF Bad
    <3>. QED
      BY <1>2, <1>4
  <2>. QED
    BY <1>4, <2>1
<1>6. b[k] \in Instrs(role)
  BY <1>4
<1>. QED
  BY <1>1, <1>3, <1>4, <1>5, <1>6, MeaningFacts

LEMMA JoinFacts ==
  ASSUME NEW S, NEW p \in Seq(S), NEW q \in Seq(S)
  PROVE  /\ p \o q \in Seq(S) /\ Len(p \o q) = Len(p) + Len(q)
         /\ \A i \in 1..Len(p) : (p \o q)[i] = p[i]
         /\ \A i \in 1..Len(q) : (p \o q)[Len(p) + i] = q[i]
<1>1. \A i \in 1..Len(p) : (p \o q)[i] = p[i]
  OBVIOUS
<1>2. \A i \in 1..Len(q) : (p \o q)[Len(p) + i] = q[i]
  OBVIOUS
<1>. QED
  BY <1>1, <1>2

(* A block with instruction k replaced by those of c.                       *)
LEMMA ReplaceFacts ==
  ASSUME NEW S, NEW b \in Seq(S), NEW c \in Seq(S), NEW k \in 1..Len(b)
  PROVE  /\ Replace(b, k, c) \in Seq(S)
         /\ Len(Replace(b, k, c)) = Len(b) - 1 + Len(c)
         /\ \A i \in 1..k - 1 : Replace(b, k, c)[i] = b[i]
         /\ \A i \in 1..Len(c) : Replace(b, k, c)[k - 1 + i] = c[i]
         /\ \A i \in k + 1..Len(b) : Replace(b, k, c)[i - 1 + Len(c)] = b[i]
<1>. DEFINE x == SubSeq(b, 1, k - 1)
            y == SubSeq(b, k + 1, Len(b))
<1>1. /\ x \in Seq(S) /\ Len(x) = k - 1 /\ \A i \in 1..k - 1 : x[i] = b[i]
      /\ y \in Seq(S) /\ Len(y) = Len(b) - k /\ \A i \in 1..Len(b) - k : y[i] = b[k + i]
  <2>1. x \in Seq(S)
    OBVIOUS
  <2>2. Len(x) = k - 1
    OBVIOUS
  <2>3. \A i \in 1..k - 1 : x[i] = b[i]
    OBVIOUS
  <2>4. y \in Seq(S)
    OBVIOUS
  <2>5. Len(y) = Len(b) - k
    OBVIOUS
  <2>6. \A i \in 1..Len(b) - k : y[i] = b[k + i]
    OBVIOUS
  <2>. QED
    BY <2>1, <2>2, <2>3, <2>4, <2>5, <2>6
<1>2. Replace(b, k, c) = (x \o c) \o y
  BY DEF Replace
<1>. HIDE DEF x, y
<1>. DEFINE z == x \o c
<1>3. /\ z \in Seq(S) /\ Len(z) = k - 1 + Len(c)
      /\ \A i \in 1..k - 1 : z[i] = x[i]
      /\ \A i \in 1..Len(c) : z[k - 1 + i] = c[i]
  <2>1. x \in Seq(S) /\ Len(x) = k - 1
    BY <1>1
  <2>2. ASSUME NEW p \in Seq(S)
        PROVE  /\ p \o c \in Seq(S) /\ Len(p \o c) = Len(p) + Len(c)
               /\ \A i \in 1..Len(p) : (p \o c)[i] = p[i]
               /\ \A i \in 1..Len(c) : (p \o c)[Len(p) + i] = c[i]
    BY JoinFacts
  <2>3. /\ x \o c \in Seq(S) /\ Len(x \o c) = Len(x) + Len(c)
        /\ \A i \in 1..Len(x) : (x \o c)[i] = x[i]
        /\ \A i \in 1..Len(c) : (x \o c)[Len(x) + i] = c[i]
    BY <2>1, <2>2, Zenon
  <2>. HIDE DEF z
  <2>4. z = x \o c
    BY DEF z
  <2>. QED
    BY <2>1, <2>3, <2>4
<1>. HIDE DEF z
<1>4. /\ z \o y \in Seq(S) /\ Len(z \o y) = Len(b) - 1 + Len(c)
      /\ \A i \in 1..Len(z) : (z \o y)[i] = z[i]
      /\ \A i \in 1..Len(y) : (z \o y)[Len(z) + i] = y[i]
  <2>1. z \in Seq(S) /\ y \in Seq(S)
    BY <1>1, <1>3
  <2>2. Len(z) + Len(y) = Len(b) - 1 + Len(c)
    <3>1. Len(z) = k - 1 + Len(c) /\ Len(y) = Len(b) - k
      BY <1>1, <1>3
    <3>2. Len(b) \in Nat /\ Len(c) \in Nat /\ k \in Nat
      OBVIOUS
    <3>. QED
      BY <3>1, <3>2
  <2>. QED
    BY <2>1, <2>2, JoinFacts
<1>5. \A i \in 1..k - 1 : (z \o y)[i] = b[i]
  <2>1. \A i \in 1..k - 1 : i \in 1..Len(z)
    BY <1>3
  <2>. QED
    BY <1>1, <1>3, <1>4, <2>1
<1>6. \A i \in 1..Len(c) : (z \o y)[k - 1 + i] = c[i]
  <2>1. \A i \in 1..Len(c) : k - 1 + i \in 1..Len(z)
    BY <1>3
  <2>. QED
    BY <1>3, <1>4, <2>1
<1>7. ASSUME NEW i \in k + 1..Len(b) PROVE (z \o y)[i - 1 + Len(c)] = b[i]
  <2>1. i - k \in 1..Len(b) - k /\ Len(z) + (i - k) = i - 1 + Len(c) /\ k + (i - k) = i
    BY <1>3
  <2>2. (z \o y)[Len(z) + (i - k)] = y[i - k] /\ y[i - k] = b[k + (i - k)]
    BY <1>1, <1>4, <2>1
  <2>. QED
    BY <2>1, <2>2
<1>8. Replace(b, k, c) = z \o y
  BY <1>2 DEF z
<1>. QED
  BY <1>4, <1>5, <1>6, <1>7, <1>8

(* r is block b with those of c in the place of instruction k.              *)
Replaced(S, b, k, c, r) ==
  /\ r \in Seq(S)
  /\ Len(r) = Len(b) - 1 + Len(c)
  /\ \A i \in 1..k - 1 : r[i] = b[i]
  /\ \A i \in k + 1..Len(b) : r[i - 1 + Len(c)] = b[i]

LEMMA ReplaceReplaces ==
  ASSUME NEW S, NEW b \in Seq(S), NEW c \in Seq(S), NEW k \in 1..Len(b)
  PROVE  Replaced(S, b, k, c, Replace(b, k, c))
BY ReplaceFacts DEF Replaced

LEMMA EraseFacts ==
  ASSUME NEW S, NEW b \in Seq(S), NEW k \in 1..Len(b)
  PROVE  /\ Replace(b, k, <<>>) \in Seq(S) /\ Len(Replace(b, k, <<>>)) = Len(b) - 1
         /\ \A i \in 1..k - 1 : Replace(b, k, <<>>)[i] = b[i]
         /\ \A i \in k + 1..Len(b) : Replace(b, k, <<>>)[i - 1] = b[i]
<1>1. ASSUME NEW y \in Seq(S), Len(y) = 0
      PROVE  /\ Replace(b, k, y) \in Seq(S) /\ Len(Replace(b, k, y)) = Len(b) - 1
             /\ \A i \in 1..k - 1 : Replace(b, k, y)[i] = b[i]
             /\ \A i \in k + 1..Len(b) : Replace(b, k, y)[i - 1] = b[i]
  <2>1. /\ Replace(b, k, y) \in Seq(S)
        /\ Len(Replace(b, k, y)) = Len(b) - 1 + Len(y)
        /\ \A i \in 1..k - 1 : Replace(b, k, y)[i] = b[i]
        /\ \A i \in k + 1..Len(b) : Replace(b, k, y)[i - 1 + Len(y)] = b[i]
    <3>1. Replaced(S, b, k, y, Replace(b, k, y))
      BY ReplaceReplaces
    <3>. QED
      BY <3>1, Zenon DEF Replaced
  <2>2. Len(b) \in Nat /\ k \in Nat /\ Len(b) - 1 + 0 = Len(b) - 1
        /\ \A i \in k + 1..Len(b) : i - 1 + 0 = i - 1
    OBVIOUS
  <2>. DEFINE R == Replace(b, k, y)
  <2>. HIDE DEF R
  <2>3. Len(R) = Len(b) - 1
    BY <1>1, <2>1, <2>2 DEF R
  <2>4. ASSUME NEW i \in k + 1..Len(b) PROVE R[i - 1] = b[i]
    <3>1. R[i - 1 + Len(y)] = b[i]
      BY <2>1, Zenon DEF R
    <3>. QED
      BY <1>1, <2>2, <3>1
  <2>. QED
    BY <2>1, <2>3, <2>4, Zenon DEF R
<1>2. <<>> \in Seq(S) /\ Len(<<>>) = 0
  OBVIOUS
<1>. QED
  BY <1>1, <1>2

-----------------------------------------------------------------------------
(* What the walk remembers.                                                 *)
Kept == Regs \cup Pairs \cup {NoReg}
Memory(role) ==
  {av \in [Slots -> Kept] : \A f \in Slots : /\ av[f] \in Regs => role[f] = "byte"
                                             /\ av[f] \in Pairs => role[f] = "word"}

(* Register r holds in s what slot f holds.                                 *)
SameValue(s, r, f) == IF r \in Pairs THEN Value(s, r) = s.slot[f] ELSE s.reg[r] = s.slot[f].lo
Sound(s, av) == \A f \in Slots : av[f] # NoReg => SameValue(s, av[f], f)

(* Such a register goes on holding it while neither is written.             *)
LEMMA SameValueKept ==
  ASSUME NEW s \in State, NEW t \in State, NEW r \in Regs \cup Pairs, NEW f \in Slots,
         SameValue(s, r, f), t.slot[f] = s.slot[f], \A x \in Parts(r) : t.reg[x] = s.reg[x]
  PROVE  SameValue(t, r, f)
<1>1. CASE r \in Pairs
  <2>1. t.reg[Hi[r]] = s.reg[Hi[r]] /\ t.reg[Lo[r]] = s.reg[Lo[r]]
    BY <1>1, PartsFacts
  <2>2. Value(t, r) = Value(s, r)
    BY <1>1, <2>1 DEF Value
  <2>. QED
    BY <1>1, <2>2 DEF SameValue
<1>2. CASE r \in Regs
  BY <1>2, PartsFacts DEF SameValue
<1>. QED
  BY <1>1, <1>2

(* What one instruction leaves of the memory: the slots it does not write,  *)
(* in registers it neither defines nor kills.                               *)
LEMMA StepKeeps ==
  ASSUME NEW role, NEW mi \in Instrs(role), mi.op # "CALL", NEW s \in State,
         NEW r \in Regs \cup Pairs, NEW f \in Slots, SameValue(s, r, f),
         Parts(r) \cap (DefsOf(mi) \cup Lost(mi)) = {}, ~(Writes(mi) /\ f = mi.fi)
  PROVE  SameValue(Meaning(s, mi), r, f)
<1>1. Meaning(s, mi) \in State /\ Meaning(s, mi).slot[f] = s.slot[f]
  BY MeaningFacts
<1>2. \A x \in Parts(r) : x \in Regs /\ x \notin DefsOf(mi) \cup Lost(mi)
  BY PartsFacts
<1>3. \A x \in Parts(r) : Meaning(s, mi).reg[x] = s.reg[x]
  BY <1>2, MeaningFacts
<1>. QED
  BY <1>1, <1>3, SameValueKept

LEMMA InvalidateFacts ==
  ASSUME NEW role, NEW av \in Memory(role), NEW S \in SUBSET (Regs \cup Pairs)
  PROVE  /\ Invalidate(av, S) \in Memory(role)
         /\ \A f \in Slots : Invalidate(av, S)[f] # NoReg =>
              /\ Invalidate(av, S)[f] = av[f]
              /\ \A d \in S : Parts(av[f]) \cap Parts(d) = {}
BY PartsFacts DEF Invalidate, Memory, Overlap, Kept

LEMMA MemoryFacts ==
  ASSUME NEW role, NEW av \in Memory(role)
  PROVE  \A f \in Slots : /\ av[f] \in Kept
                          /\ av[f] # NoReg => av[f] \in Regs \cup Pairs /\ role[f] # "program"
BY DEF Memory, Kept

LEMMA RememberFacts ==
  ASSUME NEW role, NEW av \in Memory(role), NEW f \in Slots, NEW r \in Kept,
         r \in Regs => role[f] = "byte", r \in Pairs => role[f] = "word"
  PROVE  /\ [av EXCEPT ![f] = r] \in Memory(role)
         /\ [av EXCEPT ![f] = r][f] = r
         /\ \A g \in Slots : g # f => [av EXCEPT ![f] = r][g] = av[g]
BY DEF Memory

(* A spill puts the register's value in the slot; a reload that is not dead *)
(* puts the slot's in the register; a copy moves one register.              *)
LEMMA SpillFacts ==
  ASSUME NEW role, NEW mi \in Instrs(role), mi.op \in Spills, ~mi.kill, NEW s \in State
  PROVE  SameValue(Meaning(s, mi), mi.reg, mi.fi)
<1>. DEFINE t == Meaning(s, mi)
<1>1. mi.reg \in Regs \cup Pairs /\ mi.fi \in Slots
  BY OperandFacts
<1>2. t \in State /\ t.slot[mi.fi] = Value(s, mi.reg)
  BY MeaningFacts DEF Writes
<1>3. DefsOf(mi) \cup Lost(mi) = {} /\ mi.op # "CALL"
  BY DefsCases DEF Lost, Spills
<1>4. \A x \in Regs : t.reg[x] = s.reg[x]
  BY <1>3, MeaningFacts
<1>. HIDE DEF t
<1>5. ASSUME mi.reg \in Pairs PROVE SameValue(t, mi.reg, mi.fi)
  <2>1. Value(t, mi.reg) = Value(s, mi.reg)
    BY <1>4, <1>5, PartsFacts DEF Value
  <2>. QED
    BY <1>2, <1>5, <2>1 DEF SameValue
<1>6. ASSUME mi.reg \in Regs PROVE SameValue(t, mi.reg, mi.fi)
  BY <1>2, <1>4, <1>6, ValueFacts, PartsFacts DEF SameValue
<1>. QED
  BY <1>1, <1>5, <1>6 DEF t

LEMMA ReloadFacts ==
  ASSUME NEW role, NEW mi \in Instrs(role), mi.op \in Reloads, ~mi.kill, NEW s \in State
  PROVE  SameValue(Meaning(s, mi), mi.reg, mi.fi)
<1>. DEFINE t == Meaning(s, mi)
            g == Put(s.reg, mi.reg, s.slot[mi.fi])
<1>1. mi.reg \in Regs \cup Pairs /\ mi.fi \in Slots
  BY OperandFacts
<1>2. s.reg \in [Regs -> Values] /\ s.slot \in [Slots -> Slot] /\ s.slot[mi.fi] \in Slot
  BY <1>1, StateParts
<1>3. t = [reg |-> Lose(g, {}), slot |-> s.slot, addr |-> s.addr]
  <2>1. t = [s EXCEPT !.reg = Lose(g, {})]
    BY MeaningCases DEF Lost
  <2>. HIDE DEF t, g
  <2>. QED
    BY <2>1, StateParts
<1>4. /\ g \in [Regs -> Values]
      /\ mi.reg \in Pairs => g[Hi[mi.reg]] = s.slot[mi.fi].hi /\ g[Lo[mi.reg]] = s.slot[mi.fi].lo
      /\ mi.reg \in Regs => g[mi.reg] = s.slot[mi.fi].lo
  BY <1>1, <1>2, PutFacts
<1>. HIDE DEF g, t
<1>5. \A x \in Regs : t.reg[x] = g[x]
  BY <1>3, <1>4, LoseFacts
<1>6. ASSUME mi.reg \in Pairs PROVE SameValue(t, mi.reg, mi.fi)
  <2>1. Value(t, mi.reg) = [hi |-> s.slot[mi.fi].hi, lo |-> s.slot[mi.fi].lo]
    BY <1>4, <1>5, <1>6, PartsFacts DEF Value
  <2>2. s.slot[mi.fi] = [hi |-> s.slot[mi.fi].hi, lo |-> s.slot[mi.fi].lo]
    BY <1>2 DEF Slot
  <2>. QED
    BY <1>3, <1>6, <2>1, <2>2 DEF SameValue
<1>7. ASSUME mi.reg \in Regs PROVE SameValue(t, mi.reg, mi.fi)
  BY <1>3, <1>4, <1>5, <1>7, PartsFacts DEF SameValue
<1>. QED
  BY <1>1, <1>6, <1>7 DEF t

LEMMA CopyFacts ==
  ASSUME NEW role, NEW d \in Regs, NEW r \in Regs
  PROVE  /\ Copy(d, r) \in Instrs(role)
         /\ \A s \in State : /\ Meaning(s, Copy(d, r)) \in State
                             /\ Meaning(s, Copy(d, r)).slot = s.slot
                             /\ Meaning(s, Copy(d, r)).reg[d] = s.reg[r]
                             /\ \A x \in Regs : x # d => Meaning(s, Copy(d, r)).reg[x] = s.reg[x]
<1>. DEFINE mi == Copy(d, r)
<1>1. mi.op = "MOV" /\ mi.reg = d /\ mi.src = r /\ mi.kill = FALSE /\ mi \in Pseudo
  BY DEF Copy, Pseudo
<1>2. Operands(mi, role)
  <2>. HIDE DEF mi
  <2>. QED
    BY <1>1 DEF Operands
<1>3. mi \in Instrs(role)
  BY <1>1, <1>2 DEF Instrs
<1>. HIDE DEF mi
<1>4. ASSUME NEW s \in State
      PROVE  /\ Meaning(s, mi) \in State
             /\ Meaning(s, mi).slot = s.slot
             /\ Meaning(s, mi).reg[d] = s.reg[r]
             /\ \A x \in Regs : x # d => Meaning(s, mi).reg[x] = s.reg[x]
  <2>1. Meaning(s, mi) = [s EXCEPT !.reg = Put(s.reg, d, Value(s, r))]
    BY <1>1, MeaningCases
  <2>2. Meaning(s, mi) = [reg |-> Put(s.reg, d, Value(s, r)), slot |-> s.slot, addr |-> s.addr]
    BY <2>1, StateParts
  <2>3. s.reg \in [Regs -> Values] /\ Value(s, r) \in Slot /\ Value(s, r).lo = s.reg[r]
    BY StateParts, ValueFacts
  <2>4. /\ Put(s.reg, d, Value(s, r))[d] = s.reg[r]
        /\ \A x \in Regs : x # d => Put(s.reg, d, Value(s, r))[x] = s.reg[x]
    <3>1. d \in Regs \cup Pairs /\ Parts(d) = {d}
      BY PartsFacts
    <3>. DEFINE g == Put(s.reg, d, Value(s, r))
    <3>2. g[d] = Value(s, r).lo /\ \A x \in Regs : x \notin Parts(d) => g[x] = s.reg[x]
      BY <2>3, <3>1, PutFacts
    <3>. HIDE DEF g
    <3>3. g[d] = s.reg[r] /\ \A x \in Regs : x # d => g[x] = s.reg[x]
      BY <2>3, <3>1, <3>2
    <3>. QED
      BY <3>3 DEF g
  <2>. QED
    BY <1>3, <2>2, <2>4, MeaningFacts
<1>. QED
  BY <1>3, <1>4 DEF mi

-----------------------------------------------------------------------------
(* The walk stands before instruction k of b, and is right about av.        *)
Right(role, b, k, av, s0) ==
  /\ b \in Seq(Instrs(role))
  /\ k \in 1..Len(b) + 1
  /\ av \in Memory(role)
  /\ Sound(Trace(b, s0)[k - 1].s, av)

LEMMA HereFacts ==
  ASSUME NEW role, NEW s0 \in State, NEW b, NEW k, NEW av, Right(role, b, k, av, s0), k <= Len(b)
  PROVE  /\ b \in Seq(Instrs(role)) /\ k \in 1..Len(b) /\ av \in Memory(role)
         /\ b[k] \in Instrs(role)
         /\ Trace(b, s0)[k - 1].s \in State
         /\ Trace(b, s0)[k].s = Meaning(Trace(b, s0)[k - 1].s, b[k])
         /\ Sound(Trace(b, s0)[k - 1].s, av)
<1>1. b \in Seq(Instrs(role)) /\ k \in 1..Len(b) + 1 /\ Len(b) \in Nat /\ av \in Memory(role)
      /\ Sound(Trace(b, s0)[k - 1].s, av)
  BY DEF Right
<1>2. k \in 1..Len(b) /\ k - 1 \in 0..Len(b)
  BY <1>1
<1>3. b[k] \in Instrs(role)
  BY <1>1, <1>2
<1>4. Trace(b, s0)[k - 1].s \in State
  BY <1>1, <1>2, TraceType
<1>5. Trace(b, s0)[k] = After(Trace(b, s0)[k - 1], b[k])
  BY <1>1, <1>2, TraceRuns
<1>6. After(Trace(b, s0)[k - 1], b[k]).s = Meaning(Trace(b, s0)[k - 1].s, b[k])
  BY DEF After
<1>. QED
  BY <1>1, <1>2, <1>3, <1>4, <1>5, <1>6

(* The walk goes on to the next instruction, or what lies ahead changes.    *)
LEMMA Advance ==
  ASSUME NEW role, NEW s0 \in State, NEW b, NEW k, NEW av, Right(role, b, k, av, s0), k <= Len(b),
         NEW av2 \in Memory(role), Sound(Meaning(Trace(b, s0)[k - 1].s, b[k]), av2)
  PROVE  Right(role, b, k + 1, av2, s0)
<1>1. b \in Seq(Instrs(role)) /\ k \in 1..Len(b)
      /\ Trace(b, s0)[k].s = Meaning(Trace(b, s0)[k - 1].s, b[k])
  BY HereFacts
<1>2. k + 1 \in 1..Len(b) + 1 /\ k + 1 - 1 = k
  BY <1>1
<1>. QED
  BY <1>1, <1>2 DEF Right

LEMMA Ahead ==
  ASSUME NEW role, NEW s0 \in State, NEW b, NEW k, NEW av, Right(role, b, k, av, s0),
         NEW c \in Seq(Instrs(role)), k - 1 <= Len(c), \A i \in 1..k - 1 : c[i] = b[i]
  PROVE  Right(role, c, k, av, s0)
<1>1. b \in Seq(Instrs(role)) /\ k \in 1..Len(b) + 1 /\ av \in Memory(role)
      /\ Sound(Trace(b, s0)[k - 1].s, av) /\ Len(b) \in Nat /\ Len(c) \in Nat
  BY DEF Right
<1>2. k - 1 \in Nat /\ k - 1 <= Len(b) /\ k - 1 \in 0..k - 1 /\ k \in 1..Len(c) + 1
  BY <1>1
<1>3. Trace(c, s0)[k - 1] = Trace(b, s0)[k - 1]
  BY <1>1, <1>2, TracePrefix
<1>. QED
  BY <1>1, <1>2, <1>3 DEF Right

(* The memory may be cut down.                                              *)
LEMMA Forget ==
  ASSUME NEW role, NEW s0 \in State, NEW b, NEW k, NEW av, Right(role, b, k, av, s0),
         NEW av2 \in Memory(role), \A f \in Slots : av2[f] # NoReg => av2[f] = av[f]
  PROVE  Right(role, b, k, av2, s0)
BY DEF Right, Sound

(* The memory carried over one instruction that is not a call: every slot   *)
(* that keeps its register keeps it for good reason.                        *)
LEMMA CarryOver ==
  ASSUME NEW role, NEW s0 \in State, NEW b, NEW k, NEW av, Right(role, b, k, av, s0), k <= Len(b),
         b[k].op # "CALL", NEW av2 \in Memory(role),
         \A f \in Slots : av2[f] # NoReg =>
           \/ /\ av2[f] = av[f]
              /\ Parts(av[f]) \cap (DefsOf(b[k]) \cup Lost(b[k])) = {}
              /\ ~(Writes(b[k]) /\ f = b[k].fi)
           \/ SameValue(Meaning(Trace(b, s0)[k - 1].s, b[k]), av2[f], f)
  PROVE  Right(role, b, k + 1, av2, s0)
<1>. DEFINE mi == b[k]
            s == Trace(b, s0)[k - 1].s
<1>1. mi \in Instrs(role) /\ s \in State /\ Sound(s, av) /\ av \in Memory(role)
  BY HereFacts
<1>2. ASSUME NEW f \in Slots, av2[f] # NoReg
      PROVE  SameValue(Meaning(s, mi), av2[f], f)
  <2>1. CASE /\ av2[f] = av[f]
             /\ Parts(av[f]) \cap (DefsOf(mi) \cup Lost(mi)) = {}
             /\ ~(Writes(mi) /\ f = mi.fi)
    <3>1. av[f] \in Regs \cup Pairs /\ SameValue(s, av[f], f)
      BY <1>1, <1>2, <2>1, MemoryFacts DEF Sound
    <3>. HIDE DEF mi, s
    <3>2. mi.op # "CALL"
      BY DEF mi
    <3>. QED
      BY <1>1, <2>1, <3>1, <3>2, StepKeeps
  <2>. QED
    BY <1>2, <2>1
<1>3. Sound(Meaning(s, mi), av2)
  BY <1>2 DEF Sound
<1>. QED
  BY <1>3, Advance

-----------------------------------------------------------------------------
(* One lemma for each thing the walk does.                                  *)
LEMMA EraseRight ==
  ASSUME NEW role, NEW s0 \in State, NEW b, NEW k, NEW av, Right(role, b, k, av, s0), k <= Len(b)
  PROVE  Right(role, Replace(b, k, <<>>), k, av, s0)
<1>1. b \in Seq(Instrs(role)) /\ k \in 1..Len(b)
  BY HereFacts
<1>2. /\ Replace(b, k, <<>>) \in Seq(Instrs(role))
      /\ Len(Replace(b, k, <<>>)) = Len(b) - 1
      /\ \A i \in 1..k - 1 : Replace(b, k, <<>>)[i] = b[i]
  BY <1>1, EraseFacts
<1>3. k - 1 <= Len(Replace(b, k, <<>>))
  BY <1>1, <1>2
<1>. QED
  BY <1>2, <1>3, Ahead

LEMMA SpillRight ==
  ASSUME NEW role, NEW s0 \in State, NEW b, NEW k, NEW av, Right(role, b, k, av, s0), k <= Len(b),
         b[k].op \in Spills, ~b[k].kill
  PROVE  Right(role, b, k + 1, [av EXCEPT ![b[k].fi] = b[k].reg], s0)
<1>. DEFINE mi == b[k]
            s == Trace(b, s0)[k - 1].s
            av2 == [av EXCEPT ![mi.fi] = mi.reg]
<1>1. mi \in Instrs(role) /\ s \in State /\ av \in Memory(role)
  BY HereFacts
<1>2. mi.op \in Spills /\ ~mi.kill
  OBVIOUS
<1>. HIDE DEF mi, s
<1>3. /\ mi.fi \in Slots /\ mi.reg \in Kept /\ mi.reg \in Regs \cup Pairs
      /\ mi.reg \in Regs => role[mi.fi] = "byte"
      /\ mi.reg \in Pairs => role[mi.fi] = "word"
  BY <1>1, <1>2, OperandFacts, PartsFacts DEF Kept
<1>4. av2 \in Memory(role) /\ av2[mi.fi] = mi.reg /\ \A f \in Slots : f # mi.fi => av2[f] = av[f]
  BY <1>1, <1>3, RememberFacts
<1>5. SameValue(Meaning(s, mi), mi.reg, mi.fi)
  BY <1>1, <1>2, SpillFacts
<1>6. DefsOf(mi) \cup Lost(mi) = {} /\ mi.op # "CALL"
  BY <1>2, DefsCases DEF Lost, Spills
<1>. HIDE DEF av2
<1>7. \A f \in Slots : av2[f] # NoReg =>
        \/ /\ av2[f] = av[f]
           /\ Parts(av[f]) \cap (DefsOf(mi) \cup Lost(mi)) = {}
           /\ ~(Writes(mi) /\ f = mi.fi)
        \/ SameValue(Meaning(s, mi), av2[f], f)
  BY <1>4, <1>5, <1>6
<1>. QED
  BY <1>4, <1>6, <1>7, CarryOver DEF mi, s, av2

LEMMA KillRight ==
  ASSUME NEW role, NEW s0 \in State, NEW b, NEW k, NEW av, Right(role, b, k, av, s0), k <= Len(b),
         b[k].op \in Spills, \A f \in Slots : f # b[k].fi => ~Overlap(av[f], b[k].reg)
  PROVE  Right(role, b, k + 1, [av EXCEPT ![b[k].fi] = NoReg], s0)
<1>. DEFINE mi == b[k]
            av2 == [av EXCEPT ![mi.fi] = NoReg]
<1>1. mi \in Instrs(role) /\ av \in Memory(role)
  BY HereFacts
<1>2. mi.op \in Spills /\ \A f \in Slots : f # mi.fi => ~Overlap(av[f], mi.reg)
  OBVIOUS
<1>. HIDE DEF mi
<1>3. mi.fi \in Slots /\ NoReg \in Kept /\ NoReg \notin Regs \cup Pairs
  BY <1>1, <1>2, OperandFacts, PartsFacts DEF Kept
<1>4. av2 \in Memory(role) /\ av2[mi.fi] = NoReg /\ \A f \in Slots : f # mi.fi => av2[f] = av[f]
  BY <1>1, <1>3, RememberFacts
<1>5. DefsOf(mi) = {} /\ Lost(mi) \subseteq Parts(mi.reg) /\ mi.op # "CALL"
  BY <1>2, DefsCases DEF Lost, Spills
<1>. HIDE DEF av2
<1>6. \A f \in Slots : av2[f] # NoReg =>
        /\ av2[f] = av[f]
        /\ Parts(av[f]) \cap (DefsOf(mi) \cup Lost(mi)) = {}
        /\ ~(Writes(mi) /\ f = mi.fi)
  BY <1>2, <1>4, <1>5 DEF Overlap
<1>. QED
  BY <1>4, <1>5, <1>6, CarryOver DEF mi, av2

LEMMA KeepRight ==
  ASSUME NEW role, NEW s0 \in State, NEW b, NEW k, NEW av, Right(role, b, k, av, s0), k <= Len(b),
         b[k].op \in Reloads, ~b[k].kill
  PROVE  Right(role, b, k + 1, [Invalidate(av, {b[k].reg}) EXCEPT ![b[k].fi] = b[k].reg], s0)
<1>. DEFINE mi == b[k]
            s == Trace(b, s0)[k - 1].s
            av1 == Invalidate(av, {mi.reg})
            av2 == [av1 EXCEPT ![mi.fi] = mi.reg]
<1>1. mi \in Instrs(role) /\ s \in State /\ av \in Memory(role)
  BY HereFacts
<1>2. mi.op \in Reloads /\ ~mi.kill
  OBVIOUS
<1>. HIDE DEF mi, s
<1>3. /\ mi.fi \in Slots /\ mi.reg \in Kept /\ mi.reg \in Regs \cup Pairs
      /\ mi.reg \in Regs => role[mi.fi] = "byte"
      /\ mi.reg \in Pairs => role[mi.fi] = "word"
  BY <1>1, <1>2, OperandFacts, PartsFacts DEF Kept
<1>4. av1 \in Memory(role) /\ \A f \in Slots : av1[f] # NoReg =>
        av1[f] = av[f] /\ Parts(av[f]) \cap Parts(mi.reg) = {}
  <2>1. {mi.reg} \in SUBSET (Regs \cup Pairs)
    BY <1>3
  <2>. QED
    BY <1>1, <2>1, InvalidateFacts
<1>. HIDE DEF av1
<1>5. av2 \in Memory(role) /\ av2[mi.fi] = mi.reg /\ \A f \in Slots : f # mi.fi => av2[f] = av1[f]
  BY <1>3, <1>4, RememberFacts
<1>6. SameValue(Meaning(s, mi), mi.reg, mi.fi)
  BY <1>1, <1>2, ReloadFacts
<1>7. DefsOf(mi) \cup Lost(mi) = Parts(mi.reg) /\ mi.op # "CALL" /\ ~Writes(mi)
  BY <1>2, DefsCases DEF Lost, Reloads, Writes, Spills, Stores
<1>. HIDE DEF av2
<1>8. \A f \in Slots : av2[f] # NoReg =>
        \/ /\ av2[f] = av[f]
           /\ Parts(av[f]) \cap (DefsOf(mi) \cup Lost(mi)) = {}
           /\ ~(Writes(mi) /\ f = mi.fi)
        \/ SameValue(Meaning(s, mi), av2[f], f)
  BY <1>4, <1>5, <1>6, <1>7
<1>. QED
  BY <1>5, <1>7, <1>8, CarryOver DEF mi, s, av2, av1

LEMMA CallRight ==
  ASSUME NEW role, NEW s0 \in State, NEW b, NEW k, NEW av, Right(role, b, k, av, s0), k <= Len(b)
  PROVE  Right(role, b, k + 1, NoAvail, s0)
<1>1. NoAvail \in Memory(role)
  BY PartsFacts DEF NoAvail, Memory, Kept
<1>2. Sound(Meaning(Trace(b, s0)[k - 1].s, b[k]), NoAvail)
  BY DEF NoAvail, Sound
<1>. QED
  BY <1>1, <1>2, Advance

LEMMA OtherRight ==
  ASSUME NEW role, NEW s0 \in State, NEW b, NEW k, NEW av, Right(role, b, k, av, s0), k <= Len(b),
         b[k].op \notin Spills \cup Reloads \cup {"CALL"},
         b[k].kill => \A f \in Slots : ~Overlap(av[f], b[k].reg)
  PROVE  Right(role, b, k + 1, Invalidate(av, DefsOf(b[k])), s0)
<1>. DEFINE mi == b[k]
            av2 == Invalidate(av, DefsOf(mi))
<1>1. mi \in Instrs(role) /\ av \in Memory(role)
  BY HereFacts
<1>2. /\ mi.op \notin Spills \cup Reloads \cup {"CALL"}
      /\ mi.kill => \A f \in Slots : ~Overlap(av[f], mi.reg)
  OBVIOUS
<1>. HIDE DEF mi
<1>3. DefsOf(mi) \subseteq Regs
  <2>1. mi.op \in Stores \cup Loads \cup {"LEA_FI", "MOV", "DEF", "USE"}
    BY <1>1, <1>2, OperandFacts
  <2>2. {"H", "L"} \subseteq Regs
    BY DEF Regs
  <2>3. mi.op \notin {"USE"} \cup Stores => Parts(mi.reg) \subseteq Regs
    BY <1>1, <2>1, OperandFacts, PartsFacts
  <2>. QED
    BY <2>1, <2>2, <2>3, DefsCases
<1>4. /\ av2 \in Memory(role)
      /\ \A f \in Slots : av2[f] # NoReg => av2[f] = av[f] /\ \A d \in DefsOf(mi) : Parts(av[f]) \cap Parts(d) = {}
  <2>1. DefsOf(mi) \in SUBSET (Regs \cup Pairs)
    BY <1>3
  <2>. QED
    BY <1>1, <2>1, InvalidateFacts
<1>5. Writes(mi) => role[mi.fi] = "program"
  BY <1>1, <1>2, OperandFacts DEF Writes
<1>. HIDE DEF av2
<1>6. ASSUME NEW f \in Slots, av2[f] # NoReg
      PROVE  /\ av2[f] = av[f]
             /\ Parts(av[f]) \cap (DefsOf(mi) \cup Lost(mi)) = {}
             /\ ~(Writes(mi) /\ f = mi.fi)
  <2>1. av2[f] = av[f] /\ av[f] # NoReg /\ role[f] # "program"
    BY <1>1, <1>4, <1>6, MemoryFacts
  <2>2. \A x \in DefsOf(mi) : x \notin Parts(av[f])
    BY <1>3, <1>4, <1>6, PartsFacts
  <2>3. \A x \in Lost(mi) : x \notin Parts(av[f])
    BY <1>2, <2>1 DEF Lost, Overlap
  <2>. QED
    BY <1>5, <2>1, <2>2, <2>3
<1>. QED
  BY <1>2, <1>4, <1>6, CarryOver DEF mi, av2

-----------------------------------------------------------------------------
(* The copies put d into the state its reload would have put it in.         *)
LEMMA RunCopy ==
  ASSUME NEW role, NEW c \in Seq(Instrs(role)), NEW s0 \in State, NEW i \in 1..Len(c),
         NEW d \in Regs, NEW r \in Regs, c[i] = Copy(d, r)
  PROVE  /\ Trace(c, s0)[i].s \in State
         /\ Trace(c, s0)[i].s.slot = Trace(c, s0)[i - 1].s.slot
         /\ Trace(c, s0)[i].s.reg[d] = Trace(c, s0)[i - 1].s.reg[r]
         /\ \A x \in Regs : x # d => Trace(c, s0)[i].s.reg[x] = Trace(c, s0)[i - 1].s.reg[x]
         /\ Trace(c, s0)[i].s.addr = Trace(c, s0)[i - 1].s.addr
         /\ Trace(c, s0)[i].out = Trace(c, s0)[i - 1].out
<1>. DEFINE x == Trace(c, s0)[i - 1]
<1>1. x.s \in State
  <2>1. i - 1 \in 0..Len(c)
    OBVIOUS
  <2>. QED
    BY <2>1, TraceType
<1>2. Trace(c, s0)[i] = After(x, Copy(d, r))
  <2>1. Len(c) \in Nat
    OBVIOUS
  <2>. QED
    BY <2>1, TraceRuns
<1>. HIDE DEF x
<1>3. After(x, Copy(d, r)).s = Meaning(x.s, Copy(d, r)) /\ After(x, Copy(d, r)).out = x.out
  BY DEF After, Copy
<1>4. Copy(d, r) \in Instrs(role)
  BY CopyFacts
<1>5. Meaning(x.s, Copy(d, r)).addr = x.s.addr
  BY <1>1, <1>4, MeaningFacts
<1>6. /\ Meaning(x.s, Copy(d, r)) \in State
      /\ Meaning(x.s, Copy(d, r)).slot = x.s.slot
      /\ Meaning(x.s, Copy(d, r)).reg[d] = x.s.reg[r]
      /\ \A y \in Regs : y # d => Meaning(x.s, Copy(d, r)).reg[y] = x.s.reg[y]
  BY <1>1, CopyFacts
<1>. QED
  BY <1>2, <1>3, <1>5, <1>6 DEF x

LEMMA CopiesType ==
  ASSUME NEW role, NEW d, NEW r, (d \in Regs /\ r \in Regs) \/ (d \in Pairs /\ r \in Pairs)
  PROVE  /\ Copies(d, r) \in Seq(Instrs(role))
         /\ d = r => Copies(d, r) = <<>> /\ Len(Copies(d, r)) = 0
         /\ d # r /\ d \in Regs => Len(Copies(d, r)) = 1 /\ Copies(d, r)[1] = Copy(d, r)
         /\ d # r /\ d \in Pairs => /\ Len(Copies(d, r)) = 2
                                    /\ Copies(d, r)[1] = Copy(Lo[d], Lo[r])
                                    /\ Copies(d, r)[2] = Copy(Hi[d], Hi[r])
<1>1. CASE d = r
  BY <1>1 DEF Copies
<1>2. CASE d # r /\ d \in Regs
  <2>1. r \in Regs /\ d \notin Pairs
    BY <1>2, PartsFacts
  <2>2. Copy(d, r) \in Instrs(role)
    BY <1>2, <2>1, CopyFacts
  <2>3. Copies(d, r) = <<Copy(d, r)>>
    BY <1>2, <2>1 DEF Copies
  <2>. QED
    BY <1>2, <2>1, <2>2, <2>3
<1>3. CASE d # r /\ d \in Pairs
  <2>1. r \in Pairs /\ d \notin Regs
    BY <1>3, PartsFacts
  <2>2. Copy(Lo[d], Lo[r]) \in Instrs(role) /\ Copy(Hi[d], Hi[r]) \in Instrs(role)
    BY <1>3, <2>1, CopyFacts, PartsFacts
  <2>3. Copies(d, r) = <<Copy(Lo[d], Lo[r]), Copy(Hi[d], Hi[r])>>
    BY <1>3 DEF Copies
  <2>. QED
    BY <1>3, <2>1, <2>2, <2>3
<1>. QED
  BY <1>1, <1>2, <1>3

(* t is s with the value of r in d.                                         *)
Moved(s, t, d, r) ==
  /\ t.slot = s.slot /\ t.addr = s.addr
  /\ \A x \in Regs : x \notin Parts(d) => t.reg[x] = s.reg[x]
  /\ d \in Pairs => t.reg[Hi[d]] = s.reg[Hi[r]] /\ t.reg[Lo[d]] = s.reg[Lo[r]]
  /\ d \in Regs => t.reg[d] = s.reg[r]

(* The block with those copies for instruction k, and how many instructions *)
(* have run behind them.                                                    *)
Spliced(b, k, d, r) == Replace(b, k, Copies(d, r))
Resumed(k, d, r) == k - 1 + Len(Copies(d, r))

LEMMA CopiesRun ==
  ASSUME NEW role, NEW b \in Seq(Instrs(role)), NEW k \in 1..Len(b), NEW s0 \in State,
         NEW d, NEW r, (d \in Regs /\ r \in Regs) \/ (d \in Pairs /\ r \in Pairs)
  PROVE  LET c == Spliced(b, k, d, r)
             n == Resumed(k, d, r)
         IN /\ c \in Seq(Instrs(role)) /\ n \in Nat /\ k - 1 <= n /\ n <= Len(c)
            /\ Len(c) - n = Len(b) - k
            /\ \A i \in 1..k - 1 : c[i] = b[i]
            /\ \A i \in k + 1..Len(b) : c[i - k + n] = b[i]
            /\ Trace(c, s0)[k - 1] = Trace(b, s0)[k - 1]
            /\ Trace(c, s0)[n].s \in State
            /\ Moved(Trace(b, s0)[k - 1].s, Trace(c, s0)[n].s, d, r)
            /\ Trace(c, s0)[n].out = Trace(b, s0)[k - 1].out
<1>. DEFINE q == Copies(d, r)
            c == Spliced(b, k, d, r)
            n == Resumed(k, d, r)
<1>0. /\ q \in Seq(Instrs(role))
      /\ d = r => Len(q) = 0
      /\ d # r /\ d \in Regs => Len(q) = 1 /\ q[1] = Copy(d, r)
      /\ d # r /\ d \in Pairs => Len(q) = 2 /\ q[1] = Copy(Lo[d], Lo[r]) /\ q[2] = Copy(Hi[d], Hi[r])
  BY CopiesType
<1>1. c = Replace(b, k, q) /\ n = k - 1 + Len(q)
  BY DEF Spliced, Resumed
<1>. HIDE DEF q, c, n
<1>2. /\ c \in Seq(Instrs(role)) /\ Len(c) = Len(b) - 1 + Len(q)
      /\ \A i \in 1..k - 1 : c[i] = b[i]
      /\ \A i \in 1..Len(q) : c[k - 1 + i] = q[i]
      /\ \A i \in k + 1..Len(b) : c[i - 1 + Len(q)] = b[i]
  <2>1. ASSUME NEW y \in Seq(Instrs(role))
        PROVE  /\ Replace(b, k, y) \in Seq(Instrs(role))
               /\ Len(Replace(b, k, y)) = Len(b) - 1 + Len(y)
               /\ \A i \in 1..k - 1 : Replace(b, k, y)[i] = b[i]
               /\ \A i \in 1..Len(y) : Replace(b, k, y)[k - 1 + i] = y[i]
               /\ \A i \in k + 1..Len(b) : Replace(b, k, y)[i - 1 + Len(y)] = b[i]
    BY ReplaceFacts
  <2>2. q \in Seq(Instrs(role))
    BY <1>0
  <2>3. /\ Replace(b, k, q) \in Seq(Instrs(role))
        /\ Len(Replace(b, k, q)) = Len(b) - 1 + Len(q)
        /\ \A i \in 1..k - 1 : Replace(b, k, q)[i] = b[i]
        /\ \A i \in 1..Len(q) : Replace(b, k, q)[k - 1 + i] = q[i]
        /\ \A i \in k + 1..Len(b) : Replace(b, k, q)[i - 1 + Len(q)] = b[i]
    BY <2>1, <2>2, Zenon
  <2>. QED
    BY <1>1, <2>3
<1>3. /\ Len(q) \in Nat /\ Len(b) \in Nat /\ Len(c) \in Nat
      /\ n \in Nat /\ k - 1 <= n /\ n <= Len(c) /\ Len(c) - n = Len(b) - k
      /\ \A i \in k + 1..Len(b) : i - k + n = i - 1 + Len(q)
  <2>1. Len(q) \in Nat /\ Len(b) \in Nat /\ Len(c) \in Nat
    BY <1>0, <1>2
  <2>2. n = k - 1 + Len(q) /\ Len(c) = Len(b) - 1 + Len(q)
    BY <1>1, <1>2
  <2>. QED
    BY <2>1, <2>2
<1>4. Trace(c, s0)[k - 1] = Trace(b, s0)[k - 1]
  <2>1. Len(b) \in Nat /\ Len(c) \in Nat
        /\ k - 1 \in Nat /\ k - 1 <= Len(b) /\ k - 1 <= Len(c) /\ k - 1 \in 0..k - 1
    BY <1>3
  <2>2. \A i \in 1..k - 1 : c[i] = b[i]
    BY <1>2
  <2>. QED
    BY <2>1, <2>2, SameStart
<1>5. Trace(c, s0)[n].s \in State
  BY <1>2, <1>3, TraceType
<1>6. Moved(Trace(c, s0)[k - 1].s, Trace(c, s0)[n].s, d, r) /\ Trace(c, s0)[n].out = Trace(c, s0)[k - 1].out
  <2>1. CASE d = r
    <3>1. n = k - 1
      BY <1>0, <1>1, <2>1
    <3>. QED
      BY <2>1, <3>1 DEF Moved
  <2>2. CASE d # r /\ d \in Regs
    <3>1. n = k /\ k \in 1..Len(c) /\ c[k] = Copy(d, r) /\ r \in Regs
      <4>1. Len(q) = 1 /\ q[1] = Copy(d, r)
        BY <1>0, <2>2
      <4>2. k - 1 + 1 = k /\ 1 \in 1..Len(q)
        BY <4>1
      <4>3. c[k - 1 + 1] = q[1]
        BY <1>2, <4>2
      <4>4. r \in Regs
        BY <2>2, PartsFacts
      <4>5. n = k /\ k \in 1..Len(c)
        BY <1>1, <1>3, <4>1
      <4>. QED
        BY <4>1, <4>2, <4>3, <4>4, <4>5
    <3>2. /\ Trace(c, s0)[k].s.slot = Trace(c, s0)[k - 1].s.slot
          /\ Trace(c, s0)[k].s.reg[d] = Trace(c, s0)[k - 1].s.reg[r]
          /\ \A x \in Regs : x # d => Trace(c, s0)[k].s.reg[x] = Trace(c, s0)[k - 1].s.reg[x]
          /\ Trace(c, s0)[k].s.addr = Trace(c, s0)[k - 1].s.addr
          /\ Trace(c, s0)[k].out = Trace(c, s0)[k - 1].out
      BY <1>2, <2>2, <3>1, RunCopy
    <3>3. Parts(d) = {d} /\ d \notin Pairs
      BY <2>2, PartsFacts
    <3>. QED
      BY <3>1, <3>2, <3>3 DEF Moved
  <2>3. CASE d # r /\ d \in Pairs
    <3>1. r \in Pairs /\ d \notin Regs /\ Parts(d) = {Hi[d], Lo[d]} /\ Hi[d] # Lo[d]
          /\ {Hi[d], Lo[d], Hi[r], Lo[r]} \subseteq Regs
      BY <2>3, PartsFacts
    <3>2. Hi[r] # Lo[d]
      BY <2>3, <3>1 DEF Pairs, Hi, Lo
    <3>3. /\ n = k + 1 /\ k \in 1..Len(c) /\ k + 1 \in 1..Len(c) /\ k + 1 - 1 = k
          /\ c[k] = Copy(Lo[d], Lo[r]) /\ c[k + 1] = Copy(Hi[d], Hi[r])
      <4>1. Len(q) = 2 /\ q[1] = Copy(Lo[d], Lo[r]) /\ q[2] = Copy(Hi[d], Hi[r])
        BY <1>0, <2>3
      <4>2. k - 1 + 1 = k /\ k - 1 + 2 = k + 1
        OBVIOUS
      <4>3. c[k - 1 + 1] = q[1] /\ c[k - 1 + 2] = q[2]
        BY <1>2, <4>1
      <4>. QED
        BY <1>1, <1>2, <1>3, <4>1, <4>2, <4>3
    <3>. DEFINE s1 == Trace(c, s0)[k - 1]
                s2 == Trace(c, s0)[k]
                s3 == Trace(c, s0)[k + 1]
    <3>4. /\ s2.s.slot = s1.s.slot /\ s2.s.reg[Lo[d]] = s1.s.reg[Lo[r]]
          /\ \A x \in Regs : x # Lo[d] => s2.s.reg[x] = s1.s.reg[x]
          /\ s2.s.addr = s1.s.addr /\ s2.out = s1.out
      <4>1. c \in Seq(Instrs(role)) /\ Lo[d] \in Regs /\ Lo[r] \in Regs
        BY <1>2, <3>1
      <4>2. k \in 1..Len(c) /\ c[k] = Copy(Lo[d], Lo[r])
        BY <3>3
      <4>. QED
        BY <4>1, <4>2, RunCopy
    <3>5. /\ s3.s.slot = s2.s.slot /\ s3.s.reg[Hi[d]] = s2.s.reg[Hi[r]]
          /\ \A x \in Regs : x # Hi[d] => s3.s.reg[x] = s2.s.reg[x]
          /\ s3.s.addr = s2.s.addr /\ s3.out = s2.out
      <4>1. /\ s3.s.slot = Trace(c, s0)[k + 1 - 1].s.slot
            /\ s3.s.reg[Hi[d]] = Trace(c, s0)[k + 1 - 1].s.reg[Hi[r]]
            /\ \A x \in Regs : x # Hi[d] => s3.s.reg[x] = Trace(c, s0)[k + 1 - 1].s.reg[x]
            /\ s3.s.addr = Trace(c, s0)[k + 1 - 1].s.addr
            /\ s3.out = Trace(c, s0)[k + 1 - 1].out
        <5>1. c \in Seq(Instrs(role)) /\ Hi[d] \in Regs /\ Hi[r] \in Regs
          BY <1>2, <3>1
        <5>2. k + 1 \in 1..Len(c) /\ c[k + 1] = Copy(Hi[d], Hi[r])
          BY <3>3
        <5>. QED
          BY <5>1, <5>2, RunCopy
      <4>. QED
        BY <3>3, <4>1
    <3>6. Trace(c, s0)[n] = s3
      BY <3>3
    <3>. HIDE DEF s1, s2, s3
    <3>7. Moved(s1.s, s3.s, d, r) /\ s3.out = s1.out
      BY <3>1, <3>2, <3>4, <3>5 DEF Moved
    <3>. QED
      BY <3>6, <3>7 DEF s1
  <2>. QED
    BY <2>1, <2>2, <2>3
<1>. QED
  BY <1>2, <1>3, <1>4, <1>5, <1>6 DEF c, n

LEMMA ForwardRight ==
  ASSUME NEW role, NEW s0 \in State, NEW b, NEW k, NEW av, Right(role, b, k, av, s0), k <= Len(b),
         b[k].op \in Reloads, NEW r, r = av[b[k].fi], r # NoReg, NEW d, d = b[k].reg
  PROVE  Right(role, Replace(b, k, Copies(d, r)), k + Len(Copies(d, r)),
               IF r = d THEN av ELSE Invalidate(av, {d}), s0)
<1>. DEFINE mi == b[k]
            s == Trace(b, s0)[k - 1].s
            c == Spliced(b, k, d, r)
            n == Resumed(k, d, r)
            av2 == IF r = d THEN av ELSE Invalidate(av, {d})
<1>1. /\ b \in Seq(Instrs(role)) /\ k \in 1..Len(b) /\ mi \in Instrs(role)
      /\ s \in State /\ av \in Memory(role) /\ Sound(s, av)
  BY HereFacts
<1>2. mi.op \in Reloads /\ r = av[mi.fi] /\ d = mi.reg
  OBVIOUS
<1>. HIDE DEF mi
<1>3. (d \in Regs /\ r \in Regs) \/ (d \in Pairs /\ r \in Pairs)
  <2>1. /\ mi.fi \in Slots /\ role[mi.fi] \in {"byte", "word"}
        /\ role[mi.fi] = "byte" => mi.reg \in Regs
        /\ role[mi.fi] = "word" => mi.reg \in Pairs
    BY <1>1, <1>2, OperandFacts
  <2>2. /\ r \in Regs \cup Pairs
        /\ r \in Regs => role[mi.fi] = "byte"
        /\ r \in Pairs => role[mi.fi] = "word"
    BY <1>1, <1>2, <2>1 DEF Memory, Kept
  <2>. QED
    BY <1>2, <2>1, <2>2
<1>4. /\ c \in Seq(Instrs(role)) /\ n \in Nat /\ n <= Len(c)
      /\ Trace(c, s0)[n].s \in State /\ Moved(s, Trace(c, s0)[n].s, d, r)
  BY <1>1, <1>3, CopiesRun
<1>5. /\ av2 \in Memory(role)
      /\ \A f \in Slots : av2[f] # NoReg => av2[f] = av[f] /\ (r = d \/ Parts(av[f]) \cap Parts(d) = {})
  <2>1. CASE r = d
    BY <1>1, <2>1
  <2>2. CASE r # d
    <3>1. {d} \in SUBSET (Regs \cup Pairs)
      BY <1>3
    <3>2. Invalidate(av, {d}) \in Memory(role)
          /\ \A f \in Slots : Invalidate(av, {d})[f] # NoReg =>
               Invalidate(av, {d})[f] = av[f] /\ Parts(av[f]) \cap Parts(d) = {}
      BY <1>1, <3>1, InvalidateFacts
    <3>. QED
      BY <2>2, <3>2
  <2>. QED
    BY <2>1, <2>2
<1>. DEFINE t == Trace(c, s0)[n].s
<1>. HIDE DEF c, n, s, av2, t
<1>6. ASSUME NEW f \in Slots, av2[f] # NoReg
      PROVE  SameValue(t, av2[f], f)
  <2>1. av2[f] = av[f] /\ av[f] \in Regs \cup Pairs /\ SameValue(s, av[f], f)
    BY <1>1, <1>5, <1>6, MemoryFacts DEF Sound
  <2>2. t \in State /\ Moved(s, t, d, r)
    BY <1>4 DEF t
  <2>3. \A x \in Parts(av[f]) : t.reg[x] = s.reg[x]
    <3>1. Parts(av[f]) \subseteq Regs
      BY <2>1, PartsFacts
    <3>2. CASE r = d
      BY <1>3, <2>2, <3>1, <3>2, PartsFacts DEF Moved
    <3>3. CASE Parts(av[f]) \cap Parts(d) = {}
      BY <2>2, <3>1, <3>3 DEF Moved
    <3>. QED
      BY <1>5, <1>6, <3>2, <3>3
  <2>4. t.slot[f] = s.slot[f]
    BY <2>2 DEF Moved
  <2>. QED
    BY <1>1, <2>1, <2>2, <2>3, <2>4, SameValueKept
<1>7. Sound(t, av2)
  BY <1>6 DEF Sound
<1>8. n + 1 \in 1..Len(c) + 1 /\ n + 1 - 1 = n
  <2>1. Len(c) \in Nat
    BY <1>4
  <2>. QED
    BY <1>4, <2>1
<1>9. Right(role, c, n + 1, av2, s0)
  BY <1>4, <1>5, <1>7, <1>8 DEF Right, t
<1>10. n + 1 = k + Len(Copies(d, r))
  <2>1. Len(Copies(d, r)) \in Nat
    BY <1>3, CopiesType
  <2>. QED
    BY <1>1, <2>1 DEF n, Resumed
<1>. QED
  BY <1>9, <1>10 DEF c, Spliced, av2

(* A killing spill and the reload after it: the spill no longer kills.      *)
Unkilled(b, k) == [b EXCEPT ![k].kill = FALSE]

LEMMA UnkilledFacts ==
  ASSUME NEW role, NEW b \in Seq(Instrs(role)), NEW k \in 1..Len(b), b[k].op \in Spills
  PROVE  /\ Unkilled(b, k) \in Seq(Instrs(role)) /\ Len(Unkilled(b, k)) = Len(b)
         /\ \A i \in 1..Len(b) : i # k => Unkilled(b, k)[i] = b[i]
         /\ Unkilled(b, k)[k].op = b[k].op /\ Unkilled(b, k)[k].reg = b[k].reg
         /\ Unkilled(b, k)[k].fi = b[k].fi /\ Unkilled(b, k)[k].kill = FALSE
<1>. DEFINE mi == b[k]
            mk == [mi EXCEPT !.kill = FALSE]
            u == [b EXCEPT ![k] = mk]
<1>1. mi \in Instrs(role) /\ mi.op \in Spills
  OBVIOUS
<1>. HIDE DEF mi
<1>2. mi \in Pseudo /\ Operands(mi, role)
  BY <1>1 DEF Instrs
<1>3. mk.op = mi.op /\ mk.reg = mi.reg /\ mk.fi = mi.fi /\ mk.kill = FALSE /\ mk \in Pseudo
  BY <1>2 DEF Pseudo
<1>. HIDE DEF mk
<1>4. Operands(mk, role)
  BY <1>1, <1>2, <1>3 DEF Operands, Spills
<1>5. mk \in Instrs(role)
  BY <1>3, <1>4 DEF Instrs
<1>6. u \in Seq(Instrs(role)) /\ Len(u) = Len(b) /\ u[k] = mk /\ \A i \in 1..Len(b) : i # k => u[i] = b[i]
  <2>1. u \in Seq(Instrs(role)) /\ Len(u) = Len(b)
    BY <1>5
  <2>2. u[k] = mk
    BY <1>5
  <2>3. \A i \in 1..Len(b) : i # k => u[i] = b[i]
    BY <1>5
  <2>. QED
    BY <2>1, <2>2, <2>3
<1>7. u = Unkilled(b, k)
  BY DEF Unkilled, u, mk, mi
<1>. HIDE DEF u
<1>8. u[k].op = b[k].op /\ u[k].reg = b[k].reg /\ u[k].fi = b[k].fi /\ u[k].kill = FALSE
  BY <1>3, <1>6 DEF mi
<1>. QED
  BY <1>6, <1>7, <1>8

LEMMA CopiesBehind ==
  ASSUME NEW role, NEW b \in Seq(Instrs(role)), NEW j \in 1..Len(b), NEW q \in Seq(Instrs(role))
  PROVE  /\ Replace(b, j, q) \in Seq(Instrs(role)) /\ j - 1 <= Len(Replace(b, j, q))
         /\ \A i \in 1..j - 1 : Replace(b, j, q)[i] = b[i]
<1>. DEFINE c == Replace(b, j, q)
<1>1. /\ c \in Seq(Instrs(role)) /\ Len(c) = Len(b) - 1 + Len(q)
      /\ \A i \in 1..j - 1 : c[i] = b[i]
  BY ReplaceFacts
<1>2. Len(b) \in Nat /\ Len(q) \in Nat
  OBVIOUS
<1>. QED
  BY <1>1, <1>2

LEMMA KilledRight ==
  ASSUME NEW role, NEW s0 \in State, NEW b, NEW k, NEW av, Right(role, b, k, av, s0), k < Len(b),
         b[k].op \in Spills, b[k + 1].op \in Reloads, b[k + 1].fi = b[k].fi,
         NEW d, d = b[k + 1].reg, NEW u \in Seq(Instrs(role)), Len(u) = Len(b),
         \A i \in 1..Len(b) : i # k => u[i] = b[i],
         u[k].op = b[k].op, u[k].reg = b[k].reg, u[k].fi = b[k].fi, u[k].kill = FALSE,
         NEW av1, av1 = IF d = b[k].reg THEN av ELSE Invalidate(av, {d})
  PROVE  Right(role, Replace(u, k + 1, Copies(d, b[k].reg)), k + 1, [av1 EXCEPT ![b[k].fi] = b[k].reg], s0)
<1>. DEFINE r == b[k].reg
            fi == b[k].fi
            c == Replace(u, k + 1, Copies(d, r))
            av2 == [av1 EXCEPT ![fi] = r]
<1>1. /\ b \in Seq(Instrs(role)) /\ k \in 1..Len(b) /\ b[k] \in Instrs(role) /\ av \in Memory(role)
      /\ Len(b) \in Nat /\ k + 1 \in 1..Len(b)
  <2>1. b \in Seq(Instrs(role)) /\ k \in 1..Len(b) + 1 /\ Len(b) \in Nat
    BY DEF Right
  <2>2. k <= Len(b)
    BY <2>1
  <2>. QED
    BY <2>1, <2>2, HereFacts
<1>2. /\ u \in Seq(Instrs(role)) /\ Len(u) = Len(b)
      /\ \A i \in 1..Len(b) : i # k => u[i] = b[i]
      /\ u[k].op \in Spills /\ u[k].reg = r /\ u[k].fi = fi /\ ~u[k].kill
  OBVIOUS
<1>3. (d \in Regs /\ r \in Regs) \/ (d \in Pairs /\ r \in Pairs)
  <2>1. b[k + 1] \in Instrs(role) /\ b[k + 1].op \in Reloads /\ b[k + 1].fi = fi /\ b[k + 1].reg = d
    BY <1>1
  <2>2. /\ role[fi] = "byte" => d \in Regs
        /\ role[fi] = "word" => d \in Pairs
    BY <2>1, OperandFacts
  <2>3. b[k] \in Instrs(role) /\ b[k].op \in Spills
    BY <1>1
  <2>4. /\ role[fi] \in {"byte", "word"}
        /\ role[fi] = "byte" => r \in Regs
        /\ role[fi] = "word" => r \in Pairs
    BY <2>3, OperandFacts
  <2>. QED
    BY <2>2, <2>4
<1>4. av1 \in Memory(role) /\ \A f \in Slots : av1[f] # NoReg => av1[f] = av[f]
  <2>1. {d} \in SUBSET (Regs \cup Pairs)
    BY <1>3
  <2>2. Invalidate(av, {d}) \in Memory(role)
        /\ \A f \in Slots : Invalidate(av, {d})[f] # NoReg => Invalidate(av, {d})[f] = av[f]
    BY <1>1, <2>1, InvalidateFacts
  <2>. QED
    BY <1>1, <2>2
<1>. HIDE DEF r, fi
<1>5. Right(role, u, k, av, s0)
  <2>1. k - 1 <= Len(u) /\ \A i \in 1..k - 1 : u[i] = b[i]
    BY <1>1, <1>2
  <2>. QED
    BY <1>2, <2>1, Ahead
<1>6. Right(role, u, k, av1, s0)
  BY <1>4, <1>5, Forget
<1>7. Right(role, u, k + 1, av2, s0)
  <2>1. k <= Len(u)
    BY <1>1, <1>2
  <2>2. Right(role, u, k + 1, [av1 EXCEPT ![u[k].fi] = u[k].reg], s0)
    BY <1>2, <1>6, <2>1, SpillRight
  <2>. QED
    BY <1>2, <2>2
<1>. HIDE DEF av2
<1>8. PICK j : j = k + 1
  OBVIOUS
<1>9. c = Replace(u, j, Copies(d, r)) /\ Right(role, u, j, av2, s0) /\ j \in 1..Len(u)
  BY <1>1, <1>2, <1>7, <1>8
<1>. HIDE DEF c
<1>10. c \in Seq(Instrs(role)) /\ j - 1 <= Len(c) /\ \A i \in 1..j - 1 : c[i] = u[i]
  <2>1. Copies(d, r) \in Seq(Instrs(role))
    BY <1>3, CopiesType
  <2>2. ASSUME NEW q \in Seq(Instrs(role))
        PROVE  /\ Replace(u, j, q) \in Seq(Instrs(role)) /\ j - 1 <= Len(Replace(u, j, q))
               /\ \A i \in 1..j - 1 : Replace(u, j, q)[i] = u[i]
    BY <1>2, <1>9, CopiesBehind
  <2>. QED
    BY <1>9, <2>1, <2>2, Zenon
<1>11. Right(role, c, j, av2, s0)
  BY <1>9, <1>10, Ahead
<1>. QED
  BY <1>8, <1>11 DEF c, av2, r, fi

-----------------------------------------------------------------------------
(* A register is killed only where the walk remembers no other slot in it.  *)
(* (A killing spill makes the walk forget its own slot, not another one     *)
(* that has the same register.)                                             *)
KillsForgotten ==
  Walking /\ MI.kill /\ MI.op \notin Reloads /\ ~(MI.op \in Spills /\ ReloadedNext) =>
    \A f \in Slots : Overlap(Avail[f], MI.reg) => MI.op \in Spills /\ f = MI.fi

(* The inductive invariant: the instructions ahead and behind are proper,   *)
(* and what the walk remembers is so and fits the slots.                    *)
WalkInv == walk # 0 => \E role \in [Slots -> Roles] : Right(role, mbb, walk, Avail, AbstractAtStart)

LEMMA StartType == AbstractAtStart \in State
<1>1. \A fi \in Slots : SlotAddr(fi) \in Addr /\ SlotAddr(fi) + 1 \in Addr
  <2>1. \A fi \in Slots : fi \in Nat /\ fi # 0 /\ Offset(fi) \in Nat
    BY SlotsAssumption DEF Offset
  <2>2. ASSUME NEW fi \in Slots, NEW base \in {GVBase, SP0}
        PROVE  base + Offset(fi) \in Addr /\ base + Offset(fi) + 1 \in Addr
    <3>1. base \in Nat /\ base + Offset(fi) + 1 \in Addr /\ Offset(fi) \in Nat
      BY <2>1, SlotsAssumption
    <3>. DEFINE n == ByteSize * ByteSize - 1
                o == Offset(fi)
    <3>2. n \in Int /\ Addr = 0..n
      BY ByteSizeAssumption DEF Addr
    <3>. HIDE DEF n, o
    <3>3. base + o + 1 \in 0..n /\ base \in Nat /\ o \in Nat
      BY <3>1, <3>2 DEF o
    <3>4. base + o \in 0..n
      BY <3>2, <3>3
    <3>. QED
      BY <3>2, <3>3, <3>4 DEF o
  <2>. QED
    BY <2>2 DEF SlotAddr
<1>2. \A x \in Addr : MemAtStart[x] \in Int /\ x \in Int
  BY ByteSizeAssumption DEF MemAtStart, Addr
<1>3. [r \in Regs |-> RegNumber[r]] \in [Regs -> Values]
  BY DEF Regs, RegNumber, Values
<1>4. [fi \in Slots |-> [hi |-> MemAtStart[SlotAddr(fi) + 1], lo |-> MemAtStart[SlotAddr(fi)]]] \in [Slots -> Slot]
  BY <1>1, <1>2 DEF Slot, Values
<1>5. [fi \in Slots |-> SlotAddr(fi)] \in [Slots -> Int]
  BY <1>1, <1>2
<1>. QED
  BY <1>3, <1>4, <1>5 DEF AbstractAtStart, State

LEMMA StartKept ==
  ASSUME frame' = frame
  PROVE  AbstractAtStart' = AbstractAtStart
BY DEF AbstractAtStart, SlotAddr

LEMMA WalkStarts == Init => WalkInv
<1>. SUFFICES ASSUME Init PROVE WalkInv
  OBVIOUS
<1>1. PICK in \in Inputs : mbb = in.mbb
  BY DEF Init, ElimInit
<1>2. PICK role \in [Slots -> Roles] : mbb \in Seq(Instrs(role))
  BY <1>1, InputsAssumption DEF Instrs
<1>3. walk = 1 /\ Avail = NoAvail
  BY DEF Init
<1>4. Len(mbb) \in Nat /\ 1 \in 1..Len(mbb) + 1
  BY <1>2
<1>5. NoAvail \in Memory(role) /\ Sound(Trace(mbb, AbstractAtStart)[1 - 1].s, NoAvail)
  BY PartsFacts DEF NoAvail, Memory, Kept, Sound
<1>6. Right(role, mbb, walk, Avail, AbstractAtStart)
  BY <1>2, <1>3, <1>4, <1>5 DEF Right
<1>. QED
  BY <1>6 DEF WalkInv

(* Every step of the walk: one step of this proof for each of its actions.  *)
LEMMA WalkGoesOn ==
  ASSUME NEW role, Right(role, mbb, walk, Avail, AbstractAtStart), KillsForgotten, Forward, ~WalkDone
  PROVE  Right(role, mbb', walk', Avail', AbstractAtStart)
<1>. DEFINE s0 == AbstractAtStart
<1>0. s0 \in State
  BY StartType
<1>1. ASSUME NEW b, NEW k, NEW av, Walk(b, k, av), Right(role, b, k, av, s0)
      PROVE  Right(role, mbb', walk', Avail', s0)
  BY <1>1 DEF Walk
<1>2. mbb \in Seq(Instrs(role)) /\ walk \in 1..Len(mbb) + 1 /\ Len(mbb) \in Nat
  BY DEF Right
<1>3. Walking => walk <= Len(mbb) /\ mbb[walk] \in Instrs(role)
  BY <1>2 DEF Walking
<1>. HIDE DEF s0
<1>4. Right(role, mbb, walk, Avail, s0)
  BY DEF s0
<1>5. CASE EraseSpill \/ EraseDeadReload
  <2>1. Walk(Replace(mbb, walk, <<>>), walk, Avail) /\ Walking
    BY <1>5 DEF EraseSpill, EraseDeadReload
  <2>2. Right(role, Replace(mbb, walk, <<>>), walk, Avail, s0)
    BY <1>0, <1>3, <1>4, <2>1, EraseRight
  <2>. QED
    BY <1>1, <2>1, <2>2 DEF s0
<1>6. CASE RecordSpill
  <2>1. Walk(mbb, walk + 1, [Avail EXCEPT ![mbb[walk].fi] = mbb[walk].reg])
        /\ Walking /\ mbb[walk].op \in Spills /\ ~mbb[walk].kill
    BY <1>6 DEF RecordSpill, MI
  <2>2. Right(role, mbb, walk + 1, [Avail EXCEPT ![mbb[walk].fi] = mbb[walk].reg], s0)
    BY <1>0, <1>3, <1>4, <2>1, SpillRight
  <2>. QED
    BY <1>1, <2>1, <2>2 DEF s0
<1>7. CASE ForwardKilled
  <2>0. walk \in 1..Len(mbb) /\ mbb[walk].op \in Spills
    BY <1>7 DEF ForwardKilled, MI, Walking
  <2>. DEFINE u == Unkilled(mbb, walk)
  <2>3. /\ u \in Seq(Instrs(role)) /\ Len(u) = Len(mbb)
        /\ \A i \in 1..Len(mbb) : i # walk => u[i] = mbb[i]
        /\ u[walk].op = mbb[walk].op /\ u[walk].reg = mbb[walk].reg
        /\ u[walk].fi = mbb[walk].fi /\ u[walk].kill = FALSE
    BY <1>2, <2>0, UnkilledFacts
  <2>. DEFINE d == mbb[walk + 1].reg
              av1 == IF d = mbb[walk].reg THEN Avail ELSE Invalidate(Avail, {d})
              c == Replace(u, walk + 1, Copies(d, mbb[walk].reg))
              av2 == [av1 EXCEPT ![mbb[walk].fi] = mbb[walk].reg]
  <2>. HIDE DEF u
  <2>1. Walk(c, walk + 1, av2)
    BY <1>7 DEF ForwardKilled, MI, Unkilled, u
  <2>2. /\ mbb[walk].op \in Spills /\ walk < Len(mbb)
        /\ mbb[walk + 1].op \in Reloads /\ mbb[walk + 1].fi = mbb[walk].fi
    BY <1>7 DEF ForwardKilled, MI, ReloadedNext
  <2>4. Right(role, c, walk + 1, av2, s0)
    BY <1>0, <1>4, <2>2, <2>3, KilledRight
  <2>. HIDE DEF c, av2
  <2>. QED
    BY <1>1, <2>1, <2>4 DEF s0
<1>8. CASE KillSpill
  <2>. DEFINE mi == mbb[walk]
  <2>1. Walk(mbb, walk + 1, [Avail EXCEPT ![mi.fi] = NoReg]) /\ Walking
        /\ mi.op \in Spills /\ mi.kill /\ ~ReloadedNext
    BY <1>8 DEF KillSpill, MI
  <2>2. \A f \in Slots : f # mi.fi => ~Overlap(Avail[f], mi.reg)
    <3>1. mi.op \notin Reloads
      BY <2>1 DEF Spills, Reloads
    <3>. QED
      BY <2>1, <3>1 DEF KillsForgotten, MI
  <2>3. Right(role, mbb, walk + 1, [Avail EXCEPT ![mi.fi] = NoReg], s0)
    BY <1>0, <1>3, <1>4, <2>1, <2>2, KillRight
  <2>. QED
    BY <1>1, <2>1, <2>3 DEF s0
<1>9. CASE ForwardReload
  <2>. DEFINE mi == mbb[walk]
              r == Avail[mi.fi]
              c == Replace(mbb, walk, Copies(mi.reg, r))
              n == walk + Len(Copies(mi.reg, r))
              av2 == IF r = mi.reg THEN Avail ELSE Invalidate(Avail, {mi.reg})
  <2>1. Walk(c, n, av2) /\ Walking /\ mi.op \in Reloads /\ r # NoReg
    BY <1>9 DEF ForwardReload, MI
  <2>2. Right(role, c, n, av2, s0)
    BY <1>0, <1>3, <1>4, <2>1, ForwardRight
  <2>. HIDE DEF c, n, av2
  <2>. QED
    BY <1>1, <2>1, <2>2 DEF s0
<1>10. CASE KeepReload
  <2>. DEFINE mi == mbb[walk]
              av2 == [Invalidate(Avail, {mi.reg}) EXCEPT ![mi.fi] = mi.reg]
  <2>1. Walk(mbb, walk + 1, av2) /\ Walking /\ mi.op \in Reloads /\ ~mi.kill
    BY <1>10 DEF KeepReload, MI
  <2>2. Right(role, mbb, walk + 1, av2, s0)
    BY <1>0, <1>3, <1>4, <2>1, KeepRight
  <2>. HIDE DEF av2
  <2>. QED
    BY <1>1, <2>1, <2>2 DEF s0
<1>11. CASE AtCall
  <2>1. Walk(mbb, walk + 1, NoAvail) /\ Walking
    BY <1>11 DEF AtCall
  <2>2. Right(role, mbb, walk + 1, NoAvail, s0)
    BY <1>0, <1>3, <1>4, <2>1, CallRight
  <2>. QED
    BY <1>1, <2>1, <2>2 DEF s0
<1>12. CASE AtOther
  <2>. DEFINE mi == mbb[walk]
  <2>1. Walk(mbb, walk + 1, Invalidate(Avail, DefsOf(mi))) /\ Walking
        /\ mi.op \notin Spills \cup Reloads \cup {"CALL"}
    BY <1>12 DEF AtOther, MI
  <2>2. mi.kill => \A f \in Slots : ~Overlap(Avail[f], mi.reg)
    BY <2>1 DEF KillsForgotten, MI
  <2>3. Right(role, mbb, walk + 1, Invalidate(Avail, DefsOf(mi)), s0)
    BY <1>0, <1>3, <1>4, <2>1, <2>2, OtherRight
  <2>. QED
    BY <1>1, <2>1, <2>3 DEF s0
<1>. QED
  BY <1>5, <1>6, <1>7, <1>8, <1>9, <1>10, <1>11, <1>12 DEF Forward, s0

LEMMA WalkStep == WalkInv /\ KillsForgotten /\ [Next]_vars => WalkInv'
<1>. SUFFICES ASSUME WalkInv, KillsForgotten, [Next]_vars, walk' # 0
              PROVE  WalkInv'
  BY DEF WalkInv
<1>1. CASE walk # 0 /\ Forward
  <2>1. PICK role \in [Slots -> Roles] : Right(role, mbb, walk, Avail, AbstractAtStart)
    BY <1>1 DEF WalkInv
  <2>2. ~WalkDone
    BY DEF WalkDone
  <2>3. Right(role, mbb', walk', Avail', AbstractAtStart)
    BY <1>1, <2>1, <2>2, WalkGoesOn
  <2>4. frame' = frame
    BY <1>1, <2>2 DEF Forward, EraseSpill, RecordSpill, ForwardKilled, KillSpill, EraseDeadReload,
                      ForwardReload, KeepReload, AtCall, AtOther, Walk
  <2>. QED
    BY <2>3, <2>4, StartKept DEF WalkInv
<1>2. CASE walk = 0 /\ Forward
  <2>1. ~Walking /\ ~WalkDone
    BY <1>2 DEF Walking, WalkDone
  <2>. QED
    BY <1>2, <2>1 DEF Forward, EraseSpill, RecordSpill, ForwardKilled, KillSpill, EraseDeadReload,
                      ForwardReload, KeepReload, AtCall, AtOther
<1>3. CASE Run
  BY <1>3 DEF Run, fwdVars
<1>4. CASE UNCHANGED vars
  <2>1. walk' = walk /\ mbb' = mbb /\ Avail' = Avail /\ frame' = frame
    BY <1>4 DEF vars, fwdVars, elimVars
  <2>. QED
    BY <2>1, StartKept DEF WalkInv
<1>. QED
  BY <1>1, <1>2, <1>3, <1>4 DEF Next

LEMMA RightIsSound == WalkInv => AvailSound
<1>. SUFFICES ASSUME WalkInv, walk # 0 PROVE AvailSound
  BY DEF AvailSound
<1>. DEFINE s == Trace(mbb, AbstractAtStart)[walk - 1].s
<1>1. Sound(s, Avail)
  BY DEF WalkInv, Right
<1>. HIDE DEF s
<1>2. \A f \in Slots : Avail[f] # NoReg =>
        IF Avail[f] \in Pairs THEN Value(s, Avail[f]) = s.slot[f] ELSE s.reg[Avail[f]] = s.slot[f].lo
  BY <1>1 DEF Sound, SameValue
<1>. QED
  BY <1>2 DEF AvailSound, s

(* Whatever the block: as long as register allocation kills no register the *)
(* walk still remembers for another slot, a register the walk names for a   *)
(* slot holds what the slot holds, at that point of the block as rewritten  *)
(* so far.                                                                  *)
THEOREM MemoryIsTrue == Spec /\ []KillsForgotten => []AvailSound
<1>1. Init => WalkInv
  BY WalkStarts
<1>2. WalkInv /\ KillsForgotten /\ [Next]_vars => WalkInv'
  BY WalkStep
<1>3. WalkInv => AvailSound
  BY RightIsSound
<1>. QED
  BY <1>1, <1>2, <1>3, PTL DEF Spec

-----------------------------------------------------------------------------
(* What the block reads.  The rewritten block has a value wherever the one  *)
(* before has one, and the same: it may have one more, where the other has  *)
(* killed it, and the upper half of a slot of one byte means nothing.       *)
AgreeRegs(g, h) == \A z \in Regs : g[z] = Undef \/ g[z] = h[z]
AgreeSlot(v, w, wide) == /\ v.lo = Undef \/ v.lo = w.lo
                         /\ wide => v.hi = Undef \/ v.hi = w.hi
Agree(role, x, y) ==
  /\ AgreeRegs(x.reg, y.reg)
  /\ \A f \in Slots : AgreeSlot(x.slot[f], y.slot[f], role[f] # "byte")
  /\ x.addr = y.addr

LEMMA PutAgrees ==
  ASSUME NEW g \in [Regs -> Values], NEW h \in [Regs -> Values], AgreeRegs(g, h),
         NEW d \in Regs \cup Pairs, NEW v \in Slot, NEW w \in Slot, AgreeSlot(v, w, d \in Pairs)
  PROVE  AgreeRegs(Put(g, d, v), Put(h, d, w))
<1>1. \A z \in Regs : z \notin Parts(d) => Put(g, d, v)[z] = g[z] /\ Put(h, d, w)[z] = h[z]
  BY PutFacts
<1>2. CASE d \in Pairs
  <2>1. /\ Put(g, d, v)[Hi[d]] = v.hi /\ Put(g, d, v)[Lo[d]] = v.lo
        /\ Put(h, d, w)[Hi[d]] = w.hi /\ Put(h, d, w)[Lo[d]] = w.lo
    BY <1>2, PutFacts
  <2>. QED
    BY <1>1, <1>2, <2>1, PartsFacts DEF AgreeRegs, AgreeSlot
<1>3. CASE d \in Regs
  <2>1. Put(g, d, v)[d] = v.lo /\ Put(h, d, w)[d] = w.lo
    BY <1>3, PutFacts
  <2>. QED
    BY <1>1, <1>3, <2>1, PartsFacts DEF AgreeRegs, AgreeSlot
<1>. QED
  BY <1>2, <1>3

LEMMA LoseAgrees ==
  ASSUME NEW g \in [Regs -> Values], NEW h \in [Regs -> Values], AgreeRegs(g, h), NEW S
  PROVE  AgreeRegs(Lose(g, S), Lose(h, S))
BY LoseFacts DEF AgreeRegs

LEMMA ValueAgrees ==
  ASSUME NEW x \in State, NEW y \in State, AgreeRegs(x.reg, y.reg), NEW r \in Regs \cup Pairs, NEW wide
  PROVE  AgreeSlot(Value(x, r), Value(y, r), wide)
<1>1. CASE r \in Pairs
  BY <1>1, ValueFacts, PartsFacts DEF AgreeRegs, AgreeSlot
<1>2. CASE r \in Regs
  BY <1>2, ValueFacts, PartsFacts DEF AgreeRegs, AgreeSlot
<1>. QED
  BY <1>1, <1>2

(* Every instruction preserves the agreement.                               *)
LEMMA MeaningAgrees ==
  ASSUME NEW role, NEW mi \in Instrs(role), NEW x \in State, NEW y \in State, Agree(role, x, y)
  PROVE  Agree(role, Meaning(x, mi), Meaning(y, mi))
<1>. DEFINE u == Meaning(x, mi)
            v == Meaning(y, mi)
<1>1. /\ x.reg \in [Regs -> Values] /\ x.slot \in [Slots -> Slot] /\ x.addr \in [Slots -> Int]
      /\ y.reg \in [Regs -> Values] /\ y.slot \in [Slots -> Slot] /\ y.addr = x.addr
      /\ AgreeRegs(x.reg, y.reg)
      /\ \A f \in Slots : AgreeSlot(x.slot[f], y.slot[f], role[f] # "byte")
  BY StateParts DEF Agree
<1>2. u.addr = x.addr /\ v.addr = y.addr
  BY MeaningFacts
<1>3. \A f \in Slots : AgreeSlot(u.slot[f], v.slot[f], role[f] # "byte")
  <2>. SUFFICES ASSUME NEW f \in Slots PROVE AgreeSlot(u.slot[f], v.slot[f], role[f] # "byte")
    OBVIOUS
  <2>1. CASE Writes(mi) /\ f = mi.fi
    <3>1. u.slot[f] = Value(x, mi.reg) /\ v.slot[f] = Value(y, mi.reg)
      BY <2>1, MeaningFacts
    <3>2. mi.reg \in Regs \cup Pairs
      BY <2>1, OperandFacts DEF Writes
    <3>. HIDE DEF u, v
    <3>. QED
      BY <1>1, <3>1, <3>2, ValueAgrees
  <2>2. CASE ~(Writes(mi) /\ f = mi.fi)
    <3>1. u.slot[f] = x.slot[f] /\ v.slot[f] = y.slot[f]
      BY <2>2, MeaningFacts
    <3>. HIDE DEF u, v
    <3>. QED
      BY <1>1, <3>1
  <2>. QED
    BY <2>1, <2>2
<1>4. AgreeRegs(u.reg, v.reg)
  <2>1. CASE mi.op \in Spills \cup Stores
    <3>1. \E S : u.reg = Lose(x.reg, S) /\ v.reg = Lose(y.reg, S)
      <4>1. CASE mi.op \in Spills
        <5>1. u = [reg |-> Lose(x.reg, Lost(mi)), slot |-> [x.slot EXCEPT ![mi.fi] = Value(x, mi.reg)],
                    addr |-> x.addr]
          BY <4>1, MeaningCases
        <5>2. v = [reg |-> Lose(y.reg, Lost(mi)), slot |-> [y.slot EXCEPT ![mi.fi] = Value(y, mi.reg)],
                    addr |-> y.addr]
          BY <4>1, MeaningCases
        <5>. HIDE DEF u, v
        <5>3. u.reg = Lose(x.reg, Lost(mi)) /\ v.reg = Lose(y.reg, Lost(mi))
          BY <5>1, <5>2
        <5>. QED
          BY <5>3
      <4>2. CASE mi.op \in Stores
        <5>1. u = [reg |-> Lose(x.reg, {"H", "L"} \cup Lost(mi)), slot |-> [x.slot EXCEPT ![mi.fi] = Value(x, mi.reg)],
                    addr |-> x.addr]
          BY <4>2, MeaningCases
        <5>2. v = [reg |-> Lose(y.reg, {"H", "L"} \cup Lost(mi)), slot |-> [y.slot EXCEPT ![mi.fi] = Value(y, mi.reg)],
                    addr |-> y.addr]
          BY <4>2, MeaningCases
        <5>. HIDE DEF u, v
        <5>3. u.reg = Lose(x.reg, {"H", "L"} \cup Lost(mi)) /\ v.reg = Lose(y.reg, {"H", "L"} \cup Lost(mi))
          BY <5>1, <5>2
        <5>. QED
          BY <5>3
      <4>. QED
        BY <2>1, <4>1, <4>2
    <3>. HIDE DEF u, v
    <3>. QED
      BY <1>1, <3>1, LoseAgrees
  <2>2. CASE mi.op \in Reloads
    <3>. DEFINE g == Put(x.reg, mi.reg, x.slot[mi.fi])
                h == Put(y.reg, mi.reg, y.slot[mi.fi])
    <3>1. /\ mi.fi \in Slots /\ mi.reg \in Regs \cup Pairs
          /\ mi.reg \in Pairs => role[mi.fi] # "byte"
      BY <2>2, OperandFacts, PartsFacts
    <3>2. u = [x EXCEPT !.reg = Lose(g, Lost(mi))] /\ v = [y EXCEPT !.reg = Lose(h, Lost(mi))]
      BY <2>2, MeaningCases
    <3>3. g \in [Regs -> Values] /\ h \in [Regs -> Values]
      BY <1>1, <3>1, PutFacts
    <3>4. AgreeSlot(x.slot[mi.fi], y.slot[mi.fi], mi.reg \in Pairs)
      BY <1>1, <3>1 DEF AgreeSlot
    <3>5. AgreeRegs(g, h)
      BY <1>1, <3>1, <3>4, PutAgrees
    <3>. HIDE DEF g, h, u, v
    <3>6. u.reg = Lose(g, Lost(mi)) /\ v.reg = Lose(h, Lost(mi))
      BY <3>2, StateParts
    <3>. QED
      BY <3>3, <3>5, <3>6, LoseAgrees
  <2>3. CASE mi.op \in Loads \cup {"LEA_FI"}
    <3>. DEFINE g == Lose(x.reg, {"H", "L"})
                h == Lose(y.reg, {"H", "L"})
                at == [hi |-> x.addr[mi.fi] \div ByteSize, lo |-> x.addr[mi.fi] % ByteSize]
                p == IF mi.op \in Loads THEN x.slot[mi.fi] ELSE at
                q == IF mi.op \in Loads THEN y.slot[mi.fi] ELSE at
    <3>1. mi.fi \in Slots /\ mi.reg \in Regs \cup Pairs /\ role[mi.fi] # "byte"
      BY <2>3, OperandFacts
    <3>2. u = [x EXCEPT !.reg = Put(g, mi.reg, p)] /\ v = [y EXCEPT !.reg = Put(h, mi.reg, q)]
      <4>1. CASE mi.op \in Loads
        BY <4>1, MeaningCases
      <4>2. CASE mi.op = "LEA_FI"
        <5>1. mi.op \notin Loads
          BY <4>2 DEF Loads
        <5>2. y.addr = x.addr
          BY <1>1
        <5>3. u = [x EXCEPT !.reg = Put(g, mi.reg, at)]
          BY <4>2, MeaningCases
        <5>4. v = [y EXCEPT !.reg = Put(h, mi.reg, at)]
          <6>. DEFINE ay == [hi |-> y.addr[mi.fi] \div ByteSize, lo |-> y.addr[mi.fi] % ByteSize]
          <6>1. v = [y EXCEPT !.reg = Put(h, mi.reg, ay)]
            BY <4>2, MeaningCases
          <6>2. ay = at
            BY <5>2
          <6>. HIDE DEF ay, at, v, h
          <6>. QED
            BY <6>1, <6>2
        <5>. QED
          BY <5>1, <5>3, <5>4
      <4>. QED
        BY <2>3, <4>1, <4>2
    <3>3. at \in Slot
      <4>1. x.addr[mi.fi] \div ByteSize \in Int /\ x.addr[mi.fi] % ByteSize \in Int
        BY <1>1, <3>1, ByteSizeAssumption
      <4>. QED
        BY <4>1 DEF Slot, Values
    <3>. HIDE DEF at
    <3>4. p \in Slot /\ q \in Slot
      BY <1>1, <3>1, <3>3
    <3>5. AgreeSlot(p, q, mi.reg \in Pairs)
      BY <1>1, <3>1 DEF AgreeSlot
    <3>6. g \in [Regs -> Values] /\ h \in [Regs -> Values] /\ AgreeRegs(g, h)
      BY <1>1, LoseFacts, LoseAgrees
    <3>. HIDE DEF g, h, p, q, u, v
    <3>7. u.reg = Put(g, mi.reg, p) /\ v.reg = Put(h, mi.reg, q)
      BY <3>2, StateParts
    <3>. QED
      BY <3>1, <3>4, <3>5, <3>6, <3>7, PutAgrees
  <2>4. CASE mi.op \in {"MOV", "DEF"}
    <3>. DEFINE p == IF mi.op = "MOV" THEN Value(x, mi.src) ELSE [hi |-> mi.fi, lo |-> mi.fi]
                q == IF mi.op = "MOV" THEN Value(y, mi.src) ELSE [hi |-> mi.fi, lo |-> mi.fi]
    <3>1. mi.reg \in Regs \cup Pairs /\ (mi.op = "MOV" => mi.src \in Regs) /\ (mi.op = "DEF" => mi.fi \in Int)
      BY <2>4, OperandFacts
    <3>2. u = [x EXCEPT !.reg = Put(x.reg, mi.reg, p)] /\ v = [y EXCEPT !.reg = Put(y.reg, mi.reg, q)]
      BY <2>4, MeaningCases
    <3>3. p \in Slot /\ q \in Slot
      <4>1. CASE mi.op = "MOV"
        BY <3>1, <4>1, ValueFacts
      <4>2. CASE mi.op = "DEF"
        BY <3>1, <4>2 DEF Slot, Values
      <4>. QED
        BY <2>4, <4>1, <4>2
    <3>4. AgreeSlot(p, q, mi.reg \in Pairs)
      <4>1. CASE mi.op = "MOV"
        <5>1. AgreeSlot(Value(x, mi.src), Value(y, mi.src), mi.reg \in Pairs)
          BY <1>1, <3>1, <4>1, ValueAgrees
        <5>. QED
          BY <4>1, <5>1
      <4>2. CASE mi.op = "DEF"
        BY <4>2 DEF AgreeSlot
      <4>. QED
        BY <2>4, <4>1, <4>2
    <3>. HIDE DEF p, q, u, v
    <3>5. u.reg = Put(x.reg, mi.reg, p) /\ v.reg = Put(y.reg, mi.reg, q)
      BY <3>2, StateParts
    <3>. QED
      BY <1>1, <3>1, <3>3, <3>4, <3>5, PutAgrees
  <2>5. CASE mi.op = "USE" \/ mi.op = "CALL"
    <3>. DEFINE S == IF mi.op = "USE" THEN Lost(mi) ELSE Regs
    <3>1. u = [x EXCEPT !.reg = Lose(x.reg, S)] /\ v = [y EXCEPT !.reg = Lose(y.reg, S)]
      BY <2>5, MeaningCases
    <3>. HIDE DEF S, u, v
    <3>2. u.reg = Lose(x.reg, S) /\ v.reg = Lose(y.reg, S)
      BY <3>1, StateParts
    <3>. QED
      BY <1>1, <3>2, LoseAgrees
  <2>. QED
    BY <2>1, <2>2, <2>3, <2>4, <2>5, OperandFacts
<1>. HIDE DEF u, v
<1>5. Agree(role, u, v)
  BY <1>1, <1>2, <1>3, <1>4 DEF Agree
<1>. QED
  BY <1>5 DEF u, v

(* What was read, byte by byte; a read of a killed register.                *)
Reads == Seq(Seq(Values))
Undefined(out) == \E i \in 1..Len(out) : \E j \in 1..Len(out[i]) : out[i][j] = Undef

(* The rewritten block has come as far as the one before: q as p.           *)
Follows(role, p, q) == Agree(role, p.s, q.s) /\ (p.out = q.out \/ Undefined(p.out))

LEMMA ReadFacts ==
  ASSUME NEW x \in State, NEW r \in Regs \cup Pairs
  PROVE  /\ Read(x, r) \in Seq(Values)
         /\ r \in Pairs => /\ Len(Read(x, r)) = 2
                           /\ Read(x, r)[1] = x.reg[Hi[r]] /\ Read(x, r)[2] = x.reg[Lo[r]]
         /\ r \in Regs => Len(Read(x, r)) = 1 /\ Read(x, r)[1] = x.reg[r]
<1>1. \A z \in Regs : x.reg[z] \in Values
  BY StateParts
<1>2. CASE r \in Pairs
  <2>1. Read(x, r) = <<x.reg[Hi[r]], x.reg[Lo[r]]>> /\ x.reg[Hi[r]] \in Values /\ x.reg[Lo[r]] \in Values
        /\ r \notin Regs
    BY <1>1, <1>2, PartsFacts DEF Read
  <2>. QED
    BY <2>1
<1>3. CASE r \in Regs
  <2>1. Read(x, r) = <<x.reg[r]>> /\ x.reg[r] \in Values /\ r \notin Pairs
    BY <1>1, <1>3, PartsFacts DEF Read
  <2>. QED
    BY <2>1
<1>. QED
  BY <1>2, <1>3

LEMMA ReadAgrees ==
  ASSUME NEW x \in State, NEW y \in State, AgreeRegs(x.reg, y.reg), NEW r \in Regs \cup Pairs
  PROVE  Read(x, r) = Read(y, r) \/ \E j \in 1..Len(Read(x, r)) : Read(x, r)[j] = Undef
<1>1. CASE r \in Pairs
  <2>1. Len(Read(x, r)) = 2 /\ Read(x, r)[1] = x.reg[Hi[r]] /\ Read(x, r)[2] = x.reg[Lo[r]]
    BY <1>1, ReadFacts
  <2>2. Hi[r] \in Regs /\ Lo[r] \in Regs
    BY <1>1, PartsFacts
  <2>3. 1 \in 1..2 /\ 2 \in 1..2
    OBVIOUS
  <2>4. CASE x.reg[Hi[r]] = Undef \/ x.reg[Lo[r]] = Undef
    BY <2>1, <2>3, <2>4
  <2>5. CASE x.reg[Hi[r]] = y.reg[Hi[r]] /\ x.reg[Lo[r]] = y.reg[Lo[r]]
    BY <1>1, <2>5 DEF Read
  <2>. QED
    BY <2>2, <2>4, <2>5 DEF AgreeRegs
<1>2. CASE r \in Regs
  <2>1. Len(Read(x, r)) = 1 /\ Read(x, r)[1] = x.reg[r]
    BY <1>2, ReadFacts
  <2>2. 1 \in 1..1
    OBVIOUS
  <2>3. CASE x.reg[r] = Undef
    BY <2>1, <2>2, <2>3
  <2>4. CASE x.reg[r] = y.reg[r]
    BY <1>2, <2>4, PartsFacts DEF Read
  <2>. QED
    BY <1>2, <2>3, <2>4 DEF AgreeRegs
<1>. QED
  BY <1>1, <1>2

LEMMA AppendFacts ==
  ASSUME NEW S, NEW out \in Seq(S), NEW e \in S
  PROVE  /\ Append(out, e) \in Seq(S) /\ Len(Append(out, e)) = Len(out) + 1
         /\ Append(out, e)[Len(out) + 1] = e
         /\ \A i \in 1..Len(out) : Append(out, e)[i] = out[i]
OBVIOUS

LEMMA UndefinedStays ==
  ASSUME NEW out \in Reads, NEW e \in Seq(Values)
  PROVE  /\ Undefined(out) => Undefined(Append(out, e))
         /\ (\E j \in 1..Len(e) : e[j] = Undef) => Undefined(Append(out, e))
<1>1. /\ Len(Append(out, e)) = Len(out) + 1
      /\ Append(out, e)[Len(out) + 1] = e
      /\ \A i \in 1..Len(out) : Append(out, e)[i] = out[i]
  BY AppendFacts DEF Reads
<1>2. Len(out) \in Nat
  BY DEF Reads
<1>. DEFINE o == Append(out, e)
<1>. HIDE DEF o
<1>3. /\ Len(o) = Len(out) + 1 /\ o[Len(out) + 1] = e
      /\ \A i \in 1..Len(out) : o[i] = out[i] /\ i \in 1..Len(o)
      /\ Len(out) + 1 \in 1..Len(o)
  BY <1>1, <1>2 DEF o
<1>4. Undefined(out) => Undefined(o)
  BY <1>3 DEF Undefined
<1>5. (\E j \in 1..Len(e) : e[j] = Undef) => Undefined(o)
  BY <1>3 DEF Undefined
<1>. QED
  BY <1>4, <1>5 DEF o

LEMMA TraceReads ==
  ASSUME NEW role, NEW b \in Seq(Instrs(role)), NEW s0 \in State
  PROVE  \A k \in 0..Len(b) : Trace(b, s0)[k].out \in Reads
<1>. DEFINE t == Trace(b, s0)
            Bad == {k \in Nat : k <= Len(b) /\ t[k].out \notin Reads}
<1>1. /\ t[0].out = <<>>
      /\ \A k \in 1..Len(b) : t[k] = After(t[k - 1], b[k])
      /\ \A k \in 0..Len(b) : t[k].s \in State
  <2>1. Len(b) \in Nat
    OBVIOUS
  <2>2. t[0] = [s |-> s0, out |-> <<>>] /\ \A k \in 1..Len(b) : t[k] = After(t[k - 1], b[k])
    BY <2>1, TraceRuns
  <2>3. \A k \in 0..Len(b) : t[k].s \in State
    BY TraceType
  <2>. HIDE DEF t
  <2>. QED
    BY <2>2, <2>3
<1>. SUFFICES Bad = {}
  OBVIOUS
<1>. HIDE DEF t
<1>. SUFFICES ASSUME Bad # {} PROVE FALSE
  OBVIOUS
<1>0. Bad \subseteq Nat
  OBVIOUS
<1>2. PICK k \in Bad : \A j \in Bad : k <= j
  <2>. HIDE DEF Bad
  <2>. QED
    BY <1>0, LeastElement
<1>3. k \in Nat /\ k <= Len(b) /\ t[k].out \notin Reads /\ k # 0
  <2>1. <<>> \in Reads
    BY DEF Reads
  <2>. QED
    BY <1>1, <2>1
<1>4. k - 1 \in Nat /\ k - 1 <= Len(b) /\ ~(k <= k - 1) /\ k \in 1..Len(b) /\ k - 1 \in 0..Len(b)
  BY <1>3
<1>5. t[k - 1].out \in Reads
  <2>1. k - 1 \notin Bad
    <3>. HIDE DEF Bad
    <3>. QED
      BY <1>2, <1>4
  <2>. QED
    BY <1>4, <2>1
<1>6. b[k] \in Instrs(role) /\ t[k - 1].s \in State
  BY <1>1, <1>4
<1>7. CASE b[k].op = "USE"
  <2>1. t[k].out = Append(t[k - 1].out, Read(t[k - 1].s, b[k].reg))
    <3>1. \A x, mi : mi.op = "USE" => After(x, mi).out = Append(x.out, Read(x.s, mi.reg))
      BY DEF After
    <3>2. t[k] = After(t[k - 1], b[k])
      BY <1>1, <1>4
    <3>. QED
      BY <1>7, <3>1, <3>2
  <2>2. Read(t[k - 1].s, b[k].reg) \in Seq(Values)
    BY <1>6, <1>7, OperandFacts, ReadFacts
  <2>. QED
    BY <1>3, <1>5, <2>1, <2>2, AppendFacts DEF Reads
<1>8. CASE b[k].op # "USE"
  <2>1. t[k].out = t[k - 1].out
    <3>1. \A x, mi : mi.op # "USE" => After(x, mi).out = x.out
      BY DEF After
    <3>2. t[k] = After(t[k - 1], b[k])
      BY <1>1, <1>4
    <3>. QED
      BY <1>8, <3>1, <3>2
  <2>. QED
    BY <1>3, <1>5, <2>1
<1>. QED
  BY <1>7, <1>8

LEMMA AfterFollows ==
  ASSUME NEW role, NEW mi \in Instrs(role), NEW p, NEW q, p.s \in State, q.s \in State,
         p.out \in Reads, Follows(role, p, q)
  PROVE  Follows(role, After(p, mi), After(q, mi))
<1>1. Agree(role, p.s, q.s) /\ AgreeRegs(p.s.reg, q.s.reg)
  BY DEF Follows, Agree
<1>2. After(p, mi).s = Meaning(p.s, mi) /\ After(q, mi).s = Meaning(q.s, mi)
  BY DEF After
<1>3. Agree(role, After(p, mi).s, After(q, mi).s)
  BY <1>1, <1>2, MeaningAgrees
<1>4. CASE mi.op # "USE"
  <2>1. After(p, mi).out = p.out /\ After(q, mi).out = q.out
    BY <1>4 DEF After
  <2>. QED
    BY <1>3, <2>1 DEF Follows
<1>5. CASE mi.op = "USE"
  <2>1. mi.reg \in Regs \cup Pairs
    BY <1>5, OperandFacts
  <2>2. /\ After(p, mi).out = Append(p.out, Read(p.s, mi.reg))
        /\ After(q, mi).out = Append(q.out, Read(q.s, mi.reg))
    BY <1>5 DEF After
  <2>3. Read(p.s, mi.reg) \in Seq(Values)
    BY <2>1, ReadFacts
  <2>4. Read(p.s, mi.reg) = Read(q.s, mi.reg)
        \/ \E j \in 1..Len(Read(p.s, mi.reg)) : Read(p.s, mi.reg)[j] = Undef
    BY <1>1, <2>1, ReadAgrees
  <2>5. /\ Undefined(p.out) => Undefined(Append(p.out, Read(p.s, mi.reg)))
        /\ (\E j \in 1..Len(Read(p.s, mi.reg)) : Read(p.s, mi.reg)[j] = Undef)
             => Undefined(Append(p.out, Read(p.s, mi.reg)))
    BY <2>3, UndefinedStays
  <2>6. p.out = q.out \/ Undefined(p.out)
    BY DEF Follows
  <2>7. After(p, mi).out = After(q, mi).out \/ Undefined(After(p, mi).out)
    BY <2>2, <2>4, <2>5, <2>6
  <2>. QED
    BY <1>3, <2>7 DEF Follows
<1>. QED
  BY <1>4, <1>5

(* Where two blocks end alike, the agreement lasts to their ends.           *)
LEMMA SuffixFollows ==
  ASSUME NEW role, NEW b \in Seq(Instrs(role)), NEW c \in Seq(Instrs(role)), NEW s0 \in State,
         NEW i \in 0..Len(b), NEW n \in 0..Len(c), Len(b) - i = Len(c) - n,
         \A j \in 1..Len(b) - i : b[i + j] = c[n + j],
         Follows(role, Trace(b, s0)[i], Trace(c, s0)[n])
  PROVE  Follows(role, Trace(b, s0)[Len(b)], Trace(c, s0)[Len(c)])
<1>. DEFINE t == Trace(b, s0)
            u == Trace(c, s0)
            l == Len(b) - i
            Bad == {j \in Nat : j <= l /\ ~Follows(role, t[i + j], u[n + j])}
<1>0. l \in Nat /\ i \in Nat /\ n \in Nat /\ Len(b) \in Nat /\ Len(c) \in Nat
      /\ i + l = Len(b) /\ n + l = Len(c) /\ i + 0 = i /\ n + 0 = n
  OBVIOUS
<1>1. /\ \A k \in 1..Len(b) : t[k] = After(t[k - 1], b[k])
      /\ \A k \in 1..Len(c) : u[k] = After(u[k - 1], c[k])
      /\ \A k \in 0..Len(b) : t[k].s \in State /\ t[k].out \in Reads
      /\ \A k \in 0..Len(c) : u[k].s \in State
  <2>1. \A k \in 1..Len(b) : t[k] = After(t[k - 1], b[k])
    BY <1>0, TraceRuns
  <2>2. \A k \in 1..Len(c) : u[k] = After(u[k - 1], c[k])
    BY <1>0, TraceRuns
  <2>3. \A k \in 0..Len(b) : t[k].s \in State
    BY TraceType
  <2>4. \A k \in 0..Len(b) : t[k].out \in Reads
    BY TraceReads
  <2>5. \A k \in 0..Len(c) : u[k].s \in State
    BY TraceType
  <2>. HIDE DEF t, u
  <2>. QED
    BY <2>1, <2>2, <2>3, <2>4, <2>5
<1>2. Follows(role, t[i], u[n]) /\ \A j \in 1..l : b[i + j] = c[n + j]
  OBVIOUS
<1>. HIDE DEF t, u, l
<1>. SUFFICES Bad = {}
  <2>1. l \in Nat /\ l <= l /\ i + l = Len(b) /\ n + l = Len(c)
    BY <1>0
  <2>2. l \notin Bad => Follows(role, t[i + l], u[n + l])
    BY <2>1
  <2>3. l \notin Bad => Follows(role, t[Len(b)], u[Len(c)])
    BY <2>1, <2>2
  <2>. HIDE DEF Bad
  <2>. QED
    BY <2>3 DEF t, u
<1>. SUFFICES ASSUME Bad # {} PROVE FALSE
  OBVIOUS
<1>3. Bad \subseteq Nat
  OBVIOUS
<1>4. PICK k \in Bad : \A j \in Bad : k <= j
  <2>. HIDE DEF Bad
  <2>. QED
    BY <1>3, LeastElement
<1>5. k \in Nat /\ k <= l /\ ~Follows(role, t[i + k], u[n + k]) /\ k # 0
  BY <1>0, <1>2
<1>6. k - 1 \in Nat /\ k - 1 <= l /\ ~(k <= k - 1) /\ k \in 1..l
  BY <1>0, <1>5
<1>7. Follows(role, t[i + (k - 1)], u[n + (k - 1)])
  <2>1. k - 1 \notin Bad
    <3>. HIDE DEF Bad
    <3>. QED
      BY <1>4, <1>6
  <2>. QED
    BY <1>6, <2>1
<1>8. /\ i + k \in 1..Len(b) /\ n + k \in 1..Len(c)
      /\ i + (k - 1) = i + k - 1 /\ n + (k - 1) = n + k - 1
      /\ i + (k - 1) \in 0..Len(b) /\ n + (k - 1) \in 0..Len(c)
  BY <1>0, <1>6
<1>9. b[i + k] \in Instrs(role) /\ b[i + k] = c[n + k]
  BY <1>2, <1>6, <1>8
<1>10. t[i + k] = After(t[i + (k - 1)], b[i + k]) /\ u[n + k] = After(u[n + (k - 1)], b[i + k])
  BY <1>1, <1>8, <1>9
<1>11. t[i + (k - 1)].s \in State /\ u[n + (k - 1)].s \in State /\ t[i + (k - 1)].out \in Reads
  BY <1>1, <1>8
<1>12. Follows(role, t[i + k], u[n + k])
  BY <1>7, <1>9, <1>10, <1>11, AfterFollows
<1>. QED
  BY <1>5, <1>12

-----------------------------------------------------------------------------
(* The rewritings, one by one.                                              *)
LEMMA AgreeTransitive ==
  ASSUME NEW role, NEW x, NEW y, NEW t, Agree(role, x, y), Agree(role, y, t)
  PROVE  Agree(role, x, t)
<1>1. AgreeRegs(x.reg, t.reg)
  BY DEF Agree, AgreeRegs
<1>2. \A f \in Slots : AgreeSlot(x.slot[f], t.slot[f], role[f] # "byte")
  BY DEF Agree, AgreeSlot
<1>. QED
  BY <1>1, <1>2 DEF Agree

(* A spill of what the slot holds already.                                  *)
LEMMA SpillAgrees ==
  ASSUME NEW role, NEW mi \in Instrs(role), mi.op \in Spills, ~mi.kill, NEW s \in State,
         SameValue(s, mi.reg, mi.fi)
  PROVE  Agree(role, Meaning(s, mi), s)
<1>. DEFINE x == Meaning(s, mi)
<1>1. /\ mi.fi \in Slots /\ mi.reg \in Regs \cup Pairs
      /\ mi.reg \in Regs => role[mi.fi] = "byte"
  BY OperandFacts, PartsFacts
<1>2. DefsOf(mi) \cup Lost(mi) = {} /\ mi.op # "CALL" /\ Writes(mi)
  BY DefsCases DEF Lost, Spills, Writes
<1>3. /\ \A z \in Regs : x.reg[z] = s.reg[z]
      /\ \A f \in Slots : f # mi.fi => x.slot[f] = s.slot[f]
      /\ x.slot[mi.fi] = Value(s, mi.reg)
      /\ x.addr = s.addr
  BY <1>2, MeaningFacts
<1>. HIDE DEF x
<1>4. AgreeSlot(x.slot[mi.fi], s.slot[mi.fi], role[mi.fi] # "byte")
  <2>1. CASE mi.reg \in Pairs
    BY <1>3, <2>1 DEF SameValue, AgreeSlot
  <2>2. CASE mi.reg \in Regs
    <3>1. Value(s, mi.reg).lo = s.slot[mi.fi].lo
      BY <2>2, ValueFacts, PartsFacts DEF SameValue
    <3>. QED
      BY <1>1, <1>3, <2>2, <3>1 DEF AgreeSlot
  <2>. QED
    BY <1>1, <2>1, <2>2
<1>5. \A f \in Slots : AgreeSlot(x.slot[f], s.slot[f], role[f] # "byte")
  BY <1>3, <1>4 DEF AgreeSlot
<1>6. AgreeRegs(x.reg, s.reg)
  BY <1>3 DEF AgreeRegs
<1>7. Agree(role, x, s)
  BY <1>3, <1>5, <1>6 DEF Agree
<1>. QED
  BY <1>7 DEF x

(* What a spill kills, its copy that kills nothing keeps.                   *)
LEMMA KillAgrees ==
  ASSUME NEW role, NEW mi \in Instrs(role), mi.op \in Spills, NEW mk \in Instrs(role),
         mk.op \in Spills, mk.reg = mi.reg, mk.fi = mi.fi, ~mk.kill, NEW s \in State
  PROVE  Agree(role, Meaning(s, mi), Meaning(s, mk))
<1>. DEFINE x == Meaning(s, mi)
            y == Meaning(s, mk)
<1>1. s.reg \in [Regs -> Values]
  BY StateParts
<1>2. /\ x = [reg |-> Lose(s.reg, Lost(mi)), slot |-> [s.slot EXCEPT ![mi.fi] = Value(s, mi.reg)], addr |-> s.addr]
      /\ y = [reg |-> Lose(s.reg, Lost(mk)), slot |-> [s.slot EXCEPT ![mi.fi] = Value(s, mi.reg)], addr |-> s.addr]
  <2>1. x = [reg |-> Lose(s.reg, Lost(mi)), slot |-> [s.slot EXCEPT ![mi.fi] = Value(s, mi.reg)], addr |-> s.addr]
    BY MeaningCases
  <2>2. y = [reg |-> Lose(s.reg, Lost(mk)), slot |-> [s.slot EXCEPT ![mk.fi] = Value(s, mk.reg)], addr |-> s.addr]
    BY MeaningCases
  <2>. QED
    BY <2>1, <2>2
<1>3. Lost(mk) = {}
  BY DEF Lost
<1>. HIDE DEF x, y
<1>4. x.slot = y.slot /\ x.addr = y.addr
  BY <1>2
<1>5. x.reg = Lose(s.reg, Lost(mi)) /\ y.reg = Lose(s.reg, {})
  BY <1>2, <1>3
<1>6. AgreeRegs(x.reg, y.reg)
  BY <1>1, <1>5, LoseFacts DEF AgreeRegs
<1>7. \A f \in Slots : AgreeSlot(x.slot[f], y.slot[f], role[f] # "byte")
  BY <1>4 DEF AgreeSlot
<1>8. Agree(role, x, y)
  BY <1>4, <1>6, <1>7 DEF Agree
<1>. QED
  BY <1>8 DEF x, y

(* A reload, and the copy of a register that holds what it would read.      *)
LEMMA ForwardAgrees ==
  ASSUME NEW role, NEW mi \in Instrs(role), mi.op \in Reloads, NEW s \in State, NEW t \in State,
         NEW r, (mi.reg \in Regs /\ r \in Regs) \/ (mi.reg \in Pairs /\ r \in Pairs),
         Moved(s, t, mi.reg, r), mi.kill \/ SameValue(s, r, mi.fi)
  PROVE  Agree(role, Meaning(s, mi), t)
<1>. DEFINE x == Meaning(s, mi)
            d == mi.reg
<1>1. mi.fi \in Slots /\ d \in Regs \cup Pairs /\ mi.kill \in BOOLEAN
  BY OperandFacts
<1>2. DefsOf(mi) = Parts(d) /\ Lost(mi) \subseteq Parts(d) /\ mi.op # "CALL" /\ ~Writes(mi)
  BY DefsCases DEF Lost, Reloads, Writes, Spills, Stores
<1>3. x \in State /\ x.addr = s.addr
      /\ (\A z \in Regs : z \notin Parts(d) => x.reg[z] = s.reg[z])
      /\ (\A f \in Slots : x.slot[f] = s.slot[f])
  BY <1>2, MeaningFacts
<1>4. mi.kill => \A z \in Regs : z \in Parts(d) => x.reg[z] = Undef
  <2>. SUFFICES ASSUME mi.kill PROVE \A z \in Regs : z \in Parts(d) => x.reg[z] = Undef
    OBVIOUS
  <2>. DEFINE g == Put(s.reg, d, s.slot[mi.fi])
  <2>1. Lost(mi) = Parts(d)
    BY DEF Lost
  <2>2. x = [s EXCEPT !.reg = Lose(g, Lost(mi))]
    BY MeaningCases
  <2>3. g \in [Regs -> Values]
    BY <1>1, StateParts, PutFacts
  <2>. HIDE DEF g, x
  <2>4. x.reg = Lose(g, Lost(mi))
    BY <2>2, StateParts
  <2>. QED
    BY <2>1, <2>3, <2>4, LoseFacts
<1>5. ~mi.kill => SameValue(x, d, mi.fi)
  BY ReloadFacts
<1>. HIDE DEF x
<1>6. t.slot = s.slot /\ t.addr = s.addr
      /\ (\A z \in Regs : z \notin Parts(d) => t.reg[z] = s.reg[z])
      /\ (d \in Pairs => t.reg[Hi[d]] = s.reg[Hi[r]] /\ t.reg[Lo[d]] = s.reg[Lo[r]])
      /\ (d \in Regs => t.reg[d] = s.reg[r])
  BY DEF Moved
<1>7. ~mi.kill => \A z \in Parts(d) : x.reg[z] = t.reg[z]
  <2>. SUFFICES ASSUME ~mi.kill PROVE \A z \in Parts(d) : x.reg[z] = t.reg[z]
    OBVIOUS
  <2>1. SameValue(x, d, mi.fi) /\ SameValue(s, r, mi.fi) /\ x.slot[mi.fi] = s.slot[mi.fi]
    BY <1>1, <1>3, <1>5
  <2>2. CASE d \in Pairs /\ r \in Pairs
    <3>1. Value(x, d) = Value(s, r)
      BY <2>1, <2>2 DEF SameValue
    <3>2. x.reg[Hi[d]] = s.reg[Hi[r]] /\ x.reg[Lo[d]] = s.reg[Lo[r]]
      <4>1. Value(x, d).hi = x.reg[Hi[d]] /\ Value(x, d).lo = x.reg[Lo[d]]
        BY <1>3, <2>2, ValueFacts
      <4>2. Value(s, r).hi = s.reg[Hi[r]] /\ Value(s, r).lo = s.reg[Lo[r]]
        BY <2>2, ValueFacts
      <4>. QED
        BY <3>1, <4>1, <4>2
    <3>. QED
      BY <1>6, <2>2, <3>2, PartsFacts
  <2>3. CASE d \in Regs /\ r \in Regs
    <3>1. x.reg[d] = s.reg[r]
      BY <2>1, <2>3, PartsFacts DEF SameValue
    <3>. QED
      BY <1>6, <2>3, <3>1, PartsFacts
  <2>. QED
    BY <2>2, <2>3
<1>8. AgreeRegs(x.reg, t.reg)
  BY <1>1, <1>3, <1>4, <1>6, <1>7 DEF AgreeRegs
<1>9. \A f \in Slots : AgreeSlot(x.slot[f], t.slot[f], role[f] # "byte")
  BY <1>3, <1>6 DEF AgreeSlot
<1>10. Agree(role, x, t)
  BY <1>3, <1>6, <1>8, <1>9 DEF Agree
<1>. QED
  BY <1>10 DEF x

(* A dead reload, and none.                                                 *)
LEMMA DeadAgrees ==
  ASSUME NEW role, NEW mi \in Instrs(role), mi.op \in Reloads, mi.kill, NEW s \in State
  PROVE  Agree(role, Meaning(s, mi), s)
<1>1. mi.reg \in Regs \/ mi.reg \in Pairs
  BY OperandFacts
<1>2. Moved(s, s, mi.reg, mi.reg)
  BY DEF Moved
<1>. QED
  BY <1>1, <1>2, ForwardAgrees

-----------------------------------------------------------------------------
(* c reads what b reads, as far as b reads only what is there.              *)
SameReads(b, c, s0) == Observed(c, s0) = Observed(b, s0) \/ Undefined(Observed(b, s0))

LEMMA MeetingReads ==
  ASSUME NEW role, NEW b \in Seq(Instrs(role)), NEW c \in Seq(Instrs(role)), NEW s0 \in State,
         NEW i \in 0..Len(b), NEW n \in 0..Len(c), Len(b) - i = Len(c) - n,
         \A j \in 1..Len(b) - i : b[i + j] = c[n + j],
         Agree(role, Trace(b, s0)[i].s, Trace(c, s0)[n].s), Trace(b, s0)[i].out = Trace(c, s0)[n].out
  PROVE  SameReads(b, c, s0)
<1>1. Follows(role, Trace(b, s0)[i], Trace(c, s0)[n])
  BY DEF Follows
<1>2. Follows(role, Trace(b, s0)[Len(b)], Trace(c, s0)[Len(c)])
  BY <1>1, SuffixFollows
<1>. QED
  BY <1>2 DEF Follows, SameReads, Observed

(* One step of a block that reads nothing.                                  *)
LEMMA SilentStep ==
  ASSUME NEW role, NEW b \in Seq(Instrs(role)), NEW s0 \in State, NEW k \in 1..Len(b), b[k].op # "USE"
  PROVE  /\ Trace(b, s0)[k].s = Meaning(Trace(b, s0)[k - 1].s, b[k])
         /\ Trace(b, s0)[k].out = Trace(b, s0)[k - 1].out
         /\ Trace(b, s0)[k - 1].s \in State
<1>1. Len(b) \in Nat /\ k - 1 \in 0..Len(b)
  OBVIOUS
<1>2. Trace(b, s0)[k] = After(Trace(b, s0)[k - 1], b[k])
  BY <1>1, TraceRuns
<1>3. \A x, mi : After(x, mi).s = Meaning(x.s, mi) /\ (mi.op # "USE" => After(x, mi).out = x.out)
  BY DEF After
<1>4. Trace(b, s0)[k - 1].s \in State
  BY <1>1, TraceType
<1>. QED
  BY <1>2, <1>3, <1>4

(* Block b with instruction k replaced by copies of r to d: block c, which  *)
(* goes on as b does behind its first n instructions.                       *)
CopiesLand(role, b, k, s0, d, r, c, n) ==
  /\ c \in Seq(Instrs(role)) /\ n \in Nat /\ n <= Len(c)
  /\ Len(c) - n = Len(b) - k
  /\ \A i \in k + 1..Len(b) : c[i - k + n] = b[i]
  /\ Trace(c, s0)[n].s \in State
  /\ Moved(Trace(b, s0)[k - 1].s, Trace(c, s0)[n].s, d, r)
  /\ Trace(c, s0)[n].out = Trace(b, s0)[k - 1].out

LEMMA CopiesLanded ==
  ASSUME NEW role, NEW b \in Seq(Instrs(role)), NEW k \in 1..Len(b), NEW s0 \in State,
         NEW d, NEW r, (d \in Regs /\ r \in Regs) \/ (d \in Pairs /\ r \in Pairs)
  PROVE  CopiesLand(role, b, k, s0, d, r, Spliced(b, k, d, r), Resumed(k, d, r))
BY CopiesRun DEF CopiesLand

(* A reload replaced by copies, or by nothing.                              *)
LEMMA ForwardReads ==
  ASSUME NEW role, NEW b \in Seq(Instrs(role)), NEW s0 \in State, NEW k \in 1..Len(b),
         b[k].op \in Reloads,
         NEW r, (b[k].reg \in Regs /\ r \in Regs) \/ (b[k].reg \in Pairs /\ r \in Pairs),
         b[k].kill \/ SameValue(Trace(b, s0)[k - 1].s, r, b[k].fi)
  PROVE  SameReads(b, Replace(b, k, Copies(b[k].reg, r)), s0)
<1>. DEFINE d == b[k].reg
            c == Spliced(b, k, d, r)
            n == Resumed(k, d, r)
            s == Trace(b, s0)[k - 1].s
            t == Trace(c, s0)[n].s
<1>1. /\ c \in Seq(Instrs(role)) /\ n \in Nat /\ n <= Len(c)
      /\ Len(c) - n = Len(b) - k
      /\ \A i \in k + 1..Len(b) : c[i - k + n] = b[i]
      /\ t \in State /\ Moved(s, t, d, r)
      /\ Trace(c, s0)[n].out = Trace(b, s0)[k - 1].out
  <2>1. (d \in Regs /\ r \in Regs) \/ (d \in Pairs /\ r \in Pairs)
    OBVIOUS
  <2>. HIDE DEF d
  <2>2. /\ c \in Seq(Instrs(role)) /\ n \in Nat /\ n <= Len(c)
        /\ Len(c) - n = Len(b) - k
        /\ \A i \in k + 1..Len(b) : c[i - k + n] = b[i]
        /\ Trace(c, s0)[n].s \in State
        /\ Moved(Trace(b, s0)[k - 1].s, Trace(c, s0)[n].s, d, r)
        /\ Trace(c, s0)[n].out = Trace(b, s0)[k - 1].out
    <3>1. CopiesLand(role, b, k, s0, d, r, Spliced(b, k, d, r), Resumed(k, d, r))
      BY <2>1, CopiesLanded
    <3>. QED
      BY <3>1, Zenon DEF CopiesLand
  <2>. QED
    BY <2>2
<1>2. b[k].op # "USE" /\ b[k] \in Instrs(role)
  BY DEF Reloads
<1>3. Trace(b, s0)[k].s = Meaning(s, b[k]) /\ Trace(b, s0)[k].out = Trace(b, s0)[k - 1].out /\ s \in State
  BY <1>2, SilentStep
<1>. HIDE DEF c, n, t, s
<1>4. Agree(role, Meaning(s, b[k]), t)
  BY <1>1, <1>2, <1>3, ForwardAgrees DEF s, d
<1>5. \A j \in 1..Len(b) - k : b[k + j] = c[n + j]
  <2>. SUFFICES ASSUME NEW j \in 1..Len(b) - k PROVE b[k + j] = c[n + j]
    OBVIOUS
  <2>1. k + j \in k + 1..Len(b) /\ (k + j) - k + n = n + j
    BY <1>1
  <2>. QED
    BY <1>1, <2>1
<1>6. k \in 0..Len(b) /\ n \in 0..Len(c)
  <2>1. Len(c) \in Nat
    BY <1>1
  <2>. QED
    BY <1>1, <2>1
<1>7. Trace(c, s0)[n].s = t
  BY DEF t
<1>8. SameReads(b, c, s0)
  BY <1>1, <1>3, <1>4, <1>5, <1>6, <1>7, MeetingReads
<1>. QED
  BY <1>8 DEF c, d, Spliced

(* An instruction erased whose effect is there already.                     *)
LEMMA EraseReads ==
  ASSUME NEW role, NEW b \in Seq(Instrs(role)), NEW s0 \in State, NEW k \in 1..Len(b), b[k].op # "USE",
         Agree(role, Meaning(Trace(b, s0)[k - 1].s, b[k]), Trace(b, s0)[k - 1].s)
  PROVE  SameReads(b, Replace(b, k, <<>>), s0)
<1>. DEFINE c == Replace(b, k, <<>>)
<1>1. /\ c \in Seq(Instrs(role)) /\ Len(c) = Len(b) - 1
      /\ \A i \in 1..k - 1 : c[i] = b[i]
      /\ \A i \in k + 1..Len(b) : c[i - 1] = b[i]
  BY EraseFacts
<1>. HIDE DEF c
<1>2. Len(b) \in Nat /\ Len(c) \in Nat /\ Len(c) = Len(b) - 1 /\ k \in 0..Len(b) /\ k - 1 \in 0..Len(c)
      /\ Len(b) - k = Len(c) - (k - 1)
  BY <1>1
<1>3. \A j \in 1..Len(b) - k : b[k + j] = c[k - 1 + j]
  <2>. SUFFICES ASSUME NEW j \in 1..Len(b) - k PROVE b[k + j] = c[k - 1 + j]
    OBVIOUS
  <2>1. k + j \in k + 1..Len(b) /\ k + j - 1 = k - 1 + j
    BY <1>2
  <2>. QED
    BY <1>1, <2>1
<1>4. Trace(c, s0)[k - 1] = Trace(b, s0)[k - 1]
  <2>1. k - 1 \in Nat /\ k - 1 <= Len(b) /\ k - 1 <= Len(c) /\ k - 1 \in 0..k - 1
    BY <1>2
  <2>2. \A i \in 1..k - 1 : c[i] = b[i]
    BY <1>1
  <2>3. Len(b) \in Nat /\ Len(c) \in Nat
    BY <1>2
  <2>4. \A i \in 0..k - 1 : Trace(c, s0)[i] = Trace(b, s0)[i]
    BY <2>1, <2>2, <2>3, TracePrefix
  <2>. QED
    BY <2>1, <2>4
<1>5. Trace(b, s0)[k].s = Meaning(Trace(b, s0)[k - 1].s, b[k])
      /\ Trace(b, s0)[k].out = Trace(b, s0)[k - 1].out
  BY SilentStep
<1>6. Agree(role, Trace(b, s0)[k].s, Trace(c, s0)[k - 1].s) /\ Trace(b, s0)[k].out = Trace(c, s0)[k - 1].out
  BY <1>4, <1>5
<1>7. SameReads(b, c, s0)
  <2>. DEFINE n == k - 1
  <2>. HIDE DEF n
  <2>1. /\ n \in 0..Len(c) /\ Len(b) - k = Len(c) - n
        /\ \A j \in 1..Len(b) - k : b[k + j] = c[n + j]
        /\ Agree(role, Trace(b, s0)[k].s, Trace(c, s0)[n].s) /\ Trace(b, s0)[k].out = Trace(c, s0)[n].out
    BY <1>2, <1>3, <1>6 DEF n
  <2>. QED
    BY <1>1, <1>2, <2>1, MeetingReads
<1>. QED
  BY <1>7 DEF c

(* A kill taken off a spill.                                                *)
LEMMA UnkilledReads ==
  ASSUME NEW role, NEW b \in Seq(Instrs(role)), NEW s0 \in State, NEW k \in 1..Len(b), b[k].op \in Spills
  PROVE  /\ SameReads(b, Unkilled(b, k), s0)
         /\ SameValue(Trace(Unkilled(b, k), s0)[k].s, b[k].reg, b[k].fi)
<1>. DEFINE c == Unkilled(b, k)
<1>1. /\ c \in Seq(Instrs(role)) /\ Len(c) = Len(b) /\ \A i \in 1..Len(b) : i # k => c[i] = b[i]
      /\ c[k].op = b[k].op /\ c[k].reg = b[k].reg /\ c[k].fi = b[k].fi /\ c[k].kill = FALSE
  BY UnkilledFacts
<1>. HIDE DEF c
<1>2. Len(b) \in Nat /\ k \in 1..Len(c) /\ k \in 0..Len(b) /\ k \in 0..Len(c)
      /\ c[k] \in Instrs(role) /\ b[k] \in Instrs(role) /\ b[k].op # "USE"
  BY <1>1 DEF Spills
<1>3. Trace(c, s0)[k - 1] = Trace(b, s0)[k - 1]
  <2>1. k - 1 \in Nat /\ k - 1 <= Len(b) /\ k - 1 <= Len(c) /\ k - 1 \in 0..k - 1
    BY <1>1, <1>2
  <2>2. \A i \in 1..k - 1 : c[i] = b[i]
    BY <1>1, <1>2
  <2>3. \A i \in 0..k - 1 : Trace(c, s0)[i] = Trace(b, s0)[i]
    BY <1>1, <1>2, <2>1, <2>2, TracePrefix
  <2>. QED
    BY <2>1, <2>3
<1>. DEFINE s == Trace(b, s0)[k - 1].s
<1>4. Trace(b, s0)[k].s = Meaning(s, b[k]) /\ Trace(b, s0)[k].out = Trace(b, s0)[k - 1].out /\ s \in State
  BY <1>2, SilentStep
<1>5. Trace(c, s0)[k].s = Meaning(s, c[k]) /\ Trace(c, s0)[k].out = Trace(b, s0)[k - 1].out
  BY <1>1, <1>2, <1>3, SilentStep
<1>. HIDE DEF s
<1>6. Agree(role, Meaning(s, b[k]), Meaning(s, c[k]))
  BY <1>1, <1>2, <1>4, KillAgrees
<1>7. \A j \in 1..Len(b) - k : b[k + j] = c[k + j]
  BY <1>1, <1>2
<1>8. SameReads(b, c, s0)
  BY <1>1, <1>2, <1>4, <1>5, <1>6, <1>7, MeetingReads
<1>9. SameValue(Meaning(s, c[k]), c[k].reg, c[k].fi)
  BY <1>1, <1>2, <1>4, SpillFacts
<1>. QED
  BY <1>1, <1>5, <1>8, <1>9 DEF c

LEMMA ReadsTransitive ==
  ASSUME NEW b, NEW c, NEW e, NEW s0, SameReads(b, c, s0), SameReads(c, e, s0)
  PROVE  SameReads(b, e, s0)
BY DEF SameReads

LEMMA KilledReads ==
  ASSUME NEW role, NEW b \in Seq(Instrs(role)), NEW s0 \in State, NEW k \in Nat \ {0}, k < Len(b),
         b[k].op \in Spills, b[k + 1].op \in Reloads, b[k + 1].fi = b[k].fi
  PROVE  SameReads(b, Replace(Unkilled(b, k), k + 1, Copies(b[k + 1].reg, b[k].reg)), s0)
<1>. DEFINE u == Unkilled(b, k)
            r == b[k].reg
<1>1. Len(b) \in Nat /\ k \in 1..Len(b) /\ k + 1 \in 1..Len(b) /\ k + 1 # k /\ k + 1 - 1 = k
  OBVIOUS
<1>2. /\ u \in Seq(Instrs(role)) /\ Len(u) = Len(b) /\ \A i \in 1..Len(b) : i # k => u[i] = b[i]
  BY <1>1, UnkilledFacts
<1>3. SameReads(b, u, s0) /\ SameValue(Trace(u, s0)[k].s, r, b[k].fi)
  BY <1>1, UnkilledReads
<1>. HIDE DEF u
<1>4. PICK j : j = k + 1
  OBVIOUS
<1>5. /\ j \in 1..Len(u) /\ j - 1 = k /\ u[j] = b[k + 1] /\ u[j].op \in Reloads /\ u[j].fi = b[k].fi
  BY <1>1, <1>2, <1>4
<1>6. (u[j].reg \in Regs /\ r \in Regs) \/ (u[j].reg \in Pairs /\ r \in Pairs)
  <2>1. u[j] \in Instrs(role) /\ b[k] \in Instrs(role)
    BY <1>1, <1>2, <1>5
  <2>2. /\ role[b[k].fi] = "byte" => u[j].reg \in Regs
        /\ role[b[k].fi] = "word" => u[j].reg \in Pairs
    BY <1>5, <2>1, OperandFacts
  <2>3. /\ role[b[k].fi] \in {"byte", "word"}
        /\ role[b[k].fi] = "byte" => r \in Regs
        /\ role[b[k].fi] = "word" => r \in Pairs
    BY <2>1, OperandFacts
  <2>. QED
    BY <2>2, <2>3
<1>7. SameValue(Trace(u, s0)[j - 1].s, r, u[j].fi)
  BY <1>3, <1>5
<1>. HIDE DEF r
<1>8. SameReads(u, Replace(u, j, Copies(u[j].reg, r)), s0)
  BY <1>2, <1>5, <1>6, <1>7, ForwardReads
<1>9. SameReads(b, Replace(u, j, Copies(u[j].reg, r)), s0)
  BY <1>3, <1>8, ReadsTransitive
<1>. QED
  BY <1>4, <1>5, <1>9 DEF u, r

-----------------------------------------------------------------------------
(* The block as given reads no register after it is killed.                 *)
KnownReads == ~Undefined(Observed(given, AbstractAtStart))

(* The block as rewritten so far reads what the block as given reads.       *)
GivenReads == Observed(mbb, AbstractAtStart) = Observed(given, AbstractAtStart)

LEMMA WalkReads ==
  ASSUME NEW role, Right(role, mbb, walk, Avail, AbstractAtStart), Forward, ~WalkDone
  PROVE  SameReads(mbb, mbb', AbstractAtStart)
<1>. DEFINE s0 == AbstractAtStart
            s == Trace(mbb, s0)[walk - 1].s
            mi == mbb[walk]
<1>0. s0 \in State
  BY StartType
<1>. HIDE DEF s0
<1>1. Right(role, mbb, walk, Avail, s0)
  BY DEF s0
<1>2. mbb \in Seq(Instrs(role)) /\ Len(mbb) \in Nat /\ walk \in 1..Len(mbb) + 1 /\ Avail \in Memory(role)
  BY <1>1 DEF Right
<1>3. Walking => /\ walk \in 1..Len(mbb) /\ mi \in Instrs(role) /\ s \in State /\ Sound(s, Avail)
  BY <1>0, <1>1, <1>2, HereFacts DEF Walking
<1>. HIDE DEF mi, s
<1>4. CASE EraseSpill
  <2>1. Walking /\ mi.op \in Spills /\ ~mi.kill /\ Avail[mi.fi] = mi.reg /\ mbb' = Replace(mbb, walk, <<>>)
    BY <1>4 DEF EraseSpill, MI, Walk, mi
  <2>2. mi.fi \in Slots /\ mi.reg # NoReg /\ mi.op # "USE"
    BY <1>3, <2>1, OperandFacts, PartsFacts DEF Spills
  <2>3. SameValue(s, mi.reg, mi.fi)
    BY <1>3, <2>1, <2>2 DEF Sound
  <2>4. Agree(role, Meaning(s, mi), s)
    BY <1>3, <2>1, <2>3, SpillAgrees
  <2>5. SameReads(mbb, Replace(mbb, walk, <<>>), s0)
    BY <1>0, <1>2, <1>3, <2>1, <2>2, <2>4, EraseReads DEF s, mi
  <2>. QED
    BY <2>1, <2>5 DEF s0
<1>5. CASE EraseDeadReload
  <2>1. Walking /\ mi.op \in Reloads /\ mi.kill /\ mbb' = Replace(mbb, walk, <<>>)
    BY <1>5 DEF EraseDeadReload, MI, Walk, mi
  <2>2. mi.op # "USE"
    BY <2>1 DEF Reloads
  <2>3. Agree(role, Meaning(s, mi), s)
    BY <1>3, <2>1, DeadAgrees
  <2>4. SameReads(mbb, Replace(mbb, walk, <<>>), s0)
    BY <1>0, <1>2, <1>3, <2>1, <2>2, <2>3, EraseReads DEF s, mi
  <2>. QED
    BY <2>1, <2>4 DEF s0
<1>6. CASE ForwardReload
  <2>. DEFINE r == Avail[mi.fi]
  <2>1. Walking /\ mi.op \in Reloads /\ r # NoReg /\ mbb' = Replace(mbb, walk, Copies(mi.reg, r))
    BY <1>6 DEF ForwardReload, MI, Walk, mi
  <2>2. /\ mi.fi \in Slots /\ role[mi.fi] \in {"byte", "word"}
        /\ role[mi.fi] = "byte" => mi.reg \in Regs
        /\ role[mi.fi] = "word" => mi.reg \in Pairs
    BY <1>3, <2>1, OperandFacts
  <2>3. (mi.reg \in Regs /\ r \in Regs) \/ (mi.reg \in Pairs /\ r \in Pairs)
    <3>1. /\ r \in Regs \cup Pairs
          /\ r \in Regs => role[mi.fi] = "byte"
          /\ r \in Pairs => role[mi.fi] = "word"
      BY <1>2, <2>1, <2>2 DEF Memory, Kept
    <3>. QED
      BY <2>2, <3>1
  <2>4. SameValue(s, r, mi.fi)
    BY <1>3, <2>1, <2>2 DEF Sound
  <2>. HIDE DEF r
  <2>5. SameReads(mbb, Replace(mbb, walk, Copies(mi.reg, r)), s0)
    BY <1>0, <1>2, <1>3, <2>1, <2>3, <2>4, ForwardReads DEF s, mi
  <2>. QED
    BY <2>1, <2>5 DEF s0
<1>7. CASE ForwardKilled
  <2>1. /\ Walking /\ mi.op \in Spills /\ walk < Len(mbb)
        /\ mbb[walk + 1].op \in Reloads /\ mbb[walk + 1].fi = mi.fi
        /\ mbb' = Replace(Unkilled(mbb, walk), walk + 1, Copies(mbb[walk + 1].reg, mi.reg))
    BY <1>7 DEF ForwardKilled, ReloadedNext, MI, Walk, mi, Unkilled
  <2>2. walk \in Nat \ {0}
    BY <1>2
  <2>3. SameReads(mbb, Replace(Unkilled(mbb, walk), walk + 1, Copies(mbb[walk + 1].reg, mi.reg)), s0)
    BY <1>0, <1>2, <2>1, <2>2, KilledReads DEF mi
  <2>. QED
    BY <2>1, <2>3 DEF s0
<1>8. CASE RecordSpill \/ KillSpill \/ KeepReload \/ AtCall \/ AtOther
  <2>1. mbb' = mbb
    BY <1>8 DEF RecordSpill, KillSpill, KeepReload, AtCall, AtOther, Walk
  <2>. QED
    BY <2>1 DEF SameReads
<1>. QED
  BY <1>4, <1>5, <1>6, <1>7, <1>8 DEF Forward

LEMMA ReadsStep ==
  WalkInv /\ GivenReads /\ KnownReads /\ [Next]_vars => GivenReads'
<1>. SUFFICES ASSUME WalkInv, GivenReads, KnownReads, [Next]_vars
              PROVE  GivenReads'
  OBVIOUS
<1>1. CASE Forward /\ ~WalkDone
  <2>1. given' = given /\ frame' = frame /\ walk # 0
    BY <1>1 DEF Forward, EraseSpill, RecordSpill, ForwardKilled, KillSpill, EraseDeadReload,
                ForwardReload, KeepReload, AtCall, AtOther, Walk, Walking
  <2>2. PICK role \in [Slots -> Roles] : Right(role, mbb, walk, Avail, AbstractAtStart)
    BY <2>1 DEF WalkInv
  <2>3. SameReads(mbb, mbb', AbstractAtStart)
    BY <1>1, <2>2, WalkReads
  <2>4. Observed(mbb', AbstractAtStart) = Observed(given, AbstractAtStart)
    BY <2>3 DEF SameReads, GivenReads, KnownReads
  <2>. QED
    BY <2>1, <2>4, StartKept DEF GivenReads
<1>2. CASE WalkDone \/ Run \/ UNCHANGED vars
  <2>1. mbb' = mbb /\ given' = given /\ frame' = frame
    BY <1>2 DEF WalkDone, Run, Eliminate, Execute, Interrupt, fwdVars, vars, elimVars
  <2>. QED
    BY <2>1, StartKept DEF GivenReads
<1>. QED
  BY <1>1, <1>2 DEF Next

(* Whatever the block: the walk changes nothing that the block reads.  At   *)
(* every moment the block it has made reads, instruction by instruction,    *)
(* the values the block as given reads: a reload is only forwarded from a   *)
(* register that still has the value, a spill only deleted when the slot    *)
(* has it already.                                                          *)
THEOREM WalkKeepsReads ==
  Spec /\ []KillsForgotten /\ []KnownReads => []GivenReads
<1>1. Init => WalkInv /\ GivenReads
  BY WalkStarts DEF Init, GivenReads
<1>2. WalkInv /\ KillsForgotten /\ [Next]_vars => WalkInv'
  BY WalkStep
<1>3. WalkInv /\ GivenReads /\ KnownReads /\ [Next]_vars => GivenReads'
  BY ReadsStep
<1>. QED
  BY <1>1, <1>2, <1>3, PTL DEF Spec

-----------------------------------------------------------------------------
(* Bytes and addresses.                                                     *)
LEMMA Monotone ==
  ASSUME NEW n \in Nat, NEW x \in Int, NEW y \in Int, x <= y
  PROVE  n * x <= n * y
<1>1. y - x \in Nat
  OBVIOUS
<1>2. n * (y - x) \in Nat
  <2>. DEFINE d == y - x
  <2>1. d \in Nat
    BY <1>1
  <2>. HIDE DEF d
  <2>2. n * d \in Nat
    BY <2>1
  <2>. QED
    BY <2>2 DEF d
<1>3. n * (y - x) = n * y - n * x
  OBVIOUS
<1>4. n * y \in Int /\ n * x \in Int
  OBVIOUS
<1>. QED
  BY <1>2, <1>3, <1>4

LEMMA OneQuotient ==
  ASSUME NEW n \in Nat \ {0}, NEW h \in Int, NEW q \in Int, NEW l \in 0..(n - 1), NEW r \in 0..(n - 1),
         n * h + l = n * q + r
  PROVE  h = q /\ l = r
<1>1. n * h \in Int /\ n * q \in Int /\ n * (h + 1) = n * h + n /\ n * (q + 1) = n * q + n
  OBVIOUS
<1>2. ~(h < q)
  <2>1. SUFFICES ASSUME h + 1 <= q PROVE FALSE
    OBVIOUS
  <2>2. n * (h + 1) <= n * q
    BY <2>1, Monotone
  <2>. QED
    BY <1>1, <2>2
<1>3. ~(q < h)
  <2>1. SUFFICES ASSUME q + 1 <= h PROVE FALSE
    OBVIOUS
  <2>2. n * (q + 1) <= n * h
    BY <2>1, Monotone
  <2>. QED
    BY <1>1, <2>2
<1>. QED
  BY <1>2, <1>3, <1>1

LEMMA ByteFacts ==
  /\ ByteSize \in Nat /\ ByteSize >= 8 /\ ByteSize * ByteSize \in Nat
  /\ Byte \subseteq Nat /\ Addr \subseteq Nat /\ 0..7 \subseteq Byte
  /\ \A h, l \in Byte : /\ h * ByteSize + l \in Addr
                        /\ (h * ByteSize + l) \div ByteSize = h
                        /\ (h * ByteSize + l) % ByteSize = l
  /\ \A v \in Addr : /\ v \div ByteSize \in Byte /\ v % ByteSize \in Byte
                     /\ (v \div ByteSize) * ByteSize + (v % ByteSize) = v
<1>. DEFINE N == ByteSize
<1>1. N \in Nat /\ N >= 8
  BY ByteSizeAssumption
<1>. HIDE DEF N
<1>2. N * N \in Nat
  BY <1>1
<1>3. ASSUME NEW h \in 0..(N - 1), NEW l \in 0..(N - 1)
      PROVE  /\ h * N + l \in 0..(N * N - 1)
             /\ (h * N + l) \div N = h /\ (h * N + l) % N = l
  <2>1. h * N \in Nat /\ h * N <= (N - 1) * N
    BY <1>1
  <2>2. (N - 1) * N = N * N - N
    BY <1>1
  <2>3. h * N + l \in 0..(N * N - 1)
    BY <1>1, <1>2, <2>1, <2>2
  <2>. DEFINE x == h * N + l
              q == x \div N
              r == x % N
  <2>4. x \in Nat
    BY <1>1, <2>1
  <2>5. q \in Int /\ r \in 0..(N - 1) /\ x = N * q + r
    <3>. HIDE DEF x
    <3>. QED
      BY <1>1, <2>4
  <2>. HIDE DEF q, r
  <2>6. N * h + l = N * q + r
    <3>1. h * N = N * h
      BY <1>1
    <3>2. x = N * q + r
      BY <2>5
    <3>. QED
      BY <3>1, <3>2
  <2>7. h \in Int
    BY <1>1
  <2>8. h = q /\ l = r
    BY <1>1, <2>5, <2>6, <2>7, OneQuotient
  <2>. QED
    BY <2>3, <2>8 DEF q, r
<1>4. ASSUME NEW v \in 0..(N * N - 1)
      PROVE  /\ v \div N \in 0..(N - 1) /\ v % N \in 0..(N - 1)
             /\ (v \div N) * N + (v % N) = v
  <2>. DEFINE q == v \div N
  <2>1. q \in Int /\ v % N \in 0..(N - 1) /\ v = N * q + (v % N)
    BY <1>1, <1>2
  <2>6. v >= 0 /\ v < N * N /\ N * q \in Int /\ v \in Int
    <3>1. N * q \in Int
      BY <1>1, <2>1
    <3>. QED
      BY <1>2, <3>1
  <2>. HIDE DEF q
  <2>2. q >= 0
    <3>1. SUFFICES ASSUME q <= -1 PROVE FALSE
      BY <2>1
    <3>2. N * q <= N * (-1) /\ N * (-1) = -N
      BY <1>1, <2>1, <3>1, Monotone
    <3>. DEFINE y == N * q
                r == v % N
    <3>3. y \in Int /\ r \in 0..(N - 1) /\ v = y + r
      BY <2>1, <2>6
    <3>. HIDE DEF y, r
    <3>. QED
      BY <1>1, <1>2, <2>6, <3>2, <3>3 DEF y
  <2>3. q < N
    <3>1. SUFFICES ASSUME q >= N PROVE FALSE
      BY <1>1, <2>1
    <3>2. N * N <= N * q
      BY <1>1, <2>1, <3>1, Monotone
    <3>. DEFINE y == N * q
                r == v % N
    <3>3. y \in Int /\ r \in 0..(N - 1) /\ v = y + r
      BY <2>1, <2>6
    <3>. HIDE DEF y, r
    <3>. QED
      BY <1>1, <1>2, <2>6, <3>2, <3>3 DEF y
  <2>4. N * q = q * N
    BY <1>1, <2>1
  <2>5. q \in 0..(N - 1) /\ q * N + (v % N) = v
    BY <1>1, <1>2, <2>1, <2>2, <2>3, <2>4
  <2>. QED
    BY <2>1, <2>5 DEF q
<1>. QED
  BY <1>1, <1>2, <1>3, <1>4 DEF N, Byte, Addr

LEMMA WrapFacts ==
  /\ \A v \in Addr : Wrap(v) = v
  /\ \A v \in Addr : v >= 2 => Wrap(v + ByteSize * ByteSize - 2) = v - 2
<1>. DEFINE W == ByteSize * ByteSize
<1>1. W \in Nat /\ Addr = 0..(W - 1) /\ \A v : Wrap(v) = v % W
  BY ByteFacts DEF Addr, Wrap
<1>. HIDE DEF W
<1>2. \A v \in 0..(W - 1) : v % W = v /\ (v >= 2 => (v + W - 2) % W = v - 2)
  <2>. TAKE v \in 0..(W - 1)
  <2>1. W > 0 /\ v % W = v
    BY <1>1
  <2>2. ASSUME v >= 2 PROVE (v + W - 2) % W = v - 2
    BY <1>1, <2>1, <2>2
  <2>. QED
    BY <2>1, <2>2
<1>. QED
  BY <1>1, <1>2 DEF W

-----------------------------------------------------------------------------
AllRegs == Regs \cup {"F"}

(* The parts of a machine, and a machine with others of them.               *)
WithReg(x, g) == [reg |-> g, sp |-> x.sp, mem |-> x.mem]
WithMem(x, h) == [reg |-> x.reg, sp |-> x.sp, mem |-> h]

LEMMA MachineParts ==
  ASSUME NEW x \in Machine
  PROVE  /\ x.reg \in [AllRegs -> Byte] /\ x.sp \in Addr /\ x.mem \in [Addr -> Byte]
         /\ x = [reg |-> x.reg, sp |-> x.sp, mem |-> x.mem]
<1>. DEFINE R == [AllRegs -> Byte]
            T == [Addr -> Byte]
<1>1. x \in [reg : R, sp : Addr, mem : T]
  BY DEF Machine, AllRegs
<1>. HIDE DEF R, T
<1>2. /\ x.reg \in R /\ x.sp \in Addr /\ x.mem \in T
      /\ x = [reg |-> x.reg, sp |-> x.sp, mem |-> x.mem]
  BY <1>1
<1>. QED
  BY <1>2 DEF R, T

LEMMA MachineOf ==
  ASSUME NEW g \in [AllRegs -> Byte], NEW s \in Addr, NEW h \in [Addr -> Byte]
  PROVE  [reg |-> g, sp |-> s, mem |-> h] \in Machine
<1>. DEFINE R == [AllRegs -> Byte]
            T == [Addr -> Byte]
<1>1. g \in R /\ h \in T
  OBVIOUS
<1>. HIDE DEF R, T
<1>2. [reg |-> g, sp |-> s, mem |-> h] \in [reg : R, sp : Addr, mem : T]
  BY <1>1
<1>. QED
  BY <1>2 DEF Machine, R, T, AllRegs

(* From x to y the stack pointer stays, registers change only in S and      *)
(* memory only in X.                                                        *)
Changed(x, y, S, X) ==
  /\ x \in Machine /\ y \in Machine
  /\ y.sp = x.sp
  /\ \A r \in AllRegs \ S : y.reg[r] = x.reg[r]
  /\ \A i \in Addr \ X : y.mem[i] = x.mem[i]

(* Other registers, or another memory.                                      *)
LEMMA RegEffect ==
  ASSUME NEW x \in Machine, NEW g \in [AllRegs -> Byte], NEW S, \A r \in AllRegs \ S : g[r] = x.reg[r]
  PROVE  Changed(x, WithReg(x, g), S, {}) /\ WithReg(x, g).reg = g /\ WithReg(x, g).mem = x.mem
<1>1. WithReg(x, g) \in Machine
  BY MachineParts, MachineOf DEF WithReg
<1>2. WithReg(x, g).reg = g /\ WithReg(x, g).sp = x.sp /\ WithReg(x, g).mem = x.mem
  BY DEF WithReg
<1>. QED
  BY <1>1, <1>2 DEF Changed

LEMMA MemEffect ==
  ASSUME NEW x \in Machine, NEW h \in [Addr -> Byte], NEW X, \A i \in Addr \ X : h[i] = x.mem[i]
  PROVE  Changed(x, WithMem(x, h), {}, X) /\ WithMem(x, h).mem = h /\ WithMem(x, h).reg = x.reg
<1>1. WithMem(x, h) \in Machine
  BY MachineParts, MachineOf DEF WithMem
<1>2. WithMem(x, h).mem = h /\ WithMem(x, h).sp = x.sp /\ WithMem(x, h).reg = x.reg
  BY DEF WithMem
<1>. QED
  BY <1>1, <1>2 DEF Changed

LEMMA PairFacts ==
  /\ \A p \in Pairs \cup {"PSW"} : Hi[p] \in AllRegs /\ Lo[p] \in AllRegs /\ Hi[p] # Lo[p]
  /\ Hi["HL"] = "H" /\ Lo["HL"] = "L" /\ Hi["DE"] = "D" /\ Lo["DE"] = "E" /\ Hi["BC"] = "B" /\ Lo["BC"] = "C"
  /\ Hi["PSW"] = "A" /\ Lo["PSW"] = "F" /\ {"HL", "DE", "BC"} = Pairs
  /\ \A x \in Machine : \A p \in Pairs : Pair(x, p) \in Addr
<1>1. /\ \A p \in Pairs \cup {"PSW"} : Hi[p] \in AllRegs /\ Lo[p] \in AllRegs /\ Hi[p] # Lo[p]
      /\ Hi["HL"] = "H" /\ Lo["HL"] = "L" /\ Hi["DE"] = "D" /\ Lo["DE"] = "E" /\ Hi["BC"] = "B" /\ Lo["BC"] = "C"
      /\ Hi["PSW"] = "A" /\ Lo["PSW"] = "F" /\ {"HL", "DE", "BC"} = Pairs
  BY DEF Pairs, Hi, Lo, Regs, AllRegs
<1>2. ASSUME NEW x \in Machine, NEW p \in Pairs PROVE Pair(x, p) \in Addr
  <2>1. x.reg[Hi[p]] \in Byte /\ x.reg[Lo[p]] \in Byte
    BY <1>1, MachineParts
  <2>. QED
    BY <2>1, ByteFacts DEF Pair
<1>. QED
  BY <1>1, <1>2

(* A pair given the value v; memory read and written.                       *)
LEMMA SetPairFacts ==
  ASSUME NEW g \in [AllRegs -> Byte], NEW p \in Pairs \cup {"PSW"}, NEW v \in Addr
  PROVE  /\ SetPair(g, p, v) \in [AllRegs -> Byte]
         /\ SetPair(g, p, v)[Hi[p]] = v \div ByteSize /\ SetPair(g, p, v)[Lo[p]] = v % ByteSize
         /\ \A r \in AllRegs : r \notin {Hi[p], Lo[p]} => SetPair(g, p, v)[r] = g[r]
<1>. DEFINE q == v \div ByteSize
            l == v % ByteSize
<1>1. q \in Byte /\ l \in Byte
  BY ByteFacts
<1>. HIDE DEF q, l
<1>2. SetPair(g, p, v) = [g EXCEPT ![Hi[p]] = q, ![Lo[p]] = l]
  BY DEF SetPair, q, l
<1>. QED
  BY <1>1, <1>2, PairFacts DEF q, l

LEMMA MemoryAt ==
  ASSUME NEW h \in [Addr -> Byte], NEW n \in Addr, NEW v \in Byte
  PROVE  /\ At(h, n) = h[n]
         /\ StoreAt(h, n, v) \in [Addr -> Byte] /\ StoreAt(h, n, v)[n] = v
         /\ \A i \in Addr \ {n} : StoreAt(h, n, v)[i] = h[i]
BY DEF At, StoreAt

LEMMA WordAt ==
  ASSUME NEW h \in [Addr -> Byte], NEW n \in Addr, n + 1 \in Addr, NEW hi \in Byte, NEW lo \in Byte
  PROVE  /\ PutWord(h, n, hi, lo) \in [Addr -> Byte]
         /\ PutWord(h, n, hi, lo)[n] = lo /\ PutWord(h, n, hi, lo)[n + 1] = hi
         /\ \A i \in Addr \ {n, n + 1} : PutWord(h, n, hi, lo)[i] = h[i]
<1>1. n # n + 1
  BY ByteFacts
<1>2. PutWord(h, n, hi, lo) = StoreAt(StoreAt(h, n, lo), n + 1, hi)
  BY WrapFacts DEF PutWord
<1>. DEFINE h1 == StoreAt(h, n, lo)
            h2 == StoreAt(h1, n + 1, hi)
<1>3. h1 \in [Addr -> Byte] /\ h1[n] = lo /\ \A i \in Addr \ {n} : h1[i] = h[i]
  <2>1. h1 \in [Addr -> Byte]
    BY MemoryAt
  <2>2. h1[n] = lo
    BY MemoryAt
  <2>3. \A i \in Addr \ {n} : h1[i] = h[i]
    BY MemoryAt
  <2>. QED
    BY <2>1, <2>2, <2>3
<1>. HIDE DEF h1
<1>4. h2 \in [Addr -> Byte] /\ h2[n + 1] = hi /\ \A i \in Addr \ {n + 1} : h2[i] = h1[i]
  <2>1. h2 \in [Addr -> Byte]
    BY <1>3, MemoryAt
  <2>2. h2[n + 1] = hi
    BY <1>3, MemoryAt
  <2>3. \A i \in Addr \ {n + 1} : h2[i] = h1[i]
    BY <1>3, MemoryAt
  <2>. QED
    BY <2>1, <2>2, <2>3
<1>. HIDE DEF h2
<1>5. PutWord(h, n, hi, lo) = h2
  BY <1>2 DEF h1, h2
<1>. QED
  BY <1>1, <1>3, <1>4, <1>5

-----------------------------------------------------------------------------
(* The effect of each instruction.                                          *)
LEMMA MovEffect ==
  ASSUME NEW x \in Machine, NEW d \in Regs, NEW s \in Regs
  PROVE  /\ Changed(x, Exec(x, Mov(d, s)), {d}, {})
         /\ Exec(x, Mov(d, s)).reg[d] = x.reg[s] /\ Exec(x, Mov(d, s)).mem = x.mem
<1>. DEFINE g == [x.reg EXCEPT ![d] = x.reg[s]]
<1>1. /\ g \in [AllRegs -> Byte] /\ g[d] = x.reg[s]
      /\ \A r \in AllRegs \ {d} : g[r] = x.reg[r]
  BY MachineParts DEF AllRegs
<1>2. Exec(x, Mov(d, s)) = WithReg(x, g)
  BY MachineParts DEF Exec, AluOps, Rotates, Instr, WithReg, WithMem, Mov
<1>. HIDE DEF g
<1>. QED
  BY <1>1, <1>2, RegEffect

LEMMA MovFromMEffect ==
  ASSUME NEW x \in Machine, NEW d \in Regs
  PROVE  /\ Changed(x, Exec(x, MovFromM(d)), {d}, {})
         /\ Exec(x, MovFromM(d)).reg[d] = x.mem[Pair(x, "HL")] /\ Exec(x, MovFromM(d)).mem = x.mem
<1>. DEFINE v == x.mem[Pair(x, "HL")]
            g == [x.reg EXCEPT ![d] = v]
<1>1. At(x.mem, Pair(x, "HL")) = v /\ v \in Byte
  BY MachineParts, PairFacts DEF At
<1>2. Exec(x, MovFromM(d)) = WithReg(x, g)
  BY <1>1, MachineParts DEF Exec, AluOps, Rotates, Instr, WithReg, WithMem, MovFromM
<1>3. /\ g \in [AllRegs -> Byte] /\ g[d] = v
      /\ \A r \in AllRegs \ {d} : g[r] = x.reg[r]
  BY <1>1, MachineParts DEF AllRegs
<1>. HIDE DEF g
<1>. QED
  BY <1>2, <1>3, RegEffect

LEMMA MovToMEffect ==
  ASSUME NEW x \in Machine, NEW s \in Regs
  PROVE  /\ Changed(x, Exec(x, MovToM(s)), {}, {Pair(x, "HL")})
         /\ Exec(x, MovToM(s)).mem[Pair(x, "HL")] = x.reg[s] /\ Exec(x, MovToM(s)).reg = x.reg
<1>. DEFINE n == Pair(x, "HL")
            h == StoreAt(x.mem, n, x.reg[s])
<1>1. n \in Addr /\ x.reg[s] \in Byte /\ x.mem \in [Addr -> Byte]
  BY MachineParts, PairFacts DEF AllRegs
<1>. HIDE DEF n
<1>2. h \in [Addr -> Byte] /\ h[n] = x.reg[s] /\ \A i \in Addr \ {n} : h[i] = x.mem[i]
  BY <1>1, MemoryAt
<1>3. Exec(x, MovToM(s)) = WithMem(x, h)
  BY MachineParts DEF Exec, AluOps, Rotates, Instr, WithReg, WithMem, MovToM, n
<1>. HIDE DEF h
<1>. QED
  BY <1>2, <1>3, MemEffect DEF n

LEMMA MviEffect ==
  ASSUME NEW x \in Machine, NEW d \in Regs, NEW n \in Byte
  PROVE  /\ Changed(x, Exec(x, Mvi(d, n)), {d}, {})
         /\ Exec(x, Mvi(d, n)).reg[d] = n /\ Exec(x, Mvi(d, n)).mem = x.mem
<1>. DEFINE g == [x.reg EXCEPT ![d] = n]
<1>1. /\ g \in [AllRegs -> Byte] /\ g[d] = n
      /\ \A r \in AllRegs \ {d} : g[r] = x.reg[r]
  BY MachineParts DEF AllRegs
<1>2. Exec(x, Mvi(d, n)) = WithReg(x, g)
  BY MachineParts DEF Exec, AluOps, Rotates, Instr, WithReg, WithMem, Mvi
<1>. HIDE DEF g
<1>. QED
  BY <1>1, <1>2, RegEffect

(* A pair p that gets the value v.                                          *)
LEMMA PairEffect ==
  ASSUME NEW x \in Machine, NEW p \in Pairs, NEW v \in Addr
  PROVE  LET y == WithReg(x, SetPair(x.reg, p, v)) IN
         /\ Changed(x, y, {Hi[p], Lo[p]}, {}) /\ y.mem = x.mem
         /\ y.reg[Hi[p]] = v \div ByteSize /\ y.reg[Lo[p]] = v % ByteSize /\ Pair(y, p) = v
<1>. DEFINE g == SetPair(x.reg, p, v)
            q == v \div ByteSize
            l == v % ByteSize
            y == WithReg(x, g)
<1>1. /\ g \in [AllRegs -> Byte]
      /\ g[Hi[p]] = q /\ g[Lo[p]] = l
      /\ \A r \in AllRegs : r \notin {Hi[p], Lo[p]} => g[r] = x.reg[r]
  <2>1. x.reg \in [AllRegs -> Byte]
    BY MachineParts
  <2>2. g \in [AllRegs -> Byte]
    BY <2>1, SetPairFacts
  <2>0. p \in Pairs \cup {"PSW"}
    OBVIOUS
  <2>3. g[Hi[p]] = q /\ g[Lo[p]] = l
    BY Zenon, <2>0, <2>1, SetPairFacts
  <2>4. \A r \in AllRegs : r \notin {Hi[p], Lo[p]} => g[r] = x.reg[r]
    BY Zenon, <2>0, <2>1, SetPairFacts
  <2>. QED
    BY <2>2, <2>3, <2>4
<1>2. q * ByteSize + l = v
  BY ByteFacts
<1>. HIDE DEF g, q, l
<1>3. Changed(x, y, {Hi[p], Lo[p]}, {}) /\ y.mem = x.mem /\ y.reg = g
  BY <1>1, RegEffect
<1>. HIDE DEF y
<1>4. Pair(y, p) = v
  BY <1>1, <1>2, <1>3 DEF Pair
<1>. QED
  BY <1>1, <1>3, <1>4 DEF q, l, y, g

LEMMA LxiEffect ==
  ASSUME NEW x \in Machine, NEW p \in Pairs, NEW v \in Addr
  PROVE  /\ Changed(x, Exec(x, Lxi(p, v)), {Hi[p], Lo[p]}, {}) /\ Exec(x, Lxi(p, v)).mem = x.mem
         /\ Exec(x, Lxi(p, v)).reg[Hi[p]] = v \div ByteSize /\ Exec(x, Lxi(p, v)).reg[Lo[p]] = v % ByteSize
         /\ Pair(Exec(x, Lxi(p, v)), p) = v
<1>1. p # "SP"
  BY DEF Pairs
<1>2. Exec(x, Lxi(p, v)) = WithReg(x, SetPair(x.reg, p, v))
  BY <1>1, MachineParts DEF Exec, AluOps, Rotates, Instr, WithReg, Lxi
<1>. DEFINE y == WithReg(x, SetPair(x.reg, p, v))
<1>3. /\ Changed(x, y, {Hi[p], Lo[p]}, {}) /\ y.mem = x.mem
      /\ y.reg[Hi[p]] = v \div ByteSize /\ y.reg[Lo[p]] = v % ByteSize /\ Pair(y, p) = v
  BY PairEffect
<1>. QED
  BY <1>2, <1>3

LEMMA InxEffect ==
  ASSUME NEW x \in Machine, Pair(x, "HL") + 1 \in Addr
  PROVE  /\ Changed(x, Exec(x, Inx("HL")), {"H", "L"}, {}) /\ Exec(x, Inx("HL")).mem = x.mem
         /\ Pair(Exec(x, Inx("HL")), "HL") = Pair(x, "HL") + 1
<1>. DEFINE v == Pair(x, "HL") + 1
<1>1. Wrap(v) = v
  BY WrapFacts
<1>2. Exec(x, Inx("HL")) = WithReg(x, SetPair(x.reg, "HL", v))
  BY <1>1, MachineParts DEF Exec, AluOps, Rotates, Instr, WithReg, Inx
<1>3. v \in Addr /\ "HL" \in Pairs
  BY PairFacts
<1>. HIDE DEF v
<1>. QED
  BY <1>2, <1>3, PairEffect, PairFacts DEF v

LEMMA DadSpEffect ==
  ASSUME NEW x \in Machine, Pair(x, "HL") + x.sp \in Addr
  PROVE  /\ Changed(x, Exec(x, DadSp), {"H", "L", "F"}, {}) /\ Exec(x, DadSp).mem = x.mem
         /\ Exec(x, DadSp).reg["F"] = x.reg["F"] - Carry(x.reg["F"])
         /\ Pair(Exec(x, DadSp), "HL") = Pair(x, "HL") + x.sp
<1>. DEFINE v == Pair(x, "HL") + x.sp
            g == SetPair(x.reg, "HL", v)
            f == g["F"] - Carry(g["F"])
            k == [g EXCEPT !["F"] = f]
<1>1. Wrap(v) = v /\ v \in Addr
  BY WrapFacts
<1>2. Exec(x, DadSp) = WithReg(x, SetCarry(g, 0))
  BY <1>1, MachineParts DEF Exec, AluOps, Rotates, Instr, WithReg, DadSp, Dad
<1>. HIDE DEF v
<1>3. x.reg \in [AllRegs -> Byte] /\ "HL" \in Pairs \cup {"PSW"}
  BY MachineParts, PairFacts
<1>4. /\ g \in [AllRegs -> Byte]
      /\ g[Hi["HL"]] = v \div ByteSize /\ g[Lo["HL"]] = v % ByteSize
      /\ \A r \in AllRegs : r \notin {Hi["HL"], Lo["HL"]} => g[r] = x.reg[r]
  BY Zenon, <1>1, <1>3, SetPairFacts
<1>5. /\ g["H"] = v \div ByteSize /\ g["L"] = v % ByteSize
      /\ \A r \in AllRegs \ {"H", "L"} : g[r] = x.reg[r]
  BY <1>4, PairFacts
<1>. HIDE DEF g
<1>6. f \in Byte
  <2>1. g["F"] \in Byte
    BY <1>4 DEF Regs, AllRegs
  <2>. DEFINE n == g["F"]
  <2>2. n \in 0..(ByteSize - 1) /\ ByteSize \in Nat
    BY <2>1, ByteFacts DEF Byte
  <2>. HIDE DEF n
  <2>3. n - (n % 2) \in 0..(ByteSize - 1)
    BY <2>2
  <2>. QED
    BY <2>3 DEF n, Byte, Carry
<1>7. k \in [AllRegs -> Byte] /\ k["F"] = f /\ \A r \in Regs : k[r] = g[r]
  BY <1>4, <1>6 DEF Regs, AllRegs
<1>8. Exec(x, DadSp) = WithReg(x, k)
  <2>1. \A z \in Byte : z + 0 = z
    BY ByteFacts
  <2>2. f + 0 = f
    BY <1>6, <2>1
  <2>3. SetCarry(g, 0) = k
    BY <2>2 DEF SetCarry
  <2>. QED
    BY <1>2, <2>3
<1>. HIDE DEF k
<1>9. \A r \in AllRegs \ {"H", "L", "F"} : k[r] = x.reg[r]
  BY <1>5, <1>7 DEF AllRegs
<1>10. /\ Changed(x, WithReg(x, k), {"H", "L", "F"}, {})
       /\ WithReg(x, k).reg = k /\ WithReg(x, k).mem = x.mem
  BY <1>7, <1>9, RegEffect
<1>11. Pair(WithReg(x, k), "HL") = v
  <2>1. k["H"] = v \div ByteSize /\ k["L"] = v % ByteSize
    BY <1>5, <1>7 DEF Regs
  <2>2. Pair(WithReg(x, k), "HL") = (v \div ByteSize) * ByteSize + (v % ByteSize)
    BY <1>10, <2>1, PairFacts DEF Pair
  <2>. QED
    BY <1>1, <2>2, ByteFacts
<1>12. f = x.reg["F"] - Carry(x.reg["F"])
  BY <1>5 DEF AllRegs
<1>. QED
  BY <1>7, <1>8, <1>10, <1>11, <1>12 DEF v

LEMMA XchgEffect ==
  ASSUME NEW x \in Machine
  PROVE  LET y == Exec(x, Xchg) IN
         /\ Changed(x, y, {"D", "E", "H", "L"}, {}) /\ y.mem = x.mem
         /\ y.reg["D"] = x.reg["H"] /\ y.reg["E"] = x.reg["L"]
         /\ y.reg["H"] = x.reg["D"] /\ y.reg["L"] = x.reg["E"]
<1>. DEFINE y == Exec(x, Xchg)
            u == Pair(x, "DE")
            v == Pair(x, "HL")
            g == SetPair(x.reg, "HL", u)
            k == SetPair(g, "DE", v)
<1>1. Exec(x, Xchg) = WithReg(x, k)
  BY MachineParts DEF Exec, AluOps, Rotates, Instr, WithReg, Xchg
<1>2. u \in Addr /\ v \in Addr
  BY PairFacts
<1>3. /\ x.reg \in [AllRegs -> Byte] /\ "HL" \in Pairs \cup {"PSW"} /\ "DE" \in Pairs \cup {"PSW"}
      /\ {"H", "L", "D", "E"} \subseteq AllRegs
  BY MachineParts, PairFacts DEF Regs, AllRegs
<1>4. /\ u \div ByteSize = x.reg["D"] /\ u % ByteSize = x.reg["E"]
      /\ v \div ByteSize = x.reg["H"] /\ v % ByteSize = x.reg["L"]
  <2>1. /\ u = x.reg["D"] * ByteSize + x.reg["E"]
        /\ v = x.reg["H"] * ByteSize + x.reg["L"]
        /\ x.reg["D"] \in Byte /\ x.reg["E"] \in Byte /\ x.reg["H"] \in Byte /\ x.reg["L"] \in Byte
    BY <1>3, PairFacts DEF Pair
  <2>. HIDE DEF u, v
  <2>2. u \div ByteSize = x.reg["D"] /\ u % ByteSize = x.reg["E"]
    BY <2>1, ByteFacts
  <2>3. v \div ByteSize = x.reg["H"] /\ v % ByteSize = x.reg["L"]
    BY <2>1, ByteFacts
  <2>. QED
    BY <2>2, <2>3
<1>. HIDE DEF u, v
<1>5. /\ g \in [AllRegs -> Byte]
      /\ g[Hi["HL"]] = u \div ByteSize /\ g[Lo["HL"]] = u % ByteSize
      /\ \A r \in AllRegs : r \notin {Hi["HL"], Lo["HL"]} => g[r] = x.reg[r]
  BY Zenon, <1>2, <1>3, SetPairFacts
<1>. HIDE DEF g
<1>6. /\ k \in [AllRegs -> Byte]
      /\ k[Hi["DE"]] = v \div ByteSize /\ k[Lo["DE"]] = v % ByteSize
      /\ \A r \in AllRegs : r \notin {Hi["DE"], Lo["DE"]} => k[r] = g[r]
  <2>1. g \in [AllRegs -> Byte] /\ "DE" \in Pairs \cup {"PSW"} /\ v \in Addr
    BY <1>2, <1>3, <1>5
  <2>. QED
    BY <2>1, SetPairFacts, Zenon
<1>. HIDE DEF k
<1>7. /\ k["D"] = x.reg["H"] /\ k["E"] = x.reg["L"]
      /\ k["H"] = x.reg["D"] /\ k["L"] = x.reg["E"]
      /\ \A r \in AllRegs \ {"D", "E", "H", "L"} : k[r] = x.reg[r]
  BY <1>3, <1>4, <1>5, <1>6, PairFacts
<1>8. Changed(x, WithReg(x, k), {"D", "E", "H", "L"}, {}) /\ WithReg(x, k).reg = k /\ WithReg(x, k).mem = x.mem
  BY <1>6, <1>7, RegEffect
<1>. QED
  BY <1>1, <1>7, <1>8

LEMMA PushEffect ==
  ASSUME NEW x \in Machine, NEW p \in Pairs \cup {"PSW"}, x.sp >= 2
  PROVE  LET y == Exec(x, Push(p)) IN
         /\ y \in Machine /\ y.sp = x.sp - 2 /\ y.reg = x.reg
         /\ x.sp - 2 \in Addr /\ x.sp - 1 \in Addr
         /\ y.mem[x.sp - 2] = x.reg[Lo[p]] /\ y.mem[x.sp - 1] = x.reg[Hi[p]]
         /\ \A i \in Addr \ {x.sp - 2, x.sp - 1} : y.mem[i] = x.mem[i]
<1>. DEFINE n == x.sp - 2
            hi == x.reg[Hi[p]]
            lo == x.reg[Lo[p]]
            h == PutWord(x.mem, n, hi, lo)
<1>1. x.reg \in [AllRegs -> Byte] /\ x.sp \in Addr /\ x.mem \in [Addr -> Byte]
  BY MachineParts
<1>2. n \in Addr /\ n + 1 \in Addr /\ n + 1 = x.sp - 1 /\ hi \in Byte /\ lo \in Byte
  BY <1>1, PairFacts, ByteFacts DEF Addr
<1>3. Wrap(x.sp + ByteSize * ByteSize - 2) = n
  BY <1>1, WrapFacts
<1>4. Exec(x, Push(p)) = [reg |-> x.reg, sp |-> n, mem |-> h]
  <2>1. Exec(x, Push(p)) = [reg |-> x.reg, sp |-> Wrap(x.sp + ByteSize * ByteSize - 2),
          mem |-> PutWord(x.mem, Wrap(x.sp + ByteSize * ByteSize - 2), x.reg[Hi[p]], x.reg[Lo[p]])]
    <3>1. x = [reg |-> x.reg, sp |-> x.sp, mem |-> x.mem]
      BY MachineParts
    <3>. QED
      BY <3>1 DEF Exec, AluOps, Rotates, Instr, Push
  <2>. QED
    BY <1>3, <2>1
<1>. HIDE DEF n, hi, lo
<1>5. /\ h \in [Addr -> Byte] /\ h[n] = lo /\ h[n + 1] = hi
      /\ \A i \in Addr \ {n, n + 1} : h[i] = x.mem[i]
  <2>1. h \in [Addr -> Byte]
    BY <1>1, <1>2, WordAt
  <2>2. h[n] = lo
    BY <1>1, <1>2, WordAt
  <2>3. h[n + 1] = hi
    BY <1>1, <1>2, WordAt
  <2>4. \A i \in Addr \ {n, n + 1} : h[i] = x.mem[i]
    BY <1>1, <1>2, WordAt
  <2>. QED
    BY <2>1, <2>2, <2>3, <2>4
<1>. HIDE DEF h
<1>6. [reg |-> x.reg, sp |-> n, mem |-> h] \in Machine
  BY <1>1, <1>2, <1>5, MachineOf
<1>7. /\ Exec(x, Push(p)).sp = n /\ Exec(x, Push(p)).reg = x.reg /\ Exec(x, Push(p)).mem = h
      /\ Exec(x, Push(p)) \in Machine
  BY <1>4, <1>6
<1>. QED
  BY <1>2, <1>5, <1>7 DEF n, hi, lo

LEMMA PopEffect ==
  ASSUME NEW x \in Machine, NEW p \in Pairs \cup {"PSW"}, x.sp + 2 \in Addr
  PROVE  LET y == Exec(x, Pop(p)) IN
         /\ y \in Machine /\ y.sp = x.sp + 2 /\ y.mem = x.mem
         /\ y.reg[Hi[p]] = x.mem[x.sp + 1] /\ y.reg[Lo[p]] = x.mem[x.sp]
         /\ \A r \in AllRegs : r \notin {Hi[p], Lo[p]} => y.reg[r] = x.reg[r]
<1>. DEFINE hi == x.mem[x.sp + 1]
            lo == x.mem[x.sp]
            v == hi * ByteSize + lo
            g == SetPair(x.reg, p, v)
<1>1. x.reg \in [AllRegs -> Byte] /\ x.sp \in Addr /\ x.mem \in [Addr -> Byte]
  BY MachineParts
<1>2. x.sp + 1 \in Addr /\ hi \in Byte /\ lo \in Byte
  BY <1>1, ByteFacts DEF Addr
<1>3. Word(x, x.sp) = v /\ Wrap(x.sp + 2) = x.sp + 2
  BY <1>1, <1>2, WrapFacts DEF Word, At
<1>4. Exec(x, Pop(p)) = [reg |-> g, sp |-> x.sp + 2, mem |-> x.mem]
  <2>1. Exec(x, Pop(p)) = [reg |-> SetPair(x.reg, p, Word(x, x.sp)), sp |-> Wrap(x.sp + 2), mem |-> x.mem]
    <3>1. x = [reg |-> x.reg, sp |-> x.sp, mem |-> x.mem]
      BY MachineParts
    <3>. QED
      BY <3>1 DEF Exec, AluOps, Rotates, Instr, Pop
  <2>. QED
    BY <1>3, <2>1
<1>. HIDE DEF hi, lo
<1>5. v \in Addr /\ v \div ByteSize = hi /\ v % ByteSize = lo
  BY <1>2, ByteFacts
<1>. HIDE DEF v
<1>6. /\ g \in [AllRegs -> Byte]
      /\ g[Hi[p]] = v \div ByteSize /\ g[Lo[p]] = v % ByteSize
      /\ \A r \in AllRegs : r \notin {Hi[p], Lo[p]} => g[r] = x.reg[r]
  BY Zenon, <1>1, <1>5, SetPairFacts
<1>. HIDE DEF g
<1>7. [reg |-> g, sp |-> x.sp + 2, mem |-> x.mem] \in Machine
  BY <1>1, <1>6, MachineOf
<1>8. /\ Exec(x, Pop(p)).sp = x.sp + 2 /\ Exec(x, Pop(p)).reg = g /\ Exec(x, Pop(p)).mem = x.mem
      /\ Exec(x, Pop(p)) \in Machine
  BY <1>4, <1>7
<1>9. \A r \in AllRegs : r \notin {Hi[p], Lo[p]} => Exec(x, Pop(p)).reg[r] = x.reg[r]
  BY <1>6, <1>8
<1>. QED
  BY <1>5, <1>6, <1>8, <1>9 DEF hi, lo

LEMMA LdaEffect ==
  ASSUME NEW x \in Machine, NEW n \in Addr
  PROVE  /\ Changed(x, Exec(x, Lda(n)), {"A"}, {})
         /\ Exec(x, Lda(n)).reg["A"] = x.mem[n] /\ Exec(x, Lda(n)).mem = x.mem
<1>. DEFINE g == [x.reg EXCEPT !["A"] = x.mem[n]]
<1>1. At(x.mem, n) = x.mem[n] /\ x.mem[n] \in Byte
  BY MachineParts DEF At
<1>2. Exec(x, Lda(n)) = WithReg(x, g)
  BY <1>1, MachineParts DEF Exec, AluOps, Rotates, Instr, WithReg, Lda
<1>3. /\ g \in [AllRegs -> Byte] /\ g["A"] = x.mem[n]
      /\ \A r \in AllRegs \ {"A"} : g[r] = x.reg[r]
  BY <1>1, MachineParts DEF Regs, AllRegs
<1>. HIDE DEF g
<1>. QED
  BY <1>2, <1>3, RegEffect

LEMMA StaEffect ==
  ASSUME NEW x \in Machine, NEW n \in Addr
  PROVE  /\ Changed(x, Exec(x, Sta(n)), {}, {n})
         /\ Exec(x, Sta(n)).mem[n] = x.reg["A"] /\ Exec(x, Sta(n)).reg = x.reg
<1>. DEFINE h == StoreAt(x.mem, n, x.reg["A"])
<1>1. x.reg["A"] \in Byte /\ x.mem \in [Addr -> Byte]
  BY MachineParts DEF Regs, AllRegs
<1>2. h \in [Addr -> Byte] /\ h[n] = x.reg["A"] /\ \A i \in Addr \ {n} : h[i] = x.mem[i]
  <2>1. h \in [Addr -> Byte]
    BY <1>1, MemoryAt
  <2>2. h[n] = x.reg["A"]
    BY <1>1, MemoryAt
  <2>3. \A i \in Addr \ {n} : h[i] = x.mem[i]
    BY <1>1, MemoryAt
  <2>. QED
    BY <2>1, <2>2, <2>3
<1>3. Exec(x, Sta(n)) = WithMem(x, h)
  BY MachineParts DEF Exec, AluOps, Rotates, Instr, WithMem, Sta
<1>. HIDE DEF h
<1>. QED
  BY <1>2, <1>3, MemEffect

LEMMA LhldEffect ==
  ASSUME NEW x \in Machine, NEW n \in Addr, n + 1 \in Addr
  PROVE  /\ Changed(x, Exec(x, Lhld(n)), {"H", "L"}, {}) /\ Exec(x, Lhld(n)).mem = x.mem
         /\ Exec(x, Lhld(n)).reg["H"] = x.mem[n + 1] /\ Exec(x, Lhld(n)).reg["L"] = x.mem[n]
<1>. DEFINE hi == x.mem[n + 1]
            lo == x.mem[n]
            v == hi * ByteSize + lo
            y == WithReg(x, SetPair(x.reg, "HL", v))
<1>1. hi \in Byte /\ lo \in Byte /\ x.mem \in [Addr -> Byte]
  BY MachineParts
<1>2. Word(x, n) = v
  BY <1>1, WrapFacts DEF Word, At
<1>3. Exec(x, Lhld(n)) = y
  BY <1>2, MachineParts DEF Exec, AluOps, Rotates, Instr, WithReg, Lhld
<1>. HIDE DEF hi, lo
<1>4. v \in Addr /\ v \div ByteSize = hi /\ v % ByteSize = lo
  BY <1>1, ByteFacts
<1>. HIDE DEF v
<1>5. /\ Changed(x, y, {Hi["HL"], Lo["HL"]}, {}) /\ y.mem = x.mem
      /\ y.reg[Hi["HL"]] = v \div ByteSize /\ y.reg[Lo["HL"]] = v % ByteSize
  <2>1. "HL" \in Pairs
    BY PairFacts
  <2>. QED
    BY <1>4, <2>1, PairEffect
<1>. HIDE DEF y
<1>. QED
  BY <1>3, <1>4, <1>5, PairFacts DEF hi, lo

LEMMA ShldEffect ==
  ASSUME NEW x \in Machine, NEW n \in Addr, n + 1 \in Addr
  PROVE  /\ Changed(x, Exec(x, Shld(n)), {}, {n, n + 1}) /\ Exec(x, Shld(n)).reg = x.reg
         /\ Exec(x, Shld(n)).mem[n] = x.reg["L"] /\ Exec(x, Shld(n)).mem[n + 1] = x.reg["H"]
<1>. DEFINE h == PutWord(x.mem, n, x.reg["H"], x.reg["L"])
<1>1. x.reg["H"] \in Byte /\ x.reg["L"] \in Byte /\ x.mem \in [Addr -> Byte]
  BY MachineParts DEF Regs, AllRegs
<1>2. /\ h \in [Addr -> Byte] /\ h[n] = x.reg["L"] /\ h[n + 1] = x.reg["H"]
      /\ \A i \in Addr \ {n, n + 1} : h[i] = x.mem[i]
  <2>1. h \in [Addr -> Byte]
    BY <1>1, WordAt
  <2>2. h[n] = x.reg["L"]
    BY <1>1, WordAt
  <2>3. h[n + 1] = x.reg["H"]
    BY <1>1, WordAt
  <2>4. \A i \in Addr \ {n, n + 1} : h[i] = x.mem[i]
    BY <1>1, WordAt
  <2>. QED
    BY <2>1, <2>2, <2>3, <2>4
<1>3. Exec(x, Shld(n)) = WithMem(x, h)
  BY MachineParts DEF Exec, AluOps, Rotates, Instr, WithMem, Shld
<1>. HIDE DEF h
<1>. QED
  BY <1>2, <1>3, MemEffect

-----------------------------------------------------------------------------
(* The stack below the frame: two words are as deep as an expansion and an  *)
(* interrupt go, and the upper one is an expansion's own.                   *)
FreeStack == {i \in Addr : SP0 - 4 <= i /\ i < SP0}
Saved == {SP0 - 2, SP0 - 1}

LEMMA StackFacts ==
  /\ SP0 \in Nat /\ SP0 \in Addr /\ SP0 >= 4 /\ Junk \in Byte
  /\ SP0 - 1 \in Addr /\ SP0 - 2 \in Addr /\ SP0 - 3 \in Addr /\ SP0 - 4 \in Addr
  /\ Saved \subseteq FreeStack
<1>1. SP0 \in Nat /\ SP0 \in Addr /\ SP0 >= 4 /\ Junk \in Byte
  BY LayoutAssumption, ByteFacts
<1>2. SP0 - 1 \in Addr /\ SP0 - 2 \in Addr /\ SP0 - 3 \in Addr /\ SP0 - 4 \in Addr
  BY <1>1, ByteFacts DEF Addr
<1>. QED
  BY <1>1, <1>2 DEF Saved, FreeStack

(* An instruction of an expansion, where it may run: it reads nothing that  *)
(* an interrupt may have written.                                           *)
Ready(x) == x \in Machine /\ (x.sp = SP0 \/ x.sp = SP0 - 2)
OnRegisters(x, i) ==
  \/ \E d, s \in Regs : i = Mov(d, s)
  \/ \E d \in Regs : \E n \in Byte : i = Mvi(d, n)
  \/ \E p \in Pairs : \E n \in Addr : i = Lxi(p, n)
  \/ i = Inx("HL") /\ Pair(x, "HL") + 1 \in Addr
  \/ i = DadSp /\ Pair(x, "HL") + x.sp \in Addr
  \/ i = Xchg
OnMemory(x, i) ==
  \/ \E d \in Regs : i = MovFromM(d) /\ Pair(x, "HL") \notin FreeStack
  \/ \E s \in Regs : i = MovToM(s)
  \/ \E n \in Addr \ FreeStack : i = Lda(n)
  \/ \E n \in Addr : i = Sta(n)
  \/ \E n \in Addr \ FreeStack : i = Lhld(n) /\ n + 1 \in Addr \ FreeStack
  \/ \E n \in Addr : i = Shld(n) /\ n + 1 \in Addr
OnStack(x, i) ==
  \/ \E p \in Pairs \cup {"PSW"} : i = Push(p) /\ x.sp = SP0
  \/ \E p \in Pairs \cup {"PSW"} : i = Pop(p) /\ x.sp = SP0 - 2
Safe(x, i) == Ready(x) /\ (OnRegisters(x, i) \/ OnMemory(x, i) \/ OnStack(x, i))

(* The same but for what lies below the stack pointer.                      *)
Below(x) == {i \in Addr : SP0 - 4 <= i /\ i < x.sp}
Same(x, y) ==
  /\ Ready(x) /\ Ready(y) /\ x.sp = y.sp
  /\ \A r \in AllRegs : x.reg[r] = y.reg[r]
  /\ \A i \in Addr : i \notin Below(x) => x.mem[i] = y.mem[i]

LEMMA SamePair ==
  ASSUME NEW x, NEW y, Same(x, y), NEW p \in Pairs
  PROVE  Pair(x, p) = Pair(y, p) /\ Pair(x, p) \in Addr /\ Pair(y, p) \in Addr
BY PairFacts DEF Same, Ready, Pair

LEMMA BelowFacts ==
  ASSUME NEW x, Ready(x)
  PROVE  /\ Below(x) \subseteq FreeStack
         /\ x.sp = SP0 - 2 => SP0 - 2 \notin Below(x) /\ SP0 - 1 \notin Below(x)
<1>1. SP0 \in Nat /\ x.sp \in {SP0, SP0 - 2} /\ \A i \in Addr : i \in Nat
  BY StackFacts, ByteFacts DEF Ready
<1>2. Below(x) \subseteq FreeStack
  BY <1>1 DEF Below, FreeStack
<1>3. x.sp = SP0 - 2 => SP0 - 2 \notin Below(x) /\ SP0 - 1 \notin Below(x)
  BY <1>1 DEF Below
<1>. QED
  BY <1>2, <1>3

LEMMA PairParts ==
  ASSUME NEW x \in Machine
  PROVE  x.reg["H"] = Pair(x, "HL") \div ByteSize /\ x.reg["L"] = Pair(x, "HL") % ByteSize
<1>1. x.reg["H"] \in Byte /\ x.reg["L"] \in Byte
  BY MachineParts DEF Regs, AllRegs
<1>. DEFINE h == x.reg["H"]
            l == x.reg["L"]
<1>2. Pair(x, "HL") = h * ByteSize + l
  BY PairFacts DEF Pair
<1>3. h \in Byte /\ l \in Byte
  BY <1>1
<1>. HIDE DEF h, l
<1>4. h = Pair(x, "HL") \div ByteSize /\ l = Pair(x, "HL") % ByteSize
  BY <1>2, <1>3, ByteFacts
<1>. QED
  BY <1>4 DEF h, l

(* Registers given by what they were: the instructions of OnRegisters.      *)
LEMMA SameRegs ==
  ASSUME NEW x, NEW y, Same(x, y), NEW u, NEW v, NEW S \in SUBSET AllRegs,
         Changed(x, u, S, {}), Changed(y, v, S, {}), \A r \in S : u.reg[r] = v.reg[r],
         u.mem = x.mem, v.mem = y.mem
  PROVE  Same(u, v)
BY DEF Same, Ready, Changed, Below

LEMMA SameMemory ==
  ASSUME NEW x, NEW y, Same(x, y), NEW u, NEW v, NEW X \in SUBSET Addr,
         Changed(x, u, {}, X), Changed(y, v, {}, X), \A i \in X : u.mem[i] = v.mem[i]
  PROVE  Same(u, v)
BY DEF Same, Ready, Changed, Below

(* An instruction where it is safe leaves the same in both machines.        *)
LEMMA RegistersStaySame ==
  ASSUME NEW x, NEW y, Same(x, y), NEW i, OnRegisters(x, i)
  PROVE  Same(Exec(x, i), Exec(y, i))
<1>. DEFINE u == Exec(x, i)
            v == Exec(y, i)
<1>1. x \in Machine /\ y \in Machine /\ x.sp = y.sp /\ \A r \in AllRegs : x.reg[r] = y.reg[r]
  BY DEF Same, Ready
<1>2. "HL" \in Pairs /\ {"H", "L", "D", "E"} \subseteq AllRegs /\ Regs \subseteq AllRegs
  BY PairFacts DEF Regs, AllRegs
<1>3. Pair(x, "HL") = Pair(y, "HL")
  BY <1>2, SamePair
<1>4. ASSUME NEW d \in Regs, NEW s \in Regs, i = Mov(d, s) PROVE Same(u, v)
  <2>1. Changed(x, u, {d}, {}) /\ u.reg[d] = x.reg[s] /\ u.mem = x.mem
    BY <1>1, <1>4, MovEffect
  <2>2. Changed(y, v, {d}, {}) /\ v.reg[d] = y.reg[s] /\ v.mem = y.mem
    BY <1>1, <1>4, MovEffect
  <2>. HIDE DEF u, v
  <2>3. {d} \in SUBSET AllRegs /\ \A r \in {d} : u.reg[r] = v.reg[r]
    BY <1>1, <1>2, <2>1, <2>2
  <2>. QED
    BY <2>1, <2>2, <2>3, SameRegs
<1>5. ASSUME NEW d \in Regs, NEW n \in Byte, i = Mvi(d, n) PROVE Same(u, v)
  <2>1. Changed(x, u, {d}, {}) /\ u.reg[d] = n /\ u.mem = x.mem
    BY <1>1, <1>5, MviEffect
  <2>2. Changed(y, v, {d}, {}) /\ v.reg[d] = n /\ v.mem = y.mem
    BY <1>1, <1>5, MviEffect
  <2>. HIDE DEF u, v
  <2>3. {d} \in SUBSET AllRegs /\ \A r \in {d} : u.reg[r] = v.reg[r]
    BY <1>2, <2>1, <2>2
  <2>. QED
    BY <2>1, <2>2, <2>3, SameRegs
<1>6. ASSUME NEW p \in Pairs, NEW n \in Addr, i = Lxi(p, n) PROVE Same(u, v)
  <2>1. /\ Changed(x, u, {Hi[p], Lo[p]}, {}) /\ u.mem = x.mem
        /\ u.reg[Hi[p]] = n \div ByteSize /\ u.reg[Lo[p]] = n % ByteSize
    BY <1>1, <1>6, LxiEffect
  <2>2. /\ Changed(y, v, {Hi[p], Lo[p]}, {}) /\ v.mem = y.mem
        /\ v.reg[Hi[p]] = n \div ByteSize /\ v.reg[Lo[p]] = n % ByteSize
    BY <1>1, <1>6, LxiEffect
  <2>. HIDE DEF u, v
  <2>3. {Hi[p], Lo[p]} \in SUBSET AllRegs /\ \A r \in {Hi[p], Lo[p]} : u.reg[r] = v.reg[r]
    BY <2>1, <2>2, PairFacts
  <2>. QED
    BY <2>1, <2>2, <2>3, SameRegs
<1>7. ASSUME i = Inx("HL"), Pair(x, "HL") + 1 \in Addr PROVE Same(u, v)
  <2>1. Changed(x, u, {"H", "L"}, {}) /\ u.mem = x.mem /\ Pair(u, "HL") = Pair(x, "HL") + 1
    BY <1>1, <1>7, InxEffect
  <2>2. Changed(y, v, {"H", "L"}, {}) /\ v.mem = y.mem /\ Pair(v, "HL") = Pair(y, "HL") + 1
    BY <1>1, <1>3, <1>7, InxEffect
  <2>. HIDE DEF u, v
  <2>3. u \in Machine /\ v \in Machine /\ Pair(u, "HL") = Pair(v, "HL")
    BY <1>3, <2>1, <2>2 DEF Changed
  <2>4. {"H", "L"} \in SUBSET AllRegs /\ \A r \in {"H", "L"} : u.reg[r] = v.reg[r]
    BY <1>2, <2>3, PairParts
  <2>. QED
    BY <2>1, <2>2, <2>4, SameRegs
<1>8. ASSUME i = DadSp, Pair(x, "HL") + x.sp \in Addr PROVE Same(u, v)
  <2>1. /\ Changed(x, u, {"H", "L", "F"}, {}) /\ u.mem = x.mem
        /\ u.reg["F"] = x.reg["F"] - Carry(x.reg["F"]) /\ Pair(u, "HL") = Pair(x, "HL") + x.sp
    BY <1>1, <1>8, DadSpEffect
  <2>2. /\ Changed(y, v, {"H", "L", "F"}, {}) /\ v.mem = y.mem
        /\ v.reg["F"] = y.reg["F"] - Carry(y.reg["F"]) /\ Pair(v, "HL") = Pair(y, "HL") + y.sp
    BY <1>1, <1>3, <1>8, DadSpEffect
  <2>. HIDE DEF u, v
  <2>3. u \in Machine /\ v \in Machine /\ Pair(u, "HL") = Pair(v, "HL")
    BY <1>1, <1>3, <2>1, <2>2 DEF Changed
  <2>4. u.reg["F"] = v.reg["F"]
    BY <1>1, <2>1, <2>2 DEF AllRegs
  <2>5. {"H", "L", "F"} \in SUBSET AllRegs /\ \A r \in {"H", "L", "F"} : u.reg[r] = v.reg[r]
    BY <1>2, <2>3, <2>4, PairParts DEF AllRegs
  <2>. QED
    BY <2>1, <2>2, <2>5, SameRegs
<1>9. ASSUME i = Xchg PROVE Same(u, v)
  <2>1. /\ Changed(x, u, {"D", "E", "H", "L"}, {}) /\ u.mem = x.mem
        /\ u.reg["D"] = x.reg["H"] /\ u.reg["E"] = x.reg["L"]
        /\ u.reg["H"] = x.reg["D"] /\ u.reg["L"] = x.reg["E"]
    BY <1>1, <1>9, XchgEffect
  <2>2. /\ Changed(y, v, {"D", "E", "H", "L"}, {}) /\ v.mem = y.mem
        /\ v.reg["D"] = y.reg["H"] /\ v.reg["E"] = y.reg["L"]
        /\ v.reg["H"] = y.reg["D"] /\ v.reg["L"] = y.reg["E"]
    BY <1>1, <1>9, XchgEffect
  <2>. HIDE DEF u, v
  <2>3. {"D", "E", "H", "L"} \in SUBSET AllRegs /\ \A r \in {"D", "E", "H", "L"} : u.reg[r] = v.reg[r]
    BY <1>1, <1>2, <2>1, <2>2
  <2>. QED
    BY <2>1, <2>2, <2>3, SameRegs
<1>. QED
  BY <1>4, <1>5, <1>6, <1>7, <1>8, <1>9 DEF OnRegisters

LEMMA MemoryStaysSame ==
  ASSUME NEW x, NEW y, Same(x, y), NEW i, OnMemory(x, i)
  PROVE  Same(Exec(x, i), Exec(y, i))
<1>. DEFINE u == Exec(x, i)
            v == Exec(y, i)
<1>1. /\ x \in Machine /\ y \in Machine /\ x.sp = y.sp /\ \A r \in AllRegs : x.reg[r] = y.reg[r]
      /\ \A j \in Addr \ FreeStack : x.mem[j] = y.mem[j]
  BY BelowFacts DEF Same, Ready
<1>2. "HL" \in Pairs /\ {"H", "L", "A"} \subseteq AllRegs /\ Regs \subseteq AllRegs
  BY PairFacts DEF Regs, AllRegs
<1>3. Pair(x, "HL") = Pair(y, "HL") /\ Pair(x, "HL") \in Addr
  BY <1>2, SamePair
<1>4. ASSUME NEW d \in Regs, i = MovFromM(d), Pair(x, "HL") \notin FreeStack PROVE Same(u, v)
  <2>1. Changed(x, u, {d}, {}) /\ u.reg[d] = x.mem[Pair(x, "HL")] /\ u.mem = x.mem
    BY <1>1, <1>4, MovFromMEffect
  <2>2. Changed(y, v, {d}, {}) /\ v.reg[d] = y.mem[Pair(y, "HL")] /\ v.mem = y.mem
    BY <1>1, <1>4, MovFromMEffect
  <2>. HIDE DEF u, v
  <2>3. {d} \in SUBSET AllRegs /\ \A r \in {d} : u.reg[r] = v.reg[r]
    BY <1>1, <1>2, <1>3, <1>4, <2>1, <2>2
  <2>. QED
    BY <2>1, <2>2, <2>3, SameRegs
<1>5. ASSUME NEW s \in Regs, i = MovToM(s) PROVE Same(u, v)
  <2>1. Changed(x, u, {}, {Pair(x, "HL")}) /\ u.mem[Pair(x, "HL")] = x.reg[s]
    BY <1>1, <1>5, MovToMEffect
  <2>2. Changed(y, v, {}, {Pair(y, "HL")}) /\ v.mem[Pair(y, "HL")] = y.reg[s]
    BY <1>1, <1>5, MovToMEffect
  <2>. HIDE DEF u, v
  <2>3. {Pair(x, "HL")} \in SUBSET Addr /\ \A j \in {Pair(x, "HL")} : u.mem[j] = v.mem[j]
    BY <1>1, <1>2, <1>3, <2>1, <2>2
  <2>. QED
    BY <1>3, <2>1, <2>2, <2>3, SameMemory
<1>6. ASSUME NEW n \in Addr \ FreeStack, i = Lda(n) PROVE Same(u, v)
  <2>1. Changed(x, u, {"A"}, {}) /\ u.reg["A"] = x.mem[n] /\ u.mem = x.mem
    BY <1>1, <1>6, LdaEffect
  <2>2. Changed(y, v, {"A"}, {}) /\ v.reg["A"] = y.mem[n] /\ v.mem = y.mem
    BY <1>1, <1>6, LdaEffect
  <2>. HIDE DEF u, v
  <2>3. {"A"} \in SUBSET AllRegs /\ \A r \in {"A"} : u.reg[r] = v.reg[r]
    BY <1>1, <1>2, <2>1, <2>2
  <2>. QED
    BY <2>1, <2>2, <2>3, SameRegs
<1>7. ASSUME NEW n \in Addr, i = Sta(n) PROVE Same(u, v)
  <2>1. Changed(x, u, {}, {n}) /\ u.mem[n] = x.reg["A"]
    BY <1>1, <1>7, StaEffect
  <2>2. Changed(y, v, {}, {n}) /\ v.mem[n] = y.reg["A"]
    BY <1>1, <1>7, StaEffect
  <2>. HIDE DEF u, v
  <2>3. {n} \in SUBSET Addr /\ \A j \in {n} : u.mem[j] = v.mem[j]
    BY <1>1, <1>2, <2>1, <2>2
  <2>. QED
    BY <2>1, <2>2, <2>3, SameMemory
<1>8. ASSUME NEW n \in Addr \ FreeStack, i = Lhld(n), n + 1 \in Addr \ FreeStack PROVE Same(u, v)
  <2>1. /\ Changed(x, u, {"H", "L"}, {}) /\ u.mem = x.mem
        /\ u.reg["H"] = x.mem[n + 1] /\ u.reg["L"] = x.mem[n]
    BY <1>1, <1>8, LhldEffect
  <2>2. /\ Changed(y, v, {"H", "L"}, {}) /\ v.mem = y.mem
        /\ v.reg["H"] = y.mem[n + 1] /\ v.reg["L"] = y.mem[n]
    BY <1>1, <1>8, LhldEffect
  <2>. HIDE DEF u, v
  <2>3. {"H", "L"} \in SUBSET AllRegs /\ \A r \in {"H", "L"} : u.reg[r] = v.reg[r]
    BY <1>1, <1>2, <1>8, <2>1, <2>2
  <2>. QED
    BY <2>1, <2>2, <2>3, SameRegs
<1>9. ASSUME NEW n \in Addr, i = Shld(n), n + 1 \in Addr PROVE Same(u, v)
  <2>1. Changed(x, u, {}, {n, n + 1}) /\ u.mem[n] = x.reg["L"] /\ u.mem[n + 1] = x.reg["H"]
    BY <1>1, <1>9, ShldEffect
  <2>2. Changed(y, v, {}, {n, n + 1}) /\ v.mem[n] = y.reg["L"] /\ v.mem[n + 1] = y.reg["H"]
    BY <1>1, <1>9, ShldEffect
  <2>. HIDE DEF u, v
  <2>3. {n, n + 1} \in SUBSET Addr /\ \A j \in {n, n + 1} : u.mem[j] = v.mem[j]
    BY <1>1, <1>2, <1>9, <2>1, <2>2
  <2>. QED
    BY <2>1, <2>2, <2>3, SameMemory
<1>. QED
  BY <1>4, <1>5, <1>6, <1>7, <1>8, <1>9 DEF OnMemory

LEMMA PushAtFrame ==
  ASSUME NEW x \in Machine, NEW p \in Pairs \cup {"PSW"}, x.sp = SP0
  PROVE  LET y == Exec(x, Push(p)) IN
         /\ y \in Machine /\ y.sp = SP0 - 2 /\ y.reg = x.reg
         /\ y.mem[SP0 - 2] = x.reg[Lo[p]] /\ y.mem[SP0 - 1] = x.reg[Hi[p]]
         /\ \A i \in Addr \ Saved : y.mem[i] = x.mem[i]
<1>. DEFINE y == Exec(x, Push(p))
<1>1. x.sp >= 2
  BY StackFacts
<1>2. /\ y \in Machine /\ y.sp = x.sp - 2 /\ y.reg = x.reg
      /\ y.mem[x.sp - 2] = x.reg[Lo[p]] /\ y.mem[x.sp - 1] = x.reg[Hi[p]]
      /\ \A i \in Addr \ {x.sp - 2, x.sp - 1} : y.mem[i] = x.mem[i]
  BY <1>1, PushEffect
<1>. HIDE DEF y
<1>. QED
  BY <1>2 DEF y, Saved

LEMMA PopToFrame ==
  ASSUME NEW x \in Machine, NEW p \in Pairs \cup {"PSW"}, x.sp = SP0 - 2
  PROVE  LET y == Exec(x, Pop(p)) IN
         /\ y \in Machine /\ y.sp = SP0 /\ y.mem = x.mem
         /\ y.reg[Hi[p]] = x.mem[SP0 - 1] /\ y.reg[Lo[p]] = x.mem[SP0 - 2]
         /\ \A r \in AllRegs : r \notin {Hi[p], Lo[p]} => y.reg[r] = x.reg[r]
<1>. DEFINE y == Exec(x, Pop(p))
<1>1. x.sp + 2 \in Addr /\ x.sp + 2 = SP0 /\ x.sp + 1 = SP0 - 1
  BY StackFacts
<1>2. /\ y \in Machine /\ y.sp = x.sp + 2 /\ y.mem = x.mem
      /\ y.reg[Hi[p]] = x.mem[x.sp + 1] /\ y.reg[Lo[p]] = x.mem[x.sp]
      /\ \A r \in AllRegs : r \notin {Hi[p], Lo[p]} => y.reg[r] = x.reg[r]
  BY <1>1, PopEffect
<1>. HIDE DEF y
<1>. QED
  BY <1>1, <1>2 DEF y

LEMMA StackStaysSame ==
  ASSUME NEW x, NEW y, Same(x, y), NEW i, OnStack(x, i)
  PROVE  Same(Exec(x, i), Exec(y, i))
<1>. DEFINE u == Exec(x, i)
            v == Exec(y, i)
<1>1. /\ x \in Machine /\ y \in Machine /\ x.sp = y.sp /\ \A r \in AllRegs : x.reg[r] = y.reg[r]
      /\ \A j \in Addr : j \notin Below(x) => x.mem[j] = y.mem[j]
  BY DEF Same, Ready
<1>2. ASSUME NEW p \in Pairs \cup {"PSW"}, i = Push(p), x.sp = SP0 PROVE Same(u, v)
  <2>1. /\ u \in Machine /\ u.sp = SP0 - 2 /\ u.reg = x.reg
        /\ u.mem[SP0 - 2] = x.reg[Lo[p]] /\ u.mem[SP0 - 1] = x.reg[Hi[p]]
        /\ \A j \in Addr \ Saved : u.mem[j] = x.mem[j]
    BY <1>1, <1>2, PushAtFrame
  <2>2. /\ v \in Machine /\ v.sp = SP0 - 2 /\ v.reg = y.reg
        /\ v.mem[SP0 - 2] = y.reg[Lo[p]] /\ v.mem[SP0 - 1] = y.reg[Hi[p]]
        /\ \A j \in Addr \ Saved : v.mem[j] = y.mem[j]
    BY <1>1, <1>2, PushAtFrame
  <2>. HIDE DEF u, v
  <2>3. Hi[p] \in AllRegs /\ Lo[p] \in AllRegs
    BY PairFacts
  <2>4. \A j \in Addr : j \notin Below(u) /\ j \notin Saved => j \notin Below(x)
    <3>1. SP0 \in Nat /\ \A j \in Addr : j \in Nat
      BY StackFacts, ByteFacts
    <3>. QED
      BY <1>2, <2>1, <3>1 DEF Below, Saved
  <2>5. \A j \in Addr : j \notin Below(u) => u.mem[j] = v.mem[j]
    BY <1>1, <2>1, <2>2, <2>3, <2>4 DEF Saved
  <2>. QED
    BY <1>1, <2>1, <2>2, <2>5 DEF Same, Ready
<1>3. ASSUME NEW p \in Pairs \cup {"PSW"}, i = Pop(p), x.sp = SP0 - 2 PROVE Same(u, v)
  <2>2. /\ u \in Machine /\ u.sp = SP0 /\ u.mem = x.mem
        /\ u.reg[Hi[p]] = x.mem[SP0 - 1] /\ u.reg[Lo[p]] = x.mem[SP0 - 2]
        /\ \A r \in AllRegs : r \notin {Hi[p], Lo[p]} => u.reg[r] = x.reg[r]
    BY <1>1, <1>3, PopToFrame
  <2>3. /\ v \in Machine /\ v.sp = SP0 /\ v.mem = y.mem
        /\ v.reg[Hi[p]] = y.mem[SP0 - 1] /\ v.reg[Lo[p]] = y.mem[SP0 - 2]
        /\ \A r \in AllRegs : r \notin {Hi[p], Lo[p]} => v.reg[r] = y.reg[r]
    <3>1. y.sp = SP0 - 2
      BY <1>1, <1>3
    <3>. HIDE DEF u
    <3>. QED
      BY <1>1, <1>3, <3>1, PopToFrame
  <2>. HIDE DEF u, v
  <2>4. x.mem[SP0 - 1] = y.mem[SP0 - 1] /\ x.mem[SP0 - 2] = y.mem[SP0 - 2]
    <3>1. SP0 - 2 \notin Below(x) /\ SP0 - 1 \notin Below(x)
      BY <1>3, BelowFacts DEF Same
    <3>. QED
      BY <1>1, <3>1, StackFacts
  <2>5. \A r \in AllRegs : u.reg[r] = v.reg[r]
    BY <1>1, <2>2, <2>3, <2>4
  <2>6. \A j \in Addr : j \notin Below(u) => j \notin Below(x)
    <3>1. SP0 \in Nat /\ \A j \in Addr : j \in Nat
      BY StackFacts, ByteFacts
    <3>. QED
      BY <1>3, <2>2, <3>1 DEF Below
  <2>7. \A j \in Addr : j \notin Below(u) => u.mem[j] = v.mem[j]
    BY <1>1, <2>2, <2>3, <2>6
  <2>. QED
    BY <2>2, <2>3, <2>5, <2>7 DEF Same, Ready
<1>. QED
  BY <1>2, <1>3 DEF OnStack

LEMMA ExecSame ==
  ASSUME NEW x, NEW y, Same(x, y), NEW i, Safe(x, i)
  PROVE  Same(Exec(x, i), Exec(y, i))
BY RegistersStaySame, MemoryStaysSame, StackStaysSame DEF Safe

(* An interrupt changes nothing that matters.                               *)
LEMMA InterruptSame ==
  ASSUME NEW x, NEW y, Same(x, y)
  PROVE  Same(x, Interrupted(y, Junk))
<1>. DEFINE n == y.sp - 2
            h == PutWord(y.mem, n, Junk, Junk)
<1>1. y \in Machine /\ y.reg \in [AllRegs -> Byte] /\ y.sp \in Addr /\ y.mem \in [Addr -> Byte] /\ Junk \in Byte
  BY MachineParts, StackFacts DEF Same, Ready
<1>2. n \in Addr /\ n + 1 \in Addr /\ y.sp >= 2
  BY <1>1, StackFacts, ByteFacts DEF Same, Ready
<1>3. Wrap(y.sp + ByteSize * ByteSize - 2) = n
  BY <1>1, <1>2, WrapFacts
<1>4. Interrupted(y, Junk) = WithMem(y, h)
  BY <1>1, <1>3, MachineParts DEF Interrupted, WithMem
<1>5. n \in Below(x) /\ n + 1 \in Below(x)
  BY <1>2, StackFacts, ByteFacts DEF Same, Ready, Below
<1>. HIDE DEF n
<1>6. h \in [Addr -> Byte] /\ \A j \in Addr \ {n, n + 1} : h[j] = y.mem[j]
  <2>1. h \in [Addr -> Byte]
    BY <1>1, <1>2, WordAt
  <2>2. \A j \in Addr \ {n, n + 1} : h[j] = y.mem[j]
    BY <1>1, <1>2, WordAt
  <2>. QED
    BY <2>1, <2>2
<1>. HIDE DEF h
<1>7. /\ Changed(y, WithMem(y, h), {}, {n, n + 1}) /\ WithMem(y, h).reg = y.reg
  BY <1>1, <1>6, MemEffect
<1>. QED
  BY <1>4, <1>5, <1>7 DEF Same, Ready, Changed

-----------------------------------------------------------------------------
(* The code s leads from x to y, each instruction where it is safe.         *)
Names == Regs \cup Pairs \cup {"PSW", "SP", "M", ""}
Opcodes ==
  {"MOV", "MVI", "LXI", "INX", "DAD", "XCHG", "MOVrM", "MOVMr", "LDA", "STA", "LHLD", "SHLD", "PUSH", "POP"}
Instructions == [op : Opcodes, d : Names, s : Names, n : Int]
IsPath(f, x, s, y) ==
  /\ f \in [0..Len(s) -> Machine] /\ f[0] = x /\ f[Len(s)] = y
  /\ \A k \in 1..Len(s) : Safe(f[k - 1], s[k]) /\ f[k] = Exec(f[k - 1], s[k])
Leads(x, s, y) == s \in Seq(Instructions) /\ \E f : IsPath(f, x, s, y)

LEMMA SafeFacts ==
  ASSUME NEW x, NEW i, Safe(x, i)
  PROVE  i \in Instructions /\ x \in Machine /\ Exec(x, i) \in Machine
<1>1. Same(x, x)
  BY DEF Same, Safe
<1>2. Same(Exec(x, i), Exec(x, i))
  BY <1>1, ExecSame
<1>3. x \in Machine /\ Exec(x, i) \in Machine
  BY <1>1, <1>2 DEF Same, Ready
<1>4. /\ \A r \in Regs : r \in Names
      /\ \A p \in Pairs \cup {"PSW"} : p \in Names
      /\ "SP" \in Names /\ "M" \in Names /\ "HL" \in Names /\ "A" \in Names /\ "" \in Names
      /\ \A n \in Byte : n \in Int
      /\ \A n \in Addr : n \in Int
  BY ByteFacts DEF Regs, Pairs, Names
<1>8. \A op \in Opcodes : \A d, s \in Names : \A n \in Int : Instr(op, d, s, n) \in Instructions
  BY DEF Instr, Instructions
<1>9. /\ "MOV" \in Opcodes /\ "MVI" \in Opcodes /\ "LXI" \in Opcodes /\ "INX" \in Opcodes
      /\ "DAD" \in Opcodes /\ "XCHG" \in Opcodes /\ "MOVrM" \in Opcodes /\ "MOVMr" \in Opcodes
      /\ "LDA" \in Opcodes /\ "STA" \in Opcodes /\ "LHLD" \in Opcodes /\ "SHLD" \in Opcodes
      /\ "PUSH" \in Opcodes /\ "POP" \in Opcodes /\ 0 \in Int
  BY DEF Opcodes
<1>5. ASSUME OnRegisters(x, i) PROVE i \in Instructions
  <2>1. ASSUME NEW d \in Regs, NEW s \in Regs, i = Mov(d, s) PROVE i \in Instructions
    BY <1>4, <1>8, <1>9, <2>1, Zenon DEF Mov
  <2>2. ASSUME NEW d \in Regs, NEW n \in Byte, i = Mvi(d, n) PROVE i \in Instructions
    BY <1>4, <1>8, <1>9, <2>2, Zenon DEF Mvi
  <2>3. ASSUME NEW p \in Pairs, NEW n \in Addr, i = Lxi(p, n) PROVE i \in Instructions
    <3>1. p \in Pairs \cup {"PSW"}
      OBVIOUS
    <3>. QED
      BY <1>4, <1>8, <1>9, <2>3, <3>1, Zenon DEF Lxi
  <2>4. Inx("HL") \in Instructions /\ DadSp \in Instructions /\ Xchg \in Instructions
    BY <1>4, <1>8, <1>9, Zenon DEF Inx, DadSp, Dad, Xchg
  <2>. QED
    BY <1>5, <2>1, <2>2, <2>3, <2>4 DEF OnRegisters
<1>6. ASSUME OnMemory(x, i) PROVE i \in Instructions
  <2>1. ASSUME NEW d \in Regs, i = MovFromM(d) \/ i = MovToM(d) PROVE i \in Instructions
    BY <1>4, <1>8, <1>9, <2>1, Zenon DEF MovFromM, MovToM
  <2>2. ASSUME NEW n \in Addr, i = Lda(n) \/ i = Sta(n) \/ i = Lhld(n) \/ i = Shld(n) PROVE i \in Instructions
    <3>1. n \in Int
      BY <1>4
    <3>2. Lda(n) \in Instructions
      BY <1>4, <1>8, <1>9, <3>1, Zenon DEF Lda
    <3>3. Sta(n) \in Instructions
      BY <1>4, <1>8, <1>9, <3>1, Zenon DEF Sta
    <3>4. Lhld(n) \in Instructions
      BY <1>4, <1>8, <1>9, <3>1, Zenon DEF Lhld
    <3>5. Shld(n) \in Instructions
      BY <1>4, <1>8, <1>9, <3>1, Zenon DEF Shld
    <3>. QED
      BY <2>2, <3>2, <3>3, <3>4, <3>5, Zenon
  <2>. QED
    BY <1>6, <2>1, <2>2 DEF OnMemory
<1>7. ASSUME OnStack(x, i) PROVE i \in Instructions
  <2>1. ASSUME NEW p \in Pairs \cup {"PSW"}, i = Push(p) \/ i = Pop(p) PROVE i \in Instructions
    <3>1. p \in Names /\ "" \in Names
      BY <1>4
    <3>2. Push(p) \in Instructions
      BY <1>8, <1>9, <3>1, Zenon DEF Push
    <3>3. Pop(p) \in Instructions
      BY <1>8, <1>9, <3>1, Zenon DEF Pop
    <3>. QED
      BY <2>1, <3>2, <3>3, Zenon
  <2>. QED
    BY <1>7, <2>1 DEF OnStack
<1>. QED
  BY <1>3, <1>5, <1>6, <1>7 DEF Safe

LEMMA LeadsEmpty ==
  ASSUME NEW x \in Machine
  PROVE  Leads(x, <<>>, x) /\ \A y : Leads(x, <<>>, y) => y = x
<1>1. IsPath([k \in 0..0 |-> x], x, <<>>, x)
  BY DEF IsPath
<1>2. Leads(x, <<>>, x)
  BY <1>1 DEF Leads
<1>3. \A y : Leads(x, <<>>, y) => y = x
  BY DEF Leads, IsPath
<1>. QED
  BY <1>2, <1>3

LEMMA LeadsOne ==
  ASSUME NEW x, NEW i, Safe(x, i)
  PROVE  Leads(x, <<i>>, Exec(x, i))
<1>. DEFINE y == Exec(x, i)
            f == [k \in 0..1 |-> IF k = 0 THEN x ELSE y]
            s == <<i>>
<1>1. x \in Machine /\ y \in Machine /\ i \in Instructions
  BY SafeFacts
<1>2. s \in Seq(Instructions) /\ Len(s) = 1 /\ s[1] = i
  BY <1>1
<1>3. f \in [0..Len(s) -> Machine] /\ f[0] = x /\ f[Len(s)] = y
  BY <1>1, <1>2
<1>4. \A k \in 1..Len(s) : k = 1 /\ f[k - 1] = x /\ f[k] = y
  BY <1>2
<1>. HIDE DEF f
<1>5. IsPath(f, x, s, y)
  BY <1>2, <1>3, <1>4 DEF IsPath
<1>. QED
  BY <1>2, <1>5 DEF Leads

LEMMA LeadsJoin ==
  ASSUME NEW x, NEW s, NEW y, NEW t, NEW z, Leads(x, s, y), Leads(y, t, z)
  PROVE  Leads(x, s \o t, z)
<1>1. s \in Seq(Instructions) /\ t \in Seq(Instructions)
  BY DEF Leads
<1>2. PICK f : IsPath(f, x, s, y)
  BY DEF Leads
<1>3. PICK g : IsPath(g, y, t, z)
  BY DEF Leads
<1>. DEFINE n == Len(s)
            l == Len(t)
            w == s \o t
            h == [k \in 0..(n + l) |-> IF k <= n THEN f[k] ELSE g[k - n]]
<1>4. n \in Nat /\ l \in Nat
  BY <1>1
<1>5. /\ w \in Seq(Instructions) /\ Len(w) = n + l
      /\ \A k \in 1..n : w[k] = s[k]
      /\ \A k \in n + 1..n + l : w[k] = t[k - n]
  BY <1>1
<1>6. /\ f \in [0..n -> Machine] /\ f[0] = x /\ f[n] = y
      /\ \A k \in 1..n : Safe(f[k - 1], s[k]) /\ f[k] = Exec(f[k - 1], s[k])
  BY <1>2 DEF IsPath
<1>7. /\ g \in [0..l -> Machine] /\ g[0] = y /\ g[l] = z
      /\ \A k \in 1..l : Safe(g[k - 1], t[k]) /\ g[k] = Exec(g[k - 1], t[k])
  BY <1>3 DEF IsPath
<1>. HIDE DEF n, l, w
<1>8. /\ h \in [0..(n + l) -> Machine] /\ h[0] = x /\ h[n + l] = z
      /\ \A k \in 0..n : h[k] = f[k]
      /\ \A k \in n..(n + l) : h[k] = g[k - n]
  <2>1. \A k \in 0..(n + l) : h[k] \in Machine
    BY <1>4, <1>6, <1>7
  <2>2. h \in [0..(n + l) -> Machine]
    BY <2>1
  <2>3. h[0] = x /\ \A k \in 0..n : h[k] = f[k]
    BY <1>4, <1>6
  <2>4. \A k \in n..(n + l) : h[k] = g[k - n]
    BY <1>4, <1>6, <1>7
  <2>5. h[n + l] = z
    <3>. DEFINE e == n + l
    <3>1. e \in n..(n + l) /\ e - n = l
      BY <1>4
    <3>2. h[e] = g[e - n]
      BY <2>4, <3>1
    <3>. QED
      BY <1>7, <3>1, <3>2
  <2>. QED
    BY <2>2, <2>3, <2>4, <2>5
<1>. HIDE DEF h
<1>9. ASSUME NEW k \in 1..(n + l)
      PROVE  Safe(h[k - 1], w[k]) /\ h[k] = Exec(h[k - 1], w[k])
  <2>1. CASE k <= n
    <3>1. k \in 1..n /\ k \in 0..n /\ k - 1 \in 0..n
      BY <1>4, <2>1
    <3>2. h[k] = f[k] /\ h[k - 1] = f[k - 1] /\ w[k] = s[k]
      BY <1>5, <1>8, <3>1
    <3>. QED
      BY <1>6, <3>1, <3>2
  <2>2. CASE k > n
    <3>1. k \in n + 1..n + l /\ k \in n..(n + l) /\ k - 1 \in n..(n + l) /\ k - n \in 1..l /\ k - 1 - n = k - n - 1
      BY <1>4, <2>2
    <3>2. h[k] = g[k - n] /\ h[k - 1] = g[k - n - 1] /\ w[k] = t[k - n]
      BY <1>5, <1>8, <3>1
    <3>. QED
      BY <1>7, <3>1, <3>2
  <2>. QED
    BY <1>4, <2>1, <2>2
<1>10. IsPath(h, x, w, z)
  BY <1>5, <1>8, <1>9 DEF IsPath
<1>. QED
  BY <1>5, <1>10 DEF Leads, w

LEMMA LeadsOn ==
  ASSUME NEW x, NEW s, NEW y, Leads(x, s, y), s # <<>>
  PROVE  Safe(x, Head(s)) /\ Leads(Exec(x, Head(s)), Tail(s), y)
<1>1. s \in Seq(Instructions)
  BY DEF Leads
<1>2. PICK f : IsPath(f, x, s, y)
  BY DEF Leads
<1>. DEFINE n == Len(s)
            t == Tail(s)
            g == [k \in 0..(n - 1) |-> f[k + 1]]
<1>3. n \in Nat /\ n >= 1 /\ s[1] = Head(s)
  BY <1>1
<1>4. t \in Seq(Instructions) /\ Len(t) = n - 1 /\ \A k \in 1..(n - 1) : t[k] = s[k + 1]
  BY <1>1, <1>3
<1>5. /\ f \in [0..n -> Machine] /\ f[0] = x /\ f[n] = y
      /\ \A k \in 1..n : Safe(f[k - 1], s[k]) /\ f[k] = Exec(f[k - 1], s[k])
  BY <1>2 DEF IsPath
<1>6. Safe(x, Head(s)) /\ f[1] = Exec(x, Head(s))
  <2>1. 1 \in 1..n /\ 1 - 1 = 0
    BY <1>3
  <2>. QED
    BY <1>3, <1>5, <2>1
<1>. HIDE DEF n, t
<1>7. /\ g \in [0..(n - 1) -> Machine] /\ g[0] = f[1] /\ g[n - 1] = y
      /\ \A k \in 0..(n - 1) : g[k] = f[k + 1]
  BY <1>3, <1>5
<1>. HIDE DEF g
<1>8. ASSUME NEW k \in 1..(n - 1)
      PROVE  Safe(g[k - 1], t[k]) /\ g[k] = Exec(g[k - 1], t[k])
  <2>1. k + 1 \in 1..n /\ k \in 0..(n - 1) /\ k - 1 \in 0..(n - 1) /\ k - 1 + 1 = k /\ k + 1 - 1 = k
    BY <1>3
  <2>2. g[k] = f[k + 1] /\ g[k - 1] = f[k] /\ t[k] = s[k + 1]
    BY <1>4, <1>7, <2>1
  <2>. QED
    BY <1>5, <2>1, <2>2
<1>9. IsPath(g, f[1], t, y)
  BY <1>4, <1>7, <1>8 DEF IsPath
<1>. QED
  BY <1>4, <1>6, <1>9 DEF Leads, t

LEMMA LeadsType ==
  ASSUME NEW x, NEW s, NEW y, Leads(x, s, y)
  PROVE  x \in Machine /\ y \in Machine /\ s \in Seq(Instructions)
BY DEF Leads, IsPath

-----------------------------------------------------------------------------
(* The code s leads from x to y and changes registers only in S, memory     *)
(* only in X.                                                               *)
Does(x, s, y, S, X) == Leads(x, s, y) /\ Changed(x, y, S, X)

LEMMA DoesFacts ==
  ASSUME NEW x, NEW s, NEW y, NEW S, NEW X, Does(x, s, y, S, X)
  PROVE  /\ x \in Machine /\ y \in Machine /\ y.sp = x.sp /\ s \in Seq(Instructions)
         /\ Ready(x) => Ready(y)
         /\ \A r \in AllRegs : r \notin S => y.reg[r] = x.reg[r]
         /\ \A i \in Addr : i \notin X => y.mem[i] = x.mem[i]
BY LeadsType DEF Does, Changed, Ready

LEMMA DoesMore ==
  ASSUME NEW x, NEW s, NEW y, NEW S, NEW X, Does(x, s, y, S, X), NEW T, NEW Y, S \subseteq T, X \subseteq Y
  PROVE  Does(x, s, y, T, Y)
BY DEF Does, Changed

LEMMA DoesJoin ==
  ASSUME NEW x, NEW s, NEW y, NEW S, NEW X, Does(x, s, y, S, X),
         NEW t, NEW z, NEW T, NEW Y, Does(y, t, z, T, Y)
  PROVE  Does(x, s \o t, z, S \cup T, X \cup Y)
<1>1. Leads(x, s \o t, z)
  BY LeadsJoin DEF Does
<1>2. Changed(x, z, S \cup T, X \cup Y)
  BY DEF Does, Changed
<1>. QED
  BY <1>1, <1>2 DEF Does

LEMMA DoesNothing ==
  ASSUME NEW x \in Machine
  PROVE  Does(x, <<>>, x, {}, {})
BY LeadsEmpty DEF Does, Changed

LEMMA DoesOne ==
  ASSUME NEW x, NEW i, Safe(x, i), NEW S, NEW X, Changed(x, Exec(x, i), S, X)
  PROVE  Does(x, <<i>>, Exec(x, i), S, X)
BY LeadsOne DEF Does

(* One instruction.                                                         *)
LEMMA DoMov ==
  ASSUME NEW x, Ready(x), NEW d \in Regs, NEW s \in Regs
  PROVE  Does(x, <<Mov(d, s)>>, Exec(x, Mov(d, s)), {d}, {}) /\ Exec(x, Mov(d, s)).reg[d] = x.reg[s]
<1>1. Safe(x, Mov(d, s))
  BY DEF Safe, OnRegisters
<1>. QED
  BY <1>1, DoesOne, MovEffect DEF Ready

LEMMA DoMovFromM ==
  ASSUME NEW x, Ready(x), NEW d \in Regs, Pair(x, "HL") \notin FreeStack
  PROVE  /\ Does(x, <<MovFromM(d)>>, Exec(x, MovFromM(d)), {d}, {})
         /\ Exec(x, MovFromM(d)).reg[d] = x.mem[Pair(x, "HL")]
<1>1. Safe(x, MovFromM(d))
  BY DEF Safe, OnMemory
<1>. QED
  BY <1>1, DoesOne, MovFromMEffect DEF Ready

LEMMA DoMovToM ==
  ASSUME NEW x, Ready(x), NEW s \in Regs
  PROVE  /\ Does(x, <<MovToM(s)>>, Exec(x, MovToM(s)), {}, {Pair(x, "HL")})
         /\ Exec(x, MovToM(s)).mem[Pair(x, "HL")] = x.reg[s]
<1>1. Safe(x, MovToM(s))
  BY DEF Safe, OnMemory
<1>. QED
  BY <1>1, DoesOne, MovToMEffect DEF Ready

LEMMA DoMvi ==
  ASSUME NEW x, Ready(x), NEW d \in Regs, NEW n \in Byte
  PROVE  Does(x, <<Mvi(d, n)>>, Exec(x, Mvi(d, n)), {d}, {}) /\ Exec(x, Mvi(d, n)).reg[d] = n
<1>1. Safe(x, Mvi(d, n))
  BY DEF Safe, OnRegisters
<1>. QED
  BY <1>1, DoesOne, MviEffect DEF Ready

LEMMA DoLxi ==
  ASSUME NEW x, Ready(x), NEW p \in Pairs, NEW n \in Addr
  PROVE  /\ Does(x, <<Lxi(p, n)>>, Exec(x, Lxi(p, n)), {Hi[p], Lo[p]}, {})
         /\ Exec(x, Lxi(p, n)).reg[Hi[p]] = n \div ByteSize /\ Exec(x, Lxi(p, n)).reg[Lo[p]] = n % ByteSize
         /\ Pair(Exec(x, Lxi(p, n)), p) = n
<1>1. Safe(x, Lxi(p, n))
  BY DEF Safe, OnRegisters
<1>. QED
  BY <1>1, DoesOne, LxiEffect DEF Ready

LEMMA DoInx ==
  ASSUME NEW x, Ready(x), Pair(x, "HL") + 1 \in Addr
  PROVE  /\ Does(x, <<Inx("HL")>>, Exec(x, Inx("HL")), {"H", "L"}, {})
         /\ Pair(Exec(x, Inx("HL")), "HL") = Pair(x, "HL") + 1
<1>1. Safe(x, Inx("HL"))
  BY DEF Safe, OnRegisters
<1>. QED
  BY <1>1, DoesOne, InxEffect DEF Ready

LEMMA DoDadSp ==
  ASSUME NEW x, Ready(x), Pair(x, "HL") + x.sp \in Addr
  PROVE  /\ Does(x, <<DadSp>>, Exec(x, DadSp), {"H", "L", "F"}, {})
         /\ Pair(Exec(x, DadSp), "HL") = Pair(x, "HL") + x.sp
<1>1. Safe(x, DadSp)
  BY DEF Safe, OnRegisters
<1>. QED
  BY <1>1, DoesOne, DadSpEffect DEF Ready

LEMMA DoXchg ==
  ASSUME NEW x, Ready(x)
  PROVE  LET y == Exec(x, Xchg) IN
         /\ Does(x, <<Xchg>>, y, {"D", "E", "H", "L"}, {})
         /\ y.reg["D"] = x.reg["H"] /\ y.reg["E"] = x.reg["L"]
         /\ y.reg["H"] = x.reg["D"] /\ y.reg["L"] = x.reg["E"]
<1>1. Safe(x, Xchg)
  BY DEF Safe, OnRegisters
<1>. QED
  BY <1>1, DoesOne, XchgEffect DEF Ready

LEMMA DoLda ==
  ASSUME NEW x, Ready(x), NEW n \in Addr \ FreeStack
  PROVE  Does(x, <<Lda(n)>>, Exec(x, Lda(n)), {"A"}, {}) /\ Exec(x, Lda(n)).reg["A"] = x.mem[n]
<1>1. Safe(x, Lda(n))
  BY DEF Safe, OnMemory
<1>. QED
  BY <1>1, DoesOne, LdaEffect DEF Ready

LEMMA DoSta ==
  ASSUME NEW x, Ready(x), NEW n \in Addr
  PROVE  Does(x, <<Sta(n)>>, Exec(x, Sta(n)), {}, {n}) /\ Exec(x, Sta(n)).mem[n] = x.reg["A"]
<1>1. Safe(x, Sta(n))
  BY DEF Safe, OnMemory
<1>. QED
  BY <1>1, DoesOne, StaEffect DEF Ready

LEMMA DoLhld ==
  ASSUME NEW x, Ready(x), NEW n \in Addr \ FreeStack, n + 1 \in Addr \ FreeStack
  PROVE  /\ Does(x, <<Lhld(n)>>, Exec(x, Lhld(n)), {"H", "L"}, {})
         /\ Exec(x, Lhld(n)).reg["H"] = x.mem[n + 1] /\ Exec(x, Lhld(n)).reg["L"] = x.mem[n]
<1>1. Safe(x, Lhld(n))
  BY DEF Safe, OnMemory
<1>. QED
  BY <1>1, DoesOne, LhldEffect DEF Ready

LEMMA DoShld ==
  ASSUME NEW x, Ready(x), NEW n \in Addr, n + 1 \in Addr
  PROVE  /\ Does(x, <<Shld(n)>>, Exec(x, Shld(n)), {}, {n, n + 1})
         /\ Exec(x, Shld(n)).mem[n] = x.reg["L"] /\ Exec(x, Shld(n)).mem[n + 1] = x.reg["H"]
<1>1. Safe(x, Shld(n))
  BY DEF Safe, OnMemory
<1>. QED
  BY <1>1, DoesOne, ShldEffect DEF Ready

LEMMA ConsFacts ==
  ASSUME NEW T, NEW i \in T, NEW t \in Seq(T)
  PROVE  /\ <<i>> \o t \in Seq(T) /\ Len(<<i>> \o t) = Len(t) + 1 /\ (<<i>> \o t)[1] = i
         /\ \A e \in 1..Len(t) : (<<i>> \o t)[e + 1] = t[e]
<1>. DEFINE s == <<i>>
<1>1. s \in Seq(T) /\ Len(s) = 1 /\ s[1] = i
  OBVIOUS
<1>. HIDE DEF s
<1>2. /\ s \o t \in Seq(T) /\ Len(s \o t) = 1 + Len(t)
      /\ \A e \in 1..Len(s) : (s \o t)[e] = s[e]
      /\ \A e \in 1..Len(t) : (s \o t)[Len(s) + e] = t[e]
  BY <1>1, JoinFacts
<1>3. \A e \in 1..Len(t) : (s \o t)[e + 1] = t[e]
  BY <1>1, <1>2
<1>. QED
  BY <1>1, <1>2, <1>3 DEF s
Longer(i, t, w) == Len(w) = Len(t) + 1 /\ w[1] = i /\ \A e \in 1..Len(t) : w[e + 1] = t[e]

LEMMA LongerFacts ==
  ASSUME NEW T, NEW i \in T, NEW t \in Seq(T), NEW w \in Seq(T), Longer(i, t, w)
  PROVE  <<i>> \o t = w
<1>. DEFINE c == <<i>> \o t
<1>1. c \in Seq(T) /\ Len(c) = Len(t) + 1 /\ c[1] = i /\ \A e \in 1..Len(t) : c[e + 1] = t[e]
  BY ConsFacts
<1>. HIDE DEF c
<1>2. ASSUME NEW e \in 1..Len(c) PROVE c[e] = w[e]
  <2>1. CASE e = 1
    BY <1>1, <2>1 DEF Longer
  <2>2. CASE e # 1
    <3>1. e - 1 \in 1..Len(t) /\ e - 1 + 1 = e
      BY <1>1, <2>2
    <3>. QED
      BY <1>1, <3>1 DEF Longer
  <2>. QED
    BY <2>1, <2>2
<1>3. c = w
  BY <1>1, <1>2 DEF Longer
<1>. QED
  BY <1>3 DEF c

LEMMA OneAndOne == ASSUME NEW i, NEW j PROVE <<i>> \o <<j>> = <<i, j>>
<1>. DEFINE T == {i, j}
            t == <<j>>
            w == <<i, j>>
<1>1. t \in Seq(T) /\ w \in Seq(T) /\ i \in T
  OBVIOUS
<1>2. Len(t) = 1 /\ Len(w) = 2 /\ w[1] = i /\ w[2] = t[1]
  OBVIOUS
<1>. HIDE DEF t, w, T
<1>3. Longer(i, t, w)
  BY <1>2 DEF Longer
<1>4. <<i>> \o t = w
  BY <1>1, <1>3, LongerFacts
<1>. QED
  BY <1>4 DEF t, w

LEMMA OneAndTwo == ASSUME NEW i, NEW j, NEW k PROVE <<i>> \o <<j, k>> = <<i, j, k>>
<1>. DEFINE T == {i, j, k}
            t == <<j, k>>
            w == <<i, j, k>>
<1>1. t \in Seq(T) /\ w \in Seq(T) /\ i \in T
  OBVIOUS
<1>2. Len(t) = 2 /\ Len(w) = 3 /\ w[1] = i /\ w[2] = t[1] /\ w[3] = t[2]
  OBVIOUS
<1>. HIDE DEF t, w, T
<1>3. Longer(i, t, w)
  BY <1>2 DEF Longer
<1>4. <<i>> \o t = w
  BY <1>1, <1>3, LongerFacts
<1>. QED
  BY <1>4 DEF t, w

LEMMA OneAndThree == ASSUME NEW i, NEW j, NEW k, NEW l PROVE <<i>> \o <<j, k, l>> = <<i, j, k, l>>
<1>. DEFINE T == {i, j, k, l}
            t == <<j, k, l>>
            w == <<i, j, k, l>>
<1>1. t \in Seq(T) /\ w \in Seq(T) /\ i \in T
  OBVIOUS
<1>2. Len(t) = 3 /\ Len(w) = 4 /\ w[1] = i /\ w[2] = t[1] /\ w[3] = t[2] /\ w[4] = t[3]
  OBVIOUS
<1>. HIDE DEF t, w, T
<1>3. Longer(i, t, w)
  BY <1>2 DEF Longer
<1>4. <<i>> \o t = w
  BY <1>1, <1>3, LongerFacts
<1>. QED
  BY <1>4 DEF t, w

LEMMA DoesTwo ==
  ASSUME NEW x, NEW y, NEW z, NEW i, NEW j, NEW S, NEW X, NEW T, NEW Y,
         Does(x, <<i>>, y, S, X), Does(y, <<j>>, z, T, Y)
  PROVE  Does(x, <<i, j>>, z, S \cup T, X \cup Y)
<1>1. Does(x, <<i>> \o <<j>>, z, S \cup T, X \cup Y)
  BY DoesJoin
<1>. QED
  BY <1>1, OneAndOne

LEMMA DoesThree ==
  ASSUME NEW x, NEW y, NEW z, NEW i, NEW j, NEW k, NEW S, NEW X, NEW T, NEW Y,
         Does(x, <<i>>, y, S, X), Does(y, <<j, k>>, z, T, Y)
  PROVE  Does(x, <<i, j, k>>, z, S \cup T, X \cup Y)
<1>1. Does(x, <<i>> \o <<j, k>>, z, S \cup T, X \cup Y)
  BY DoesJoin
<1>. QED
  BY <1>1, OneAndTwo

LEMMA DoesFour ==
  ASSUME NEW x, NEW y, NEW z, NEW i, NEW j, NEW k, NEW l, NEW S, NEW X, NEW T, NEW Y,
         Does(x, <<i>>, y, S, X), Does(y, <<j, k, l>>, z, T, Y)
  PROVE  Does(x, <<i, j, k, l>>, z, S \cup T, X \cup Y)
<1>1. Does(x, <<i>> \o <<j, k, l>>, z, S \cup T, X \cup Y)
  BY DoesJoin
<1>2. <<i>> \o <<j, k, l>> = <<i, j, k, l>>
  BY OneAndThree
<1>. QED
  BY <1>1, <1>2

(* From x the code s points HL at n.                                        *)
Points(x, s, n) == \E y : Does(x, s, y, {"H", "L", "F"}, {}) /\ Pair(y, "HL") = n

LEMMA PointsLxi ==
  ASSUME NEW x, Ready(x), NEW n \in Addr
  PROVE  Points(x, <<Lxi("HL", n)>>, n)
<1>. DEFINE y == Exec(x, Lxi("HL", n))
<1>1. Does(x, <<Lxi("HL", n)>>, y, {Hi["HL"], Lo["HL"]}, {}) /\ Pair(y, "HL") = n
  <2>1. "HL" \in Pairs
    BY PairFacts
  <2>. QED
    BY <2>1, DoLxi
<1>. HIDE DEF y
<1>2. {Hi["HL"], Lo["HL"]} \subseteq {"H", "L", "F"}
  BY PairFacts
<1>3. Does(x, <<Lxi("HL", n)>>, y, {"H", "L", "F"}, {})
  BY <1>1, <1>2, DoesMore
<1>. QED
  BY <1>1, <1>3 DEF Points

LEMMA PointsSlot ==
  ASSUME NEW x, Ready(x), NEW off \in Addr, off + x.sp \in Addr
  PROVE  Points(x, AtSlot(off), off + x.sp)
<1>. DEFINE y == Exec(x, Lxi("HL", off))
            z == Exec(y, DadSp)
<1>1. Does(x, <<Lxi("HL", off)>>, y, {Hi["HL"], Lo["HL"]}, {}) /\ Pair(y, "HL") = off
  <2>1. "HL" \in Pairs
    BY PairFacts
  <2>. QED
    BY <2>1, DoLxi
<1>. HIDE DEF y
<1>2. Ready(y) /\ y.sp = x.sp
  BY <1>1, DoesFacts
<1>3. Does(y, <<DadSp>>, z, {"H", "L", "F"}, {}) /\ Pair(z, "HL") = off + x.sp
  BY <1>1, <1>2, DoDadSp
<1>. HIDE DEF z
<1>4. Does(x, <<Lxi("HL", off), DadSp>>, z, {Hi["HL"], Lo["HL"]} \cup {"H", "L", "F"}, {} \cup {})
  BY <1>1, <1>3, DoesTwo
<1>5. {Hi["HL"], Lo["HL"]} \cup {"H", "L", "F"} \subseteq {"H", "L", "F"}
  BY PairFacts
<1>6. Does(x, AtSlot(off), z, {"H", "L", "F"}, {})
  BY <1>4, <1>5, DoesMore DEF AtSlot
<1>. QED
  BY <1>3, <1>6 DEF Points

(* From x the code s writes the byte of register r to n, or the word of     *)
(* pair p; reads them from there.  S are the registers it changes, Y the    *)
(* memory it uses besides.                                                  *)
PutsByte(x, s, r, n, S, Y) == \E y : Does(x, s, y, S, {n} \cup Y) /\ y.mem[n] = x.reg[r]
GetsByte(x, s, r, n, S, Y) == \E y : Does(x, s, y, S \cup {r}, Y) /\ y.reg[r] = x.mem[n]
PutsWord(x, s, p, n, S, Y) ==
  \E y : Does(x, s, y, S, {n, n + 1} \cup Y) /\ y.mem[n] = x.reg[Lo[p]] /\ y.mem[n + 1] = x.reg[Hi[p]]
GetsWord(x, s, p, n, S, Y) ==
  \E y : Does(x, s, y, S \cup {Hi[p], Lo[p]}, Y) /\ y.reg[Lo[p]] = x.mem[n] /\ y.reg[Hi[p]] = x.mem[n + 1]

LEMMA ByteStored ==
  ASSUME NEW x, Ready(x), NEW s, NEW n \in Addr, Points(x, s, n), NEW r \in Regs \ {"H", "L"}
  PROVE  PutsByte(x, s \o <<MovToM(r)>>, r, n, {"H", "L", "F"}, {})
<1>1. PICK y : Does(x, s, y, {"H", "L", "F"}, {}) /\ Pair(y, "HL") = n
  BY DEF Points
<1>. DEFINE z == Exec(y, MovToM(r))
<1>2. Ready(y) /\ y.reg[r] = x.reg[r]
  <2>1. r \in AllRegs /\ r \notin {"H", "L", "F"}
    BY DEF AllRegs, Regs
  <2>. QED
    BY <1>1, <2>1, DoesFacts
<1>3. Does(y, <<MovToM(r)>>, z, {}, {n}) /\ z.mem[n] = x.reg[r]
  BY <1>1, <1>2, DoMovToM
<1>. HIDE DEF z
<1>4. Does(x, s \o <<MovToM(r)>>, z, {"H", "L", "F"} \cup {}, {} \cup {n})
  BY <1>1, <1>3, DoesJoin
<1>5. Does(x, s \o <<MovToM(r)>>, z, {"H", "L", "F"}, {n} \cup {})
  BY <1>4, DoesMore
<1>. QED
  BY <1>3, <1>5 DEF PutsByte

LEMMA ByteLoaded ==
  ASSUME NEW x, Ready(x), NEW s, NEW n \in Addr \ FreeStack, Points(x, s, n), NEW r \in Regs
  PROVE  GetsByte(x, s \o <<MovFromM(r)>>, r, n, {"H", "L", "F"}, {})
<1>1. PICK y : Does(x, s, y, {"H", "L", "F"}, {}) /\ Pair(y, "HL") = n
  BY DEF Points
<1>. DEFINE z == Exec(y, MovFromM(r))
<1>2. Ready(y) /\ y.mem[n] = x.mem[n]
  BY <1>1, DoesFacts
<1>3. Does(y, <<MovFromM(r)>>, z, {r}, {}) /\ z.reg[r] = x.mem[n]
  BY <1>1, <1>2, DoMovFromM
<1>. HIDE DEF z
<1>4. Does(x, s \o <<MovFromM(r)>>, z, {"H", "L", "F"} \cup {r}, {} \cup {})
  BY <1>1, <1>3, DoesJoin
<1>5. Does(x, s \o <<MovFromM(r)>>, z, {"H", "L", "F"} \cup {r}, {})
  BY <1>4, DoesMore
<1>. QED
  BY <1>3, <1>5 DEF GetsByte

LEMMA WordStored ==
  ASSUME NEW x, Ready(x), NEW s, NEW n \in Addr, n + 1 \in Addr, Points(x, s, n), NEW p \in {"BC", "DE"}
  PROVE  PutsWord(x, s \o StoreBytes(p), p, n, {"H", "L", "F"}, {})
<1>1. PICK y : Does(x, s, y, {"H", "L", "F"}, {}) /\ Pair(y, "HL") = n
  BY DEF Points
<1>. DEFINE S == {"H", "L", "F"}
            u == Exec(y, MovToM(Lo[p]))
            v == Exec(u, Inx("HL"))
            z == Exec(v, MovToM(Hi[p]))
<1>0. /\ Hi[p] \in Regs /\ Lo[p] \in Regs /\ Hi[p] \in AllRegs /\ Lo[p] \in AllRegs /\ Hi[p] # Lo[p]
      /\ Hi[p] \notin S /\ Lo[p] \notin S /\ "H" \in AllRegs /\ "L" \in AllRegs
  BY DEF Regs, AllRegs, Hi, Lo
<1>2. Ready(y) /\ y.reg[Hi[p]] = x.reg[Hi[p]] /\ y.reg[Lo[p]] = x.reg[Lo[p]]
  BY <1>0, <1>1, DoesFacts
<1>3. Does(y, <<MovToM(Lo[p])>>, u, {}, {n}) /\ u.mem[n] = x.reg[Lo[p]]
  BY <1>0, <1>1, <1>2, DoMovToM
<1>. HIDE DEF u
<1>4. /\ Ready(u) /\ u.reg[Hi[p]] = x.reg[Hi[p]] /\ u.reg["H"] = y.reg["H"] /\ u.reg["L"] = y.reg["L"]
      /\ Pair(u, "HL") = n
  <2>1. /\ Ready(u) /\ u.reg[Hi[p]] = x.reg[Hi[p]] /\ u.reg["H"] = y.reg["H"] /\ u.reg["L"] = y.reg["L"]
    BY <1>0, <1>2, <1>3, DoesFacts
  <2>2. Pair(u, "HL") = Pair(y, "HL")
    BY <2>1, PairFacts DEF Pair
  <2>. QED
    BY <1>1, <2>1, <2>2
<1>5. Does(u, <<Inx("HL")>>, v, {"H", "L"}, {}) /\ Pair(v, "HL") = n + 1
  BY <1>4, DoInx
<1>. HIDE DEF v
<1>6. Ready(v) /\ v.reg[Hi[p]] = x.reg[Hi[p]] /\ v.mem[n] = x.reg[Lo[p]]
  BY <1>0, <1>3, <1>4, <1>5, DoesFacts
<1>7. Does(v, <<MovToM(Hi[p])>>, z, {}, {n + 1}) /\ z.mem[n + 1] = x.reg[Hi[p]]
  BY <1>0, <1>5, <1>6, DoMovToM
<1>. HIDE DEF z
<1>8. z.mem[n] = x.reg[Lo[p]]
  <2>1. n \notin {n + 1}
    BY ByteFacts
  <2>. QED
    BY <1>6, <1>7, <2>1, DoesFacts
<1>9. Does(u, <<Inx("HL"), MovToM(Hi[p])>>, z, {"H", "L"} \cup {}, {} \cup {n + 1})
  BY <1>5, <1>7, DoesTwo
<1>10. Does(y, StoreBytes(p), z, {} \cup ({"H", "L"} \cup {}), {n} \cup ({} \cup {n + 1}))
  BY <1>3, <1>9, DoesThree DEF StoreBytes
<1>11. Does(y, StoreBytes(p), z, S, {n, n + 1})
  BY <1>10, DoesMore
<1>12. Does(x, s \o StoreBytes(p), z, S \cup S, {} \cup {n, n + 1})
  BY <1>1, <1>11, DoesJoin
<1>13. Does(x, s \o StoreBytes(p), z, S, {n, n + 1} \cup {})
  BY <1>12, DoesMore
<1>. QED
  BY <1>7, <1>8, <1>13 DEF PutsWord

LEMMA WordLoaded ==
  ASSUME NEW x, Ready(x), NEW s, NEW n \in Addr \ FreeStack, n + 1 \in Addr \ FreeStack, Points(x, s, n),
         NEW p \in {"BC", "DE"}
  PROVE  GetsWord(x, s \o LoadBytes(p), p, n, {"H", "L", "F"}, {})
<1>1. PICK y : Does(x, s, y, {"H", "L", "F"}, {}) /\ Pair(y, "HL") = n
  BY DEF Points
<1>. DEFINE S == {"H", "L", "F"}
            u == Exec(y, MovFromM(Lo[p]))
            v == Exec(u, Inx("HL"))
            z == Exec(v, MovFromM(Hi[p]))
<1>0. /\ Hi[p] \in Regs /\ Lo[p] \in Regs /\ Hi[p] \in AllRegs /\ Lo[p] \in AllRegs /\ Hi[p] # Lo[p]
      /\ Hi[p] \notin S /\ Lo[p] \notin S /\ "H" \in AllRegs /\ "L" \in AllRegs
  BY DEF Regs, AllRegs, Hi, Lo
<1>2. Ready(y) /\ y.mem[n] = x.mem[n] /\ y.mem[n + 1] = x.mem[n + 1]
  BY <1>1, DoesFacts
<1>3. Does(y, <<MovFromM(Lo[p])>>, u, {Lo[p]}, {}) /\ u.reg[Lo[p]] = x.mem[n]
  BY <1>0, <1>1, <1>2, DoMovFromM
<1>. HIDE DEF u
<1>4. Ready(u) /\ u.mem[n + 1] = x.mem[n + 1] /\ Pair(u, "HL") = n
  <2>1. Ready(u) /\ u.mem[n + 1] = x.mem[n + 1] /\ u.reg["H"] = y.reg["H"] /\ u.reg["L"] = y.reg["L"]
    BY <1>0, <1>2, <1>3, DoesFacts
  <2>2. Pair(u, "HL") = Pair(y, "HL")
    BY <2>1, PairFacts DEF Pair
  <2>. QED
    BY <1>1, <2>1, <2>2
<1>5. Does(u, <<Inx("HL")>>, v, {"H", "L"}, {}) /\ Pair(v, "HL") = n + 1
  BY <1>4, DoInx
<1>. HIDE DEF v
<1>6. Ready(v) /\ v.reg[Lo[p]] = x.mem[n] /\ v.mem[n + 1] = x.mem[n + 1]
  BY <1>0, <1>3, <1>4, <1>5, DoesFacts
<1>7. Does(v, <<MovFromM(Hi[p])>>, z, {Hi[p]}, {}) /\ z.reg[Hi[p]] = x.mem[n + 1]
  BY <1>0, <1>5, <1>6, DoMovFromM
<1>. HIDE DEF z
<1>8. z.reg[Lo[p]] = x.mem[n]
  BY <1>0, <1>6, <1>7, DoesFacts
<1>9. Does(u, <<Inx("HL"), MovFromM(Hi[p])>>, z, {"H", "L"} \cup {Hi[p]}, {} \cup {})
  BY <1>5, <1>7, DoesTwo
<1>10. Does(y, LoadBytes(p), z, {Lo[p]} \cup ({"H", "L"} \cup {Hi[p]}), {} \cup ({} \cup {}))
  BY <1>3, <1>9, DoesThree DEF LoadBytes
<1>11. Does(x, s \o LoadBytes(p), z, S \cup ({Lo[p]} \cup ({"H", "L"} \cup {Hi[p]})), {} \cup ({} \cup ({} \cup {})))
  BY <1>1, <1>10, DoesJoin
<1>12. Does(x, s \o LoadBytes(p), z, S \cup {Hi[p], Lo[p]}, {})
  BY <1>11, DoesMore
<1>. QED
  BY <1>7, <1>8, <1>12 DEF GetsWord

-----------------------------------------------------------------------------
(* Code between a push and a pop of the same pair.                          *)
Pushable == Pairs \cup {"PSW"}

LEMMA Pushed ==
  ASSUME NEW x, Ready(x), x.sp = SP0, NEW p \in Pushable
  PROVE  LET y == Exec(x, Push(p)) IN
         /\ Ready(y) /\ y.sp = SP0 - 2 /\ y.reg = x.reg
         /\ \A i \in Addr : i \notin FreeStack => y.mem[i] = x.mem[i]
<1>. DEFINE y == Exec(x, Push(p))
<1>1. /\ y \in Machine /\ y.sp = SP0 - 2 /\ y.reg = x.reg
      /\ \A i \in Addr \ Saved : y.mem[i] = x.mem[i]
  BY PushAtFrame DEF Ready, Pushable
<1>. HIDE DEF y
<1>2. Ready(y) /\ \A i \in Addr : i \notin FreeStack => y.mem[i] = x.mem[i]
  BY <1>1, StackFacts DEF Ready
<1>. QED
  BY <1>1, <1>2 DEF y

Apart(X) == X \cap FreeStack = {}

LEMMA AroundDoes ==
  ASSUME NEW x, Ready(x), x.sp = SP0, NEW p \in Pushable, NEW body, NEW y, NEW S, NEW X,
         Does(Exec(x, Push(p)), body, y, S, X), Apart(X)
  PROVE  LET z == Exec(y, Pop(p)) IN
         /\ Does(x, Around(p, body), z, S \ {Hi[p], Lo[p]}, X \cup Saved)
         /\ \A q \in AllRegs : q \notin {Hi[p], Lo[p]} => z.reg[q] = y.reg[q]
         /\ z.mem = y.mem
<1>. DEFINE u == Exec(x, Push(p))
            z == Exec(y, Pop(p))
<1>1. Safe(x, Push(p))
  BY DEF Safe, OnStack, Pushable
<1>2. Leads(x, <<Push(p)>>, u)
  BY <1>1, LeadsOne
<1>3. /\ u \in Machine /\ u.sp = SP0 - 2 /\ u.reg = x.reg
      /\ u.mem[SP0 - 2] = x.reg[Lo[p]] /\ u.mem[SP0 - 1] = x.reg[Hi[p]]
      /\ \A i \in Addr \ Saved : u.mem[i] = x.mem[i]
  BY PushAtFrame DEF Ready, Pushable
<1>. HIDE DEF u
<1>4. /\ Ready(u) /\ Ready(y) /\ y \in Machine /\ y.sp = SP0 - 2
      /\ y.mem[SP0 - 2] = x.reg[Lo[p]] /\ y.mem[SP0 - 1] = x.reg[Hi[p]]
      /\ \A i \in Addr : i \notin X \cup Saved => y.mem[i] = x.mem[i]
      /\ \A r \in AllRegs : r \notin S => y.reg[r] = x.reg[r]
  <2>1. Does(u, body, y, S, X)
    BY DEF u
  <2>2. Ready(u)
    BY <1>3 DEF Ready
  <2>3. /\ Ready(y) /\ y \in Machine /\ y.sp = u.sp
        /\ \A r \in AllRegs : r \notin S => y.reg[r] = u.reg[r]
        /\ \A i \in Addr : i \notin X => y.mem[i] = u.mem[i]
    BY <2>1, <2>2, DoesFacts
  <2>4. SP0 - 2 \in Addr /\ SP0 - 1 \in Addr /\ SP0 - 2 \notin X /\ SP0 - 1 \notin X
    BY StackFacts DEF Saved, Apart
  <2>. QED
    BY <1>3, <2>2, <2>3, <2>4
<1>5. Safe(y, Pop(p))
  BY <1>4 DEF Safe, OnStack, Pushable
<1>6. Leads(y, <<Pop(p)>>, z)
  BY <1>5, LeadsOne
<1>7. /\ z \in Machine /\ z.sp = SP0 /\ z.mem = y.mem
      /\ z.reg[Hi[p]] = y.mem[SP0 - 1] /\ z.reg[Lo[p]] = y.mem[SP0 - 2]
      /\ \A r \in AllRegs : r \notin {Hi[p], Lo[p]} => z.reg[r] = y.reg[r]
  BY <1>4, PopToFrame DEF Pushable
<1>. HIDE DEF z
<1>8. Leads(x, Around(p, body), z)
  <2>1. Leads(u, body, y)
    BY DEF Does, u
  <2>2. Leads(x, <<Push(p)>> \o body, y)
    BY <1>2, <2>1, LeadsJoin
  <2>3. Leads(x, <<Push(p)>> \o body \o <<Pop(p)>>, z)
    BY <1>6, <2>2, LeadsJoin
  <2>. QED
    BY <2>3 DEF Around
<1>9. Changed(x, z, S \ {Hi[p], Lo[p]}, X \cup Saved)
  <2>1. \A r \in AllRegs \ (S \ {Hi[p], Lo[p]}) : z.reg[r] = x.reg[r]
    BY <1>4, <1>7
  <2>2. \A i \in Addr \ (X \cup Saved) : z.mem[i] = x.mem[i]
    BY <1>4, <1>7
  <2>. QED
    BY <1>7, <2>1, <2>2 DEF Changed, Ready
<1>. QED
  BY <1>7, <1>8, <1>9 DEF Does, z

LEMMA AroundKeeps ==
  ASSUME NEW x, Ready(x), x.sp = SP0, NEW p \in Pushable, NEW body, NEW y, NEW S, NEW X,
         Does(Exec(x, Push(p)), body, y, S, X)
  PROVE  LET z == Exec(y, Pop(p)) IN
         z.mem = y.mem /\ \A q \in AllRegs : q \notin {Hi[p], Lo[p]} => z.reg[q] = y.reg[q]
<1>1. Ready(Exec(x, Push(p))) /\ Exec(x, Push(p)).sp = SP0 - 2
  BY Pushed
<1>2. y \in Machine /\ y.sp = SP0 - 2
  BY <1>1, DoesFacts
<1>. DEFINE z == Exec(y, Pop(p))
<1>3. z.mem = y.mem /\ \A q \in AllRegs : q \notin {Hi[p], Lo[p]} => z.reg[q] = y.reg[q]
  BY <1>2, PopToFrame DEF Pushable
<1>. QED
  BY <1>3

LEMMA AroundPutsByte ==
  ASSUME NEW x, Ready(x), x.sp = SP0, NEW p \in Pushable, NEW body, NEW r \in Regs,
         NEW n \in Addr \ FreeStack, NEW S, PutsByte(Exec(x, Push(p)), body, r, n, S, {})
  PROVE  PutsByte(x, Around(p, body), r, n, S \ {Hi[p], Lo[p]}, Saved)
<1>. DEFINE X == {n} \cup {}
<1>0. Apart(X)
  BY DEF Apart
<1>1. PICK y : Does(Exec(x, Push(p)), body, y, S, X) /\ y.mem[n] = Exec(x, Push(p)).reg[r]
  BY DEF PutsByte
<1>2. Exec(x, Push(p)).reg = x.reg
  BY Pushed
<1>. HIDE DEF X
<1>. DEFINE z == Exec(y, Pop(p))
<1>3. Does(x, Around(p, body), z, S \ {Hi[p], Lo[p]}, X \cup Saved) /\ z.mem = y.mem
  <2>1. Does(x, Around(p, body), z, S \ {Hi[p], Lo[p]}, X \cup Saved)
    BY <1>1, <1>0, AroundDoes
  <2>2. z.mem = y.mem
    BY <1>1, AroundKeeps
  <2>. QED
    BY <2>1, <2>2
<1>. HIDE DEF z
<1>4. Does(x, Around(p, body), z, S \ {Hi[p], Lo[p]}, {n} \cup Saved)
  BY <1>3, DoesMore DEF X
<1>. QED
  BY <1>1, <1>2, <1>3, <1>4 DEF PutsByte

LEMMA AroundPutsWord ==
  ASSUME NEW x, Ready(x), x.sp = SP0, NEW p \in Pushable, NEW body, NEW q \in Pairs,
         NEW n \in Addr \ FreeStack, n + 1 \in Addr \ FreeStack,
         NEW S, PutsWord(Exec(x, Push(p)), body, q, n, S, {})
  PROVE  PutsWord(x, Around(p, body), q, n, S \ {Hi[p], Lo[p]}, Saved)
<1>. DEFINE X == {n, n + 1} \cup {}
<1>0. Apart(X)
  BY DEF Apart
<1>1. PICK y : /\ Does(Exec(x, Push(p)), body, y, S, X)
               /\ y.mem[n] = Exec(x, Push(p)).reg[Lo[q]] /\ y.mem[n + 1] = Exec(x, Push(p)).reg[Hi[q]]
  BY DEF PutsWord
<1>2. Exec(x, Push(p)).reg = x.reg
  BY Pushed
<1>. HIDE DEF X
<1>. DEFINE z == Exec(y, Pop(p))
<1>3. Does(x, Around(p, body), z, S \ {Hi[p], Lo[p]}, X \cup Saved) /\ z.mem = y.mem
  BY <1>1, <1>0, AroundDoes
<1>. HIDE DEF z
<1>4. Does(x, Around(p, body), z, S \ {Hi[p], Lo[p]}, {n, n + 1} \cup Saved)
  BY <1>3, DoesMore DEF X
<1>. QED
  BY <1>1, <1>2, <1>3, <1>4 DEF PutsWord

LEMMA AroundGetsByte ==
  ASSUME NEW x, Ready(x), x.sp = SP0, NEW p \in Pushable, NEW body, NEW r \in Regs,
         r \notin {Hi[p], Lo[p]}, NEW n \in Addr \ FreeStack, NEW S,
         GetsByte(Exec(x, Push(p)), body, r, n, S, {})
  PROVE  GetsByte(x, Around(p, body), r, n, S \ {Hi[p], Lo[p]}, Saved)
<1>. DEFINE X == {}
<1>0. Apart(X)
  BY DEF Apart
<1>1. PICK y : Does(Exec(x, Push(p)), body, y, S \cup {r}, X) /\ y.reg[r] = Exec(x, Push(p)).mem[n]
  BY DEF GetsByte
<1>2. Exec(x, Push(p)).mem[n] = x.mem[n]
  BY Pushed
<1>. HIDE DEF X
<1>. DEFINE z == Exec(y, Pop(p))
<1>3. /\ Does(x, Around(p, body), z, (S \cup {r}) \ {Hi[p], Lo[p]}, X \cup Saved)
      /\ \A q \in AllRegs : q \notin {Hi[p], Lo[p]} => z.reg[q] = y.reg[q]
  <2>1. Does(x, Around(p, body), z, (S \cup {r}) \ {Hi[p], Lo[p]}, X \cup Saved)
    BY <1>1, <1>0, AroundDoes
  <2>2. \A q \in AllRegs : q \notin {Hi[p], Lo[p]} => z.reg[q] = y.reg[q]
    BY <1>1, AroundKeeps
  <2>. QED
    BY <2>1, <2>2
<1>. HIDE DEF z
<1>4. Does(x, Around(p, body), z, (S \ {Hi[p], Lo[p]}) \cup {r}, Saved)
  BY <1>3, DoesMore DEF X
<1>5. z.reg[r] = y.reg[r]
  BY <1>3 DEF AllRegs
<1>. QED
  BY <1>1, <1>2, <1>4, <1>5 DEF GetsByte

LEMMA AroundGetsWord ==
  ASSUME NEW x, Ready(x), x.sp = SP0, NEW p \in Pairs, NEW body, NEW q \in Pairs, p # q,
         NEW n \in Addr \ FreeStack, n + 1 \in Addr \ FreeStack, NEW S,
         GetsWord(Exec(x, Push(p)), body, q, n, S, {})
  PROVE  GetsWord(x, Around(p, body), q, n, S \ {Hi[p], Lo[p]}, Saved)
<1>. DEFINE X == {}
<1>0. Apart(X)
  BY DEF Apart
<1>1. PICK y : /\ Does(Exec(x, Push(p)), body, y, S \cup {Hi[q], Lo[q]}, X)
               /\ y.reg[Lo[q]] = Exec(x, Push(p)).mem[n] /\ y.reg[Hi[q]] = Exec(x, Push(p)).mem[n + 1]
  BY DEF GetsWord
<1>2. p \in Pushable
  BY DEF Pushable
<1>3. Exec(x, Push(p)).mem[n] = x.mem[n] /\ Exec(x, Push(p)).mem[n + 1] = x.mem[n + 1]
  BY <1>2, Pushed
<1>. HIDE DEF X
<1>. DEFINE z == Exec(y, Pop(p))
<1>4. /\ Does(x, Around(p, body), z, (S \cup {Hi[q], Lo[q]}) \ {Hi[p], Lo[p]}, X \cup Saved)
      /\ \A r \in AllRegs : r \notin {Hi[p], Lo[p]} => z.reg[r] = y.reg[r]
  BY <1>1, <1>2, <1>0, AroundDoes
<1>. HIDE DEF z
<1>5. Does(x, Around(p, body), z, (S \ {Hi[p], Lo[p]}) \cup {Hi[q], Lo[q]}, Saved)
  BY <1>4, DoesMore DEF X
<1>6. Hi[q] \in AllRegs /\ Lo[q] \in AllRegs /\ Hi[q] \notin {Hi[p], Lo[p]} /\ Lo[q] \notin {Hi[p], Lo[p]}
  BY PairFacts DEF Pairs, Hi, Lo
<1>. QED
  BY <1>1, <1>3, <1>4, <1>5, <1>6 DEF GetsWord

(* Code between a copy of A to a spare register and the copy back.          *)
Copied(spare, body) == <<Mov(spare, "A")>> \o body \o <<Mov("A", spare)>>

LEMMA CopiedDoes ==
  ASSUME NEW x, Ready(x), NEW spare \in Regs, spare # "A", NEW body, NEW y, NEW S, NEW X,
         Does(Exec(x, Mov(spare, "A")), body, y, S, X), spare \notin S
  PROVE  Does(x, Copied(spare, body), Exec(y, Mov("A", spare)), (S \ {"A"}) \cup {spare}, X)
<1>. DEFINE u == Exec(x, Mov(spare, "A"))
            z == Exec(y, Mov("A", spare))
<1>0. "A" \in Regs /\ "A" \in AllRegs /\ spare \in AllRegs
  BY DEF Regs, AllRegs
<1>1. Does(x, <<Mov(spare, "A")>>, u, {spare}, {}) /\ u.reg[spare] = x.reg["A"]
  BY <1>0, DoMov
<1>2. Does(u, body, y, S, X)
  OBVIOUS
<1>. HIDE DEF u
<1>3. Ready(u) /\ Ready(y) /\ y.reg[spare] = x.reg["A"]
  BY <1>0, <1>1, <1>2, DoesFacts
<1>4. Does(y, <<Mov("A", spare)>>, z, {"A"}, {}) /\ z.reg["A"] = x.reg["A"]
  BY <1>0, <1>3, DoMov
<1>. HIDE DEF z
<1>5. Does(x, <<Mov(spare, "A")>> \o body, y, {spare} \cup S, {} \cup X)
  BY <1>1, <1>2, DoesJoin
<1>6. Does(x, Copied(spare, body), z, ({spare} \cup S) \cup {"A"}, ({} \cup X) \cup {})
  BY <1>4, <1>5, DoesJoin DEF Copied
<1>7. Changed(x, z, (S \ {"A"}) \cup {spare}, X)
  <2>1. /\ x \in Machine /\ z \in Machine /\ z.sp = x.sp
        /\ \A q \in AllRegs \ ({spare} \cup S \cup {"A"}) : z.reg[q] = x.reg[q]
        /\ \A i \in Addr \ X : z.mem[i] = x.mem[i]
    BY <1>6 DEF Does, Changed
  <2>. QED
    BY <1>4, <2>1 DEF Changed
<1>. QED
  BY <1>6, <1>7 DEF Does, z

LEMMA CopiedKeeps ==
  ASSUME NEW x, Ready(x), NEW spare \in Regs, spare # "A", NEW body, NEW y, NEW S, NEW X,
         Does(Exec(x, Mov(spare, "A")), body, y, S, X)
  PROVE  LET z == Exec(y, Mov("A", spare)) IN
         /\ \A q \in AllRegs : q # "A" => z.reg[q] = y.reg[q]
         /\ z.mem = y.mem
<1>1. "A" \in Regs /\ y \in Machine
  BY DoesFacts DEF Regs
<1>. DEFINE z == Exec(y, Mov("A", spare))
<1>2. Changed(y, z, {"A"}, {}) /\ z.mem = y.mem
  BY <1>1, MovEffect
<1>. HIDE DEF z
<1>3. (\A q \in AllRegs : q # "A" => z.reg[q] = y.reg[q]) /\ z.mem = y.mem
  BY <1>2 DEF Changed
<1>. QED
  BY <1>3 DEF z

LEMMA CopiedPutsByte ==
  ASSUME NEW x, Ready(x), NEW spare \in Regs, spare # "A", NEW body, NEW r \in Regs, r # spare,
         NEW n \in Addr, PutsByte(Exec(x, Mov(spare, "A")), body, r, n, {"A"}, {})
  PROVE  PutsByte(x, Copied(spare, body), r, n, {spare}, {})
<1>. DEFINE u == Exec(x, Mov(spare, "A"))
            X == {n} \cup {}
            S == {"A"}
<1>1. PICK y : Does(u, body, y, S, X) /\ y.mem[n] = u.reg[r]
  BY DEF PutsByte
<1>2. u.reg[r] = x.reg[r]
  <2>1. "A" \in Regs /\ r \in AllRegs
    BY DEF Regs, AllRegs
  <2>2. Does(x, <<Mov(spare, "A")>>, u, {spare}, {})
    BY <2>1, DoMov
  <2>. HIDE DEF u
  <2>. QED
    BY <2>1, <2>2, DoesFacts
<1>3. spare \notin S
  OBVIOUS
<1>. DEFINE z == Exec(y, Mov("A", spare))
<1>. HIDE DEF X, S
<1>4. Does(x, Copied(spare, body), z, (S \ {"A"}) \cup {spare}, X)
  BY <1>1, <1>3, CopiedDoes
<1>5. z.mem = y.mem
  BY <1>1, CopiedKeeps
<1>. HIDE DEF z, u
<1>6. Does(x, Copied(spare, body), z, {spare}, {n} \cup {})
  BY <1>4, DoesMore DEF X, S
<1>. QED
  BY <1>1, <1>2, <1>5, <1>6 DEF PutsByte

LEMMA CopiedGetsByte ==
  ASSUME NEW x, Ready(x), NEW spare \in Regs, spare # "A", NEW body, NEW r \in Regs, r # spare, r # "A",
         NEW n \in Addr, GetsByte(Exec(x, Mov(spare, "A")), body, r, n, {"A"}, {})
  PROVE  GetsByte(x, Copied(spare, body), r, n, {spare}, {})
<1>. DEFINE u == Exec(x, Mov(spare, "A"))
            S == {"A"} \cup {r}
<1>1. PICK y : Does(u, body, y, S, {}) /\ y.reg[r] = u.mem[n]
  BY DEF GetsByte
<1>2. u.mem[n] = x.mem[n]
  <2>1. "A" \in Regs
    BY DEF Regs
  <2>2. Does(x, <<Mov(spare, "A")>>, u, {spare}, {})
    BY <2>1, DoMov
  <2>. HIDE DEF u
  <2>. QED
    BY <2>2, DoesFacts
<1>3. spare \notin S
  OBVIOUS
<1>. DEFINE z == Exec(y, Mov("A", spare))
<1>. HIDE DEF S
<1>4. Does(x, Copied(spare, body), z, (S \ {"A"}) \cup {spare}, {})
  BY <1>1, <1>3, CopiedDoes
<1>5. z.reg[r] = y.reg[r]
  <2>1. \A q \in AllRegs : q # "A" => z.reg[q] = y.reg[q]
    BY <1>1, CopiedKeeps
  <2>. QED
    BY <2>1 DEF AllRegs
<1>. HIDE DEF z, u
<1>6. Does(x, Copied(spare, body), z, {spare} \cup {r}, {})
  BY <1>4, DoesMore DEF S
<1>. QED
  BY <1>1, <1>2, <1>5, <1>6 DEF GetsByte

-----------------------------------------------------------------------------
(* Straight and through A.                                                  *)
LEMMA StoredFromA ==
  ASSUME NEW x, Ready(x), NEW n \in Addr
  PROVE  PutsByte(x, <<Sta(n)>>, "A", n, {}, {})
<1>1. Does(x, <<Sta(n)>>, Exec(x, Sta(n)), {}, {n}) /\ Exec(x, Sta(n)).mem[n] = x.reg["A"]
  BY DoSta
<1>2. Does(x, <<Sta(n)>>, Exec(x, Sta(n)), {}, {n} \cup {})
  BY <1>1, DoesMore
<1>. QED
  BY <1>1, <1>2 DEF PutsByte

LEMMA LoadedToA ==
  ASSUME NEW x, Ready(x), NEW n \in Addr \ FreeStack
  PROVE  GetsByte(x, <<Lda(n)>>, "A", n, {}, {})
<1>1. Does(x, <<Lda(n)>>, Exec(x, Lda(n)), {"A"}, {}) /\ Exec(x, Lda(n)).reg["A"] = x.mem[n]
  BY DoLda
<1>2. Does(x, <<Lda(n)>>, Exec(x, Lda(n)), {} \cup {"A"}, {})
  BY <1>1, DoesMore
<1>. QED
  BY <1>1, <1>2 DEF GetsByte

LEMMA StoredThroughA ==
  ASSUME NEW x, Ready(x), NEW n \in Addr, NEW r \in Regs
  PROVE  PutsByte(x, <<Mov("A", r), Sta(n)>>, r, n, {"A"}, {})
<1>. DEFINE y == Exec(x, Mov("A", r))
            z == Exec(y, Sta(n))
<1>1. Does(x, <<Mov("A", r)>>, y, {"A"}, {}) /\ y.reg["A"] = x.reg[r]
  <2>1. "A" \in Regs
    BY DEF Regs
  <2>. QED
    BY <2>1, DoMov
<1>. HIDE DEF y
<1>2. Ready(y)
  BY <1>1, DoesFacts
<1>3. Does(y, <<Sta(n)>>, z, {}, {n}) /\ z.mem[n] = y.reg["A"]
  BY <1>2, DoSta
<1>. HIDE DEF z
<1>4. Does(x, <<Mov("A", r), Sta(n)>>, z, {"A"} \cup {}, {} \cup {n})
  BY <1>1, <1>3, DoesTwo
<1>5. Does(x, <<Mov("A", r), Sta(n)>>, z, {"A"}, {n} \cup {})
  BY <1>4, DoesMore
<1>. QED
  BY <1>1, <1>3, <1>5 DEF PutsByte

LEMMA LoadedThroughA ==
  ASSUME NEW x, Ready(x), NEW n \in Addr \ FreeStack, NEW r \in Regs
  PROVE  GetsByte(x, <<Lda(n), Mov(r, "A")>>, r, n, {"A"}, {})
<1>. DEFINE y == Exec(x, Lda(n))
            z == Exec(y, Mov(r, "A"))
<1>1. Does(x, <<Lda(n)>>, y, {"A"}, {}) /\ y.reg["A"] = x.mem[n]
  BY DoLda
<1>. HIDE DEF y
<1>2. Ready(y) /\ "A" \in Regs
  BY <1>1, DoesFacts DEF Regs
<1>3. Does(y, <<Mov(r, "A")>>, z, {r}, {}) /\ z.reg[r] = y.reg["A"]
  BY <1>2, DoMov
<1>. HIDE DEF z
<1>4. Does(x, <<Lda(n), Mov(r, "A")>>, z, {"A"} \cup {r}, {} \cup {})
  BY <1>1, <1>3, DoesTwo
<1>5. Does(x, <<Lda(n), Mov(r, "A")>>, z, {"A"} \cup {r}, {})
  BY <1>4, DoesMore
<1>. QED
  BY <1>1, <1>3, <1>5 DEF GetsByte

-----------------------------------------------------------------------------
(* Code that changes no register but those of D that are not reserved.      *)
Dying(S, D, reserved) == \A r \in Regs : r \in S => r \in D /\ r \notin reserved
StoresByte(x, s, r, n, D, reserved) == \E S : PutsByte(x, s, r, n, S, Saved) /\ Dying(S, D, reserved)
LoadsByte(x, s, r, n, D, reserved) == \E S : GetsByte(x, s, r, n, S, Saved) /\ Dying(S, D, reserved)
StoresWord(x, s, p, n, D, reserved) == \E S : PutsWord(x, s, p, n, S, Saved) /\ Dying(S, D, reserved)
LoadsWord(x, s, p, n, D, reserved) == \E S : GetsWord(x, s, p, n, S, Saved) /\ Dying(S, D, reserved)

LEMMA UsesNoStack ==
  ASSUME NEW x, NEW s, NEW r, NEW n, NEW S
  PROVE  /\ PutsByte(x, s, r, n, S, {}) => PutsByte(x, s, r, n, S, Saved)
         /\ GetsByte(x, s, r, n, S, {}) => GetsByte(x, s, r, n, S, Saved)
         /\ PutsWord(x, s, r, n, S, {}) => PutsWord(x, s, r, n, S, Saved)
         /\ GetsWord(x, s, r, n, S, {}) => GetsWord(x, s, r, n, S, Saved)
<1>1. ASSUME PutsByte(x, s, r, n, S, {}) PROVE PutsByte(x, s, r, n, S, Saved)
  <2>1. PICK y : Does(x, s, y, S, {n} \cup {}) /\ y.mem[n] = x.reg[r]
    BY <1>1 DEF PutsByte
  <2>2. Does(x, s, y, S, {n} \cup Saved)
    BY <2>1, DoesMore
  <2>. QED
    BY <2>1, <2>2 DEF PutsByte
<1>2. ASSUME GetsByte(x, s, r, n, S, {}) PROVE GetsByte(x, s, r, n, S, Saved)
  <2>1. PICK y : Does(x, s, y, S \cup {r}, {}) /\ y.reg[r] = x.mem[n]
    BY <1>2 DEF GetsByte
  <2>2. Does(x, s, y, S \cup {r}, Saved)
    BY <2>1, DoesMore
  <2>. QED
    BY <2>1, <2>2 DEF GetsByte
<1>3. ASSUME PutsWord(x, s, r, n, S, {}) PROVE PutsWord(x, s, r, n, S, Saved)
  <2>1. PICK y : Does(x, s, y, S, {n, n + 1} \cup {}) /\ y.mem[n] = x.reg[Lo[r]] /\ y.mem[n + 1] = x.reg[Hi[r]]
    BY <1>3 DEF PutsWord
  <2>2. Does(x, s, y, S, {n, n + 1} \cup Saved)
    BY <2>1, DoesMore
  <2>. QED
    BY <2>1, <2>2 DEF PutsWord
<1>4. ASSUME GetsWord(x, s, r, n, S, {}) PROVE GetsWord(x, s, r, n, S, Saved)
  <2>1. PICK y : Does(x, s, y, S \cup {Hi[r], Lo[r]}, {}) /\ y.reg[Lo[r]] = x.mem[n] /\ y.reg[Hi[r]] = x.mem[n + 1]
    BY <1>4 DEF GetsWord
  <2>2. Does(x, s, y, S \cup {Hi[r], Lo[r]}, Saved)
    BY <2>1, DoesMore
  <2>. QED
    BY <2>1, <2>2 DEF GetsWord
<1>. QED
  BY <1>1, <1>2, <1>3, <1>4

LEMMA StoresByteStraight ==
  ASSUME NEW x, NEW s, NEW r, NEW n, NEW S, PutsByte(x, s, r, n, S, {}), NEW D, NEW res, Dying(S, D, res)
  PROVE  StoresByte(x, s, r, n, D, res)
BY UsesNoStack DEF StoresByte

LEMMA LoadsByteStraight ==
  ASSUME NEW x, NEW s, NEW r, NEW n, NEW S, GetsByte(x, s, r, n, S, {}), NEW D, NEW res, Dying(S, D, res)
  PROVE  LoadsByte(x, s, r, n, D, res)
BY UsesNoStack DEF LoadsByte

LEMMA StoresWordStraight ==
  ASSUME NEW x, NEW s, NEW p, NEW n, NEW S, PutsWord(x, s, p, n, S, {}), NEW D, NEW res, Dying(S, D, res)
  PROVE  StoresWord(x, s, p, n, D, res)
BY UsesNoStack DEF StoresWord

LEMMA LoadsWordStraight ==
  ASSUME NEW x, NEW s, NEW p, NEW n, NEW S, GetsWord(x, s, p, n, S, {}), NEW D, NEW res, Dying(S, D, res)
  PROVE  LoadsWord(x, s, p, n, D, res)
BY UsesNoStack DEF LoadsWord

(* The reserved registers are BC, if any.                                   *)
Reservable(res) == res \subseteq {"B", "C"}

LEMMA DyingFacts ==
  ASSUME NEW D, NEW res, Reservable(res)
  PROVE  /\ Dying({}, D, res) /\ Dying({"F"}, D, res)
         /\ \A r \in {"A", "D", "E", "H", "L"} : r \in D => Dying({r}, D, res)
         /\ PairDead(D, "HL") => Dying({"H", "L", "F"}, D, res)
         /\ PairDead(D, "DE") => Dying({"D", "E"}, D, res)
BY DEF Reservable, Dying, Regs, PairDead, Hi, Lo

LEMMA SpareFacts ==
  ASSUME NEW D, NEW res, NEW excluded, NEW spare, spare = SpareIn(D, res, excluded), spare # NoReg
  PROVE  /\ spare \in Regs /\ spare # "A" /\ spare \notin {"H", "L"} /\ spare # excluded
         /\ Dying({spare}, D, res)
<1>. DEFINE spares == <<"B", "C", "D", "E">>
            free == {i \in 1..4 : spares[i] \in D \ (res \cup {excluded})}
<1>1. free # {} /\ spare = spares[Min(free)]
  BY DEF SpareIn
<1>2. Min(free) \in free
  <2>1. free \subseteq Nat
    OBVIOUS
  <2>2. \E i \in free : \A j \in free : i <= j
    BY <1>1, <2>1, LeastElement
  <2>. HIDE DEF free
  <2>. QED
    BY <2>2 DEF Min
<1>3. PICK i \in 1..4 : spare = spares[i] /\ spares[i] \in D \ (res \cup {excluded})
  BY <1>1, <1>2
<1>4. spare \in {"B", "C", "D", "E"}
  BY <1>3
<1>. QED
  BY <1>3, <1>4 DEF Regs, Dying

LEMMA ThroughAStores ==
  ASSUME NEW x, Ready(x), NEW D, NEW res, Reservable(res), NEW excluded, NEW fallback,
         NEW r \in Regs, r # "A", r = excluded \/ r \in {"H", "L"}, NEW n \in Addr,
         StoresByte(x, fallback, r, n, D, res)
  PROVE  StoresByte(x, ThroughA(D, res, excluded, <<Mov("A", r), Sta(n)>>, fallback), r, n, D, res)
<1>. DEFINE body == <<Mov("A", r), Sta(n)>>
            spare == SpareIn(D, res, excluded)
            u == Exec(x, Mov(spare, "A"))
<1>1. CASE "A" \in D
  <2>1. PutsByte(x, body, r, n, {"A"}, {})
    BY StoredThroughA
  <2>2. Dying({"A"}, D, res)
    BY <1>1, DyingFacts
  <2>3. StoresByte(x, body, r, n, D, res)
    BY <2>1, <2>2, StoresByteStraight
  <2>. QED
    BY <1>1, <2>3 DEF ThroughA
<1>2. CASE "A" \notin D /\ spare # NoReg
  <2>1. spare \in Regs /\ spare # "A" /\ r # spare /\ Dying({spare}, D, res)
    BY <1>2, SpareFacts
  <2>. HIDE DEF spare
  <2>2. Ready(u)
    <3>1. "A" \in Regs
      BY DEF Regs
    <3>2. Does(x, <<Mov(spare, "A")>>, u, {spare}, {})
      BY <2>1, <3>1, DoMov
    <3>. QED
      BY <3>2, DoesFacts
  <2>3. PutsByte(u, body, r, n, {"A"}, {})
    BY <2>2, StoredThroughA
  <2>. HIDE DEF body
  <2>4. PutsByte(x, Copied(spare, body), r, n, {spare}, {})
    BY <2>1, <2>3, CopiedPutsByte
  <2>5. StoresByte(x, Copied(spare, body), r, n, D, res)
    BY <2>1, <2>4, StoresByteStraight
  <2>. QED
    BY <1>2, <2>5 DEF ThroughA, Copied, spare, body
<1>3. CASE "A" \notin D /\ spare = NoReg
  BY <1>3 DEF ThroughA
<1>. QED
  BY <1>1, <1>2, <1>3

LEMMA ThroughALoads ==
  ASSUME NEW x, Ready(x), NEW D, NEW res, Reservable(res), NEW excluded, NEW fallback,
         NEW r \in Regs, r # "A", r = excluded \/ r \in {"H", "L"}, NEW n \in Addr \ FreeStack,
         LoadsByte(x, fallback, r, n, D, res)
  PROVE  LoadsByte(x, ThroughA(D, res, excluded, <<Lda(n), Mov(r, "A")>>, fallback), r, n, D, res)
<1>. DEFINE body == <<Lda(n), Mov(r, "A")>>
            spare == SpareIn(D, res, excluded)
            u == Exec(x, Mov(spare, "A"))
<1>1. CASE "A" \in D
  <2>1. GetsByte(x, body, r, n, {"A"}, {})
    BY LoadedThroughA
  <2>2. Dying({"A"}, D, res)
    BY <1>1, DyingFacts
  <2>3. LoadsByte(x, body, r, n, D, res)
    BY <2>1, <2>2, LoadsByteStraight
  <2>. QED
    BY <1>1, <2>3 DEF ThroughA
<1>2. CASE "A" \notin D /\ spare # NoReg
  <2>1. spare \in Regs /\ spare # "A" /\ r # spare /\ Dying({spare}, D, res)
    BY <1>2, SpareFacts
  <2>. HIDE DEF spare
  <2>2. Ready(u)
    <3>1. "A" \in Regs
      BY DEF Regs
    <3>2. Does(x, <<Mov(spare, "A")>>, u, {spare}, {})
      BY <2>1, <3>1, DoMov
    <3>. QED
      BY <3>2, DoesFacts
  <2>3. GetsByte(u, body, r, n, {"A"}, {})
    BY <2>2, LoadedThroughA
  <2>. HIDE DEF body
  <2>4. GetsByte(x, Copied(spare, body), r, n, {spare}, {})
    BY <2>1, <2>3, CopiedGetsByte
  <2>5. LoadsByte(x, Copied(spare, body), r, n, D, res)
    BY <2>1, <2>4, LoadsByteStraight
  <2>. QED
    BY <1>2, <2>5 DEF ThroughA, Copied, spare, body
<1>3. CASE "A" \notin D /\ spare = NoReg
  BY <1>3 DEF ThroughA
<1>. QED
  BY <1>1, <1>2, <1>3

-----------------------------------------------------------------------------
(* The static expansions: with SP at the frame, they store or load the slot *)
(* and destroy only what is dead.                                           *)
LEMMA StoredThroughM ==
  ASSUME NEW x, Ready(x), NEW n \in Addr, NEW r \in Regs \ {"H", "L"}
  PROVE  PutsByte(x, <<Lxi("HL", n), MovToM(r)>>, r, n, {"H", "L", "F"}, {})
<1>1. <<Lxi("HL", n)>> \o <<MovToM(r)>> = <<Lxi("HL", n), MovToM(r)>>
  BY OneAndOne
<1>2. PutsByte(x, <<Lxi("HL", n)>> \o <<MovToM(r)>>, r, n, {"H", "L", "F"}, {})
  BY PointsLxi, ByteStored
<1>. QED
  BY <1>1, <1>2

LEMMA LoadedThroughM ==
  ASSUME NEW x, Ready(x), NEW n \in Addr \ FreeStack, NEW r \in Regs
  PROVE  GetsByte(x, <<Lxi("HL", n), MovFromM(r)>>, r, n, {"H", "L", "F"}, {})
<1>1. <<Lxi("HL", n)>> \o <<MovFromM(r)>> = <<Lxi("HL", n), MovFromM(r)>>
  BY OneAndOne
<1>2. GetsByte(x, <<Lxi("HL", n)>> \o <<MovFromM(r)>>, r, n, {"H", "L", "F"}, {})
  BY PointsLxi, ByteLoaded
<1>. QED
  BY <1>1, <1>2

LEMMA AroundReady ==
  ASSUME NEW x, Ready(x), x.sp = SP0, NEW p \in Pushable
  PROVE  Ready(Exec(x, Push(p)))
BY Pushed

LEMMA StaticSpill8Stores ==
  ASSUME NEW x, Ready(x), x.sp = SP0, NEW D, NEW res, Reservable(res), NEW r \in Regs \ {"A"},
         NEW n \in Addr \ FreeStack
  PROVE  StoresByte(x, StaticSpill8(D, res, r, n), r, n, D, res)
<1>. DEFINE viaA == <<Mov("A", r), Sta(n)>>
            viaM == <<Lxi("HL", n), MovToM(r)>>
<1>0. "PSW" \in Pushable /\ "HL" \in Pushable /\ Hi["PSW"] = "A" /\ Lo["PSW"] = "F"
  BY PairFacts DEF Pushable
<1>1. CASE r \in {"H", "L"}
  <2>. DEFINE y == Exec(x, Push("PSW"))
  <2>1. PutsByte(y, viaA, r, n, {"A"}, {})
    BY <1>0, AroundReady, StoredThroughA
  <2>. HIDE DEF viaA
  <2>2. PutsByte(x, Around("PSW", viaA), r, n, {"A"} \ {"A", "F"}, Saved)
    BY <1>0, <2>1, AroundPutsByte
  <2>3. Dying({"A"} \ {"A", "F"}, D, res)
    BY DEF Dying
  <2>4. StoresByte(x, Around("PSW", viaA), r, n, D, res)
    BY <2>2, <2>3 DEF StoresByte
  <2>5. StoresByte(x, ThroughA(D, res, NoReg, <<Mov("A", r), Sta(n)>>, Around("PSW", viaA)), r, n, D, res)
    BY <1>1, <2>4, ThroughAStores
  <2>. QED
    BY <1>1, <2>5 DEF StaticSpill8, viaA
<1>2. CASE r \notin {"H", "L"} /\ PairDead(D, "HL")
  <2>1. PutsByte(x, viaM, r, n, {"H", "L", "F"}, {})
    BY <1>2, StoredThroughM
  <2>2. Dying({"H", "L", "F"}, D, res)
    BY <1>2, DyingFacts
  <2>3. StoresByte(x, viaM, r, n, D, res)
    BY <2>1, <2>2, StoresByteStraight
  <2>. QED
    BY <1>2, <2>3 DEF StaticSpill8
<1>3. CASE r \notin {"H", "L"} /\ ~PairDead(D, "HL")
  <2>. DEFINE y == Exec(x, Push("HL"))
  <2>1. PutsByte(y, viaM, r, n, {"H", "L", "F"}, {})
    BY <1>0, <1>3, AroundReady, StoredThroughM
  <2>. HIDE DEF viaM
  <2>2. PutsByte(x, Around("HL", viaM), r, n, {"H", "L", "F"} \ {Hi["HL"], Lo["HL"]}, Saved)
    BY <1>0, <2>1, AroundPutsByte
  <2>3. Dying({"H", "L", "F"} \ {Hi["HL"], Lo["HL"]}, D, res)
    BY PairFacts DEF Dying, Regs
  <2>4. StoresByte(x, Around("HL", viaM), r, n, D, res)
    BY <2>2, <2>3 DEF StoresByte
  <2>5. StoresByte(x, ThroughA(D, res, r, <<Mov("A", r), Sta(n)>>, Around("HL", viaM)), r, n, D, res)
    BY <2>4, ThroughAStores
  <2>. QED
    BY <1>3, <2>5 DEF StaticSpill8, viaM
<1>. QED
  BY <1>1, <1>2, <1>3

LEMMA StaticReload8Loads ==
  ASSUME NEW x, Ready(x), x.sp = SP0, NEW D, NEW res, Reservable(res), NEW r \in Regs \ {"A"},
         NEW n \in Addr \ FreeStack
  PROVE  LoadsByte(x, StaticReload8(D, res, r, n), r, n, D, res)
<1>. DEFINE viaA == <<Lda(n), Mov(r, "A")>>
            viaM == <<Lxi("HL", n), MovFromM(r)>>
<1>0. /\ "PSW" \in Pushable /\ "HL" \in Pushable /\ Hi["PSW"] = "A" /\ Lo["PSW"] = "F"
      /\ Hi["HL"] = "H" /\ Lo["HL"] = "L" /\ "F" \notin Regs
  BY PairFacts DEF Pushable, Regs
<1>1. CASE r \in {"H", "L"} /\ OtherHalf[r] \in D
  <2>. DEFINE o == OtherHalf[r]
  <2>1. GetsByte(x, viaM, r, n, {"H", "L", "F"}, {})
    BY LoadedThroughM
  <2>. HIDE DEF viaM
  <2>2. {"H", "L", "F"} \cup {r} = {o, "F"} \cup {r} /\ o \in {"H", "L"}
    BY <1>1 DEF OtherHalf
  <2>3. GetsByte(x, viaM, r, n, {o, "F"}, {})
    BY <2>1, <2>2 DEF GetsByte
  <2>4. Dying({o, "F"}, D, res)
    BY <1>0, <1>1, <2>2 DEF Dying, Reservable
  <2>. HIDE DEF o
  <2>5. LoadsByte(x, viaM, r, n, D, res)
    BY <2>3, <2>4, LoadsByteStraight
  <2>. QED
    BY <1>1, <2>5 DEF StaticReload8, viaM
<1>2. CASE r \in {"H", "L"} /\ OtherHalf[r] \notin D
  <2>. DEFINE y == Exec(x, Push("PSW"))
  <2>1. GetsByte(y, viaA, r, n, {"A"}, {})
    BY <1>0, AroundReady, LoadedThroughA
  <2>. HIDE DEF viaA
  <2>2. r \notin {"A", "F"}
    BY <1>2
  <2>3. GetsByte(x, Around("PSW", viaA), r, n, {"A"} \ {"A", "F"}, Saved)
    BY <1>0, <2>1, <2>2, AroundGetsByte
  <2>4. Dying({"A"} \ {"A", "F"}, D, res)
    BY DEF Dying
  <2>5. LoadsByte(x, Around("PSW", viaA), r, n, D, res)
    BY <2>3, <2>4 DEF LoadsByte
  <2>6. LoadsByte(x, ThroughA(D, res, NoReg, <<Lda(n), Mov(r, "A")>>, Around("PSW", viaA)), r, n, D, res)
    BY <1>2, <2>5, ThroughALoads
  <2>. QED
    BY <1>2, <2>6 DEF StaticReload8, viaA
<1>3. CASE r \notin {"H", "L"} /\ PairDead(D, "HL")
  <2>1. GetsByte(x, viaM, r, n, {"H", "L", "F"}, {})
    BY LoadedThroughM
  <2>2. Dying({"H", "L", "F"}, D, res)
    BY <1>3, DyingFacts
  <2>3. LoadsByte(x, viaM, r, n, D, res)
    BY <2>1, <2>2, LoadsByteStraight
  <2>. QED
    BY <1>3, <2>3 DEF StaticReload8
<1>4. CASE r \notin {"H", "L"} /\ ~PairDead(D, "HL")
  <2>. DEFINE y == Exec(x, Push("HL"))
  <2>1. GetsByte(y, viaM, r, n, {"H", "L", "F"}, {})
    BY <1>0, AroundReady, LoadedThroughM
  <2>. HIDE DEF viaM
  <2>2. r \notin {Hi["HL"], Lo["HL"]}
    BY <1>0, <1>4
  <2>3. GetsByte(x, Around("HL", viaM), r, n, {"H", "L", "F"} \ {Hi["HL"], Lo["HL"]}, Saved)
    BY <1>0, <2>1, <2>2, AroundGetsByte
  <2>4. Dying({"H", "L", "F"} \ {Hi["HL"], Lo["HL"]}, D, res)
    BY <1>0 DEF Dying, Regs
  <2>5. LoadsByte(x, Around("HL", viaM), r, n, D, res)
    BY <2>3, <2>4 DEF LoadsByte
  <2>6. LoadsByte(x, ThroughA(D, res, r, <<Lda(n), Mov(r, "A")>>, Around("HL", viaM)), r, n, D, res)
    BY <2>5, ThroughALoads
  <2>. QED
    BY <1>4, <2>6 DEF StaticReload8, viaM
<1>. QED
  BY <1>1, <1>2, <1>3, <1>4

LEMMA DoesOnly ==
  ASSUME NEW x, NEW s, NEW y, NEW S, NEW X, Does(x, s, y, S, X), NEW T, NEW Y,
         \A r \in AllRegs \cap S : r \notin T => y.reg[r] = x.reg[r], X \subseteq Y
  PROVE  Does(x, s, y, T, Y)
BY DEF Does, Changed

LEMMA NamedRegs ==
  /\ {"A", "B", "C", "D", "E", "H", "L"} = Regs /\ Regs \subseteq AllRegs /\ "F" \in AllRegs
  /\ Pairs \subseteq Pushable /\ "PSW" \in Pushable
BY DEF Regs, AllRegs, Pushable

(* Three pieces of code.                                                    *)
LEMMA CodeJoin ==
  ASSUME NEW b \in Seq(Instructions), NEW s \in Seq(Instructions), NEW t \in Seq(Instructions)
  PROVE  b \o s \o t = b \o (s \o t)
BY ConcatAssociative

LEMMA ShldWord ==
  ASSUME NEW x, Ready(x), NEW n \in Addr, n + 1 \in Addr
  PROVE  PutsWord(x, <<Shld(n)>>, "HL", n, {}, {})
<1>. DEFINE y == Exec(x, Shld(n))
<1>1. Does(x, <<Shld(n)>>, y, {}, {n, n + 1}) /\ y.mem[n] = x.reg["L"] /\ y.mem[n + 1] = x.reg["H"]
  BY DoShld
<1>. HIDE DEF y
<1>2. Does(x, <<Shld(n)>>, y, {}, {n, n + 1} \cup {})
  BY <1>1, DoesMore
<1>. QED
  BY <1>1, <1>2, PairFacts DEF PutsWord

LEMMA LhldWord ==
  ASSUME NEW x, Ready(x), NEW n \in Addr \ FreeStack, n + 1 \in Addr \ FreeStack
  PROVE  GetsWord(x, <<Lhld(n)>>, "HL", n, {}, {})
<1>. DEFINE y == Exec(x, Lhld(n))
<1>1. Does(x, <<Lhld(n)>>, y, {"H", "L"}, {}) /\ y.reg["L"] = x.mem[n] /\ y.reg["H"] = x.mem[n + 1]
  BY DoLhld
<1>. HIDE DEF y
<1>2. {} \cup {Hi["HL"], Lo["HL"]} = {"H", "L"}
  BY PairFacts
<1>. QED
  BY <1>1, <1>2, PairFacts DEF GetsWord

(* DE stored by way of HL; XCHG once more gives both pairs back.            *)
LEMMA StoredExchanged ==
  ASSUME NEW x, Ready(x), NEW n \in Addr, n + 1 \in Addr
  PROVE  /\ PutsWord(x, <<Xchg, Shld(n)>> \o <<>>, "DE", n, {"D", "E", "H", "L"}, {})
         /\ PutsWord(x, <<Xchg, Shld(n)>> \o <<Xchg>>, "DE", n, {}, {})
<1>. DEFINE y == Exec(x, Xchg)
            z == Exec(y, Shld(n))
            w == Exec(z, Xchg)
            X == {n, n + 1}
<1>1. /\ Does(x, <<Xchg>>, y, {"D", "E", "H", "L"}, {})
      /\ y.reg["D"] = x.reg["H"] /\ y.reg["E"] = x.reg["L"]
      /\ y.reg["H"] = x.reg["D"] /\ y.reg["L"] = x.reg["E"]
  BY DoXchg
<1>2. Ready(y)
  BY <1>1, DoesFacts
<1>. HIDE DEF y
<1>3. Does(y, <<Shld(n)>>, z, {}, X) /\ z.mem[n] = y.reg["L"] /\ z.mem[n + 1] = y.reg["H"]
  BY <1>2, DoShld
<1>4. Ready(z) /\ \A r \in AllRegs : z.reg[r] = y.reg[r]
  BY <1>2, <1>3, DoesFacts
<1>. HIDE DEF z
<1>5. /\ Does(z, <<Xchg>>, w, {"D", "E", "H", "L"}, {})
      /\ w.reg["D"] = z.reg["H"] /\ w.reg["E"] = z.reg["L"]
      /\ w.reg["H"] = z.reg["D"] /\ w.reg["L"] = z.reg["E"]
  BY <1>4, DoXchg
<1>6. z \in Machine /\ \A i \in Addr : w.mem[i] = z.mem[i]
  BY <1>5, DoesFacts
<1>. HIDE DEF w, X
<1>7. Does(x, <<Xchg, Shld(n)>>, z, {"D", "E", "H", "L"} \cup {}, {} \cup X)
  BY <1>1, <1>3, DoesTwo
<1>8. Does(x, <<Xchg, Shld(n)>>, z, {"D", "E", "H", "L"}, X)
  BY <1>7, DoesMore
<1>9. Does(z, <<>>, z, {}, {})
  BY <1>6, DoesNothing
<1>10. Does(x, <<Xchg, Shld(n)>> \o <<>>, z, {"D", "E", "H", "L"} \cup {}, X \cup {})
  BY <1>8, <1>9, DoesJoin
<1>11. Does(x, <<Xchg, Shld(n)>> \o <<Xchg>>, w, {"D", "E", "H", "L"} \cup {"D", "E", "H", "L"}, X \cup {})
  BY <1>8, <1>5, DoesJoin
<1>12. \A r \in {"D", "E", "H", "L"} : w.reg[r] = x.reg[r]
  BY <1>1, <1>4, <1>5, NamedRegs
<1>13. Does(x, <<Xchg, Shld(n)>> \o <<Xchg>>, w, {}, X \cup {})
  BY <1>11, <1>12, DoesOnly
<1>14. Does(x, <<Xchg, Shld(n)>> \o <<>>, z, {"D", "E", "H", "L"}, X \cup {})
  BY <1>10, DoesMore
<1>15. w.mem[n] = x.reg["E"] /\ w.mem[n + 1] = x.reg["D"] /\ z.mem[n] = x.reg["E"] /\ z.mem[n + 1] = x.reg["D"]
  BY <1>1, <1>3, <1>6
<1>. QED
  BY <1>13, <1>14, <1>15, PairFacts DEF PutsWord, X

LEMMA LoadedExchanged ==
  ASSUME NEW x, Ready(x), NEW n \in Addr \ FreeStack, n + 1 \in Addr \ FreeStack
  PROVE  /\ GetsWord(x, <<>> \o <<Lhld(n), Xchg>>, "DE", n, {"H", "L"}, {})
         /\ GetsWord(x, <<Xchg>> \o <<Lhld(n), Xchg>>, "DE", n, {}, {})
<1>1. ASSUME NEW u, Ready(u)
      PROVE  \E w : /\ Does(u, <<Lhld(n), Xchg>>, w, {"D", "E", "H", "L"}, {})
                    /\ w.reg["E"] = u.mem[n] /\ w.reg["D"] = u.mem[n + 1]
                    /\ w.reg["H"] = u.reg["D"] /\ w.reg["L"] = u.reg["E"]
  <2>. DEFINE y == Exec(u, Lhld(n))
              w == Exec(y, Xchg)
  <2>1. Does(u, <<Lhld(n)>>, y, {"H", "L"}, {}) /\ y.reg["L"] = u.mem[n] /\ y.reg["H"] = u.mem[n + 1]
    BY <1>1, DoLhld
  <2>2. Ready(y) /\ \A r \in AllRegs : r \notin {"H", "L"} => y.reg[r] = u.reg[r]
    BY <1>1, <2>1, DoesFacts
  <2>. HIDE DEF y
  <2>3. /\ Does(y, <<Xchg>>, w, {"D", "E", "H", "L"}, {})
        /\ w.reg["D"] = y.reg["H"] /\ w.reg["E"] = y.reg["L"]
        /\ w.reg["H"] = y.reg["D"] /\ w.reg["L"] = y.reg["E"]
    BY <2>2, DoXchg
  <2>. HIDE DEF w
  <2>4. Does(u, <<Lhld(n), Xchg>>, w, {"H", "L"} \cup {"D", "E", "H", "L"}, {} \cup {})
    BY <2>1, <2>3, DoesTwo
  <2>5. Does(u, <<Lhld(n), Xchg>>, w, {"D", "E", "H", "L"}, {})
    BY <2>4, DoesMore
  <2>6. y.reg["D"] = u.reg["D"] /\ y.reg["E"] = u.reg["E"]
    BY <2>2, NamedRegs
  <2>. QED
    BY <2>1, <2>3, <2>5, <2>6
<1>2. GetsWord(x, <<>> \o <<Lhld(n), Xchg>>, "DE", n, {"H", "L"}, {})
  <2>1. PICK w : /\ Does(x, <<Lhld(n), Xchg>>, w, {"D", "E", "H", "L"}, {})
                 /\ w.reg["E"] = x.mem[n] /\ w.reg["D"] = x.mem[n + 1]
    BY <1>1
  <2>2. Does(x, <<>>, x, {}, {})
    BY <2>1, DoesFacts, DoesNothing
  <2>3. Does(x, <<>> \o <<Lhld(n), Xchg>>, w, {} \cup {"D", "E", "H", "L"}, {} \cup {})
    BY <2>1, <2>2, DoesJoin
  <2>4. Does(x, <<>> \o <<Lhld(n), Xchg>>, w, {"H", "L"} \cup {Hi["DE"], Lo["DE"]}, {})
    BY <2>3, DoesMore, PairFacts
  <2>. QED
    BY <2>1, <2>4, PairFacts DEF GetsWord
<1>3. GetsWord(x, <<Xchg>> \o <<Lhld(n), Xchg>>, "DE", n, {}, {})
  <2>. DEFINE y == Exec(x, Xchg)
  <2>1. /\ Does(x, <<Xchg>>, y, {"D", "E", "H", "L"}, {})
        /\ y.reg["D"] = x.reg["H"] /\ y.reg["E"] = x.reg["L"]
    BY DoXchg
  <2>2. Ready(y) /\ \A i \in Addr : y.mem[i] = x.mem[i]
    BY <2>1, DoesFacts
  <2>. HIDE DEF y
  <2>3. PICK w : /\ Does(y, <<Lhld(n), Xchg>>, w, {"D", "E", "H", "L"}, {})
                 /\ w.reg["E"] = y.mem[n] /\ w.reg["D"] = y.mem[n + 1]
                 /\ w.reg["H"] = y.reg["D"] /\ w.reg["L"] = y.reg["E"]
    BY <1>1, <2>2
  <2>4. Does(x, <<Xchg>> \o <<Lhld(n), Xchg>>, w, {"D", "E", "H", "L"} \cup {"D", "E", "H", "L"}, {} \cup {})
    BY <2>1, <2>3, DoesJoin
  <2>5. w.reg["H"] = x.reg["H"] /\ w.reg["L"] = x.reg["L"]
    BY <2>1, <2>3
  <2>6. \A r \in {"D", "E", "H", "L"} : r \notin {"D", "E"} => w.reg[r] = x.reg[r]
    BY <2>5
  <2>7. Does(x, <<Xchg>> \o <<Lhld(n), Xchg>>, w, {"D", "E"}, {})
    BY <2>4, <2>6, DoesOnly
  <2>8. {} \cup {Hi["DE"], Lo["DE"]} = {"D", "E"}
    BY PairFacts
  <2>9. w.reg["E"] = x.mem[n] /\ w.reg["D"] = x.mem[n + 1]
    BY <2>2, <2>3
  <2>. QED
    BY <2>7, <2>8, <2>9, PairFacts DEF GetsWord
<1>. QED
  BY <1>2, <1>3

(* BC by way of HL.                                                         *)
LEMMA StoredCopied ==
  ASSUME NEW x, Ready(x), NEW n \in Addr, n + 1 \in Addr
  PROVE  PutsWord(x, <<Mov("L", "C"), Mov("H", "B"), Shld(n)>>, "BC", n, {"H", "L"}, {})
<1>. DEFINE y == Exec(x, Mov("L", "C"))
            z == Exec(y, Mov("H", "B"))
            w == Exec(z, Shld(n))
            X == {n, n + 1}
<1>1. Does(x, <<Mov("L", "C")>>, y, {"L"}, {}) /\ y.reg["L"] = x.reg["C"]
  BY NamedRegs, DoMov
<1>2. Ready(y) /\ y.reg["B"] = x.reg["B"]
  BY <1>1, DoesFacts, NamedRegs
<1>. HIDE DEF y
<1>3. Does(y, <<Mov("H", "B")>>, z, {"H"}, {}) /\ z.reg["H"] = y.reg["B"]
  BY <1>2, NamedRegs, DoMov
<1>4. Ready(z) /\ z.reg["L"] = y.reg["L"]
  BY <1>2, <1>3, DoesFacts, NamedRegs
<1>. HIDE DEF z
<1>5. Does(z, <<Shld(n)>>, w, {}, X) /\ w.mem[n] = z.reg["L"] /\ w.mem[n + 1] = z.reg["H"]
  BY <1>4, DoShld
<1>. HIDE DEF w, X
<1>6. Does(y, <<Mov("H", "B"), Shld(n)>>, w, {"H"} \cup {}, {} \cup X)
  BY <1>3, <1>5, DoesTwo
<1>7. Does(x, <<Mov("L", "C"), Mov("H", "B"), Shld(n)>>, w, {"L"} \cup ({"H"} \cup {}), {} \cup ({} \cup X))
  BY <1>1, <1>6, DoesThree
<1>8. Does(x, <<Mov("L", "C"), Mov("H", "B"), Shld(n)>>, w, {"H", "L"}, X \cup {})
  BY <1>7, DoesMore
<1>9. w.mem[n] = x.reg["C"] /\ w.mem[n + 1] = x.reg["B"]
  BY <1>1, <1>2, <1>3, <1>4, <1>5
<1>. QED
  BY <1>8, <1>9, PairFacts DEF PutsWord, X

LEMMA LoadedCopied ==
  ASSUME NEW x, Ready(x), NEW n \in Addr \ FreeStack, n + 1 \in Addr \ FreeStack
  PROVE  GetsWord(x, <<Lhld(n), Mov("C", "L"), Mov("B", "H")>>, "BC", n, {"H", "L"}, {})
<1>. DEFINE y == Exec(x, Lhld(n))
            z == Exec(y, Mov("C", "L"))
            w == Exec(z, Mov("B", "H"))
<1>1. Does(x, <<Lhld(n)>>, y, {"H", "L"}, {}) /\ y.reg["L"] = x.mem[n] /\ y.reg["H"] = x.mem[n + 1]
  BY DoLhld
<1>2. Ready(y)
  BY <1>1, DoesFacts
<1>. HIDE DEF y
<1>3. Does(y, <<Mov("C", "L")>>, z, {"C"}, {}) /\ z.reg["C"] = y.reg["L"]
  BY <1>2, NamedRegs, DoMov
<1>4. Ready(z) /\ z.reg["H"] = y.reg["H"]
  BY <1>2, <1>3, DoesFacts, NamedRegs
<1>. HIDE DEF z
<1>5. Does(z, <<Mov("B", "H")>>, w, {"B"}, {}) /\ w.reg["B"] = z.reg["H"]
  BY <1>4, NamedRegs, DoMov
<1>6. w.reg["C"] = z.reg["C"]
  BY <1>5, DoesFacts, NamedRegs
<1>. HIDE DEF w
<1>7. Does(y, <<Mov("C", "L"), Mov("B", "H")>>, w, {"C"} \cup {"B"}, {} \cup {})
  BY <1>3, <1>5, DoesTwo
<1>8. Does(x, <<Lhld(n), Mov("C", "L"), Mov("B", "H")>>, w, {"H", "L"} \cup ({"C"} \cup {"B"}), {} \cup ({} \cup {}))
  BY <1>1, <1>7, DoesThree
<1>9. {"H", "L"} \cup {Hi["BC"], Lo["BC"]} = {"H", "L"} \cup ({"C"} \cup {"B"})
  BY PairFacts
<1>10. Does(x, <<Lhld(n), Mov("C", "L"), Mov("B", "H")>>, w, {"H", "L"} \cup {Hi["BC"], Lo["BC"]}, {})
  BY <1>8, <1>9, DoesMore
<1>11. w.reg["C"] = x.mem[n] /\ w.reg["B"] = x.mem[n + 1]
  BY <1>1, <1>3, <1>4, <1>5, <1>6
<1>. QED
  BY <1>10, <1>11, PairFacts DEF GetsWord

LEMMA AroundPair ==
  ASSUME NEW x, Ready(x), x.sp = SP0, NEW n \in Addr \ FreeStack, n + 1 \in Addr \ FreeStack,
         NEW p \in {"BC", "DE"}, NEW D, NEW res
  PROVE  /\ StoresWord(x, Around("HL", <<Lxi("HL", n)>> \o StoreBytes(p)), p, n, D, res)
         /\ LoadsWord(x, Around("HL", <<Lxi("HL", n)>> \o LoadBytes(p)), p, n, D, res)
<1>. DEFINE y == Exec(x, Push("HL"))
            S == {"H", "L", "F"}
            st == <<Lxi("HL", n)>> \o StoreBytes(p)
            ld == <<Lxi("HL", n)>> \o LoadBytes(p)
<1>1. "HL" \in Pushable /\ "HL" \in Pairs /\ p \in Pairs /\ "HL" # p
  BY PairFacts DEF Pushable
<1>2. Ready(y)
  BY <1>1, AroundReady
<1>3. Points(y, <<Lxi("HL", n)>>, n)
  BY <1>2, PointsLxi
<1>4. PutsWord(y, st, p, n, S, {}) /\ GetsWord(y, ld, p, n, S, {})
  <2>. HIDE DEF y
  <2>. QED
    BY <1>2, <1>3, WordStored, WordLoaded
<1>. HIDE DEF st, ld, S
<1>5. PutsWord(x, Around("HL", st), p, n, S \ {Hi["HL"], Lo["HL"]}, Saved)
  BY <1>1, <1>4, AroundPutsWord
<1>6. GetsWord(x, Around("HL", ld), p, n, S \ {Hi["HL"], Lo["HL"]}, Saved)
  BY <1>1, <1>4, AroundGetsWord
<1>7. Dying(S \ {Hi["HL"], Lo["HL"]}, D, res)
  BY PairFacts DEF Dying, Regs, S
<1>8. StoresWord(x, Around("HL", st), p, n, D, res)
  BY <1>5, <1>7 DEF StoresWord
<1>9. LoadsWord(x, Around("HL", ld), p, n, D, res)
  BY <1>6, <1>7 DEF LoadsWord
<1>. QED
  BY <1>8, <1>9 DEF st, ld

(* A killed pair is among what may be lost.                                 *)
Gone(r, kill) == IF kill THEN Parts(r) ELSE {}

LEMMA StaticSpill16Stores ==
  ASSUME NEW x, Ready(x), x.sp = SP0, NEW D, NEW res, Reservable(res), NEW p \in Pairs, NEW kill,
         NEW n \in Addr \ FreeStack, n + 1 \in Addr \ FreeStack
  PROVE  StoresWord(x, StaticSpill16(D, p, kill, n), p, n, D \cup Gone(p, kill), res)
<1>. DEFINE E == D \cup Gone(p, kill)
<1>1. CASE p = "HL"
  <2>1. Dying({}, E, res)
    BY DyingFacts
  <2>2. StoresWord(x, <<Shld(n)>>, "HL", n, E, res)
    BY <2>1, ShldWord, StoresWordStraight
  <2>. QED
    BY <1>1, <2>2 DEF StaticSpill16
<1>2. CASE p = "DE" /\ kill /\ PairDead(D, "HL")
  <2>1. \A r \in {"D", "E", "H", "L"} : r \in E
    BY <1>2, PairFacts DEF Gone, Parts, PairDead
  <2>2. Dying({"D", "E", "H", "L"}, E, res)
    BY <2>1 DEF Dying, Reservable
  <2>. HIDE DEF E
  <2>3. StoresWord(x, <<Xchg, Shld(n)>> \o <<>>, "DE", n, E, res)
    BY <2>2, StoredExchanged, StoresWordStraight
  <2>. QED
    BY <1>2, <2>3 DEF StaticSpill16, E
<1>3. CASE p = "DE" /\ ~(kill /\ PairDead(D, "HL"))
  <2>1. Dying({}, E, res)
    BY DyingFacts
  <2>2. StoresWord(x, <<Xchg, Shld(n)>> \o <<Xchg>>, "DE", n, E, res)
    BY <2>1, StoredExchanged, StoresWordStraight
  <2>. QED
    BY <1>3, <2>2 DEF StaticSpill16
<1>4. CASE p = "BC" /\ PairDead(D, "HL")
  <2>1. Dying({"H", "L"}, E, res)
    BY <1>4, PairFacts DEF Dying, PairDead, Reservable
  <2>. HIDE DEF E
  <2>2. StoresWord(x, <<Mov("L", "C"), Mov("H", "B"), Shld(n)>>, "BC", n, E, res)
    BY <2>1, StoredCopied, StoresWordStraight
  <2>. QED
    BY <1>4, <2>2 DEF StaticSpill16, E
<1>5. CASE p = "BC" /\ ~PairDead(D, "HL")
  <2>1. StoresWord(x, Around("HL", <<Lxi("HL", n)>> \o StoreBytes("BC")), "BC", n, E, res)
    BY AroundPair
  <2>. QED
    BY <1>5, <2>1 DEF StaticSpill16
<1>. QED
  BY <1>1, <1>2, <1>3, <1>4, <1>5, PairFacts

LEMMA StaticReload16Loads ==
  ASSUME NEW x, Ready(x), x.sp = SP0, NEW D, NEW res, Reservable(res), NEW p \in Pairs,
         NEW n \in Addr \ FreeStack, n + 1 \in Addr \ FreeStack
  PROVE  LoadsWord(x, StaticReload16(D, p, n), p, n, D, res)
<1>0. Dying({}, D, res) /\ (PairDead(D, "HL") => Dying({"H", "L"}, D, res))
  BY DyingFacts, PairFacts DEF Dying, PairDead, Reservable
<1>1. CASE p = "HL"
  <2>1. LoadsWord(x, <<Lhld(n)>>, "HL", n, D, res)
    BY <1>0, LhldWord, LoadsWordStraight
  <2>. QED
    BY <1>1, <2>1 DEF StaticReload16
<1>2. CASE p = "DE" /\ PairDead(D, "HL")
  <2>1. LoadsWord(x, <<>> \o <<Lhld(n), Xchg>>, "DE", n, D, res)
    BY <1>0, <1>2, LoadedExchanged, LoadsWordStraight
  <2>. QED
    BY <1>2, <2>1 DEF StaticReload16
<1>3. CASE p = "DE" /\ ~PairDead(D, "HL")
  <2>1. LoadsWord(x, <<Xchg>> \o <<Lhld(n), Xchg>>, "DE", n, D, res)
    BY <1>0, LoadedExchanged, LoadsWordStraight
  <2>. QED
    BY <1>3, <2>1 DEF StaticReload16
<1>4. CASE p = "BC" /\ PairDead(D, "HL")
  <2>1. LoadsWord(x, <<Lhld(n), Mov("C", "L"), Mov("B", "H")>>, "BC", n, D, res)
    BY <1>0, <1>4, LoadedCopied, LoadsWordStraight
  <2>. QED
    BY <1>4, <2>1 DEF StaticReload16
<1>5. CASE p = "BC" /\ ~PairDead(D, "HL")
  <2>1. LoadsWord(x, Around("HL", <<Lxi("HL", n)>> \o LoadBytes("BC")), "BC", n, D, res)
    BY AroundPair
  <2>. QED
    BY <1>5, <2>1 DEF StaticReload16
<1>. QED
  BY <1>1, <1>2, <1>3, <1>4, <1>5, PairFacts

-----------------------------------------------------------------------------
(* The expansions of a slot of the stack frame.  A pair that is not dead is *)
(* pushed, and the slot is then two further from SP.                        *)
LEMMA SlotPoints ==
  ASSUME NEW x, Ready(x), NEW off \in Addr, off + SP0 \in Addr
  PROVE  /\ x.sp = SP0 => Points(x, AtSlot(off), off + SP0) /\ Points(x, AtSlot(off + 0), off + SP0)
         /\ x.sp = SP0 - 2 => Points(x, AtSlot(off + 2), off + SP0)
<1>1. SP0 \in Nat /\ SP0 >= 4 /\ \A j \in Addr : j \in Nat
  BY StackFacts, ByteFacts
<1>2. off + 0 = off
  BY <1>1
<1>3. CASE x.sp = SP0
  <2>1. off + x.sp = off + SP0
    BY <1>3
  <2>2. Points(x, AtSlot(off), off + x.sp)
    BY <2>1, PointsSlot
  <2>3. x.sp # SP0 - 2
    BY <1>1, <1>3
  <2>. QED
    BY <1>2, <1>3, <2>1, <2>2, <2>3
<1>4. CASE x.sp = SP0 - 2
  <2>1. off + 2 + x.sp = off + SP0
    BY <1>1, <1>4
  <2>2. off + 2 \in Addr
    <3>. DEFINE b == ByteSize * ByteSize
    <3>1. b \in Nat /\ off \in 0..(b - 1) /\ off + SP0 \in 0..(b - 1)
      BY ByteFacts DEF Addr
    <3>. HIDE DEF b
    <3>2. off + 2 \in 0..(b - 1)
      BY <1>1, <3>1
    <3>. QED
      BY <3>2 DEF b, Addr
  <2>3. Points(x, AtSlot(off + 2), off + 2 + x.sp)
    BY <2>1, <2>2, PointsSlot
  <2>. QED
    BY <1>1, <1>4, <2>1, <2>3
<1>. QED
  BY <1>3, <1>4

LEMMA SavingStoresByte ==
  ASSUME NEW x, Ready(x), x.sp = SP0, NEW p \in Pairs, NEW body, NEW r \in Regs, NEW n \in Addr \ FreeStack,
         NEW S, NEW D, NEW res, PairDead(D, p) => Dying(S, D, res), Dying(S \ {Hi[p], Lo[p]}, D, res),
         PutsByte(x, body[0], r, n, S, {}), PutsByte(Exec(x, Push(p)), body[2], r, n, S, {})
  PROVE  StoresByte(x, Saving(D, p, body), r, n, D, res)
<1>1. CASE PairDead(D, p)
  BY <1>1, StoresByteStraight DEF Saving
<1>2. CASE ~PairDead(D, p)
  <2>1. p \in Pushable
    BY NamedRegs
  <2>2. PutsByte(x, Around(p, body[2]), r, n, S \ {Hi[p], Lo[p]}, Saved)
    BY <2>1, AroundPutsByte
  <2>. QED
    BY <1>2, <2>2 DEF Saving, StoresByte
<1>. QED
  BY <1>1, <1>2

LEMMA SavingLoadsByte ==
  ASSUME NEW x, Ready(x), x.sp = SP0, NEW p \in Pairs, NEW body, NEW r \in Regs, NEW n \in Addr \ FreeStack,
         r \notin {Hi[p], Lo[p]},
         NEW S, NEW D, NEW res, PairDead(D, p) => Dying(S, D, res), Dying(S \ {Hi[p], Lo[p]}, D, res),
         GetsByte(x, body[0], r, n, S, {}), GetsByte(Exec(x, Push(p)), body[2], r, n, S, {})
  PROVE  LoadsByte(x, Saving(D, p, body), r, n, D, res)
<1>1. CASE PairDead(D, p)
  BY <1>1, LoadsByteStraight DEF Saving
<1>2. CASE ~PairDead(D, p)
  <2>1. p \in Pushable
    BY NamedRegs
  <2>2. GetsByte(x, Around(p, body[2]), r, n, S \ {Hi[p], Lo[p]}, Saved)
    BY <2>1, AroundGetsByte
  <2>. QED
    BY <1>2, <2>2 DEF Saving, LoadsByte
<1>. QED
  BY <1>1, <1>2

LEMMA SavingStoresWord ==
  ASSUME NEW x, Ready(x), x.sp = SP0, NEW p \in Pairs, NEW body, NEW q \in Pairs,
         NEW n \in Addr \ FreeStack, n + 1 \in Addr \ FreeStack,
         NEW S, NEW D, NEW E, NEW res, PairDead(D, p) => Dying(S, E, res), Dying(S \ {Hi[p], Lo[p]}, E, res),
         PutsWord(x, body[0], q, n, S, {}), PutsWord(Exec(x, Push(p)), body[2], q, n, S, {})
  PROVE  StoresWord(x, Saving(D, p, body), q, n, E, res)
<1>1. CASE PairDead(D, p)
  BY <1>1, StoresWordStraight DEF Saving
<1>2. CASE ~PairDead(D, p)
  <2>1. p \in Pushable
    BY NamedRegs
  <2>2. PutsWord(x, Around(p, body[2]), q, n, S \ {Hi[p], Lo[p]}, Saved)
    BY <2>1, AroundPutsWord
  <2>. QED
    BY <1>2, <2>2 DEF Saving, StoresWord
<1>. QED
  BY <1>1, <1>2

LEMMA SavingLoadsWord ==
  ASSUME NEW x, Ready(x), x.sp = SP0, NEW p \in Pairs, NEW body, NEW q \in Pairs, p # q,
         NEW n \in Addr \ FreeStack, n + 1 \in Addr \ FreeStack,
         NEW S, NEW D, NEW res, PairDead(D, p) => Dying(S, D, res), Dying(S \ {Hi[p], Lo[p]}, D, res),
         GetsWord(x, body[0], q, n, S, {}), GetsWord(Exec(x, Push(p)), body[2], q, n, S, {})
  PROVE  LoadsWord(x, Saving(D, p, body), q, n, D, res)
<1>1. CASE PairDead(D, p)
  BY <1>1, LoadsWordStraight DEF Saving
<1>2. CASE ~PairDead(D, p)
  <2>2. GetsWord(x, Around(p, body[2]), q, n, S \ {Hi[p], Lo[p]}, Saved)
    BY AroundGetsWord
  <2>. QED
    BY <1>2, <2>2 DEF Saving, LoadsWord
<1>. QED
  BY <1>1, <1>2

LEMMA DyingRest ==
  ASSUME NEW D, NEW res
  PROVE  /\ Dying({"H", "L", "F"} \ {Hi["HL"], Lo["HL"]}, D, res)
         /\ Dying({"D", "E", "F"} \ {Hi["DE"], Lo["DE"]}, D, res)
BY PairFacts DEF Dying, Regs

(* The two moves of a pair to DE, and back to HL.                           *)
LEMMA MovesTwo ==
  ASSUME NEW x, Ready(x), NEW d \in Regs, NEW s \in Regs, NEW e \in Regs, NEW t \in Regs, d # e, t # d
  PROVE  \E y : /\ Does(x, <<Mov(d, s), Mov(e, t)>>, y, {d, e}, {})
                /\ y.reg[d] = x.reg[s] /\ y.reg[e] = x.reg[t]
<1>. DEFINE u == Exec(x, Mov(d, s))
            y == Exec(u, Mov(e, t))
<1>1. Does(x, <<Mov(d, s)>>, u, {d}, {}) /\ u.reg[d] = x.reg[s]
  BY DoMov
<1>2. Ready(u) /\ u.reg[t] = x.reg[t]
  BY <1>1, DoesFacts, NamedRegs
<1>. HIDE DEF u
<1>3. Does(u, <<Mov(e, t)>>, y, {e}, {}) /\ y.reg[e] = u.reg[t]
  BY <1>2, DoMov
<1>4. y.reg[d] = u.reg[d]
  BY <1>3, DoesFacts, NamedRegs
<1>. HIDE DEF y
<1>5. Does(x, <<Mov(d, s), Mov(e, t)>>, y, {d} \cup {e}, {} \cup {})
  BY <1>1, <1>3, DoesTwo
<1>6. Does(x, <<Mov(d, s), Mov(e, t)>>, y, {d, e}, {})
  BY <1>5, DoesMore
<1>. QED
  BY <1>1, <1>2, <1>3, <1>4, <1>6

(* HL from its copy in DE.                                                 *)
FromDE == <<Mov("H", "D"), Mov("L", "E")>>

LEMMA SomeCode ==
  /\ StoreBytes("DE") \in Seq(Instructions) /\ FromDE \in Seq(Instructions)
  /\ \A r \in Regs : <<MovToM(r)>> \in Seq(Instructions) /\ <<MovFromM(r)>> \in Seq(Instructions)
  /\ \A d, s \in Regs : <<Mov(d, s)>> \in Seq(Instructions)
<1>1. ASSUME NEW op \in Opcodes, NEW d \in Names, NEW s \in Names
      PROVE  Instr(op, d, s, 0) \in Instructions
  BY <1>1 DEF Instructions, Instr
<1>2. Regs \subseteq Names /\ "M" \in Names /\ "" \in Names /\ "HL" \in Names
  BY DEF Names, Pairs
<1>3. "MOV" \in Opcodes /\ "MOVrM" \in Opcodes /\ "MOVMr" \in Opcodes /\ "INX" \in Opcodes
  BY DEF Opcodes
<1>4. \A d, s \in Regs : Mov(d, s) \in Instructions
  BY <1>1, <1>2, <1>3 DEF Mov
<1>5. \A r \in Regs : MovToM(r) \in Instructions /\ MovFromM(r) \in Instructions
  BY <1>1, <1>2, <1>3 DEF MovToM, MovFromM
<1>6. Inx("HL") \in Instructions
  BY <1>1, <1>2, <1>3 DEF Inx
<1>. HIDE DEF Instructions
<1>7. StoreBytes("DE") \in Seq(Instructions)
  <2>. DEFINE i == MovToM("E")  j == Inx("HL")  k == MovToM("D")
  <2>1. i \in Instructions /\ j \in Instructions /\ k \in Instructions
    BY <1>5, <1>6, NamedRegs
  <2>2. StoreBytes("DE") = <<i, j, k>>
    BY PairFacts DEF StoreBytes
  <2>. HIDE DEF i, j, k
  <2>. QED
    BY <2>1, <2>2
<1>8. FromDE \in Seq(Instructions)
  <2>. DEFINE i == Mov("H", "D")  j == Mov("L", "E")
  <2>1. i \in Instructions /\ j \in Instructions
    BY <1>4, NamedRegs
  <2>2. FromDE = <<i, j>>
    BY DEF FromDE
  <2>. HIDE DEF i, j
  <2>. QED
    BY <2>1, <2>2
<1>. QED
  BY <1>4, <1>5, <1>7, <1>8

(* The pairs of copies that the lowerings make.                             *)
CopiesTwo(x, d, s, e, t) ==
  \E y : /\ Does(x, <<Mov(d, s), Mov(e, t)>>, y, {d, e}, {})
         /\ y.reg[d] = x.reg[s] /\ y.reg[e] = x.reg[t]

LEMMA PairCopies ==
  ASSUME NEW x, Ready(x)
  PROVE  /\ CopiesTwo(x, "H", "D", "L", "E") /\ CopiesTwo(x, "D", "H", "E", "L")
         /\ CopiesTwo(x, "E", "L", "D", "H") /\ CopiesTwo(x, "B", "H", "C", "L")
<1>1. ASSUME NEW d \in Regs, NEW s \in Regs, NEW e \in Regs, NEW t \in Regs, d # e, t # d
      PROVE  CopiesTwo(x, d, s, e, t)
  BY <1>1, MovesTwo DEF CopiesTwo
<1>2. "H" \in Regs /\ "L" \in Regs /\ "D" \in Regs /\ "E" \in Regs /\ "B" \in Regs /\ "C" \in Regs
  BY NamedRegs
<1>3. CopiesTwo(x, "H", "D", "L", "E")
  <2>1. "H" # "L" /\ "E" # "H"
    OBVIOUS
  <2>. QED
    BY <1>1, <1>2, <2>1, Zenon
<1>4. CopiesTwo(x, "D", "H", "E", "L")
  <2>1. "D" # "E" /\ "L" # "D"
    OBVIOUS
  <2>. QED
    BY <1>1, <1>2, <2>1, Zenon
<1>5. CopiesTwo(x, "E", "L", "D", "H")
  <2>1. "E" # "D" /\ "H" # "E"
    OBVIOUS
  <2>. QED
    BY <1>1, <1>2, <2>1, Zenon
<1>6. CopiesTwo(x, "B", "H", "C", "L")
  <2>1. "B" # "C" /\ "L" # "B"
    OBVIOUS
  <2>. QED
    BY <1>1, <1>2, <2>1, Zenon
<1>. QED
  BY <1>3, <1>4, <1>5, <1>6

(* HL copied to DE, code that changes HL, and HL copied back.               *)
LEMMA KeptInDE ==
  ASSUME NEW x, Ready(x), NEW b, NEW y, Does(x, b, y, {"D", "E"}, {}),
         y.reg["D"] = x.reg["H"], y.reg["E"] = x.reg["L"],
         NEW t, NEW z, NEW X, Does(y, t, z, {"H", "L", "F"}, X)
  PROVE  \E w : Does(x, b \o (t \o FromDE), w, {"D", "E", "F"}, X) /\ w.mem = z.mem
<1>1. Ready(y)
  BY DoesFacts
<1>2. Ready(z) /\ z.reg["D"] = y.reg["D"] /\ z.reg["E"] = y.reg["E"]
  BY <1>1, DoesFacts, NamedRegs
<1>3. PICK w : /\ Does(z, FromDE, w, {"H", "L"}, {})
               /\ w.reg["H"] = z.reg["D"] /\ w.reg["L"] = z.reg["E"]
  <2>1. Ready(z)
    BY <1>2
  <2>2. PICK w : /\ Does(z, <<Mov("H", "D"), Mov("L", "E")>>, w, {"H", "L"}, {})
                 /\ w.reg["H"] = z.reg["D"] /\ w.reg["L"] = z.reg["E"]
    BY <2>1, PairCopies, Zenon DEF CopiesTwo
  <2>. QED
    BY <2>2, Zenon DEF FromDE
<1>4. Does(y, t \o FromDE, w, {"H", "L", "F"} \cup {"H", "L"}, X \cup {})
  BY <1>3, DoesJoin
<1>5. Does(x, b \o (t \o FromDE), w, {"D", "E"} \cup ({"H", "L", "F"} \cup {"H", "L"}), {} \cup (X \cup {}))
  BY <1>4, DoesJoin
<1>6. w.reg["H"] = x.reg["H"] /\ w.reg["L"] = x.reg["L"]
  BY <1>2, <1>3
<1>7. \A r \in AllRegs \cap ({"D", "E"} \cup ({"H", "L", "F"} \cup {"H", "L"})) :
        r \notin {"D", "E", "F"} => w.reg[r] = x.reg[r]
  BY <1>6
<1>8. {} \cup (X \cup {}) \subseteq X
  OBVIOUS
<1>9. Does(x, b \o (t \o FromDE), w, {"D", "E", "F"}, X)
  BY <1>5, <1>7, <1>8, DoesOnly
<1>10. w.mem = z.mem
  <2>1. w \in Machine /\ z \in Machine /\ \A i \in Addr : i \notin {} => w.mem[i] = z.mem[i]
    BY <1>3, DoesFacts
  <2>. QED
    BY <2>1 DEF Machine
<1>. QED
  BY <1>9, <1>10

LEMMA HLStored ==
  ASSUME NEW x, Ready(x), NEW s, NEW n \in Addr, n + 1 \in Addr,
         \A y : Ready(y) /\ y.sp = x.sp => Points(y, s, n)
  PROVE  /\ PutsWord(x, <<Mov("D", "H"), Mov("E", "L")>> \o s \o StoreBytes("DE") \o FromDE, "HL", n,
                     {"D", "E", "F"}, {})
         /\ PutsWord(x, <<Mov("D", "H"), Mov("E", "L")>> \o s \o StoreBytes("DE") \o <<>>, "HL", n,
                     {"D", "E", "F", "H", "L"}, {})
<1>. DEFINE b == <<Mov("D", "H"), Mov("E", "L")>>
            t == s \o StoreBytes("DE")
            X == {n, n + 1} \cup {}
<1>1. PICK y : /\ Does(x, b, y, {"D", "E"}, {})
               /\ y.reg["D"] = x.reg["H"] /\ y.reg["E"] = x.reg["L"]
  BY PairCopies, Zenon DEF CopiesTwo
<1>2. Ready(y) /\ y.sp = x.sp
  BY <1>1, DoesFacts
<1>3. Points(y, s, n)
  BY <1>2
<1>4. PutsWord(y, t, "DE", n, {"H", "L", "F"}, {})
  BY <1>2, <1>3, WordStored
<1>5. PICK z : /\ Does(y, t, z, {"H", "L", "F"}, X)
               /\ z.mem[n] = y.reg["E"] /\ z.mem[n + 1] = y.reg["D"]
  BY <1>4, PairFacts DEF PutsWord
<1>6. /\ z \in Machine /\ b \in Seq(Instructions) /\ t \in Seq(Instructions)
  BY <1>1, <1>5, DoesFacts
<1>7. s \in Seq(Instructions) /\ StoreBytes("DE") \in Seq(Instructions) /\ FromDE \in Seq(Instructions)
  <2>1. s \in Seq(Instructions)
    BY <1>3, DoesFacts DEF Points
  <2>. QED
    BY <2>1, SomeCode
<1>. HIDE DEF b, X
<1>8. b \o s \o StoreBytes("DE") \o FromDE = b \o (t \o FromDE) /\ b \o s \o StoreBytes("DE") \o <<>> = b \o t
  <2>. DEFINE g == StoreBytes("DE")
  <2>1. g \in Seq(Instructions) /\ s \in Seq(Instructions) /\ b \in Seq(Instructions) /\ FromDE \in Seq(Instructions)
    BY <1>6, <1>7
  <2>. HIDE DEF g
  <2>2. b \o s \o g = b \o (s \o g)
    BY <2>1, CodeJoin, Zenon
  <2>3. s \o g = t
    BY DEF g
  <2>. HIDE DEF t
  <2>4. (b \o t) \o FromDE = b \o (t \o FromDE)
    BY <1>6, <2>1, CodeJoin, Zenon
  <2>5. b \o t \in Seq(Instructions)
    BY <1>6
  <2>6. (b \o t) \o <<>> = b \o t
    BY <2>5, ConcatEmptySeq
  <2>7. b \o s \o g = b \o t
    BY <2>2, <2>3
  <2>. QED
    BY <2>4, <2>6, <2>7 DEF g
<1>. HIDE DEF t
<1>9. PICK w : Does(x, b \o (t \o FromDE), w, {"D", "E", "F"}, X) /\ w.mem = z.mem
  BY <1>1, <1>5, KeptInDE
<1>10. Does(x, b \o t, z, {"D", "E"} \cup {"H", "L", "F"}, {} \cup X)
  BY <1>1, <1>5, DoesJoin
<1>11. Does(x, b \o t, z, {"D", "E", "F", "H", "L"}, X)
  BY <1>10, DoesMore
<1>12. /\ z.mem[n] = x.reg["L"] /\ z.mem[n + 1] = x.reg["H"]
       /\ w.mem[n] = x.reg["L"] /\ w.mem[n + 1] = x.reg["H"]
  BY <1>1, <1>5, <1>9
<1>13. PutsWord(x, b \o (t \o FromDE), "HL", n, {"D", "E", "F"}, {})
  BY <1>9, <1>12, PairFacts DEF PutsWord, X
<1>14. PutsWord(x, b \o t, "HL", n, {"D", "E", "F", "H", "L"}, {})
  BY <1>11, <1>12, PairFacts DEF PutsWord, X
<1>. QED
  BY <1>8, <1>13, <1>14 DEF b

LEMMA HLLoaded ==
  ASSUME NEW x, Ready(x), NEW s, NEW n \in Addr \ FreeStack, n + 1 \in Addr \ FreeStack, Points(x, s, n)
  PROVE  GetsWord(x, s \o LoadBytes("DE") \o FromDE, "HL", n, {"D", "E", "F"}, {})
<1>. DEFINE t == s \o LoadBytes("DE")
<1>1. GetsWord(x, t, "DE", n, {"H", "L", "F"}, {})
  BY WordLoaded
<1>. HIDE DEF t
<1>2. PICK z : /\ Does(x, t, z, {"H", "L", "F"} \cup {"D", "E"}, {})
               /\ z.reg["E"] = x.mem[n] /\ z.reg["D"] = x.mem[n + 1]
  BY <1>1, PairFacts DEF GetsWord
<1>3. Ready(z)
  BY <1>2, DoesFacts
<1>4. PICK w : /\ Does(z, <<Mov("H", "D"), Mov("L", "E")>>, w, {"H", "L"}, {})
               /\ w.reg["H"] = z.reg["D"] /\ w.reg["L"] = z.reg["E"]
  BY <1>3, PairCopies, Zenon DEF CopiesTwo
<1>5. Does(z, FromDE, w, {"H", "L"}, {})
  BY <1>4 DEF FromDE
<1>6. Does(x, t \o FromDE, w, ({"H", "L", "F"} \cup {"D", "E"}) \cup {"H", "L"}, {} \cup {})
  BY <1>2, <1>5, DoesJoin
<1>7. Does(x, t \o FromDE, w, {"D", "E", "F"} \cup {Hi["HL"], Lo["HL"]}, {})
  BY <1>6, DoesMore, PairFacts
<1>8. w.reg["L"] = x.mem[n] /\ w.reg["H"] = x.mem[n + 1]
  BY <1>2, <1>4
<1>. QED
  BY <1>7, <1>8, PairFacts DEF GetsWord, t

(* H or L stored from its copy, with the same code around it.               *)
LEMMA HalfStored ==
  ASSUME NEW x, Ready(x), NEW s, NEW n \in Addr, \A y : Ready(y) /\ y.sp = x.sp => Points(y, s, n),
         NEW b, NEW r \in Regs, NEW v \in {"D", "E"},
         \E y : /\ Does(x, b, y, {"D", "E"}, {})
                /\ y.reg["D"] = x.reg["H"] /\ y.reg["E"] = x.reg["L"] /\ y.reg[v] = x.reg[r]
  PROVE  PutsByte(x, b \o s \o <<MovToM(v), Mov("H", "D"), Mov("L", "E")>>, r, n, {"D", "E", "F"}, {})
<1>. DEFINE g == <<MovToM(v)>>
            X == {n} \cup {}
<1>1. PICK y : /\ Does(x, b, y, {"D", "E"}, {})
               /\ y.reg["D"] = x.reg["H"] /\ y.reg["E"] = x.reg["L"] /\ y.reg[v] = x.reg[r]
  OBVIOUS
<1>2. Ready(y) /\ y.sp = x.sp
  BY <1>1, DoesFacts
<1>3. Points(y, s, n)
  BY <1>2
<1>4. PutsByte(y, s \o g, v, n, {"H", "L", "F"}, {})
  <2>1. v \in Regs \ {"H", "L"}
    BY NamedRegs
  <2>. QED
    BY <1>2, <1>3, <2>1, ByteStored
<1>5. PICK z : Does(y, s \o g, z, {"H", "L", "F"}, X) /\ z.mem[n] = y.reg[v]
  BY <1>4 DEF PutsByte
<1>6. b \in Seq(Instructions) /\ s \in Seq(Instructions) /\ g \in Seq(Instructions) /\ FromDE \in Seq(Instructions)
  <2>1. b \in Seq(Instructions)
    BY <1>1, DoesFacts
  <2>2. s \in Seq(Instructions)
    BY <1>3, DoesFacts DEF Points
  <2>3. v \in Regs
    BY NamedRegs
  <2>. QED
    BY <2>1, <2>2, <2>3, SomeCode
<1>7. g \o FromDE = <<MovToM(v), Mov("H", "D"), Mov("L", "E")>>
  BY OneAndTwo DEF FromDE
<1>. HIDE DEF g, X
<1>8. b \o s \o (g \o FromDE) = b \o ((s \o g) \o FromDE)
  <2>1. s \o g \in Seq(Instructions) /\ g \o FromDE \in Seq(Instructions)
    BY <1>6
  <2>. DEFINE h == g \o FromDE
  <2>2. s \o (g \o FromDE) = (s \o g) \o FromDE
    BY <1>6, ConcatAssociative
  <2>3. s \o h = (s \o g) \o FromDE
    BY <2>2
  <2>4. h \in Seq(Instructions)
    BY <2>1
  <2>. HIDE DEF h
  <2>5. b \o s \o h = b \o (s \o h)
    <3>1. b \in Seq(Instructions) /\ s \in Seq(Instructions)
      BY <1>6
    <3>. QED
      BY <2>4, <3>1, CodeJoin, Zenon
  <2>. QED
    BY <2>3, <2>5 DEF h
<1>9. PICK w : Does(x, b \o ((s \o g) \o FromDE), w, {"D", "E", "F"}, X) /\ w.mem = z.mem
  BY <1>1, <1>5, KeptInDE
<1>10. w.mem[n] = x.reg[r]
  BY <1>1, <1>5, <1>9
<1>11. PutsByte(x, b \o ((s \o g) \o FromDE), r, n, {"D", "E", "F"}, {})
  BY <1>9, <1>10 DEF PutsByte, X
<1>. QED
  BY <1>7, <1>8, <1>11

(* H or L loaded, with the other half kept in D.                            *)
LEMMA HalfLoaded ==
  ASSUME NEW x, Ready(x), NEW s, NEW n \in Addr \ FreeStack, \A y : Ready(y) /\ y.sp = x.sp => Points(y, s, n),
         NEW r \in {"H", "L"}, NEW o \in {"H", "L"}, o # r
  PROVE  GetsByte(x, <<Mov("D", o)>> \o s \o <<MovFromM(r), Mov(o, "D")>>, r, n, {"D", "E", "F"}, {})
<1>. DEFINE b == <<Mov("D", o)>>
            g == <<MovFromM(r)>>
            h == <<MovFromM(r), Mov(o, "D")>>
            y == Exec(x, Mov("D", o))
<1>0. r \in Regs /\ o \in Regs /\ "D" \in Regs
  BY NamedRegs
<1>1. Does(x, b, y, {"D"}, {}) /\ y.reg["D"] = x.reg[o]
  BY <1>0, DoMov
<1>. HIDE DEF y
<1>2. Ready(y) /\ y.sp = x.sp /\ y.mem[n] = x.mem[n]
  BY <1>1, DoesFacts
<1>3. Points(y, s, n)
  BY <1>2
<1>4. PICK u : Does(y, s, u, {"H", "L", "F"}, {}) /\ Pair(u, "HL") = n
  BY <1>3 DEF Points
<1>5. Ready(u) /\ u.mem[n] = y.mem[n] /\ u.reg["D"] = y.reg["D"]
  BY <1>2, <1>4, DoesFacts, NamedRegs
<1>. DEFINE v == Exec(u, MovFromM(r))
            w == Exec(v, Mov(o, "D"))
<1>6. Does(u, g, v, {r}, {}) /\ v.reg[r] = u.mem[n]
  BY <1>0, <1>4, <1>5, DoMovFromM
<1>. HIDE DEF v
<1>7. Ready(v) /\ v.reg["D"] = u.reg["D"]
  BY <1>5, <1>6, DoesFacts, NamedRegs
<1>8. Does(v, <<Mov(o, "D")>>, w, {o}, {}) /\ w.reg[o] = v.reg["D"]
  BY <1>0, <1>7, DoMov
<1>. HIDE DEF w
<1>9. w.reg[r] = v.reg[r]
  BY <1>0, <1>8, DoesFacts, NamedRegs
<1>10. Does(u, h, w, {r} \cup {o}, {} \cup {})
  BY <1>6, <1>8, DoesTwo
<1>. HIDE DEF b, g, h
<1>11. Does(x, b \o s, u, {"D"} \cup {"H", "L", "F"}, {} \cup {})
  BY <1>1, <1>4, DoesJoin
<1>12. Does(x, b \o s \o h, w, ({"D"} \cup {"H", "L", "F"}) \cup ({r} \cup {o}), ({} \cup {}) \cup ({} \cup {}))
  BY <1>10, <1>11, DoesJoin
<1>13. w.reg[o] = x.reg[o] /\ w.reg[r] = x.mem[n]
  BY <1>1, <1>2, <1>5, <1>6, <1>7, <1>8, <1>9
<1>14. \A q \in AllRegs \cap (({"D"} \cup {"H", "L", "F"}) \cup ({r} \cup {o})) :
         q \notin {"D", "E", "F"} \cup {r} => w.reg[q] = x.reg[q]
  BY <1>13
<1>15. Does(x, b \o s \o h, w, {"D", "E", "F"} \cup {r}, {})
  BY <1>12, <1>14, DoesOnly
<1>. QED
  BY <1>13, <1>15 DEF GetsByte, b, h

LEMMA HalfCopied ==
  ASSUME NEW x, Ready(x), NEW r \in {"H", "L"}, NEW v, NEW e,
         v = (IF r = "H" THEN "D" ELSE "E"), e = (IF r = "H" THEN "E" ELSE "D")
  PROVE  \E y : /\ Does(x, <<Mov(v, r), Mov(e, OtherHalf[r])>>, y, {"D", "E"}, {})
                /\ y.reg["D"] = x.reg["H"] /\ y.reg["E"] = x.reg["L"] /\ y.reg[v] = x.reg[r]
<1>1. CASE r = "H"
  <2>1. PICK y : /\ Does(x, <<Mov("D", "H"), Mov("E", "L")>>, y, {"D", "E"}, {})
                 /\ y.reg["D"] = x.reg["H"] /\ y.reg["E"] = x.reg["L"]
    BY PairCopies, Zenon DEF CopiesTwo
  <2>2. v = "D" /\ e = "E" /\ OtherHalf[r] = "L"
    BY <1>1 DEF OtherHalf
  <2>. QED
    BY <1>1, <2>1, <2>2
<1>2. CASE r = "L"
  <2>1. PICK y : /\ Does(x, <<Mov("E", "L"), Mov("D", "H")>>, y, {"E", "D"}, {})
                 /\ y.reg["E"] = x.reg["L"] /\ y.reg["D"] = x.reg["H"]
    BY PairCopies, Zenon DEF CopiesTwo
  <2>2. v = "E" /\ e = "D" /\ OtherHalf[r] = "H" /\ {"E", "D"} = {"D", "E"}
    BY <1>2 DEF OtherHalf
  <2>. QED
    BY <1>2, <2>1, <2>2
<1>. QED
  BY <1>1, <1>2

(* What a body of Saving may assume: it runs at SP0, or below a pushed pair.*)
LEMMA SlotPointsBoth ==
  ASSUME NEW x, Ready(x), x.sp = SP0, NEW p \in Pairs, NEW off \in Addr, off + SP0 \in Addr
  PROVE  LET u == Exec(x, Push(p)) IN
         /\ Ready(u)
         /\ \A y : Ready(y) /\ y.sp = x.sp => Points(y, AtSlot(off + 0), off + SP0)
         /\ \A y : Ready(y) /\ y.sp = u.sp => Points(y, AtSlot(off + 2), off + SP0)
<1>. DEFINE u == Exec(x, Push(p))
<1>1. Ready(u) /\ u.sp = SP0 - 2
  BY Pushed, NamedRegs
<1>2. ASSUME NEW y, Ready(y), y.sp = x.sp PROVE Points(y, AtSlot(off + 0), off + SP0)
  BY <1>2, SlotPoints
<1>. HIDE DEF u
<1>3. ASSUME NEW y, Ready(y), y.sp = u.sp PROVE Points(y, AtSlot(off + 2), off + SP0)
  BY <1>1, <1>3, SlotPoints
<1>. QED
  BY <1>1, <1>2, <1>3 DEF u

LEMMA DynamicSpill8Stores ==
  ASSUME NEW x, Ready(x), x.sp = SP0, NEW D, NEW res, Reservable(res), NEW r \in Regs,
         NEW off \in Addr, off + SP0 \in Addr \ FreeStack
  PROVE  StoresByte(x, DynamicSpill8(D, r, off), r, off + SP0, D, res)
<1>. DEFINE n == off + SP0
<1>1. CASE r \in {"H", "L"}
  <2>. DEFINE v == IF r = "H" THEN "D" ELSE "E"
              e == IF r = "H" THEN "E" ELSE "D"
              b == <<Mov(v, r), Mov(e, OtherHalf[r])>>
              body == [o \in {0, 2} |-> b \o AtSlot(off + o) \o <<MovToM(v), Mov("H", "D"), Mov("L", "E")>>]
              u == Exec(x, Push("DE"))
              S == {"D", "E", "F"}
  <2>1. /\ Ready(u)
        /\ \A y : Ready(y) /\ y.sp = x.sp => Points(y, AtSlot(off + 0), n)
        /\ \A y : Ready(y) /\ y.sp = u.sp => Points(y, AtSlot(off + 2), n)
    BY SlotPointsBoth, PairFacts
  <2>2. /\ body[0] = b \o AtSlot(off + 0) \o <<MovToM(v), Mov("H", "D"), Mov("L", "E")>>
        /\ body[2] = b \o AtSlot(off + 2) \o <<MovToM(v), Mov("H", "D"), Mov("L", "E")>>
    OBVIOUS
  <2>. HIDE DEF u, n, body
  <2>3. ASSUME NEW y, Ready(y)
        PROVE  \E z : /\ Does(y, b, z, {"D", "E"}, {})
                      /\ z.reg["D"] = y.reg["H"] /\ z.reg["E"] = y.reg["L"] /\ z.reg[v] = y.reg[r]
    BY <1>1, <2>3, HalfCopied
  <2>4. v \in {"D", "E"} /\ n \in Addr
    BY DEF n
  <2>. HIDE DEF v, e, b, S
  <2>5. PutsByte(x, b \o AtSlot(off + 0) \o <<MovToM(v), Mov("H", "D"), Mov("L", "E")>>, r, n, S, {})
    BY <2>1, <2>3, <2>4, HalfStored DEF S
  <2>6. PutsByte(u, b \o AtSlot(off + 2) \o <<MovToM(v), Mov("H", "D"), Mov("L", "E")>>, r, n, S, {})
    BY <2>1, <2>3, <2>4, HalfStored DEF S
  <2>7. PutsByte(x, body[0], r, n, S, {}) /\ PutsByte(Exec(x, Push("DE")), body[2], r, n, S, {})
    BY <2>2, <2>5, <2>6 DEF u
  <2>8. (PairDead(D, "DE") => Dying(S, D, res)) /\ Dying(S \ {Hi["DE"], Lo["DE"]}, D, res)
    BY DyingRest, PairFacts DEF S, Dying, PairDead, Reservable, Regs
  <2>9. "DE" \in Pairs /\ n \in Addr \ FreeStack
    BY PairFacts DEF n
  <2>10. StoresByte(x, Saving(D, "DE", body), r, n, D, res)
    BY <2>7, <2>8, <2>9, SavingStoresByte
  <2>. QED
    BY <1>1, <2>10 DEF DynamicSpill8, body, v, e, b, n
<1>2. CASE r \notin {"H", "L"}
  <2>. DEFINE body == [o \in {0, 2} |-> AtSlot(off + o) \o <<MovToM(r)>>]
              u == Exec(x, Push("HL"))
              S == {"H", "L", "F"}
  <2>1. Ready(u) /\ Points(x, AtSlot(off + 0), n) /\ Points(u, AtSlot(off + 2), n)
    BY SlotPointsBoth, PairFacts
  <2>2. body[0] = AtSlot(off + 0) \o <<MovToM(r)>> /\ body[2] = AtSlot(off + 2) \o <<MovToM(r)>>
    OBVIOUS
  <2>. HIDE DEF u, n, body
  <2>3. r \in Regs \ {"H", "L"} /\ n \in Addr /\ n \in Addr \ FreeStack /\ "HL" \in Pairs
    BY <1>2, PairFacts DEF n
  <2>4. PutsByte(x, AtSlot(off + 0) \o <<MovToM(r)>>, r, n, S, {})
    BY <2>1, <2>3, ByteStored
  <2>5. PutsByte(u, AtSlot(off + 2) \o <<MovToM(r)>>, r, n, S, {})
    BY <2>1, <2>3, ByteStored
  <2>6. PutsByte(x, body[0], r, n, S, {}) /\ PutsByte(Exec(x, Push("HL")), body[2], r, n, S, {})
    BY <2>2, <2>4, <2>5 DEF u
  <2>7. (PairDead(D, "HL") => Dying(S, D, res)) /\ Dying(S \ {Hi["HL"], Lo["HL"]}, D, res)
    BY DyingRest, DyingFacts
  <2>. HIDE DEF S
  <2>8. StoresByte(x, Saving(D, "HL", body), r, n, D, res)
    BY <2>3, <2>6, <2>7, SavingStoresByte
  <2>. QED
    BY <1>2, <2>8 DEF DynamicSpill8, body, n
<1>. QED
  BY <1>1, <1>2

LEMMA DynamicReload8Loads ==
  ASSUME NEW x, Ready(x), x.sp = SP0, NEW D, NEW res, Reservable(res), NEW r \in Regs,
         NEW off \in Addr, off + SP0 \in Addr \ FreeStack
  PROVE  LoadsByte(x, DynamicReload8(D, r, off), r, off + SP0, D, res)
<1>. DEFINE n == off + SP0
<1>1. CASE r \in {"H", "L"} /\ OtherHalf[r] \in D
  <2>. DEFINE o == OtherHalf[r]
              s == AtSlot(off) \o <<MovFromM(r)>>
  <2>1. Points(x, AtSlot(off), n)
    BY SlotPoints
  <2>. HIDE DEF n
  <2>2. n \in Addr \ FreeStack
    BY DEF n
  <2>3. GetsByte(x, s, r, n, {"H", "L", "F"}, {})
    BY <2>1, <2>2, ByteLoaded
  <2>. HIDE DEF s
  <2>4. {"H", "L", "F"} \cup {r} = {o, "F"} \cup {r} /\ o \in {"H", "L"}
    BY <1>1 DEF OtherHalf
  <2>5. GetsByte(x, s, r, n, {o, "F"}, {})
    BY <2>3, <2>4 DEF GetsByte
  <2>6. Dying({o, "F"}, D, res)
    BY <1>1, <2>4 DEF Dying, Reservable, Regs
  <2>. HIDE DEF o
  <2>7. LoadsByte(x, s, r, n, D, res)
    BY <2>5, <2>6, LoadsByteStraight
  <2>. QED
    BY <1>1, <2>7 DEF DynamicReload8, s, n
<1>2. CASE r \in {"H", "L"} /\ OtherHalf[r] \notin D
  <2>. DEFINE h == OtherHalf[r]
              b == <<Mov("D", h)>>
              g == <<MovFromM(r), Mov(h, "D")>>
              body == [o \in {0, 2} |-> b \o AtSlot(off + o) \o g]
              u == Exec(x, Push("DE"))
              S == {"D", "E", "F"}
  <2>1. /\ Ready(u)
        /\ \A y : Ready(y) /\ y.sp = x.sp => Points(y, AtSlot(off + 0), n)
        /\ \A y : Ready(y) /\ y.sp = u.sp => Points(y, AtSlot(off + 2), n)
    BY SlotPointsBoth, PairFacts
  <2>2. body[0] = b \o AtSlot(off + 0) \o g /\ body[2] = b \o AtSlot(off + 2) \o g
    OBVIOUS
  <2>3. h \in {"H", "L"} /\ h # r /\ n \in Addr \ FreeStack /\ "DE" \in Pairs /\ r \notin {Hi["DE"], Lo["DE"]}
    BY <1>2, PairFacts DEF OtherHalf
  <2>. HIDE DEF u, n, body, h
  <2>4. GetsByte(x, b \o AtSlot(off + 0) \o g, r, n, S, {})
    BY <1>2, <2>1, <2>3, HalfLoaded
  <2>5. GetsByte(u, b \o AtSlot(off + 2) \o g, r, n, S, {})
    BY <1>2, <2>1, <2>3, HalfLoaded
  <2>6. GetsByte(x, body[0], r, n, S, {}) /\ GetsByte(Exec(x, Push("DE")), body[2], r, n, S, {})
    BY <2>2, <2>4, <2>5 DEF u
  <2>. HIDE DEF b, g, S
  <2>7. (PairDead(D, "DE") => Dying(S, D, res)) /\ Dying(S \ {Hi["DE"], Lo["DE"]}, D, res)
    BY PairFacts DEF S, Dying, PairDead, Reservable, Regs
  <2>8. LoadsByte(x, Saving(D, "DE", body), r, n, D, res)
    BY <2>3, <2>6, <2>7, SavingLoadsByte
  <2>. QED
    BY <1>2, <2>8 DEF DynamicReload8, body, b, g, h, n
<1>3. CASE r \notin {"H", "L"}
  <2>. DEFINE body == [o \in {0, 2} |-> AtSlot(off + o) \o <<MovFromM(r)>>]
              u == Exec(x, Push("HL"))
              S == {"H", "L", "F"}
  <2>1. Ready(u) /\ Points(x, AtSlot(off + 0), n) /\ Points(u, AtSlot(off + 2), n)
    BY SlotPointsBoth, PairFacts
  <2>2. body[0] = AtSlot(off + 0) \o <<MovFromM(r)>> /\ body[2] = AtSlot(off + 2) \o <<MovFromM(r)>>
    OBVIOUS
  <2>. HIDE DEF u, n, body
  <2>3. r \notin {Hi["HL"], Lo["HL"]} /\ n \in Addr \ FreeStack /\ "HL" \in Pairs
    BY <1>3, PairFacts DEF n
  <2>4. GetsByte(x, AtSlot(off + 0) \o <<MovFromM(r)>>, r, n, S, {})
    BY <2>1, <2>3, ByteLoaded
  <2>5. GetsByte(u, AtSlot(off + 2) \o <<MovFromM(r)>>, r, n, S, {})
    BY <2>1, <2>3, ByteLoaded
  <2>6. GetsByte(x, body[0], r, n, S, {}) /\ GetsByte(Exec(x, Push("HL")), body[2], r, n, S, {})
    BY <2>2, <2>4, <2>5 DEF u
  <2>7. (PairDead(D, "HL") => Dying(S, D, res)) /\ Dying(S \ {Hi["HL"], Lo["HL"]}, D, res)
    BY DyingRest, DyingFacts
  <2>. HIDE DEF S
  <2>8. LoadsByte(x, Saving(D, "HL", body), r, n, D, res)
    BY <2>3, <2>6, <2>7, SavingLoadsByte
  <2>. QED
    BY <1>3, <2>8 DEF DynamicReload8, body, n
<1>. QED
  BY <1>1, <1>2, <1>3

LEMMA DynamicSpill16Stores ==
  ASSUME NEW x, Ready(x), x.sp = SP0, NEW D, NEW res, Reservable(res), NEW p \in Pairs, NEW kill,
         NEW off \in Addr, off + SP0 \in Addr \ FreeStack, off + SP0 + 1 \in Addr \ FreeStack
  PROVE  StoresWord(x, DynamicSpill16(D, p, kill, off), p, off + SP0, D \cup Gone(p, kill), res)
<1>. DEFINE n == off + SP0
            E == D \cup Gone(p, kill)
<1>1. CASE p = "HL"
  <2>. DEFINE b == <<Mov("D", "H"), Mov("E", "L")>>
              c == IF kill THEN <<>> ELSE FromDE
              body == [o \in {0, 2} |-> b \o AtSlot(off + o) \o StoreBytes("DE") \o c]
              u == Exec(x, Push("DE"))
              S == IF kill THEN {"D", "E", "F", "H", "L"} ELSE {"D", "E", "F"}
  <2>1. /\ Ready(u)
        /\ \A y : Ready(y) /\ y.sp = x.sp => Points(y, AtSlot(off + 0), n)
        /\ \A y : Ready(y) /\ y.sp = u.sp => Points(y, AtSlot(off + 2), n)
    BY SlotPointsBoth, PairFacts
  <2>2. /\ body[0] = b \o AtSlot(off + 0) \o StoreBytes("DE") \o c
        /\ body[2] = b \o AtSlot(off + 2) \o StoreBytes("DE") \o c
    OBVIOUS
  <2>3. n \in Addr /\ n + 1 \in Addr /\ n \in Addr \ FreeStack /\ n + 1 \in Addr \ FreeStack
    OBVIOUS
  <2>. HIDE DEF u, n, body
  <2>4. PutsWord(x, b \o AtSlot(off + 0) \o StoreBytes("DE") \o c, "HL", n, S, {})
    <3>. DEFINE s == AtSlot(off + 0)
    <3>1. \A y : Ready(y) /\ y.sp = x.sp => Points(y, s, n)
      BY <2>1
    <3>. HIDE DEF s
    <3>2. CASE kill
      BY <2>3, <3>1, <3>2, HLStored DEF s
    <3>3. CASE ~kill
      BY <2>3, <3>1, <3>3, HLStored DEF s
    <3>. QED
      BY <3>2, <3>3
  <2>5. PutsWord(u, b \o AtSlot(off + 2) \o StoreBytes("DE") \o c, "HL", n, S, {})
    <3>. DEFINE s == AtSlot(off + 2)
    <3>1. \A y : Ready(y) /\ y.sp = u.sp => Points(y, s, n)
      BY <2>1
    <3>. HIDE DEF s
    <3>2. CASE kill
      BY <2>1, <2>3, <3>1, <3>2, HLStored DEF s
    <3>3. CASE ~kill
      BY <2>1, <2>3, <3>1, <3>3, HLStored DEF s
    <3>. QED
      BY <3>2, <3>3
  <2>6. PutsWord(x, body[0], "HL", n, S, {}) /\ PutsWord(Exec(x, Push("DE")), body[2], "HL", n, S, {})
    BY <2>2, <2>4, <2>5 DEF u
  <2>7. kill => "H" \in E /\ "L" \in E
    BY <1>1, PairFacts DEF Gone, Parts
  <2>8. D \subseteq E
    OBVIOUS
  <2>. HIDE DEF b, E
  <2>9. (PairDead(D, "DE") => Dying(S, E, res)) /\ Dying(S \ {Hi["DE"], Lo["DE"]}, E, res)
    <3>1. CASE kill
      BY <2>7, <2>8, <3>1, PairFacts DEF Dying, PairDead, Reservable, Regs
    <3>2. CASE ~kill
      BY <2>8, <3>2, PairFacts DEF Dying, PairDead, Reservable, Regs
    <3>. QED
      BY <3>1, <3>2
  <2>. HIDE DEF S
  <2>10. "DE" \in Pairs /\ "HL" \in Pairs
    BY PairFacts
  <2>11. StoresWord(x, Saving(D, "DE", body), "HL", n, E, res)
    BY <2>3, <2>6, <2>9, <2>10, SavingStoresWord
  <2>12. DynamicSpill16(D, p, kill, off) = Saving(D, "DE", body)
    <3>1. body = [o \in {0, 2} |-> <<Mov("D", "H"), Mov("E", "L")>> \o AtSlot(off + o) \o StoreBytes("DE")
                                     \o (IF kill THEN <<>> ELSE <<Mov("H", "D"), Mov("L", "E")>>)]
      BY DEF body, b, FromDE
    <3>. QED
      BY <1>1, <3>1 DEF DynamicSpill16
  <2>. QED
    BY <1>1, <2>11, <2>12 DEF n, E
<1>2. CASE p # "HL"
  <2>. DEFINE body == [o \in {0, 2} |-> AtSlot(off + o) \o StoreBytes(p)]
              u == Exec(x, Push("HL"))
              S == {"H", "L", "F"}
  <2>1. Ready(u) /\ Points(x, AtSlot(off + 0), n) /\ Points(u, AtSlot(off + 2), n)
    BY SlotPointsBoth, PairFacts
  <2>2. body[0] = AtSlot(off + 0) \o StoreBytes(p) /\ body[2] = AtSlot(off + 2) \o StoreBytes(p)
    OBVIOUS
  <2>3. /\ p \in {"BC", "DE"} /\ n \in Addr /\ n + 1 \in Addr /\ n \in Addr \ FreeStack /\ n + 1 \in Addr \ FreeStack
        /\ "HL" \in Pairs
    BY <1>2, PairFacts
  <2>. HIDE DEF u, n, body
  <2>4. PutsWord(x, AtSlot(off + 0) \o StoreBytes(p), p, n, S, {})
    BY <2>1, <2>3, WordStored
  <2>5. PutsWord(u, AtSlot(off + 2) \o StoreBytes(p), p, n, S, {})
    BY <2>1, <2>3, WordStored
  <2>6. PutsWord(x, body[0], p, n, S, {}) /\ PutsWord(Exec(x, Push("HL")), body[2], p, n, S, {})
    BY <2>2, <2>4, <2>5 DEF u
  <2>. HIDE DEF S
  <2>7. (PairDead(D, "HL") => Dying(S, E, res)) /\ Dying(S \ {Hi["HL"], Lo["HL"]}, E, res)
    BY PairFacts DEF Dying, PairDead, Reservable, Regs, S
  <2>. HIDE DEF E
  <2>8. StoresWord(x, Saving(D, "HL", body), p, n, E, res)
    BY <2>3, <2>6, <2>7, SavingStoresWord
  <2>. QED
    BY <1>2, <2>8 DEF DynamicSpill16, body, n, E
<1>. QED
  BY <1>1, <1>2

LEMMA DynamicReload16Loads ==
  ASSUME NEW x, Ready(x), x.sp = SP0, NEW D, NEW res, Reservable(res), NEW p \in Pairs,
         NEW off \in Addr, off + SP0 \in Addr \ FreeStack, off + SP0 + 1 \in Addr \ FreeStack
  PROVE  LoadsWord(x, DynamicReload16(D, p, off), p, off + SP0, D, res)
<1>. DEFINE n == off + SP0
<1>1. CASE p = "HL"
  <2>. DEFINE body == [o \in {0, 2} |-> AtSlot(off + o) \o LoadBytes("DE") \o FromDE]
              u == Exec(x, Push("DE"))
              S == {"D", "E", "F"}
  <2>1. Ready(u) /\ Points(x, AtSlot(off + 0), n) /\ Points(u, AtSlot(off + 2), n)
    BY SlotPointsBoth, PairFacts
  <2>2. /\ body[0] = AtSlot(off + 0) \o LoadBytes("DE") \o FromDE
        /\ body[2] = AtSlot(off + 2) \o LoadBytes("DE") \o FromDE
    OBVIOUS
  <2>3. n \in Addr \ FreeStack /\ n + 1 \in Addr \ FreeStack /\ "DE" \in Pairs /\ "HL" \in Pairs
    BY PairFacts
  <2>. HIDE DEF u, n, body
  <2>4. GetsWord(x, AtSlot(off + 0) \o LoadBytes("DE") \o FromDE, "HL", n, S, {})
    BY <2>1, <2>3, HLLoaded
  <2>5. GetsWord(u, AtSlot(off + 2) \o LoadBytes("DE") \o FromDE, "HL", n, S, {})
    BY <2>1, <2>3, HLLoaded
  <2>6. GetsWord(x, body[0], "HL", n, S, {}) /\ GetsWord(Exec(x, Push("DE")), body[2], "HL", n, S, {})
    BY <2>2, <2>4, <2>5 DEF u
  <2>. HIDE DEF S
  <2>7. (PairDead(D, "DE") => Dying(S, D, res)) /\ Dying(S \ {Hi["DE"], Lo["DE"]}, D, res)
    BY PairFacts DEF S, Dying, PairDead, Reservable, Regs
  <2>8. LoadsWord(x, Saving(D, "DE", body), "HL", n, D, res)
    BY <2>3, <2>6, <2>7, SavingLoadsWord
  <2>9. DynamicReload16(D, p, off) = Saving(D, "DE", body)
    <3>1. body = [o \in {0, 2} |-> AtSlot(off + o) \o LoadBytes("DE") \o <<Mov("H", "D"), Mov("L", "E")>>]
      BY DEF body, FromDE
    <3>. QED
      BY <1>1, <3>1 DEF DynamicReload16
  <2>. QED
    BY <1>1, <2>8, <2>9 DEF n
<1>2. CASE p # "HL"
  <2>. DEFINE body == [o \in {0, 2} |-> AtSlot(off + o) \o LoadBytes(p)]
              u == Exec(x, Push("HL"))
              S == {"H", "L", "F"}
  <2>1. Ready(u) /\ Points(x, AtSlot(off + 0), n) /\ Points(u, AtSlot(off + 2), n)
    BY SlotPointsBoth, PairFacts
  <2>2. body[0] = AtSlot(off + 0) \o LoadBytes(p) /\ body[2] = AtSlot(off + 2) \o LoadBytes(p)
    OBVIOUS
  <2>3. p \in {"BC", "DE"} /\ n \in Addr \ FreeStack /\ n + 1 \in Addr \ FreeStack /\ "HL" \in Pairs
    BY <1>2, PairFacts
  <2>. HIDE DEF u, n, body
  <2>4. GetsWord(x, AtSlot(off + 0) \o LoadBytes(p), p, n, S, {})
    BY <2>1, <2>3, WordLoaded
  <2>5. GetsWord(u, AtSlot(off + 2) \o LoadBytes(p), p, n, S, {})
    BY <2>1, <2>3, WordLoaded
  <2>6. GetsWord(x, body[0], p, n, S, {}) /\ GetsWord(Exec(x, Push("HL")), body[2], p, n, S, {})
    BY <2>2, <2>4, <2>5 DEF u
  <2>7. (PairDead(D, "HL") => Dying(S, D, res)) /\ Dying(S \ {Hi["HL"], Lo["HL"]}, D, res)
    BY DyingRest, DyingFacts
  <2>. HIDE DEF S
  <2>8. LoadsWord(x, Saving(D, "HL", body), p, n, D, res)
    BY <1>2, <2>3, <2>6, <2>7, SavingLoadsWord
  <2>. QED
    BY <1>2, <2>8 DEF DynamicReload16, body, n
<1>. QED
  BY <1>1, <1>2

-----------------------------------------------------------------------------
(* What a register that is read, or is not dead later, was before.          *)
LEMMA LiveEarlier ==
  ASSUME NEW k \in 0..(Len(mbb) - 1), Len(mbb) \in Nat, NEW r \in Regs
  PROVE  /\ r \in UsesOf(mbb[k + 1]) => r \notin DeadSet(k)
         /\ r \notin DeadSet(k + 1) /\ r \notin DefsOf(mbb[k + 1]) => r \notin DeadSet(k)
<1>. DEFINE T(i) == {j \in i + 1..Len(mbb) : r \in UsesOf(mbb[j]) \cup DefsOf(mbb[j])}
            F(S) == CHOOSE j \in S : \A i \in S : j <= i
            Dead(S) == IF S = {} THEN r \notin frame.liveOut ELSE r \notin UsesOf(mbb[F(S)])
<1>1. \A i : r \in DeadSet(i) <=> Dead(T(i))
  BY DEF DeadSet, DeadAfter
<1>2. ASSUME r \in UsesOf(mbb[k + 1])
      PROVE  ~Dead(T(k))
  <2>1. k + 1 \in T(k) /\ \A i \in T(k) : k + 1 <= i
    BY <1>2
  <2>2. T(k) \subseteq Nat
    OBVIOUS
  <2>. HIDE DEF T
  <2>3. F(T(k)) \in T(k) /\ \A i \in T(k) : F(T(k)) <= i
    BY <2>1
  <2>4. F(T(k)) = k + 1
    BY <2>1, <2>2, <2>3
  <2>. QED
    BY <1>2, <2>1, <2>4
<1>3. ASSUME r \notin UsesOf(mbb[k + 1]), r \notin DefsOf(mbb[k + 1])
      PROVE  T(k) = T(k + 1)
  BY <1>3
<1>4. CASE r \in UsesOf(mbb[k + 1])
  BY <1>1, <1>2, <1>4
<1>5. CASE r \notin UsesOf(mbb[k + 1])
  <2>1. r \notin DefsOf(mbb[k + 1]) => T(k) = T(k + 1)
    BY <1>3, <1>5
  <2>. HIDE DEF T, F
  <2>. QED
    BY <1>1, <1>5, <2>1
<1>. QED
  BY <1>4, <1>5

(* Slots lie apart from one another and from the free stack.                *)
LEMMA SlotsApart ==
  ASSUME NEW f \in Slots
  PROVE  /\ SlotAddr(f) \in Addr \ FreeStack /\ SlotAddr(f) + 1 \in Addr \ FreeStack
         /\ \A g \in Slots : g # f => /\ SlotAddr(g) # SlotAddr(f) /\ SlotAddr(g) # SlotAddr(f) + 1
                                      /\ SlotAddr(g) + 1 # SlotAddr(f) /\ SlotAddr(g) + 1 # SlotAddr(f) + 1
<1>1. /\ SP0 \in Nat /\ GVBase \in Nat /\ Slots \subseteq Nat \ {0} /\ \A j \in Addr : j \in Nat
  BY SlotsAssumption, ByteFacts
<1>2. ASSUME NEW g \in Slots
      PROVE  /\ Offset(g) \in Nat /\ GVBase + Offset(g) + 1 \in Addr /\ SP0 + Offset(g) + 1 \in Addr
             /\ \A h \in Slots : \/ GVBase + Offset(g) + 1 < SP0 - 4
                                 \/ GVBase + Offset(g) > SP0 + Offset(h) + 1
  BY <1>1, SlotsAssumption, LayoutAssumption DEF Offset
<1>3. ASSUME NEW g \in Slots
      PROVE  /\ SlotAddr(g) \in Addr /\ SlotAddr(g) + 1 \in Addr
             /\ SlotAddr(g) = GVBase + Offset(g) \/ SlotAddr(g) = SP0 + Offset(g)
             /\ ~(g \in frame.static) => SlotAddr(g) = SP0 + Offset(g)
  <2>. DEFINE b == ByteSize * ByteSize
  <2>1. b \in Nat /\ Addr = 0..(b - 1)
    BY ByteFacts DEF Addr
  <2>. HIDE DEF b
  <2>2. GVBase + Offset(g) + 1 \in 0..(b - 1) /\ SP0 + Offset(g) + 1 \in 0..(b - 1) /\ Offset(g) \in Nat
    BY <1>2, <2>1
  <2>3. GVBase + Offset(g) \in 0..(b - 1) /\ SP0 + Offset(g) \in 0..(b - 1)
    BY <1>1, <2>1, <2>2
  <2>4. /\ g \in frame.static => SlotAddr(g) = GVBase + Offset(g)
        /\ g \notin frame.static => SlotAddr(g) = SP0 + Offset(g)
    BY DEF SlotAddr
  <2>. QED
    BY <2>1, <2>2, <2>3, <2>4
<1>4. SlotAddr(f) \notin FreeStack /\ SlotAddr(f) + 1 \notin FreeStack
  BY <1>1, <1>2, <1>3 DEF FreeStack
<1>5. ASSUME NEW g \in Slots, g # f
      PROVE  /\ SlotAddr(g) # SlotAddr(f) /\ SlotAddr(g) # SlotAddr(f) + 1
             /\ SlotAddr(g) + 1 # SlotAddr(f) /\ SlotAddr(g) + 1 # SlotAddr(f) + 1
  <2>1. \/ SlotAddr(f) = GVBase + Offset(f) /\ SlotAddr(g) = GVBase + Offset(g)
        \/ SlotAddr(f) = SP0 + Offset(f) /\ SlotAddr(g) = SP0 + Offset(g)
        \/ SlotAddr(f) = GVBase + Offset(f) /\ SlotAddr(g) = SP0 + Offset(g)
        \/ SlotAddr(f) = SP0 + Offset(f) /\ SlotAddr(g) = GVBase + Offset(g)
    BY <1>3
  <2>2. Offset(f) - Offset(g) \in Int /\ Offset(f) # Offset(g) /\ Offset(f) # Offset(g) + 1 /\ Offset(g) # Offset(f) + 1
    <3>1. f \in Nat /\ g \in Nat
      BY <1>1
    <3>. QED
      BY <1>5, <3>1 DEF Offset
  <2>3. /\ GVBase + Offset(f) + 1 < SP0 - 4 \/ GVBase + Offset(f) > SP0 + Offset(g) + 1
        /\ GVBase + Offset(g) + 1 < SP0 - 4 \/ GVBase + Offset(g) > SP0 + Offset(f) + 1
        /\ Offset(f) \in Nat /\ Offset(g) \in Nat
    BY <1>2
  <2>. QED
    BY <1>1, <2>1, <2>2, <2>3
<1>. QED
  BY <1>3, <1>4, <1>5

-----------------------------------------------------------------------------
(* After k instructions the machine x agrees with the abstract machine b    *)
(* where it matters.                                                        *)
RegsAgree(x, b, k) ==
  \A r \in Regs : (r \in frame.reserved \/ r \notin DeadSet(k)) /\ b.reg[r] # Undef => x.reg[r] = b.reg[r]
SlotsAgree(x, b) ==
  \A f \in Slots : /\ b.slot[f].lo # Undef => x.mem[SlotAddr(f)] = b.slot[f].lo
                   /\ b.slot[f].hi # Undef => x.mem[SlotAddr(f) + 1] = b.slot[f].hi
OnlySlots(x) ==
  \A i \in Addr : x.mem[i] # MemAtStart[i] => i \in FreeStack \/ \E f \in Slots : i \in {SlotAddr(f), SlotAddr(f) + 1}
Good(x, b, k) == x \in Machine /\ x.sp = SP0 /\ RegsAgree(x, b, k) /\ SlotsAgree(x, b) /\ OnlySlots(x)

(* The code s leads there from x.                                           *)
LeadsToGood(x, s, b, k) == \E y : Leads(x, s, y) /\ Good(y, b, k)

(* Instruction mi gives the registers of got a value and takes those of lost*)
(* away, on the way from b to c; its code, on the way from x to y, may      *)
(* destroy S.                                                               *)
Transfers(mi, x, b, y, c, got, lost, S) ==
  /\ DefsOf(mi) \subseteq got \cup lost
  /\ \A r \in Regs : r \in lost /\ r \notin got => c.reg[r] = Undef
  /\ \A r \in Regs : r \notin lost /\ r \notin got => c.reg[r] = b.reg[r]
  /\ \A r \in Regs : r \in got /\ c.reg[r] # Undef => y.reg[r] = c.reg[r]
  /\ \A r \in Regs : r \notin got /\ r \notin S => y.reg[r] = x.reg[r]

LEMMA RegsStayGood ==
  ASSUME NEW k \in 0..(Len(mbb) - 1), Len(mbb) \in Nat, NEW x, NEW b, RegsAgree(x, b, k), NEW y, NEW c,
         NEW got, NEW lost, NEW S, Transfers(mbb[k + 1], x, b, y, c, got, lost, S),
         Dying(S, DeadSet(k + 1) \cup lost, frame.reserved)
  PROVE  RegsAgree(y, c, k + 1)
<1>. USE DEF Transfers
<1>. SUFFICES ASSUME NEW r \in Regs, r \in frame.reserved \/ r \notin DeadSet(k + 1), c.reg[r] # Undef
              PROVE  y.reg[r] = c.reg[r]
  BY DEF RegsAgree
<1>1. CASE r \in got
  BY <1>1
<1>2. CASE r \notin got
  <2>1. r \notin lost /\ c.reg[r] = b.reg[r]
    BY <1>2
  <2>2. r \notin S
    BY <2>1 DEF Dying
  <2>3. y.reg[r] = x.reg[r]
    BY <1>2, <2>2
  <2>4. r \in frame.reserved \/ r \notin DeadSet(k)
    BY <1>2, <2>1, LiveEarlier
  <2>. QED
    BY <2>1, <2>3, <2>4 DEF RegsAgree
<1>. QED
  BY <1>1, <1>2

(* A register that the instruction reads agrees.                            *)
LEMMA UsedAgree ==
  ASSUME NEW k \in 0..(Len(mbb) - 1), Len(mbb) \in Nat, NEW x, NEW b, RegsAgree(x, b, k)
  PROVE  \A r \in Regs : r \in UsesOf(mbb[k + 1]) /\ b.reg[r] # Undef => x.reg[r] = b.reg[r]
BY LiveEarlier DEF RegsAgree

LEMMA UsesCases ==
  ASSUME NEW mi
  PROVE  /\ mi.op \in Spills \cup Stores \cup {"USE"} => UsesOf(mi) = Parts(mi.reg)
         /\ mi.op = "MOV" => UsesOf(mi) = {mi.src}
BY DEF UsesOf, Spills, Stores

(* The slots, when the code writes memory only in X besides the free stack. *)
WritesSlot(x, b, y, c, f, X) ==
  /\ X \subseteq {SlotAddr(f), SlotAddr(f) + 1} \cup Saved
  /\ \A i \in Addr : i \notin X => y.mem[i] = x.mem[i]
  /\ \A g \in Slots : g # f => c.slot[g] = b.slot[g]
  /\ c.slot[f].lo # Undef => y.mem[SlotAddr(f)] = c.slot[f].lo
  /\ c.slot[f].hi # Undef => y.mem[SlotAddr(f) + 1] = c.slot[f].hi

LEMMA OthersStayGood ==
  ASSUME NEW x, NEW b, SlotsAgree(x, b), OnlySlots(x), NEW y, NEW c, NEW f \in Slots, NEW X,
         WritesSlot(x, b, y, c, f, X)
  PROVE  SlotsAgree(y, c) /\ OnlySlots(y)
<1>. USE DEF WritesSlot
<1>0. Saved \subseteq FreeStack
  BY StackFacts
<1>1. SlotsAgree(y, c)
  <2>. SUFFICES ASSUME NEW g \in Slots
                PROVE  /\ c.slot[g].lo # Undef => y.mem[SlotAddr(g)] = c.slot[g].lo
                       /\ c.slot[g].hi # Undef => y.mem[SlotAddr(g) + 1] = c.slot[g].hi
    BY DEF SlotsAgree
  <2>1. CASE g = f
    BY <2>1
  <2>2. CASE g # f
    <3>1. /\ SlotAddr(g) \in Addr /\ SlotAddr(g) + 1 \in Addr
          /\ SlotAddr(g) \notin FreeStack /\ SlotAddr(g) + 1 \notin FreeStack
          /\ SlotAddr(g) \notin {SlotAddr(f), SlotAddr(f) + 1} /\ SlotAddr(g) + 1 \notin {SlotAddr(f), SlotAddr(f) + 1}
      BY <2>2, SlotsApart
    <3>2. y.mem[SlotAddr(g)] = x.mem[SlotAddr(g)] /\ y.mem[SlotAddr(g) + 1] = x.mem[SlotAddr(g) + 1]
      BY <1>0, <3>1
    <3>. QED
      BY <2>2, <3>2 DEF SlotsAgree
  <2>. QED
    BY <2>1, <2>2
<1>2. OnlySlots(y)
  <2>. SUFFICES ASSUME NEW i \in Addr, y.mem[i] # MemAtStart[i]
                PROVE  i \in FreeStack \/ \E g \in Slots : i \in {SlotAddr(g), SlotAddr(g) + 1}
    BY DEF OnlySlots
  <2>1. CASE i \in X
    BY <1>0, <2>1
  <2>2. CASE i \notin X
    BY <2>2 DEF OnlySlots
  <2>. QED
    BY <2>1, <2>2
<1>. QED
  BY <1>1, <1>2

LEMMA NoneWritten ==
  ASSUME NEW x, NEW b, SlotsAgree(x, b), OnlySlots(x), NEW y, NEW c, NEW X, X \subseteq FreeStack,
         \A i \in Addr : i \notin X => y.mem[i] = x.mem[i], c.slot = b.slot
  PROVE  SlotsAgree(y, c) /\ OnlySlots(y)
<1>1. \A g \in Slots : SlotAddr(g) \in Addr \ FreeStack /\ SlotAddr(g) + 1 \in Addr \ FreeStack
  BY SlotsApart
<1>2. \A g \in Slots : y.mem[SlotAddr(g)] = x.mem[SlotAddr(g)] /\ y.mem[SlotAddr(g) + 1] = x.mem[SlotAddr(g) + 1]
  BY <1>1
<1>3. SlotsAgree(y, c)
  BY <1>2 DEF SlotsAgree
<1>4. OnlySlots(y)
  BY DEF OnlySlots
<1>. QED
  BY <1>3, <1>4

(* What an instruction declares clobbered, besides what it kills.           *)
Declared(mi) == Lost(mi) \cup (IF mi.op \in Stores \cup Loads \cup {"LEA_FI"} THEN {"H", "L"} ELSE {})

LEMMA StoreMeaning ==
  ASSUME NEW role, NEW mi \in Instrs(role), Writes(mi), NEW b \in State
  PROVE  /\ DefsOf(mi) \subseteq Declared(mi) /\ UsesOf(mi) = Parts(mi.reg) /\ mi.fi \in Slots /\ mi.reg \in Regs \cup Pairs
         /\ \A r \in Regs : r \in Declared(mi) => Meaning(b, mi).reg[r] = Undef
         /\ \A r \in Regs : r \notin Declared(mi) => Meaning(b, mi).reg[r] = b.reg[r]
         /\ \A g \in Slots : g # mi.fi => Meaning(b, mi).slot[g] = b.slot[g]
         /\ Meaning(b, mi).slot[mi.fi] = Value(b, mi.reg)
<1>1. CASE mi.op \in Spills
  <2>0. Meaning(b, mi) = [reg |-> Lose(b.reg, Lost(mi)), slot |-> [b.slot EXCEPT ![mi.fi] = Value(b, mi.reg)],
                          addr |-> b.addr]
    BY <1>1, MeaningCases
  <2>1. Meaning(b, mi).reg = Lose(b.reg, Lost(mi)) /\ mi.op \notin Stores \cup Loads \cup {"LEA_FI"}
    <3>1. mi.op \notin Stores \cup Loads \cup {"LEA_FI"}
      BY <1>1 DEF Spills, Stores, Loads
    <3>. QED
      BY <2>0, <3>1
  <2>2. Declared(mi) = Lost(mi) /\ DefsOf(mi) = {}
    BY <1>1, <2>1, DefsCases DEF Declared
  <2>3. \A r \in Regs : Meaning(b, mi).reg[r] = IF r \in Declared(mi) THEN Undef ELSE b.reg[r]
    BY <2>1, <2>2, LoseFacts, StateParts
  <2>4. mi.fi \in Slots /\ mi.reg \in Regs \cup Pairs
    BY <1>1, OperandFacts
  <2>. QED
    BY <1>1, <2>2, <2>3, <2>4, UsesCases, MeaningFacts
<1>2. CASE mi.op \in Stores
  <2>0. Meaning(b, mi) = [reg |-> Lose(b.reg, {"H", "L"} \cup Lost(mi)),
                          slot |-> [b.slot EXCEPT ![mi.fi] = Value(b, mi.reg)], addr |-> b.addr]
    BY <1>2, MeaningCases
  <2>1. Meaning(b, mi).reg = Lose(b.reg, {"H", "L"} \cup Lost(mi))
    BY <2>0
  <2>2. Declared(mi) = {"H", "L"} \cup Lost(mi) /\ DefsOf(mi) = {"H", "L"}
    BY <1>2, DefsCases DEF Declared
  <2>3. \A r \in Regs : Meaning(b, mi).reg[r] = IF r \in Declared(mi) THEN Undef ELSE b.reg[r]
    BY <2>1, <2>2, LoseFacts, StateParts
  <2>4. mi.fi \in Slots /\ mi.reg \in Regs \cup Pairs
    BY <1>2, OperandFacts
  <2>. QED
    BY <1>2, <2>2, <2>3, <2>4, UsesCases, MeaningFacts
<1>. QED
  BY <1>1, <1>2 DEF Writes

LEMMA GoodParts ==
  ASSUME NEW x, NEW b, NEW k, Good(x, b, k)
  PROVE  x \in Machine /\ Ready(x) /\ x.sp = SP0 /\ RegsAgree(x, b, k) /\ SlotsAgree(x, b) /\ OnlySlots(x)
BY DEF Good, Ready

LEMMA GoodEnd ==
  ASSUME NEW x, x.sp = SP0, NEW s, NEW y, NEW S, NEW X, Does(x, s, y, S, X), NEW c, NEW k,
         RegsAgree(y, c, k), SlotsAgree(y, c), OnlySlots(y)
  PROVE  LeadsToGood(x, s, c, k)
<1>1. y \in Machine /\ y.sp = SP0
  BY DoesFacts
<1>. QED
  BY <1>1 DEF LeadsToGood, Good, Does

LEMMA StoreByteGood ==
  ASSUME NEW role, NEW k \in 0..(Len(mbb) - 1), Len(mbb) \in Nat, NEW mi \in Instrs(role), mi = mbb[k + 1],
         NEW b \in State, NEW x, Good(x, b, k), Writes(mi), mi.reg \in Regs, NEW s,
         StoresByte(x, s, mi.reg, SlotAddr(mi.fi), DeadSet(k + 1) \cup Declared(mi), frame.reserved)
  PROVE  LeadsToGood(x, s, Meaning(b, mi), k + 1)
<1>. DEFINE c == Meaning(b, mi)
            f == mi.fi
            r == mi.reg
            n == SlotAddr(f)
            D == DeadSet(k + 1)
            X == {n} \cup Saved
<1>1. PICK S : PutsByte(x, s, r, n, S, Saved) /\ Dying(S, D \cup Declared(mi), frame.reserved)
  BY DEF StoresByte
<1>2. PICK y : Does(x, s, y, S, X) /\ y.mem[n] = x.reg[r]
  BY <1>1 DEF PutsByte
<1>3. x.sp = SP0 /\ RegsAgree(x, b, k) /\ SlotsAgree(x, b) /\ OnlySlots(x)
  BY GoodParts
<1>4. /\ DefsOf(mi) \subseteq {} \cup Declared(mi) /\ UsesOf(mi) = Parts(r) /\ f \in Slots
      /\ \A q \in Regs : q \in Declared(mi) /\ q \notin {} => c.reg[q] = Undef
      /\ \A q \in Regs : q \notin Declared(mi) /\ q \notin {} => c.reg[q] = b.reg[q]
      /\ \A g \in Slots : g # f => c.slot[g] = b.slot[g]
      /\ c.slot[f] = Value(b, r)
  BY StoreMeaning
<1>5. c.slot[f].hi = Undef /\ c.slot[f].lo = b.reg[r] /\ UsesOf(mi) = {r}
  BY <1>4, ValueFacts, PartsFacts
<1>6. /\ \A q \in Regs : q \notin S => y.reg[q] = x.reg[q]
      /\ \A i \in Addr : i \notin X => y.mem[i] = x.mem[i]
  BY <1>2, DoesFacts, NamedRegs
<1>7. b.reg[r] # Undef => x.reg[r] = b.reg[r]
  BY <1>3, <1>5, UsedAgree
<1>. HIDE DEF c, f, r, n, D, X
<1>8. RegsAgree(y, c, k + 1)
  <2>1. \A q \in Regs : q \in {} /\ c.reg[q] # Undef => y.reg[q] = c.reg[q]
    OBVIOUS
  <2>2. \A q \in Regs : q \notin {} /\ q \notin S => y.reg[q] = x.reg[q]
    BY <1>6
  <2>3. Transfers(mi, x, b, y, c, {}, Declared(mi), S)
    BY <1>4, <2>1, <2>2 DEF Transfers
  <2>. QED
    BY <1>1, <1>3, <2>3, RegsStayGood DEF D
<1>9. SlotsAgree(y, c) /\ OnlySlots(y)
  <2>1. X \subseteq {SlotAddr(f), SlotAddr(f) + 1} \cup Saved
    BY DEF X, n
  <2>2. /\ c.slot[f].lo # Undef => y.mem[SlotAddr(f)] = c.slot[f].lo
        /\ c.slot[f].hi # Undef => y.mem[SlotAddr(f) + 1] = c.slot[f].hi
    BY <1>2, <1>5, <1>7 DEF n
  <2>3. WritesSlot(x, b, y, c, f, X)
    BY <1>4, <1>6, <2>1, <2>2 DEF WritesSlot
  <2>. QED
    BY <1>3, <1>4, <2>3, OthersStayGood
<1>. QED
  BY <1>2, <1>3, <1>8, <1>9, GoodEnd DEF c

LEMMA StoreWordGood ==
  ASSUME NEW role, NEW k \in 0..(Len(mbb) - 1), Len(mbb) \in Nat, NEW mi \in Instrs(role), mi = mbb[k + 1],
         NEW b \in State, NEW x, Good(x, b, k), Writes(mi), mi.reg \in Pairs, NEW s,
         StoresWord(x, s, mi.reg, SlotAddr(mi.fi), DeadSet(k + 1) \cup Declared(mi), frame.reserved)
  PROVE  LeadsToGood(x, s, Meaning(b, mi), k + 1)
<1>. DEFINE c == Meaning(b, mi)
            f == mi.fi
            p == mi.reg
            n == SlotAddr(f)
            D == DeadSet(k + 1)
            X == {n, n + 1} \cup Saved
<1>1. PICK S : PutsWord(x, s, p, n, S, Saved) /\ Dying(S, D \cup Declared(mi), frame.reserved)
  BY DEF StoresWord
<1>2. PICK y : Does(x, s, y, S, X) /\ y.mem[n] = x.reg[Lo[p]] /\ y.mem[n + 1] = x.reg[Hi[p]]
  BY <1>1 DEF PutsWord
<1>3. x.sp = SP0 /\ RegsAgree(x, b, k) /\ SlotsAgree(x, b) /\ OnlySlots(x)
  BY GoodParts
<1>4. /\ DefsOf(mi) \subseteq {} \cup Declared(mi) /\ UsesOf(mi) = Parts(p) /\ f \in Slots
      /\ \A q \in Regs : q \in Declared(mi) /\ q \notin {} => c.reg[q] = Undef
      /\ \A q \in Regs : q \notin Declared(mi) /\ q \notin {} => c.reg[q] = b.reg[q]
      /\ \A g \in Slots : g # f => c.slot[g] = b.slot[g]
      /\ c.slot[f] = Value(b, p)
  BY StoreMeaning
<1>5. /\ c.slot[f].hi = b.reg[Hi[p]] /\ c.slot[f].lo = b.reg[Lo[p]]
      /\ Hi[p] \in UsesOf(mi) /\ Lo[p] \in UsesOf(mi) /\ Hi[p] \in Regs /\ Lo[p] \in Regs
  BY <1>4, ValueFacts, PartsFacts
<1>6. /\ \A q \in Regs : q \notin S => y.reg[q] = x.reg[q]
      /\ \A i \in Addr : i \notin X => y.mem[i] = x.mem[i]
  BY <1>2, DoesFacts, NamedRegs
<1>7. /\ b.reg[Lo[p]] # Undef => x.reg[Lo[p]] = b.reg[Lo[p]]
      /\ b.reg[Hi[p]] # Undef => x.reg[Hi[p]] = b.reg[Hi[p]]
  <2>1. \A q \in Regs : q \in UsesOf(mi) /\ b.reg[q] # Undef => x.reg[q] = b.reg[q]
    BY <1>3, UsedAgree
  <2>. QED
    BY <1>5, <2>1, Zenon
<1>. HIDE DEF c, f, p, n, D, X
<1>8. RegsAgree(y, c, k + 1)
  <2>1. \A q \in Regs : q \in {} /\ c.reg[q] # Undef => y.reg[q] = c.reg[q]
    OBVIOUS
  <2>2. \A q \in Regs : q \notin {} /\ q \notin S => y.reg[q] = x.reg[q]
    BY <1>6
  <2>3. Transfers(mi, x, b, y, c, {}, Declared(mi), S)
    BY <1>4, <2>1, <2>2 DEF Transfers
  <2>. QED
    BY <1>1, <1>3, <2>3, RegsStayGood DEF D
<1>9. SlotsAgree(y, c) /\ OnlySlots(y)
  <2>1. X \subseteq {SlotAddr(f), SlotAddr(f) + 1} \cup Saved
    BY DEF X, n
  <2>2. /\ c.slot[f].lo # Undef => y.mem[SlotAddr(f)] = c.slot[f].lo
        /\ c.slot[f].hi # Undef => y.mem[SlotAddr(f) + 1] = c.slot[f].hi
    BY <1>2, <1>5, <1>7 DEF n
  <2>3. WritesSlot(x, b, y, c, f, X)
    BY <1>4, <1>6, <2>1, <2>2 DEF WritesSlot
  <2>. QED
    BY <1>3, <1>4, <2>3, OthersStayGood
<1>. QED
  BY <1>2, <1>3, <1>8, <1>9, GoodEnd DEF c

LEMMA LoadMeaning ==
  ASSUME NEW role, NEW mi \in Instrs(role), mi.op \in Reloads \cup Loads, NEW b \in State
  PROVE  /\ DefsOf(mi) \subseteq Parts(mi.reg) \cup Declared(mi) /\ mi.fi \in Slots /\ mi.reg \in Regs \cup Pairs
         /\ \A r \in Regs : r \in Declared(mi) /\ r \notin Parts(mi.reg) => Meaning(b, mi).reg[r] = Undef
         /\ \A r \in Regs : r \notin Declared(mi) /\ r \notin Parts(mi.reg) => Meaning(b, mi).reg[r] = b.reg[r]
         /\ mi.reg \in Regs /\ Meaning(b, mi).reg[mi.reg] # Undef =>
              Meaning(b, mi).reg[mi.reg] = b.slot[mi.fi].lo
         /\ mi.reg \in Pairs /\ Meaning(b, mi).reg[Lo[mi.reg]] # Undef =>
              Meaning(b, mi).reg[Lo[mi.reg]] = b.slot[mi.fi].lo
         /\ mi.reg \in Pairs /\ Meaning(b, mi).reg[Hi[mi.reg]] # Undef =>
              Meaning(b, mi).reg[Hi[mi.reg]] = b.slot[mi.fi].hi
         /\ Meaning(b, mi).slot = b.slot
<1>. DEFINE d == mi.reg
            w == b.slot[mi.fi]
            c == Meaning(b, mi)
<1>0. /\ b.reg \in [Regs -> Values] /\ mi.fi \in Slots /\ d \in Regs \cup Pairs /\ w \in Slot
      /\ \A g : [b EXCEPT !.reg = g] = [reg |-> g, slot |-> b.slot, addr |-> b.addr]
  <2>1. mi.fi \in Slots /\ d \in Regs \cup Pairs
    BY OperandFacts DEF Reloads
  <2>2. b.slot \in [Slots -> Slot]
    BY StateParts
  <2>3. w \in Slot
    BY <2>1, <2>2
  <2>. QED
    BY <2>1, <2>3, StateParts
<1>a. (d \in Pairs => Hi[d] \in Regs /\ Lo[d] \in Regs) /\ Lost(mi) \subseteq Parts(d)
  BY PartsFacts DEF Lost
<1>1. CASE mi.op \in Reloads
  <2>1. c = [b EXCEPT !.reg = Lose(Put(b.reg, d, w), Lost(mi))]
    BY <1>1, MeaningCases
  <2>2. c = [reg |-> Lose(Put(b.reg, d, w), Lost(mi)), slot |-> b.slot, addr |-> b.addr]
    BY <1>0, <2>1
  <2>3. c.reg = Lose(Put(b.reg, d, w), Lost(mi)) /\ c.slot = b.slot
    BY <2>2
  <2>4. mi.op \notin Stores \cup Loads \cup {"LEA_FI"}
    BY <1>1 DEF Reloads, Stores, Loads
  <2>5. Declared(mi) = Lost(mi) /\ DefsOf(mi) = Parts(d)
    BY <1>1, <2>4, DefsCases DEF Declared
  <2>. HIDE DEF d, w, c
  <2>6. /\ Put(b.reg, d, w) \in [Regs -> Values]
        /\ d \in Pairs => Put(b.reg, d, w)[Hi[d]] = w.hi /\ Put(b.reg, d, w)[Lo[d]] = w.lo
        /\ d \in Regs => Put(b.reg, d, w)[d] = w.lo
        /\ \A r \in Regs : r \notin Parts(d) => Put(b.reg, d, w)[r] = b.reg[r]
    BY <1>0, PutFacts
  <2>7. \A r \in Regs : c.reg[r] = IF r \in Lost(mi) THEN Undef ELSE Put(b.reg, d, w)[r]
    BY <2>3, <2>6, LoseFacts
  <2>. QED
    BY <1>0, <1>a, <2>3, <2>5, <2>6, <2>7 DEF d, w, c
<1>2. CASE mi.op \in Loads
  <2>1. c = [b EXCEPT !.reg = Put(Lose(b.reg, {"H", "L"}), d, w)]
    BY <1>2, MeaningCases
  <2>2. c = [reg |-> Put(Lose(b.reg, {"H", "L"}), d, w), slot |-> b.slot, addr |-> b.addr]
    BY <1>0, <2>1
  <2>3. c.reg = Put(Lose(b.reg, {"H", "L"}), d, w) /\ c.slot = b.slot
    BY <2>2
  <2>5. Declared(mi) = Lost(mi) \cup {"H", "L"} /\ DefsOf(mi) = Parts(d) \cup {"H", "L"}
    BY <1>2, DefsCases DEF Declared
  <2>. HIDE DEF d, w, c
  <2>. DEFINE g == Lose(b.reg, {"H", "L"})
  <2>6. g \in [Regs -> Values] /\ \A r \in Regs : g[r] = IF r \in {"H", "L"} THEN Undef ELSE b.reg[r]
    BY <1>0, LoseFacts
  <2>. HIDE DEF g
  <2>7. /\ d \in Pairs => Put(g, d, w)[Hi[d]] = w.hi /\ Put(g, d, w)[Lo[d]] = w.lo
        /\ d \in Regs => Put(g, d, w)[d] = w.lo
        /\ \A r \in Regs : r \notin Parts(d) => Put(g, d, w)[r] = g[r]
    BY <1>0, <2>6, PutFacts
  <2>8. c.reg = Put(g, d, w)
    BY <2>3 DEF g
  <2>. QED
    BY <1>0, <1>a, <2>3, <2>5, <2>6, <2>7, <2>8 DEF d, w, c
<1>. QED
  BY <1>1, <1>2

LEMMA LoadByteGood ==
  ASSUME NEW role, NEW k \in 0..(Len(mbb) - 1), Len(mbb) \in Nat, NEW mi \in Instrs(role), mi = mbb[k + 1],
         NEW b \in State, NEW x, Good(x, b, k), mi.op \in Reloads \cup Loads, mi.reg \in Regs, NEW s,
         LoadsByte(x, s, mi.reg, SlotAddr(mi.fi), DeadSet(k + 1) \cup Declared(mi), frame.reserved)
  PROVE  LeadsToGood(x, s, Meaning(b, mi), k + 1)
<1>. DEFINE c == Meaning(b, mi)
            f == mi.fi
            r == mi.reg
            n == SlotAddr(f)
            D == DeadSet(k + 1)
<1>1. PICK S : GetsByte(x, s, r, n, S, Saved) /\ Dying(S, D \cup Declared(mi), frame.reserved)
  BY DEF LoadsByte
<1>2. PICK y : Does(x, s, y, S \cup {r}, Saved) /\ y.reg[r] = x.mem[n]
  BY <1>1 DEF GetsByte
<1>3. x.sp = SP0 /\ RegsAgree(x, b, k) /\ SlotsAgree(x, b) /\ OnlySlots(x)
  BY GoodParts
<1>4. /\ DefsOf(mi) \subseteq Parts(r) \cup Declared(mi) /\ f \in Slots
      /\ \A q \in Regs : q \in Declared(mi) /\ q \notin Parts(r) => c.reg[q] = Undef
      /\ \A q \in Regs : q \notin Declared(mi) /\ q \notin Parts(r) => c.reg[q] = b.reg[q]
      /\ c.reg[r] # Undef => c.reg[r] = b.slot[f].lo
      /\ c.slot = b.slot
  BY LoadMeaning
<1>5. Parts(r) = {r}
  BY PartsFacts
<1>6. /\ \A q \in Regs : q \notin {r} /\ q \notin S => y.reg[q] = x.reg[q]
      /\ \A i \in Addr : i \notin Saved => y.mem[i] = x.mem[i]
  BY <1>2, DoesFacts, NamedRegs
<1>7. c.reg[r] # Undef => y.reg[r] = c.reg[r]
  BY <1>2, <1>3, <1>4 DEF SlotsAgree
<1>. HIDE DEF c, f, r, n, D
<1>8. RegsAgree(y, c, k + 1)
  <2>1. \A q \in Regs : q \in {r} /\ c.reg[q] # Undef => y.reg[q] = c.reg[q]
    BY <1>7
  <2>3. Transfers(mi, x, b, y, c, {r}, Declared(mi), S)
    BY <1>4, <1>5, <1>6, <2>1 DEF Transfers
  <2>. QED
    BY <1>1, <1>3, <2>3, RegsStayGood DEF D
<1>9. SlotsAgree(y, c) /\ OnlySlots(y)
  <2>1. Saved \subseteq FreeStack
    BY StackFacts
  <2>2. \A i \in Addr : i \notin Saved => y.mem[i] = x.mem[i]
    BY <1>6
  <2>3. c.slot = b.slot
    BY <1>4
  <2>. QED
    BY <1>3, <2>1, <2>2, <2>3, NoneWritten
<1>. QED
  BY <1>2, <1>3, <1>8, <1>9, GoodEnd DEF c

LEMMA LoadWordGood ==
  ASSUME NEW role, NEW k \in 0..(Len(mbb) - 1), Len(mbb) \in Nat, NEW mi \in Instrs(role), mi = mbb[k + 1],
         NEW b \in State, NEW x, Good(x, b, k), mi.op \in Reloads \cup Loads, mi.reg \in Pairs, NEW s,
         LoadsWord(x, s, mi.reg, SlotAddr(mi.fi), DeadSet(k + 1) \cup Declared(mi), frame.reserved)
  PROVE  LeadsToGood(x, s, Meaning(b, mi), k + 1)
<1>. DEFINE c == Meaning(b, mi)
            f == mi.fi
            p == mi.reg
            n == SlotAddr(f)
            D == DeadSet(k + 1)
            got == {Hi[p], Lo[p]}
<1>1. PICK S : GetsWord(x, s, p, n, S, Saved) /\ Dying(S, D \cup Declared(mi), frame.reserved)
  BY DEF LoadsWord
<1>2. PICK y : Does(x, s, y, S \cup {Hi[p], Lo[p]}, Saved) /\ y.reg[Lo[p]] = x.mem[n] /\ y.reg[Hi[p]] = x.mem[n + 1]
  BY <1>1 DEF GetsWord
<1>3. x.sp = SP0 /\ RegsAgree(x, b, k) /\ SlotsAgree(x, b) /\ OnlySlots(x)
  BY GoodParts
<1>4. /\ DefsOf(mi) \subseteq Parts(p) \cup Declared(mi) /\ f \in Slots
      /\ \A q \in Regs : q \in Declared(mi) /\ q \notin Parts(p) => c.reg[q] = Undef
      /\ \A q \in Regs : q \notin Declared(mi) /\ q \notin Parts(p) => c.reg[q] = b.reg[q]
      /\ c.reg[Lo[p]] # Undef => c.reg[Lo[p]] = b.slot[f].lo
      /\ c.reg[Hi[p]] # Undef => c.reg[Hi[p]] = b.slot[f].hi
      /\ c.slot = b.slot
  BY LoadMeaning
<1>5. Parts(p) = got
  BY PartsFacts
<1>6. /\ \A q \in Regs : q \notin got /\ q \notin S => y.reg[q] = x.reg[q]
      /\ \A i \in Addr : i \notin Saved => y.mem[i] = x.mem[i]
  BY <1>2, DoesFacts, NamedRegs
<1>7. /\ c.reg[Lo[p]] # Undef => y.reg[Lo[p]] = c.reg[Lo[p]]
      /\ c.reg[Hi[p]] # Undef => y.reg[Hi[p]] = c.reg[Hi[p]]
  BY <1>2, <1>3, <1>4 DEF SlotsAgree
<1>. HIDE DEF c, f, n, D
<1>8. RegsAgree(y, c, k + 1)
  <2>1. \A q \in Regs : q \in got /\ c.reg[q] # Undef => y.reg[q] = c.reg[q]
    BY <1>7
  <2>. HIDE DEF got
  <2>3. Transfers(mi, x, b, y, c, got, Declared(mi), S)
    BY <1>4, <1>5, <1>6, <2>1 DEF Transfers
  <2>. QED
    BY <1>1, <1>3, <2>3, RegsStayGood DEF D
<1>9. SlotsAgree(y, c) /\ OnlySlots(y)
  <2>1. Saved \subseteq FreeStack
    BY StackFacts
  <2>2. \A i \in Addr : i \notin Saved => y.mem[i] = x.mem[i]
    BY <1>6
  <2>3. c.slot = b.slot
    BY <1>4
  <2>. QED
    BY <1>3, <2>1, <2>2, <2>3, NoneWritten
<1>. QED
  BY <1>2, <1>3, <1>8, <1>9, GoodEnd DEF c

LEMMA MoreMayDie ==
  ASSUME NEW x, NEW s, NEW r, NEW n, NEW D, NEW E, NEW res, D \subseteq E
  PROVE  /\ \A S : Dying(S, D, res) => Dying(S, E, res)
         /\ StoresByte(x, s, r, n, D, res) => StoresByte(x, s, r, n, E, res)
         /\ LoadsByte(x, s, r, n, D, res) => LoadsByte(x, s, r, n, E, res)
         /\ StoresWord(x, s, r, n, D, res) => StoresWord(x, s, r, n, E, res)
         /\ LoadsWord(x, s, r, n, D, res) => LoadsWord(x, s, r, n, E, res)
<1>1. \A S : Dying(S, D, res) => Dying(S, E, res)
  BY DEF Dying
<1>2. StoresByte(x, s, r, n, D, res) => StoresByte(x, s, r, n, E, res)
  BY <1>1 DEF StoresByte
<1>3. LoadsByte(x, s, r, n, D, res) => LoadsByte(x, s, r, n, E, res)
  BY <1>1 DEF LoadsByte
<1>4. StoresWord(x, s, r, n, D, res) => StoresWord(x, s, r, n, E, res)
  BY <1>1 DEF StoresWord
<1>5. LoadsWord(x, s, r, n, D, res) => LoadsWord(x, s, r, n, E, res)
  BY <1>1 DEF LoadsWord
<1>. QED
  BY <1>1, <1>2, <1>3, <1>4, <1>5

(* The operands of the instructions that move a byte or a word to or from a slot. *)
LEMMA AccessOperands ==
  ASSUME NEW role, NEW mi \in Instrs(role)
  PROVE  /\ mi.op \in {"SPILL8", "RELOAD8", "LOAD8_FI"} => mi.reg \in Regs
         /\ mi.op = "STORE8_FI" => mi.reg \in Regs \ {"H", "L"}
         /\ mi.op \in {"SPILL16", "RELOAD16", "LOAD16_FI", "LEA_FI"} => mi.reg \in Pairs
         /\ mi.op = "STORE16_FI" => mi.reg \in {"BC", "DE"}
         /\ mi.op = "DEF" => mi.reg \in Regs \cup Pairs /\ mi.fi \in Byte /\ ~mi.kill
         /\ mi.op = "CALL" => ~mi.kill
<1>. USE DEF Instrs, Operands
<1>1. mi.op \in {"SPILL8", "RELOAD8", "LOAD8_FI"} => mi.reg \in Regs
  OBVIOUS
<1>2. mi.op = "STORE8_FI" => mi.reg \in Regs \ {"H", "L"}
  OBVIOUS
<1>3. mi.op \in {"SPILL16", "RELOAD16", "LOAD16_FI", "LEA_FI"} => mi.reg \in Pairs
  OBVIOUS
<1>4. mi.op = "STORE16_FI" => mi.reg \in {"BC", "DE"}
  OBVIOUS
<1>5. mi.op = "DEF" => mi.reg \in Regs \cup Pairs /\ mi.fi \in Byte /\ ~mi.kill
  OBVIOUS
<1>6. mi.op = "CALL" => ~mi.kill
  OBVIOUS
<1>. QED
  BY <1>1, <1>2, <1>3, <1>4, <1>5, <1>6

LEMMA DeclaredParts ==
  ASSUME NEW mi
  PROVE  /\ mi.op \in Stores \cup Loads \cup {"LEA_FI"} => "H" \in Declared(mi) /\ "L" \in Declared(mi)
         /\ Gone(mi.reg, mi.kill) \subseteq Declared(mi)
BY DEF Declared, Gone, Lost

LEMMA HLDies ==
  ASSUME NEW mi, mi.op \in Stores \cup Loads \cup {"LEA_FI"}, NEW D, NEW res, Reservable(res)
  PROVE  Dying({"H", "L", "F"}, D \cup Declared(mi), res)
<1>1. "H" \in Declared(mi) /\ "L" \in Declared(mi)
  BY DeclaredParts
<1>. QED
  BY <1>1 DEF Dying, Reservable, Regs

LEMMA StaticByte ==
  ASSUME NEW role, NEW mi \in Instrs(role), NEW x, Ready(x), x.sp = SP0, NEW D, NEW res, Reservable(res),
         NEW n \in Addr \ FreeStack
  PROVE  /\ mi.op \in {"SPILL8", "STORE8_FI"} =>
              StoresByte(x, StaticCode(D, res, mi, n), mi.reg, n, D \cup Declared(mi), res)
         /\ mi.op \in {"RELOAD8", "LOAD8_FI"} =>
              LoadsByte(x, StaticCode(D, res, mi, n), mi.reg, n, D \cup Declared(mi), res)
<1>. DEFINE E == D \cup Declared(mi)
            r == mi.reg
            s == StaticCode(D, res, mi, n)
<1>1. n \in Addr /\ D \subseteq E
  OBVIOUS
<1>2. mi.op \in {"SPILL8", "STORE8_FI"} /\ r = "A" => StoresByte(x, s, r, n, E, res)
  <2>1. Dying({}, E, res) /\ PutsByte(x, <<Sta(n)>>, "A", n, {}, {})
    BY <1>1, DyingFacts, StoredFromA
  <2>2. StoresByte(x, <<Sta(n)>>, "A", n, E, res)
    BY <2>1, StoresByteStraight
  <2>3. mi.op \in {"SPILL8", "STORE8_FI"} /\ r = "A" => s = <<Sta(n)>>
    BY DEF StaticCode
  <2>. QED
    BY <2>2, <2>3
<1>3. mi.op \in {"RELOAD8", "LOAD8_FI"} /\ r = "A" => LoadsByte(x, s, r, n, E, res)
  <2>1. Dying({}, E, res) /\ GetsByte(x, <<Lda(n)>>, "A", n, {}, {})
    BY <1>1, DyingFacts, LoadedToA
  <2>2. LoadsByte(x, <<Lda(n)>>, "A", n, E, res)
    BY <2>1, LoadsByteStraight
  <2>3. mi.op \in {"RELOAD8", "LOAD8_FI"} /\ r = "A" => s = <<Lda(n)>>
    BY DEF StaticCode
  <2>. QED
    BY <2>2, <2>3
<1>4. mi.op = "SPILL8" /\ r # "A" => StoresByte(x, s, r, n, E, res)
  <2>1. SUFFICES ASSUME mi.op = "SPILL8", r # "A" PROVE StoresByte(x, s, r, n, E, res)
    OBVIOUS
  <2>2. r \in Regs \ {"A"} /\ s = StaticSpill8(D, res, r, n)
    BY <2>1, AccessOperands DEF StaticCode
  <2>3. StoresByte(x, s, r, n, D, res)
    BY <2>2, StaticSpill8Stores
  <2>. HIDE DEF E, s
  <2>. QED
    BY <1>1, <2>3, MoreMayDie
<1>5. mi.op = "RELOAD8" /\ r # "A" => LoadsByte(x, s, r, n, E, res)
  <2>1. SUFFICES ASSUME mi.op = "RELOAD8", r # "A" PROVE LoadsByte(x, s, r, n, E, res)
    OBVIOUS
  <2>2. r \in Regs \ {"A"} /\ s = StaticReload8(D, res, r, n)
    BY <2>1, AccessOperands DEF StaticCode
  <2>3. LoadsByte(x, s, r, n, D, res)
    BY <2>2, StaticReload8Loads
  <2>. HIDE DEF E, s
  <2>. QED
    BY <1>1, <2>3, MoreMayDie
<1>6. mi.op = "STORE8_FI" /\ r # "A" => StoresByte(x, s, r, n, E, res)
  <2>1. SUFFICES ASSUME mi.op = "STORE8_FI", r # "A" PROVE StoresByte(x, s, r, n, E, res)
    OBVIOUS
  <2>2. r \in Regs \ {"H", "L"} /\ s = <<Lxi("HL", n), MovToM(r)>> /\ mi.op \in Stores
    BY <2>1, AccessOperands DEF StaticCode, Stores
  <2>3. Dying({"H", "L", "F"}, E, res)
    BY <2>2, HLDies
  <2>4. PutsByte(x, s, r, n, {"H", "L", "F"}, {})
    BY <1>1, <2>2, StoredThroughM
  <2>. QED
    BY <2>3, <2>4, StoresByteStraight
<1>7. mi.op = "LOAD8_FI" /\ r # "A" => LoadsByte(x, s, r, n, E, res)
  <2>1. SUFFICES ASSUME mi.op = "LOAD8_FI", r # "A" PROVE LoadsByte(x, s, r, n, E, res)
    OBVIOUS
  <2>2. r \in Regs /\ s = <<Lxi("HL", n), MovFromM(r)>> /\ mi.op \in Loads
    BY <2>1, AccessOperands DEF StaticCode, Loads
  <2>3. Dying({"H", "L", "F"}, E, res)
    BY <2>2, HLDies
  <2>4. GetsByte(x, s, r, n, {"H", "L", "F"}, {})
    BY <2>2, LoadedThroughM
  <2>. QED
    BY <2>3, <2>4, LoadsByteStraight
<1>. QED
  BY <1>2, <1>3, <1>4, <1>5, <1>6, <1>7

LEMMA StaticWord ==
  ASSUME NEW role, NEW mi \in Instrs(role), NEW x, Ready(x), x.sp = SP0, NEW D, NEW res, Reservable(res),
         NEW n \in Addr \ FreeStack, n + 1 \in Addr \ FreeStack
  PROVE  /\ mi.op \in {"SPILL16", "STORE16_FI"} =>
              StoresWord(x, StaticCode(D, res, mi, n), mi.reg, n, D \cup Declared(mi), res)
         /\ mi.op \in {"RELOAD16", "LOAD16_FI"} =>
              LoadsWord(x, StaticCode(D, res, mi, n), mi.reg, n, D \cup Declared(mi), res)
<1>. DEFINE E == D \cup Declared(mi)
            p == mi.reg
            s == StaticCode(D, res, mi, n)
<1>1. n \in Addr /\ n + 1 \in Addr /\ D \subseteq E /\ Points(x, <<Lxi("HL", n)>>, n)
  BY PointsLxi
<1>4. mi.op = "SPILL16" => StoresWord(x, s, p, n, E, res)
  <2>1. SUFFICES ASSUME mi.op = "SPILL16" PROVE StoresWord(x, s, p, n, E, res)
    OBVIOUS
  <2>2. p \in Pairs /\ s = StaticSpill16(D, p, mi.kill, n)
    BY <2>1, AccessOperands DEF StaticCode
  <2>3. StoresWord(x, s, p, n, D \cup Gone(p, mi.kill), res)
    BY <2>2, StaticSpill16Stores
  <2>4. D \cup Gone(p, mi.kill) \subseteq E
    BY DeclaredParts
  <2>. HIDE DEF E, s
  <2>. QED
    BY <2>3, <2>4, MoreMayDie
<1>5. mi.op = "RELOAD16" => LoadsWord(x, s, p, n, E, res)
  <2>1. SUFFICES ASSUME mi.op = "RELOAD16" PROVE LoadsWord(x, s, p, n, E, res)
    OBVIOUS
  <2>2. p \in Pairs /\ s = StaticReload16(D, p, n)
    BY <2>1, AccessOperands DEF StaticCode
  <2>3. LoadsWord(x, s, p, n, D, res)
    BY <2>2, StaticReload16Loads
  <2>. HIDE DEF E, s
  <2>. QED
    BY <1>1, <2>3, MoreMayDie
<1>6. mi.op = "STORE16_FI" => StoresWord(x, s, p, n, E, res)
  <2>1. SUFFICES ASSUME mi.op = "STORE16_FI" PROVE StoresWord(x, s, p, n, E, res)
    OBVIOUS
  <2>2. p \in {"BC", "DE"} /\ s = <<Lxi("HL", n)>> \o StoreBytes(p) /\ mi.op \in Stores
    BY <2>1, AccessOperands DEF StaticCode, Stores
  <2>3. Dying({"H", "L", "F"}, E, res)
    BY <2>2, HLDies
  <2>4. PutsWord(x, s, p, n, {"H", "L", "F"}, {})
    BY <1>1, <2>2, WordStored
  <2>. QED
    BY <2>3, <2>4, StoresWordStraight
<1>7. mi.op = "LOAD16_FI" => LoadsWord(x, s, p, n, E, res)
  <2>1. SUFFICES ASSUME mi.op = "LOAD16_FI" PROVE LoadsWord(x, s, p, n, E, res)
    OBVIOUS
  <2>2. CASE p = "HL"
    <3>1. s = <<Lhld(n)>>
      BY <2>1, <2>2 DEF StaticCode
    <3>2. GetsWord(x, s, "HL", n, {}, {}) /\ Dying({}, E, res)
      BY <3>1, LhldWord, DyingFacts
    <3>. QED
      BY <2>2, <3>2, LoadsWordStraight
  <2>3. CASE p # "HL"
    <3>2. p \in {"BC", "DE"} /\ s = <<Lxi("HL", n)>> \o LoadBytes(p) /\ mi.op \in Loads
      BY <2>1, <2>3, AccessOperands, PairFacts DEF StaticCode, Loads
    <3>3. Dying({"H", "L", "F"}, E, res)
      BY <3>2, HLDies
    <3>4. GetsWord(x, s, p, n, {"H", "L", "F"}, {})
      BY <1>1, <3>2, WordLoaded
    <3>. QED
      BY <3>3, <3>4, LoadsWordStraight
  <2>. QED
    BY <2>2, <2>3
<1>. QED
  BY <1>4, <1>5, <1>6, <1>7

LEMMA DynamicByte ==
  ASSUME NEW role, NEW mi \in Instrs(role), NEW x, Ready(x), x.sp = SP0, NEW D, NEW res, Reservable(res),
         NEW off \in Addr, off + SP0 \in Addr \ FreeStack
  PROVE  /\ mi.op \in {"SPILL8", "STORE8_FI"} =>
              StoresByte(x, DynamicCode(D, mi, off), mi.reg, off + SP0, D \cup Declared(mi), res)
         /\ mi.op \in {"RELOAD8", "LOAD8_FI"} =>
              LoadsByte(x, DynamicCode(D, mi, off), mi.reg, off + SP0, D \cup Declared(mi), res)
<1>. DEFINE E == D \cup Declared(mi)
            r == mi.reg
            s == DynamicCode(D, mi, off)
            n == off + SP0
<1>1. n \in Addr \ FreeStack /\ D \subseteq E /\ Points(x, AtSlot(off), n)
  BY SlotPoints
<1>4. mi.op = "SPILL8" => StoresByte(x, s, r, n, E, res)
  <2>1. SUFFICES ASSUME mi.op = "SPILL8" PROVE StoresByte(x, s, r, n, E, res)
    OBVIOUS
  <2>2. r \in Regs /\ s = DynamicSpill8(D, r, off)
    BY <2>1, AccessOperands DEF DynamicCode
  <2>3. StoresByte(x, s, r, n, D, res)
    BY <2>2, DynamicSpill8Stores
  <2>. HIDE DEF E, s, n
  <2>. QED
    BY <1>1, <2>3, MoreMayDie
<1>5. mi.op = "RELOAD8" => LoadsByte(x, s, r, n, E, res)
  <2>1. SUFFICES ASSUME mi.op = "RELOAD8" PROVE LoadsByte(x, s, r, n, E, res)
    OBVIOUS
  <2>2. r \in Regs /\ s = DynamicReload8(D, r, off)
    BY <2>1, AccessOperands DEF DynamicCode
  <2>3. LoadsByte(x, s, r, n, D, res)
    BY <2>2, DynamicReload8Loads
  <2>. HIDE DEF E, s, n
  <2>. QED
    BY <1>1, <2>3, MoreMayDie
<1>. HIDE DEF n
<1>6. mi.op = "STORE8_FI" => StoresByte(x, s, r, n, E, res)
  <2>1. SUFFICES ASSUME mi.op = "STORE8_FI" PROVE StoresByte(x, s, r, n, E, res)
    OBVIOUS
  <2>2. r \in Regs \ {"H", "L"} /\ s = AtSlot(off) \o <<MovToM(r)>> /\ mi.op \in Stores
    BY <2>1, AccessOperands DEF DynamicCode, Stores
  <2>3. Dying({"H", "L", "F"}, E, res)
    BY <2>2, HLDies
  <2>4. PutsByte(x, s, r, n, {"H", "L", "F"}, {})
    BY <1>1, <2>2, ByteStored
  <2>. QED
    BY <2>3, <2>4, StoresByteStraight
<1>7. mi.op = "LOAD8_FI" => LoadsByte(x, s, r, n, E, res)
  <2>1. SUFFICES ASSUME mi.op = "LOAD8_FI" PROVE LoadsByte(x, s, r, n, E, res)
    OBVIOUS
  <2>2. r \in Regs /\ s = AtSlot(off) \o <<MovFromM(r)>> /\ mi.op \in Loads
    BY <2>1, AccessOperands DEF DynamicCode, Loads
  <2>3. Dying({"H", "L", "F"}, E, res)
    BY <2>2, HLDies
  <2>4. GetsByte(x, s, r, n, {"H", "L", "F"}, {})
    BY <1>1, <2>2, ByteLoaded
  <2>. QED
    BY <2>3, <2>4, LoadsByteStraight
<1>. QED
  BY <1>4, <1>5, <1>6, <1>7 DEF n

(* HL itself is loaded through A.                                           *)
LEMMA LoadedThroughAHalf ==
  ASSUME NEW x, Ready(x), NEW s, NEW n \in Addr \ FreeStack, n + 1 \in Addr \ FreeStack, Points(x, s, n)
  PROVE  GetsWord(x, s \o <<MovFromM("A"), Inx("HL"), MovFromM("H"), Mov("L", "A")>>, "HL", n, {"A", "F"}, {})
<1>0. {"A", "H", "L"} \subseteq Regs /\ "HL" \in Pairs /\ Hi["HL"] = "H" /\ Lo["HL"] = "L"
  BY PairFacts DEF Regs
<1>1. PICK y : Does(x, s, y, {"H", "L", "F"}, {}) /\ Pair(y, "HL") = n
  BY DEF Points
<1>. DEFINE z == Exec(y, MovFromM("A"))
            u == Exec(z, Inx("HL"))
            v == Exec(u, MovFromM("H"))
            w == Exec(v, Mov("L", "A"))
<1>2. /\ Ready(y) /\ \A i \in Addr : i \notin {} => y.mem[i] = x.mem[i]
  BY <1>1, DoesFacts
<1>3. Does(y, <<MovFromM("A")>>, z, {"A"}, {}) /\ z.reg["A"] = y.mem[n]
  BY <1>0, <1>1, <1>2, DoMovFromM
<1>. HIDE DEF z
<1>4. Ready(z) /\ Pair(z, "HL") = n /\ \A i \in Addr : i \notin {} => z.mem[i] = y.mem[i]
  <2>1. z.reg["H"] = y.reg["H"] /\ z.reg["L"] = y.reg["L"]
    BY <1>0, <1>3, DoesFacts, NamedRegs
  <2>2. Ready(z) /\ \A i \in Addr : i \notin {} => z.mem[i] = y.mem[i]
    BY <1>2, <1>3, DoesFacts
  <2>. QED
    BY <1>0, <1>1, <2>1, <2>2 DEF Pair
<1>5. Does(z, <<Inx("HL")>>, u, {"H", "L"}, {}) /\ Pair(u, "HL") = n + 1
  BY <1>4, DoInx
<1>. HIDE DEF u
<1>6. Ready(u) /\ u.reg["A"] = z.reg["A"] /\ \A i \in Addr : i \notin {} => u.mem[i] = z.mem[i]
  BY <1>4, <1>5, DoesFacts, NamedRegs
<1>7. Does(u, <<MovFromM("H")>>, v, {"H"}, {}) /\ v.reg["H"] = u.mem[n + 1]
  BY <1>0, <1>5, <1>6, DoMovFromM
<1>. HIDE DEF v
<1>8. Ready(v) /\ v.reg["A"] = u.reg["A"]
  BY <1>6, <1>7, DoesFacts, NamedRegs
<1>9. Does(v, <<Mov("L", "A")>>, w, {"L"}, {}) /\ w.reg["L"] = v.reg["A"]
  BY <1>0, <1>8, DoMov
<1>. HIDE DEF w
<1>10. w.reg["H"] = v.reg["H"]
  BY <1>9, DoesFacts, NamedRegs
<1>11. w.reg["L"] = x.mem[n] /\ w.reg["H"] = x.mem[n + 1]
  BY <1>2, <1>3, <1>4, <1>6, <1>7, <1>8, <1>9, <1>10
<1>12. Does(u, <<MovFromM("H"), Mov("L", "A")>>, w, {"H"} \cup {"L"}, {} \cup {})
  BY <1>7, <1>9, DoesTwo
<1>13. Does(z, <<Inx("HL"), MovFromM("H"), Mov("L", "A")>>, w, {"H", "L"} \cup ({"H"} \cup {"L"}), {} \cup ({} \cup {}))
  BY <1>5, <1>12, DoesThree
<1>14. Does(y, <<MovFromM("A"), Inx("HL"), MovFromM("H"), Mov("L", "A")>>, w,
            {"A"} \cup ({"H", "L"} \cup ({"H"} \cup {"L"})), {} \cup ({} \cup ({} \cup {})))
  BY <1>3, <1>13, DoesFour
<1>. DEFINE t == <<MovFromM("A"), Inx("HL"), MovFromM("H"), Mov("L", "A")>>
            S == {"A"} \cup ({"H", "L"} \cup ({"H"} \cup {"L"}))
            X == {} \cup ({} \cup ({} \cup {}))
<1>. HIDE DEF t, S, X
<1>15. Does(y, t, w, S, X)
  BY <1>14 DEF t, S, X
<1>16. Does(x, s \o t, w, {"H", "L", "F"} \cup S, {} \cup X)
  BY <1>1, <1>15, DoesJoin
<1>17. {"H", "L", "F"} \cup S \subseteq {"A", "F"} \cup {Hi["HL"], Lo["HL"]} /\ {} \cup X \subseteq {}
  BY <1>0 DEF S, X
<1>18. Does(x, s \o t, w, {"A", "F"} \cup {Hi["HL"], Lo["HL"]}, {})
  BY <1>16, <1>17, DoesMore
<1>. QED
  BY <1>0, <1>11, <1>18 DEF GetsWord, t

LEMMA DynamicWord ==
  ASSUME NEW role, NEW mi \in Instrs(role), NEW x, Ready(x), x.sp = SP0, NEW D, NEW res, Reservable(res),
         mi.op = "LOAD16_FI" /\ mi.reg = "HL" => "A" \in D,
         NEW off \in Addr, off + SP0 \in Addr \ FreeStack, off + SP0 + 1 \in Addr \ FreeStack
  PROVE  /\ mi.op \in {"SPILL16", "STORE16_FI"} =>
              StoresWord(x, DynamicCode(D, mi, off), mi.reg, off + SP0, D \cup Declared(mi), res)
         /\ mi.op \in {"RELOAD16", "LOAD16_FI"} =>
              LoadsWord(x, DynamicCode(D, mi, off), mi.reg, off + SP0, D \cup Declared(mi), res)
<1>. DEFINE E == D \cup Declared(mi)
            p == mi.reg
            s == DynamicCode(D, mi, off)
            n == off + SP0
<1>1. /\ n \in Addr /\ n + 1 \in Addr /\ n \in Addr \ FreeStack /\ n + 1 \in Addr \ FreeStack
      /\ D \subseteq E /\ Points(x, AtSlot(off), n)
  BY SlotPoints
<1>4. mi.op = "SPILL16" => StoresWord(x, s, p, n, E, res)
  <2>1. SUFFICES ASSUME mi.op = "SPILL16" PROVE StoresWord(x, s, p, n, E, res)
    OBVIOUS
  <2>2. p \in Pairs /\ s = DynamicSpill16(D, p, mi.kill, off)
    BY <2>1, AccessOperands DEF DynamicCode
  <2>3. StoresWord(x, s, p, n, D \cup Gone(p, mi.kill), res)
    BY <2>2, DynamicSpill16Stores
  <2>4. D \cup Gone(p, mi.kill) \subseteq E
    BY DeclaredParts
  <2>. HIDE DEF E, s, n
  <2>. QED
    BY <2>3, <2>4, MoreMayDie
<1>5. mi.op = "RELOAD16" => LoadsWord(x, s, p, n, E, res)
  <2>1. SUFFICES ASSUME mi.op = "RELOAD16" PROVE LoadsWord(x, s, p, n, E, res)
    OBVIOUS
  <2>2. p \in Pairs /\ s = DynamicReload16(D, p, off)
    BY <2>1, AccessOperands DEF DynamicCode
  <2>3. LoadsWord(x, s, p, n, D, res)
    BY <2>2, DynamicReload16Loads
  <2>. HIDE DEF E, s, n
  <2>. QED
    BY <1>1, <2>3, MoreMayDie
<1>. HIDE DEF n
<1>6. mi.op = "STORE16_FI" => StoresWord(x, s, p, n, E, res)
  <2>1. SUFFICES ASSUME mi.op = "STORE16_FI" PROVE StoresWord(x, s, p, n, E, res)
    OBVIOUS
  <2>2. p \in {"BC", "DE"} /\ s = AtSlot(off) \o StoreBytes(p) /\ mi.op \in Stores
    BY <2>1, AccessOperands DEF DynamicCode, Stores
  <2>3. Dying({"H", "L", "F"}, E, res)
    BY <2>2, HLDies
  <2>4. PutsWord(x, s, p, n, {"H", "L", "F"}, {})
    BY <1>1, <2>2, WordStored
  <2>. QED
    BY <2>3, <2>4, StoresWordStraight
<1>7. mi.op = "LOAD16_FI" => LoadsWord(x, s, p, n, E, res)
  <2>1. SUFFICES ASSUME mi.op = "LOAD16_FI" PROVE LoadsWord(x, s, p, n, E, res)
    OBVIOUS
  <2>2. CASE p = "HL"
    <3>1. s = AtSlot(off) \o <<MovFromM("A"), Inx("HL"), MovFromM("H"), Mov("L", "A")>>
      BY <2>1, <2>2 DEF DynamicCode
    <3>2. GetsWord(x, s, "HL", n, {"A", "F"}, {})
      BY <1>1, <3>1, LoadedThroughAHalf
    <3>3. "A" \in E
      BY <2>1, <2>2
    <3>4. Dying({"A", "F"}, E, res)
      BY <3>3 DEF Dying, Reservable, Regs
    <3>. QED
      BY <2>2, <3>2, <3>4, LoadsWordStraight
  <2>3. CASE p # "HL"
    <3>2. p \in {"BC", "DE"} /\ s = AtSlot(off) \o LoadBytes(p) /\ mi.op \in Loads
      BY <2>1, <2>3, AccessOperands, PairFacts DEF DynamicCode, Loads
    <3>3. Dying({"H", "L", "F"}, E, res)
      BY <3>2, HLDies
    <3>4. GetsWord(x, s, p, n, {"H", "L", "F"}, {})
      BY <1>1, <3>2, WordLoaded
    <3>. QED
      BY <3>3, <3>4, LoadsWordStraight
  <2>. QED
    BY <2>2, <2>3
<1>. QED
  BY <1>4, <1>5, <1>6, <1>7 DEF n

-----------------------------------------------------------------------------
(* A load of HL off the stack runs through A, which must be dead then.      *)
SpareAt(k) ==
  mbb[k].op = "LOAD16_FI" /\ mbb[k].reg = "HL" /\ mbb[k].fi \notin frame.static => "A" \in DeadSet(k)

LEMMA OffsetFacts ==
  ASSUME NEW f \in Slots
  PROVE  /\ f \in frame.static => SlotAddr(f) = GVBase + Offset(f)
         /\ f \notin frame.static => SlotAddr(f) = Offset(f) + SP0 /\ Offset(f) \in Addr
<1>1. f \in Nat \ {0} /\ SP0 \in Nat /\ SP0 + Offset(f) + 1 \in Addr
  BY SlotsAssumption
<1>2. Offset(f) \in Nat
  BY <1>1 DEF Offset
<1>3. Offset(f) \in Addr
  <2>. DEFINE n == Offset(f)
              N == ByteSize * ByteSize
  <2>1. SP0 + n + 1 \in 0..(N - 1) /\ N \in Nat
    BY <1>1, ByteFacts DEF Addr
  <2>2. n \in Nat
    BY <1>2
  <2>. HIDE DEF n, N
  <2>3. n \in 0..(N - 1)
    BY <1>1, <2>1, <2>2
  <2>. QED
    BY <2>3 DEF n, N, Addr
<1>4. f \notin frame.static => SlotAddr(f) = Offset(f) + SP0
  BY <1>1, <1>2 DEF SlotAddr
<1>5. f \in frame.static => SlotAddr(f) = GVBase + Offset(f)
  BY DEF SlotAddr
<1>. QED
  BY <1>3, <1>4, <1>5

LEMMA CodeCases ==
  ASSUME NEW k
  PROVE  /\ mbb[k].op = "MOV" => CodeFor(k) = <<Mov(mbb[k].reg, mbb[k].src)>>
         /\ mbb[k].op = "DEF" /\ mbb[k].reg \in Pairs => CodeFor(k) = <<Lxi(mbb[k].reg, mbb[k].fi * (ByteSize + 1))>>
         /\ mbb[k].op = "DEF" /\ mbb[k].reg \notin Pairs => CodeFor(k) = <<Mvi(mbb[k].reg, mbb[k].fi)>>
         /\ mbb[k].op = "USE" => CodeFor(k) = <<>>
         /\ mbb[k].op = "CALL" => CodeFor(k) = <<Mvi("A", Junk), Lxi("BC", Junk), Lxi("DE", Junk), Lxi("HL", Junk)>>
         /\ mbb[k].op \notin {"MOV", "DEF", "USE", "CALL"} =>
              CodeFor(k) = IF mbb[k].fi \in frame.static
                           THEN StaticCode(DeadSet(k), frame.reserved, mbb[k], GVBase + Offset(mbb[k].fi))
                           ELSE DynamicCode(DeadSet(k), mbb[k], Offset(mbb[k].fi))
BY DEF CodeFor

Bytewise == {"SPILL8", "STORE8_FI", "RELOAD8", "LOAD8_FI"}
Wordwise == {"SPILL16", "STORE16_FI", "RELOAD16", "LOAD16_FI"}

LEMMA AccessGood ==
  ASSUME NEW role, NEW k \in 0..(Len(mbb) - 1), Len(mbb) \in Nat, mbb[k + 1] \in Instrs(role),
         mbb[k + 1].op \in Bytewise \cup Wordwise, Reservable(frame.reserved), SpareAt(k + 1),
         NEW b \in State, NEW x, Good(x, b, k)
  PROVE  LeadsToGood(x, CodeFor(k + 1), Meaning(b, mbb[k + 1]), k + 1)
<1>. DEFINE mi == mbb[k + 1]
            D == DeadSet(k + 1)
            res == frame.reserved
            f == mi.fi
            n == SlotAddr(f)
            s == CodeFor(k + 1)
<1>1. Ready(x) /\ x.sp = SP0 /\ mi \in Instrs(role)
  BY GoodParts
<1>2. f \in Slots /\ mi.op \notin {"MOV", "DEF", "USE", "CALL"}
  <2>1. mi.op \in Spills \cup Reloads \cup Stores \cup Loads
    BY DEF Bytewise, Wordwise, Spills, Reloads, Stores, Loads
  <2>2. mi.op \notin {"MOV", "DEF", "USE", "CALL"}
    BY DEF Bytewise, Wordwise
  <2>. QED
    BY <1>1, <2>1, <2>2, OperandFacts
<1>3. n \in Addr \ FreeStack /\ n + 1 \in Addr \ FreeStack
  BY <1>2, SlotsApart
<1>4. f \in frame.static => s = StaticCode(D, res, mi, n)
  BY <1>2, CodeCases, OffsetFacts
<1>5. f \notin frame.static => s = DynamicCode(D, mi, Offset(f)) /\ n = Offset(f) + SP0 /\ Offset(f) \in Addr
  BY <1>2, CodeCases, OffsetFacts
<1>6. f \notin frame.static /\ mi.op = "LOAD16_FI" /\ mi.reg = "HL" => "A" \in D
  BY DEF SpareAt
<1>. HIDE DEF n, s, D
<1>7. /\ mi.op \in {"SPILL8", "STORE8_FI"} => StoresByte(x, s, mi.reg, n, D \cup Declared(mi), res)
      /\ mi.op \in {"RELOAD8", "LOAD8_FI"} => LoadsByte(x, s, mi.reg, n, D \cup Declared(mi), res)
  <2>. HIDE DEF mi, f, res
  <2>1. CASE f \in frame.static
    <3>1. Reservable(res) /\ s = StaticCode(D, res, mi, n) /\ n \in Addr \ FreeStack
      BY <1>3, <1>4, <2>1 DEF res
    <3>2. mi.op \in {"SPILL8", "STORE8_FI"} => StoresByte(x, s, mi.reg, n, D \cup Declared(mi), res)
      BY <1>1, <3>1, StaticByte
    <3>3. mi.op \in {"RELOAD8", "LOAD8_FI"} => LoadsByte(x, s, mi.reg, n, D \cup Declared(mi), res)
      BY <1>1, <3>1, StaticByte
    <3>. QED
      BY <3>2, <3>3
  <2>2. CASE f \notin frame.static
    <3>. DEFINE off == Offset(f)
    <3>1. off \in Addr /\ off + SP0 \in Addr \ FreeStack /\ s = DynamicCode(D, mi, off) /\ n = off + SP0
      BY <1>3, <1>5, <2>2
    <3>. HIDE DEF off
    <3>. QED
      BY <1>1, <3>1, DynamicByte DEF res
  <2>. QED
    BY <2>1, <2>2
<1>8. /\ mi.op \in {"SPILL16", "STORE16_FI"} => StoresWord(x, s, mi.reg, n, D \cup Declared(mi), res)
      /\ mi.op \in {"RELOAD16", "LOAD16_FI"} => LoadsWord(x, s, mi.reg, n, D \cup Declared(mi), res)
  <2>. HIDE DEF mi, f, res
  <2>1. CASE f \in frame.static
    <3>1. /\ Reservable(res) /\ s = StaticCode(D, res, mi, n)
          /\ n \in Addr \ FreeStack /\ n + 1 \in Addr \ FreeStack
      BY <1>3, <1>4, <2>1 DEF res
    <3>2. mi.op \in {"SPILL16", "STORE16_FI"} => StoresWord(x, s, mi.reg, n, D \cup Declared(mi), res)
      BY <1>1, <3>1, StaticWord
    <3>3. mi.op \in {"RELOAD16", "LOAD16_FI"} => LoadsWord(x, s, mi.reg, n, D \cup Declared(mi), res)
      BY <1>1, <3>1, StaticWord
    <3>. QED
      BY <3>2, <3>3
  <2>2. CASE f \notin frame.static
    <3>. DEFINE off == Offset(f)
    <3>1. /\ off \in Addr /\ off + SP0 \in Addr \ FreeStack /\ off + SP0 + 1 \in Addr \ FreeStack
          /\ s = DynamicCode(D, mi, off) /\ n = off + SP0
      BY <1>3, <1>5, <2>2
    <3>2. mi.op = "LOAD16_FI" /\ mi.reg = "HL" => "A" \in D
      BY <1>6, <2>2
    <3>. HIDE DEF off
    <3>. QED
      BY <1>1, <3>1, <3>2, DynamicWord DEF res
  <2>. QED
    BY <2>1, <2>2
<1>9. mi.op \in {"SPILL8", "STORE8_FI"} => LeadsToGood(x, s, Meaning(b, mi), k + 1)
  <2>1. SUFFICES ASSUME mi.op \in {"SPILL8", "STORE8_FI"} PROVE LeadsToGood(x, s, Meaning(b, mi), k + 1)
    OBVIOUS
  <2>2. Writes(mi) /\ mi.reg \in Regs
    BY <1>1, <2>1, AccessOperands DEF Writes, Spills, Stores
  <2>. QED
    BY <1>1, <1>7, <2>1, <2>2, StoreByteGood DEF D, n
<1>10. mi.op \in {"RELOAD8", "LOAD8_FI"} => LeadsToGood(x, s, Meaning(b, mi), k + 1)
  <2>1. SUFFICES ASSUME mi.op \in {"RELOAD8", "LOAD8_FI"} PROVE LeadsToGood(x, s, Meaning(b, mi), k + 1)
    OBVIOUS
  <2>2. mi.op \in Reloads \cup Loads /\ mi.reg \in Regs
    BY <1>1, <2>1, AccessOperands DEF Reloads, Loads
  <2>. QED
    BY <1>1, <1>7, <2>1, <2>2, LoadByteGood DEF D, n
<1>11. mi.op \in {"SPILL16", "STORE16_FI"} => LeadsToGood(x, s, Meaning(b, mi), k + 1)
  <2>1. SUFFICES ASSUME mi.op \in {"SPILL16", "STORE16_FI"} PROVE LeadsToGood(x, s, Meaning(b, mi), k + 1)
    OBVIOUS
  <2>2. Writes(mi) /\ mi.reg \in Pairs
    BY <1>1, <2>1, AccessOperands, PairFacts DEF Writes, Spills, Stores
  <2>. QED
    BY <1>1, <1>8, <2>1, <2>2, StoreWordGood DEF D, n
<1>12. mi.op \in {"RELOAD16", "LOAD16_FI"} => LeadsToGood(x, s, Meaning(b, mi), k + 1)
  <2>1. SUFFICES ASSUME mi.op \in {"RELOAD16", "LOAD16_FI"} PROVE LeadsToGood(x, s, Meaning(b, mi), k + 1)
    OBVIOUS
  <2>2. mi.op \in Reloads \cup Loads /\ mi.reg \in Pairs
    BY <1>1, <2>1, AccessOperands DEF Reloads, Loads
  <2>. QED
    BY <1>1, <1>8, <2>1, <2>2, LoadWordGood DEF D, n
<1>. QED
  BY <1>9, <1>10, <1>11, <1>12 DEF Bytewise, Wordwise, s

(* The address of a slot, in a register pair.                               *)
Addresses(x, s, p, n) ==
  \E y : /\ Does(x, s, y, {"H", "L", "F"} \cup {Hi[p], Lo[p]}, {})
         /\ y.reg[Hi[p]] = n \div ByteSize /\ y.reg[Lo[p]] = n % ByteSize

LEMMA StaticAddress ==
  ASSUME NEW x, Ready(x), NEW p \in Pairs, NEW n \in Addr
  PROVE  Addresses(x, <<Lxi(p, n)>>, p, n)
<1>. DEFINE y == Exec(x, Lxi(p, n))
<1>1. /\ Does(x, <<Lxi(p, n)>>, y, {Hi[p], Lo[p]}, {})
      /\ y.reg[Hi[p]] = n \div ByteSize /\ y.reg[Lo[p]] = n % ByteSize
  BY DoLxi
<1>. HIDE DEF y
<1>2. Does(x, <<Lxi(p, n)>>, y, {"H", "L", "F"} \cup {Hi[p], Lo[p]}, {})
  <2>1. {Hi[p], Lo[p]} \subseteq {"H", "L", "F"} \cup {Hi[p], Lo[p]} /\ {} \subseteq {}
    OBVIOUS
  <2>. QED
    BY <1>1, <2>1, DoesMore
<1>. QED
  BY <1>1, <1>2 DEF Addresses

LEMMA HLPoints ==
  ASSUME NEW x, Ready(x), NEW s, NEW n, Points(x, s, n)
  PROVE  \E y : /\ Does(x, s, y, {"H", "L", "F"}, {}) /\ Ready(y)
                /\ y.reg["H"] = n \div ByteSize /\ y.reg["L"] = n % ByteSize
<1>1. PICK y : Does(x, s, y, {"H", "L", "F"}, {}) /\ Pair(y, "HL") = n
  BY DEF Points
<1>2. Ready(y) /\ y \in Machine
  BY <1>1, DoesFacts
<1>3. y.reg["H"] = n \div ByteSize /\ y.reg["L"] = n % ByteSize
  BY <1>1, <1>2, PairParts
<1>. QED
  BY <1>1, <1>2, <1>3

LEMMA AddressCopied ==
  ASSUME NEW x, Ready(x)
  PROVE  \E y : /\ Does(x, <<Mov("B", "H"), Mov("C", "L")>>, y, {"B", "C"}, {})
                /\ y.reg["B"] = x.reg["H"] /\ y.reg["C"] = x.reg["L"]
BY PairCopies, Zenon DEF CopiesTwo

LEMMA DynamicAddress ==
  ASSUME NEW x, Ready(x), NEW s, NEW n, Points(x, s, n)
  PROVE  /\ Addresses(x, s \o <<>>, "HL", n)
         /\ Addresses(x, s \o <<Xchg>>, "DE", n)
         /\ Addresses(x, s \o <<Mov("B", "H"), Mov("C", "L")>>, "BC", n)
<1>1. PICK y : /\ Does(x, s, y, {"H", "L", "F"}, {}) /\ Ready(y)
               /\ y.reg["H"] = n \div ByteSize /\ y.reg["L"] = n % ByteSize
  BY HLPoints
<1>2. Addresses(x, s \o <<>>, "HL", n)
  <2>1. Does(y, <<>>, y, {}, {})
    BY <1>1, DoesNothing DEF Ready
  <2>2. Does(x, s \o <<>>, y, {"H", "L", "F"} \cup {}, {} \cup {})
    BY <1>1, <2>1, DoesJoin
  <2>3. {"H", "L", "F"} \cup {} \subseteq {"H", "L", "F"} \cup {Hi["HL"], Lo["HL"]} /\ {} \cup {} \subseteq {}
    OBVIOUS
  <2>4. Does(x, s \o <<>>, y, {"H", "L", "F"} \cup {Hi["HL"], Lo["HL"]}, {})
    BY <2>2, <2>3, DoesMore
  <2>. QED
    BY <1>1, <2>4, PairFacts DEF Addresses
<1>3. Addresses(x, s \o <<Xchg>>, "DE", n)
  <2>. DEFINE z == Exec(y, Xchg)
  <2>1. Does(y, <<Xchg>>, z, {"D", "E", "H", "L"}, {}) /\ z.reg["D"] = y.reg["H"] /\ z.reg["E"] = y.reg["L"]
    BY <1>1, DoXchg
  <2>. HIDE DEF z
  <2>2. Does(x, s \o <<Xchg>>, z, {"H", "L", "F"} \cup {"D", "E", "H", "L"}, {} \cup {})
    BY <1>1, <2>1, DoesJoin
  <2>3. /\ {"H", "L", "F"} \cup {"D", "E", "H", "L"} \subseteq {"H", "L", "F"} \cup {Hi["DE"], Lo["DE"]}
        /\ {} \cup {} \subseteq {}
    BY PairFacts
  <2>4. Does(x, s \o <<Xchg>>, z, {"H", "L", "F"} \cup {Hi["DE"], Lo["DE"]}, {})
    BY <2>2, <2>3, DoesMore
  <2>. QED
    BY <1>1, <2>1, <2>4, PairFacts DEF Addresses
<1>4. Addresses(x, s \o <<Mov("B", "H"), Mov("C", "L")>>, "BC", n)
  <2>. DEFINE t == <<Mov("B", "H"), Mov("C", "L")>>
  <2>1. PICK z : Does(y, t, z, {"B", "C"}, {}) /\ z.reg["B"] = y.reg["H"] /\ z.reg["C"] = y.reg["L"]
    BY <1>1, AddressCopied
  <2>. HIDE DEF t
  <2>2. Does(x, s \o t, z, {"H", "L", "F"} \cup {"B", "C"}, {} \cup {})
    BY <1>1, <2>1, DoesJoin
  <2>3. {"H", "L", "F"} \cup {"B", "C"} \subseteq {"H", "L", "F"} \cup {Hi["BC"], Lo["BC"]} /\ {} \cup {} \subseteq {}
    BY PairFacts
  <2>4. Does(x, s \o t, z, {"H", "L", "F"} \cup {Hi["BC"], Lo["BC"]}, {})
    BY <2>2, <2>3, DoesMore
  <2>. QED
    BY <1>1, <2>1, <2>4, PairFacts DEF Addresses, t
<1>. QED
  BY <1>2, <1>3, <1>4

(* Code that touches registers only.                                        *)
LEMMA RegistersGood ==
  ASSUME NEW k \in 0..(Len(mbb) - 1), Len(mbb) \in Nat, NEW x, NEW b, Good(x, b, k), NEW s, NEW y, NEW S,
         Does(x, s, y, S, {}), NEW c, NEW got, NEW lost, NEW T,
         Transfers(mbb[k + 1], x, b, y, c, got, lost, T), Dying(T, DeadSet(k + 1) \cup lost, frame.reserved),
         c.slot = b.slot
  PROVE  LeadsToGood(x, s, c, k + 1)
<1>1. x.sp = SP0 /\ RegsAgree(x, b, k) /\ SlotsAgree(x, b) /\ OnlySlots(x)
  BY GoodParts
<1>2. \A i \in Addr : i \notin {} => y.mem[i] = x.mem[i]
  BY DoesFacts
<1>3. RegsAgree(y, c, k + 1)
  BY <1>1, RegsStayGood
<1>4. SlotsAgree(y, c) /\ OnlySlots(y)
  <2>1. {} \subseteq FreeStack
    OBVIOUS
  <2>. QED
    BY <1>1, <1>2, <2>1, NoneWritten
<1>. QED
  BY <1>1, <1>3, <1>4, GoodEnd

Placed(b) == \A f \in Slots : b.addr[f] = SlotAddr(f)

(* An instruction that gives register d the value w.                        *)
Gives(b, c, mi, w) ==
  /\ DefsOf(mi) \subseteq Parts(mi.reg) \cup Declared(mi)
  /\ \A r \in Regs : r \in Declared(mi) /\ r \notin Parts(mi.reg) => c.reg[r] = Undef
  /\ \A r \in Regs : r \notin Declared(mi) /\ r \notin Parts(mi.reg) => c.reg[r] = b.reg[r]
  /\ mi.reg \in Regs => c.reg[mi.reg] = w.lo
  /\ mi.reg \in Pairs => c.reg[Lo[mi.reg]] = w.lo /\ c.reg[Hi[mi.reg]] = w.hi
  /\ c.slot = b.slot

LEMMA LeaMeaning ==
  ASSUME NEW role, NEW mi \in Instrs(role), mi.op = "LEA_FI", NEW b \in State, Placed(b)
  PROVE  Gives(b, Meaning(b, mi), mi, [hi |-> SlotAddr(mi.fi) \div ByteSize, lo |-> SlotAddr(mi.fi) % ByteSize])
<1>. DEFINE p == mi.reg
            w == [hi |-> SlotAddr(mi.fi) \div ByteSize, lo |-> SlotAddr(mi.fi) % ByteSize]
            c == Meaning(b, mi)
            g == Lose(b.reg, {"H", "L"})
<1>1. p \in Pairs /\ mi.fi \in Slots /\ Hi[p] \in Regs /\ Lo[p] \in Regs
  BY AccessOperands, OperandFacts, PartsFacts
<1>2. b.addr[mi.fi] = SlotAddr(mi.fi) /\ SlotAddr(mi.fi) \in Addr
  BY <1>1, SlotsApart DEF Placed
<1>3. w \in Slot
  <2>. DEFINE h == SlotAddr(mi.fi) \div ByteSize
              l == SlotAddr(mi.fi) % ByteSize
  <2>1. h \in Byte /\ l \in Byte
    BY <1>2, ByteFacts
  <2>. HIDE DEF h, l
  <2>2. h \in Int /\ l \in Int
    BY <2>1, ByteFacts
  <2>3. [hi |-> h, lo |-> l] \in Slot
    BY <2>2 DEF Slot, Values
  <2>. QED
    BY <2>3 DEF h, l
<1>4. b.reg \in [Regs -> Values] /\ \A e : [b EXCEPT !.reg = e] = [reg |-> e, slot |-> b.slot, addr |-> b.addr]
  BY StateParts
<1>5. c = [b EXCEPT !.reg = Put(g, p, [hi |-> b.addr[mi.fi] \div ByteSize, lo |-> b.addr[mi.fi] % ByteSize])]
  BY MeaningCases
<1>6. c = [b EXCEPT !.reg = Put(g, p, w)]
  BY <1>2, <1>5
<1>. HIDE DEF w, g
<1>7. c = [reg |-> Put(g, p, w), slot |-> b.slot, addr |-> b.addr]
  BY <1>4, <1>6
<1>8. c.reg = Put(g, p, w) /\ c.slot = b.slot
  BY <1>7
<1>. HIDE DEF c
<1>9. g \in [Regs -> Values] /\ \A r \in Regs : g[r] = IF r \in {"H", "L"} THEN Undef ELSE b.reg[r]
  BY <1>4, LoseFacts DEF g
<1>10. /\ Put(g, p, w)[Hi[p]] = w.hi /\ Put(g, p, w)[Lo[p]] = w.lo
       /\ \A r \in Regs : r \notin Parts(p) => Put(g, p, w)[r] = g[r]
  BY <1>1, <1>3, <1>9, PutFacts
<1>11. Declared(mi) = Lost(mi) \cup {"H", "L"} /\ Lost(mi) \subseteq Parts(p) /\ DefsOf(mi) = Parts(p) \cup {"H", "L"}
  BY DefsCases DEF Declared, Lost
<1>12. p \notin Regs
  BY <1>1, PartsFacts
<1>. HIDE DEF p
<1>13. Gives(b, c, mi, w)
  BY <1>8, <1>9, <1>10, <1>11, <1>12 DEF Gives, p
<1>. QED
  BY <1>13 DEF c, w

LEMMA PutMeaning ==
  ASSUME NEW role, NEW mi \in Instrs(role), mi.op \in {"MOV", "DEF"}, NEW b \in State
  PROVE  /\ Declared(mi) = {}
         /\ mi.op = "MOV" => Gives(b, Meaning(b, mi), mi, Value(b, mi.src))
         /\ mi.op = "DEF" => Gives(b, Meaning(b, mi), mi, [hi |-> mi.fi, lo |-> mi.fi])
<1>. DEFINE p == mi.reg
            w == IF mi.op = "MOV" THEN Value(b, mi.src) ELSE [hi |-> mi.fi, lo |-> mi.fi]
            c == Meaning(b, mi)
<1>1. p \in Regs \cup Pairs /\ ~mi.kill /\ DefsOf(mi) = Parts(p)
  BY OperandFacts, AccessOperands, DefsCases
<1>2. Declared(mi) = {}
  BY <1>1 DEF Declared, Lost, Stores, Loads
<1>3. w \in Slot
  <2>1. CASE mi.op = "MOV"
    BY <2>1, OperandFacts, ValueFacts
  <2>2. CASE mi.op = "DEF"
    <3>1. mi.fi \in Int
      BY <2>2, OperandFacts
    <3>. QED
      BY <2>2, <3>1 DEF Slot, Values
  <2>. QED
    BY <2>1, <2>2
<1>4. b.reg \in [Regs -> Values] /\ \A e : [b EXCEPT !.reg = e] = [reg |-> e, slot |-> b.slot, addr |-> b.addr]
  BY StateParts
<1>5. c = [b EXCEPT !.reg = Put(b.reg, p, w)]
  <2>1. CASE mi.op = "MOV"
    BY <2>1, MeaningCases
  <2>2. CASE mi.op = "DEF"
    BY <2>2, MeaningCases
  <2>. QED
    BY <2>1, <2>2
<1>6. (mi.op = "MOV" => w = Value(b, mi.src)) /\ (mi.op = "DEF" => w = [hi |-> mi.fi, lo |-> mi.fi])
  OBVIOUS
<1>. HIDE DEF w
<1>7. c = [reg |-> Put(b.reg, p, w), slot |-> b.slot, addr |-> b.addr]
  BY <1>4, <1>5
<1>8. c.reg = Put(b.reg, p, w) /\ c.slot = b.slot
  BY <1>7
<1>. HIDE DEF c
<1>10. /\ p \in Pairs => Put(b.reg, p, w)[Hi[p]] = w.hi /\ Put(b.reg, p, w)[Lo[p]] = w.lo
       /\ p \in Regs => Put(b.reg, p, w)[p] = w.lo
       /\ \A r \in Regs : r \notin Parts(p) => Put(b.reg, p, w)[r] = b.reg[r]
  BY <1>1, <1>3, <1>4, PutFacts
<1>. HIDE DEF p
<1>13. Gives(b, c, mi, w)
  BY <1>1, <1>2, <1>8, <1>10 DEF Gives, p
<1>. QED
  BY <1>2, <1>6, <1>13 DEF c

LEMMA UseMeaning ==
  ASSUME NEW role, NEW mi \in Instrs(role), mi.op = "USE", NEW b \in State
  PROVE  /\ DefsOf(mi) = {} /\ Meaning(b, mi).slot = b.slot
         /\ \A r \in Regs : Meaning(b, mi).reg[r] = IF r \in Lost(mi) THEN Undef ELSE b.reg[r]
<1>. DEFINE c == Meaning(b, mi)
<1>1. b.reg \in [Regs -> Values] /\ \A e : [b EXCEPT !.reg = e] = [reg |-> e, slot |-> b.slot, addr |-> b.addr]
  BY StateParts
<1>2. c = [b EXCEPT !.reg = Lose(b.reg, Lost(mi))]
  BY MeaningCases
<1>3. c = [reg |-> Lose(b.reg, Lost(mi)), slot |-> b.slot, addr |-> b.addr]
  BY <1>1, <1>2
<1>4. c.reg = Lose(b.reg, Lost(mi)) /\ c.slot = b.slot
  BY <1>3
<1>. HIDE DEF c
<1>5. \A r \in Regs : c.reg[r] = IF r \in Lost(mi) THEN Undef ELSE b.reg[r]
  BY <1>1, <1>4, LoseFacts
<1>6. DefsOf(mi) = {}
  BY DefsCases
<1>. QED
  BY <1>4, <1>5, <1>6 DEF c

LEMMA CallMeaning ==
  ASSUME NEW mi, mi.op = "CALL", NEW b \in State
  PROVE  Meaning(b, mi).slot = b.slot /\ \A r \in Regs : Meaning(b, mi).reg[r] = Undef
<1>. DEFINE c == Meaning(b, mi)
<1>1. b.reg \in [Regs -> Values] /\ \A e : [b EXCEPT !.reg = e] = [reg |-> e, slot |-> b.slot, addr |-> b.addr]
  BY StateParts
<1>2. c = [b EXCEPT !.reg = Lose(b.reg, Regs)]
  BY MeaningCases
<1>3. c = [reg |-> Lose(b.reg, Regs), slot |-> b.slot, addr |-> b.addr]
  BY <1>1, <1>2
<1>4. c.reg = Lose(b.reg, Regs) /\ c.slot = b.slot
  BY <1>3
<1>. HIDE DEF c
<1>5. \A r \in Regs : c.reg[r] = Undef
  BY <1>1, <1>4, LoseFacts
<1>. QED
  BY <1>4, <1>5 DEF c

Carries(y, r, w) ==
  /\ r \in Regs /\ w.lo # Undef => y.reg[r] = w.lo
  /\ r \in Pairs /\ w.lo # Undef => y.reg[Lo[r]] = w.lo
  /\ r \in Pairs /\ w.hi # Undef => y.reg[Hi[r]] = w.hi

LEMMA GivesGood ==
  ASSUME NEW k \in 0..(Len(mbb) - 1), Len(mbb) \in Nat, NEW mi, mi = mbb[k + 1], mi.reg \in Regs \cup Pairs,
         NEW b, NEW x, Good(x, b, k), NEW s, NEW y, NEW S, Does(x, s, y, S \cup Parts(mi.reg), {}),
         NEW c, NEW w, Gives(b, c, mi, w), Carries(y, mi.reg, w),
         Dying(S, DeadSet(k + 1) \cup Declared(mi), frame.reserved)
  PROVE  LeadsToGood(x, s, c, k + 1)
<1>. DEFINE p == mi.reg
            got == Parts(p)
<1>1. \A q \in Regs : q \notin S \cup got => y.reg[q] = x.reg[q]
  BY DoesFacts, NamedRegs
<1>2. \A q \in Regs : q \notin got /\ q \notin S => y.reg[q] = x.reg[q]
  BY <1>1
<1>3. \A q \in Regs : q \in got /\ c.reg[q] # Undef => y.reg[q] = c.reg[q]
  <2>1. CASE p \in Regs
    <3>1. got = {p}
      BY <2>1, PartsFacts
    <3>. QED
      BY <2>1, <3>1 DEF Gives, Carries
  <2>2. CASE p \in Pairs
    <3>1. got = {Hi[p], Lo[p]}
      BY <2>2, PartsFacts
    <3>. QED
      BY <2>2, <3>1 DEF Gives, Carries
  <2>. QED
    BY <2>1, <2>2
<1>4. c.slot = b.slot
  BY DEF Gives
<1>. HIDE DEF got
<1>5. Transfers(mi, x, b, y, c, got, Declared(mi), S)
  BY <1>2, <1>3 DEF Transfers, Gives, got
<1>. DEFINE T == S \cup Parts(mi.reg)
<1>6. Does(x, s, y, T, {})
  OBVIOUS
<1>. HIDE DEF T
<1>. QED
  BY <1>4, <1>5, <1>6, RegistersGood

LEMMA LeaGood ==
  ASSUME NEW role, NEW k \in 0..(Len(mbb) - 1), Len(mbb) \in Nat, mbb[k + 1] \in Instrs(role),
         mbb[k + 1].op = "LEA_FI", Reservable(frame.reserved),
         NEW b \in State, Placed(b), NEW x, Good(x, b, k)
  PROVE  LeadsToGood(x, CodeFor(k + 1), Meaning(b, mbb[k + 1]), k + 1)
<1>. DEFINE mi == mbb[k + 1]
            p == mi.reg
            f == mi.fi
            n == SlotAddr(f)
            s == CodeFor(k + 1)
            w == [hi |-> n \div ByteSize, lo |-> n % ByteSize]
<1>1. Ready(x) /\ x.sp = SP0 /\ p \in Pairs /\ f \in Slots /\ n \in Addr
  BY GoodParts, AccessOperands, OperandFacts, SlotsApart
<1>2. Addresses(x, s, p, n)
  <2>1. CASE f \in frame.static
    <3>1. s = <<Lxi(p, n)>>
      BY <1>1, <2>1, CodeCases, OffsetFacts DEF StaticCode
    <3>. HIDE DEF n, p
    <3>. QED
      BY <1>1, <3>1, StaticAddress
  <2>2. CASE f \notin frame.static
    <3>. DEFINE off == Offset(f)
                t == AtSlot(off)
    <3>1. off \in Addr /\ n = off + SP0 /\ s = DynamicCode(DeadSet(k + 1), mi, off)
      BY <1>1, <2>2, CodeCases, OffsetFacts
    <3>2. Points(x, t, n)
      <4>. HIDE DEF off, n
      <4>. QED
        BY <1>1, <3>1, SlotPoints
    <3>. HIDE DEF off, n, s
    <3>3. /\ p = "HL" => s = t \o <<>>
          /\ p = "DE" => s = t \o <<Xchg>>
          /\ p = "BC" => s = t \o <<Mov("B", "H"), Mov("C", "L")>>
      BY <3>1 DEF DynamicCode
    <3>4. p = "HL" \/ p = "DE" \/ p = "BC"
      BY <1>1, PairFacts
    <3>. HIDE DEF t, p
    <3>. QED
      BY <1>1, <3>2, <3>3, <3>4, DynamicAddress
  <2>. QED
    BY <2>1, <2>2
<1>. HIDE DEF n, s, w
<1>3. PICK y : /\ Does(x, s, y, {"H", "L", "F"} \cup {Hi[p], Lo[p]}, {})
               /\ y.reg[Hi[p]] = n \div ByteSize /\ y.reg[Lo[p]] = n % ByteSize
  BY <1>2 DEF Addresses
<1>4. Does(x, s, y, {"H", "L", "F"} \cup Parts(p), {})
  <2>1. Parts(p) = {Hi[p], Lo[p]}
    BY <1>1, PartsFacts
  <2>. QED
    BY <1>3, <2>1
<1>5. w.hi = n \div ByteSize /\ w.lo = n % ByteSize
  BY DEF w
<1>6. Carries(y, p, w)
  BY <1>1, <1>3, <1>5, PartsFacts DEF Carries
<1>7. Gives(b, Meaning(b, mi), mi, w)
  BY LeaMeaning DEF w, n
<1>8. Dying({"H", "L", "F"}, DeadSet(k + 1) \cup Declared(mi), frame.reserved)
  BY HLDies
<1>9. p \in Regs \cup Pairs
  BY <1>1
<1>. HIDE DEF w
<1>. QED
  BY <1>4, <1>6, <1>7, <1>8, <1>9, GivesGood DEF s

LEMMA MovGood ==
  ASSUME NEW role, NEW k \in 0..(Len(mbb) - 1), Len(mbb) \in Nat, mbb[k + 1] \in Instrs(role),
         mbb[k + 1].op = "MOV", NEW b \in State, NEW x, Good(x, b, k)
  PROVE  LeadsToGood(x, CodeFor(k + 1), Meaning(b, mbb[k + 1]), k + 1)
<1>. DEFINE mi == mbb[k + 1]
            d == mi.reg
            q == mi.src
            s == CodeFor(k + 1)
            w == Value(b, q)
            y == Exec(x, Mov(d, q))
<1>1. Ready(x) /\ RegsAgree(x, b, k) /\ d \in Regs /\ q \in Regs /\ s = <<Mov(d, q)>>
  BY GoodParts, OperandFacts, CodeCases
<1>2. w.lo = b.reg[q] /\ d \notin Pairs /\ Parts(d) = {d}
  BY <1>1, ValueFacts, PartsFacts
<1>3. w.lo # Undef => x.reg[q] = w.lo
  BY <1>1, <1>2, UsedAgree, UsesCases
<1>4. Gives(b, Meaning(b, mi), mi, w)
  BY PutMeaning
<1>5. Does(x, <<Mov(d, q)>>, y, {d}, {}) /\ y.reg[d] = x.reg[q]
  BY <1>1, DoMov
<1>. HIDE DEF y, w
<1>6. Does(x, s, y, {} \cup Parts(d), {})
  BY <1>1, <1>2, <1>5
<1>7. Carries(y, d, w)
  BY <1>1, <1>2, <1>3, <1>5 DEF Carries
<1>8. Dying({}, DeadSet(k + 1) \cup Declared(mi), frame.reserved)
  BY DEF Dying
<1>9. d \in Regs \cup Pairs
  BY <1>1
<1>. HIDE DEF s
<1>. QED
  BY <1>4, <1>6, <1>7, <1>8, <1>9, GivesGood DEF s

LEMMA Distribute == ASSUME NEW i \in Nat, NEW j \in Nat PROVE i * (j + 1) = i * j + i
OBVIOUS

LEMMA DefGood ==
  ASSUME NEW role, NEW k \in 0..(Len(mbb) - 1), Len(mbb) \in Nat, mbb[k + 1] \in Instrs(role),
         mbb[k + 1].op = "DEF", NEW b \in State, NEW x, Good(x, b, k)
  PROVE  LeadsToGood(x, CodeFor(k + 1), Meaning(b, mbb[k + 1]), k + 1)
<1>. DEFINE mi == mbb[k + 1]
            d == mi.reg
            v == mi.fi
            s == CodeFor(k + 1)
            w == [hi |-> v, lo |-> v]
            n == v * (ByteSize + 1)
<1>1. Ready(x) /\ d \in Regs \cup Pairs /\ v \in Byte
  BY GoodParts, OperandFacts, AccessOperands
<1>2. n \in Addr /\ n \div ByteSize = v /\ n % ByteSize = v
  <2>. DEFINE t == v * ByteSize + v
  <2>1. t \in Addr /\ t \div ByteSize = v /\ t % ByteSize = v
    BY <1>1, ByteFacts
  <2>2. v \in Nat /\ ByteSize \in Nat
    BY <1>1, ByteFacts
  <2>3. n = t
    BY <2>2, Distribute
  <2>. HIDE DEF t, n
  <2>. QED
    BY <2>1, <2>3
<1>3. \E y : Does(x, s, y, {} \cup Parts(d), {}) /\ Carries(y, d, w)
  <2>1. CASE d \in Pairs
    <3>. DEFINE y == Exec(x, Lxi(d, n))
    <3>1. s = <<Lxi(d, n)>> /\ Parts(d) = {Hi[d], Lo[d]} /\ d \notin Regs
      BY <2>1, CodeCases, PartsFacts
    <3>. HIDE DEF n, s
    <3>2. /\ Does(x, <<Lxi(d, n)>>, y, {Hi[d], Lo[d]}, {})
          /\ y.reg[Hi[d]] = n \div ByteSize /\ y.reg[Lo[d]] = n % ByteSize
      BY <1>1, <1>2, <2>1, DoLxi
    <3>. HIDE DEF y
    <3>3. y.reg[Hi[d]] = v /\ y.reg[Lo[d]] = v
      BY <1>2, <3>2
    <3>4. Carries(y, d, w)
      BY <3>1, <3>3 DEF Carries
    <3>5. Does(x, s, y, {} \cup Parts(d), {})
      BY <3>1, <3>2
    <3>. QED
      BY <3>4, <3>5
  <2>2. CASE d \in Regs
    <3>. DEFINE y == Exec(x, Mvi(d, v))
    <3>1. s = <<Mvi(d, v)>> /\ Parts(d) = {d} /\ d \notin Pairs
      BY <2>2, CodeCases, PartsFacts
    <3>. HIDE DEF s
    <3>2. Does(x, <<Mvi(d, v)>>, y, {d}, {}) /\ y.reg[d] = v
      <4>. HIDE DEF d, v
      <4>. QED
        BY <1>1, <2>2, DoMvi
    <3>. HIDE DEF y
    <3>4. Carries(y, d, w)
      BY <3>1, <3>2 DEF Carries
    <3>5. Does(x, s, y, {} \cup Parts(d), {})
      BY <3>1, <3>2
    <3>. QED
      BY <3>4, <3>5
  <2>. QED
    BY <1>1, <2>1, <2>2
<1>4. PICK y : Does(x, s, y, {} \cup Parts(d), {}) /\ Carries(y, d, w)
  BY <1>3
<1>5. Gives(b, Meaning(b, mi), mi, w)
  BY PutMeaning
<1>8. Dying({}, DeadSet(k + 1) \cup Declared(mi), frame.reserved)
  BY DEF Dying
<1>. HIDE DEF s, w
<1>. QED
  BY <1>1, <1>4, <1>5, <1>8, GivesGood DEF s

LEMMA UseGood ==
  ASSUME NEW role, NEW k \in 0..(Len(mbb) - 1), Len(mbb) \in Nat, mbb[k + 1] \in Instrs(role),
         mbb[k + 1].op = "USE", NEW b \in State, NEW x, Good(x, b, k)
  PROVE  LeadsToGood(x, CodeFor(k + 1), Meaning(b, mbb[k + 1]), k + 1)
<1>. DEFINE mi == mbb[k + 1]
            c == Meaning(b, mi)
            s == CodeFor(k + 1)
<1>1. x \in Machine /\ s = <<>>
  BY GoodParts, CodeCases
<1>2. DefsOf(mi) = {} /\ c.slot = b.slot /\ \A r \in Regs : c.reg[r] = IF r \in Lost(mi) THEN Undef ELSE b.reg[r]
  BY UseMeaning
<1>. HIDE DEF c, s, mi
<1>3. Transfers(mi, x, b, x, c, {}, Lost(mi), {})
  BY <1>2 DEF Transfers
<1>4. Dying({}, DeadSet(k + 1) \cup Lost(mi), frame.reserved)
  BY DEF Dying
<1>5. Does(x, s, x, {}, {})
  BY <1>1, DoesNothing
<1>6. LeadsToGood(x, s, c, k + 1)
  BY <1>2, <1>3, <1>4, <1>5, RegistersGood DEF mi
<1>. QED
  BY <1>6 DEF c, s, mi

LEMMA ByteIsAddr == Byte \subseteq Addr
<1>1. SUFFICES ASSUME NEW v \in Byte PROVE v \in Addr
  OBVIOUS
<1>2. 0 \in Byte
  BY ByteFacts
<1>3. 0 * ByteSize + v \in Addr
  BY <1>2, ByteFacts
<1>4. v \in Nat /\ ByteSize \in Nat
  BY ByteFacts
<1>. QED
  BY <1>3, <1>4

LEMMA CallCode ==
  ASSUME NEW x, Ready(x)
  PROVE  \E y, S : Does(x, <<Mvi("A", Junk), Lxi("BC", Junk), Lxi("DE", Junk), Lxi("HL", Junk)>>, y, S, {})
<1>. DEFINE y == Exec(x, Mvi("A", Junk))
            z == Exec(y, Lxi("BC", Junk))
            u == Exec(z, Lxi("DE", Junk))
            v == Exec(u, Lxi("HL", Junk))
<1>0. Junk \in Byte /\ Junk \in Addr /\ "A" \in Regs /\ "BC" \in Pairs /\ "DE" \in Pairs /\ "HL" \in Pairs
  BY StackFacts, ByteIsAddr, NamedRegs, PairFacts
<1>1. Does(x, <<Mvi("A", Junk)>>, y, {"A"}, {})
  BY <1>0, DoMvi
<1>. HIDE DEF y
<1>2. Ready(y)
  BY <1>1, DoesFacts
<1>3. Does(y, <<Lxi("BC", Junk)>>, z, {Hi["BC"], Lo["BC"]}, {})
  BY <1>0, <1>2, DoLxi
<1>. HIDE DEF z
<1>4. Ready(z)
  BY <1>2, <1>3, DoesFacts
<1>5. Does(z, <<Lxi("DE", Junk)>>, u, {Hi["DE"], Lo["DE"]}, {})
  BY <1>0, <1>4, DoLxi
<1>. HIDE DEF u
<1>6. Ready(u)
  BY <1>4, <1>5, DoesFacts
<1>7. Does(u, <<Lxi("HL", Junk)>>, v, {Hi["HL"], Lo["HL"]}, {})
  BY <1>0, <1>6, DoLxi
<1>. HIDE DEF v
<1>8. \E S : Does(z, <<Lxi("DE", Junk), Lxi("HL", Junk)>>, v, S, {} \cup {})
  BY <1>5, <1>7, DoesTwo
<1>9. PICK S : Does(z, <<Lxi("DE", Junk), Lxi("HL", Junk)>>, v, S, {})
  <2>1. {} \cup {} = {}
    OBVIOUS
  <2>. QED
    BY <1>8, <2>1
<1>10. Does(y, <<Lxi("BC", Junk), Lxi("DE", Junk), Lxi("HL", Junk)>>, v, {Hi["BC"], Lo["BC"]} \cup S, {} \cup {})
  BY <1>3, <1>9, DoesThree
<1>. DEFINE T == {Hi["BC"], Lo["BC"]} \cup S
<1>11. Does(y, <<Lxi("BC", Junk), Lxi("DE", Junk), Lxi("HL", Junk)>>, v, T, {})
  <2>1. {} \cup {} = {}
    OBVIOUS
  <2>. QED
    BY <1>10, <2>1
<1>. HIDE DEF T
<1>12. Does(x, <<Mvi("A", Junk), Lxi("BC", Junk), Lxi("DE", Junk), Lxi("HL", Junk)>>, v, {"A"} \cup T, {} \cup {})
  BY <1>1, <1>11, DoesFour
<1>13. Does(x, <<Mvi("A", Junk), Lxi("BC", Junk), Lxi("DE", Junk), Lxi("HL", Junk)>>, v, {"A"} \cup T, {})
  <2>1. {} \cup {} = {}
    OBVIOUS
  <2>. QED
    BY <1>12, <2>1
<1>. QED
  BY <1>13

LEMMA CallGood ==
  ASSUME NEW k, mbb[k + 1].op = "CALL", NEW b \in State, NEW x, Good(x, b, k)
  PROVE  LeadsToGood(x, CodeFor(k + 1), Meaning(b, mbb[k + 1]), k + 1)
<1>. DEFINE c == Meaning(b, mbb[k + 1])
            s == CodeFor(k + 1)
            t == <<Mvi("A", Junk), Lxi("BC", Junk), Lxi("DE", Junk), Lxi("HL", Junk)>>
<1>1. Ready(x) /\ x.sp = SP0 /\ SlotsAgree(x, b) /\ OnlySlots(x)
  BY GoodParts
<1>2. s = t
  BY CodeCases
<1>3. \E y, S : Does(x, t, y, S, {})
  BY <1>1, CallCode
<1>4. c.slot = b.slot /\ \A r \in Regs : c.reg[r] = Undef
  BY CallMeaning
<1>. HIDE DEF c, s, t
<1>5. PICK y, S : Does(x, s, y, S, {})
  BY <1>2, <1>3
<1>6. \A i \in Addr : i \notin {} => y.mem[i] = x.mem[i]
  BY <1>5, DoesFacts
<1>7. RegsAgree(y, c, k + 1)
  BY <1>4 DEF RegsAgree
<1>8. SlotsAgree(y, c) /\ OnlySlots(y)
  <2>1. {} \subseteq FreeStack
    OBVIOUS
  <2>. QED
    BY <1>1, <1>4, <1>6, <2>1, NoneWritten
<1>9. LeadsToGood(x, s, c, k + 1)
  BY <1>1, <1>5, <1>7, <1>8, GoodEnd
<1>. QED
  BY <1>9 DEF c, s

(* Every instruction of a block is lowered to code that does what it means. *)
LEMMA InstrGood ==
  ASSUME NEW role, NEW k \in 0..(Len(mbb) - 1), Len(mbb) \in Nat, mbb[k + 1] \in Instrs(role),
         Reservable(frame.reserved), SpareAt(k + 1),
         NEW b \in State, Placed(b), NEW x, Good(x, b, k)
  PROVE  LeadsToGood(x, CodeFor(k + 1), Meaning(b, mbb[k + 1]), k + 1)
<1>1. mbb[k + 1].op \in Bytewise \cup Wordwise \cup {"LEA_FI", "MOV", "DEF", "USE", "CALL"}
  <2>. DEFINE mi == mbb[k + 1]
  <2>1. mi.op \in Spills \cup Reloads \cup Stores \cup Loads \cup {"LEA_FI", "MOV", "DEF", "USE", "CALL"}
    BY OperandFacts
  <2>. HIDE DEF mi
  <2>2. mi.op \in Bytewise \cup Wordwise \cup {"LEA_FI", "MOV", "DEF", "USE", "CALL"}
    BY <2>1 DEF Bytewise, Wordwise, Spills, Reloads, Stores, Loads
  <2>. QED
    BY <2>2 DEF mi
<1>2. CASE mbb[k + 1].op \in Bytewise \cup Wordwise
  BY <1>2, AccessGood
<1>3. CASE mbb[k + 1].op = "LEA_FI"
  BY <1>3, LeaGood
<1>4. CASE mbb[k + 1].op = "MOV"
  BY <1>4, MovGood
<1>5. CASE mbb[k + 1].op = "DEF"
  BY <1>5, DefGood
<1>6. CASE mbb[k + 1].op = "USE"
  BY <1>6, UseGood
<1>7. CASE mbb[k + 1].op = "CALL"
  BY <1>7, CallGood
<1>. QED
  BY <1>1, <1>2, <1>3, <1>4, <1>5, <1>6, <1>7

-----------------------------------------------------------------------------
(* Interrupts, and the block as it runs.                                    *)
MachineAtStart == [reg |-> RegNumber, sp |-> SP0, mem |-> MemAtStart]

LEMMA StartNumbers ==
  /\ RegNumber \in [AllRegs -> Byte]
  /\ \A r \in Regs : AbstractAtStart.reg[r] = RegNumber[r]
<1>1. \A n \in 0..7 : n \in Byte
  BY ByteFacts
<1>2. DOMAIN RegNumber = AllRegs
  BY DEF RegNumber, AllRegs, Regs
<1>3. \A r \in AllRegs : RegNumber[r] \in 0..7
  BY DEF RegNumber, AllRegs, Regs
<1>4. RegNumber = [r \in AllRegs |-> RegNumber[r]]
  BY <1>2 DEF RegNumber
<1>5. RegNumber \in [AllRegs -> Byte]
  BY <1>1, <1>3, <1>4
<1>6. \A r \in Regs : AbstractAtStart.reg[r] = RegNumber[r]
  BY DEF AbstractAtStart
<1>. QED
  BY <1>5, <1>6

LEMMA StartMachine == MachineAtStart \in Machine
<1>1. MemAtStart \in [Addr -> Byte]
  <2>1. ASSUME NEW i \in Addr PROVE (i + 3) % ByteSize \in Byte
    <3>1. i \in Nat /\ ByteSize \in Nat /\ ByteSize > 0
      BY ByteFacts
    <3>. QED
      BY <3>1 DEF Byte
  <2>. QED
    BY <2>1 DEF MemAtStart
<1>2. RegNumber \in [AllRegs -> Byte] /\ SP0 \in Addr
  BY StartNumbers, StackFacts
<1>. QED
  BY <1>1, <1>2, MachineOf DEF MachineAtStart

LEMMA StartGood ==
  ASSUME NEW k
  PROVE  Good(MachineAtStart, AbstractAtStart, k) /\ Placed(AbstractAtStart)
<1>1. MachineAtStart.reg = RegNumber /\ MachineAtStart.sp = SP0 /\ MachineAtStart.mem = MemAtStart
  BY DEF MachineAtStart
<1>2. RegsAgree(MachineAtStart, AbstractAtStart, k)
  BY <1>1, StartNumbers DEF RegsAgree
<1>3. SlotsAgree(MachineAtStart, AbstractAtStart) /\ Placed(AbstractAtStart)
  BY <1>1 DEF SlotsAgree, Placed, AbstractAtStart
<1>4. OnlySlots(MachineAtStart)
  BY <1>1 DEF OnlySlots
<1>. QED
  BY <1>1, <1>2, <1>3, <1>4, StartMachine DEF Good

(* A machine that differs only below the stack pointer is as good.          *)
LEMMA SameGood ==
  ASSUME NEW x, NEW y, Same(x, y), NEW b, NEW k, Good(x, b, k)
  PROVE  Good(y, b, k)
<1>1. /\ Ready(x) /\ Ready(y) /\ y.sp = x.sp /\ x.sp = SP0 /\ y \in Machine
      /\ \A r \in Regs : y.reg[r] = x.reg[r]
  BY GoodParts, NamedRegs DEF Same, Ready
<1>2. Below(x) \subseteq FreeStack
  BY <1>1, BelowFacts
<1>3. \A i \in Addr : i \notin FreeStack => y.mem[i] = x.mem[i]
  BY <1>2 DEF Same
<1>4. RegsAgree(x, b, k) /\ SlotsAgree(x, b) /\ OnlySlots(x)
  BY GoodParts
<1>5. RegsAgree(y, b, k)
  BY <1>1, <1>4 DEF RegsAgree
<1>6. SlotsAgree(y, b) /\ OnlySlots(y)
  <2>1. FreeStack \subseteq FreeStack /\ b.slot = b.slot
    OBVIOUS
  <2>. QED
    BY <1>3, <1>4, <2>1, NoneWritten
<1>. QED
  BY <1>1, <1>5, <1>6 DEF Good

LEMMA SameItself ==
  ASSUME NEW x, Ready(x)
  PROVE  Same(x, x)
BY DEF Same

LEMMA GoodKept ==
  ASSUME mbb' = mbb, frame' = frame
  PROVE  \A x, b, k : Good(x, b, k)' = Good(x, b, k)
<1>1. \A k : DeadSet(k)' = DeadSet(k)
  BY DEF DeadSet, DeadAfter
<1>2. \A f \in Slots : SlotAddr(f)' = SlotAddr(f)
  BY DEF SlotAddr
<1>3. \A x, b, k : RegsAgree(x, b, k)' = RegsAgree(x, b, k)
  BY <1>1 DEF RegsAgree
<1>4. \A x, b : SlotsAgree(x, b)' = SlotsAgree(x, b)
  BY <1>2 DEF SlotsAgree
<1>5. \A x : OnlySlots(x)' = OnlySlots(x)
  BY <1>2 DEF OnlySlots
<1>. QED
  BY <1>3, <1>4, <1>5 DEF Good

(* The code that is left leads the machine, interrupted or not, to where    *)
(* the abstract machine is.                                                 *)
OnTheWay(x, s, b, k) == \E z : Same(z, x) /\ LeadsToGood(z, s, b, k)

LEMMA Arrived ==
  ASSUME NEW x, NEW b, NEW k, OnTheWay(x, <<>>, b, k)
  PROVE  Good(x, b, k)
<1>1. PICK z : Same(z, x) /\ LeadsToGood(z, <<>>, b, k)
  BY DEF OnTheWay
<1>2. PICK y : Leads(z, <<>>, y) /\ Good(y, b, k)
  BY <1>1 DEF LeadsToGood
<1>3. z \in Machine
  BY <1>1 DEF Same, Ready
<1>4. y = z
  BY <1>2, <1>3, LeadsEmpty
<1>. QED
  BY <1>1, <1>2, <1>4, SameGood

LEMMA OneStepOn ==
  ASSUME NEW x, NEW s, s # <<>>, NEW b, NEW k, OnTheWay(x, s, b, k)
  PROVE  OnTheWay(Exec(x, Head(s)), Tail(s), b, k)
<1>1. PICK z : Same(z, x) /\ LeadsToGood(z, s, b, k)
  BY DEF OnTheWay
<1>2. PICK y : Leads(z, s, y) /\ Good(y, b, k)
  BY <1>1 DEF LeadsToGood
<1>3. Safe(z, Head(s)) /\ Leads(Exec(z, Head(s)), Tail(s), y)
  BY <1>2, LeadsOn
<1>4. Same(Exec(z, Head(s)), Exec(x, Head(s)))
  BY <1>1, <1>3, ExecSame
<1>. QED
  BY <1>2, <1>3, <1>4 DEF OnTheWay, LeadsToGood

LEMMA InterruptedOnTheWay ==
  ASSUME NEW x, NEW s, NEW b, NEW k, OnTheWay(x, s, b, k)
  PROVE  OnTheWay(Interrupted(x, Junk), s, b, k)
BY InterruptSame DEF OnTheWay

LEMMA SetOut ==
  ASSUME NEW role, NEW k \in 0..(Len(mbb) - 1), Len(mbb) \in Nat, mbb[k + 1] \in Instrs(role),
         Reservable(frame.reserved), SpareAt(k + 1),
         NEW b \in State, Placed(b), NEW x, OnTheWay(x, <<>>, b, k)
  PROVE  OnTheWay(x, CodeFor(k + 1), Meaning(b, mbb[k + 1]), k + 1)
<1>1. Good(x, b, k)
  BY Arrived
<1>2. LeadsToGood(x, CodeFor(k + 1), Meaning(b, mbb[k + 1]), k + 1)
  BY <1>1, InstrGood
<1>3. Same(x, x)
  BY <1>1, GoodParts, SameItself
<1>. QED
  BY <1>2, <1>3 DEF OnTheWay

-----------------------------------------------------------------------------
(* The block the walk leaves is a proper block, whatever the walk believed. *)
Proper(role, b, k, av) == b \in Seq(Instrs(role)) /\ k \in 1..Len(b) + 1 /\ av \in Memory(role)

LEMMA SpillRemembers ==
  ASSUME NEW role, NEW av \in Memory(role), NEW mi \in Instrs(role), mi.op \in Spills \cup Reloads
  PROVE  [av EXCEPT ![mi.fi] = mi.reg] \in Memory(role)
<1>1. /\ mi.fi \in Slots /\ role[mi.fi] \in {"byte", "word"}
      /\ role[mi.fi] = "byte" => mi.reg \in Regs
      /\ role[mi.fi] = "word" => mi.reg \in Pairs
  BY OperandFacts
<1>2. mi.reg \in Regs => mi.reg \notin Pairs
  BY PartsFacts
<1>3. mi.reg \in Kept /\ (mi.reg \in Regs => role[mi.fi] = "byte") /\ (mi.reg \in Pairs => role[mi.fi] = "word")
  BY <1>1, <1>2 DEF Kept
<1>. QED
  BY <1>1, <1>3, RememberFacts

LEMMA NothingRemembered ==
  ASSUME NEW role
  PROVE  NoAvail \in Memory(role) /\ \A av \in Memory(role), f \in Slots : [av EXCEPT ![f] = NoReg] \in Memory(role)
<1>1. NoReg \in Kept /\ NoReg \notin Regs /\ NoReg \notin Pairs
  BY PartsFacts DEF Kept
<1>2. NoAvail \in Memory(role)
  BY <1>1 DEF NoAvail, Memory
<1>3. \A av \in Memory(role), f \in Slots : [av EXCEPT ![f] = NoReg] \in Memory(role)
  BY <1>1, RememberFacts
<1>. QED
  BY <1>2, <1>3

(* What the instruction at k defines is registers and pairs.                *)
LEMMA DefsRegisters ==
  ASSUME NEW role, NEW mi \in Instrs(role), mi.op \notin Spills \cup Reloads \cup {"CALL"}
  PROVE  DefsOf(mi) \subseteq Regs
<1>1. mi.op \in Stores \cup Loads \cup {"LEA_FI", "MOV", "DEF", "USE"}
  BY OperandFacts
<1>2. mi.op \in Loads \cup {"LEA_FI", "MOV", "DEF"} => Parts(mi.reg) \subseteq Regs
  BY OperandFacts, PartsFacts
<1>3. "H" \in Regs /\ "L" \in Regs
  BY DEF Regs
<1>4. /\ mi.op \in {"DEF", "MOV"} => DefsOf(mi) = Parts(mi.reg)
      /\ mi.op \in Loads \cup {"LEA_FI"} => DefsOf(mi) = Parts(mi.reg) \cup {"H", "L"}
      /\ mi.op \in Stores => DefsOf(mi) = {"H", "L"}
      /\ mi.op = "USE" => DefsOf(mi) = {}
  BY DefsCases
<1>. QED
  BY <1>1, <1>2, <1>3, <1>4

LEMMA ProperErase ==
  ASSUME NEW role, NEW b, NEW k, NEW av, Proper(role, b, k, av), k <= Len(b)
  PROVE  Proper(role, Replace(b, k, <<>>), k, av)
<1>1. b \in Seq(Instrs(role)) /\ k \in 1..Len(b) /\ Len(b) \in Nat
  BY DEF Proper
<1>2. Replace(b, k, <<>>) \in Seq(Instrs(role)) /\ Len(Replace(b, k, <<>>)) = Len(b) - 1
  BY <1>1, EraseFacts
<1>3. k \in 1..Len(Replace(b, k, <<>>)) + 1
  BY <1>1, <1>2
<1>. QED
  BY <1>2, <1>3 DEF Proper

LEMMA ProperNext ==
  ASSUME NEW role, NEW b, NEW k, NEW av, Proper(role, b, k, av), k <= Len(b), NEW av2 \in Memory(role)
  PROVE  Proper(role, b, k + 1, av2)
<1>1. b \in Seq(Instrs(role)) /\ k \in 1..Len(b) /\ Len(b) \in Nat
  BY DEF Proper
<1>. QED
  BY <1>1 DEF Proper

LEMMA ProperForward ==
  ASSUME NEW role, NEW b, NEW k, NEW av, Proper(role, b, k, av), k <= Len(b),
         NEW d, NEW r, (d \in Regs /\ r \in Regs) \/ (d \in Pairs /\ r \in Pairs)
  PROVE  /\ Proper(role, Replace(b, k, Copies(d, r)), k + Len(Copies(d, r)),
                   IF r = d THEN av ELSE Invalidate(av, {d}))
         /\ Proper(role, Replace(b, k, Copies(d, r)), k, IF d = r THEN av ELSE Invalidate(av, {d}))
<1>. DEFINE cs == Copies(d, r)
            c == Replace(b, k, cs)
<1>1. b \in Seq(Instrs(role)) /\ k \in 1..Len(b) /\ Len(b) \in Nat /\ av \in Memory(role)
  BY DEF Proper
<1>2. cs \in Seq(Instrs(role))
  BY CopiesType
<1>. HIDE DEF cs
<1>3. c \in Seq(Instrs(role)) /\ Len(c) = Len(b) - 1 + Len(cs) /\ Len(cs) \in Nat
  <2>1. Len(cs) \in Nat
    BY <1>2
  <2>2. Replace(b, k, cs) \in Seq(Instrs(role)) /\ Len(Replace(b, k, cs)) = Len(b) - 1 + Len(cs)
    BY <1>1, <1>2, ReplaceFacts, Zenon
  <2>. QED
    BY <2>1, <2>2
<1>. HIDE DEF c
<1>4. k + Len(cs) \in 1..Len(c) + 1 /\ k \in 1..Len(c) + 1
  BY <1>1, <1>3
<1>5. Invalidate(av, {d}) \in Memory(role)
  <2>1. {d} \in SUBSET (Regs \cup Pairs)
    OBVIOUS
  <2>. QED
    BY <1>1, <2>1, InvalidateFacts
<1>6. (IF r = d THEN av ELSE Invalidate(av, {d})) \in Memory(role)
      /\ (IF d = r THEN av ELSE Invalidate(av, {d})) \in Memory(role)
  BY <1>1, <1>5
<1>7. Proper(role, c, k + Len(cs), IF r = d THEN av ELSE Invalidate(av, {d}))
  BY <1>3, <1>4, <1>6 DEF Proper
<1>8. Proper(role, c, k, IF d = r THEN av ELSE Invalidate(av, {d}))
  BY <1>3, <1>4, <1>6 DEF Proper
<1>. QED
  BY <1>7, <1>8 DEF c, cs

LEMMA ProperGoesOn ==
  ASSUME NEW role, Proper(role, mbb, walk, Avail), Forward, ~WalkDone
  PROVE  Proper(role, mbb', walk', Avail')
<1>1. ASSUME NEW b, NEW k, NEW av, Walk(b, k, av), Proper(role, b, k, av)
      PROVE  Proper(role, mbb', walk', Avail')
  BY <1>1 DEF Walk
<1>2. mbb \in Seq(Instrs(role)) /\ walk \in 1..Len(mbb) + 1 /\ Len(mbb) \in Nat /\ Avail \in Memory(role)
  BY DEF Proper
<1>3. Walking => walk <= Len(mbb) /\ walk \in 1..Len(mbb) /\ mbb[walk] \in Instrs(role)
  BY <1>2 DEF Walking
<1>4. CASE EraseSpill \/ EraseDeadReload
  <2>1. Walk(Replace(mbb, walk, <<>>), walk, Avail) /\ Walking
    BY <1>4 DEF EraseSpill, EraseDeadReload
  <2>. QED
    BY <1>1, <1>3, <2>1, ProperErase
<1>5. ASSUME NEW av \in Memory(role), Walk(mbb, walk + 1, av), Walking
      PROVE  Proper(role, mbb', walk', Avail')
  BY <1>1, <1>3, <1>5, ProperNext
<1>6. CASE RecordSpill
  <2>1. Walk(mbb, walk + 1, [Avail EXCEPT ![mbb[walk].fi] = mbb[walk].reg])
        /\ Walking /\ mbb[walk].op \in Spills
    BY <1>6 DEF RecordSpill, MI
  <2>2. [Avail EXCEPT ![mbb[walk].fi] = mbb[walk].reg] \in Memory(role)
    BY <1>2, <1>3, <2>1, SpillRemembers
  <2>. QED
    BY <1>5, <2>1, <2>2
<1>7. CASE KillSpill
  <2>1. Walk(mbb, walk + 1, [Avail EXCEPT ![mbb[walk].fi] = NoReg])
        /\ Walking /\ mbb[walk].op \in Spills
    BY <1>7 DEF KillSpill, MI
  <2>2. mbb[walk].fi \in Slots
    BY <1>3, <2>1, OperandFacts
  <2>3. [Avail EXCEPT ![mbb[walk].fi] = NoReg] \in Memory(role)
    BY <1>2, <2>2, NothingRemembered
  <2>. QED
    BY <1>5, <2>1, <2>3
<1>8. CASE KeepReload
  <2>. DEFINE mi == mbb[walk]
              av1 == Invalidate(Avail, {mi.reg})
              av2 == [av1 EXCEPT ![mi.fi] = mi.reg]
  <2>1. Walk(mbb, walk + 1, av2) /\ Walking /\ mi.op \in Reloads
    BY <1>8 DEF KeepReload, MI
  <2>2. mi.reg \in Regs \cup Pairs
    BY <1>3, <2>1, OperandFacts
  <2>3. av1 \in Memory(role)
    <3>1. {mi.reg} \in SUBSET (Regs \cup Pairs)
      BY <2>2
    <3>. QED
      BY <1>2, <3>1, InvalidateFacts
  <2>. HIDE DEF av1
  <2>4. av2 \in Memory(role)
    BY <1>3, <2>1, <2>3, SpillRemembers
  <2>. HIDE DEF av2
  <2>. QED
    BY <1>5, <2>1, <2>4
<1>9. CASE AtCall
  <2>1. Walk(mbb, walk + 1, NoAvail) /\ Walking
    BY <1>9 DEF AtCall
  <2>2. NoAvail \in Memory(role)
    BY NothingRemembered
  <2>. QED
    BY <1>5, <2>1, <2>2
<1>10. CASE AtOther
  <2>1. Walk(mbb, walk + 1, Invalidate(Avail, DefsOf(mbb[walk]))) /\ Walking
        /\ mbb[walk].op \notin Spills \cup Reloads \cup {"CALL"}
    BY <1>10 DEF AtOther, MI
  <2>2. DefsOf(mbb[walk]) \in SUBSET (Regs \cup Pairs)
    BY <1>3, <2>1, DefsRegisters
  <2>3. Invalidate(Avail, DefsOf(mbb[walk])) \in Memory(role)
    BY <1>2, <2>2, InvalidateFacts
  <2>. QED
    BY <1>5, <2>1, <2>3
<1>11. CASE ForwardReload
  <2>. DEFINE mi == mbb[walk]
              d == mi.reg
              r == Avail[mi.fi]
              c == Replace(mbb, walk, Copies(d, r))
              n == walk + Len(Copies(d, r))
              av2 == IF r = d THEN Avail ELSE Invalidate(Avail, {d})
  <2>1. Walk(c, n, av2) /\ Walking /\ mi.op \in Reloads /\ r # NoReg
    BY <1>11 DEF ForwardReload, MI
  <2>2. /\ mi.fi \in Slots /\ role[mi.fi] \in {"byte", "word"}
        /\ role[mi.fi] = "byte" => d \in Regs
        /\ role[mi.fi] = "word" => d \in Pairs
    BY <1>3, <2>1, OperandFacts
  <2>3. (d \in Regs /\ r \in Regs) \/ (d \in Pairs /\ r \in Pairs)
    <3>1. /\ r \in Regs \cup Pairs
          /\ r \in Regs => role[mi.fi] = "byte"
          /\ r \in Pairs => role[mi.fi] = "word"
      BY <1>2, <2>1, <2>2 DEF Memory, Kept
    <3>. QED
      BY <2>2, <3>1
  <2>4. walk <= Len(mbb)
    BY <1>3, <2>1
  <2>. HIDE DEF d, r
  <2>5. Proper(role, c, n, av2)
    BY <2>3, <2>4, ProperForward
  <2>. HIDE DEF c, n, av2
  <2>. QED
    BY <1>1, <2>1, <2>5
<1>12. CASE ForwardKilled
  <2>. DEFINE mi == mbb[walk]
              r == mi.reg
              d == mbb[walk + 1].reg
              u == Unkilled(mbb, walk)
  <2>1. /\ Walking /\ mi.op \in Spills /\ walk < Len(mbb)
        /\ mbb[walk + 1].op \in Reloads /\ mbb[walk + 1].fi = mi.fi
    BY <1>12 DEF ForwardKilled, ReloadedNext, MI
  <2>2. walk + 1 \in 1..Len(mbb) /\ mbb[walk + 1] \in Instrs(role)
    BY <1>2, <2>1
  <2>3. u \in Seq(Instrs(role)) /\ Len(u) = Len(mbb)
    BY <1>2, <1>3, <2>1, UnkilledFacts
  <2>4. (d \in Regs /\ r \in Regs) \/ (d \in Pairs /\ r \in Pairs)
    <3>1. /\ role[mi.fi] = "byte" => d \in Regs
          /\ role[mi.fi] = "word" => d \in Pairs
      BY <2>1, <2>2, OperandFacts
    <3>2. /\ role[mi.fi] \in {"byte", "word"}
          /\ role[mi.fi] = "byte" => r \in Regs
          /\ role[mi.fi] = "word" => r \in Pairs
      BY <1>3, <2>1, OperandFacts
    <3>. QED
      BY <3>1, <3>2
  <2>. DEFINE k == walk + 1
              c == Replace(u, k, Copies(d, r))
              av1 == IF d = r THEN Avail ELSE Invalidate(Avail, {d})
              av2 == [av1 EXCEPT ![mi.fi] = r]
  <2>. HIDE DEF u
  <2>5. Walk(c, k, av2)
    BY <1>12 DEF ForwardKilled, MI, Unkilled, u
  <2>6. k \in 1..Len(u) /\ k \in 1..Len(u) + 1 /\ k <= Len(u)
    BY <1>2, <2>2, <2>3
  <2>. HIDE DEF k
  <2>7. Proper(role, u, k, Avail)
    BY <1>2, <2>3, <2>6 DEF Proper
  <2>. HIDE DEF d, r
  <2>8. Proper(role, c, k, av1)
    BY <2>4, <2>6, <2>7, ProperForward
  <2>. HIDE DEF c, av1
  <2>9. av1 \in Memory(role)
    BY <2>8 DEF Proper
  <2>10. av2 \in Memory(role)
    BY <1>3, <2>1, <2>9, SpillRemembers DEF r
  <2>11. Proper(role, c, k, av2)
    BY <2>8, <2>10 DEF Proper
  <2>. HIDE DEF av2
  <2>. QED
    BY <1>1, <2>5, <2>11
<1>. QED
  BY <1>4, <1>6, <1>7, <1>8, <1>9, <1>10, <1>11, <1>12 DEF Forward

(* The rest of the code leads to the same places as long as the block and   *)
(* the frame stay.                                                          *)
LEMMA WayKept ==
  ASSUME mbb' = mbb, frame' = frame
  PROVE  /\ \A x, s, b, k : OnTheWay(x, s, b, k)' = OnTheWay(x, s, b, k)
         /\ \A b : Placed(b)' = Placed(b)
<1>1. \A x, b, k : Good(x, b, k)' = Good(x, b, k)
  BY GoodKept
<1>2. \A x, s, b, k : LeadsToGood(x, s, b, k)' = LeadsToGood(x, s, b, k)
  BY <1>1 DEF LeadsToGood
<1>3. \A x, s, b, k : OnTheWay(x, s, b, k)' = OnTheWay(x, s, b, k)
  BY <1>2 DEF OnTheWay
<1>4. \A b : Placed(b)' = Placed(b)
  <2>1. \A f \in Slots : SlotAddr(f)' = SlotAddr(f)
    BY DEF SlotAddr
  <2>. QED
    BY <2>1 DEF Placed
<1>. QED
  BY <1>3, <1>4

(* Nothing runs before the walk is over; then the machine follows.          *)
AtRest == pos = 0 /\ code = <<>> /\ m = MachineAtStart /\ a = AbstractAtStart /\ seen = <<>>
Running == pos \in 0..Len(mbb) /\ a \in State /\ Placed(a) /\ OnTheWay(m, code, a, pos)
LowerInv ==
  /\ Reservable(frame.reserved)
  /\ \E role \in [Slots -> Roles] : mbb \in Seq(Instrs(role)) /\ (walk # 0 => Proper(role, mbb, walk, Avail))
  /\ walk # 0 => AtRest
  /\ walk = 0 => Running

(* A reload of HL through A off the stack takes a dead A: where A is live,  *)
(* the expansion as written destroys it.                                    *)
AIsSpare == walk = 0 => \A k \in 1..Len(mbb) : SpareAt(k)

LEMMA LowerStarts == Init => LowerInv
<1>. SUFFICES ASSUME Init PROVE LowerInv
  OBVIOUS
<1>1. PICK in \in Inputs : mbb = in.mbb /\ frame \in in.frames
  BY DEF Init, ElimInit
<1>2. PICK role \in [Slots -> Roles] : mbb \in Seq(Instrs(role))
  BY <1>1, InputsAssumption DEF Instrs
<1>3. Reservable(frame.reserved)
  BY <1>1, InputsAssumption DEF Reservable
<1>4. walk = 1 /\ Avail = NoAvail
  BY DEF Init
<1>5. Len(mbb) \in Nat /\ 1 \in 1..Len(mbb) + 1
  BY <1>2
<1>6. Proper(role, mbb, walk, Avail)
  BY <1>2, <1>4, <1>5, NothingRemembered DEF Proper
<1>7. AtRest
  BY DEF Init, ElimInit, AtRest, MachineAtStart
<1>. QED
  BY <1>2, <1>3, <1>4, <1>6, <1>7 DEF LowerInv

LEMMA LowerForward ==
  ASSUME LowerInv, Forward, ~WalkDone
  PROVE  LowerInv'
<1>1. /\ walk # 0 /\ frame' = frame /\ pos' = pos /\ code' = code /\ m' = m /\ a' = a /\ seen' = seen
  BY DEF Forward, EraseSpill, RecordSpill, ForwardKilled, KillSpill, EraseDeadReload,
         ForwardReload, KeepReload, AtCall, AtOther, Walk, Walking
<1>2. PICK role \in [Slots -> Roles] : Proper(role, mbb, walk, Avail)
  BY <1>1 DEF LowerInv
<1>3. Proper(role, mbb', walk', Avail')
  BY <1>2, ProperGoesOn
<1>4. mbb' \in Seq(Instrs(role)) /\ walk' # 0
  BY <1>3 DEF Proper
<1>5. AbstractAtStart' = AbstractAtStart
  BY <1>1, StartKept
<1>6. AtRest'
  BY <1>1, <1>5 DEF AtRest, LowerInv, MachineAtStart
<1>7. Reservable(frame.reserved)'
  BY <1>1 DEF LowerInv, Reservable
<1>8. \E r \in [Slots -> Roles] : mbb' \in Seq(Instrs(r)) /\ (walk' # 0 => Proper(r, mbb', walk', Avail'))
  BY <1>3, <1>4
<1>. QED
  BY <1>4, <1>6, <1>7, <1>8 DEF LowerInv

LEMMA LowerSetsOff ==
  ASSUME LowerInv, WalkDone
  PROVE  LowerInv'
<1>1. PICK role \in [Slots -> Roles] : mbb \in Seq(Instrs(role)) /\ (walk # 0 => Proper(role, mbb, walk, Avail))
  BY DEF LowerInv
<1>2. Len(mbb) \in Nat
  BY <1>1
<1>3. /\ walk # 0 /\ walk' = 0
      /\ mbb' = mbb /\ frame' = frame /\ pos' = pos /\ code' = code /\ m' = m /\ a' = a
  <2>1. walk # 0
    BY <1>2 DEF WalkDone
  <2>. QED
    BY <2>1 DEF WalkDone, elimVars
<1>4. AtRest
  BY <1>3 DEF LowerInv
<1>5. Good(MachineAtStart, AbstractAtStart, 0) /\ Placed(AbstractAtStart) /\ AbstractAtStart \in State
  BY StartGood, StartType
<1>6. MachineAtStart \in Machine /\ Same(MachineAtStart, MachineAtStart)
  BY <1>5, GoodParts, SameItself
<1>7. OnTheWay(MachineAtStart, <<>>, AbstractAtStart, 0)
  <2>1. Leads(MachineAtStart, <<>>, MachineAtStart)
    BY <1>6, LeadsEmpty
  <2>. QED
    BY <1>5, <1>6, <2>1 DEF OnTheWay, LeadsToGood
<1>8. OnTheWay(m, code, a, pos)'
  <2>1. OnTheWay(m', code', a', pos')
    BY <1>3, <1>4, <1>7 DEF AtRest
  <2>. QED
    BY <1>3, <2>1, WayKept
<1>9. Placed(a)' /\ a' \in State /\ pos' \in 0..Len(mbb')
  <2>1. Placed(a') /\ a' \in State /\ pos' \in 0..Len(mbb')
    BY <1>2, <1>3, <1>4, <1>5 DEF AtRest
  <2>. QED
    BY <1>3, <2>1, WayKept
<1>10. Reservable(frame.reserved)'
  BY <1>3 DEF LowerInv, Reservable
<1>11. \E r \in [Slots -> Roles] : mbb' \in Seq(Instrs(r)) /\ (walk' # 0 => Proper(r, mbb', walk', Avail'))
  BY <1>1, <1>3
<1>12. Running'
  BY <1>8, <1>9 DEF Running
<1>. QED
  BY <1>3, <1>10, <1>11, <1>12 DEF LowerInv

LEMMA LowerRuns ==
  ASSUME LowerInv, AIsSpare, Run
  PROVE  LowerInv'
<1>1. walk = 0 /\ walk' = 0 /\ Avail' = Avail /\ mbb' = mbb /\ frame' = frame
  BY DEF Run, fwdVars, Eliminate, Execute, Interrupt
<1>2. Running /\ Reservable(frame.reserved)
  BY <1>1 DEF LowerInv
<1>3. PICK role \in [Slots -> Roles] : mbb \in Seq(Instrs(role))
  BY DEF LowerInv
<1>4. Len(mbb) \in Nat
  BY <1>3
<1>5. SUFFICES Running'
  <2>1. Reservable(frame.reserved)'
    BY <1>1, <1>2 DEF Reservable
  <2>2. \E r \in [Slots -> Roles] : mbb' \in Seq(Instrs(r)) /\ (walk' # 0 => Proper(r, mbb', walk', Avail'))
    BY <1>1, <1>3
  <2>. QED
    BY <1>1, <2>1, <2>2 DEF LowerInv
<1>6. ASSUME pos' \in 0..Len(mbb), a' \in State, Placed(a'), OnTheWay(m', code', a', pos')
      PROVE  Running'
  <2>1. OnTheWay(m, code, a, pos)' /\ Placed(a)'
    BY <1>1, <1>6, WayKept
  <2>. QED
    BY <1>1, <1>6, <2>1 DEF Running
<1>7. CASE Eliminate
  <2>. DEFINE mi == mbb[pos + 1]
  <2>1. /\ code = <<>> /\ pos \in 0..Len(mbb) - 1 /\ pos' = pos + 1 /\ code' = CodeFor(pos + 1)
        /\ a' = Meaning(a, mi) /\ m' = m
    BY <1>2, <1>4, <1>7 DEF Eliminate, Running
  <2>2. pos + 1 \in 1..Len(mbb)
    BY <1>4, <2>1
  <2>3. mi \in Instrs(role) /\ SpareAt(pos + 1)
    BY <1>1, <1>3, <2>2 DEF AIsSpare
  <2>4. a \in State /\ Placed(a) /\ OnTheWay(m, <<>>, a, pos)
    BY <1>2, <2>1 DEF Running
  <2>5. OnTheWay(m, CodeFor(pos + 1), Meaning(a, mi), pos + 1)
    BY <1>2, <1>4, <2>1, <2>3, <2>4, SetOut
  <2>6. a' \in State /\ a'.addr = a.addr
    BY <2>1, <2>3, <2>4, MeaningFacts
  <2>7. Placed(a')
    BY <2>4, <2>6 DEF Placed
  <2>8. OnTheWay(m', code', a', pos')
    BY <2>1, <2>5
  <2>. QED
    BY <1>6, <2>1, <2>2, <2>6, <2>7, <2>8
<1>8. CASE Execute
  <2>1. code # <<>> /\ m' = Exec(m, Head(code)) /\ code' = Tail(code) /\ pos' = pos /\ a' = a
    BY <1>8 DEF Execute
  <2>2. OnTheWay(Exec(m, Head(code)), Tail(code), a, pos)
    BY <1>2, <2>1, OneStepOn DEF Running
  <2>3. OnTheWay(m', code', a', pos')
    BY <2>1, <2>2
  <2>. QED
    BY <1>2, <1>6, <2>1, <2>3 DEF Running
<1>9. CASE Interrupt
  <2>1. m' = Interrupted(m, Junk) /\ code' = code /\ pos' = pos /\ a' = a
    BY <1>9 DEF Interrupt
  <2>2. OnTheWay(Interrupted(m, Junk), code, a, pos)
    BY <1>2, InterruptedOnTheWay DEF Running
  <2>3. OnTheWay(m', code', a', pos')
    BY <2>1, <2>2
  <2>. QED
    BY <1>2, <1>6, <2>1, <2>3 DEF Running
<1>. QED
  BY <1>7, <1>8, <1>9 DEF Run

LEMMA LowerStays ==
  ASSUME LowerInv, UNCHANGED vars
  PROVE  LowerInv'
<1>1. /\ mbb' = mbb /\ frame' = frame /\ pos' = pos /\ code' = code /\ m' = m /\ a' = a
      /\ walk' = walk /\ Avail' = Avail /\ seen' = seen
  BY DEF vars, elimVars, fwdVars
<1>2. \E r \in [Slots -> Roles] : mbb' \in Seq(Instrs(r)) /\ (walk' # 0 => Proper(r, mbb', walk', Avail'))
  BY <1>1 DEF LowerInv
<1>3. Reservable(frame.reserved)'
  BY <1>1 DEF LowerInv, Reservable
<1>4. walk' # 0 => AtRest'
  <2>1. AbstractAtStart' = AbstractAtStart
    BY <1>1, StartKept
  <2>. QED
    BY <1>1, <2>1 DEF LowerInv, AtRest, MachineAtStart
<1>5. walk' = 0 => Running'
  <2>1. SUFFICES ASSUME walk = 0 PROVE Running'
    BY <1>1
  <2>2. Running
    BY <2>1 DEF LowerInv
  <2>3. OnTheWay(m', code', a', pos') /\ Placed(a')
    BY <1>1, <2>2 DEF Running
  <2>4. OnTheWay(m, code, a, pos)' /\ Placed(a)'
    BY <1>1, <2>3, WayKept
  <2>. QED
    BY <1>1, <2>2, <2>4 DEF Running
<1>. QED
  BY <1>2, <1>3, <1>4, <1>5 DEF LowerInv

LEMMA LowerStep == LowerInv /\ AIsSpare /\ [Next]_vars => LowerInv'
<1>. SUFFICES ASSUME LowerInv, AIsSpare, [Next]_vars PROVE LowerInv'
  OBVIOUS
<1>1. CASE Forward /\ ~WalkDone
  BY <1>1, LowerForward
<1>2. CASE WalkDone
  BY <1>2, LowerSetsOff
<1>3. CASE Run
  BY <1>3, LowerRuns
<1>4. CASE UNCHANGED vars
  BY <1>4, LowerStays
<1>. QED
  BY <1>1, <1>2, <1>3, <1>4 DEF Next

(* Wherever an instruction of the block ends, the machine is where the      *)
(* abstract one is.                                                         *)
LEMMA EndsGood ==
  ASSUME LowerInv, code = <<>>
  PROVE  Good(m, a, pos)
<1>1. CASE walk # 0
  <2>1. AtRest
    BY <1>1 DEF LowerInv
  <2>2. Good(MachineAtStart, AbstractAtStart, pos)
    BY StartGood
  <2>. QED
    BY <2>1, <2>2 DEF AtRest
<1>2. CASE walk = 0
  <2>1. OnTheWay(m, <<>>, a, pos)
    BY <1>2 DEF LowerInv, Running
  <2>. QED
    BY <2>1, Arrived
<1>. QED
  BY <1>1, <1>2

LEMMA LowerMeansSlots == LowerInv => SlotsKept
<1>. SUFFICES ASSUME LowerInv, code = <<>>
     PROVE  /\ SlotsAgree(m, a) /\ m.sp = SP0
            /\ \A x \in Addr : m.mem[x] # MemAtStart[x] =>
                 (x < SP0 /\ x >= SP0 - 4) \/ \E fi \in Slots : x \in {SlotAddr(fi), SlotAddr(fi) + 1}
  BY DEF SlotsKept, SlotsAgree
<1>1. SlotsAgree(m, a) /\ m.sp = SP0 /\ OnlySlots(m)
  BY EndsGood, GoodParts
<1>2. \A x \in FreeStack : x < SP0 /\ x >= SP0 - 4
  <2>1. SP0 \in Nat /\ Addr \subseteq Nat
    BY StackFacts DEF Addr
  <2>. QED
    BY <2>1 DEF FreeStack
<1>. QED
  BY <1>1, <1>2 DEF OnlySlots

LEMMA LowerMeansLive == LowerInv => LiveKept
<1>. SUFFICES ASSUME LowerInv, code = <<>> PROVE RegsAgree(m, a, pos)
  BY DEF LiveKept, RegsAgree
<1>. QED
  BY EndsGood, GoodParts

(* What the running block reads.                                            *)
ReadSoFar(k) == Trace(mbb, AbstractAtStart)[k].out
ReadInv ==
  walk = 0 => /\ a = Trace(mbb, AbstractAtStart)[pos].s
              /\ seen = ReadSoFar(pos) \/ Undefined(ReadSoFar(pos))

LEMMA UseReads ==
  ASSUME NEW role, NEW k \in 0..(Len(mbb) - 1), Len(mbb) \in Nat, mbb[k + 1] \in Instrs(role),
         mbb[k + 1].op = "USE", NEW b \in State, NEW x, Good(x, b, k)
  PROVE  /\ Read(b, mbb[k + 1].reg) \in Seq(Values)
         /\ \/ Read(x, mbb[k + 1].reg) = Read(b, mbb[k + 1].reg)
            \/ \E j \in 1..Len(Read(b, mbb[k + 1].reg)) : Read(b, mbb[k + 1].reg)[j] = Undef
<1>. DEFINE mi == mbb[k + 1]
            r == mi.reg
<1>1. r \in Regs \cup Pairs /\ UsesOf(mi) = Parts(r)
  BY OperandFacts, UsesCases
<1>2. RegsAgree(x, b, k)
  BY GoodParts
<1>3. \A z \in Regs : z \in UsesOf(mi) /\ b.reg[z] # Undef => x.reg[z] = b.reg[z]
  BY <1>2, UsedAgree
<1>. HIDE DEF mi, r
<1>4. /\ Read(b, r) \in Seq(Values)
      /\ r \in Pairs => /\ Len(Read(b, r)) = 2
                        /\ Read(b, r)[1] = b.reg[Hi[r]] /\ Read(b, r)[2] = b.reg[Lo[r]]
      /\ r \in Regs => Len(Read(b, r)) = 1 /\ Read(b, r)[1] = b.reg[r]
  BY <1>1, ReadFacts
<1>. SUFFICES Read(x, r) = Read(b, r) \/ \E j \in 1..Len(Read(b, r)) : Read(b, r)[j] = Undef
  BY <1>4 DEF r, mi
<1>5. CASE r \in Regs
  <2>1. Parts(r) = {r} /\ r \notin Pairs
    BY <1>5, PartsFacts
  <2>2. b.reg[r] # Undef => x.reg[r] = b.reg[r]
    BY <1>1, <1>3, <1>5, <2>1
  <2>3. Read(x, r) = <<x.reg[r]>> /\ Read(b, r) = <<b.reg[r]>>
    BY <2>1 DEF Read
  <2>4. CASE b.reg[r] = Undef
    <3>1. Len(Read(b, r)) = 1 /\ Read(b, r)[1] = b.reg[r]
      BY <1>4, <1>5
    <3>2. 1 \in 1..Len(Read(b, r))
      BY <3>1
    <3>3. Read(b, r)[1] = Undef
      BY <3>1, <2>4
    <3>. QED
      BY <3>2, <3>3
  <2>5. CASE b.reg[r] # Undef
    BY <2>2, <2>3, <2>5
  <2>. QED
    BY <2>4, <2>5
<1>6. CASE r \in Pairs
  <2>1. Parts(r) = {Hi[r], Lo[r]} /\ Hi[r] \in Regs /\ Lo[r] \in Regs
    BY <1>6, PartsFacts
  <2>2. /\ b.reg[Hi[r]] # Undef => x.reg[Hi[r]] = b.reg[Hi[r]]
        /\ b.reg[Lo[r]] # Undef => x.reg[Lo[r]] = b.reg[Lo[r]]
    BY <1>1, <1>3, <2>1
  <2>3. Read(x, r) = <<x.reg[Hi[r]], x.reg[Lo[r]]>> /\ Read(b, r) = <<b.reg[Hi[r]], b.reg[Lo[r]]>>
    BY <1>6 DEF Read
  <2>4. CASE b.reg[Hi[r]] = Undef
    <3>1. Len(Read(b, r)) = 2 /\ Read(b, r)[1] = b.reg[Hi[r]]
      BY <1>4, <1>6
    <3>2. 1 \in 1..Len(Read(b, r))
      BY <3>1
    <3>3. Read(b, r)[1] = Undef
      BY <3>1, <2>4
    <3>. QED
      BY <3>2, <3>3
  <2>5. CASE b.reg[Lo[r]] = Undef
    <3>1. Len(Read(b, r)) = 2 /\ Read(b, r)[2] = b.reg[Lo[r]]
      BY <1>4, <1>6
    <3>2. 2 \in 1..Len(Read(b, r))
      BY <3>1
    <3>3. Read(b, r)[2] = Undef
      BY <3>1, <2>5
    <3>. QED
      BY <3>2, <3>3
  <2>6. CASE b.reg[Hi[r]] # Undef /\ b.reg[Lo[r]] # Undef
    BY <2>2, <2>3, <2>6
  <2>. QED
    BY <2>4, <2>5, <2>6
<1>. QED
  BY <1>1, <1>5, <1>6

LEMMA ReadOn ==
  ASSUME NEW role, mbb \in Seq(Instrs(role)), NEW k \in 0..(Len(mbb) - 1), NEW x,
         NEW b, b = Trace(mbb, AbstractAtStart)[k].s, Good(x, b, k),
         NEW out, out = ReadSoFar(k) \/ Undefined(ReadSoFar(k))
  PROVE  /\ Meaning(b, mbb[k + 1]) = Trace(mbb, AbstractAtStart)[k + 1].s
         /\ LET out2 == IF mbb[k + 1].op = "USE" THEN Append(out, Read(x, mbb[k + 1].reg)) ELSE out
            IN out2 = ReadSoFar(k + 1) \/ Undefined(ReadSoFar(k + 1))
<1>. DEFINE t == Trace(mbb, AbstractAtStart)
            mi == mbb[k + 1]
            e == Read(b, mi.reg)
            d == Read(x, mi.reg)
<1>1. Len(mbb) \in Nat /\ k \in Nat /\ k + 1 \in 1..Len(mbb) /\ k \in 0..Len(mbb) /\ k + 1 - 1 = k
  OBVIOUS
<1>2. mi \in Instrs(role)
  BY <1>1
<1>3. b \in State
  BY <1>1, StartType, TraceType
<1>4. ReadSoFar(k) \in Reads
  BY <1>1, StartType, TraceReads DEF ReadSoFar
<1>5. t[k + 1] = After(t[k], mi)
  <2>1. \A i \in 1..Len(mbb) : t[i] = After(t[i - 1], mbb[i])
    BY <1>1, TraceRuns
  <2>. QED
    BY <1>1, <2>1
<1>6. t[k + 1].s = Meaning(b, mi) /\ ReadSoFar(k + 1) = IF mi.op = "USE" THEN Append(ReadSoFar(k), e) ELSE ReadSoFar(k)
  BY <1>5 DEF After, ReadSoFar
<1>7. mi.op = "USE" => e \in Seq(Values) /\ (d = e \/ \E j \in 1..Len(e) : e[j] = Undef)
  BY <1>1, <1>2, <1>3, UseReads
<1>8. CASE mi.op = "USE"
  <2>. HIDE DEF e, d
  <2>1. e \in Seq(Values) /\ (d = e \/ \E j \in 1..Len(e) : e[j] = Undef)
    BY <1>7, <1>8
  <2>2. /\ Undefined(ReadSoFar(k)) => Undefined(Append(ReadSoFar(k), e))
        /\ (\E j \in 1..Len(e) : e[j] = Undef) => Undefined(Append(ReadSoFar(k), e))
    BY <1>4, <2>1, UndefinedStays
  <2>3. ReadSoFar(k + 1) = Append(ReadSoFar(k), e)
    BY <1>6, <1>8
  <2>4. Append(out, d) = ReadSoFar(k + 1) \/ Undefined(ReadSoFar(k + 1))
    BY <2>1, <2>2, <2>3
  <2>. QED
    BY <1>6, <1>8, <2>4 DEF d
<1>9. CASE mi.op # "USE"
  <2>1. ReadSoFar(k + 1) = ReadSoFar(k)
    BY <1>6, <1>9
  <2>. QED
    BY <1>6, <1>9, <2>1
<1>. QED
  BY <1>8, <1>9

LEMMA ReadKept ==
  ASSUME mbb' = mbb, frame' = frame
  PROVE  \A k : Trace(mbb, AbstractAtStart)[k]' = Trace(mbb, AbstractAtStart)[k] /\ ReadSoFar(k)' = ReadSoFar(k)
<1>1. AbstractAtStart' = AbstractAtStart
  BY StartKept
<1>2. Trace(mbb, AbstractAtStart)' = Trace(mbb, AbstractAtStart)
  <2>1. \E b, s : b = mbb /\ s = AbstractAtStart
    OBVIOUS
  <2>2. PICK b, s : b = mbb /\ s = AbstractAtStart
    BY <2>1
  <2>3. mbb' = b /\ AbstractAtStart' = s
    BY <1>1, <2>2
  <2>4. Trace(mbb, AbstractAtStart)' = Trace(b, s)
    BY <2>3 DEF Trace
  <2>5. Trace(mbb, AbstractAtStart) = Trace(b, s)
    BY <2>2
  <2>. QED
    BY <2>4, <2>5
<1>3. \A k : Trace(mbb, AbstractAtStart)[k]' = Trace(mbb, AbstractAtStart)[k]
  BY <1>2
<1>. QED
  BY <1>2, <1>3 DEF ReadSoFar

LEMMA ReadStep == LowerInv /\ ReadInv /\ [Next]_vars => ReadInv'
<1>. SUFFICES ASSUME LowerInv, ReadInv, [Next]_vars, walk' = 0 PROVE ReadInv'
  BY DEF ReadInv
<1>1. PICK role \in [Slots -> Roles] : mbb \in Seq(Instrs(role)) /\ (walk # 0 => Proper(role, mbb, walk, Avail))
  BY DEF LowerInv
<1>2. Len(mbb) \in Nat
  BY <1>1
<1>3. ASSUME mbb' = mbb, frame' = frame, a' = Trace(mbb, AbstractAtStart)[pos'].s,
             seen' = ReadSoFar(pos') \/ Undefined(ReadSoFar(pos'))
      PROVE  ReadInv'
  <2>1. \A k : Trace(mbb, AbstractAtStart)[k]' = Trace(mbb, AbstractAtStart)[k] /\ ReadSoFar(k)' = ReadSoFar(k)
    BY <1>3, ReadKept
  <2>2. \A o : Undefined(o)' = Undefined(o)
    BY DEF Undefined
  <2>. QED
    BY <1>3, <2>1, <2>2 DEF ReadInv
<1>4. CASE Forward /\ ~WalkDone
  <2>1. walk # 0
    BY <1>4 DEF Forward, EraseSpill, RecordSpill, ForwardKilled, KillSpill, EraseDeadReload,
           ForwardReload, KeepReload, AtCall, AtOther, Walk, Walking
  <2>2. Proper(role, mbb', walk', Avail')
    BY <1>1, <1>4, <2>1, ProperGoesOn
  <2>3. walk' # 0
    BY <2>2 DEF Proper
  <2>. QED
    BY <2>3
<1>5. CASE WalkDone
  <2>1. /\ walk # 0 /\ mbb' = mbb /\ frame' = frame /\ pos' = pos /\ a' = a /\ seen' = seen
    BY <1>2, <1>5 DEF WalkDone, elimVars
  <2>2. pos = 0 /\ a = AbstractAtStart /\ seen = <<>>
    BY <2>1 DEF LowerInv, AtRest
  <2>3. Trace(mbb, AbstractAtStart)[0] = [s |-> AbstractAtStart, out |-> <<>>]
    BY <1>2, TraceRuns
  <2>4. a' = Trace(mbb, AbstractAtStart)[pos'].s
    BY <2>1, <2>2, <2>3
  <2>5. seen' = ReadSoFar(pos')
    BY <2>1, <2>2, <2>3 DEF ReadSoFar
  <2>. QED
    BY <1>3, <2>1, <2>4, <2>5
<1>6. CASE Run /\ Eliminate
  <2>. DEFINE mi == mbb[pos + 1]
              out2 == IF mi.op = "USE" THEN Append(seen, Read(m, mi.reg)) ELSE seen
  <2>1. walk = 0
    BY <1>6 DEF Run
  <2>2. code = <<>> /\ pos < Len(mbb) /\ pos' = pos + 1 /\ a' = Meaning(a, mi) /\ mbb' = mbb /\ frame' = frame
    BY <1>6 DEF Eliminate
  <2>3. seen' = out2
    BY <1>6, <2>2 DEF Run, Execute, Interrupt
  <2>4. pos \in 0..(Len(mbb) - 1)
    BY <1>2, <2>1, <2>2 DEF LowerInv, Running
  <2>5. Good(m, a, pos)
    BY <2>2, EndsGood
  <2>6. a = Trace(mbb, AbstractAtStart)[pos].s /\ (seen = ReadSoFar(pos) \/ Undefined(ReadSoFar(pos)))
    BY <2>1 DEF ReadInv
  <2>7. /\ Meaning(a, mi) = Trace(mbb, AbstractAtStart)[pos + 1].s
        /\ out2 = ReadSoFar(pos + 1) \/ Undefined(ReadSoFar(pos + 1))
    BY <1>1, <2>4, <2>5, <2>6, ReadOn
  <2>. HIDE DEF out2
  <2>. QED
    BY <1>3, <2>2, <2>3, <2>7
<1>7. CASE (Run /\ ~Eliminate) \/ UNCHANGED vars
  <2>1. walk = 0 /\ mbb' = mbb /\ frame' = frame /\ pos' = pos /\ a' = a /\ seen' = seen
    BY <1>7 DEF Run, Execute, Interrupt, vars, elimVars, fwdVars
  <2>. QED
    BY <1>3, <2>1 DEF ReadInv
<1>. QED
  BY <1>4, <1>5, <1>6, <1>7 DEF Next

LEMMA ReadIsRight == LowerInv /\ ReadInv /\ GivenReads /\ KnownReads => ReloadsRight
<1>. SUFFICES ASSUME ReadInv, GivenReads, KnownReads, walk = 0, pos = Len(mbb)
              PROVE  seen = Observed(given, AbstractAtStart)
  BY DEF ReloadsRight
<1>1. seen = ReadSoFar(pos) \/ Undefined(ReadSoFar(pos))
  BY DEF ReadInv
<1>2. ReadSoFar(pos) = Observed(given, AbstractAtStart)
  BY DEF ReadSoFar, GivenReads, Observed
<1>. QED
  BY <1>1, <1>2 DEF KnownReads

-----------------------------------------------------------------------------
(* Whatever the block and the frame: when no 16-bit load of HL off the      *)
(* stack meets a live A, every slot holds the last value spilled to it      *)
(* after every instruction of the lowered block, whenever an interrupt came *)
(* in, and nothing but the slots and the free stack below SP is written.    *)
THEOREM SlotsStayRight == Spec /\ []AIsSpare => []SlotsKept
<1>1. Init => LowerInv
  BY LowerStarts
<1>2. LowerInv /\ AIsSpare /\ [Next]_vars => LowerInv'
  BY LowerStep
<1>3. LowerInv => SlotsKept
  BY LowerMeansSlots
<1>. QED
  BY <1>1, <1>2, <1>3, PTL DEF Spec

(* Under the same condition, whatever the liveness scan spares: an          *)
(* expansion destroys only registers that are dead or that the instruction  *)
(* declares clobbered, and never a reserved one.                            *)
THEOREM LiveStaysRight == Spec /\ []AIsSpare => []LiveKept
<1>1. Init => LowerInv
  BY LowerStarts
<1>2. LowerInv /\ AIsSpare /\ [Next]_vars => LowerInv'
  BY LowerStep
<1>3. LowerInv => LiveKept
  BY LowerMeansLive
<1>. QED
  BY <1>1, <1>2, <1>3, PTL DEF Spec

(* The two passes together: the 8080 code that runs at the end reads what   *)
(* the block reads as register allocation left it, as long as the block     *)
(* reads no register after its kill and kills none the walk still remembers *)
(* for another slot.                                                        *)
THEOREM ReloadsStayRight ==
  Spec /\ []AIsSpare /\ []KillsForgotten /\ []KnownReads => []ReloadsRight
<1>1. Init => LowerInv /\ ReadInv
  BY LowerStarts DEF Init, ReadInv
<1>2. LowerInv /\ AIsSpare /\ [Next]_vars => LowerInv'
  BY LowerStep
<1>3. LowerInv /\ ReadInv /\ [Next]_vars => ReadInv'
  BY ReadStep
<1>4. Spec /\ []KillsForgotten /\ []KnownReads => []GivenReads
  BY WalkKeepsReads
<1>5. LowerInv /\ ReadInv /\ GivenReads /\ KnownReads => ReloadsRight
  BY ReadIsRight
<1>. QED
  BY <1>1, <1>2, <1>3, <1>4, <1>5, PTL DEF Spec
=============================================================================
