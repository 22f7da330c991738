-------------------------- MODULE FrameLoweringProofs --------------------------
(***************************************************************************)
(* Theorems about a function on the run-time stack, for every frame, every  *)
(* prototype and every place an interrupt may come at: arguments, locals,   *)
(* copied bytes, results and the stack pointer.                             *)
(***************************************************************************)
EXTENDS FrameLowering, SequenceTheorems, TLAPS

(* Bytes and addresses.                                                     *)
LEMMA Monotone ==
  ASSUME NEW n \in Nat, NEW x \in Int, NEW y \in Int, x <= y
  PROVE  n * x <= n * y
<1>1. y - x \in Nat
  OBVIOUS
<1>2. n * (y - x) \in Nat
  <2>. DEFINE d == y - x
  <2>1. d \in Nat
    BY <1>1
  <2>. HIDE DEF d
  <2>2. n * d \in Nat
    BY <2>1
  <2>. QED
    BY <2>2 DEF d
<1>3. n * (y - x) = n * y - n * x
  OBVIOUS
<1>4. n * y \in Int /\ n * x \in Int
  OBVIOUS
<1>. QED
  BY <1>2, <1>3, <1>4

LEMMA OneQuotient ==
  ASSUME NEW n \in Nat \ {0}, NEW h \in Int, NEW q \in Int, NEW l \in 0..(n - 1), NEW r \in 0..(n - 1),
         n * h + l = n * q + r
  PROVE  h = q /\ l = r
<1>1. n * h \in Int /\ n * q \in Int /\ n * (h + 1) = n * h + n /\ n * (q + 1) = n * q + n
  OBVIOUS
<1>2. ~(h < q)
  <2>1. SUFFICES ASSUME h + 1 <= q PROVE FALSE
    OBVIOUS
  <2>2. n * (h + 1) <= n * q
    BY <2>1, Monotone
  <2>. QED
    BY <1>1, <2>2
<1>3. ~(q < h)
  <2>1. SUFFICES ASSUME q + 1 <= h PROVE FALSE
    OBVIOUS
  <2>2. n * (q + 1) <= n * h
    BY <2>1, Monotone
  <2>. QED
    BY <1>1, <2>2
<1>. QED
  BY <1>2, <1>3, <1>1

LEMMA ByteFacts ==
  /\ ByteSize \in Nat /\ ByteSize >= 8 /\ ByteSize * ByteSize \in Nat
  /\ Byte \subseteq Nat /\ Addr \subseteq Nat /\ 0..7 \subseteq Byte
  /\ \A h, l \in Byte : /\ h * ByteSize + l \in Addr
                        /\ (h * ByteSize + l) \div ByteSize = h
                        /\ (h * ByteSize + l) % ByteSize = l
  /\ \A v \in Addr : /\ v \div ByteSize \in Byte /\ v % ByteSize \in Byte
                     /\ (v \div ByteSize) * ByteSize + (v % ByteSize) = v
<1>. DEFINE N == ByteSize
<1>1. N \in Nat /\ N >= 8
  BY ByteSizeAssumption
<1>. HIDE DEF N
<1>2. N * N \in Nat
  BY <1>1
<1>3. ASSUME NEW h \in 0..(N - 1), NEW l \in 0..(N - 1)
      PROVE  /\ h * N + l \in 0..(N * N - 1)
             /\ (h * N + l) \div N = h /\ (h * N + l) % N = l
  <2>1. h * N \in Nat /\ h * N <= (N - 1) * N
    BY <1>1
  <2>2. (N - 1) * N = N * N - N
    BY <1>1
  <2>3. h * N + l \in 0..(N * N - 1)
    BY <1>1, <1>2, <2>1, <2>2
  <2>. DEFINE x == h * N + l
              q == x \div N
              r == x % N
  <2>4. x \in Nat
    BY <1>1, <2>1
  <2>5. q \in Int /\ r \in 0..(N - 1) /\ x = N * q + r
    <3>. HIDE DEF x
    <3>. QED
      BY <1>1, <2>4
  <2>. HIDE DEF q, r
  <2>6. N * h + l = N * q + r
    <3>1. h * N = N * h
      BY <1>1
    <3>2. x = N * q + r
      BY <2>5
    <3>. QED
      BY <3>1, <3>2
  <2>7. h \in Int
    BY <1>1
  <2>8. h = q /\ l = r
    BY <1>1, <2>5, <2>6, <2>7, OneQuotient
  <2>. QED
    BY <2>3, <2>8 DEF q, r
<1>4. ASSUME NEW v \in 0..(N * N - 1)
      PROVE  /\ v \div N \in 0..(N - 1) /\ v % N \in 0..(N - 1)
             /\ (v \div N) * N + (v % N) = v
  <2>. DEFINE q == v \div N
  <2>1. q \in Int /\ v % N \in 0..(N - 1) /\ v = N * q + (v % N)
    BY <1>1, <1>2
  <2>6. v >= 0 /\ v < N * N /\ N * q \in Int /\ v \in Int
    <3>1. N * q \in Int
      BY <1>1, <2>1
    <3>. QED
      BY <1>2, <3>1
  <2>. HIDE DEF q
  <2>2. q >= 0
    <3>1. SUFFICES ASSUME q <= -1 PROVE FALSE
      BY <2>1
    <3>2. N * q <= N * (-1) /\ N * (-1) = -N
      BY <1>1, <2>1, <3>1, Monotone
    <3>. DEFINE y == N * q
                r == v % N
    <3>3. y \in Int /\ r \in 0..(N - 1) /\ v = y + r
      BY <2>1, <2>6
    <3>. HIDE DEF y, r
    <3>. QED
      BY <1>1, <1>2, <2>6, <3>2, <3>3 DEF y
  <2>3. q < N
    <3>1. SUFFICES ASSUME q >= N PROVE FALSE
      BY <1>1, <2>1
    <3>2. N * N <= N * q
      BY <1>1, <2>1, <3>1, Monotone
    <3>. DEFINE y == N * q
                r == v % N
    <3>3. y \in Int /\ r \in 0..(N - 1) /\ v = y + r
      BY <2>1, <2>6
    <3>. HIDE DEF y, r
    <3>. QED
      BY <1>1, <1>2, <2>6, <3>2, <3>3 DEF y
  <2>4. N * q = q * N
    BY <1>1, <2>1
  <2>5. q \in 0..(N - 1) /\ q * N + (v % N) = v
    BY <1>1, <1>2, <2>1, <2>2, <2>3, <2>4
  <2>. QED
    BY <2>1, <2>5 DEF q
<1>. QED
  BY <1>1, <1>2, <1>3, <1>4 DEF N, Byte, Addr

LEMMA WrapFacts ==
  /\ \A v \in Addr : Wrap(v) = v
  /\ \A v \in Addr : \A k \in 0..v : /\ Wrap(v + ByteSize * ByteSize - k) = v - k
                                     /\ Wrap((ByteSize * ByteSize - k) + v) = v - k
                                     /\ v - k \in Addr
<1>. DEFINE W == ByteSize * ByteSize
<1>1. W \in Nat /\ Addr = 0..(W - 1) /\ \A v : Wrap(v) = v % W
  BY ByteFacts DEF Addr, Wrap
<1>. HIDE DEF W
<1>2. \A v \in 0..(W - 1) : v % W = v
  BY <1>1
<1>3. ASSUME NEW v \in 0..(W - 1), NEW k \in 0..v
      PROVE  (v + W - k) % W = v - k /\ ((W - k) + v) % W = v - k /\ v - k \in 0..(W - 1)
  <2>1. v - k \in 0..(W - 1)
    BY <1>1
  <2>2. (v - k) % W = v - k
    BY <1>1, <2>1
  <2>. DEFINE u == v - k
  <2>3. v + W - k = u + W /\ (W - k) + v = u + W
    BY <1>1
  <2>4. (u + W) % W = u
    <3>. HIDE DEF u
    <3>1. u \in 0..(W - 1)
      BY <2>1 DEF u
    <3>. QED
      BY <1>1, <3>1
  <2>. QED
    BY <2>1, <2>3, <2>4
<1>. QED
  BY <1>1, <1>2, <1>3 DEF W

-----------------------------------------------------------------------------
AllRegs == Regs \cup {"F"}

(* The parts of a machine, and a machine with others of them.               *)
WithReg(x, g) == [reg |-> g, sp |-> x.sp, mem |-> x.mem]
WithMem(x, h) == [reg |-> x.reg, sp |-> x.sp, mem |-> h]

LEMMA MachineParts ==
  ASSUME NEW x \in Machine
  PROVE  /\ x.reg \in [AllRegs -> Byte] /\ x.sp \in Addr /\ x.mem \in [Addr -> Byte]
         /\ x = [reg |-> x.reg, sp |-> x.sp, mem |-> x.mem]
<1>. DEFINE R == [AllRegs -> Byte]
            T == [Addr -> Byte]
<1>1. x \in [reg : R, sp : Addr, mem : T]
  BY DEF Machine, AllRegs
<1>. HIDE DEF R, T
<1>2. /\ x.reg \in R /\ x.sp \in Addr /\ x.mem \in T
      /\ x = [reg |-> x.reg, sp |-> x.sp, mem |-> x.mem]
  BY <1>1
<1>. QED
  BY <1>2 DEF R, T

LEMMA MachineOf ==
  ASSUME NEW g \in [AllRegs -> Byte], NEW s \in Addr, NEW h \in [Addr -> Byte]
  PROVE  [reg |-> g, sp |-> s, mem |-> h] \in Machine
<1>. DEFINE R == [AllRegs -> Byte]
            T == [Addr -> Byte]
<1>1. g \in R /\ h \in T
  OBVIOUS
<1>. HIDE DEF R, T
<1>2. [reg |-> g, sp |-> s, mem |-> h] \in [reg : R, sp : Addr, mem : T]
  BY <1>1
<1>. QED
  BY <1>2 DEF Machine, R, T, AllRegs

(* From x to y the stack pointer stays, registers change only in S and      *)
(* memory only in X.                                                        *)
Changed(x, y, S, X) ==
  /\ x \in Machine /\ y \in Machine
  /\ y.sp = x.sp
  /\ \A r \in AllRegs \ S : y.reg[r] = x.reg[r]
  /\ \A i \in Addr \ X : y.mem[i] = x.mem[i]

(* Other registers, or another memory.                                      *)
LEMMA RegEffect ==
  ASSUME NEW x \in Machine, NEW g \in [AllRegs -> Byte], NEW S, \A r \in AllRegs \ S : g[r] = x.reg[r]
  PROVE  Changed(x, WithReg(x, g), S, {}) /\ WithReg(x, g).reg = g /\ WithReg(x, g).mem = x.mem
<1>1. WithReg(x, g) \in Machine
  BY MachineParts, MachineOf DEF WithReg
<1>2. WithReg(x, g).reg = g /\ WithReg(x, g).sp = x.sp /\ WithReg(x, g).mem = x.mem
  BY DEF WithReg
<1>. QED
  BY <1>1, <1>2 DEF Changed

LEMMA MemEffect ==
  ASSUME NEW x \in Machine, NEW h \in [Addr -> Byte], NEW X, \A i \in Addr \ X : h[i] = x.mem[i]
  PROVE  Changed(x, WithMem(x, h), {}, X) /\ WithMem(x, h).mem = h /\ WithMem(x, h).reg = x.reg
<1>1. WithMem(x, h) \in Machine
  BY MachineParts, MachineOf DEF WithMem
<1>2. WithMem(x, h).mem = h /\ WithMem(x, h).sp = x.sp /\ WithMem(x, h).reg = x.reg
  BY DEF WithMem
<1>. QED
  BY <1>1, <1>2 DEF Changed

LEMMA PairFacts ==
  /\ \A p \in Pairs \cup {"PSW"} : Hi[p] \in AllRegs /\ Lo[p] \in AllRegs /\ Hi[p] # Lo[p]
  /\ Hi["HL"] = "H" /\ Lo["HL"] = "L" /\ Hi["DE"] = "D" /\ Lo["DE"] = "E" /\ Hi["BC"] = "B" /\ Lo["BC"] = "C"
  /\ Hi["PSW"] = "A" /\ Lo["PSW"] = "F" /\ {"HL", "DE", "BC"} = Pairs
  /\ \A x \in Machine : \A p \in Pairs : Pair(x, p) \in Addr
<1>1. /\ \A p \in Pairs \cup {"PSW"} : Hi[p] \in AllRegs /\ Lo[p] \in AllRegs /\ Hi[p] # Lo[p]
      /\ Hi["HL"] = "H" /\ Lo["HL"] = "L" /\ Hi["DE"] = "D" /\ Lo["DE"] = "E" /\ Hi["BC"] = "B" /\ Lo["BC"] = "C"
      /\ Hi["PSW"] = "A" /\ Lo["PSW"] = "F" /\ {"HL", "DE", "BC"} = Pairs
  BY DEF Pairs, Hi, Lo, Regs, AllRegs
<1>2. ASSUME NEW x \in Machine, NEW p \in Pairs PROVE Pair(x, p) \in Addr
  <2>1. x.reg[Hi[p]] \in Byte /\ x.reg[Lo[p]] \in Byte
    BY <1>1, MachineParts
  <2>. QED
    BY <2>1, ByteFacts DEF Pair
<1>. QED
  BY <1>1, <1>2

(* A pair given the value v; memory read and written.                       *)
LEMMA SetPairFacts ==
  ASSUME NEW g \in [AllRegs -> Byte], NEW p \in Pairs \cup {"PSW"}, NEW v \in Addr
  PROVE  /\ SetPair(g, p, v) \in [AllRegs -> Byte]
         /\ SetPair(g, p, v)[Hi[p]] = v \div ByteSize /\ SetPair(g, p, v)[Lo[p]] = v % ByteSize
         /\ \A r \in AllRegs : r \notin {Hi[p], Lo[p]} => SetPair(g, p, v)[r] = g[r]
<1>. DEFINE q == v \div ByteSize
            l == v % ByteSize
<1>1. q \in Byte /\ l \in Byte
  BY ByteFacts
<1>. HIDE DEF q, l
<1>2. SetPair(g, p, v) = [g EXCEPT ![Hi[p]] = q, ![Lo[p]] = l]
  BY DEF SetPair, q, l
<1>. QED
  BY <1>1, <1>2, PairFacts DEF q, l

LEMMA MemoryAt ==
  ASSUME NEW h \in [Addr -> Byte], NEW n \in Addr, NEW v \in Byte
  PROVE  /\ At(h, n) = h[n]
         /\ StoreAt(h, n, v) \in [Addr -> Byte] /\ StoreAt(h, n, v)[n] = v
         /\ \A i \in Addr \ {n} : StoreAt(h, n, v)[i] = h[i]
BY DEF At, StoreAt

LEMMA WordAt ==
  ASSUME NEW h \in [Addr -> Byte], NEW n \in Addr, n + 1 \in Addr, NEW hi \in Byte, NEW lo \in Byte
  PROVE  /\ PutWord(h, n, hi, lo) \in [Addr -> Byte]
         /\ PutWord(h, n, hi, lo)[n] = lo /\ PutWord(h, n, hi, lo)[n + 1] = hi
         /\ \A i \in Addr \ {n, n + 1} : PutWord(h, n, hi, lo)[i] = h[i]
<1>1. n # n + 1
  BY ByteFacts
<1>2. PutWord(h, n, hi, lo) = StoreAt(StoreAt(h, n, lo), n + 1, hi)
  BY WrapFacts DEF PutWord
<1>. DEFINE h1 == StoreAt(h, n, lo)
            h2 == StoreAt(h1, n + 1, hi)
<1>3. h1 \in [Addr -> Byte] /\ h1[n] = lo /\ \A i \in Addr \ {n} : h1[i] = h[i]
  <2>1. h1 \in [Addr -> Byte]
    BY MemoryAt
  <2>2. h1[n] = lo
    BY MemoryAt
  <2>3. \A i \in Addr \ {n} : h1[i] = h[i]
    BY MemoryAt
  <2>. QED
    BY <2>1, <2>2, <2>3
<1>. HIDE DEF h1
<1>4. h2 \in [Addr -> Byte] /\ h2[n + 1] = hi /\ \A i \in Addr \ {n + 1} : h2[i] = h1[i]
  <2>1. h2 \in [Addr -> Byte]
    BY <1>3, MemoryAt
  <2>2. h2[n + 1] = hi
    BY <1>3, MemoryAt
  <2>3. \A i \in Addr \ {n + 1} : h2[i] = h1[i]
    BY <1>3, MemoryAt
  <2>. QED
    BY <2>1, <2>2, <2>3
<1>. HIDE DEF h2
<1>5. PutWord(h, n, hi, lo) = h2
  BY <1>2 DEF h1, h2
<1>. QED
  BY <1>1, <1>3, <1>4, <1>5

-----------------------------------------------------------------------------
(* The effect of each instruction.                                          *)
LEMMA MovEffect ==
  ASSUME NEW x \in Machine, NEW d \in Regs, NEW s \in Regs
  PROVE  /\ Changed(x, Exec(x, Mov(d, s)), {d}, {})
         /\ Exec(x, Mov(d, s)).reg[d] = x.reg[s] /\ Exec(x, Mov(d, s)).mem = x.mem
<1>. DEFINE g == [x.reg EXCEPT ![d] = x.reg[s]]
<1>1. /\ g \in [AllRegs -> Byte] /\ g[d] = x.reg[s]
      /\ \A r \in AllRegs \ {d} : g[r] = x.reg[r]
  BY MachineParts DEF AllRegs
<1>2. Exec(x, Mov(d, s)) = WithReg(x, g)
  BY MachineParts DEF Exec, AluOps, Rotates, Instr, WithReg, WithMem, Mov
<1>. HIDE DEF g
<1>. QED
  BY <1>1, <1>2, RegEffect

LEMMA MovFromMEffect ==
  ASSUME NEW x \in Machine, NEW d \in Regs
  PROVE  /\ Changed(x, Exec(x, MovFromM(d)), {d}, {})
         /\ Exec(x, MovFromM(d)).reg[d] = x.mem[Pair(x, "HL")] /\ Exec(x, MovFromM(d)).mem = x.mem
<1>. DEFINE v == x.mem[Pair(x, "HL")]
            g == [x.reg EXCEPT ![d] = v]
<1>1. At(x.mem, Pair(x, "HL")) = v /\ v \in Byte
  BY MachineParts, PairFacts DEF At
<1>2. Exec(x, MovFromM(d)) = WithReg(x, g)
  BY <1>1, MachineParts DEF Exec, AluOps, Rotates, Instr, WithReg, WithMem, MovFromM
<1>3. /\ g \in [AllRegs -> Byte] /\ g[d] = v
      /\ \A r \in AllRegs \ {d} : g[r] = x.reg[r]
  BY <1>1, MachineParts DEF AllRegs
<1>. HIDE DEF g
<1>. QED
  BY <1>2, <1>3, RegEffect

LEMMA MovToMEffect ==
  ASSUME NEW x \in Machine, NEW s \in Regs
  PROVE  /\ Changed(x, Exec(x, MovToM(s)), {}, {Pair(x, "HL")})
         /\ Exec(x, MovToM(s)).mem[Pair(x, "HL")] = x.reg[s] /\ Exec(x, MovToM(s)).reg = x.reg
<1>. DEFINE n == Pair(x, "HL")
            h == StoreAt(x.mem, n, x.reg[s])
<1>1. n \in Addr /\ x.reg[s] \in Byte /\ x.mem \in [Addr -> Byte]
  BY MachineParts, PairFacts DEF AllRegs
<1>. HIDE DEF n
<1>2. h \in [Addr -> Byte] /\ h[n] = x.reg[s] /\ \A i \in Addr \ {n} : h[i] = x.mem[i]
  BY <1>1, MemoryAt
<1>3. Exec(x, MovToM(s)) = WithMem(x, h)
  BY MachineParts DEF Exec, AluOps, Rotates, Instr, WithReg, WithMem, MovToM, n
<1>. HIDE DEF h
<1>. QED
  BY <1>2, <1>3, MemEffect DEF n

(* A pair p that gets the value v.                                          *)
LEMMA PairEffect ==
  ASSUME NEW x \in Machine, NEW p \in Pairs, NEW v \in Addr
  PROVE  LET y == WithReg(x, SetPair(x.reg, p, v)) IN
         /\ Changed(x, y, {Hi[p], Lo[p]}, {}) /\ y.mem = x.mem
         /\ y.reg[Hi[p]] = v \div ByteSize /\ y.reg[Lo[p]] = v % ByteSize /\ Pair(y, p) = v
<1>. DEFINE g == SetPair(x.reg, p, v)
            q == v \div ByteSize
            l == v % ByteSize
            y == WithReg(x, g)
<1>1. /\ g \in [AllRegs -> Byte]
      /\ g[Hi[p]] = q /\ g[Lo[p]] = l
      /\ \A r \in AllRegs : r \notin {Hi[p], Lo[p]} => g[r] = x.reg[r]
  <2>1. x.reg \in [AllRegs -> Byte]
    BY MachineParts
  <2>2. g \in [AllRegs -> Byte]
    BY <2>1, SetPairFacts
  <2>0. p \in Pairs \cup {"PSW"}
    OBVIOUS
  <2>3. g[Hi[p]] = q /\ g[Lo[p]] = l
    BY Zenon, <2>0, <2>1, SetPairFacts
  <2>4. \A r \in AllRegs : r \notin {Hi[p], Lo[p]} => g[r] = x.reg[r]
    BY Zenon, <2>0, <2>1, SetPairFacts
  <2>. QED
    BY <2>2, <2>3, <2>4
<1>2. q * ByteSize + l = v
  BY ByteFacts
<1>. HIDE DEF g, q, l
<1>3. Changed(x, y, {Hi[p], Lo[p]}, {}) /\ y.mem = x.mem /\ y.reg = g
  BY <1>1, RegEffect
<1>. HIDE DEF y
<1>4. Pair(y, p) = v
  BY <1>1, <1>2, <1>3 DEF Pair
<1>. QED
  BY <1>1, <1>3, <1>4 DEF q, l, y, g

LEMMA LxiEffect ==
  ASSUME NEW x \in Machine, NEW p \in Pairs, NEW v \in Addr
  PROVE  /\ Changed(x, Exec(x, Lxi(p, v)), {Hi[p], Lo[p]}, {}) /\ Exec(x, Lxi(p, v)).mem = x.mem
         /\ Exec(x, Lxi(p, v)).reg[Hi[p]] = v \div ByteSize /\ Exec(x, Lxi(p, v)).reg[Lo[p]] = v % ByteSize
         /\ Pair(Exec(x, Lxi(p, v)), p) = v
<1>1. p # "SP"
  BY DEF Pairs
<1>2. Exec(x, Lxi(p, v)) = WithReg(x, SetPair(x.reg, p, v))
  BY <1>1, MachineParts DEF Exec, AluOps, Rotates, Instr, WithReg, Lxi
<1>. DEFINE y == WithReg(x, SetPair(x.reg, p, v))
<1>3. /\ Changed(x, y, {Hi[p], Lo[p]}, {}) /\ y.mem = x.mem
      /\ y.reg[Hi[p]] = v \div ByteSize /\ y.reg[Lo[p]] = v % ByteSize /\ Pair(y, p) = v
  BY PairEffect
<1>. QED
  BY <1>2, <1>3

LEMMA InxEffect ==
  ASSUME NEW x \in Machine, Pair(x, "HL") + 1 \in Addr
  PROVE  /\ Changed(x, Exec(x, Inx("HL")), {"H", "L"}, {}) /\ Exec(x, Inx("HL")).mem = x.mem
         /\ Pair(Exec(x, Inx("HL")), "HL") = Pair(x, "HL") + 1
<1>. DEFINE v == Pair(x, "HL") + 1
<1>1. Wrap(v) = v
  BY WrapFacts
<1>2. Exec(x, Inx("HL")) = WithReg(x, SetPair(x.reg, "HL", v))
  BY <1>1, MachineParts DEF Exec, AluOps, Rotates, Instr, WithReg, Inx
<1>3. v \in Addr /\ "HL" \in Pairs
  BY PairFacts
<1>. HIDE DEF v
<1>. QED
  BY <1>2, <1>3, PairEffect, PairFacts DEF v

LEMMA DadSpEffect ==
  ASSUME NEW x \in Machine, NEW v \in Addr, Wrap(Pair(x, "HL") + x.sp) = v
  PROVE  /\ Changed(x, Exec(x, DadSp), {"H", "L", "F"}, {}) /\ Exec(x, DadSp).mem = x.mem
         /\ Pair(Exec(x, DadSp), "HL") = v
<1>. DEFINE sum == Pair(x, "HL") + x.sp
            cy == IF sum = v THEN 0 ELSE 1
            g == SetPair(x.reg, "HL", v)
            f1 == (g["F"] - Carry(g["F"])) + cy
            k == [g EXCEPT !["F"] = f1]
<1>2. Exec(x, DadSp) = WithReg(x, SetCarry(g, cy))
  BY MachineParts DEF Exec, AluOps, Rotates, Instr, WithReg, DadSp, Dad
<1>3. x.reg \in [AllRegs -> Byte] /\ "HL" \in Pairs \cup {"PSW"}
  BY MachineParts, PairFacts
<1>4. /\ g \in [AllRegs -> Byte]
      /\ g[Hi["HL"]] = v \div ByteSize /\ g[Lo["HL"]] = v % ByteSize
      /\ \A r \in AllRegs : r \notin {Hi["HL"], Lo["HL"]} => g[r] = x.reg[r]
  BY Zenon, <1>3, SetPairFacts
<1>a. cy \in {0, 1}
  OBVIOUS
<1>. HIDE DEF g, cy, sum
<1>5. /\ g["H"] = v \div ByteSize /\ g["L"] = v % ByteSize
      /\ \A r \in AllRegs \ {"H", "L"} : g[r] = x.reg[r]
  BY <1>4, PairFacts
<1>6. f1 \in Byte
  <2>1. g["F"] \in Byte
    BY <1>4 DEF Regs, AllRegs
  <2>. DEFINE n == g["F"]
  <2>2. n \in 0..(ByteSize - 1) /\ ByteSize \in Nat /\ ByteSize % 8 = 0
    BY <2>1, ByteFacts, ByteSizeAssumption DEF Byte
  <2>. HIDE DEF n
  <2>3. n - (n % 2) + cy \in 0..(ByteSize - 1)
    BY <1>a, <2>2
  <2>. QED
    BY <2>3 DEF n, Byte, Carry
<1>7. k \in [AllRegs -> Byte] /\ \A r \in Regs : k[r] = g[r]
  BY <1>4, <1>6 DEF Regs, AllRegs
<1>8. Exec(x, DadSp) = WithReg(x, k)
  <2>1. SetCarry(g, cy) = k
    BY DEF SetCarry
  <2>. QED
    BY <1>2, <2>1
<1>. HIDE DEF k
<1>9. \A r \in AllRegs \ {"H", "L", "F"} : k[r] = x.reg[r]
  BY <1>5, <1>7 DEF AllRegs
<1>10. /\ Changed(x, WithReg(x, k), {"H", "L", "F"}, {})
       /\ WithReg(x, k).reg = k /\ WithReg(x, k).mem = x.mem
  BY <1>7, <1>9, RegEffect
<1>11. Pair(WithReg(x, k), "HL") = v
  <2>1. k["H"] = v \div ByteSize /\ k["L"] = v % ByteSize
    BY <1>5, <1>7 DEF Regs
  <2>2. Pair(WithReg(x, k), "HL") = (v \div ByteSize) * ByteSize + (v % ByteSize)
    BY <1>10, <2>1, PairFacts DEF Pair
  <2>. QED
    BY <2>2, ByteFacts
<1>. QED
  BY <1>8, <1>10, <1>11

LEMMA XchgEffect ==
  ASSUME NEW x \in Machine
  PROVE  LET y == Exec(x, Xchg) IN
         /\ Changed(x, y, {"D", "E", "H", "L"}, {}) /\ y.mem = x.mem
         /\ y.reg["D"] = x.reg["H"] /\ y.reg["E"] = x.reg["L"]
         /\ y.reg["H"] = x.reg["D"] /\ y.reg["L"] = x.reg["E"]
<1>. DEFINE y == Exec(x, Xchg)
            u == Pair(x, "DE")
            v == Pair(x, "HL")
            g == SetPair(x.reg, "HL", u)
            k == SetPair(g, "DE", v)
<1>1. Exec(x, Xchg) = WithReg(x, k)
  BY MachineParts DEF Exec, AluOps, Rotates, Instr, WithReg, Xchg
<1>2. u \in Addr /\ v \in Addr
  BY PairFacts
<1>3. /\ x.reg \in [AllRegs -> Byte] /\ "HL" \in Pairs \cup {"PSW"} /\ "DE" \in Pairs \cup {"PSW"}
      /\ {"H", "L", "D", "E"} \subseteq AllRegs
  BY MachineParts, PairFacts DEF Regs, AllRegs
<1>4. /\ u \div ByteSize = x.reg["D"] /\ u % ByteSize = x.reg["E"]
      /\ v \div ByteSize = x.reg["H"] /\ v % ByteSize = x.reg["L"]
  <2>1. /\ u = x.reg["D"] * ByteSize + x.reg["E"]
        /\ v = x.reg["H"] * ByteSize + x.reg["L"]
        /\ x.reg["D"] \in Byte /\ x.reg["E"] \in Byte /\ x.reg["H"] \in Byte /\ x.reg["L"] \in Byte
    BY <1>3, PairFacts DEF Pair
  <2>. HIDE DEF u, v
  <2>2. u \div ByteSize = x.reg["D"] /\ u % ByteSize = x.reg["E"]
    BY <2>1, ByteFacts
  <2>3. v \div ByteSize = x.reg["H"] /\ v % ByteSize = x.reg["L"]
    BY <2>1, ByteFacts
  <2>. QED
    BY <2>2, <2>3
<1>. HIDE DEF u, v
<1>5. /\ g \in [AllRegs -> Byte]
      /\ g[Hi["HL"]] = u \div ByteSize /\ g[Lo["HL"]] = u % ByteSize
      /\ \A r \in AllRegs : r \notin {Hi["HL"], Lo["HL"]} => g[r] = x.reg[r]
  BY Zenon, <1>2, <1>3, SetPairFacts
<1>. HIDE DEF g
<1>6. /\ k \in [AllRegs -> Byte]
      /\ k[Hi["DE"]] = v \div ByteSize /\ k[Lo["DE"]] = v % ByteSize
      /\ \A r \in AllRegs : r \notin {Hi["DE"], Lo["DE"]} => k[r] = g[r]
  <2>1. g \in [AllRegs -> Byte] /\ "DE" \in Pairs \cup {"PSW"} /\ v \in Addr
    BY <1>2, <1>3, <1>5
  <2>. QED
    BY <2>1, SetPairFacts, Zenon
<1>. HIDE DEF k
<1>7. /\ k["D"] = x.reg["H"] /\ k["E"] = x.reg["L"]
      /\ k["H"] = x.reg["D"] /\ k["L"] = x.reg["E"]
      /\ \A r \in AllRegs \ {"D", "E", "H", "L"} : k[r] = x.reg[r]
  BY <1>3, <1>4, <1>5, <1>6, PairFacts
<1>8. Changed(x, WithReg(x, k), {"D", "E", "H", "L"}, {}) /\ WithReg(x, k).reg = k /\ WithReg(x, k).mem = x.mem
  BY <1>6, <1>7, RegEffect
<1>. QED
  BY <1>1, <1>7, <1>8

(* The word just below the stack pointer.                                   *)
LEMMA BelowSp ==
  ASSUME NEW s \in Addr, s >= 2
  PROVE  /\ s - 2 \in Addr /\ (s - 2) + 1 = s - 1 /\ s - 1 \in Addr
         /\ Wrap(s + ByteSize * ByteSize - 2) = s - 2
<1>1. s \in Nat
  BY ByteFacts
<1>2. 1 \in 0..s /\ 2 \in 0..s /\ (s - 2) + 1 = s - 1
  BY <1>1
<1>. QED
  BY <1>2, WrapFacts

LEMMA PushEffect ==
  ASSUME NEW x \in Machine, NEW p \in Pairs \cup {"PSW"}, x.sp >= 2
  PROVE  LET y == Exec(x, Push(p)) IN
         /\ y \in Machine /\ y.sp = x.sp - 2 /\ y.reg = x.reg
         /\ x.sp - 2 \in Addr /\ x.sp - 1 \in Addr
         /\ y.mem[x.sp - 2] = x.reg[Lo[p]] /\ y.mem[x.sp - 1] = x.reg[Hi[p]]
         /\ \A i \in Addr \ {x.sp - 2, x.sp - 1} : y.mem[i] = x.mem[i]
<1>. DEFINE n == x.sp - 2
            hi == x.reg[Hi[p]]
            lo == x.reg[Lo[p]]
            h == PutWord(x.mem, n, hi, lo)
<1>1. x.reg \in [AllRegs -> Byte] /\ x.sp \in Addr /\ x.mem \in [Addr -> Byte]
  BY MachineParts
<1>2. n \in Addr /\ n + 1 \in Addr /\ n + 1 = x.sp - 1
  BY <1>1, BelowSp
<1>a. hi \in Byte /\ lo \in Byte
  BY <1>1, PairFacts
<1>3. Wrap(x.sp + ByteSize * ByteSize - 2) = n
  BY <1>1, BelowSp
<1>4. Exec(x, Push(p)) = [reg |-> x.reg, sp |-> n, mem |-> h]
  <2>1. Exec(x, Push(p)) = [reg |-> x.reg, sp |-> Wrap(x.sp + ByteSize * ByteSize - 2),
          mem |-> PutWord(x.mem, Wrap(x.sp + ByteSize * ByteSize - 2), x.reg[Hi[p]], x.reg[Lo[p]])]
    <3>1. x = [reg |-> x.reg, sp |-> x.sp, mem |-> x.mem]
      BY MachineParts
    <3>. QED
      BY <3>1 DEF Exec, AluOps, Rotates, Instr, Push
  <2>. QED
    BY <1>3, <2>1
<1>. HIDE DEF n, hi, lo
<1>5. /\ h \in [Addr -> Byte] /\ h[n] = lo /\ h[n + 1] = hi
      /\ \A i \in Addr \ {n, n + 1} : h[i] = x.mem[i]
  <2>1. h \in [Addr -> Byte]
    BY <1>1, <1>2, <1>a, WordAt
  <2>2. h[n] = lo
    BY <1>1, <1>2, <1>a, WordAt
  <2>3. h[n + 1] = hi
    BY <1>1, <1>2, <1>a, WordAt
  <2>4. \A i \in Addr \ {n, n + 1} : h[i] = x.mem[i]
    BY <1>1, <1>2, <1>a, WordAt
  <2>. QED
    BY <2>1, <2>2, <2>3, <2>4
<1>. HIDE DEF h
<1>6. [reg |-> x.reg, sp |-> n, mem |-> h] \in Machine
  BY <1>1, <1>2, <1>5, MachineOf
<1>7. /\ Exec(x, Push(p)).sp = n /\ Exec(x, Push(p)).reg = x.reg /\ Exec(x, Push(p)).mem = h
      /\ Exec(x, Push(p)) \in Machine
  BY <1>4, <1>6
<1>. QED
  BY <1>2, <1>5, <1>7 DEF n, hi, lo

LEMMA PopEffect ==
  ASSUME NEW x \in Machine, NEW p \in Pairs \cup {"PSW"}, x.sp + 2 \in Addr
  PROVE  LET y == Exec(x, Pop(p)) IN
         /\ y \in Machine /\ y.sp = x.sp + 2 /\ y.mem = x.mem
         /\ y.reg[Hi[p]] = x.mem[x.sp + 1] /\ y.reg[Lo[p]] = x.mem[x.sp]
         /\ \A r \in AllRegs : r \notin {Hi[p], Lo[p]} => y.reg[r] = x.reg[r]
<1>. DEFINE hi == x.mem[x.sp + 1]
            lo == x.mem[x.sp]
            v == hi * ByteSize + lo
            g == SetPair(x.reg, p, v)
<1>1. x.reg \in [AllRegs -> Byte] /\ x.sp \in Addr /\ x.mem \in [Addr -> Byte]
  BY MachineParts
<1>2. x.sp + 1 \in Addr /\ hi \in Byte /\ lo \in Byte
  BY <1>1, ByteFacts DEF Addr
<1>3. Word(x, x.sp) = v /\ Wrap(x.sp + 2) = x.sp + 2
  BY <1>1, <1>2, WrapFacts DEF Word, At
<1>4. Exec(x, Pop(p)) = [reg |-> g, sp |-> x.sp + 2, mem |-> x.mem]
  <2>1. Exec(x, Pop(p)) = [reg |-> SetPair(x.reg, p, Word(x, x.sp)), sp |-> Wrap(x.sp + 2), mem |-> x.mem]
    <3>1. x = [reg |-> x.reg, sp |-> x.sp, mem |-> x.mem]
      BY MachineParts
    <3>. QED
      BY <3>1 DEF Exec, AluOps, Rotates, Instr, Pop
  <2>. QED
    BY <1>3, <2>1
<1>. HIDE DEF hi, lo
<1>5. v \in Addr /\ v \div ByteSize = hi /\ v % ByteSize = lo
  BY <1>2, ByteFacts
<1>. HIDE DEF v
<1>6. /\ g \in [AllRegs -> Byte]
      /\ g[Hi[p]] = v \div ByteSize /\ g[Lo[p]] = v % ByteSize
      /\ \A r \in AllRegs : r \notin {Hi[p], Lo[p]} => g[r] = x.reg[r]
  BY Zenon, <1>1, <1>5, SetPairFacts
<1>. HIDE DEF g
<1>7. [reg |-> g, sp |-> x.sp + 2, mem |-> x.mem] \in Machine
  BY <1>1, <1>6, MachineOf
<1>8. /\ Exec(x, Pop(p)).sp = x.sp + 2 /\ Exec(x, Pop(p)).reg = g /\ Exec(x, Pop(p)).mem = x.mem
      /\ Exec(x, Pop(p)) \in Machine
  BY <1>4, <1>7
<1>9. \A r \in AllRegs : r \notin {Hi[p], Lo[p]} => Exec(x, Pop(p)).reg[r] = x.reg[r]
  BY <1>6, <1>8
<1>. QED
  BY <1>5, <1>6, <1>8, <1>9 DEF hi, lo

LEMMA ShldEffect ==
  ASSUME NEW x \in Machine, NEW n \in Addr, n + 1 \in Addr
  PROVE  /\ Changed(x, Exec(x, Shld(n)), {}, {n, n + 1}) /\ Exec(x, Shld(n)).reg = x.reg
         /\ Exec(x, Shld(n)).mem[n] = x.reg["L"] /\ Exec(x, Shld(n)).mem[n + 1] = x.reg["H"]
<1>. DEFINE h == PutWord(x.mem, n, x.reg["H"], x.reg["L"])
<1>1. x.reg["H"] \in Byte /\ x.reg["L"] \in Byte /\ x.mem \in [Addr -> Byte]
  BY MachineParts DEF Regs, AllRegs
<1>2. /\ h \in [Addr -> Byte] /\ h[n] = x.reg["L"] /\ h[n + 1] = x.reg["H"]
      /\ \A i \in Addr \ {n, n + 1} : h[i] = x.mem[i]
  <2>1. h \in [Addr -> Byte]
    BY <1>1, WordAt
  <2>2. h[n] = x.reg["L"]
    BY <1>1, WordAt
  <2>3. h[n + 1] = x.reg["H"]
    BY <1>1, WordAt
  <2>4. \A i \in Addr \ {n, n + 1} : h[i] = x.mem[i]
    BY <1>1, WordAt
  <2>. QED
    BY <2>1, <2>2, <2>3, <2>4
<1>3. Exec(x, Shld(n)) = WithMem(x, h)
  BY MachineParts DEF Exec, AluOps, Rotates, Instr, WithMem, Shld
<1>. HIDE DEF h
<1>. QED
  BY <1>2, <1>3, MemEffect

(* The stack pointer alone.                                                 *)
LEMMA SpEffect ==
  ASSUME NEW x \in Machine, NEW v \in Addr
  PROVE  SetSp(x, v) \in Machine /\ SetSp(x, v).sp = v /\ SetSp(x, v).reg = x.reg /\ SetSp(x, v).mem = x.mem
<1>1. SetSp(x, v) = [reg |-> x.reg, sp |-> v, mem |-> x.mem]
  BY MachineParts, WrapFacts DEF SetSp
<1>2. [reg |-> x.reg, sp |-> v, mem |-> x.mem] \in Machine
  BY MachineParts, MachineOf
<1>. QED
  BY <1>1, <1>2

LEMMA LxiSpEffect ==
  ASSUME NEW x \in Machine, NEW v \in Addr
  PROVE  Exec(x, Lxi("SP", v)) = SetSp(x, v)
BY MachineParts DEF Exec, AluOps, Rotates, Instr, SetSp, Lxi

LEMMA InxSpEffect ==
  ASSUME NEW x \in Machine
  PROVE  Exec(x, Inx("SP")) = SetSp(x, x.sp + 1)
BY MachineParts DEF Exec, AluOps, Rotates, Instr, SetSp, Inx

LEMMA DcxSpEffect ==
  ASSUME NEW x \in Machine, x.sp >= 1
  PROVE  Exec(x, Dcx("SP")) = SetSp(x, x.sp - 1)
<1>1. x.sp \in Addr /\ x.sp \in Nat /\ 1 \in 0..x.sp
  BY MachineParts, ByteFacts
<1>2. Wrap(x.sp + ByteSize * ByteSize - 1) = x.sp - 1 /\ x.sp - 1 \in Addr
  BY <1>1, WrapFacts
<1>3. Exec(x, Dcx("SP")) = SetSp(x, x.sp + ByteSize * ByteSize - 1)
  BY MachineParts DEF Exec, AluOps, Rotates, Instr, SetSp, Dcx
<1>4. Wrap(x.sp - 1) = x.sp - 1
  BY <1>2, WrapFacts
<1>. QED
  BY <1>2, <1>3, <1>4 DEF SetSp

LEMMA SphlEffect ==
  ASSUME NEW x \in Machine
  PROVE  Exec(x, Sphl) = SetSp(x, Pair(x, "HL"))
BY MachineParts DEF Exec, AluOps, Rotates, Instr, SetSp, Sphl

(* An interrupt writes just below the stack pointer.                        *)
LEMMA InterruptEffect ==
  ASSUME NEW x \in Machine, x.sp >= 2
  PROVE  LET y == Interrupted(x, Junk) IN
         /\ y \in Machine /\ y.sp = x.sp /\ y.reg = x.reg
         /\ \A a \in Addr \ {x.sp - 2, x.sp - 1} : y.mem[a] = x.mem[a]
<1>. DEFINE n == x.sp - 2
            h == PutWord(x.mem, n, Junk, Junk)
<1>1. x.reg \in [AllRegs -> Byte] /\ x.sp \in Addr /\ x.mem \in [Addr -> Byte] /\ Junk \in Byte
  BY MachineParts, MachineAssumption
<1>2. n \in Addr /\ n + 1 \in Addr /\ n + 1 = x.sp - 1
  BY <1>1, BelowSp
<1>3. Wrap(x.sp + ByteSize * ByteSize - 2) = n
  BY <1>1, BelowSp
<1>4. Interrupted(x, Junk) = [reg |-> x.reg, sp |-> x.sp, mem |-> h]
  <2>1. Interrupted(x, Junk) = [reg |-> x.reg, sp |-> x.sp,
          mem |-> PutWord(x.mem, Wrap(x.sp + ByteSize * ByteSize - 2), Junk, Junk)]
    BY MachineParts DEF Interrupted
  <2>. QED
    BY <1>3, <2>1
<1>. HIDE DEF n
<1>5. h \in [Addr -> Byte] /\ \A i \in Addr \ {n, n + 1} : h[i] = x.mem[i]
  <2>1. h \in [Addr -> Byte]
    BY <1>1, <1>2, WordAt
  <2>2. \A i \in Addr \ {n, n + 1} : h[i] = x.mem[i]
    BY <1>1, <1>2, WordAt
  <2>. QED
    BY <2>1, <2>2
<1>. HIDE DEF h
<1>6. [reg |-> x.reg, sp |-> x.sp, mem |-> h] \in Machine
  BY <1>1, <1>5, MachineOf
<1>. QED
  BY <1>2, <1>4, <1>5, <1>6 DEF n

-----------------------------------------------------------------------------
(* Code is reasoned about with sets of configurations: the machine and      *)
(* whether interrupts are enabled.  A set is stable when no interrupt leads *)
(* out of it.                                                               *)
Config == [m : Machine, ie : BOOLEAN]

Stable(P) ==
  \A c \in P : c.ie => [m |-> Interrupted(c.m, Junk), ie |-> c.ie] \in P

Step(fn, c, i) ==
  [m |-> Effect(fn, c.m, i),
   ie |-> IF i.op = "EI" THEN TRUE ELSE IF i.op = "DI" THEN FALSE ELSE c.ie]

(* What the properties ask of the machine x before instruction i.           *)
ArgsHold(fn, x) ==
  \A n \in fn.used :
    LET w == Where(fn.args)[n] IN
    IF w.reg # "" THEN \A r \in Parts(w.reg) : x.reg[r] = RegNumber[r]
    ELSE StackArgAddr(fn, x, n) = Entry + 2 + w.at /\ x.mem[StackArgAddr(fn, x, n)] = MemAtStart[Entry + 2 + w.at]

ReturnHolds(fn, c) ==
  /\ c.m.sp = Entry
  /\ \A r \in RetRegs(fn.ret) : c.m.reg[r] = Result[r]
  /\ fn.fp => c.m.reg["B"] = RegNumber["B"] /\ c.m.reg["C"] = RegNumber["C"]
  /\ \A n \in Entry..(ByteSize * ByteSize - 1) : c.m.mem[n] = MemAtStart[n]
  /\ c.ie = ~fn.isr

LocalsHold(fn, x) == \A k \in 0..fn.locals - 1 : x.mem[LocalAddr(fn, x, k)] = LocalMark(k)

CopyHolds(fn, x) ==
  /\ \A n \in 0..(Dst + fn.copy) :
       x.mem[n] = MemAtStart[IF n \in Dst..Dst + fn.copy - 1 THEN Src + n - Dst ELSE n]
  /\ \A r \in fn.keep : x.reg[r] = BodyValue[r]

BodyOps == {"SEEN", "OUT", "CALL", "RESULT"}
Asked(fn, c, i) ==
  /\ i.op = "BODY" => ArgsHold(fn, c.m)
  /\ i.op \in BodyOps => LocalsHold(fn, c.m)
  /\ i.op = "SEEN" => CopyHolds(fn, c.m)
  /\ i.op = "RET" => ReturnHolds(fn, c)

(* F annotates the code s: F[k] holds after k instructions, whatever        *)
(* interrupts come; the next one finds what is asked and leads on, unless   *)
(* it returns.                                                              *)
Annotates(fn, F, s) ==
  /\ \A k \in 0..Len(s) : F[k] \subseteq Config /\ Stable(F[k])
  /\ \A k \in 1..Len(s) : \A c \in F[k - 1] :
       /\ Asked(fn, c, s[k])
       /\ s[k].op # "RET" => Step(fn, c, s[k]) \in F[k]

Hoare(fn, P, s, Q) ==
  \E F : Annotates(fn, F, s) /\ P \subseteq F[0] /\ F[Len(s)] \subseteq Q

(* No code.                                                                 *)
LEMMA HoareSkip ==
  ASSUME NEW fn, NEW P, NEW Q, P \subseteq Config, Stable(P), P \subseteq Q
  PROVE  Hoare(fn, P, <<>>, Q)
<1>. DEFINE F == [k \in 0..0 |-> P]
<1>1. Len(<<>>) = 0
  OBVIOUS
<1>2. F[0] = P
  OBVIOUS
<1>. HIDE DEF F
<1>3. Annotates(fn, F, <<>>)
  BY <1>1, <1>2 DEF Annotates
<1>. QED
  BY <1>1, <1>2, <1>3 DEF Hoare

(* One instruction.                                                         *)
LEMMA HoareOne ==
  ASSUME NEW fn, NEW i, NEW P, NEW Q, P \subseteq Config, Stable(P), Q \subseteq Config, Stable(Q),
         \A c \in P : Asked(fn, c, i) /\ (i.op # "RET" => Step(fn, c, i) \in Q)
  PROVE  Hoare(fn, P, <<i>>, Q)
<1>. DEFINE F == [k \in 0..1 |-> IF k = 0 THEN P ELSE Q]
<1>1. Len(<<i>>) = 1 /\ <<i>>[1] = i
  OBVIOUS
<1>2. F[0] = P /\ F[1] = Q
  OBVIOUS
<1>. HIDE DEF F
<1>3. \A k \in 0..Len(<<i>>) : F[k] \subseteq Config /\ Stable(F[k])
  <2>1. ASSUME NEW k \in 0..1 PROVE F[k] \subseteq Config /\ Stable(F[k])
    <3>1. k = 0 \/ k = 1
      OBVIOUS
    <3>. QED
      BY <1>2, <3>1
  <2>. QED
    BY <1>1, <2>1
<1>4. ASSUME NEW k \in 1..Len(<<i>>), NEW c \in F[k - 1]
      PROVE  Asked(fn, c, <<i>>[k]) /\ (<<i>>[k].op # "RET" => Step(fn, c, <<i>>[k]) \in F[k])
  <2>1. k = 1 /\ k - 1 = 0
    BY <1>1
  <2>. QED
    BY <1>1, <1>2, <2>1
<1>5. Annotates(fn, F, <<i>>)
  BY <1>3, <1>4 DEF Annotates
<1>. QED
  BY <1>1, <1>2, <1>5 DEF Hoare

(* One piece of code after another.                                         *)
LEMMA HoareJoin ==
  ASSUME NEW fn, NEW S, NEW T, NEW s \in Seq(S), NEW t \in Seq(T), NEW P, NEW Q, NEW R,
         Hoare(fn, P, s, Q), Hoare(fn, Q, t, R)
  PROVE  Hoare(fn, P, s \o t, R)
<1>1. PICK F : Annotates(fn, F, s) /\ P \subseteq F[0] /\ F[Len(s)] \subseteq Q
  BY DEF Hoare
<1>2. PICK G : Annotates(fn, G, t) /\ Q \subseteq G[0] /\ G[Len(t)] \subseteq R
  BY DEF Hoare
<1>. DEFINE a == Len(s)
            b == Len(t)
            u == s \o t
            H == [k \in 0..(a + b) |-> IF k < a THEN F[k] ELSE G[k - a]]
<1>3. /\ a \in Nat /\ b \in Nat /\ Len(u) = a + b
      /\ \A k \in 1..a : u[k] = s[k]
      /\ \A k \in (a + 1)..(a + b) : u[k] = t[k - a]
  OBVIOUS
<1>4. /\ \A k \in 0..a : F[k] \subseteq Config /\ Stable(F[k])
      /\ \A k \in 1..a : \A c \in F[k - 1] :
           Asked(fn, c, s[k]) /\ (s[k].op # "RET" => Step(fn, c, s[k]) \in F[k])
  BY <1>1 DEF Annotates
<1>5. /\ \A k \in 0..b : G[k] \subseteq Config /\ Stable(G[k])
      /\ \A k \in 1..b : \A c \in G[k - 1] :
           Asked(fn, c, t[k]) /\ (t[k].op # "RET" => Step(fn, c, t[k]) \in G[k])
  BY <1>2 DEF Annotates
<1>6. F[a] \subseteq G[0] /\ P \subseteq F[0] /\ G[b] \subseteq R
  BY <1>1, <1>2
<1>. HIDE DEF a, b, u
<1>7. \A k \in 0..(a + b) : H[k] = IF k < a THEN F[k] ELSE G[k - a]
  OBVIOUS
<1>. HIDE DEF H
<1>8. \A k \in 0..(a + b) : H[k] \subseteq Config /\ Stable(H[k])
  <2>. TAKE k \in 0..(a + b)
  <2>1. CASE k < a
    <3>1. k \in 0..a /\ H[k] = F[k]
      BY <1>3, <1>7, <2>1
    <3>. QED
      BY <1>4, <3>1
  <2>2. CASE ~(k < a)
    <3>1. k - a \in 0..b /\ H[k] = G[k - a]
      BY <1>3, <1>7, <2>2
    <3>. QED
      BY <1>5, <3>1
  <2>. QED
    BY <2>1, <2>2
<1>9. ASSUME NEW k \in 1..(a + b), NEW c \in H[k - 1]
      PROVE  Asked(fn, c, u[k]) /\ (u[k].op # "RET" => Step(fn, c, u[k]) \in H[k])
  <2>1. CASE k <= a
    <3>1. k \in 1..a /\ k - 1 \in 0..(a + b) /\ k - 1 < a /\ k \in 0..(a + b)
      BY <1>3, <2>1
    <3>2. H[k - 1] = F[k - 1] /\ u[k] = s[k]
      BY <1>3, <1>7, <3>1
    <3>3. F[k] \subseteq H[k]
      <4>1. CASE k < a
        BY <1>7, <3>1, <4>1
      <4>2. CASE ~(k < a)
        <5>1. k = a /\ k - a = 0
          BY <1>3, <2>1, <4>2
        <5>2. H[k] = G[0]
          BY <1>7, <3>1, <4>2, <5>1
        <5>. QED
          BY <1>6, <5>1, <5>2
      <4>. QED
        BY <4>1, <4>2
    <3>4. c \in F[k - 1]
      BY <3>2
    <3>5. Asked(fn, c, s[k]) /\ (s[k].op # "RET" => Step(fn, c, s[k]) \in F[k])
      BY <1>4, <3>1, <3>4
    <3>. QED
      BY <3>2, <3>3, <3>5
  <2>2. CASE ~(k <= a)
    <3>. DEFINE j == k - a
    <3>1. /\ j \in 1..b /\ j - 1 = (k - 1) - a /\ ~(k - 1 < a) /\ ~(k < a)
          /\ k - 1 \in 0..(a + b) /\ k \in 0..(a + b) /\ k \in (a + 1)..(a + b)
      BY <1>3, <2>2
    <3>2. H[k - 1] = G[j - 1] /\ H[k] = G[j] /\ u[k] = t[j]
      BY <1>3, <1>7, <3>1
    <3>. HIDE DEF j
    <3>3. c \in G[j - 1]
      BY <3>2
    <3>4. Asked(fn, c, t[j]) /\ (t[j].op # "RET" => Step(fn, c, t[j]) \in G[j])
      BY <1>5, <3>1, <3>3
    <3>. QED
      BY <3>2, <3>4
  <2>. QED
    BY <2>1, <2>2
<1>10. Annotates(fn, H, u)
  BY <1>3, <1>8, <1>9 DEF Annotates
<1>11. P \subseteq H[0]
  <2>1. CASE a = 0
    <3>1. H[0] = G[0]
      BY <1>3, <1>7, <2>1
    <3>. QED
      BY <1>6, <2>1, <3>1
  <2>2. CASE a # 0
    <3>1. H[0] = F[0]
      BY <1>3, <1>7, <2>2
    <3>. QED
      BY <1>6, <3>1
  <2>. QED
    BY <2>1, <2>2
<1>12. H[Len(u)] \subseteq R
  <2>1. H[a + b] = G[b]
    BY <1>3, <1>7
  <2>. QED
    BY <1>3, <1>6, <2>1
<1>. QED
  BY <1>10, <1>11, <1>12 DEF Hoare, u

(* Weaker knowledge before or after.                                        *)
LEMMA HoareWeaker ==
  ASSUME NEW fn, NEW s, NEW P, NEW Q, NEW R, NEW T, Hoare(fn, P, s, Q), R \subseteq P, Q \subseteq T
  PROVE  Hoare(fn, R, s, T)
<1>1. PICK F : Annotates(fn, F, s) /\ P \subseteq F[0] /\ F[Len(s)] \subseteq Q
  BY DEF Hoare
<1>2. R \subseteq F[0] /\ F[Len(s)] \subseteq T
  BY <1>1
<1>. QED
  BY <1>1, <1>2 DEF Hoare

(* Instructions in a row.                                                   *)
LEMMA TwoInstructions ==
  ASSUME NEW a, NEW b
  PROVE  <<a, b>> = <<a>> \o <<b>>
<1>. DEFINE S == {a, b}
            x == <<a>>
            y == <<b>>
            u == x \o y
            v == <<a, b>>
<1>1. x \in Seq(S) /\ y \in Seq(S) /\ Len(x) = 1 /\ Len(y) = 1 /\ x[1] = a /\ y[1] = b
  OBVIOUS
<1>2. v \in Seq(S) /\ Len(v) = 2 /\ v[1] = a /\ v[2] = b
  OBVIOUS
<1>. HIDE DEF x, y, v, S
<1>3. u \in Seq(S) /\ Len(u) = 2 /\ u[1] = a /\ u[2] = b
  <2>1. /\ u \in Seq(S) /\ Len(u) = Len(x) + Len(y)
        /\ \A k \in 1..Len(x) + Len(y) : u[k] = IF k <= Len(x) THEN x[k] ELSE y[k - Len(x)]
    BY <1>1, ConcatProperties
  <2>. HIDE DEF u
  <2>2. Len(u) = 2 /\ \A k \in 1..2 : u[k] = IF k <= 1 THEN x[k] ELSE y[k - 1]
    BY <1>1, <2>1
  <2>3. u[1] = x[1] /\ u[2] = y[1]
    BY <2>2
  <2>. QED
    BY <1>1, <2>1, <2>2, <2>3
<1>. HIDE DEF u
<1>4. \A k \in 1..Len(u) : u[k] = v[k]
  BY <1>2, <1>3
<1>5. u = v
  BY <1>2, <1>3, <1>4, SeqEqual
<1>. QED
  BY <1>5 DEF u, v, x, y

LEMMA Hoare2 ==
  ASSUME NEW fn, NEW a, NEW b, NEW P0, NEW P1, NEW P2,
         Hoare(fn, P0, <<a>>, P1), Hoare(fn, P1, <<b>>, P2)
  PROVE  Hoare(fn, P0, <<a, b>>, P2)
<1>. DEFINE S == {a, b}
<1>1. <<a>> \in Seq(S) /\ <<b>> \in Seq(S) /\ <<a>> \in Seq(S)
  OBVIOUS
<1>. HIDE DEF S
<1>2. Hoare(fn, P0, <<a>> \o <<b>>, P2)
  BY <1>1, HoareJoin
<1>. QED
  BY <1>2, TwoInstructions

LEMMA Hoare3 ==
  ASSUME NEW fn, NEW a, NEW b, NEW c, NEW P0, NEW P1, NEW P2, NEW P3,
         Hoare(fn, P0, <<a>>, P1), Hoare(fn, P1, <<b>>, P2), Hoare(fn, P2, <<c>>, P3)
  PROVE  Hoare(fn, P0, <<a, b, c>>, P3)
<1>. DEFINE S == {a, b, c}
<1>1. <<c>> \in Seq(S) /\ <<a, b>> \in Seq(S)
  OBVIOUS
<1>. HIDE DEF S
<1>2. Hoare(fn, P0, <<a, b>>, P2)
  BY Hoare2
<1>. DEFINE s == <<a, b>>
<1>3. s \in Seq(S) /\ Hoare(fn, P0, s, P2)
  BY <1>1, <1>2
<1>. HIDE DEF s
<1>4. Hoare(fn, P0, s \o <<c>>, P3)
  BY <1>1, <1>3, HoareJoin
<1>5. <<a, b, c>> = s \o <<c>>
  BY DEF s
<1>. QED
  BY <1>4, <1>5

LEMMA Hoare4 ==
  ASSUME NEW fn, NEW a, NEW b, NEW c, NEW d, NEW P0, NEW P1, NEW P2, NEW P3, NEW P4,
         Hoare(fn, P0, <<a>>, P1), Hoare(fn, P1, <<b>>, P2), Hoare(fn, P2, <<c>>, P3), Hoare(fn, P3, <<d>>, P4)
  PROVE  Hoare(fn, P0, <<a, b, c, d>>, P4)
<1>. DEFINE S == {a, b, c, d}
<1>1. <<d>> \in Seq(S) /\ <<a, b, c>> \in Seq(S)
  OBVIOUS
<1>. HIDE DEF S
<1>2. Hoare(fn, P0, <<a, b, c>>, P3)
  BY Hoare3
<1>. DEFINE s == <<a, b, c>>
<1>3. s \in Seq(S) /\ Hoare(fn, P0, s, P3)
  BY <1>1, <1>2
<1>. HIDE DEF s
<1>4. Hoare(fn, P0, s \o <<d>>, P4)
  BY <1>1, <1>3, HoareJoin
<1>5. <<a, b, c, d>> = s \o <<d>>
  BY DEF s
<1>. QED
  BY <1>4, <1>5

LEMMA Hoare5 ==
  ASSUME NEW fn, NEW a, NEW b, NEW c, NEW d, NEW e, NEW P0, NEW P1, NEW P2, NEW P3, NEW P4, NEW P5,
         Hoare(fn, P0, <<a>>, P1), Hoare(fn, P1, <<b>>, P2), Hoare(fn, P2, <<c>>, P3), Hoare(fn, P3, <<d>>, P4), Hoare(fn, P4, <<e>>, P5)
  PROVE  Hoare(fn, P0, <<a, b, c, d, e>>, P5)
<1>. DEFINE S == {a, b, c, d, e}
<1>1. <<e>> \in Seq(S) /\ <<a, b, c, d>> \in Seq(S)
  OBVIOUS
<1>. HIDE DEF S
<1>2. Hoare(fn, P0, <<a, b, c, d>>, P4)
  BY Hoare4
<1>. DEFINE s == <<a, b, c, d>>
<1>3. s \in Seq(S) /\ Hoare(fn, P0, s, P4)
  BY <1>1, <1>2
<1>. HIDE DEF s
<1>4. Hoare(fn, P0, s \o <<e>>, P5)
  BY <1>1, <1>3, HoareJoin
<1>5. <<a, b, c, d, e>> = s \o <<e>>
  BY DEF s
<1>. QED
  BY <1>4, <1>5

LEMMA Hoare6 ==
  ASSUME NEW fn, NEW a, NEW b, NEW c, NEW d, NEW e, NEW g, NEW P0, NEW P1, NEW P2, NEW P3, NEW P4, NEW P5, NEW P6,
         Hoare(fn, P0, <<a>>, P1), Hoare(fn, P1, <<b>>, P2), Hoare(fn, P2, <<c>>, P3), Hoare(fn, P3, <<d>>, P4), Hoare(fn, P4, <<e>>, P5), Hoare(fn, P5, <<g>>, P6)
  PROVE  Hoare(fn, P0, <<a, b, c, d, e, g>>, P6)
<1>. DEFINE S == {a, b, c, d, e, g}
<1>1. <<g>> \in Seq(S) /\ <<a, b, c, d, e>> \in Seq(S)
  OBVIOUS
<1>. HIDE DEF S
<1>2. Hoare(fn, P0, <<a, b, c, d, e>>, P5)
  BY Hoare5
<1>. DEFINE s == <<a, b, c, d, e>>
<1>3. s \in Seq(S) /\ Hoare(fn, P0, s, P5)
  BY <1>1, <1>2
<1>. HIDE DEF s
<1>4. Hoare(fn, P0, s \o <<g>>, P6)
  BY <1>1, <1>3, HoareJoin
<1>5. <<a, b, c, d, e, g>> = s \o <<g>>
  BY DEF s
<1>. QED
  BY <1>4, <1>5
-----------------------------------------------------------------------------
(* What is known of a machine: the stack pointer, the registers in Q, which *)
(* hold what g says, and the memory at X, which holds what h says.          *)
Fits(x, s, Q, g, X, h) ==
  x.sp = s /\ (\A r \in Q : x.reg[r] = g[r]) /\ (\A a \in X : x.mem[a] = h[a])

Known(s, Q, g, X, h, e) == {c \in Config : c.ie = e /\ Fits(c.m, s, Q, g, X, h)}

(* With interrupts enabled nothing that is known lies right below SP.       *)
Safe(s, X, e) == s \in Addr /\ (e => s >= 2 /\ s - 1 \notin X /\ s - 2 \notin X)

(* Knowledge that survives a change of the registers, or the memory, in W.  *)
From(Q, g, Q2, g2, W) == \A r \in Q2 \ W : r \in Q /\ g2[r] = g[r]

LEMMA ConfigParts ==
  ASSUME NEW c \in Config
  PROVE  c.m \in Machine /\ c.ie \in BOOLEAN
BY DEF Config

LEMMA KnownStable ==
  ASSUME NEW s, NEW Q, NEW g, NEW X, NEW h, NEW e, Safe(s, X, e), X \subseteq Addr
  PROVE  Known(s, Q, g, X, h, e) \subseteq Config /\ Stable(Known(s, Q, g, X, h, e))
<1>1. Known(s, Q, g, X, h, e) \subseteq Config
  BY DEF Known
<1>2. ASSUME NEW c \in Known(s, Q, g, X, h, e), c.ie
      PROVE  [m |-> Interrupted(c.m, Junk), ie |-> c.ie] \in Known(s, Q, g, X, h, e)
  <2>. DEFINE y == Interrupted(c.m, Junk)
              d == [m |-> y, ie |-> c.ie]
  <2>1. c.m \in Machine /\ c.ie \in BOOLEAN /\ c.ie = e /\ Fits(c.m, s, Q, g, X, h)
    BY ConfigParts DEF Known
  <2>2. c.m.sp = s /\ s >= 2 /\ s - 1 \notin X /\ s - 2 \notin X
    BY <1>2, <2>1 DEF Fits, Safe
  <2>3. /\ y \in Machine /\ y.sp = c.m.sp /\ y.reg = c.m.reg
        /\ \A a \in Addr \ {c.m.sp - 2, c.m.sp - 1} : y.mem[a] = c.m.mem[a]
    BY <2>1, <2>2, InterruptEffect
  <2>. HIDE DEF y
  <2>4. \A a \in X : y.mem[a] = c.m.mem[a]
    BY <2>2, <2>3
  <2>5. Fits(y, s, Q, g, X, h)
    BY <2>1, <2>2, <2>3, <2>4 DEF Fits
  <2>6. d \in Config /\ d.m = y /\ d.ie = e
    BY <2>1, <2>3 DEF Config
  <2>. HIDE DEF d
  <2>7. d \in Known(s, Q, g, X, h, e)
    BY <2>5, <2>6 DEF Known
  <2>. QED
    BY <2>7 DEF d, y
<1>. QED
  BY <1>1, <1>2 DEF Stable

(* Knowing less.                                                            *)
LEMMA KnownLess ==
  ASSUME NEW s, NEW Q, NEW g, NEW X, NEW h, NEW e, NEW Q2, NEW g2, NEW X2, NEW h2,
         From(Q, g, Q2, g2, {}), From(X, h, X2, h2, {})
  PROVE  Known(s, Q, g, X, h, e) \subseteq Known(s, Q2, g2, X2, h2, e)
<1>1. ASSUME NEW c \in Known(s, Q, g, X, h, e)
      PROVE  c \in Known(s, Q2, g2, X2, h2, e)
  <2>1. c \in Config /\ c.ie = e /\ Fits(c.m, s, Q, g, X, h)
    BY DEF Known
  <2>2. \A r \in Q2 : c.m.reg[r] = g2[r]
    BY <2>1 DEF Fits, From
  <2>3. \A a \in X2 : c.m.mem[a] = h2[a]
    BY <2>1 DEF Fits, From
  <2>4. Fits(c.m, s, Q2, g2, X2, h2)
    BY <2>1, <2>2, <2>3 DEF Fits
  <2>. QED
    BY <2>1, <2>4 DEF Known
<1>. QED
  BY <1>1

-----------------------------------------------------------------------------
(* An instruction of the 8080, from what is known to what is known.         *)
Marks == {"BODY", "STORE", "SEEN", "OUT", "CALL", "RESULT", "DI", "EI", "RET"}

LEMMA Plain ==
  ASSUME NEW fn, NEW i, i.op \notin Marks, NEW e,
         NEW s, NEW Q, NEW g, NEW X, NEW h, NEW s2, NEW Q2, NEW g2, NEW X2, NEW h2,
         Safe(s, X, e), X \subseteq Addr, Safe(s2, X2, e), X2 \subseteq Addr,
         \A x \in Machine : Fits(x, s, Q, g, X, h) =>
           Exec(x, i) \in Machine /\ Fits(Exec(x, i), s2, Q2, g2, X2, h2)
  PROVE  Hoare(fn, Known(s, Q, g, X, h, e), <<i>>, Known(s2, Q2, g2, X2, h2, e))
<1>. DEFINE P == Known(s, Q, g, X, h, e)
            R == Known(s2, Q2, g2, X2, h2, e)
<1>1. P \subseteq Config /\ Stable(P)
  BY KnownStable
<1>2. R \subseteq Config /\ Stable(R)
  BY KnownStable
<1>3. ASSUME NEW c \in P
      PROVE  Asked(fn, c, i) /\ Step(fn, c, i) \in R
  <2>1. c \in Config /\ c.m \in Machine /\ c.ie \in BOOLEAN /\ c.ie = e /\ Fits(c.m, s, Q, g, X, h)
    BY ConfigParts DEF Known
  <2>2. Asked(fn, c, i)
    BY DEF Asked, Marks, BodyOps
  <2>3. Effect(fn, c.m, i) = Exec(c.m, i)
    BY DEF Effect, Marks
  <2>. DEFINE y == Exec(c.m, i)
              d == [m |-> y, ie |-> c.ie]
  <2>4. y \in Machine /\ Fits(y, s2, Q2, g2, X2, h2)
    BY <2>1
  <2>5. Step(fn, c, i) = d
    BY <2>3 DEF Step, Marks
  <2>. HIDE DEF y
  <2>6. d \in Config /\ d.m = y /\ d.ie = e
    BY <2>1, <2>4 DEF Config
  <2>. HIDE DEF d
  <2>7. d \in R
    BY <2>4, <2>6 DEF Known
  <2>. QED
    BY <2>2, <2>5, <2>7
<1>. HIDE DEF P, R
<1>4. Hoare(fn, P, <<i>>, R)
  BY <1>1, <1>2, <1>3, HoareOne
<1>. QED
  BY <1>4 DEF P, R
-----------------------------------------------------------------------------
(* The pair p is known to hold v.                                           *)
Holding(p, Q, g, v) ==
  v \in Addr /\ {Hi[p], Lo[p]} \subseteq Q /\ g[Hi[p]] = v \div ByteSize /\ g[Lo[p]] = v % ByteSize

LEMMA HoldingPair ==
  ASSUME NEW x \in Machine, NEW p \in Pairs, NEW v, NEW s, NEW Q, NEW g, NEW X, NEW h,
         Fits(x, s, Q, g, X, h), Holding(p, Q, g, v)
  PROVE  Pair(x, p) = v
<1>. DEFINE a == x.reg[Hi[p]]
            b == x.reg[Lo[p]]
<1>1. a = v \div ByteSize /\ b = v % ByteSize /\ v \in Addr
  BY DEF Fits, Holding
<1>2. (v \div ByteSize) * ByteSize + (v % ByteSize) = v
  BY <1>1, ByteFacts
<1>. QED
  BY <1>1, <1>2 DEF Pair

LEMMA HalvesOf ==
  ASSUME NEW x \in Machine, NEW p \in Pairs
  PROVE  x.reg[Hi[p]] = Pair(x, p) \div ByteSize /\ x.reg[Lo[p]] = Pair(x, p) % ByteSize
<1>. DEFINE a == x.reg[Hi[p]]
            b == x.reg[Lo[p]]
<1>1. a \in Byte /\ b \in Byte
  BY MachineParts, PairFacts
<1>2. (a * ByteSize + b) \div ByteSize = a /\ (a * ByteSize + b) % ByteSize = b
  BY <1>1, ByteFacts
<1>. QED
  BY <1>2 DEF Pair

LEMMA FitsAfter ==
  ASSUME NEW x, NEW y, NEW S, NEW W, NEW s, NEW Q, NEW g, NEW X, NEW h, NEW Q2, NEW g2, NEW X2, NEW h2,
         Fits(x, s, Q, g, X, h), Changed(x, y, S, W), Q2 \subseteq AllRegs, X2 \subseteq Addr,
         From(Q, g, Q2, g2, S), From(X, h, X2, h2, W),
         \A r \in Q2 \cap S : y.reg[r] = g2[r], \A a \in X2 \cap W : y.mem[a] = h2[a]
  PROVE  y \in Machine /\ Fits(y, s, Q2, g2, X2, h2)
<1>1. y \in Machine /\ y.sp = s
  BY DEF Changed, Fits
<1>2. ASSUME NEW r \in Q2 PROVE y.reg[r] = g2[r]
  BY <1>2 DEF Changed, Fits, From
<1>3. ASSUME NEW a \in X2 PROVE y.mem[a] = h2[a]
  BY <1>3 DEF Changed, Fits, From
<1>. QED
  BY <1>1, <1>2, <1>3 DEF Fits

LEMMA FromSame ==
  ASSUME NEW Q, NEW g, NEW W
  PROVE  From(Q, g, Q, g, W)
BY DEF From

(* MOV.                                                                     *)
LEMMA MovStep ==
  ASSUME NEW fn, NEW d \in Regs, NEW q \in Regs, NEW s, NEW Q, NEW g, NEW X, NEW h, NEW Q2, NEW g2, NEW e,
         Safe(s, X, e), X \subseteq Addr, Q2 \subseteq AllRegs,
         From(Q, g, Q2, g2, {d}), d \in Q2 => q \in Q /\ g2[d] = g[q]
  PROVE  Hoare(fn, Known(s, Q, g, X, h, e), <<Mov(d, q)>>, Known(s, Q2, g2, X, h, e))
<1>. DEFINE i == Mov(d, q)
<1>1. i.op \notin Marks
  BY DEF Marks, Instr, Mov
<1>. HIDE DEF i
<1>2. ASSUME NEW x \in Machine, Fits(x, s, Q, g, X, h)
      PROVE  Exec(x, i) \in Machine /\ Fits(Exec(x, i), s, Q2, g2, X, h)
  <2>. DEFINE y == Exec(x, i)
  <2>1. Changed(x, y, {d}, {}) /\ y.reg[d] = x.reg[q]
    BY MovEffect DEF i
  <2>. HIDE DEF y
  <2>2. \A r \in Q2 \cap {d} : y.reg[r] = g2[r]
    BY <1>2, <2>1 DEF Fits
  <2>3. From(X, h, X, h, {}) /\ \A a \in X \cap {} : y.mem[a] = h[a]
    BY FromSame
  <2>9. y \in Machine /\ Fits(y, s, Q2, g2, X, h)
    BY <1>2, <2>1, <2>2, <2>3, FitsAfter
  <2>. QED
    BY <2>9 DEF y
<1>3. Hoare(fn, Known(s, Q, g, X, h, e), <<i>>, Known(s, Q2, g2, X, h, e))
  BY <1>1, <1>2, Plain
<1>. QED
  BY <1>3 DEF i

(* MOV from the byte HL points at.                                          *)
LEMMA LoadStep ==
  ASSUME NEW fn, NEW d \in Regs, NEW v, NEW s, NEW Q, NEW g, NEW X, NEW h, NEW Q2, NEW g2, NEW e,
         Safe(s, X, e), X \subseteq Addr, Q2 \subseteq AllRegs,
         Holding("HL", Q, g, v), From(Q, g, Q2, g2, {d}), d \in Q2 => v \in X /\ g2[d] = h[v]
  PROVE  Hoare(fn, Known(s, Q, g, X, h, e), <<MovFromM(d)>>, Known(s, Q2, g2, X, h, e))
<1>. DEFINE i == MovFromM(d)
<1>1. i.op \notin Marks
  BY DEF Marks, Instr, MovFromM
<1>. HIDE DEF i
<1>2. ASSUME NEW x \in Machine, Fits(x, s, Q, g, X, h)
      PROVE  Exec(x, i) \in Machine /\ Fits(Exec(x, i), s, Q2, g2, X, h)
  <2>. DEFINE y == Exec(x, i)
  <2>1. Changed(x, y, {d}, {}) /\ y.reg[d] = x.mem[v]
    BY MovFromMEffect, HoldingPair, <1>2, PairFacts DEF i
  <2>. HIDE DEF y
  <2>2. \A r \in Q2 \cap {d} : y.reg[r] = g2[r]
    BY <1>2, <2>1 DEF Fits
  <2>3. From(X, h, X, h, {}) /\ \A a \in X \cap {} : y.mem[a] = h[a]
    BY FromSame
  <2>9. y \in Machine /\ Fits(y, s, Q2, g2, X, h)
    BY <1>2, <2>1, <2>2, <2>3, FitsAfter
  <2>. QED
    BY <2>9 DEF y
<1>3. Hoare(fn, Known(s, Q, g, X, h, e), <<i>>, Known(s, Q2, g2, X, h, e))
  BY <1>1, <1>2, Plain
<1>. QED
  BY <1>3 DEF i

(* LXI.                                                                     *)
LEMMA LxiStep ==
  ASSUME NEW fn, NEW p \in Pairs, NEW v \in Addr, NEW s, NEW Q, NEW g, NEW X, NEW h, NEW Q2, NEW g2, NEW e,
         Safe(s, X, e), X \subseteq Addr, Q2 \subseteq AllRegs,
         From(Q, g, Q2, g2, {Hi[p], Lo[p]}), Holding(p, Q2, g2, v)
  PROVE  Hoare(fn, Known(s, Q, g, X, h, e), <<Lxi(p, v)>>, Known(s, Q2, g2, X, h, e))
<1>. DEFINE i == Lxi(p, v)
<1>1. i.op \notin Marks
  BY DEF Marks, Instr, Lxi
<1>. HIDE DEF i
<1>2. ASSUME NEW x \in Machine, Fits(x, s, Q, g, X, h)
      PROVE  Exec(x, i) \in Machine /\ Fits(Exec(x, i), s, Q2, g2, X, h)
  <2>. DEFINE y == Exec(x, i)
  <2>1. Changed(x, y, {Hi[p], Lo[p]}, {}) /\ y.reg[Hi[p]] = v \div ByteSize /\ y.reg[Lo[p]] = v % ByteSize
    BY LxiEffect DEF i
  <2>. HIDE DEF y
  <2>2. \A r \in Q2 \cap {Hi[p], Lo[p]} : y.reg[r] = g2[r]
    BY <1>2, <2>1 DEF Fits, Holding
  <2>3. From(X, h, X, h, {}) /\ \A a \in X \cap {} : y.mem[a] = h[a]
    BY FromSame
  <2>9. y \in Machine /\ Fits(y, s, Q2, g2, X, h)
    BY <1>2, <2>1, <2>2, <2>3, FitsAfter
  <2>. QED
    BY <2>9 DEF y
<1>3. Hoare(fn, Known(s, Q, g, X, h, e), <<i>>, Known(s, Q2, g2, X, h, e))
  BY <1>1, <1>2, Plain
<1>. QED
  BY <1>3 DEF i

(* INX H.                                                                   *)
LEMMA InxStep ==
  ASSUME NEW fn, NEW v \in Addr, NEW s, NEW Q, NEW g, NEW X, NEW h, NEW Q2, NEW g2, NEW e,
         Safe(s, X, e), X \subseteq Addr, Q2 \subseteq AllRegs,
         Holding("HL", Q, g, v), v + 1 \in Addr, From(Q, g, Q2, g2, {"H", "L"}), Holding("HL", Q2, g2, v + 1)
  PROVE  Hoare(fn, Known(s, Q, g, X, h, e), <<Inx("HL")>>, Known(s, Q2, g2, X, h, e))
<1>. DEFINE i == Inx("HL")
<1>1. i.op \notin Marks
  BY DEF Marks, Instr, Inx
<1>. HIDE DEF i
<1>2. ASSUME NEW x \in Machine, Fits(x, s, Q, g, X, h)
      PROVE  Exec(x, i) \in Machine /\ Fits(Exec(x, i), s, Q2, g2, X, h)
  <2>. DEFINE y == Exec(x, i)
  <2>1. Changed(x, y, {"H", "L"}, {}) /\ Pair(y, "HL") = v + 1
    BY InxEffect, HoldingPair, <1>2, PairFacts DEF i
  <2>. HIDE DEF y
  <2>2. y.reg["H"] = (v + 1) \div ByteSize /\ y.reg["L"] = (v + 1) % ByteSize
    BY <2>1, HalvesOf, PairFacts DEF Changed
  <2>3. \A r \in Q2 \cap {"H", "L"} : y.reg[r] = g2[r]
    BY <2>2, PairFacts DEF Holding
  <2>4. From(X, h, X, h, {}) /\ \A a \in X \cap {} : y.mem[a] = h[a]
    BY FromSame
  <2>9. y \in Machine /\ Fits(y, s, Q2, g2, X, h)
    BY <1>2, <2>1, <2>3, <2>4, FitsAfter
  <2>. QED
    BY <2>9 DEF y
<1>3. Hoare(fn, Known(s, Q, g, X, h, e), <<i>>, Known(s, Q2, g2, X, h, e))
  BY <1>1, <1>2, Plain
<1>. QED
  BY <1>3 DEF i

(* DAD SP.                                                                  *)
LEMMA DadStep ==
  ASSUME NEW fn, NEW n, NEW v \in Addr, NEW s, NEW Q, NEW g, NEW X, NEW h, NEW Q2, NEW g2, NEW e,
         Safe(s, X, e), X \subseteq Addr, Q2 \subseteq AllRegs,
         Holding("HL", Q, g, n), Wrap(n + s) = v,
         From(Q, g, Q2, g2, {"H", "L", "F"}), "F" \notin Q2, Holding("HL", Q2, g2, v)
  PROVE  Hoare(fn, Known(s, Q, g, X, h, e), <<DadSp>>, Known(s, Q2, g2, X, h, e))
<1>. DEFINE i == DadSp
<1>1. i.op \notin Marks
  BY DEF Marks, Instr, DadSp, Dad
<1>. HIDE DEF i
<1>2. ASSUME NEW x \in Machine, Fits(x, s, Q, g, X, h)
      PROVE  Exec(x, i) \in Machine /\ Fits(Exec(x, i), s, Q2, g2, X, h)
  <2>. DEFINE y == Exec(x, i)
  <2>1. Changed(x, y, {"H", "L", "F"}, {}) /\ Pair(y, "HL") = v
    <3>1. Pair(x, "HL") = n
      BY HoldingPair, <1>2, PairFacts
    <3>2. x.sp = s
      BY <1>2 DEF Fits
    <3>3. Wrap(Pair(x, "HL") + x.sp) = v
      BY <3>1, <3>2
    <3>. QED
      BY <3>3, DadSpEffect DEF i
  <2>. HIDE DEF y
  <2>2. y.reg["H"] = (v) \div ByteSize /\ y.reg["L"] = (v) % ByteSize
    BY <2>1, HalvesOf, PairFacts DEF Changed
  <2>3. \A r \in Q2 \cap {"H", "L", "F"} : y.reg[r] = g2[r]
    BY <2>2, PairFacts DEF Holding
  <2>4. From(X, h, X, h, {}) /\ \A a \in X \cap {} : y.mem[a] = h[a]
    BY FromSame
  <2>9. y \in Machine /\ Fits(y, s, Q2, g2, X, h)
    BY <1>2, <2>1, <2>3, <2>4, FitsAfter
  <2>. QED
    BY <2>9 DEF y
<1>3. Hoare(fn, Known(s, Q, g, X, h, e), <<i>>, Known(s, Q2, g2, X, h, e))
  BY <1>1, <1>2, Plain
<1>. QED
  BY <1>3 DEF i

(* XCHG.                                                                    *)
LEMMA XchgStep ==
  ASSUME NEW fn, NEW s, NEW Q, NEW g, NEW X, NEW h, NEW Q2, NEW g2, NEW e,
         Safe(s, X, e), X \subseteq Addr, Q2 \subseteq AllRegs,
         From(Q, g, Q2, g2, {"D", "E", "H", "L"}),
         "D" \in Q2 => "H" \in Q /\ g2["D"] = g["H"], "E" \in Q2 => "L" \in Q /\ g2["E"] = g["L"],
         "H" \in Q2 => "D" \in Q /\ g2["H"] = g["D"], "L" \in Q2 => "E" \in Q /\ g2["L"] = g["E"]
  PROVE  Hoare(fn, Known(s, Q, g, X, h, e), <<Xchg>>, Known(s, Q2, g2, X, h, e))
<1>. DEFINE i == Xchg
<1>1. i.op \notin Marks
  BY DEF Marks, Instr, Xchg
<1>. HIDE DEF i
<1>2. ASSUME NEW x \in Machine, Fits(x, s, Q, g, X, h)
      PROVE  Exec(x, i) \in Machine /\ Fits(Exec(x, i), s, Q2, g2, X, h)
  <2>. DEFINE y == Exec(x, i)
  <2>1. /\ Changed(x, y, {"D", "E", "H", "L"}, {})
        /\ y.reg["D"] = x.reg["H"] /\ y.reg["E"] = x.reg["L"]
        /\ y.reg["H"] = x.reg["D"] /\ y.reg["L"] = x.reg["E"]
    BY XchgEffect DEF i
  <2>. HIDE DEF y
  <2>2. \A r \in Q2 \cap {"D", "E", "H", "L"} : y.reg[r] = g2[r]
    BY <1>2, <2>1 DEF Fits
  <2>3. From(X, h, X, h, {}) /\ \A a \in X \cap {} : y.mem[a] = h[a]
    BY FromSame
  <2>9. y \in Machine /\ Fits(y, s, Q2, g2, X, h)
    BY <1>2, <2>1, <2>2, <2>3, FitsAfter
  <2>. QED
    BY <2>9 DEF y
<1>3. Hoare(fn, Known(s, Q, g, X, h, e), <<i>>, Known(s, Q2, g2, X, h, e))
  BY <1>1, <1>2, Plain
<1>. QED
  BY <1>3 DEF i

(* LXI SP.                                                                  *)
LEMMA LxiSpStep ==
  ASSUME NEW fn, NEW v, NEW s, NEW Q, NEW g, NEW X, NEW h, NEW e,
         Safe(s, X, e), X \subseteq Addr, Safe(v, X, e), Q \subseteq AllRegs
  PROVE  Hoare(fn, Known(s, Q, g, X, h, e), <<Lxi("SP", v)>>, Known(v, Q, g, X, h, e))
<1>. DEFINE i == Lxi("SP", v)
<1>1. i.op \notin Marks
  BY DEF Marks, Instr, Lxi
<1>. HIDE DEF i
<1>2. ASSUME NEW x \in Machine, Fits(x, s, Q, g, X, h)
      PROVE  Exec(x, i) \in Machine /\ Fits(Exec(x, i), v, Q, g, X, h)
  <2>. DEFINE y == Exec(x, i)
  <2>1. x.sp = s
    BY <1>2 DEF Fits
  <2>2. Exec(x, i) = SetSp(x, v)
    BY LxiSpEffect DEF i, Safe
  <2>3. y \in Machine /\ y.sp = v /\ y.reg = x.reg /\ y.mem = x.mem
    BY <2>2, SpEffect DEF Safe
  <2>. HIDE DEF y
  <2>9. y \in Machine /\ Fits(y, v, Q, g, X, h)
    BY <1>2, <2>3 DEF Fits
  <2>. QED
    BY <2>9 DEF y
<1>3. Hoare(fn, Known(s, Q, g, X, h, e), <<i>>, Known(v, Q, g, X, h, e))
  BY <1>1, <1>2, Plain
<1>. QED
  BY <1>3 DEF i

(* SPHL.                                                                    *)
LEMMA SphlStep ==
  ASSUME NEW fn, NEW v, NEW s, NEW Q, NEW g, NEW X, NEW h, NEW e,
         Safe(s, X, e), X \subseteq Addr, Safe(v, X, e), Q \subseteq AllRegs,
         Holding("HL", Q, g, v)
  PROVE  Hoare(fn, Known(s, Q, g, X, h, e), <<Sphl>>, Known(v, Q, g, X, h, e))
<1>. DEFINE i == Sphl
<1>1. i.op \notin Marks
  BY DEF Marks, Instr, Sphl
<1>. HIDE DEF i
<1>2. ASSUME NEW x \in Machine, Fits(x, s, Q, g, X, h)
      PROVE  Exec(x, i) \in Machine /\ Fits(Exec(x, i), v, Q, g, X, h)
  <2>. DEFINE y == Exec(x, i)
  <2>1. x.sp = s
    BY <1>2 DEF Fits
  <2>2. Exec(x, i) = SetSp(x, v)
    BY SphlEffect, HoldingPair, <1>2, PairFacts DEF i
  <2>3. y \in Machine /\ y.sp = v /\ y.reg = x.reg /\ y.mem = x.mem
    BY <2>2, SpEffect DEF Safe
  <2>. HIDE DEF y
  <2>9. y \in Machine /\ Fits(y, v, Q, g, X, h)
    BY <1>2, <2>3 DEF Fits
  <2>. QED
    BY <2>9 DEF y
<1>3. Hoare(fn, Known(s, Q, g, X, h, e), <<i>>, Known(v, Q, g, X, h, e))
  BY <1>1, <1>2, Plain
<1>. QED
  BY <1>3 DEF i

(* INX SP.                                                                  *)
LEMMA InxSpStep ==
  ASSUME NEW fn, NEW s, NEW Q, NEW g, NEW X, NEW h, NEW e,
         Safe(s, X, e), X \subseteq Addr, Safe(s + 1, X, e), Q \subseteq AllRegs
  PROVE  Hoare(fn, Known(s, Q, g, X, h, e), <<Inx("SP")>>, Known(s + 1, Q, g, X, h, e))
<1>. DEFINE i == Inx("SP")
<1>1. i.op \notin Marks
  BY DEF Marks, Instr, Inx
<1>. HIDE DEF i
<1>2. ASSUME NEW x \in Machine, Fits(x, s, Q, g, X, h)
      PROVE  Exec(x, i) \in Machine /\ Fits(Exec(x, i), s + 1, Q, g, X, h)
  <2>. DEFINE y == Exec(x, i)
  <2>1. x.sp = s
    BY <1>2 DEF Fits
  <2>2. Exec(x, i) = SetSp(x, s + 1)
    BY InxSpEffect, <2>1 DEF i
  <2>3. y \in Machine /\ y.sp = s + 1 /\ y.reg = x.reg /\ y.mem = x.mem
    BY <2>2, SpEffect DEF Safe
  <2>. HIDE DEF y
  <2>9. y \in Machine /\ Fits(y, s + 1, Q, g, X, h)
    BY <1>2, <2>3 DEF Fits
  <2>. QED
    BY <2>9 DEF y
<1>3. Hoare(fn, Known(s, Q, g, X, h, e), <<i>>, Known(s + 1, Q, g, X, h, e))
  BY <1>1, <1>2, Plain
<1>. QED
  BY <1>3 DEF i

(* DCX SP.                                                                  *)
LEMMA DcxSpStep ==
  ASSUME NEW fn, NEW s, NEW Q, NEW g, NEW X, NEW h, NEW e,
         Safe(s, X, e), X \subseteq Addr, Safe(s - 1, X, e), Q \subseteq AllRegs
  PROVE  Hoare(fn, Known(s, Q, g, X, h, e), <<Dcx("SP")>>, Known(s - 1, Q, g, X, h, e))
<1>. DEFINE i == Dcx("SP")
<1>1. i.op \notin Marks
  BY DEF Marks, Instr, Dcx
<1>. HIDE DEF i
<1>2. ASSUME NEW x \in Machine, Fits(x, s, Q, g, X, h)
      PROVE  Exec(x, i) \in Machine /\ Fits(Exec(x, i), s - 1, Q, g, X, h)
  <2>. DEFINE y == Exec(x, i)
  <2>1. x.sp = s /\ s >= 1
    BY <1>2, ByteFacts DEF Fits, Safe, Addr
  <2>2. Exec(x, i) = SetSp(x, s - 1)
    BY DcxSpEffect, <2>1 DEF i
  <2>3. y \in Machine /\ y.sp = s - 1 /\ y.reg = x.reg /\ y.mem = x.mem
    BY <2>2, SpEffect DEF Safe
  <2>. HIDE DEF y
  <2>9. y \in Machine /\ Fits(y, s - 1, Q, g, X, h)
    BY <1>2, <2>3 DEF Fits
  <2>. QED
    BY <2>9 DEF y
<1>3. Hoare(fn, Known(s, Q, g, X, h, e), <<i>>, Known(s - 1, Q, g, X, h, e))
  BY <1>1, <1>2, Plain
<1>. QED
  BY <1>3 DEF i

(* PUSH.                                                                    *)
LEMMA PushStep ==
  ASSUME NEW fn, NEW p \in Pairs \cup {"PSW"}, NEW s, NEW Q, NEW g, NEW X, NEW h, NEW X2, NEW h2, NEW e,
         Safe(s, X, e), X \subseteq Addr, Safe(s - 2, X2, e), X2 \subseteq Addr, Q \subseteq AllRegs,
         s >= 2, From(X, h, X2, h2, {s - 2, s - 1}),
         s - 1 \in X2 => Hi[p] \in Q /\ h2[s - 1] = g[Hi[p]], s - 2 \in X2 => Lo[p] \in Q /\ h2[s - 2] = g[Lo[p]]
  PROVE  Hoare(fn, Known(s, Q, g, X, h, e), <<Push(p)>>, Known(s - 2, Q, g, X2, h2, e))
<1>. DEFINE i == Push(p)
<1>1. i.op \notin Marks
  BY DEF Marks, Instr, Push
<1>. HIDE DEF i
<1>2. ASSUME NEW x \in Machine, Fits(x, s, Q, g, X, h)
      PROVE  Exec(x, i) \in Machine /\ Fits(Exec(x, i), s - 2, Q, g, X2, h2)
  <2>. DEFINE y == Exec(x, i)
  <2>1. x.sp = s /\ (\A r \in Q : x.reg[r] = g[r]) /\ (\A a \in X : x.mem[a] = h[a])
    BY <1>2 DEF Fits
  <2>2. /\ y \in Machine /\ y.sp = s - 2 /\ y.reg = x.reg
        /\ y.mem[s - 2] = x.reg[Lo[p]] /\ y.mem[s - 1] = x.reg[Hi[p]]
        /\ \A a \in Addr \ {s - 2, s - 1} : y.mem[a] = x.mem[a]
    BY <2>1, PushEffect DEF i
  <2>. HIDE DEF y
  <2>3. ASSUME NEW a \in X2 PROVE y.mem[a] = h2[a]
    <3>1. CASE a \in {s - 2, s - 1}
      BY <2>1, <2>2, <2>3, <3>1
    <3>2. CASE a \notin {s - 2, s - 1}
      BY <2>1, <2>2, <2>3, <3>2 DEF From
    <3>. QED
      BY <3>1, <3>2
  <2>9. y \in Machine /\ Fits(y, s - 2, Q, g, X2, h2)
    BY <2>1, <2>2, <2>3 DEF Fits
  <2>. QED
    BY <2>9 DEF y
<1>3. Hoare(fn, Known(s, Q, g, X, h, e), <<i>>, Known(s - 2, Q, g, X2, h2, e))
  BY <1>1, <1>2, Plain
<1>. QED
  BY <1>3 DEF i

(* POP.                                                                     *)
LEMMA PopStep ==
  ASSUME NEW fn, NEW p \in Pairs \cup {"PSW"}, NEW s, NEW Q, NEW g, NEW X, NEW h, NEW Q2, NEW g2, NEW X2, NEW e,
         Safe(s, X, e), X \subseteq Addr, Safe(s + 2, X2, e), X2 \subseteq Addr, Q2 \subseteq AllRegs,
         s + 2 \in Addr, X2 \subseteq X, From(Q, g, Q2, g2, {Hi[p], Lo[p]}),
         Hi[p] \in Q2 => s + 1 \in X /\ g2[Hi[p]] = h[s + 1], Lo[p] \in Q2 => s \in X /\ g2[Lo[p]] = h[s]
  PROVE  Hoare(fn, Known(s, Q, g, X, h, e), <<Pop(p)>>, Known(s + 2, Q2, g2, X2, h, e))
<1>. DEFINE i == Pop(p)
<1>1. i.op \notin Marks
  BY DEF Marks, Instr, Pop
<1>. HIDE DEF i
<1>2. ASSUME NEW x \in Machine, Fits(x, s, Q, g, X, h)
      PROVE  Exec(x, i) \in Machine /\ Fits(Exec(x, i), s + 2, Q2, g2, X2, h)
  <2>. DEFINE y == Exec(x, i)
  <2>1. x.sp = s /\ (\A r \in Q : x.reg[r] = g[r]) /\ (\A a \in X : x.mem[a] = h[a])
    BY <1>2 DEF Fits
  <2>2. /\ y \in Machine /\ y.sp = s + 2 /\ y.mem = x.mem
        /\ y.reg[Hi[p]] = x.mem[s + 1] /\ y.reg[Lo[p]] = x.mem[s]
        /\ \A r \in AllRegs : r \notin {Hi[p], Lo[p]} => y.reg[r] = x.reg[r]
    BY <2>1, PopEffect DEF i
  <2>. HIDE DEF y
  <2>3. ASSUME NEW r \in Q2 PROVE y.reg[r] = g2[r]
    <3>1. CASE r \in {Hi[p], Lo[p]}
      BY <2>1, <2>2, <2>3, <3>1
    <3>2. CASE r \notin {Hi[p], Lo[p]}
      BY <2>1, <2>2, <2>3, <3>2 DEF From
    <3>. QED
      BY <3>1, <3>2
  <2>9. y \in Machine /\ Fits(y, s + 2, Q2, g2, X2, h)
    BY <2>1, <2>2, <2>3 DEF Fits
  <2>. QED
    BY <2>9 DEF y
<1>3. Hoare(fn, Known(s, Q, g, X, h, e), <<i>>, Known(s + 2, Q2, g2, X2, h, e))
  BY <1>1, <1>2, Plain
<1>. QED
  BY <1>3 DEF i

(* SHLD.                                                                    *)
LEMMA ShldStep ==
  ASSUME NEW fn, NEW n \in Addr, NEW s, NEW Q, NEW g, NEW X, NEW h, NEW X2, NEW h2, NEW e,
         Safe(s, X, e), X \subseteq Addr, Safe(s, X2, e), X2 \subseteq Addr, Q \subseteq AllRegs,
         n + 1 \in Addr, From(X, h, X2, h2, {n, n + 1}),
         n \in X2 => "L" \in Q /\ h2[n] = g["L"], n + 1 \in X2 => "H" \in Q /\ h2[n + 1] = g["H"]
  PROVE  Hoare(fn, Known(s, Q, g, X, h, e), <<Shld(n)>>, Known(s, Q, g, X2, h2, e))
<1>. DEFINE i == Shld(n)
<1>1. i.op \notin Marks
  BY DEF Marks, Instr, Shld
<1>. HIDE DEF i
<1>2. ASSUME NEW x \in Machine, Fits(x, s, Q, g, X, h)
      PROVE  Exec(x, i) \in Machine /\ Fits(Exec(x, i), s, Q, g, X2, h2)
  <2>. DEFINE y == Exec(x, i)
  <2>1. Changed(x, y, {}, {n, n + 1}) /\ y.mem[n] = x.reg["L"] /\ y.mem[n + 1] = x.reg["H"]
    BY ShldEffect DEF i
  <2>. HIDE DEF y
  <2>2. \A a \in X2 \cap {n, n + 1} : y.mem[a] = h2[a]
    BY <1>2, <2>1 DEF Fits
  <2>3. From(Q, g, Q, g, {}) /\ \A r \in Q \cap {} : y.reg[r] = g[r]
    BY FromSame
  <2>9. y \in Machine /\ Fits(y, s, Q, g, X2, h2)
    BY <1>2, <2>1, <2>2, <2>3, FitsAfter
  <2>. QED
    BY <2>9 DEF y
<1>3. Hoare(fn, Known(s, Q, g, X, h, e), <<i>>, Known(s, Q, g, X2, h2, e))
  BY <1>1, <1>2, Plain
<1>. QED
  BY <1>3 DEF i

(* MOV to the byte HL points at.                                            *)
LEMMA StoreStep ==
  ASSUME NEW fn, NEW q \in Regs, NEW v, NEW s, NEW Q, NEW g, NEW X, NEW h, NEW X2, NEW h2, NEW e,
         Safe(s, X, e), X \subseteq Addr, Safe(s, X2, e), X2 \subseteq Addr, Q \subseteq AllRegs,
         Holding("HL", Q, g, v), From(X, h, X2, h2, {v}), v \in X2 => q \in Q /\ h2[v] = g[q]
  PROVE  Hoare(fn, Known(s, Q, g, X, h, e), <<MovToM(q)>>, Known(s, Q, g, X2, h2, e))
<1>. DEFINE i == MovToM(q)
<1>1. i.op \notin Marks
  BY DEF Marks, Instr, MovToM
<1>. HIDE DEF i
<1>2. ASSUME NEW x \in Machine, Fits(x, s, Q, g, X, h)
      PROVE  Exec(x, i) \in Machine /\ Fits(Exec(x, i), s, Q, g, X2, h2)
  <2>. DEFINE y == Exec(x, i)
  <2>1. Changed(x, y, {}, {v}) /\ y.mem[v] = x.reg[q]
    BY MovToMEffect, HoldingPair, <1>2, PairFacts DEF i
  <2>. HIDE DEF y
  <2>2. \A a \in X2 \cap {v} : y.mem[a] = h2[a]
    BY <1>2, <2>1 DEF Fits
  <2>3. From(Q, g, Q, g, {}) /\ \A r \in Q \cap {} : y.reg[r] = g[r]
    BY FromSame
  <2>9. y \in Machine /\ Fits(y, s, Q, g, X2, h2)
    BY <1>2, <2>1, <2>2, <2>3, FitsAfter
  <2>. QED
    BY <2>9 DEF y
<1>3. Hoare(fn, Known(s, Q, g, X, h, e), <<i>>, Known(s, Q, g, X2, h2, e))
  BY <1>1, <1>2, Plain
<1>. QED
  BY <1>3 DEF i
-----------------------------------------------------------------------------
(* The body's own steps.                                                    *)
LEMMA Marked ==
  ASSUME NEW fn, NEW op \in Marks \ {"RET"}, NEW e \in BOOLEAN, NEW e2,
         NEW s, NEW Q, NEW g, NEW X, NEW h, NEW Q2, NEW g2, NEW X2, NEW h2,
         Safe(s, X, e), X \subseteq Addr, Safe(s, X2, e2), X2 \subseteq Addr,
         e2 = (IF op = "EI" THEN TRUE ELSE IF op = "DI" THEN FALSE ELSE e),
         \A x \in Machine : Fits(x, s, Q, g, X, h) =>
           /\ op = "BODY" => ArgsHold(fn, x)
           /\ op \in BodyOps => LocalsHold(fn, x)
           /\ op = "SEEN" => CopyHolds(fn, x)
           /\ Effect(fn, x, Mark(op)) \in Machine
           /\ Fits(Effect(fn, x, Mark(op)), s, Q2, g2, X2, h2)
  PROVE  Hoare(fn, Known(s, Q, g, X, h, e), <<Mark(op)>>, Known(s, Q2, g2, X2, h2, e2))
<1>. DEFINE P == Known(s, Q, g, X, h, e)
            R == Known(s, Q2, g2, X2, h2, e2)
            i == Mark(op)
<1>1. P \subseteq Config /\ Stable(P)
  BY KnownStable
<1>2. R \subseteq Config /\ Stable(R)
  BY KnownStable
<1>3. i.op = op /\ e2 \in BOOLEAN
  BY DEF Mark, Instr
<1>. HIDE DEF i
<1>4. ASSUME NEW c \in P
      PROVE  Asked(fn, c, i) /\ Step(fn, c, i) \in R
  <2>1. c \in Config /\ c.m \in Machine /\ c.ie \in BOOLEAN /\ c.ie = e /\ Fits(c.m, s, Q, g, X, h)
    BY ConfigParts DEF Known
  <2>. DEFINE y == Effect(fn, c.m, i)
              d == [m |-> y, ie |-> e2]
  <2>2. /\ op = "BODY" => ArgsHold(fn, c.m)
        /\ op \in BodyOps => LocalsHold(fn, c.m)
        /\ op = "SEEN" => CopyHolds(fn, c.m)
        /\ y \in Machine /\ Fits(y, s, Q2, g2, X2, h2)
    BY <2>1 DEF i
  <2>3. Asked(fn, c, i)
    BY <1>3, <2>2 DEF Asked
  <2>4. Step(fn, c, i) = d
    BY <1>3, <2>1 DEF Step
  <2>. HIDE DEF y
  <2>5. d \in Config /\ d.m = y /\ d.ie = e2
    BY <1>3, <2>2 DEF Config
  <2>. HIDE DEF d
  <2>6. d \in R
    BY <2>2, <2>5 DEF Known
  <2>. QED
    BY <2>3, <2>4, <2>6
<1>. HIDE DEF P, R
<1>5. Hoare(fn, P, <<i>>, R)
  BY <1>1, <1>2, <1>4, HoareOne
<1>. QED
  BY <1>5 DEF P, R, i

(* Interrupts off and on.                                                   *)
LEMMA DiStep ==
  ASSUME NEW fn, NEW e \in BOOLEAN, NEW s, NEW Q, NEW g, NEW X, NEW h, Safe(s, X, e), X \subseteq Addr
  PROVE  Hoare(fn, Known(s, Q, g, X, h, e), <<Mark("DI")>>, Known(s, Q, g, X, h, FALSE))
<1>1. "DI" \in Marks \ {"RET"} /\ "DI" \notin BodyOps /\ Safe(s, X, FALSE)
  BY DEF Marks, BodyOps, Safe
<1>2. \A x \in Machine : Effect(fn, x, Mark("DI")) = x
  BY DEF Effect, Mark, Instr
<1>. QED
  BY <1>1, <1>2, Marked

LEMMA EiStep ==
  ASSUME NEW fn, NEW e \in BOOLEAN, NEW s, NEW Q, NEW g, NEW X, NEW h, Safe(s, X, TRUE), X \subseteq Addr
  PROVE  Hoare(fn, Known(s, Q, g, X, h, e), <<Mark("EI")>>, Known(s, Q, g, X, h, TRUE))
<1>1. "EI" \in Marks \ {"RET"} /\ "EI" \notin BodyOps /\ Safe(s, X, e)
  BY DEF Marks, BodyOps, Safe
<1>2. \A x \in Machine : Effect(fn, x, Mark("EI")) = x
  BY DEF Effect, Mark, Instr
<1>. QED
  BY <1>1, <1>2, Marked

(* The body takes over the registers.                                       *)
LEMMA ValueFacts ==
  \A r \in AllRegs : BodyValue[r] \in Byte /\ Result[r] \in Byte /\ RegNumber[r] \in Byte
BY ByteFacts DEF BodyValue, Result, RegNumber, AllRegs, Regs

LEMMA WithEffect ==
  ASSUME NEW x \in Machine, NEW S, NEW vals, \A r \in S \cap AllRegs : vals[r] \in Byte
  PROVE  LET y == [x EXCEPT !.reg = With(@, S, vals)] IN
         /\ Changed(x, y, S, {}) /\ y.mem = x.mem /\ \A r \in S \cap AllRegs : y.reg[r] = vals[r]
<1>. DEFINE y == [x EXCEPT !.reg = With(@, S, vals)]
            v == With(x.reg, S, vals)
<1>1. x.reg \in [AllRegs -> Byte]
  BY MachineParts
<1>2. /\ v \in [AllRegs -> Byte]
      /\ \A r \in AllRegs \ S : v[r] = x.reg[r]
      /\ \A r \in S \cap AllRegs : v[r] = vals[r]
  BY <1>1 DEF With, AllRegs
<1>3. y = WithReg(x, v)
  BY MachineParts DEF WithReg
<1>. HIDE DEF v, y
<1>4. Changed(x, y, S, {}) /\ y.reg = v /\ y.mem = x.mem
  BY <1>2, <1>3, RegEffect
<1>. QED
  BY <1>2, <1>4 DEF y

LEMMA BodyStep ==
  ASSUME NEW fn, NEW e \in BOOLEAN, NEW s, NEW Q, NEW g, NEW X, NEW h, NEW Q2, NEW g2,
         Safe(s, X, e), X \subseteq Addr, Q2 \subseteq AllRegs,
         \A r \in Q2 : IF r \in FPRegs(fn) THEN r \in Q /\ g2[r] = g[r] ELSE g2[r] = BodyValue[r],
         \A x \in Machine : Fits(x, s, Q, g, X, h) => ArgsHold(fn, x)
  PROVE  Hoare(fn, Known(s, Q, g, X, h, e), <<Mark("BODY")>>, Known(s, Q2, g2, X, h, e))
<1>1. "BODY" \in Marks \ {"RET"} /\ "BODY" \notin BodyOps
  BY DEF Marks, BodyOps
<1>2. ASSUME NEW x \in Machine, Fits(x, s, Q, g, X, h)
      PROVE  Effect(fn, x, Mark("BODY")) \in Machine /\ Fits(Effect(fn, x, Mark("BODY")), s, Q2, g2, X, h)
  <2>. DEFINE S == AllRegs \ FPRegs(fn)
              y == [x EXCEPT !.reg = With(@, S, BodyValue)]
  <2>1. Effect(fn, x, Mark("BODY")) = y
    BY DEF Effect, Mark, Instr, AllRegs
  <2>2. \A r \in S \cap AllRegs : BodyValue[r] \in Byte
    BY ValueFacts
  <2>. HIDE DEF S
  <2>3. Changed(x, y, S, {}) /\ \A r \in S \cap AllRegs : y.reg[r] = BodyValue[r]
    BY <2>2, WithEffect
  <2>. HIDE DEF y
  <2>4. \A r \in Q2 \cap S : y.reg[r] = g2[r]
    BY <2>3 DEF S
  <2>5. From(Q, g, Q2, g2, S)
    BY DEF From, S
  <2>6. From(X, h, X, h, {}) /\ \A a \in X \cap {} : y.mem[a] = h[a]
    BY FromSame
  <2>7. y \in Machine /\ Fits(y, s, Q2, g2, X, h)
    BY <1>2, <2>3, <2>4, <2>5, <2>6, FitsAfter
  <2>. QED
    BY <2>1, <2>7
<1>. QED
  BY <1>1, <1>2, Marked

(* The result.                                                              *)
LEMMA ResultStep ==
  ASSUME NEW fn, NEW e \in BOOLEAN, NEW s, NEW Q, NEW g, NEW X, NEW h, NEW Q2, NEW g2,
         Safe(s, X, e), X \subseteq Addr, Q2 \subseteq AllRegs, From(Q, g, Q2, g2, RetRegs(fn.ret)),
         \A r \in Q2 \cap RetRegs(fn.ret) : g2[r] = Result[r],
         \A x \in Machine : Fits(x, s, Q, g, X, h) => LocalsHold(fn, x)
  PROVE  Hoare(fn, Known(s, Q, g, X, h, e), <<Mark("RESULT")>>, Known(s, Q2, g2, X, h, e))
<1>1. "RESULT" \in Marks \ {"RET"}
  BY DEF Marks
<1>2. ASSUME NEW x \in Machine, Fits(x, s, Q, g, X, h)
      PROVE  Effect(fn, x, Mark("RESULT")) \in Machine /\ Fits(Effect(fn, x, Mark("RESULT")), s, Q2, g2, X, h)
  <2>. DEFINE S == RetRegs(fn.ret)
              y == [x EXCEPT !.reg = With(@, S, Result)]
  <2>1. Effect(fn, x, Mark("RESULT")) = y
    BY DEF Effect, Mark, Instr
  <2>2. \A r \in S \cap AllRegs : Result[r] \in Byte
    BY ValueFacts
  <2>. HIDE DEF S
  <2>3. Changed(x, y, S, {}) /\ \A r \in S \cap AllRegs : y.reg[r] = Result[r]
    BY <2>2, WithEffect
  <2>. HIDE DEF y
  <2>4. \A r \in Q2 \cap S : y.reg[r] = g2[r]
    BY <2>3 DEF S
  <2>5. From(Q, g, Q2, g2, S)
    BY DEF S
  <2>6. From(X, h, X, h, {}) /\ \A a \in X \cap {} : y.mem[a] = h[a]
    BY FromSame
  <2>7. y \in Machine /\ Fits(y, s, Q2, g2, X, h)
    BY <1>2, <2>3, <2>4, <2>5, <2>6, FitsAfter
  <2>. QED
    BY <2>1, <2>7
<1>. QED
  BY <1>1, <1>2, Marked

(* It reads its locals and what it kept over the copy.                      *)
LEMMA SeenStep ==
  ASSUME NEW fn, NEW e \in BOOLEAN, NEW s, NEW Q, NEW g, NEW X, NEW h, Safe(s, X, e), X \subseteq Addr,
         \A x \in Machine : Fits(x, s, Q, g, X, h) => LocalsHold(fn, x) /\ CopyHolds(fn, x)
  PROVE  Hoare(fn, Known(s, Q, g, X, h, e), <<Mark("SEEN")>>, Known(s, Q, g, X, h, e))
<1>1. "SEEN" \in Marks \ {"RET"}
  BY DEF Marks
<1>2. \A x \in Machine : Effect(fn, x, Mark("SEEN")) = x
  BY DEF Effect, Mark, Instr
<1>. QED
  BY <1>1, <1>2, Marked

(* It calls: what lies below SP is lost, and registers the callee uses.     *)
LEMMA CallStep ==
  ASSUME NEW fn, NEW e \in BOOLEAN, NEW s, NEW Q, NEW g, NEW X, NEW h, NEW Q2, Q2 \subseteq Q, Q \subseteq AllRegs,
         Safe(s, X, e), Safe(s, X, TRUE), X \subseteq Addr, fn.call # "no" => Q2 \subseteq {"B", "C"},
         fn.call \notin {"no", "framed"} => Q2 = {},
         \A x \in Machine : Fits(x, s, Q, g, X, h) => LocalsHold(fn, x)
  PROVE  Hoare(fn, Known(s, Q, g, X, h, e), <<Mark("CALL")>>, Known(s, Q2, g, X, h, e))
<1>1. "CALL" \in Marks \ {"RET"}
  BY DEF Marks
<1>2. ASSUME NEW x \in Machine, Fits(x, s, Q, g, X, h)
      PROVE  Effect(fn, x, Mark("CALL")) \in Machine /\ Fits(Effect(fn, x, Mark("CALL")), s, Q2, g, X, h)
  <2>1. CASE fn.call = "no"
    <3>1. Effect(fn, x, Mark("CALL")) = x
      BY <2>1 DEF Effect, Mark, Instr
    <3>. QED
      BY <1>2, <3>1 DEF Fits
  <2>2. CASE fn.call # "no"
    <3>. DEFINE z == Interrupted(x, Junk)
                vals == [r \in AllRegs |-> Junk]
                S == AllRegs \ (IF fn.call = "framed" THEN {"B", "C"} ELSE {})
                y == [z EXCEPT !.reg = With(@, S, vals)]
    <3>1. Effect(fn, x, Mark("CALL")) = y
      BY <2>2 DEF Effect, Mark, Instr, AllRegs
    <3>2. x.sp = s /\ s >= 2 /\ s - 1 \notin X /\ s - 2 \notin X
      BY <1>2 DEF Fits, Safe
    <3>3. /\ z \in Machine /\ z.sp = x.sp /\ z.reg = x.reg
          /\ \A a \in Addr \ {x.sp - 2, x.sp - 1} : z.mem[a] = x.mem[a]
      BY <3>2, InterruptEffect
    <3>4. \A r \in S \cap AllRegs : vals[r] \in Byte
      BY MachineAssumption
    <3>. HIDE DEF z, vals
    <3>5. Changed(z, y, S, {})
      <4>. HIDE DEF S
      <4>. QED
        BY <3>3, <3>4, WithEffect
    <3>6. Q2 \cap S = {}
      BY <2>2 DEF S
    <3>. HIDE DEF S, y
    <3>7. \A r \in Q2 : y.reg[r] = g[r]
      BY <1>2, <3>3, <3>5, <3>6 DEF Changed, Fits
    <3>8. \A a \in X : y.mem[a] = h[a]
      BY <1>2, <3>2, <3>3, <3>5 DEF Changed, Fits
    <3>9. y \in Machine /\ y.sp = s
      BY <3>2, <3>3, <3>5 DEF Changed
    <3>. QED
      BY <3>1, <3>7, <3>8, <3>9 DEF Fits
  <2>. QED
    BY <2>1, <2>2
<1>3. From(X, h, X, h, {})
  BY FromSame
<1>. QED
  BY <1>1, <1>2, Marked

(* RET.                                                                     *)
LEMMA RetStep ==
  ASSUME NEW fn, NEW e \in BOOLEAN, NEW s, NEW Q, NEW g, NEW X, NEW h, Safe(s, X, e), X \subseteq Addr,
         \A c \in Known(s, Q, g, X, h, e) : ReturnHolds(fn, c)
  PROVE  Hoare(fn, Known(s, Q, g, X, h, e), <<Mark("RET")>>, {})
<1>. DEFINE i == Mark("RET")
            P == Known(s, Q, g, X, h, e)
            R == {}
<1>1. i.op = "RET" /\ "RET" \notin BodyOps
  BY DEF Mark, Instr, BodyOps
<1>2. P \subseteq Config /\ Stable(P) /\ R \subseteq Config /\ Stable(R)
  BY KnownStable DEF Stable
<1>3. \A c \in P : ReturnHolds(fn, c)
  OBVIOUS
<1>. HIDE DEF i, P, R
<1>4. \A c \in P : Asked(fn, c, i) /\ (i.op # "RET" => Step(fn, c, i) \in R)
  BY <1>1, <1>3 DEF Asked
<1>5. Hoare(fn, P, <<i>>, R)
  BY <1>2, <1>4, HoareOne
<1>. QED
  BY <1>5 DEF P, R, i
-----------------------------------------------------------------------------
(* The frame of a function: sizes, and where its locals are.                *)
LEMMA FrameFacts ==
  ASSUME NEW fn, FunctionType(fn)
  PROVE  /\ FrameSize(fn) \in Nat /\ ArgSave(fn) \in {0, 4} /\ StackSize(fn) = FrameSize(fn) + ArgSave(fn)
         /\ fn.locals \in Nat /\ fn.out \in Nat /\ fn.copy \in Nat /\ StackSize(fn) \in Nat
         /\ FrameSize(fn) = fn.locals + (IF fn.fp THEN 0 ELSE fn.out)
<1>1. fn.locals \in Nat /\ fn.out \in Nat /\ fn.copy \in Nat
  BY DEF FunctionType
<1>2. FrameSize(fn) = fn.locals + (IF fn.fp THEN 0 ELSE fn.out)
  BY DEF FrameSize
<1>3. FrameSize(fn) \in Nat
  BY <1>1, <1>2
<1>4. ArgSave(fn) \in {0, 4} /\ StackSize(fn) = FrameSize(fn) + ArgSave(fn)
  BY DEF ArgSave, StackSize
<1>5. StackSize(fn) \in Nat
  BY <1>3, <1>4
<1>. QED
  BY <1>1, <1>2, <1>3, <1>4, <1>5

LEMMA LocalAddress ==
  ASSUME NEW fn, FunctionType(fn), NEW s \in Addr, NEW base, s + StackSize(fn) = base, base \in Addr,
         NEW x, x.sp = s, NEW k \in 0..fn.locals - 1
  PROVE  LocalAddr(fn, x, k) = base - fn.locals + k /\ base - fn.locals + k \in Addr
<1>. DEFINE n == fn.locals
            z == StackSize(fn)
            v == base - n + k
<1>1. n \in Nat /\ z \in Nat /\ z >= n /\ s + z = base
  <2>1. n \in Nat /\ z = FrameSize(fn) + ArgSave(fn) /\ ArgSave(fn) \in {0, 4} /\ fn.out \in Nat
        /\ FrameSize(fn) = n + (IF fn.fp THEN 0 ELSE fn.out)
    BY FrameFacts
  <2>. HIDE DEF n, z
  <2>2. z \in Nat /\ z >= n
    BY <2>1
  <2>. QED
    BY <2>1, <2>2 DEF z
<1>2. s \in Nat /\ base \in Nat /\ \A i \in Nat : i <= base => i \in Addr
  BY ByteFacts DEF Addr
<1>. HIDE DEF z
<1>3. k \in Int /\ k >= 0 /\ k < n
  BY <1>1
<1>. HIDE DEF n
<1>4. v \in Nat /\ v <= base /\ v = s + ((k - n) + z)
  BY <1>1, <1>2, <1>3
<1>5. v \in Addr
  BY <1>2, <1>4
<1>. HIDE DEF v
<1>6. Wrap(v) = v
  BY <1>5, WrapFacts
<1>7. LocalAddr(fn, x, k) = Wrap(s + ((k - n) + z))
  BY DEF LocalAddr, SpOffset, LocalOffset, n, z
<1>8. LocalAddr(fn, x, k) = v
  BY <1>4, <1>6, <1>7
<1>. QED
  BY <1>5, <1>8 DEF v, n

LEMMA MarkByte ==
  ASSUME NEW k \in Nat
  PROVE  LocalMark(k) \in Byte
<1>. DEFINE n == ByteSize - 1
<1>1. n \in Nat \ {0}
  BY ByteFacts
<1>. HIDE DEF n
<1>2. k % n \in 0..(n - 1)
  BY <1>1
<1>3. 1 + (k % n) \in 0..n
  BY <1>1, <1>2
<1>. QED
  BY <1>3 DEF LocalMark, Byte, n

(* The bytes a Store writes, and the others.                                *)
Stored(x, n, A, V) ==
  [x EXCEPT !.mem = [a \in Addr |-> IF \E k \in 0..n - 1 : A[k] = a
                                    THEN V[CHOOSE k \in 0..n - 1 : A[k] = a] ELSE x.mem[a]]]

StoredAll(h, n, A, V) == \A k \in 0..n - 1 : A[k] \in Addr => h[A[k]] = V[k]

LEMMA StoreFacts ==
  ASSUME NEW x \in Machine, NEW n \in Nat, NEW A, NEW V, NEW W, \A k \in 0..n - 1 : A[k] \in W,
         \A k \in 0..n - 1 : V[k] \in Byte, \A k, j \in 0..n - 1 : A[k] = A[j] => V[k] = V[j]
  PROVE  /\ Changed(x, Stored(x, n, A, V), {}, W)
         /\ StoredAll(Stored(x, n, A, V).mem, n, A, V)
<1>. DEFINE h == [a \in Addr |-> IF \E k \in 0..n - 1 : A[k] = a
                                 THEN V[CHOOSE k \in 0..n - 1 : A[k] = a] ELSE x.mem[a]]
            y == Stored(x, n, A, V)
<1>1. x.mem \in [Addr -> Byte]
  BY MachineParts
<1>2. ASSUME NEW a \in Addr PROVE h[a] \in Byte
  <2>1. CASE \E k \in 0..n - 1 : A[k] = a
    <3>1. (CHOOSE k \in 0..n - 1 : A[k] = a) \in 0..n - 1
      BY <2>1
    <3>2. h[a] = V[CHOOSE k \in 0..n - 1 : A[k] = a]
      BY <2>1
    <3>. QED
      BY <3>1, <3>2
  <2>2. CASE ~\E k \in 0..n - 1 : A[k] = a
    BY <1>1, <2>2
  <2>. QED
    BY <2>1, <2>2
<1>3. h \in [Addr -> Byte]
  <2>1. h = [a \in Addr |-> h[a]]
    OBVIOUS
  <2>. HIDE DEF h
  <2>. QED
    BY <1>2, <2>1
<1>4. \A a \in Addr \ W : h[a] = x.mem[a]
  OBVIOUS
<1>5. ASSUME NEW k \in 0..n - 1, A[k] \in Addr PROVE h[A[k]] = V[k]
  <2>. DEFINE a == A[k]
              j == CHOOSE i \in 0..n - 1 : A[i] = a
  <2>1. j \in 0..n - 1 /\ A[j] = a
    OBVIOUS
  <2>2. h[a] = V[j]
    BY <1>5
  <2>. HIDE DEF j
  <2>. QED
    BY <2>1, <2>2
<1>6. y = WithMem(x, h)
  BY MachineParts DEF WithMem, Stored
<1>. HIDE DEF h, y
<1>7. Changed(x, y, {}, W) /\ y.mem = h /\ y.reg = x.reg
  BY <1>3, <1>4, <1>6, MemEffect
<1>8. StoredAll(y.mem, n, A, V)
  BY <1>5, <1>7 DEF StoredAll
<1>. QED
  BY <1>7, <1>8 DEF y

(* It fills its locals.                                                     *)
LEMMA StoreLocals ==
  ASSUME NEW fn, FunctionType(fn), NEW e \in BOOLEAN, NEW s, NEW Q, NEW g, NEW X, NEW h, NEW X2, NEW h2, NEW base,
         Q \subseteq AllRegs, Safe(s, X, e), X \subseteq Addr, Safe(s, X2, e), X2 \subseteq Addr,
         s + StackSize(fn) = base, base \in Addr,
         From(X, h, X2, h2, (base - fn.locals)..(base - 1)),
         \A k \in 0..fn.locals - 1 : h2[base - fn.locals + k] = LocalMark(k)
  PROVE  Hoare(fn, Known(s, Q, g, X, h, e), <<Mark("STORE")>>, Known(s, Q, g, X2, h2, e))
<1>1. "STORE" \in Marks \ {"RET"} /\ "STORE" \notin BodyOps
  BY DEF Marks, BodyOps
<1>2. ASSUME NEW x \in Machine, Fits(x, s, Q, g, X, h)
      PROVE  Effect(fn, x, Mark("STORE")) \in Machine /\ Fits(Effect(fn, x, Mark("STORE")), s, Q, g, X2, h2)
  <2>. DEFINE n == fn.locals
              A == [k \in 0..n - 1 |-> base - n + k]
              V == [k \in 0..n - 1 |-> LocalMark(k)]
              y == Stored(x, n, A, V)
              W == (base - n)..(base - 1)
  <2>1. x.sp = s /\ s \in Addr /\ n \in Nat /\ base \in Nat
    BY <1>2, FrameFacts, ByteFacts DEF Fits, Safe
  <2>2. \A k \in 0..n - 1 : LocalAddr(fn, x, k) = base - n + k /\ base - n + k \in Addr
    BY <2>1, LocalAddress
  <2>3. Effect(fn, x, Mark("STORE")) = y
    <3>1. Effect(fn, x, Mark("STORE")) =
            [x EXCEPT !.mem = [a \in Addr |-> IF \E k \in 0..n - 1 : LocalAddr(fn, x, k) = a
                                 THEN LocalMark(CHOOSE k \in 0..n - 1 : LocalAddr(fn, x, k) = a) ELSE x.mem[a]]]
      BY DEF Effect, Mark, Instr, Store
    <3>2. ASSUME NEW a \in Addr
          PROVE  (IF \E k \in 0..n - 1 : LocalAddr(fn, x, k) = a
                  THEN LocalMark(CHOOSE k \in 0..n - 1 : LocalAddr(fn, x, k) = a) ELSE x.mem[a])
                 = (IF \E k \in 0..n - 1 : A[k] = a THEN V[CHOOSE k \in 0..n - 1 : A[k] = a] ELSE x.mem[a])
      <4>1. CASE \E k \in 0..n - 1 : A[k] = a
        <5>1. PICK k \in 0..n - 1 : A[k] = a
          BY <4>1
        <5>. DEFINE i == CHOOSE j \in 0..n - 1 : A[j] = a
                    l == CHOOSE j \in 0..n - 1 : LocalAddr(fn, x, j) = a
        <5>2. i \in 0..n - 1 /\ A[i] = a
          BY <5>1
        <5>3. l \in 0..n - 1 /\ LocalAddr(fn, x, l) = a
          BY <2>2, <5>1
        <5>. HIDE DEF i, l
        <5>4. i = l
          <6>1. base - n + i = base - n + l
            BY <2>2, <5>2, <5>3
          <6>. HIDE DEF n
          <6>. QED
            BY <2>1, <5>2, <5>3, <6>1
        <5>5. V[i] = LocalMark(l)
          BY <5>2, <5>4
        <5>6. \E j \in 0..n - 1 : LocalAddr(fn, x, j) = a
          BY <5>3
        <5>. QED
          BY <4>1, <5>5, <5>6 DEF i, l
      <4>2. CASE ~\E k \in 0..n - 1 : A[k] = a
        <5>1. ~\E k \in 0..n - 1 : LocalAddr(fn, x, k) = a
          BY <2>2, <4>2
        <5>. QED
          BY <4>2, <5>1
      <4>. QED
        BY <4>1, <4>2
    <3>. HIDE DEF A, V
    <3>. QED
      BY <3>1, <3>2 DEF Stored
  <2>4. \A k \in 0..n - 1 : V[k] \in Byte
    BY MarkByte
  <2>5. \A k, j \in 0..n - 1 : A[k] = A[j] => V[k] = V[j]
    <3>1. ASSUME NEW k \in 0..n - 1, NEW j \in 0..n - 1, A[k] = A[j] PROVE k = j
      BY <2>1, <3>1
    <3>. HIDE DEF A
    <3>. QED
      BY <3>1
  <2>6. \A k \in 0..n - 1 : A[k] \in W
    <3>1. ASSUME NEW k \in 0..n - 1 PROVE A[k] \in W
      <4>1. A[k] = base - n + k
        OBVIOUS
      <4>. HIDE DEF n, A
      <4>. QED
        BY <2>1, <4>1
    <3>. HIDE DEF A, W
    <3>. QED
      BY <3>1
  <2>7. /\ Changed(x, y, {}, W)
        /\ \A k \in 0..n - 1 : A[k] \in Addr => y.mem[A[k]] = V[k]
    <3>1. n \in Nat
      BY <2>1
    <3>. DEFINE z == Stored(x, n, A, V)
    <3>. HIDE DEF n, A, V, W
    <3>2. Changed(x, z, {}, W)
      BY <3>1, <2>4, <2>5, <2>6, StoreFacts
    <3>3. StoredAll(z.mem, n, A, V)
      BY <3>1, <2>4, <2>5, <2>6, StoreFacts
    <3>. HIDE DEF z
    <3>4. \A k \in 0..n - 1 : A[k] \in Addr => z.mem[A[k]] = V[k]
      BY <3>3 DEF StoredAll
    <3>. QED
      BY <3>2, <3>4 DEF z
  <2>8. \A a \in X2 \cap W : y.mem[a] = h2[a]
    <3>1. ASSUME NEW a \in W PROVE y.mem[a] = h2[a]
      <4>. DEFINE k == a - (base - n)
      <4>1. k \in 0..n - 1 /\ a = base - n + k
        <5>. HIDE DEF n
        <5>. QED
          BY <2>1
      <4>. HIDE DEF k, y
      <4>2. A[k] = a /\ a \in Addr /\ V[k] = h2[a]
        BY <2>2, <4>1
      <4>. QED
        BY <2>7, <4>1, <4>2
    <3>. QED
      BY <3>1
  <2>. HIDE DEF y
  <2>9. From(X, h, X2, h2, W)
    OBVIOUS
  <2>. HIDE DEF W
  <2>10. From(Q, g, Q, g, {}) /\ \A r \in Q \cap {} : y.reg[r] = g[r]
    BY FromSame
  <2>11. y \in Machine /\ Fits(y, s, Q, g, X2, h2)
    BY <1>2, <2>7, <2>8, <2>9, <2>10, FitsAfter
  <2>. QED
    BY <2>3, <2>11
<1>. QED
  BY <1>1, <1>2, Marked

(* It stores outgoing arguments at SP.                                      *)
LEMMA OutStep ==
  ASSUME NEW fn, FunctionType(fn), NEW e \in BOOLEAN, NEW s, NEW Q, NEW g, NEW X, NEW h,
         Q \subseteq AllRegs, Safe(s, X, e), X \subseteq Addr, s + fn.out \in Addr,
         \A k \in 0..fn.out - 1 : s + k \notin X,
         \A x \in Machine : Fits(x, s, Q, g, X, h) => LocalsHold(fn, x)
  PROVE  Hoare(fn, Known(s, Q, g, X, h, e), <<Mark("OUT")>>, Known(s, Q, g, X, h, e))
<1>1. "OUT" \in Marks \ {"RET"} /\ "OUT" # "SEEN" /\ "OUT" # "BODY"
  BY DEF Marks
<1>2. ASSUME NEW x \in Machine, Fits(x, s, Q, g, X, h)
      PROVE  Effect(fn, x, Mark("OUT")) \in Machine /\ Fits(Effect(fn, x, Mark("OUT")), s, Q, g, X, h)
  <2>. DEFINE n == fn.out
              A == [k \in 0..n - 1 |-> Wrap(x.sp + k)]
              V == [k \in 0..n - 1 |-> Junk]
              y == Stored(x, n, A, V)
              W == {s + k : k \in 0..n - 1}
  <2>1. x.sp = s /\ s \in Addr /\ n \in Nat /\ s \in Nat /\ Addr = 0..(ByteSize * ByteSize - 1) /\ ByteSize * ByteSize \in Nat
    BY <1>2, FrameFacts, ByteFacts DEF Fits, Safe, Addr
  <2>2. \A k \in 0..n - 1 : Wrap(x.sp + k) = s + k /\ s + k \in Addr
    <3>1. ASSUME NEW k \in 0..n - 1 PROVE s + k \in Addr
      <4>. HIDE DEF n
      <4>1. s + n \in Addr
        BY DEF n
      <4>. DEFINE b == ByteSize * ByteSize
      <4>2. Addr = 0..(b - 1) /\ b \in Nat
        BY <2>1
      <4>. HIDE DEF b
      <4>. QED
        BY <2>1, <4>1, <4>2
    <3>. QED
      BY <2>1, <3>1, WrapFacts
  <2>3. Effect(fn, x, Mark("OUT")) = y
    <3>1. Effect(fn, x, Mark("OUT")) =
            [x EXCEPT !.mem = [a \in Addr |-> IF \E k \in 0..n - 1 : Wrap(x.sp + k) = a THEN Junk ELSE x.mem[a]]]
      BY DEF Effect, Mark, Instr, Store
    <3>2. ASSUME NEW a \in Addr
          PROVE  (IF \E k \in 0..n - 1 : Wrap(x.sp + k) = a THEN Junk ELSE x.mem[a])
                 = (IF \E k \in 0..n - 1 : A[k] = a THEN V[CHOOSE k \in 0..n - 1 : A[k] = a] ELSE x.mem[a])
      <4>1. CASE \E k \in 0..n - 1 : A[k] = a
        <5>1. (CHOOSE k \in 0..n - 1 : A[k] = a) \in 0..n - 1
          BY <4>1
        <5>2. V[CHOOSE k \in 0..n - 1 : A[k] = a] = Junk
          <6>. HIDE DEF A
          <6>. QED
            BY <5>1
        <5>3. \E k \in 0..n - 1 : Wrap(x.sp + k) = a
          BY <4>1
        <5>. QED
          BY <4>1, <5>2, <5>3
      <4>2. CASE ~\E k \in 0..n - 1 : A[k] = a
        BY <4>2
      <4>. QED
        BY <4>1, <4>2
    <3>. HIDE DEF A, V
    <3>. QED
      BY <3>1, <3>2 DEF Stored
  <2>4. \A k \in 0..n - 1 : V[k] \in Byte
    BY MachineAssumption
  <2>5. \A k, j \in 0..n - 1 : A[k] = A[j] => V[k] = V[j]
    <3>. HIDE DEF A
    <3>. QED
      OBVIOUS
  <2>6. Changed(x, y, {}, W)
    <3>1. \A k \in 0..n - 1 : A[k] \in W
      BY <2>2
    <3>. HIDE DEF n, A, V, W
    <3>. QED
      BY <2>1, <2>4, <2>5, <3>1, StoreFacts
  <2>7. X \cap W = {}
    BY <2>2
  <2>. HIDE DEF y, W
  <2>8. From(Q, g, Q, g, {}) /\ From(X, h, X, h, W)
    BY FromSame
  <2>9. (\A r \in Q \cap {} : y.reg[r] = g[r]) /\ \A a \in X \cap W : y.mem[a] = h[a]
    BY <2>7
  <2>10. y \in Machine /\ Fits(y, s, Q, g, X, h)
    BY <1>2, <2>6, <2>8, <2>9, FitsAfter
  <2>. QED
    BY <2>3, <2>10
<1>. QED
  BY <1>1, <1>2, Marked
-----------------------------------------------------------------------------
(* Rounds of w instructions, and one instruction many times.                *)
Repeated(w, n, B) == [p \in 1..w * n |-> B[(p - 1) \div w][1 + ((p - 1) % w)]]

LEMMA SplitIndex ==
  ASSUME NEW w \in {2, 4}, NEW p \in Nat
  PROVE  /\ p \div w \in Nat /\ p % w \in 0..w - 1 /\ p = w * (p \div w) + (p % w)
         /\ IF (p % w) + 1 < w THEN (p + 1) \div w = p \div w /\ (p + 1) % w = (p % w) + 1
            ELSE (p + 1) \div w = (p \div w) + 1 /\ (p + 1) % w = 0
<1>1. CASE w = 2
  BY <1>1
<1>2. CASE w = 4
  BY <1>2
<1>. QED
  BY <1>1, <1>2

LEMMA RepeatedLen ==
  ASSUME NEW w \in {2, 4}, NEW n \in Nat, NEW B
  PROVE  Len(Repeated(w, n, B)) = w * n /\ w * n \in Nat
<1>. DEFINE u == Repeated(w, n, B)
            k == w * n
<1>1. k \in Nat
  BY SMT
<1>2. u = [p \in 1..k |-> u[p]]
  BY DEF Repeated
<1>. HIDE DEF u, k
<1>3. u \in Seq({u[p] : p \in 1..k}) /\ Len(u) = k
  BY <1>1, <1>2
<1>. QED
  BY <1>1, <1>3 DEF u, k

LEMMA HoareRounds ==
  ASSUME NEW fn, NEW w \in {2, 4}, NEW n \in Nat, NEW B, NEW G,
         \A k \in 0..n : G[k] \subseteq Config /\ Stable(G[k]),
         \A k \in 0..n - 1 : Len(B[k]) = w /\ Hoare(fn, G[k], B[k], G[k + 1])
  PROVE  Hoare(fn, G[0], Repeated(w, n, B), G[n])
<1>. DEFINE u == Repeated(w, n, B)
            A(k) == CHOOSE F : Annotates(fn, F, B[k]) /\ G[k] \subseteq F[0] /\ F[w] \subseteq G[k + 1]
            H == [p \in 0..w * n |-> IF p = w * n THEN G[n] ELSE A(p \div w)[p % w]]
<1>1. Len(u) = w * n /\ w * n \in Nat
  BY RepeatedLen
<1>2. ASSUME NEW k \in 0..n - 1
      PROVE  /\ G[k] \subseteq A(k)[0] /\ A(k)[w] \subseteq G[k + 1]
             /\ \A j \in 0..w : A(k)[j] \subseteq Config /\ Stable(A(k)[j])
             /\ \A j \in 1..w : \A c \in A(k)[j - 1] :
                  Asked(fn, c, B[k][j]) /\ (B[k][j].op # "RET" => Step(fn, c, B[k][j]) \in A(k)[j])
  <2>1. Len(B[k]) = w /\ Hoare(fn, G[k], B[k], G[k + 1])
    OBVIOUS
  <2>2. \E F : Annotates(fn, F, B[k]) /\ G[k] \subseteq F[0] /\ F[w] \subseteq G[k + 1]
    BY <2>1 DEF Hoare
  <2>3. Annotates(fn, A(k), B[k]) /\ G[k] \subseteq A(k)[0] /\ A(k)[w] \subseteq G[k + 1]
    BY <2>2
  <2>. HIDE DEF A
  <2>. QED
    BY <2>1, <2>3 DEF Annotates
<1>. HIDE DEF A
<1>3. \A p \in 1..w * n : u[p] = B[(p - 1) \div w][1 + ((p - 1) % w)]
  BY DEF Repeated
<1>4. H[w * n] = G[n] /\ \A p \in 0..w * n - 1 : H[p] = A(p \div w)[p % w]
  BY <1>1
<1>5. ASSUME NEW p \in 0..w * n - 1
      PROVE  /\ p \div w \in 0..n - 1 /\ p % w \in 0..w - 1
             /\ (p + 1) \div w = (IF (p % w) + 1 < w THEN p \div w ELSE (p \div w) + 1)
             /\ (p + 1) % w = (IF (p % w) + 1 < w THEN (p % w) + 1 ELSE 0)
             /\ p + 1 = w * n => (p % w) + 1 = w /\ (p \div w) + 1 = n
  <2>. DEFINE k == p \div w
              j == p % w
  <2>1. p \in Nat /\ p < w * n
    BY <1>1
  <2>2. /\ k \in Nat /\ j \in 0..w - 1 /\ p = w * k + j
        /\ IF j + 1 < w THEN (p + 1) \div w = k /\ (p + 1) % w = j + 1
           ELSE (p + 1) \div w = k + 1 /\ (p + 1) % w = 0
    BY <2>1, SplitIndex
  <2>. HIDE DEF k, j
  <2>3. k <= n - 1 /\ (p + 1 = w * n => j + 1 = w /\ k + 1 = n)
    <3>1. CASE w = 2
      BY <2>1, <2>2, <3>1
    <3>2. CASE w = 4
      BY <2>1, <2>2, <3>2
    <3>. QED
      BY <3>1, <3>2
  <2>. QED
    BY <2>2, <2>3 DEF k, j
<1>. HIDE DEF H, u
<1>6. \A p \in 0..w * n : H[p] \subseteq Config /\ Stable(H[p])
  <2>. TAKE p \in 0..w * n
  <2>1. CASE p = w * n
    BY <1>4, <2>1
  <2>2. CASE p # w * n
    <3>1. p \in 0..w * n - 1
      BY <1>1, <2>2
    <3>2. p \div w \in 0..n - 1 /\ p % w \in 0..w - 1
      BY <1>5, <3>1
    <3>3. 0..w - 1 \subseteq 0..w
      OBVIOUS
    <3>4. H[p] = A(p \div w)[p % w]
      BY <1>4, <3>1
    <3>. DEFINE k == p \div w
                j == p % w
    <3>5. k \in 0..n - 1 /\ j \in 0..w /\ H[p] = A(k)[j]
      BY <3>2, <3>3, <3>4
    <3>. HIDE DEF k, j
    <3>. QED
      BY <1>2, <3>5
  <2>. QED
    BY <2>1, <2>2
<1>7. ASSUME NEW p \in 1..w * n, NEW c \in H[p - 1]
      PROVE  Asked(fn, c, u[p]) /\ (u[p].op # "RET" => Step(fn, c, u[p]) \in H[p])
  <2>. DEFINE q == p - 1
              k == q \div w
              j == q % w
  <2>1. q \in 0..w * n - 1 /\ q + 1 = p /\ p \in 0..w * n
    BY <1>1
  <2>2. u[p] = B[k][1 + j]
    BY <1>3
  <2>. HIDE DEF q
  <2>3. /\ k \in 0..n - 1 /\ j \in 0..w - 1
        /\ p \div w = (IF j + 1 < w THEN k ELSE k + 1) /\ p % w = (IF j + 1 < w THEN j + 1 ELSE 0)
        /\ p = w * n => j + 1 = w /\ k + 1 = n
    BY <1>5, <2>1
  <2>4. c \in A(k)[j]
    BY <1>4, <2>1 DEF q
  <2>. HIDE DEF k, j
  <2>5. j + 1 \in 1..w /\ (j + 1) - 1 = j
    BY <2>3
  <2>6. Asked(fn, c, u[p]) /\ (u[p].op # "RET" => Step(fn, c, u[p]) \in A(k)[j + 1])
    <3>1. 1 + j = j + 1
      BY <2>3
    <3>. DEFINE l == j + 1
    <3>2. l \in 1..w /\ c \in A(k)[l - 1] /\ u[p] = B[k][l]
      BY <2>2, <2>4, <2>5, <3>1
    <3>. HIDE DEF l
    <3>3. Asked(fn, c, B[k][l]) /\ (B[k][l].op # "RET" => Step(fn, c, B[k][l]) \in A(k)[l])
      BY <1>2, <2>3, <3>2
    <3>4. Asked(fn, c, u[p]) /\ (u[p].op # "RET" => Step(fn, c, u[p]) \in A(k)[l])
      BY <3>2, <3>3
    <3>. QED
      BY <3>4 DEF l
  <2>7. A(k)[j + 1] \subseteq H[p]
    <3>1. CASE p = w * n
      BY <1>2, <1>4, <2>3, <3>1
    <3>2. CASE p # w * n /\ j + 1 < w
      <4>1. p \in 0..w * n - 1
        BY <1>1, <2>1, <3>2
      <4>. QED
        BY <1>4, <2>3, <3>2, <4>1
    <3>3. CASE p # w * n /\ ~(j + 1 < w)
      <4>1. p \in 0..w * n - 1
        BY <1>1, <2>1, <3>3
      <4>2. p \div w = k + 1 /\ p % w = 0 /\ k + 1 \in 0..n - 1 /\ j + 1 = w
        BY <1>5, <2>3, <3>3, <4>1
      <4>3. H[p] = A(k + 1)[0]
        BY <1>4, <4>1, <4>2
      <4>4. A(k)[w] \subseteq G[k + 1] /\ G[k + 1] \subseteq A(k + 1)[0]
        BY <1>2, <2>3, <4>2
      <4>. QED
        BY <4>2, <4>3, <4>4
    <3>. QED
      BY <3>1, <3>2, <3>3
  <2>. QED
    BY <2>6, <2>7
<1>8. Annotates(fn, H, u)
  BY <1>1, <1>6, <1>7 DEF Annotates
<1>9. G[0] \subseteq H[0]
  <2>1. CASE n = 0
    <3>1. w * n = 0
      BY <2>1
    <3>. QED
      BY <1>4, <2>1, <3>1
  <2>2. CASE n # 0
    <3>1. 0 \in 0..n - 1 /\ 0 \in 0..w * n - 1 /\ 0 \div w = 0 /\ 0 % w = 0
      <4>1. CASE w = 2
        BY <2>2, <4>1
      <4>2. CASE w = 4
        BY <2>2, <4>2
      <4>. QED
        BY <4>1, <4>2
    <3>2. H[0] = A(0)[0]
      BY <1>4, <3>1
    <3>. QED
      BY <1>2, <3>1, <3>2
  <2>. QED
    BY <2>1, <2>2
<1>10. H[Len(u)] \subseteq G[n]
  BY <1>1, <1>4
<1>11. Hoare(fn, G[0], u, G[n])
  BY <1>8, <1>9, <1>10 DEF Hoare
<1>. QED
  BY <1>11 DEF u

LEMMA HoareTimes ==
  ASSUME NEW fn, NEW i, i.op # "RET", NEW n \in Nat, NEW G,
         \A k \in 0..n : G[k] \subseteq Config /\ Stable(G[k]),
         \A k \in 0..n - 1 : Hoare(fn, G[k], <<i>>, G[k + 1])
  PROVE  Hoare(fn, G[0], Times(n, i), G[n])
<1>. DEFINE u == Times(n, i)
<1>1. Len(u) = n /\ \A k \in 1..n : u[k] = i
  <2>1. u \in Seq({i})
    BY DEF Times
  <2>. QED
    BY DEF Times
<1>. HIDE DEF u
<1>2. ASSUME NEW k \in 1..n, NEW c \in G[k - 1]
      PROVE  Asked(fn, c, i) /\ Step(fn, c, i) \in G[k]
  <2>1. k - 1 \in 0..n - 1 /\ (k - 1) + 1 = k
    OBVIOUS
  <2>2. Hoare(fn, G[k - 1], <<i>>, G[k])
    BY <2>1
  <2>3. PICK F : Annotates(fn, F, <<i>>) /\ G[k - 1] \subseteq F[0] /\ F[Len(<<i>>)] \subseteq G[k]
    BY <2>2 DEF Hoare
  <2>4. Len(<<i>>) = 1 /\ <<i>>[1] = i /\ 1 \in 1..1 /\ 1 - 1 = 0
    OBVIOUS
  <2>5. c \in F[0]
    BY <2>3
  <2>6. Asked(fn, c, i) /\ Step(fn, c, i) \in F[1]
    BY <2>3, <2>4, <2>5 DEF Annotates
  <2>. QED
    BY <2>3, <2>4, <2>6
<1>3. Annotates(fn, G, u)
  BY <1>1, <1>2 DEF Annotates
<1>4. Hoare(fn, G[0], u, G[n])
  BY <1>1, <1>3 DEF Hoare
<1>. QED
  BY <1>4 DEF u
-----------------------------------------------------------------------------
(* HL set to an address.                                                    *)
HLSet(g, v) ==
  [r \in AllRegs |-> IF r = "H" THEN v \div ByteSize ELSE IF r = "L" THEN v % ByteSize ELSE g[r]]

LEMMA HLSetFacts ==
  ASSUME NEW g, NEW v \in Addr, NEW Q
  PROVE  /\ Holding("HL", Q \cup {"H", "L"}, HLSet(g, v), v)
         /\ \A r \in AllRegs \ {"H", "L"} : HLSet(g, v)[r] = g[r]
<1>1. HLSet(g, v)["H"] = v \div ByteSize /\ HLSet(g, v)["L"] = v % ByteSize
  BY DEF HLSet, AllRegs, Regs
<1>2. \A r \in AllRegs \ {"H", "L"} : HLSet(g, v)[r] = g[r]
  BY DEF HLSet
<1>. QED
  BY <1>1, <1>2, PairFacts DEF Holding

LEMMA HoldingMore ==
  ASSUME NEW Q, NEW Q2, NEW g, NEW v, NEW p, Q \subseteq Q2, Holding(p, Q, g, v)
  PROVE  Holding(p, Q2, g, v)
BY DEF Holding

(* HL := n + SP.                                                            *)
LEMMA PointHL ==
  ASSUME NEW fn, NEW n \in Addr, NEW v \in Addr, NEW s, NEW Q, NEW g, NEW X, NEW h, NEW e,
         Safe(s, X, e), X \subseteq Addr, Q \subseteq AllRegs, Wrap(n + s) = v
  PROVE  Hoare(fn, Known(s, Q, g, X, h, e), <<Lxi("HL", n), DadSp>>,
               Known(s, (Q \cup {"H", "L"}) \ {"F"}, HLSet(g, v), X, h, e))
<1>. DEFINE Q1 == Q \cup {"H", "L"}
            g1 == HLSet(g, n)
            Q2 == Q1 \ {"F"}
            g2 == HLSet(g, v)
            i == Lxi("HL", n)
            j == DadSp
<1>1. Q1 \subseteq AllRegs /\ Q2 \subseteq AllRegs /\ "F" \notin Q2
  BY DEF AllRegs, Regs
<1>2. Holding("HL", Q1, g1, n) /\ \A r \in AllRegs \ {"H", "L"} : g1[r] = g[r]
  BY HLSetFacts
<1>3. Holding("HL", Q1, g2, v) /\ \A r \in AllRegs \ {"H", "L"} : g2[r] = g[r]
  BY HLSetFacts
<1>4. Holding("HL", Q2, g2, v)
  BY <1>3, PairFacts DEF Holding
<1>5. From(Q, g, Q1, g1, {Hi["HL"], Lo["HL"]})
  BY <1>1, <1>2, PairFacts DEF From
<1>6. From(Q1, g1, Q2, g2, {"H", "L", "F"})
  BY <1>1, <1>2, <1>3 DEF From
<1>7. "HL" \in Pairs
  BY DEF Pairs
<1>. HIDE DEF Q1, Q2, g1, g2
<1>8. Hoare(fn, Known(s, Q, g, X, h, e), <<i>>, Known(s, Q1, g1, X, h, e))
  BY <1>1, <1>2, <1>5, <1>7, LxiStep
<1>9. Hoare(fn, Known(s, Q1, g1, X, h, e), <<j>>, Known(s, Q2, g2, X, h, e))
  BY <1>1, <1>2, <1>4, <1>6, DadStep
<1>. HIDE DEF i, j
<1>10. Hoare(fn, Known(s, Q, g, X, h, e), <<i, j>>, Known(s, Q2, g2, X, h, e))
  BY <1>8, <1>9, Hoare2
<1>. QED
  BY <1>10 DEF i, j, Q2, Q1, g2

(* SP := n + SP through HL.                                                 *)
LEMMA MoveSP ==
  ASSUME NEW fn, NEW n \in Addr, NEW v \in Addr, NEW s, NEW Q, NEW g, NEW X, NEW h, NEW e, NEW Q2,
         Safe(s, X, e), Safe(v, X, e), X \subseteq Addr, Q \subseteq AllRegs, Wrap(n + s) = v,
         Q2 \subseteq Q \ {"H", "L", "F"}
  PROVE  Hoare(fn, Known(s, Q, g, X, h, e), <<Lxi("HL", n), DadSp, Sphl>>, Known(v, Q2, g, X, h, e))
<1>. DEFINE Q1 == (Q \cup {"H", "L"}) \ {"F"}
            g1 == HLSet(g, v)
            u == <<Lxi("HL", n), DadSp>>
<1>1. Q1 \subseteq AllRegs
  BY DEF AllRegs, Regs
<1>2. Holding("HL", Q1, g1, v)
  <2>1. Holding("HL", Q \cup {"H", "L"}, g1, v)
    BY HLSetFacts
  <2>. QED
    BY <2>1, PairFacts DEF Holding
<1>3. Hoare(fn, Known(s, Q, g, X, h, e), u, Known(s, Q1, g1, X, h, e))
  BY PointHL
<1>4. From(Q1, g1, Q2, g, {}) /\ From(X, h, X, h, {})
  BY HLSetFacts DEF From
<1>5. u \in Seq({Lxi("HL", n), DadSp}) /\ <<Sphl>> \in Seq({Sphl})
  OBVIOUS
<1>6. <<Lxi("HL", n), DadSp, Sphl>> = u \o <<Sphl>>
  OBVIOUS
<1>. HIDE DEF Q1, g1, u
<1>7. Hoare(fn, Known(s, Q1, g1, X, h, e), <<Sphl>>, Known(v, Q1, g1, X, h, e))
  BY <1>1, <1>2, SphlStep
<1>8. Known(v, Q1, g1, X, h, e) \subseteq Known(v, Q2, g, X, h, e)
  BY <1>4, KnownLess
<1>9. Hoare(fn, Known(s, Q, g, X, h, e), u \o <<Sphl>>, Known(v, Q1, g1, X, h, e))
  BY <1>3, <1>5, <1>7, HoareJoin
<1>10. Hoare(fn, Known(s, Q, g, X, h, e), u \o <<Sphl>>, Known(v, Q2, g, X, h, e))
  BY <1>8, <1>9, HoareWeaker
<1>. QED
  BY <1>6, <1>10

-----------------------------------------------------------------------------
(* The tiers of emitSPAdjustment.                                           *)
LEMMA DeadPairFacts ==
  ASSUME NEW live, DeadPair(live) # NoPair
  PROVE  /\ DeadPair(live) \in Pairs \cup {"PSW"}
         /\ Hi[DeadPair(live)] \notin live /\ Lo[DeadPair(live)] \notin live
<1>. DEFINE dead == {k \in 1..4 : {Hi[PairOrder[k]], Lo[PairOrder[k]]} \cap live = {}}
            k0 == CHOOSE k \in dead : \A j \in dead : k <= j
<1>1. DeadPair(live) = PairOrder[k0] /\ dead # {}
  BY DEF DeadPair
<1>2. \E k \in dead : \A j \in dead : k <= j
  <2>1. dead \subseteq 1..4
    OBVIOUS
  <2>. HIDE DEF dead
  <2>2. CASE 1 \in dead
    BY <2>1, <2>2
  <2>3. CASE 1 \notin dead /\ 2 \in dead
    BY <2>1, <2>3
  <2>4. CASE 1 \notin dead /\ 2 \notin dead /\ 3 \in dead
    BY <2>1, <2>4
  <2>5. CASE 1 \notin dead /\ 2 \notin dead /\ 3 \notin dead
    <3>1. PICK k \in dead : TRUE
      BY <1>1 DEF dead
    <3>2. \A j \in dead : j = 4
      BY <2>1, <2>5
    <3>. QED
      BY <3>1, <3>2
  <2>. QED
    BY <2>2, <2>3, <2>4, <2>5
<1>3. k0 \in dead
  BY <1>2
<1>4. k0 \in 1..4 /\ {Hi[PairOrder[k0]], Lo[PairOrder[k0]]} \cap live = {}
  BY <1>3
<1>. HIDE DEF k0, dead
<1>5. PairOrder[k0] \in Pairs \cup {"PSW"}
  <2>1. k0 = 1 \/ k0 = 2 \/ k0 = 3 \/ k0 = 4
    BY <1>4
  <2>. QED
    BY <2>1 DEF PairOrder, Pairs
<1>. QED
  BY <1>1, <1>4, <1>5

LEMMA AdjustDown ==
  ASSUME NEW fn, NEW n \in Nat, NEW live, NEW s, NEW Q, NEW g, NEW X, NEW h, NEW e \in BOOLEAN, NEW Q2,
         s \in Addr, n + 2 <= s, X \subseteq Addr, \A a \in X : a < s - n - 2 \/ a >= s,
         Q \subseteq AllRegs, Q2 \subseteq Q, ClobbersHL(fn, n, live) => Q2 \cap {"H", "L", "F"} = {}
  PROVE  Hoare(fn, Known(s, Q, g, X, h, e), AdjustSP(fn, n, live, TRUE), Known(s - n, Q2, g, X, h, e))
<1>1. /\ s \in Nat /\ \A a \in Addr : a \in Nat
      /\ \A k \in 0..s : s - k \in Addr
  BY ByteFacts DEF Addr
<1>2. \A k \in 0..n : Safe(s - k, X, e)
  <2>1. ASSUME NEW k \in 0..n PROVE s - k \in Addr /\ s - k >= 2 /\ (s - k) - 1 \notin X /\ (s - k) - 2 \notin X
    <3>1. k \in 0..s /\ s - k >= 2 /\ (s - k) - 1 < s /\ ~((s - k) - 1 < s - n - 2)
          /\ (s - k) - 2 < s /\ ~((s - k) - 2 < s - n - 2)
      BY <1>1
    <3>2. (s - k) - 1 \in Int /\ (s - k) - 2 \in Int
      BY <1>1
    <3>. QED
      BY <1>1, <3>1, <3>2
  <2>. QED
    BY <2>1 DEF Safe
<1>3. From(Q, g, Q2, g, {}) /\ From(X, h, X, h, {})
  BY DEF From
<1>4. Known(s - n, Q, g, X, h, e) \subseteq Known(s - n, Q2, g, X, h, e)
  BY <1>3, KnownLess
<1>5. \A k \in 0..n : Known(s - k, Q, g, X, h, e) \subseteq Config /\ Stable(Known(s - k, Q, g, X, h, e))
  BY <1>2, KnownStable
<1>6. CASE n = 0
  <2>1. AdjustSP(fn, n, live, TRUE) = <<>>
    BY <1>6 DEF AdjustSP
  <2>2. s - n = s /\ 0 \in 0..n /\ s - 0 = s
    BY <1>1, <1>6
  <2>3. Known(s, Q, g, X, h, e) \subseteq Config /\ Stable(Known(s, Q, g, X, h, e))
    BY <1>5, <2>2
  <2>4. Hoare(fn, Known(s, Q, g, X, h, e), <<>>, Known(s - n, Q2, g, X, h, e))
    BY <1>4, <2>2, <2>3, HoareSkip
  <2>. QED
    BY <2>1, <2>4
<1>7. CASE n # 0 /\ PushPop(fn, n, live)
  <2>. DEFINE i == Push(DeadPair(live))
              G == [k \in 0..n \div 2 |-> Known(s - 2 * k, Q, g, X, h, e)]
  <2>1. AdjustSP(fn, n, live, TRUE) = Times(n \div 2, i)
    BY <1>7 DEF AdjustSP
  <2>2. n \in {2, 4, 6} /\ DeadPair(live) # NoPair
    BY <1>7 DEF PushPop
  <2>3. DeadPair(live) \in Pairs \cup {"PSW"}
    BY <2>2, DeadPairFacts
  <2>4. n \div 2 \in Nat /\ 2 * (n \div 2) = n
    BY <2>2
  <2>. DEFINE w == n \div 2
  <2>5. \A k \in 0..w : G[k] = Known(s - 2 * k, Q, g, X, h, e)
    OBVIOUS
  <2>. HIDE DEF G, i, w
  <2>6. \A k \in 0..w : 2 * k \in 0..n
    BY <2>4 DEF w
  <2>7. \A k \in 0..w : G[k] \subseteq Config /\ Stable(G[k])
    BY <1>5, <2>5, <2>6
  <2>8. ASSUME NEW k \in 0..w - 1 PROVE Hoare(fn, G[k], <<i>>, G[k + 1])
    <3>. DEFINE t == s - 2 * k
    <3>1. w \in Nat /\ 2 * w = n
      BY <2>4 DEF w
    <3>2. k \in 0..w /\ k + 1 \in 0..w /\ 2 * k \in 0..n /\ 2 * (k + 1) \in 0..n /\ t >= 2
          /\ s - 2 * (k + 1) = t - 2
      BY <1>1, <3>1
    <3>3. Safe(t, X, e) /\ Safe(t - 2, X, e)
      BY <1>2, <3>2
    <3>4. t - 1 \notin X /\ t - 2 \notin X
      <4>1. t - 1 < s /\ ~(t - 1 < s - n - 2) /\ t - 2 < s /\ ~(t - 2 < s - n - 2) /\ t - 1 \in Int /\ t - 2 \in Int
        BY <1>1, <3>1, <3>2
      <4>. QED
        BY <1>1, <4>1
    <3>5. G[k] = Known(t, Q, g, X, h, e) /\ G[k + 1] = Known(t - 2, Q, g, X, h, e)
      BY <2>5, <3>2
    <3>. HIDE DEF t
    <3>6. From(X, h, X, h, {t - 2, t - 1})
      BY FromSame
    <3>7. Hoare(fn, Known(t, Q, g, X, h, e), <<i>>, Known(t - 2, Q, g, X, h, e))
      BY <2>3, <3>2, <3>3, <3>4, <3>6, PushStep DEF i
    <3>. QED
      BY <3>5, <3>7
  <2>9. i.op # "RET" /\ w \in Nat
    BY <2>4 DEF i, Push, Instr, w
  <2>10. Hoare(fn, G[0], Times(w, i), G[w])
    BY <2>7, <2>8, <2>9, HoareTimes
  <2>11. G[0] = Known(s, Q, g, X, h, e) /\ G[w] = Known(s - n, Q, g, X, h, e)
    <3>1. 0 \in 0..w /\ w \in 0..w /\ s - 2 * 0 = s /\ s - 2 * w = s - n
      BY <1>1, <2>4, <2>9 DEF w
    <3>. QED
      BY <2>5, <3>1
  <2>12. Hoare(fn, Known(s, Q, g, X, h, e), Times(w, i), Known(s - n, Q2, g, X, h, e))
    BY <1>4, <2>10, <2>11, HoareWeaker
  <2>. QED
    BY <2>1, <2>12 DEF w
<1>8. CASE n # 0 /\ ~PushPop(fn, n, live) /\ n \in {2, 4}
  <2>. DEFINE i == Dcx("SP")
              G == [k \in 0..n |-> Known(s - k, Q, g, X, h, e)]
  <2>1. AdjustSP(fn, n, live, TRUE) = Times(n, i)
    BY <1>8 DEF AdjustSP
  <2>2. \A k \in 0..n : G[k] = Known(s - k, Q, g, X, h, e)
    OBVIOUS
  <2>. HIDE DEF G, i
  <2>3. \A k \in 0..n : G[k] \subseteq Config /\ Stable(G[k])
    BY <1>5, <2>2
  <2>4. ASSUME NEW k \in 0..n - 1 PROVE Hoare(fn, G[k], <<i>>, G[k + 1])
    <3>. DEFINE t == s - k
    <3>1. k \in 0..n /\ k + 1 \in 0..n /\ s - (k + 1) = t - 1
      BY <1>1
    <3>2. Safe(t, X, e) /\ Safe(t - 1, X, e)
      BY <1>2, <3>1
    <3>3. G[k] = Known(t, Q, g, X, h, e) /\ G[k + 1] = Known(t - 1, Q, g, X, h, e)
      BY <2>2, <3>1
    <3>. HIDE DEF t
    <3>4. Hoare(fn, Known(t, Q, g, X, h, e), <<i>>, Known(t - 1, Q, g, X, h, e))
      BY <3>2, DcxSpStep DEF i
    <3>. QED
      BY <3>3, <3>4
  <2>5. i.op # "RET"
    BY DEF i, Dcx, Instr
  <2>6. Hoare(fn, G[0], Times(n, i), G[n])
    BY <2>3, <2>4, <2>5, HoareTimes
  <2>7. G[0] = Known(s, Q, g, X, h, e) /\ G[n] = Known(s - n, Q, g, X, h, e)
    <3>1. 0 \in 0..n /\ n \in 0..n /\ s - 0 = s
      BY <1>1
    <3>. QED
      BY <2>2, <3>1
  <2>8. Hoare(fn, Known(s, Q, g, X, h, e), Times(n, i), Known(s - n, Q2, g, X, h, e))
    BY <1>4, <2>6, <2>7, HoareWeaker
  <2>. QED
    BY <2>1, <2>8
<1>9. CASE n # 0 /\ ~PushPop(fn, n, live) /\ n \notin {2, 4}
  <2>. DEFINE k == ByteSize * ByteSize - n
  <2>1. AdjustSP(fn, n, live, TRUE) = <<Lxi("HL", Wrap(k)), DadSp, Sphl>>
    BY <1>9 DEF AdjustSP
  <2>2. k \in Addr
    <3>. DEFINE b == ByteSize * ByteSize
    <3>1. b \in Nat /\ Addr = 0..(b - 1) /\ s \in 0..(b - 1)
      BY ByteFacts DEF Addr
    <3>. HIDE DEF b
    <3>2. b - n \in 0..(b - 1)
      BY <1>1, <1>9, <3>1
    <3>. QED
      BY <3>1, <3>2 DEF b
  <2>3. n \in 0..s
    BY <1>1
  <2>4. Wrap(k) = k /\ Wrap(k + s) = s - n /\ s - n \in Addr
    BY <2>2, <2>3, WrapFacts
  <2>5. Safe(s, X, e) /\ Safe(s - n, X, e)
    <3>1. 0 \in 0..n /\ n \in 0..n /\ s - 0 = s
      BY <1>1
    <3>. QED
      BY <1>2, <3>1
  <2>6. Q2 \subseteq Q \ {"H", "L", "F"}
    <3>1. ClobbersHL(fn, n, live)
      BY <1>9 DEF ClobbersHL
    <3>. QED
      BY <3>1
  <2>. DEFINE t == s - n
  <2>. HIDE DEF k, t
  <2>7. k \in Addr /\ t \in Addr /\ Safe(t, X, e) /\ Wrap(k + s) = t
    BY <2>2, <2>4, <2>5 DEF t
  <2>8. Hoare(fn, Known(s, Q, g, X, h, e), <<Lxi("HL", k), DadSp, Sphl>>, Known(t, Q2, g, X, h, e))
    BY <2>5, <2>6, <2>7, MoveSP
  <2>. QED
    BY <2>1, <2>4, <2>8 DEF t
<1>. QED
  BY <1>6, <1>7, <1>8, <1>9

LEMMA AdjustUp ==
  ASSUME NEW fn, NEW n \in Nat, NEW live, NEW s, NEW Q, NEW g, NEW X, NEW h, NEW e \in BOOLEAN, NEW Q2,
         s \in Addr, s >= 2, s + n \in Addr, X \subseteq Addr, \A a \in X : a < s - 2 \/ a >= s + n,
         Q \subseteq AllRegs, Q2 \subseteq Q, PushPop(fn, n, live) => Q2 \subseteq live, "F" \notin Q2,
         ClobbersHL(fn, n, live) => Q2 \cap {"H", "L"} = {}
  PROVE  Hoare(fn, Known(s, Q, g, X, h, e), AdjustSP(fn, n, live, FALSE), Known(s + n, Q2, g, X, h, e))
<1>1. /\ s \in Nat /\ \A a \in Addr : a \in Nat
      /\ \A k \in 0..n : s + k \in Addr
  <2>. DEFINE b == ByteSize * ByteSize
  <2>1. b \in Nat /\ Addr = 0..(b - 1)
    BY ByteFacts DEF Addr
  <2>. HIDE DEF b
  <2>. QED
    BY <2>1
<1>2. \A k \in 0..n : Safe(s + k, X, e)
  <2>1. ASSUME NEW k \in 0..n PROVE s + k \in Addr /\ s + k >= 2 /\ (s + k) - 1 \notin X /\ (s + k) - 2 \notin X
    <3>1. /\ s + k >= 2 /\ (s + k) - 1 < s + n /\ ~((s + k) - 1 < s - 2)
          /\ (s + k) - 2 < s + n /\ ~((s + k) - 2 < s - 2)
      BY <1>1
    <3>2. (s + k) - 1 \in Int /\ (s + k) - 2 \in Int
      BY <1>1
    <3>. QED
      BY <1>1, <3>1, <3>2
  <2>. QED
    BY <2>1 DEF Safe
<1>3. From(Q, g, Q2, g, {}) /\ From(X, h, X, h, {})
  BY DEF From
<1>4. Known(s + n, Q, g, X, h, e) \subseteq Known(s + n, Q2, g, X, h, e)
  BY <1>3, KnownLess
<1>5. \A k \in 0..n : \A R : Known(s + k, R, g, X, h, e) \subseteq Config /\ Stable(Known(s + k, R, g, X, h, e))
  BY <1>2, KnownStable
<1>6. CASE n = 0
  <2>1. AdjustSP(fn, n, live, FALSE) = <<>>
    BY <1>6 DEF AdjustSP
  <2>2. s + n = s /\ 0 \in 0..n /\ s + 0 = s
    BY <1>1, <1>6
  <2>3. Known(s, Q, g, X, h, e) \subseteq Config /\ Stable(Known(s, Q, g, X, h, e))
    BY <1>5, <2>2
  <2>4. Hoare(fn, Known(s, Q, g, X, h, e), <<>>, Known(s + n, Q2, g, X, h, e))
    BY <1>4, <2>2, <2>3, HoareSkip
  <2>. QED
    BY <2>1, <2>4
<1>7. CASE n # 0 /\ PushPop(fn, n, live)
  <2>. DEFINE p == DeadPair(live)
              i == Pop(p)
              w == n \div 2
              G == [k \in 0..w |-> Known(s + 2 * k, Q2, g, X, h, e)]
  <2>1. AdjustSP(fn, n, live, FALSE) = Times(w, i)
    BY <1>7 DEF AdjustSP
  <2>2. n \in {2, 4, 6} /\ p # NoPair
    BY <1>7 DEF PushPop
  <2>3. p \in Pairs \cup {"PSW"} /\ Hi[p] \notin live /\ Lo[p] \notin live
    BY <2>2, DeadPairFacts
  <2>4. w \in Nat /\ 2 * w = n
    BY <2>2
  <2>5. \A k \in 0..w : G[k] = Known(s + 2 * k, Q2, g, X, h, e)
    OBVIOUS
  <2>. HIDE DEF G, i, w, p
  <2>6. \A k \in 0..w : 2 * k \in 0..n
    BY <2>4
  <2>7. \A k \in 0..w : G[k] \subseteq Config /\ Stable(G[k])
    BY <1>5, <2>5, <2>6
  <2>8. ASSUME NEW k \in 0..w - 1 PROVE Hoare(fn, G[k], <<i>>, G[k + 1])
    <3>. DEFINE t == s + 2 * k
    <3>2. k \in 0..w /\ k + 1 \in 0..w /\ 2 * k \in 0..n /\ 2 * (k + 1) \in 0..n
          /\ s + 2 * (k + 1) = t + 2
      BY <1>1, <2>4
    <3>3. Safe(t, X, e) /\ Safe(t + 2, X, e) /\ t + 2 \in Addr
      <4>1. s + 2 * (k + 1) \in Addr /\ Safe(s + 2 * (k + 1), X, e) /\ Safe(s + 2 * k, X, e)
        BY <1>1, <1>2, <3>2
      <4>. QED
        BY <3>2, <4>1
    <3>5. G[k] = Known(t, Q2, g, X, h, e) /\ G[k + 1] = Known(t + 2, Q2, g, X, h, e)
      BY <2>5, <3>2
    <3>. HIDE DEF t
    <3>6. From(Q2, g, Q2, g, {Hi[p], Lo[p]})
      BY FromSame
    <3>7. Hi[p] \notin Q2 /\ Lo[p] \notin Q2 /\ Q2 \subseteq AllRegs
      BY <1>7, <2>3
    <3>8. Hoare(fn, Known(t, Q2, g, X, h, e), <<i>>, Known(t + 2, Q2, g, X, h, e))
      BY <2>3, <3>3, <3>6, <3>7, PopStep DEF i
    <3>. QED
      BY <3>5, <3>8
  <2>9. i.op # "RET"
    BY DEF i, Pop, Instr
  <2>10. Hoare(fn, G[0], Times(w, i), G[w])
    BY <2>4, <2>7, <2>8, <2>9, HoareTimes
  <2>11. G[0] = Known(s, Q2, g, X, h, e) /\ G[w] = Known(s + n, Q2, g, X, h, e)
    <3>1. 0 \in 0..w /\ w \in 0..w /\ s + 2 * 0 = s /\ s + 2 * w = s + n
      BY <1>1, <2>4
    <3>. QED
      BY <2>5, <3>1
  <2>12. Known(s, Q, g, X, h, e) \subseteq Known(s, Q2, g, X, h, e)
    BY <1>3, KnownLess
  <2>13. Hoare(fn, Known(s, Q, g, X, h, e), Times(w, i), Known(s + n, Q2, g, X, h, e))
    BY <2>10, <2>11, <2>12, HoareWeaker
  <2>. QED
    BY <2>1, <2>13
<1>8. CASE n # 0 /\ ~PushPop(fn, n, live) /\ n \in {2, 4}
  <2>. DEFINE i == Inx("SP")
              G == [k \in 0..n |-> Known(s + k, Q, g, X, h, e)]
  <2>1. AdjustSP(fn, n, live, FALSE) = Times(n, i)
    BY <1>8 DEF AdjustSP
  <2>2. \A k \in 0..n : G[k] = Known(s + k, Q, g, X, h, e)
    OBVIOUS
  <2>. HIDE DEF G, i
  <2>3. \A k \in 0..n : G[k] \subseteq Config /\ Stable(G[k])
    BY <1>5, <2>2
  <2>4. ASSUME NEW k \in 0..n - 1 PROVE Hoare(fn, G[k], <<i>>, G[k + 1])
    <3>. DEFINE t == s + k
    <3>1. k \in 0..n /\ k + 1 \in 0..n /\ s + (k + 1) = t + 1
      BY <1>1
    <3>2. Safe(t, X, e) /\ Safe(t + 1, X, e)
      <4>1. Safe(s + k, X, e) /\ Safe(s + (k + 1), X, e)
        BY <1>2, <3>1
      <4>. QED
        BY <3>1, <4>1
    <3>3. G[k] = Known(t, Q, g, X, h, e) /\ G[k + 1] = Known(t + 1, Q, g, X, h, e)
      BY <2>2, <3>1
    <3>. HIDE DEF t
    <3>4. Hoare(fn, Known(t, Q, g, X, h, e), <<i>>, Known(t + 1, Q, g, X, h, e))
      BY <3>2, InxSpStep DEF i
    <3>. QED
      BY <3>3, <3>4
  <2>5. i.op # "RET"
    BY DEF i, Inx, Instr
  <2>6. Hoare(fn, G[0], Times(n, i), G[n])
    BY <2>3, <2>4, <2>5, HoareTimes
  <2>7. G[0] = Known(s, Q, g, X, h, e) /\ G[n] = Known(s + n, Q, g, X, h, e)
    <3>1. 0 \in 0..n /\ n \in 0..n /\ s + 0 = s
      BY <1>1
    <3>. QED
      BY <2>2, <3>1
  <2>8. Hoare(fn, Known(s, Q, g, X, h, e), Times(n, i), Known(s + n, Q2, g, X, h, e))
    BY <1>4, <2>6, <2>7, HoareWeaker
  <2>. QED
    BY <2>1, <2>8
<1>9. CASE n # 0 /\ ~PushPop(fn, n, live) /\ n \notin {2, 4}
  <2>1. AdjustSP(fn, n, live, FALSE) = <<Lxi("HL", n), DadSp, Sphl>>
    BY <1>9 DEF AdjustSP
  <2>. DEFINE t == s + n
  <2>2. n \in Addr /\ t = n + s
    <3>. DEFINE b == ByteSize * ByteSize
    <3>1. b \in Nat /\ Addr = 0..(b - 1)
      BY ByteFacts DEF Addr
    <3>. HIDE DEF b
    <3>. QED
      BY <1>1, <3>1
  <2>3. Safe(s, X, e) /\ Safe(t, X, e) /\ t \in Addr
    <3>1. 0 \in 0..n /\ n \in 0..n /\ s + 0 = s
      BY <1>1
    <3>. QED
      BY <1>2, <3>1
  <2>4. Q2 \subseteq Q \ {"H", "L", "F"}
    <3>1. ClobbersHL(fn, n, live)
      BY <1>9 DEF ClobbersHL
    <3>. QED
      BY <3>1
  <2>5. Wrap(n + s) = t
    <3>1. Wrap(t) = t
      BY <2>3, WrapFacts
    <3>. QED
      BY <2>2, <3>1
  <2>. HIDE DEF t
  <2>6. Hoare(fn, Known(s, Q, g, X, h, e), <<Lxi("HL", n), DadSp, Sphl>>, Known(t, Q2, g, X, h, e))
    BY <2>2, <2>3, <2>4, <2>5, MoveSP
  <2>. QED
    BY <2>1, <2>6 DEF t
<1>. QED
  BY <1>6, <1>7, <1>8, <1>9
-----------------------------------------------------------------------------
(* The stack of a function, from its entry to the lowest SP, and the memory *)
(* its body leaves: the locals, the BC of the caller below the incoming SP, *)
(* the bytes copied; all else as it was.                                    *)
Base(fn) == Entry - (IF fn.fp THEN 2 ELSE 0)
Bottom(fn) == Base(fn) - StackSize(fn)
Locals(fn) == (Base(fn) - fn.locals)..(Base(fn) - 1)
Saved(fn) == IF fn.fp THEN {Entry - 2, Entry - 1} ELSE {}
Copied(fn) == Dst..(Dst + fn.copy - 1)
Upper == Entry..(ByteSize * ByteSize - 1)
Outside(fn) == Upper \cup ((0..(Dst + fn.copy)) \ Copied(fn))

Memory(fn) ==
  [a \in Addr |-> IF a \in Locals(fn) THEN LocalMark(a - (Base(fn) - fn.locals))
                  ELSE IF fn.fp /\ a = Entry - 2 THEN RegNumber["C"]
                  ELSE IF fn.fp /\ a = Entry - 1 THEN RegNumber["B"]
                  ELSE IF a \in Copied(fn) THEN MemAtStart[Src + (a - Dst)]
                  ELSE MemAtStart[a]]

FrameRegs(fn) ==
  [r \in AllRegs |-> IF fn.fp /\ r = "B" THEN (Entry - 2) \div ByteSize
                     ELSE IF fn.fp /\ r = "C" THEN (Entry - 2) % ByteSize ELSE RegNumber[r]]

Start(fn) == Known(Entry, Regs, RegNumber, Outside(fn), Memory(fn), ~fn.isr)
BodyStart(fn) ==
  Known(Bottom(fn), LiveIn(fn) \cup FPRegs(fn), FrameRegs(fn), Outside(fn) \cup Saved(fn), Memory(fn), ~fn.isr)

LEMMA AddrFacts ==
  /\ Addr = 0..(ByteSize * ByteSize - 1) /\ ByteSize * ByteSize \in Nat
  /\ Entry \in Nat /\ Entry \in Addr /\ Src \in Nat /\ Dst \in Nat
  /\ \A a \in 0..Entry : a \in Addr
  /\ Upper \subseteq Addr /\ \A a \in Upper : a >= Entry
<1>. DEFINE b == ByteSize * ByteSize
<1>1. b \in Nat /\ Addr = 0..(b - 1) /\ Upper = Entry..(b - 1)
  BY ByteFacts DEF Addr, Upper
<1>2. Entry \in Addr /\ Src \in Nat /\ Dst \in Nat
  BY MachineAssumption
<1>. HIDE DEF b
<1>3. /\ Entry \in Nat /\ \A a \in 0..Entry : a \in Addr
  BY <1>1, <1>2
<1>4. Upper \subseteq Addr /\ \A a \in Upper : a >= Entry
  BY <1>1, <1>2, <1>3
<1>. QED
  BY <1>1, <1>2, <1>3, <1>4 DEF b

(* Where everything is, and how far apart.                                  *)
LEMMA Layout ==
  ASSUME NEW fn \in Functions
  PROVE  /\ FunctionType(fn)
         /\ fn.fp => ArgSave(fn) = 0 /\ fn.out = 0 /\ ~SavesArgs(fn) /\ fn.ret # "i32" /\ fn.call # "plain"
         /\ Base(fn) \in Nat /\ Bottom(fn) \in Nat /\ Bottom(fn) \in Addr /\ Base(fn) \in Addr
         /\ Bottom(fn) + StackSize(fn) = Base(fn) /\ Bottom(fn) <= Base(fn) - fn.locals
         /\ Bottom(fn) + fn.out <= Base(fn) - fn.locals
         /\ Base(fn) = (IF fn.fp THEN Entry - 2 ELSE Entry)
         /\ Dst + fn.copy + 2 < Bottom(fn) /\ fn.copy \in Nat
         /\ Dst + fn.copy + StackSize(fn) + 4 < Entry
         /\ Src + fn.copy <= Dst
<1>1. FunctionType(fn) /\ Room(fn) /\ (fn.fp => ~FPTrouble(fn))
  BY FunctionsAssumption
<1>. DEFINE z == StackSize(fn)
            n == FrameSize(fn)
            l == fn.locals
            o == fn.out
            c == fn.copy
<1>2. /\ n \in Nat /\ ArgSave(fn) \in {0, 4} /\ z = n + ArgSave(fn)
      /\ l \in Nat /\ o \in Nat /\ c \in Nat /\ z \in Nat /\ n = l + (IF fn.fp THEN 0 ELSE o)
  BY <1>1, FrameFacts
<1>3. fn.fp => ArgSave(fn) = 0 /\ o = 0 /\ ~SavesArgs(fn) /\ fn.ret # "i32" /\ fn.call # "plain"
  <2>1. CASE fn.fp
    <3>1. ~(o > 0) /\ ~SavesArgs(fn) /\ fn.ret # "i32" /\ fn.call # "plain"
      BY <1>1, <2>1 DEF FPTrouble
    <3>2. o = 0
      BY <1>2, <3>1
    <3>. QED
      BY <3>1, <3>2 DEF ArgSave
  <2>. QED
    BY <2>1
<1>4. Src + c <= Dst /\ Dst + c + z + 4 < Entry
  BY <1>1 DEF Room
<1>5. Base(fn) = (IF fn.fp THEN Entry - 2 ELSE Entry) /\ Bottom(fn) = Base(fn) - z
  BY AddrFacts DEF Base, Bottom
<1>. HIDE DEF z, n, l, o, c
<1>6. /\ Base(fn) \in Nat /\ Bottom(fn) \in Nat /\ Bottom(fn) <= Entry /\ Base(fn) <= Entry
      /\ Bottom(fn) + z = Base(fn) /\ Bottom(fn) <= Base(fn) - l /\ Bottom(fn) + o <= Base(fn) - l
      /\ Dst + c + 2 < Bottom(fn)
  <2>1. Entry \in Nat /\ Dst \in Nat
    BY AddrFacts
  <2>2. CASE fn.fp
    <3>1. Base(fn) = Entry - 2 /\ Bottom(fn) = (Entry - 2) - z /\ o = 0 /\ z = l
      BY <1>2, <1>3, <1>5, <2>2
    <3>. QED
      BY <1>2, <1>4, <2>1, <3>1
  <2>3. CASE ~fn.fp
    <3>1. Base(fn) = Entry /\ Bottom(fn) = Entry - z /\ n = l + o
      BY <1>2, <1>5, <2>3
    <3>. QED
      BY <1>2, <1>4, <2>1, <3>1
  <2>. QED
    BY <2>2, <2>3
<1>7. Base(fn) \in Addr /\ Bottom(fn) \in Addr
  BY <1>6, AddrFacts
<1>. QED
  BY <1>1, <1>2, <1>3, <1>4, <1>5, <1>6, <1>7 DEF z, n, l, o, c

LEMMA OutsideFacts ==
  ASSUME NEW fn \in Functions
  PROVE  /\ Outside(fn) \subseteq Addr /\ Saved(fn) \subseteq Addr /\ Locals(fn) \subseteq Addr /\ Copied(fn) \subseteq Addr
         /\ \A a \in Outside(fn) : a >= Entry \/ a + 2 < Bottom(fn)
         /\ \A a \in Copied(fn) : a + 2 < Bottom(fn) /\ a \notin Outside(fn)
         /\ \A a \in Saved(fn) : fn.fp /\ a >= Base(fn) /\ a < Entry
         /\ \A a \in Locals(fn) : a >= Bottom(fn) + fn.out /\ a < Base(fn)
<1>. DEFINE c == fn.copy
            l == fn.locals
            o == fn.out
            b == Bottom(fn)
            t == Base(fn)
<1>1. /\ c \in Nat /\ l \in Nat /\ o \in Nat /\ b \in Nat /\ t \in Nat /\ Dst + c + 2 < b
      /\ b <= t - l /\ b + o <= t - l /\ t = (IF fn.fp THEN Entry - 2 ELSE Entry)
  BY Layout, FrameFacts
<1>2. /\ Outside(fn) = Upper \cup ((0..(Dst + c)) \ Copied(fn)) /\ Copied(fn) = Dst..(Dst + c - 1)
      /\ Saved(fn) = (IF fn.fp THEN {Entry - 2, Entry - 1} ELSE {}) /\ Locals(fn) = (t - l)..(t - 1)
  BY DEF Outside, Copied, Saved, Locals
<1>3. Entry \in Nat /\ Dst \in Nat /\ (\A a \in 0..Entry : a \in Addr) /\ Upper \subseteq Addr /\ \A a \in Upper : a >= Entry
  BY AddrFacts
<1>. HIDE DEF c, l, o, b, t
<1>4. b <= t /\ t <= Entry /\ b <= Entry
  BY <1>1, <1>3
<1>5. \A a \in 0..(Dst + c) : a \in Addr /\ a + 2 < b
  BY <1>1, <1>3, <1>4
<1>6. Outside(fn) \subseteq Addr /\ \A a \in Outside(fn) : a >= Entry \/ a + 2 < b
  BY <1>2, <1>3, <1>5
<1>7. \A a \in Copied(fn) : a \in Addr /\ a + 2 < b /\ a \notin Upper
  <2>1. ASSUME NEW a \in Copied(fn) PROVE a \in 0..(Dst + c) /\ ~(a >= Entry)
    BY <1>1, <1>2, <1>3, <1>4, <1>5
  <2>. QED
    BY <1>3, <1>5, <2>1
<1>8. \A a \in Saved(fn) : fn.fp /\ a >= t /\ a < Entry /\ a \in Addr
  <2>1. CASE fn.fp
    <3>1. t = Entry - 2 /\ Entry - 2 \in 0..Entry /\ Entry - 1 \in 0..Entry
      BY <1>1, <1>3, <2>1
    <3>2. Entry - 2 \in Addr /\ Entry - 1 \in Addr
      BY <1>3, <3>1
    <3>. QED
      BY <1>2, <1>3, <2>1, <3>1, <3>2
  <2>. QED
    BY <1>2, <2>1
<1>9. \A a \in Locals(fn) : a >= b + o /\ a < t /\ a \in Addr
  <2>1. ASSUME NEW a \in Locals(fn) PROVE a >= b + o /\ a < t /\ a \in 0..Entry
    BY <1>1, <1>2, <1>3, <1>4
  <2>. QED
    BY <1>3, <2>1
<1>. QED
  BY <1>2, <1>6, <1>7, <1>8, <1>9 DEF b, o, t

(* What that memory holds.                                                  *)
LEMMA MemoryFacts ==
  ASSUME NEW fn \in Functions
  PROVE  /\ \A a \in Outside(fn) : Memory(fn)[a] = MemAtStart[a]
         /\ \A k \in 0..fn.locals - 1 : Memory(fn)[Base(fn) - fn.locals + k] = LocalMark(k)
         /\ \A k \in 0..fn.copy - 1 : Memory(fn)[Dst + k] = MemAtStart[Src + k]
         /\ fn.fp => Memory(fn)[Entry - 2] = RegNumber["C"] /\ Memory(fn)[Entry - 1] = RegNumber["B"]
<1>. DEFINE c == fn.copy
            l == fn.locals
            b == Bottom(fn)
            t == Base(fn)
<1>1. /\ c \in Nat /\ l \in Nat /\ b \in Nat /\ t \in Nat
      /\ b <= t - l /\ t = (IF fn.fp THEN Entry - 2 ELSE Entry) /\ Entry \in Nat /\ Dst \in Nat /\ Src \in Nat
  BY Layout, FrameFacts, AddrFacts
<1>2. /\ Outside(fn) \subseteq Addr /\ Saved(fn) \subseteq Addr /\ Locals(fn) \subseteq Addr /\ Copied(fn) \subseteq Addr
      /\ \A a \in Outside(fn) : a >= Entry \/ a + 2 < b
      /\ \A a \in Copied(fn) : a + 2 < b /\ a \notin Outside(fn)
      /\ \A a \in Locals(fn) : a >= b /\ a < t
  <2>1. /\ Outside(fn) \subseteq Addr /\ Saved(fn) \subseteq Addr /\ Locals(fn) \subseteq Addr /\ Copied(fn) \subseteq Addr
        /\ \A a \in Outside(fn) : a >= Entry \/ a + 2 < b
        /\ \A a \in Copied(fn) : a + 2 < b /\ a \notin Outside(fn)
        /\ \A a \in Locals(fn) : a >= b + fn.out /\ a < t
    BY OutsideFacts
  <2>2. fn.out \in Nat /\ \A a \in Locals(fn) : a \in Nat
    BY <2>1, Layout, FrameFacts, ByteFacts
  <2>3. \A a \in Locals(fn) : a >= b
    BY <1>1, <2>1, <2>2
  <2>. QED
    BY <2>1, <2>3
<1>3. b \in Nat /\ t \in Nat /\ Entry \in Nat /\ \A a \in Addr : a \in Nat
  BY <1>1, ByteFacts
<1>4. Copied(fn) = Dst..(Dst + c - 1) /\ Locals(fn) = (t - l)..(t - 1)
  BY DEF Copied, Locals
<1>5. \A a \in Addr :
        Memory(fn)[a] = IF a \in Locals(fn) THEN LocalMark(a - (t - l))
                        ELSE IF fn.fp /\ a = Entry - 2 THEN RegNumber["C"]
                        ELSE IF fn.fp /\ a = Entry - 1 THEN RegNumber["B"]
                        ELSE IF a \in Copied(fn) THEN MemAtStart[Src + (a - Dst)]
                        ELSE MemAtStart[a]
  BY DEF Memory
<1>. HIDE DEF c, l, b, t
<1>6. ASSUME NEW a \in Outside(fn) PROVE Memory(fn)[a] = MemAtStart[a]
  <2>1. a \in Addr /\ a \in Nat /\ (a >= Entry \/ a + 2 < b)
    BY <1>2, <1>3
  <2>2. a \notin Copied(fn) /\ a \notin Locals(fn)
    BY <1>1, <1>2, <2>1
  <2>3. ~(fn.fp /\ a = Entry - 2) /\ ~(fn.fp /\ a = Entry - 1)
    BY <1>1, <2>1
  <2>. QED
    BY <1>5, <2>1, <2>2, <2>3
<1>7. ASSUME NEW k \in 0..l - 1 PROVE Memory(fn)[t - l + k] = LocalMark(k)
  <2>. DEFINE a == t - l + k
  <2>1. a \in Locals(fn) /\ a - (t - l) = k
    BY <1>1, <1>4
  <2>. HIDE DEF a
  <2>2. Memory(fn)[a] = LocalMark(k)
    BY <1>2, <1>5, <2>1
  <2>. QED
    BY <2>2 DEF a
<1>8. ASSUME NEW k \in 0..c - 1 PROVE Memory(fn)[Dst + k] = MemAtStart[Src + k]
  <2>. DEFINE a == Dst + k
  <2>1. a \in Copied(fn) /\ a - Dst = k
    BY <1>1, <1>4
  <2>. HIDE DEF a
  <2>2. a \in Addr /\ a \in Nat /\ a + 2 < b
    BY <1>2, <1>3, <2>1
  <2>3. a \notin Locals(fn) /\ ~(fn.fp /\ a = Entry - 2) /\ ~(fn.fp /\ a = Entry - 1)
    BY <1>1, <1>2, <2>2
  <2>4. Memory(fn)[a] = MemAtStart[Src + k]
    BY <1>5, <2>1, <2>2, <2>3
  <2>. QED
    BY <2>4 DEF a
<1>9. CASE fn.fp
  <2>1. t = Entry - 2 /\ Entry - 2 \in Addr /\ Entry - 1 \in Addr
    <3>1. {Entry - 2, Entry - 1} \subseteq Addr
      BY <1>2, <1>9 DEF Saved
    <3>. QED
      BY <1>1, <1>9, <3>1
  <2>2. Entry - 2 \notin Locals(fn) /\ Entry - 1 \notin Locals(fn)
    BY <1>1, <1>4, <2>1
  <2>3. Memory(fn)[Entry - 2] = RegNumber["C"]
    BY <1>5, <1>9, <2>1, <2>2
  <2>4. Memory(fn)[Entry - 1] = RegNumber["B"]
    <3>1. Entry - 1 # Entry - 2
      BY <1>1
    <3>. QED
      BY <1>5, <1>9, <2>1, <2>2, <3>1
  <2>. QED
    BY <1>6, <1>7, <1>8, <2>3, <2>4 DEF c, l, t
<1>10. CASE ~fn.fp
  BY <1>6, <1>7, <1>8, <1>10 DEF c, l, t
<1>. QED
  BY <1>9, <1>10
-----------------------------------------------------------------------------
(* Instructions in a row, put together.                                     *)
LEMMA TwoAndThree ==
  ASSUME NEW a1, NEW a2, NEW b1, NEW b2, NEW b3
  PROVE  <<a1, a2>> \o <<b1, b2, b3>> = <<a1, a2, b1, b2, b3>>
<1>. DEFINE x == <<a1, a2>>
            y == <<b1, b2, b3>>
            u == <<a1, a2, b1, b2, b3>>
            S == {a1, a2, b1, b2, b3}
<1>1. x \in Seq(S) /\ y \in Seq(S) /\ u \in Seq(S) /\ Len(x) = 2 /\ Len(y) = 3 /\ Len(u) = 5
  OBVIOUS
<1>2. /\ x[1] = a1 /\ x[2] = a2 /\ y[1] = b1 /\ y[2] = b2 /\ y[3] = b3 /\ u[1] = a1 /\ u[2] = a2
      /\ u[3] = b1 /\ u[4] = b2 /\ u[5] = b3
  OBVIOUS
<1>. HIDE DEF x, y, u, S
<1>. DEFINE v == x \o y
<1>3. v \in Seq(S) /\ Len(v) = 5 /\ \A k \in 1..5 : v[k] = IF k <= 2 THEN x[k] ELSE y[k - 2]
  <2>1. /\ v \in Seq(S) /\ Len(v) = Len(x) + Len(y)
        /\ \A k \in 1..Len(x) + Len(y) : v[k] = IF k <= Len(x) THEN x[k] ELSE y[k - Len(x)]
    BY <1>1, ConcatProperties
  <2>. HIDE DEF v
  <2>. QED
    BY <1>1, <2>1
<1>. HIDE DEF v
<1>4. \A k \in 1..5 : v[k] = u[k]
  <2>1. ASSUME NEW k \in 1..2 PROVE v[k] = u[k]
    <3>1. v[k] = x[k] /\ (k = 1 \/ k = 2)
      BY <1>3
    <3>. QED
      BY <1>2, <3>1
  <2>2. ASSUME NEW k \in 3..5 PROVE v[k] = u[k]
    <3>1. v[k] = y[k - 2] /\ (k = 3 \/ k = 4 \/ k = 5)
      BY <1>3
    <3>. QED
      BY <1>2, <3>1
  <2>. QED
    BY <2>1, <2>2
<1>5. v = u
  BY <1>1, <1>3, <1>4, SeqEqual
<1>. QED
  BY <1>5 DEF v, u, x, y

LEMMA SixAndOne ==
  ASSUME NEW a1, NEW a2, NEW a3, NEW a4, NEW a5, NEW a6, NEW b1
  PROVE  <<a1, a2, a3, a4, a5, a6>> \o <<b1>> = <<a1, a2, a3, a4, a5, a6, b1>>
<1>. DEFINE x == <<a1, a2, a3, a4, a5, a6>>
            y == <<b1>>
            u == <<a1, a2, a3, a4, a5, a6, b1>>
            S == {a1, a2, a3, a4, a5, a6, b1}
<1>1. x \in Seq(S) /\ y \in Seq(S) /\ u \in Seq(S) /\ Len(x) = 6 /\ Len(y) = 1 /\ Len(u) = 7
  OBVIOUS
<1>2. /\ x[1] = a1 /\ x[2] = a2 /\ x[3] = a3 /\ x[4] = a4 /\ x[5] = a5 /\ x[6] = a6 /\ y[1] = b1
      /\ u[1] = a1 /\ u[2] = a2 /\ u[3] = a3 /\ u[4] = a4 /\ u[5] = a5 /\ u[6] = a6 /\ u[7] = b1
  OBVIOUS
<1>. HIDE DEF x, y, u, S
<1>. DEFINE v == x \o y
<1>3. v \in Seq(S) /\ Len(v) = 7 /\ \A k \in 1..7 : v[k] = IF k <= 6 THEN x[k] ELSE y[k - 6]
  <2>1. /\ v \in Seq(S) /\ Len(v) = Len(x) + Len(y)
        /\ \A k \in 1..Len(x) + Len(y) : v[k] = IF k <= Len(x) THEN x[k] ELSE y[k - Len(x)]
    BY <1>1, ConcatProperties
  <2>. HIDE DEF v
  <2>. QED
    BY <1>1, <2>1
<1>. HIDE DEF v
<1>4. \A k \in 1..7 : v[k] = u[k]
  <2>1. ASSUME NEW k \in 1..6 PROVE v[k] = u[k]
    <3>1. v[k] = x[k] /\ (k = 1 \/ k = 2 \/ k = 3 \/ k = 4 \/ k = 5 \/ k = 6)
      BY <1>3
    <3>. QED
      BY <1>2, <3>1
  <2>2. ASSUME NEW k \in 7..7 PROVE v[k] = u[k]
    <3>1. v[k] = y[k - 6] /\ (k = 7)
      BY <1>3
    <3>. QED
      BY <1>2, <3>1
  <2>. QED
    BY <2>1, <2>2
<1>5. v = u
  BY <1>1, <1>3, <1>4, SeqEqual
<1>. QED
  BY <1>5 DEF v, u, x, y

LEMMA FiveAndSeven ==
  ASSUME NEW a1, NEW a2, NEW a3, NEW a4, NEW a5, NEW b1, NEW b2, NEW b3, NEW b4, NEW b5, NEW b6, NEW b7
  PROVE  <<a1, a2, a3, a4, a5>> \o <<b1, b2, b3, b4, b5, b6, b7>> = <<a1, a2, a3, a4, a5, b1, b2, b3, b4, b5, b6, b7>>
<1>. DEFINE x == <<a1, a2, a3, a4, a5>>
            y == <<b1, b2, b3, b4, b5, b6, b7>>
            u == <<a1, a2, a3, a4, a5, b1, b2, b3, b4, b5, b6, b7>>
            S == {a1, a2, a3, a4, a5, b1, b2, b3, b4, b5, b6, b7}
<1>1. x \in Seq(S) /\ y \in Seq(S) /\ u \in Seq(S) /\ Len(x) = 5 /\ Len(y) = 7 /\ Len(u) = 12
  OBVIOUS
<1>2. /\ x[1] = a1 /\ x[2] = a2 /\ x[3] = a3 /\ x[4] = a4 /\ x[5] = a5 /\ y[1] = b1 /\ y[2] = b2
      /\ y[3] = b3 /\ y[4] = b4 /\ y[5] = b5 /\ y[6] = b6 /\ y[7] = b7 /\ u[1] = a1 /\ u[2] = a2
      /\ u[3] = a3 /\ u[4] = a4 /\ u[5] = a5 /\ u[6] = b1 /\ u[7] = b2 /\ u[8] = b3 /\ u[9] = b4
      /\ u[10] = b5 /\ u[11] = b6 /\ u[12] = b7
  OBVIOUS
<1>. HIDE DEF x, y, u, S
<1>. DEFINE v == x \o y
<1>3. v \in Seq(S) /\ Len(v) = 12 /\ \A k \in 1..12 : v[k] = IF k <= 5 THEN x[k] ELSE y[k - 5]
  <2>1. /\ v \in Seq(S) /\ Len(v) = Len(x) + Len(y)
        /\ \A k \in 1..Len(x) + Len(y) : v[k] = IF k <= Len(x) THEN x[k] ELSE y[k - Len(x)]
    BY <1>1, ConcatProperties
  <2>. HIDE DEF v
  <2>. QED
    BY <1>1, <2>1
<1>. HIDE DEF v
<1>4. \A k \in 1..12 : v[k] = u[k]
  <2>1. ASSUME NEW k \in 1..5 PROVE v[k] = u[k]
    <3>1. v[k] = x[k] /\ (k = 1 \/ k = 2 \/ k = 3 \/ k = 4 \/ k = 5)
      BY <1>3
    <3>. QED
      BY <1>2, <3>1
  <2>2. ASSUME NEW k \in 6..12 PROVE v[k] = u[k]
    <3>1. v[k] = y[k - 5] /\ (k = 6 \/ k = 7 \/ k = 8 \/ k = 9 \/ k = 10 \/ k = 11 \/ k = 12)
      BY <1>3
    <3>. QED
      BY <1>2, <3>1
  <2>. QED
    BY <2>1, <2>2
<1>5. v = u
  BY <1>1, <1>3, <1>4, SeqEqual
<1>. QED
  BY <1>5 DEF v, u, x, y

-----------------------------------------------------------------------------
(* HL kept in DE, and back.                                                 *)
LEMMA SaveHL ==
  ASSUME NEW fn, NEW s, NEW Q, NEW g, NEW X, NEW h, NEW e, NEW Q2, NEW g2,
         Safe(s, X, e), X \subseteq Addr, Q2 \subseteq AllRegs, {"H", "L"} \subseteq Q2,
         From(Q, g, Q2, g2, {"D", "E"}), g2["D"] = g["H"], g2["E"] = g["L"]
  PROVE  Hoare(fn, Known(s, Q, g, X, h, e), HLToDE, Known(s, Q2, g2, X, h, e))
<1>. DEFINE Q1 == Q2 \ {"E"}
            i == Mov("D", "H")
            j == Mov("E", "L")
<1>1. {"D", "E", "H", "L"} \subseteq Regs
  BY DEF Regs
<1>2. From(Q, g, Q1, g2, {"D"}) /\ "H" \in Q /\ "L" \in Q1 /\ g2["E"] = g2["L"]
  BY DEF From
<1>3. From(Q1, g2, Q2, g2, {"E"})
  BY DEF From
<1>4. Q1 \subseteq AllRegs
  OBVIOUS
<1>. HIDE DEF Q1
<1>5. Hoare(fn, Known(s, Q, g, X, h, e), <<i>>, Known(s, Q1, g2, X, h, e))
  BY <1>1, <1>2, <1>4, MovStep
<1>6. Hoare(fn, Known(s, Q1, g2, X, h, e), <<j>>, Known(s, Q2, g2, X, h, e))
  BY <1>1, <1>2, <1>3, MovStep
<1>. HIDE DEF i, j
<1>7. Hoare(fn, Known(s, Q, g, X, h, e), <<i, j>>, Known(s, Q2, g2, X, h, e))
  BY <1>5, <1>6, Hoare2
<1>. QED
  BY <1>7 DEF i, j, HLToDE

LEMMA RestoreHL ==
  ASSUME NEW fn, NEW s, NEW Q, NEW g, NEW X, NEW h, NEW e, NEW Q2, NEW g2,
         Safe(s, X, e), X \subseteq Addr, Q2 \subseteq AllRegs, {"D", "E"} \subseteq Q2,
         From(Q, g, Q2, g2, {"H", "L"}), g2["H"] = g["D"], g2["L"] = g["E"]
  PROVE  Hoare(fn, Known(s, Q, g, X, h, e), DEToHL, Known(s, Q2, g2, X, h, e))
<1>. DEFINE Q1 == Q2 \ {"L"}
            i == Mov("H", "D")
            j == Mov("L", "E")
<1>1. {"D", "E", "H", "L"} \subseteq Regs
  BY DEF Regs
<1>2. From(Q, g, Q1, g2, {"H"}) /\ "D" \in Q /\ "E" \in Q1 /\ g2["L"] = g2["E"]
  BY DEF From
<1>3. From(Q1, g2, Q2, g2, {"L"})
  BY DEF From
<1>4. Q1 \subseteq AllRegs
  OBVIOUS
<1>. HIDE DEF Q1
<1>5. Hoare(fn, Known(s, Q, g, X, h, e), <<i>>, Known(s, Q1, g2, X, h, e))
  BY <1>1, <1>2, <1>4, MovStep
<1>6. Hoare(fn, Known(s, Q1, g2, X, h, e), <<j>>, Known(s, Q2, g2, X, h, e))
  BY <1>1, <1>2, <1>3, MovStep
<1>. HIDE DEF i, j
<1>7. Hoare(fn, Known(s, Q, g, X, h, e), <<i, j>>, Known(s, Q2, g2, X, h, e))
  BY <1>5, <1>6, Hoare2
<1>. QED
  BY <1>7 DEF i, j, DEToHL

-----------------------------------------------------------------------------
(* The argument registers DE and HL reloaded from the stack.                *)
WithA(g, v) == [r \in AllRegs |-> IF r = "A" THEN v ELSE g[r]]

LEMMA ReloadStart ==
  ASSUME NEW fn, NEW e, NEW s, NEW n \in Addr, NEW p \in Addr, NEW X, NEW h, X \subseteq Addr, Safe(s, X, e),
         Wrap(n + s) = p, p + 1 \in Addr, {p, p + 1} \subseteq X,
         h[p] = RegNumber["E"], h[p + 1] = RegNumber["D"]
  PROVE  Hoare(fn, Known(s, {"A", "B", "C"}, RegNumber, X, h, e),
               <<Lxi("HL", n), DadSp, MovFromM("E"), Inx("HL"), MovFromM("D")>>,
               Known(s, Regs, HLSet(RegNumber, p + 1), X, h, e))
<1>. DEFINE R == RegNumber
            Q0 == {"A", "B", "C"}
            Q1 == {"A", "B", "C", "H", "L"}
            Q2 == {"A", "B", "C", "H", "L", "E"}
            g1 == HLSet(R, p)
            g2 == HLSet(R, p + 1)
            K0 == Known(s, Q0, R, X, h, e)
            K1 == Known(s, Q1, g1, X, h, e)
            K2 == Known(s, Q2, g1, X, h, e)
            K3 == Known(s, Q2, g2, X, h, e)
            K4 == Known(s, Regs, g2, X, h, e)
            a == Lxi("HL", n)
            b == DadSp
            c == MovFromM("E")
            d == Inx("HL")
            i == MovFromM("D")
<1>1. Regs \subseteq AllRegs /\ Q2 \subseteq Regs /\ "D" \in Regs /\ "E" \in Regs /\ Regs = Q2 \cup {"D"}
  BY DEF AllRegs, Regs
<1>2. /\ Q0 \subseteq AllRegs /\ Q1 \subseteq AllRegs /\ Q2 \subseteq AllRegs
      /\ Q1 = (Q0 \cup {"H", "L"}) \ {"F"} /\ Q1 = {"A", "B", "C"} \cup {"H", "L"}
  BY <1>1
<1>3. Holding("HL", Q1, g1, p) /\ \A r \in AllRegs \ {"H", "L"} : g1[r] = R[r]
  <2>1. Holding("HL", {"A", "B", "C"} \cup {"H", "L"}, g1, p) /\ \A r \in AllRegs \ {"H", "L"} : g1[r] = R[r]
    BY HLSetFacts
  <2>. QED
    BY <1>2, <2>1
<1>4. Holding("HL", Q1, g2, p + 1) /\ \A r \in AllRegs \ {"H", "L"} : g2[r] = R[r]
  <2>1. Holding("HL", {"A", "B", "C"} \cup {"H", "L"}, g2, p + 1) /\ \A r \in AllRegs \ {"H", "L"} : g2[r] = R[r]
    BY HLSetFacts
  <2>. QED
    BY <1>2, <2>1
<1>5. Q1 \subseteq Q2 /\ Q2 \subseteq AllRegs /\ Q2 = Q1 \cup {"E"}
  BY <1>1
<1>6. g1["E"] = h[p] /\ g2["D"] = h[p + 1]
  BY <1>1, <1>3, <1>4
<1>7. From(Q1, g1, Q2, g1, {"E"}) /\ From(Q2, g2, Regs, g2, {"D"})
  BY <1>1, <1>5 DEF From
<1>8. From(Q2, g1, Q2, g2, {"H", "L"})
  BY <1>3, <1>4, <1>5 DEF From
<1>9. Holding("HL", Q2, g1, p) /\ Holding("HL", Q2, g2, p + 1)
  BY <1>3, <1>4, <1>5, HoldingMore
<1>10. Hoare(fn, K0, <<a, b>>, K1)
  BY <1>2, PointHL
<1>. HIDE DEF Q0, Q1, Q2, g1, g2, R
<1>11. Hoare(fn, K1, <<c>>, K2)
  BY <1>1, <1>2, <1>3, <1>6, <1>7, LoadStep
<1>12. Hoare(fn, K2, <<d>>, K3)
  BY <1>2, <1>8, <1>9, InxStep
<1>13. Hoare(fn, K3, <<i>>, K4)
  BY <1>1, <1>6, <1>7, <1>9, LoadStep
<1>. HIDE DEF K0, K1, K2, K3, K4, a, b, c, d, i
<1>14. Hoare(fn, K1, <<c, d, i>>, K4)
  BY <1>11, <1>12, <1>13, Hoare3
<1>15. Hoare(fn, K0, <<a, b>> \o <<c, d, i>>, K4)
  <2>. DEFINE x == <<a, b>>
              y == <<c, d, i>>
  <2>1. x \in Seq({a, b}) /\ y \in Seq({c, d, i})
    OBVIOUS
  <2>2. Hoare(fn, K0, x, K1) /\ Hoare(fn, K1, y, K4)
    BY <1>10, <1>14
  <2>. HIDE DEF x, y
  <2>3. Hoare(fn, K0, x \o y, K4)
    BY <2>1, <2>2, HoareJoin
  <2>. QED
    BY <2>3 DEF x, y
<1>16. <<a, b>> \o <<c, d, i>> = <<a, b, c, d, i>>
  BY TwoAndThree
<1>. QED
  BY <1>15, <1>16 DEF K0, K4, a, b, c, d, i, Q0, R, g2

LEMMA ReloadEnd ==
  ASSUME NEW fn, NEW e, NEW s, NEW p \in Addr, NEW X, NEW h, X \subseteq Addr, Safe(s, X, e), s - 2 \in Addr, s >= 2,
         s \in Addr, Safe(s - 2, X \cup {s - 1}, e), p + 1 \in Addr, p + 2 \in Addr, {p + 1, p + 2} \subseteq X,
         h[p + 1] = RegNumber["L"], h[p + 2] = RegNumber["H"], s - 1 \notin X, s - 2 \notin X
  PROVE  Hoare(fn, Known(s, Regs, HLSet(RegNumber, p), X, h, e),
               <<Push("PSW"), Inx("HL"), MovFromM("A"), Inx("HL"), MovFromM("H"), Mov("L", "A")>> \o <<Pop("PSW")>>,
               Known(s, Regs, RegNumber, X, h, e))
<1>. DEFINE R == RegNumber
            t == s - 2
            Y == X \cup {s - 1}
            k == [z \in Addr |-> IF z = s - 1 THEN R["A"] ELSE h[z]]
            NL == Regs \ {"L"}
            g0 == HLSet(R, p)
            g1 == HLSet(R, p + 1)
            g2 == WithA(g1, R["L"])
            g3 == WithA(HLSet(R, p + 2), R["L"])
            g4 == WithA(R, R["L"])
            K0 == Known(s, Regs, g0, X, h, e)
            K1 == Known(t, Regs, g0, Y, k, e)
            K2 == Known(t, Regs, g1, Y, k, e)
            K3 == Known(t, Regs, g2, Y, k, e)
            K4 == Known(t, Regs, g3, Y, k, e)
            K5 == Known(t, NL, g4, Y, k, e)
            K6 == Known(t, Regs, g4, Y, k, e)
            K7 == Known(s, Regs, R, X, k, e)
            K8 == Known(s, Regs, R, X, h, e)
            a == Push("PSW")
            b == Inx("HL")
            c == MovFromM("A")
            d == MovFromM("H")
            i == Mov("L", "A")
            j == Pop("PSW")
<1>1. /\ Regs \subseteq AllRegs /\ {"A", "H", "L"} \subseteq Regs /\ NL \subseteq AllRegs /\ "F" \notin Regs
      /\ "A" \in NL /\ "L" \notin NL
  BY DEF AllRegs, Regs
<1>2. s \in Nat /\ t + 2 = s /\ t + 1 = s - 1 /\ s - 1 \in Addr /\ t \in Addr
  <2>1. s \in Nat /\ s - 1 \in Nat /\ s - 1 <= s
    BY ByteFacts
  <2>2. \A z \in Nat : z <= s => z \in Addr
    BY <2>1, ByteFacts DEF Addr
  <2>. QED
    BY <2>1, <2>2
<1>3. Y \subseteq Addr /\ s - 1 \in Y /\ t \notin Y
  BY <1>2
<1>4. k[s - 1] = R["A"] /\ \A z \in X : k[z] = h[z]
  BY <1>2
<1>5. /\ \A q \in {p, p + 1, p + 2} : q \in Addr
      /\ p + 1 \in Y /\ p + 2 \in Y /\ k[p + 1] = R["L"] /\ k[p + 2] = R["H"]
  BY <1>4
<1>6. \A q \in {p, p + 1, p + 2} : /\ Holding("HL", Regs, HLSet(R, q), q)
                                   /\ \A r \in AllRegs \ {"H", "L"} : HLSet(R, q)[r] = R[r]
  <2>1. ASSUME NEW q \in Addr
        PROVE  /\ Holding("HL", Regs, HLSet(R, q), q)
               /\ \A r \in AllRegs \ {"H", "L"} : HLSet(R, q)[r] = R[r]
    <3>1. Holding("HL", Regs \cup {"H", "L"}, HLSet(R, q), q) /\ \A r \in AllRegs \ {"H", "L"} : HLSet(R, q)[r] = R[r]
      BY HLSetFacts
    <3>2. Regs \cup {"H", "L"} = Regs
      BY <1>1
    <3>. QED
      BY <3>1, <3>2
  <2>. QED
    BY <1>5, <2>1
<1>7. \A g : \A v : WithA(g, v)["A"] = v /\ \A r \in AllRegs \ {"A"} : WithA(g, v)[r] = g[r]
  BY <1>1 DEF WithA
<1>8. Holding("HL", Regs, g2, p + 1) /\ Holding("HL", Regs, g3, p + 2)
  <2>1. \A g : WithA(g, R["L"])["H"] = g["H"] /\ WithA(g, R["L"])["L"] = g["L"]
    BY <1>1, <1>7
  <2>2. Holding("HL", Regs, HLSet(R, p + 1), p + 1) /\ Holding("HL", Regs, HLSet(R, p + 2), p + 2)
    BY <1>6
  <2>. QED
    BY <2>1, <2>2, PairFacts DEF Holding
<1>9. Holding("HL", Regs, g0, p) /\ Holding("HL", Regs, g1, p + 1)
  BY <1>6
<1>10. /\ \A r \in AllRegs \ {"H", "L"} : g0[r] = R[r] /\ g1[r] = R[r]
       /\ \A r \in AllRegs \ {"A", "H", "L"} : g2[r] = R[r] /\ g3[r] = R[r]
       /\ g2["A"] = R["L"] /\ g3["A"] = R["L"] /\ g2["H"] = g1["H"] /\ g2["L"] = g1["L"]
       /\ \A r \in AllRegs \ {"A"} : g4[r] = R[r]
       /\ g4["A"] = R["L"]
  BY <1>1, <1>6, <1>7
<1>11. /\ g0["A"] = R["A"] /\ g2["A"] = k[p + 1] /\ g4["H"] = k[p + 2] /\ g4["L"] = g4["A"]
  BY <1>1, <1>5, <1>10
<1>12. /\ From(Regs, g0, Regs, g1, {"H", "L"}) /\ From(Regs, g1, Regs, g2, {"A"})
       /\ From(Regs, g2, Regs, g3, {"H", "L"})
  <2>. HIDE DEF g0, g1, g2, g3, g4, R
  <2>1. From(Regs, g0, Regs, g1, {"H", "L"})
    BY <1>1, <1>10 DEF From
  <2>2. From(Regs, g1, Regs, g2, {"A"})
    <3>1. ASSUME NEW r \in Regs \ {"A"} PROVE g2[r] = g1[r]
      <4>1. CASE r \in {"H", "L"}
        BY <1>10, <4>1
      <4>2. CASE r \notin {"H", "L"}
        BY <1>1, <1>10, <4>2
      <4>. QED
        BY <4>1, <4>2
    <3>. QED
      BY <3>1 DEF From
  <2>3. From(Regs, g2, Regs, g3, {"H", "L"})
    <3>1. ASSUME NEW r \in Regs \ {"H", "L"} PROVE g3[r] = g2[r]
      <4>1. CASE r = "A"
        BY <1>10, <4>1
      <4>2. CASE r # "A"
        BY <1>1, <1>10, <4>2
      <4>. QED
        BY <4>1, <4>2
    <3>. QED
      BY <3>1 DEF From
  <2>. QED
    BY <2>1, <2>2, <2>3
<1>13. /\ From(Regs, g3, NL, g4, {"H"}) /\ From(NL, g4, Regs, g4, {"L"})
       /\ From(Regs, g4, Regs, R, {"A", "F"})
  <2>. HIDE DEF g3, g4, R
  <2>1. From(Regs, g3, NL, g4, {"H"})
    <3>1. ASSUME NEW r \in NL \ {"H"} PROVE r \in Regs /\ g4[r] = g3[r]
      <4>1. CASE r = "A"
        BY <1>1, <1>10, <4>1
      <4>2. CASE r # "A"
        BY <1>1, <1>10, <4>2
      <4>. QED
        BY <4>1, <4>2
    <3>. QED
      BY <3>1 DEF From
  <2>2. From(NL, g4, Regs, g4, {"L"})
    BY DEF From
  <2>3. From(Regs, g4, Regs, R, {"A", "F"})
    BY <1>1, <1>10 DEF From
  <2>. QED
    BY <2>1, <2>2, <2>3
<1>14. From(X, h, Y, k, {s - 2, s - 1}) /\ X \subseteq Y
  <2>. HIDE DEF k
  <2>. QED
    BY <1>4 DEF From
<1>15. /\ Hi["PSW"] = "A" /\ Lo["PSW"] = "F" /\ "PSW" \in Pairs \cup {"PSW"} /\ s - 2 \notin Y /\ Safe(t, Y, e)
       /\ k[s - 1] = g0["A"] /\ t + 1 \in Y /\ R["A"] = k[t + 1]
  BY <1>2, <1>3, <1>4, <1>11, PairFacts
<1>16. Hoare(fn, K0, <<a>>, K1)
  <2>. HIDE DEF Y, k, g0, R
  <2>1. Hoare(fn, Known(s, Regs, g0, X, h, e), <<Push("PSW")>>, Known(s - 2, Regs, g0, Y, k, e))
    BY <1>1, <1>3, <1>14, <1>15, PushStep
  <2>. QED
    BY <2>1
<1>. HIDE DEF Y, k, g0, g1, g2, g3, g4, NL, t
<1>17. Hoare(fn, K1, <<b>>, K2)
  <2>. HIDE DEF R
  <2>. QED
    BY <1>1, <1>3, <1>5, <1>9, <1>12, <1>15, InxStep
<1>18. Hoare(fn, K2, <<c>>, K3)
  <2>. HIDE DEF R
  <2>. QED
    BY <1>1, <1>3, <1>5, <1>9, <1>11, <1>12, <1>15, LoadStep
<1>19. Hoare(fn, K3, <<b>>, K4)
  <2>. DEFINE q == p + 1
  <2>1. q \in Addr /\ q + 1 \in Addr /\ q + 1 = p + 2
    BY <1>5, ByteFacts
  <2>2. Holding("HL", Regs, g2, q) /\ Holding("HL", Regs, g3, q + 1)
    BY <1>8, <2>1
  <2>. HIDE DEF q, R
  <2>. QED
    BY <1>1, <1>3, <1>12, <1>15, <2>1, <2>2, InxStep
<1>20. Hoare(fn, K4, <<d>>, K5)
  <2>. HIDE DEF R
  <2>. QED
    BY <1>1, <1>3, <1>5, <1>8, <1>11, <1>13, <1>15, LoadStep
<1>21. Hoare(fn, K5, <<i>>, K6)
  <2>. HIDE DEF R
  <2>. QED
    BY <1>1, <1>3, <1>11, <1>13, <1>15, MovStep
<1>22. Hoare(fn, K6, <<j>>, K7)
  <2>. HIDE DEF R
  <2>1. Hoare(fn, Known(t, Regs, g4, Y, k, e), <<Pop("PSW")>>, Known(t + 2, Regs, R, X, k, e))
    <3>1. t + 2 \in Addr /\ Safe(t + 2, X, e)
      BY <1>2
    <3>. QED
      BY <1>1, <1>3, <1>13, <1>14, <1>15, <3>1, PopStep
  <2>. QED
    BY <1>2, <2>1
<1>23. K7 \subseteq K8
  <2>1. From(Regs, R, Regs, R, {}) /\ From(X, k, X, h, {})
    BY <1>4 DEF From
  <2>. HIDE DEF R
  <2>. QED
    BY <2>1, KnownLess
<1>. HIDE DEF K0, K1, K2, K3, K4, K5, K6, K7, K8, a, b, c, d, i, j
<1>24. Hoare(fn, K0, <<a, b, c, b, d, i>>, K6)
  BY <1>16, <1>17, <1>18, <1>19, <1>20, <1>21, Hoare6
<1>25. Hoare(fn, K6, <<j>>, K8)
  BY <1>22, <1>23, HoareWeaker
<1>26. Hoare(fn, K0, <<a, b, c, b, d, i>> \o <<j>>, K8)
  <2>. DEFINE x == <<a, b, c, b, d, i>>
              y == <<j>>
  <2>1. x \in Seq({a, b, c, d, i}) /\ y \in Seq({j})
    OBVIOUS
  <2>2. Hoare(fn, K0, x, K6) /\ Hoare(fn, K6, y, K8)
    BY <1>24, <1>25
  <2>. HIDE DEF x, y
  <2>3. Hoare(fn, K0, x \o y, K8)
    BY <2>1, <2>2, HoareJoin
  <2>. QED
    BY <2>3 DEF x, y
<1>. QED
  BY <1>26 DEF K0, K8, a, b, c, d, i, j, g0, R

LEMMA ReloadArgsRight ==
  ASSUME NEW fn, NEW e, NEW s \in Addr, NEW n \in Nat, NEW p \in Addr, NEW X, NEW h, X \subseteq Addr,
         s + n = p, p + 3 \in Addr, {p, p + 1, p + 2, p + 3} \subseteq X, s >= 4, \A a \in X : a < s - 4 \/ a >= s,
         h[p] = RegNumber["E"], h[p + 1] = RegNumber["D"], h[p + 2] = RegNumber["L"], h[p + 3] = RegNumber["H"]
  PROVE  Hoare(fn, Known(s, {"A", "B", "C"}, RegNumber, X, h, e), ReloadArgs(n), Known(s, Regs, RegNumber, X, h, e))
<1>. DEFINE K0 == Known(s, {"A", "B", "C"}, RegNumber, X, h, e)
            q == p + 1
            K1 == Known(s, Regs, HLSet(RegNumber, q), X, h, e)
            K2 == Known(s, Regs, RegNumber, X, h, e)
            a1 == Lxi("HL", n)
            a2 == DadSp
            a3 == MovFromM("E")
            a4 == Inx("HL")
            a5 == MovFromM("D")
            b1 == Push("PSW")
            b2 == MovFromM("A")
            b3 == MovFromM("H")
            b4 == Mov("L", "A")
            b5 == Pop("PSW")
            x == <<a1, a2, a3, a4, a5>>
            y == <<b1, a4, b2, a4, b3, b4>>
            z == <<b5>>
<1>1. s \in Nat /\ p \in Nat /\ n \in Addr /\ n + s = p /\ \A i \in 0..p + 3 : i \in Addr
  <2>. DEFINE b == ByteSize * ByteSize
  <2>1. b \in Nat /\ Addr = 0..(b - 1)
    BY ByteFacts DEF Addr
  <2>. HIDE DEF b
  <2>. QED
    BY <2>1
<1>2. \A a \in X : a \in Nat
  BY <1>1, ByteFacts
<1>3. /\ s - 1 \notin X /\ s - 2 \notin X /\ (s - 2) - 1 \notin X /\ (s - 2) - 2 \notin X
  <2>1. /\ s - 1 < s /\ ~(s - 1 < s - 4) /\ s - 2 < s /\ ~(s - 2 < s - 4)
        /\ (s - 2) - 1 < s /\ ~((s - 2) - 1 < s - 4) /\ (s - 2) - 2 < s /\ ~((s - 2) - 2 < s - 4)
        /\ s - 1 \in Int /\ s - 2 \in Int /\ (s - 2) - 1 \in Int /\ (s - 2) - 2 \in Int
    BY <1>1
  <2>2. \A t \in Int : t < s /\ ~(t < s - 4) => t \notin X
    <3>1. ASSUME NEW t \in Int, t < s, ~(t < s - 4), t \in X
          PROVE  FALSE
      <4>1. t < s - 4 \/ t >= s
        BY <3>1
      <4>. QED
        BY <1>1, <3>1, <4>1
    <3>. QED
      BY <3>1
  <2>. QED
    BY <2>1, <2>2
<1>4. s - 2 \in Addr /\ s >= 2 /\ s - 2 >= 2 /\ s - 1 # (s - 2) - 1 /\ s - 1 # (s - 2) - 2
  BY <1>1
<1>5. Safe(s, X, e) /\ Safe(s - 2, X \cup {s - 1}, e)
  BY <1>3, <1>4 DEF Safe
<1>6. q \in Addr /\ q + 1 = p + 2 /\ q + 2 = p + 3 /\ p + 1 \in Addr /\ p + 2 \in Addr
  BY <1>1
<1>7. Wrap(n + s) = p
  BY <1>1, WrapFacts
<1>8. Hoare(fn, K0, x, K1)
  <2>1. {p, p + 1} \subseteq X
    OBVIOUS
  <2>. QED
    BY <1>1, <1>5, <1>6, <1>7, <2>1, ReloadStart
<1>9. q + 1 \in Addr /\ q + 2 \in Addr /\ {q + 1, q + 2} \subseteq X /\ h[q + 1] = RegNumber["L"] /\ h[q + 2] = RegNumber["H"]
  BY <1>6
<1>. HIDE DEF q
<1>10. Hoare(fn, K1, y \o z, K2)
  BY <1>3, <1>4, <1>5, <1>6, <1>9, ReloadEnd
<1>11. x \in Seq({a1, a2, a3, a4, a5}) /\ y \in Seq({b1, a4, b2, b3, b4}) /\ z \in Seq({b5})
  OBVIOUS
<1>12. y \o z = <<b1, a4, b2, a4, b3, b4, b5>>
  <2>. HIDE DEF b1, a4, b2, b3, b4, b5
  <2>. QED
    BY SixAndOne
<1>13. <<b1, a4, b2, a4, b3, b4, b5>> \in Seq({b1, a4, b2, b3, b4, b5})
  OBVIOUS
<1>. DEFINE w == <<b1, a4, b2, a4, b3, b4, b5>>
<1>14. Hoare(fn, K1, w, K2)
  BY <1>10, <1>12
<1>15. x \o w = <<a1, a2, a3, a4, a5, b1, a4, b2, a4, b3, b4, b5>>
  <2>. HIDE DEF a1, a2, a3, a4, a5, b1, b2, b3, b4, b5
  <2>. QED
    BY FiveAndSeven
<1>16. ReloadArgs(n) = <<a1, a2, a3, a4, a5, b1, a4, b2, a4, b3, b4, b5>>
  BY DEF ReloadArgs
<1>. HIDE DEF x, w, K0, K1, K2
<1>17. Hoare(fn, K0, x \o w, K2)
  BY <1>8, <1>11, <1>13, <1>14, HoareJoin DEF w
<1>. QED
  BY <1>15, <1>16, <1>17 DEF K0, K2
-----------------------------------------------------------------------------
(* The pieces of code are sequences.                                        *)
IsCode(s) == \E S : s \in Seq(S)

LEMMA JoinCode ==
  ASSUME NEW fn, NEW s, NEW t, IsCode(s), IsCode(t), NEW P, NEW Q, NEW R,
         Hoare(fn, P, s, Q), Hoare(fn, Q, t, R)
  PROVE  Hoare(fn, P, s \o t, R) /\ IsCode(s \o t)
<1>1. PICK S : s \in Seq(S)
  BY DEF IsCode
<1>2. PICK T : t \in Seq(T)
  BY DEF IsCode
<1>3. s \in Seq(S \cup T) /\ t \in Seq(S \cup T)
  BY <1>1, <1>2
<1>4. s \o t \in Seq(S \cup T)
  BY <1>3, ConcatProperties
<1>. QED
  BY <1>3, <1>4, HoareJoin DEF IsCode

LEMMA ConcatCode ==
  ASSUME NEW s, NEW t, IsCode(s), IsCode(t)
  PROVE  IsCode(s \o t) /\ Len(s \o t) = Len(s) + Len(t)
<1>1. PICK S : s \in Seq(S)
  BY DEF IsCode
<1>2. PICK T : t \in Seq(T)
  BY DEF IsCode
<1>3. s \in Seq(S \cup T) /\ t \in Seq(S \cup T)
  BY <1>1, <1>2
<1>4. s \o t \in Seq(S \cup T) /\ Len(s \o t) = Len(s) + Len(t)
  BY <1>3, ConcatProperties
<1>. QED
  BY <1>4 DEF IsCode

LEMMA EmptyCode ==
  IsCode(<<>>)
<1>1. <<>> \in Seq({})
  OBVIOUS
<1>. QED
  BY <1>1 DEF IsCode

LEMMA OneCode ==
  ASSUME NEW a
  PROVE  IsCode(<<a>>)
<1>1. <<a>> \in Seq({a})
  OBVIOUS
<1>. QED
  BY <1>1 DEF IsCode

LEMMA TwoCode ==
  ASSUME NEW a, NEW b
  PROVE  IsCode(<<a, b>>)
<1>1. <<a, b>> \in Seq({a, b})
  OBVIOUS
<1>. QED
  BY <1>1 DEF IsCode

LEMMA TimesCode ==
  ASSUME NEW n \in Nat, NEW i
  PROVE  IsCode(Times(n, i)) /\ Len(Times(n, i)) = n
<1>1. Times(n, i) \in Seq({i}) /\ Len(Times(n, i)) = n
  BY DEF Times
<1>. QED
  BY <1>1 DEF IsCode

LEMMA AdjustCode ==
  ASSUME NEW fn, NEW n \in Nat, NEW live, NEW down
  PROVE  IsCode(AdjustSP(fn, n, live, down))
<1>. DEFINE i == IF down THEN Push(DeadPair(live)) ELSE Pop(DeadPair(live))
            j == IF down THEN Dcx("SP") ELSE Inx("SP")
            k == Lxi("HL", IF down THEN Wrap(ByteSize * ByteSize - n) ELSE n)
<1>1. CASE n = 0
  BY <1>1, EmptyCode DEF AdjustSP
<1>2. CASE n # 0 /\ PushPop(fn, n, live)
  <2>1. n \div 2 \in Nat
    <3>1. n \in {2, 4, 6}
      BY <1>2 DEF PushPop
    <3>. QED
      BY <3>1
  <2>2. AdjustSP(fn, n, live, down) = Times(n \div 2, i)
    BY <1>2 DEF AdjustSP
  <2>. QED
    BY <2>1, <2>2, TimesCode
<1>3. CASE n # 0 /\ ~PushPop(fn, n, live) /\ n \in {2, 4}
  <2>1. AdjustSP(fn, n, live, down) = Times(n, j)
    BY <1>3 DEF AdjustSP
  <2>. QED
    BY <2>1, TimesCode
<1>4. CASE n # 0 /\ ~PushPop(fn, n, live) /\ n \notin {2, 4}
  <2>1. AdjustSP(fn, n, live, down) = <<k, DadSp, Sphl>>
    BY <1>4 DEF AdjustSP
  <2>. HIDE DEF k
  <2>2. <<k, DadSp, Sphl>> \in Seq({k, DadSp, Sphl})
    OBVIOUS
  <2>. QED
    BY <2>1, <2>2 DEF IsCode
<1>. QED
  BY <1>1, <1>2, <1>3, <1>4

LEMMA MoveCode ==
  ASSUME NEW n
  PROVE  IsCode(HLToDE) /\ IsCode(DEToHL) /\ IsCode(SetFP) /\ IsCode(ReloadArgs(n))
<1>1. IsCode(HLToDE) /\ IsCode(DEToHL)
  BY TwoCode DEF HLToDE, DEToHL
<1>2. IsCode(SetFP)
  <2>1. SetFP \in Seq({SetFP[k] : k \in 1..5})
    BY DEF SetFP
  <2>. QED
    BY <2>1 DEF IsCode
<1>3. IsCode(ReloadArgs(n))
  <2>1. ReloadArgs(n) \in Seq({ReloadArgs(n)[k] : k \in 1..12})
    BY DEF ReloadArgs
  <2>. QED
    BY <2>1 DEF IsCode
<1>. QED
  BY <1>1, <1>2, <1>3

(* The registers live at the entry are among those of the 8080.             *)
LEMMA LiveInRegs ==
  ASSUME NEW fn, FunctionType(fn)
  PROVE  LiveIn(fn) \subseteq Regs
<1>1. \A i \in fn.used : Parts(Where(fn.args)[i].reg) \subseteq Regs \/ Where(fn.args)[i].reg = ""
  <2>1. ASSUME NEW i \in fn.used, Where(fn.args)[i].reg # ""
        PROVE  Parts(Where(fn.args)[i].reg) \subseteq Regs
    <3>. DEFINE r == Where(fn.args)[i].reg
    <3>1. r \in Regs \cup Pairs
      BY <2>1 DEF FunctionType
    <3>. HIDE DEF r
    <3>2. Parts(r) \subseteq Regs
      BY <3>1 DEF Parts, Regs, Pairs, Hi, Lo
    <3>. QED
      BY <3>2 DEF r
  <2>. QED
    BY <2>1
<1>. QED
  BY <1>1 DEF LiveIn

LEMMA OneAndTwo ==
  ASSUME NEW a1, NEW b1, NEW b2
  PROVE  <<a1>> \o <<b1, b2>> = <<a1, b1, b2>>
<1>. DEFINE x == <<a1>>
            y == <<b1, b2>>
            u == <<a1, b1, b2>>
            S == {a1, b1, b2}
<1>1. x \in Seq(S) /\ y \in Seq(S) /\ u \in Seq(S) /\ Len(x) = 1 /\ Len(y) = 2 /\ Len(u) = 3
  OBVIOUS
<1>2. /\ x[1] = a1 /\ y[1] = b1 /\ y[2] = b2 /\ u[1] = a1 /\ u[2] = b1 /\ u[3] = b2
  OBVIOUS
<1>. HIDE DEF x, y, u, S
<1>. DEFINE v == x \o y
<1>3. v \in Seq(S) /\ Len(v) = 3 /\ \A k \in 1..3 : v[k] = IF k <= 1 THEN x[k] ELSE y[k - 1]
  <2>1. /\ v \in Seq(S) /\ Len(v) = Len(x) + Len(y)
        /\ \A k \in 1..Len(x) + Len(y) : v[k] = IF k <= Len(x) THEN x[k] ELSE y[k - Len(x)]
    BY <1>1, ConcatProperties
  <2>. HIDE DEF v
  <2>. QED
    BY <1>1, <2>1
<1>. HIDE DEF v
<1>4. \A k \in 1..3 : v[k] = u[k]
  <2>1. ASSUME NEW k \in 1..1 PROVE v[k] = u[k]
    <3>1. v[k] = x[k] /\ (k = 1)
      BY <1>3
    <3>. QED
      BY <1>2, <3>1
  <2>2. ASSUME NEW k \in 2..3 PROVE v[k] = u[k]
    <3>1. v[k] = y[k - 1] /\ (k = 2 \/ k = 3)
      BY <1>3
    <3>. QED
      BY <1>2, <3>1
  <2>. QED
    BY <2>1, <2>2
<1>5. v = u
  BY <1>1, <1>3, <1>4, SeqEqual
<1>. QED
  BY <1>5 DEF v, u, x, y

LEMMA ThreeAndTwo ==
  ASSUME NEW a1, NEW a2, NEW a3, NEW b1, NEW b2
  PROVE  <<a1, a2, a3>> \o <<b1, b2>> = <<a1, a2, a3, b1, b2>>
<1>. DEFINE x == <<a1, a2, a3>>
            y == <<b1, b2>>
            u == <<a1, a2, a3, b1, b2>>
            S == {a1, a2, a3, b1, b2}
<1>1. x \in Seq(S) /\ y \in Seq(S) /\ u \in Seq(S) /\ Len(x) = 3 /\ Len(y) = 2 /\ Len(u) = 5
  OBVIOUS
<1>2. /\ x[1] = a1 /\ x[2] = a2 /\ x[3] = a3 /\ y[1] = b1 /\ y[2] = b2 /\ u[1] = a1 /\ u[2] = a2
      /\ u[3] = a3 /\ u[4] = b1 /\ u[5] = b2
  OBVIOUS
<1>. HIDE DEF x, y, u, S
<1>. DEFINE v == x \o y
<1>3. v \in Seq(S) /\ Len(v) = 5 /\ \A k \in 1..5 : v[k] = IF k <= 3 THEN x[k] ELSE y[k - 3]
  <2>1. /\ v \in Seq(S) /\ Len(v) = Len(x) + Len(y)
        /\ \A k \in 1..Len(x) + Len(y) : v[k] = IF k <= Len(x) THEN x[k] ELSE y[k - Len(x)]
    BY <1>1, ConcatProperties
  <2>. HIDE DEF v
  <2>. QED
    BY <1>1, <2>1
<1>. HIDE DEF v
<1>4. \A k \in 1..5 : v[k] = u[k]
  <2>1. ASSUME NEW k \in 1..3 PROVE v[k] = u[k]
    <3>1. v[k] = x[k] /\ (k = 1 \/ k = 2 \/ k = 3)
      BY <1>3
    <3>. QED
      BY <1>2, <3>1
  <2>2. ASSUME NEW k \in 4..5 PROVE v[k] = u[k]
    <3>1. v[k] = y[k - 3] /\ (k = 4 \/ k = 5)
      BY <1>3
    <3>. QED
      BY <1>2, <3>1
  <2>. QED
    BY <2>1, <2>2
<1>5. v = u
  BY <1>1, <1>3, <1>4, SeqEqual
<1>. QED
  BY <1>5 DEF v, u, x, y


(* A frame pointer is set up.                                               *)
LEMMA SetFPRight ==
  ASSUME NEW fn, NEW s \in Addr, NEW Q, NEW g, NEW X, NEW h, NEW e, NEW Q2, NEW g2, NEW X2,
         s >= 2, Safe(s, X, e), X \subseteq Addr, Safe(s - 2, X2, e), X2 = X \cup {s - 2, s - 1}, Q \subseteq AllRegs,
         "B" \in Q, "C" \in Q, h[s - 1] = g["B"], h[s - 2] = g["C"],
         Q2 \subseteq Q \ {"H", "L", "F"}, \A r \in Q2 \ {"B", "C"} : g2[r] = g[r],
         g2["B"] = (s - 2) \div ByteSize, g2["C"] = (s - 2) % ByteSize
  PROVE  Hoare(fn, Known(s, Q, g, X, h, e), SetFP, Known(s - 2, Q2, g2, X2, h, e))
<1>. DEFINE v == s - 2
            g1 == HLSet(g, v)
            Q1 == (Q \cup {"H", "L"}) \ {"F"}
            gb == [g1 EXCEPT !["B"] = v \div ByteSize]
            Q3 == (Q2 \cup {"L", "B"}) \ {"C"}
            K0 == Known(s, Q, g, X, h, e)
            K1 == Known(v, Q, g, X2, h, e)
            K2 == Known(v, Q1, g1, X2, h, e)
            K3 == Known(v, Q3, gb, X2, h, e)
            K4 == Known(v, Q2, g2, X2, h, e)
            a == Push("BC")
            b == <<Lxi("HL", 0), DadSp>>
            c == Mov("B", "H")
            d == Mov("C", "L")
<1>1. v \in Addr /\ s - 1 \in Addr /\ X2 \subseteq Addr
  BY BelowSp
<1>2. /\ {"B", "C", "H", "L"} \subseteq Regs /\ "BC" \in Pairs \cup {"PSW"} /\ Hi["BC"] = "B" /\ Lo["BC"] = "C"
      /\ Hi["HL"] = "H" /\ Lo["HL"] = "L" /\ AllRegs = Regs \cup {"F"} /\ "F" \notin Regs
  BY PairFacts DEF Regs, Pairs, AllRegs
<1>3. From(X, h, X2, h, {s - 2, s - 1})
  BY DEF From
<1>. HIDE DEF a, b, c, d, g1, Q1, gb, Q3
<1>4. Hoare(fn, K0, <<a>>, K1)
  BY <1>1, <1>2, <1>3, PushStep DEF a
<1>5. Hoare(fn, K1, b, K2)
  <2>1. 0 \in Addr /\ Wrap(0 + v) = v
    <3>1. v \in Nat /\ 0 + v = v /\ 0 \in 0..Entry
      BY <1>1, ByteFacts, AddrFacts
    <3>. QED
      BY <1>1, <3>1, WrapFacts, AddrFacts
  <2>. QED
    BY <1>1, <2>1, PointHL DEF b, Q1, g1
<1>6. /\ g1["H"] = v \div ByteSize /\ g1["L"] = v % ByteSize /\ \A r \in AllRegs \ {"H", "L"} : g1[r] = g[r]
      /\ "H" \in Q1 /\ "L" \in Q1
  BY <1>2 DEF g1, HLSet, Q1
<1>7. gb["B"] = g1["H"] /\ \A r \in AllRegs \ {"B"} : gb[r] = g1[r]
  BY <1>2, <1>6 DEF gb, g1, HLSet
<1>8. From(Q1, g1, Q3, gb, {"B"}) /\ Q3 \subseteq AllRegs
  BY <1>2, <1>6, <1>7 DEF From, Q1, Q3
<1>9. Hoare(fn, K2, <<c>>, K3)
  BY <1>1, <1>2, <1>6, <1>7, <1>8, MovStep DEF c
<1>10. From(Q3, gb, Q2, g2, {"C"}) /\ Q2 \subseteq AllRegs /\ "L" \in Q3 /\ g2["C"] = gb["L"]
  BY <1>2, <1>6, <1>7 DEF From, Q3
<1>11. Hoare(fn, K3, <<d>>, K4)
  BY <1>1, <1>2, <1>10, MovStep DEF d
<1>. HIDE DEF K0, K1, K2, K3, K4
<1>12. Hoare(fn, K2, <<c, d>>, K4)
  BY <1>9, <1>11, Hoare2
<1>13. IsCode(<<a>>) /\ IsCode(b) /\ IsCode(<<c, d>>)
  BY OneCode, TwoCode DEF b
<1>14. Hoare(fn, K0, <<a>> \o b, K2) /\ IsCode(<<a>> \o b)
  BY <1>4, <1>5, <1>13, JoinCode
<1>. DEFINE p == <<a>> \o b
<1>15. p = <<a, Lxi("HL", 0), DadSp>>
  <2>. DEFINE x == Lxi("HL", 0)
  <2>. HIDE DEF x
  <2>1. <<a>> \o <<x, DadSp>> = <<a, x, DadSp>>
    BY OneAndTwo
  <2>. QED
    BY <2>1 DEF x, b
<1>. HIDE DEF p
<1>16. Hoare(fn, K0, p \o <<c, d>>, K4)
  BY <1>12, <1>13, <1>14, JoinCode DEF p
<1>17. SetFP = p \o <<c, d>>
  <2>1. SetFP = <<a, Lxi("HL", 0), DadSp, c, d>>
    BY DEF SetFP, a, c, d
  <2>. HIDE DEF a, c, d
  <2>. DEFINE x == Lxi("HL", 0)
  <2>2. SetFP = <<a, x, DadSp, c, d>> /\ p = <<a, x, DadSp>>
    BY <2>1, <1>15
  <2>. HIDE DEF x
  <2>3. <<a, x, DadSp>> \o <<c, d>> = <<a, x, DadSp, c, d>>
    BY ThreeAndTwo
  <2>. QED
    BY <2>2, <2>3
<1>. QED
  BY <1>16, <1>17 DEF K0, K4
-----------------------------------------------------------------------------
(* The prologue, with the arguments saved in the stack frame.               *)
LEMMA OutsideFar ==
  ASSUME NEW fn \in Functions, ~fn.fp
  PROVE  \A a \in Outside(fn) : a \in Nat /\ (a >= Entry \/ a + 4 < Bottom(fn))
<1>. DEFINE b == Bottom(fn)
            z == StackSize(fn)
            c == fn.copy
<1>1. Dst + c + z + 4 < Entry /\ c \in Nat /\ b \in Nat /\ b + z = Entry
  BY Layout
<1>2. Entry \in Nat /\ Dst \in Nat /\ \A a \in Upper : a >= Entry
  BY AddrFacts
<1>3. z \in Nat
  BY Layout, FrameFacts
<1>4. \A a \in Outside(fn) : a \in Nat
  BY OutsideFacts, ByteFacts
<1>5. \A a \in Outside(fn) : a \in Upper \/ a \in 0..(Dst + c)
  BY DEF Outside
<1>. HIDE DEF b, z, c
<1>6. \A a \in 0..(Dst + c) : a + 4 < b
  BY <1>1, <1>2, <1>3
<1>. QED
  BY <1>2, <1>4, <1>5, <1>6 DEF b

SavedArgs(fn) ==
  [a \in Addr |-> IF a = Entry - 1 THEN RegNumber["H"] ELSE IF a = Entry - 2 THEN RegNumber["L"]
                  ELSE IF a = Entry - 3 THEN RegNumber["D"] ELSE IF a = Entry - 4 THEN RegNumber["E"]
                  ELSE Memory(fn)[a]]

LEMMA SavingPrologue ==
  ASSUME NEW fn \in Functions, SavesArgs(fn)
  PROVE  Hoare(fn, Start(fn), Prologue(fn), BodyStart(fn))
<1>. DEFINE e == ~fn.isr
            n == FrameSize(fn)
            s == Entry - 4
            X0 == Outside(fn)
            X1 == X0 \cup {Entry - 1, Entry - 2}
            X2 == X1 \cup {Entry - 3, Entry - 4}
            h == SavedArgs(fn)
            R == RegNumber
            K0 == Known(Entry, Regs, R, X0, h, e)
            K1 == Known(Entry - 2, Regs, R, X1, h, e)
            K2 == Known(s, Regs, R, X2, h, e)
            K3 == Known(Bottom(fn), {"A", "B", "C"}, R, X2, h, e)
            K4 == Known(Bottom(fn), Regs, R, X2, h, e)
            a == Push("HL")
            b == Push("DE")
            u == AdjustSP(fn, n, LiveIn(fn), TRUE)
            w == ReloadArgs(n)
<1>1. ~fn.fp /\ FunctionType(fn) /\ e \in BOOLEAN
  BY Layout DEF FunctionType
<1>2. /\ n \in Nat /\ StackSize(fn) = n + 4 /\ Bottom(fn) \in Nat /\ Bottom(fn) \in Addr /\ Bottom(fn) + n = s
      /\ Entry \in Nat /\ Bottom(fn) > 4
  <2>1. ArgSave(fn) = 4
    BY DEF ArgSave
  <2>2. n \in Nat /\ StackSize(fn) = n + 4
    BY <1>1, <2>1, FrameFacts
  <2>3. Entry \in Nat /\ Dst \in Nat
    BY AddrFacts
  <2>4. /\ Bottom(fn) \in Nat /\ Bottom(fn) \in Addr /\ Bottom(fn) + StackSize(fn) = Entry
        /\ fn.copy \in Nat /\ Dst + fn.copy + StackSize(fn) + 4 < Entry
    BY <1>1, Layout
  <2>. DEFINE z == StackSize(fn)
              q == fn.copy
              k == Bottom(fn)
  <2>. HIDE DEF n, z, q, k
  <2>5. k + n = Entry - 4 /\ k > 4
    BY <2>2, <2>3, <2>4 DEF z, q, k
  <2>. QED
    BY <2>2, <2>3, <2>4, <2>5 DEF z, k
<1>3. \A t \in X0 : t \in Nat /\ (t >= Entry \/ t + 4 < Bottom(fn))
  BY <1>1, OutsideFar
<1>. HIDE DEF n, e
<1>4. /\ Entry - 1 \in Addr /\ Entry - 2 \in Addr /\ Entry - 3 \in Addr /\ Entry - 4 \in Addr /\ X0 \subseteq Addr
      /\ Entry \in Addr /\ Entry >= 8
  <2>1. Entry >= 8
    BY <1>2
  <2>2. Entry - 1 \in 0..Entry /\ Entry - 2 \in 0..Entry /\ Entry - 3 \in 0..Entry /\ Entry - 4 \in 0..Entry
    BY <1>2, <2>1
  <2>. QED
    BY <2>1, <2>2, AddrFacts, OutsideFacts
<1>5. \A t \in X0 : t # Entry - 1 /\ t # Entry - 2 /\ t # Entry - 3 /\ t # Entry - 4
  BY <1>2, <1>3
<1>6. /\ h[Entry - 1] = R["H"] /\ h[Entry - 2] = R["L"] /\ h[Entry - 3] = R["D"] /\ h[Entry - 4] = R["E"]
      /\ \A t \in X0 : h[t] = Memory(fn)[t]
  <2>1. /\ Entry - 1 # Entry - 2 /\ Entry - 1 # Entry - 3 /\ Entry - 1 # Entry - 4
        /\ Entry - 2 # Entry - 3 /\ Entry - 2 # Entry - 4 /\ Entry - 3 # Entry - 4
    BY <1>2
  <2>2. \A t \in X0 : h[t] = Memory(fn)[t]
    BY <1>4, <1>5 DEF SavedArgs
  <2>. QED
    BY <1>4, <2>1, <2>2 DEF SavedArgs
<1>. HIDE DEF h, X0, R
<1>7. /\ {"A", "B", "C", "D", "E", "H", "L"} = Regs /\ Regs \subseteq AllRegs /\ {"HL", "DE"} \subseteq Pairs \cup {"PSW"}
      /\ Hi["HL"] = "H" /\ Lo["HL"] = "L" /\ Hi["DE"] = "D" /\ Lo["DE"] = "E"
  BY PairFacts DEF Regs, Pairs, AllRegs
<1>8. Safe(Entry, X0, e) /\ Safe(Entry - 2, X1, e) /\ Safe(s, X2, e)
  <2>1. /\ Entry >= 2 /\ Entry - 2 >= 2 /\ s >= 2 /\ (Entry - 2) - 1 = Entry - 3 /\ (Entry - 2) - 2 = Entry - 4
        /\ s - 1 = Entry - 5 /\ s - 2 = Entry - 6
    BY <1>2, <1>4
  <2>2. Entry - 1 \notin X0 /\ Entry - 2 \notin X0 /\ Entry - 3 \notin X0 /\ Entry - 4 \notin X0
    BY <1>5
  <2>3. /\ Entry - 3 \notin {Entry - 1, Entry - 2} /\ Entry - 4 \notin {Entry - 1, Entry - 2}
        /\ Entry - 5 \notin {Entry - 1, Entry - 2, Entry - 3, Entry - 4}
        /\ Entry - 6 \notin {Entry - 1, Entry - 2, Entry - 3, Entry - 4}
    BY <1>2
  <2>4. \A t \in X0 : t # Entry - 5 /\ t # Entry - 6
    <3>1. ASSUME NEW t \in X0 PROVE t # Entry - 5 /\ t # Entry - 6
      <4>1. t \in Nat /\ (t >= Entry \/ t + 4 < Bottom(fn))
        BY <1>3
      <4>. QED
        BY <1>2, <4>1
    <3>. QED
      BY <3>1
  <2>. QED
    BY <1>4, <2>1, <2>2, <2>3, <2>4 DEF Safe
<1>9. Start(fn) \subseteq K0
  <2>1. From(Outside(fn), Memory(fn), X0, h, {})
    BY <1>6 DEF From, X0
  <2>2. From(Regs, R, Regs, R, {})
    BY FromSame
  <2>. QED
    BY <2>1, <2>2, KnownLess DEF Start, R, e
<1>10. Hoare(fn, K0, <<a>>, K1)
  <2>1. From(X0, h, X1, h, {Entry - 2, Entry - 1})
    BY DEF From
  <2>2. X1 \subseteq Addr
    BY <1>4
  <2>. DEFINE k == Entry
  <2>3. From(X0, h, X1, h, {k - 2, k - 1})
    BY <2>1
  <2>4. k >= 2 /\ X0 \subseteq Addr
    BY <1>2, <1>4
  <2>5. Safe(k, X0, e) /\ Safe(k - 2, X1, e)
    BY <1>8
  <2>6. h[k - 1] = R["H"] /\ h[k - 2] = R["L"]
    BY <1>6
  <2>7. K0 = Known(k, Regs, R, X0, h, e) /\ K1 = Known(k - 2, Regs, R, X1, h, e)
    OBVIOUS
  <2>. HIDE DEF X1, K0, K1, k
  <2>8. Hoare(fn, Known(k, Regs, R, X0, h, e), <<Push("HL")>>, Known(k - 2, Regs, R, X1, h, e))
    BY <1>7, <2>2, <2>3, <2>4, <2>5, <2>6, PushStep
  <2>. QED
    BY <2>7, <2>8
<1>11. Hoare(fn, K1, <<b>>, K2)
  <2>. DEFINE k == Entry - 2
  <2>1. k >= 2 /\ k - 2 = Entry - 4 /\ k - 1 = Entry - 3
    BY <1>2, <1>4
  <2>2. From(X1, h, X2, h, {k - 2, k - 1})
    BY <2>1 DEF From
  <2>3. X1 \subseteq Addr /\ X2 \subseteq Addr
    BY <1>4
  <2>4. Safe(k, X1, e) /\ Safe(k - 2, X2, e) /\ K1 = Known(k, Regs, R, X1, h, e) /\ K2 = Known(k - 2, Regs, R, X2, h, e)
    BY <1>8, <2>1
  <2>5. h[k - 1] = R["D"] /\ h[k - 2] = R["E"]
    BY <1>6, <2>1
  <2>. HIDE DEF X1, X2, K1, K2, k
  <2>6. Hoare(fn, Known(k, Regs, R, X1, h, e), <<Push("DE")>>, Known(k - 2, Regs, R, X2, h, e))
    BY <1>7, <2>1, <2>2, <2>3, <2>4, <2>5, PushStep
  <2>. QED
    BY <2>4, <2>6
<1>12. \A t \in X2 : t \in Nat /\ (t >= s \/ t + 4 < Bottom(fn))
  <2>1. ASSUME NEW t \in X0 PROVE t \in Nat /\ (t >= s \/ t + 4 < Bottom(fn))
    BY <1>2, <1>3
  <2>2. ASSUME NEW t \in {Entry - 1, Entry - 2, Entry - 3, Entry - 4} PROVE t \in Nat /\ t >= s
    BY <1>2, <1>4
  <2>. QED
    BY <2>1, <2>2
<1>13. X2 \subseteq Addr
  BY <1>4
<1>. HIDE DEF X2, X1, s
<1>14. Hoare(fn, K2, u, K3)
  <2>1. s \in Addr /\ s \in Nat /\ n + 2 <= s /\ s - n = Bottom(fn)
    <3>1. s \in Addr /\ s \in Nat
      BY <1>4, ByteFacts DEF s
    <3>. QED
      BY <1>2, <3>1
  <2>2. \A t \in X2 : t < s - n - 2 \/ t >= s
    <3>1. ASSUME NEW t \in X2 PROVE t < s - n - 2 \/ t >= s
      <4>1. t \in Nat /\ (t >= s \/ t + 4 < Bottom(fn))
        BY <1>12
      <4>. QED
        BY <1>2, <2>1, <4>1
    <3>. QED
      BY <3>1
  <2>. DEFINE Q == {"A", "B", "C"}
  <2>3. Q \subseteq Regs /\ Q \cap {"H", "L", "F"} = {}
    BY <1>7
  <2>. HIDE DEF Q
  <2>4. Hoare(fn, Known(s, Regs, R, X2, h, e), AdjustSP(fn, n, LiveIn(fn), TRUE), Known(s - n, Q, R, X2, h, e))
    BY <1>1, <1>2, <1>7, <1>13, <2>1, <2>2, <2>3, AdjustDown
  <2>. QED
    BY <2>1, <2>4 DEF Q
<1>15. Hoare(fn, K3, w, K4)
  <2>1. /\ s + 3 = Entry - 1 /\ s + 2 = Entry - 2 /\ s + 1 = Entry - 3 /\ s \in Addr /\ s = Entry - 4 /\ Bottom(fn) >= 4
    BY <1>2, <1>4 DEF s
  <2>2. {s, s + 1, s + 2, s + 3} \subseteq X2
    BY <2>1 DEF X1, X2
  <2>3. \A t \in X2 : t < Bottom(fn) - 4 \/ t >= Bottom(fn)
    <3>1. ASSUME NEW t \in X2 PROVE t < Bottom(fn) - 4 \/ t >= Bottom(fn)
      <4>1. t \in Nat /\ (t >= s \/ t + 4 < Bottom(fn)) /\ s \in Nat
        BY <1>12, <2>1, ByteFacts
      <4>. QED
        BY <1>2, <4>1
    <3>. QED
      BY <3>1
  <2>4. h[s] = RegNumber["E"] /\ h[s + 1] = RegNumber["D"] /\ h[s + 2] = RegNumber["L"] /\ h[s + 3] = RegNumber["H"]
    BY <1>6, <2>1 DEF R
  <2>5. s + 3 \in Addr
    BY <1>4, <2>1
  <2>. QED
    BY <1>2, <1>13, <2>1, <2>2, <2>3, <2>4, <2>5, ReloadArgsRight DEF R
<1>16. K4 \subseteq BodyStart(fn)
  <2>1. LiveIn(fn) \cup FPRegs(fn) \subseteq Regs /\ FrameRegs(fn) = [r \in AllRegs |-> R[r]] /\ Saved(fn) = {}
    <3>1. LiveIn(fn) \subseteq Regs /\ FPRegs(fn) = {} /\ Saved(fn) = {}
      BY <1>1, LiveInRegs DEF FPRegs, Saved
    <3>. QED
      BY <1>1, <3>1 DEF FrameRegs, R
  <2>2. From(Regs, R, LiveIn(fn) \cup FPRegs(fn), FrameRegs(fn), {})
    BY <1>7, <2>1 DEF From
  <2>3. From(X2, h, Outside(fn) \cup Saved(fn), Memory(fn), {})
    BY <1>6, <2>1 DEF From, X2, X1, X0
  <2>. QED
    BY <2>2, <2>3, KnownLess DEF BodyStart, e
<1>. HIDE DEF K0, K1, K2, K3, K4
<1>17. Prologue(fn) = <<a, b>> \o <<>> \o u \o w
  BY <1>1 DEF Prologue, n
<1>. HIDE DEF a, b, u, w
<1>18. IsCode(<<a, b>>) /\ IsCode(u) /\ IsCode(w) /\ <<a, b>> \o <<>> = <<a, b>>
  <2>1. IsCode(u) /\ IsCode(w)
    BY <1>2, AdjustCode, MoveCode DEF u, w
  <2>2. <<a, b>> \o <<>> = <<a, b>>
    OBVIOUS
  <2>. QED
    BY <2>1, <2>2, TwoCode
<1>19. Hoare(fn, K0, <<a, b>>, K2)
  BY <1>10, <1>11, Hoare2
<1>20. Hoare(fn, K0, <<a, b>> \o u, K3) /\ IsCode(<<a, b>> \o u)
  BY <1>14, <1>18, <1>19, JoinCode
<1>. DEFINE x == <<a, b>> \o u
<1>. HIDE DEF x
<1>21. Hoare(fn, K0, x \o w, K4)
  BY <1>15, <1>18, <1>20, JoinCode DEF x
<1>22. Prologue(fn) = x \o w
  BY <1>17, <1>18 DEF x
<1>. QED
  BY <1>9, <1>16, <1>21, <1>22, HoareWeaker
(* The prologue that leaves the arguments in their registers.               *)
LEMMA ShortPrologue ==
  ASSUME NEW fn \in Functions, ~SavesArgs(fn)
  PROVE  Hoare(fn, Start(fn), Prologue(fn), BodyStart(fn))
<1>. DEFINE e == ~fn.isr
            n == FrameSize(fn)
            live == LiveIn(fn)
            clobbers == ClobbersHL(fn, n, live)
            save == live \cap {"H", "L"} # {} /\ (fn.fp \/ clobbers)
            s == Base(fn)
            X0 == Outside(fn)
            X1 == X0 \cup Saved(fn)
            h == Memory(fn)
            R == RegNumber
            g1 == [r \in AllRegs |-> IF save /\ r = "D" THEN R["H"] ELSE IF save /\ r = "E" THEN R["L"] ELSE R[r]]
            g2 == [r \in AllRegs |-> IF fn.fp /\ r = "B" THEN (Entry - 2) \div ByteSize
                                     ELSE IF fn.fp /\ r = "C" THEN (Entry - 2) % ByteSize ELSE g1[r]]
            Q2 == IF fn.fp THEN Regs \ {"H", "L"} ELSE Regs
            Q3 == IF fn.fp \/ clobbers THEN Regs \ {"H", "L"} ELSE Regs
            K0 == Known(Entry, Regs, R, X0, h, e)
            K1 == Known(Entry, Regs, g1, X0, h, e)
            K2 == Known(s, Q2, g2, X1, h, e)
            K3 == Known(Bottom(fn), Q3, g2, X1, h, e)
            K4 == BodyStart(fn)
            a == IF save THEN HLToDE ELSE <<>>
            b == IF fn.fp THEN SetFP ELSE <<>>
            c == AdjustSP(fn, n, live, TRUE)
            d == IF save THEN DEToHL ELSE <<>>
<1>1. FunctionType(fn) /\ e \in BOOLEAN /\ fn.fp \in BOOLEAN
  BY Layout DEF FunctionType
<1>2. /\ n \in Nat /\ StackSize(fn) = n /\ Bottom(fn) \in Nat /\ Bottom(fn) \in Addr /\ Bottom(fn) + n = s
      /\ s \in Nat /\ s \in Addr /\ Entry \in Nat /\ Entry \in Addr /\ Bottom(fn) > 2 /\ s = (IF fn.fp THEN Entry - 2 ELSE Entry)
  <2>1. ArgSave(fn) = 0
    BY DEF ArgSave
  <2>2. n \in Nat /\ StackSize(fn) = n
    BY <1>1, <2>1, FrameFacts
  <2>3. Entry \in Nat /\ Dst \in Nat /\ Entry \in Addr
    BY AddrFacts
  <2>4. /\ Bottom(fn) \in Nat /\ Bottom(fn) \in Addr /\ Bottom(fn) + StackSize(fn) = s /\ s \in Nat /\ s \in Addr
        /\ fn.copy \in Nat /\ Dst + fn.copy + 2 < Bottom(fn) /\ s = (IF fn.fp THEN Entry - 2 ELSE Entry)
    BY Layout
  <2>. DEFINE q == fn.copy
              k == Bottom(fn)
  <2>. HIDE DEF n, q, k, s
  <2>5. k > 2
    BY <2>3, <2>4 DEF q, k
  <2>. QED
    BY <2>2, <2>3, <2>4, <2>5 DEF k
<1>. HIDE DEF n, e, s
<1>3. \A t \in X0 : t \in Nat /\ (t >= Entry \/ t + 2 < Bottom(fn))
  BY OutsideFacts, ByteFacts
<1>4. \A t \in Saved(fn) : t \in Nat /\ fn.fp /\ t >= s /\ t < Entry
  BY OutsideFacts, ByteFacts DEF s
<1>5. X0 \subseteq Addr /\ X1 \subseteq Addr
  BY OutsideFacts
<1>6. /\ {"A", "B", "C", "D", "E", "H", "L"} = Regs /\ Regs \subseteq AllRegs /\ "F" \notin Regs /\ live \subseteq Regs
      /\ AllRegs = Regs \cup {"F"}
  BY <1>1, LiveInRegs DEF Regs, AllRegs
<1>7. save => live \cap {"D", "E"} = {}
  <2>1. ASSUME save PROVE live \cap {"D", "E"} = {}
    <3>1. fn.fp \/ n > 0
      BY <2>1 DEF ClobbersHL
    <3>2. ~Occupied(fn)
      BY <3>1 DEF SavesArgs, n
    <3>. QED
      BY <2>1, <3>2 DEF Occupied
  <2>. QED
    BY <2>1
<1>8. Start(fn) = K0
  BY DEF Start, e
<1>. HIDE DEF clobbers, live, X0, h, R
<1>9. /\ g1["H"] = R["H"] /\ g1["L"] = R["L"] /\ g1["B"] = R["B"] /\ g1["C"] = R["C"]
      /\ save => g1["D"] = R["H"] /\ g1["E"] = R["L"]
      /\ \A r \in AllRegs \ {"D", "E"} : g1[r] = R[r]
      /\ ~save => \A r \in AllRegs : g1[r] = R[r]
  BY <1>6
<1>10. /\ \A r \in AllRegs \ {"B", "C"} : g2[r] = g1[r]
       /\ fn.fp => g2["B"] = (Entry - 2) \div ByteSize /\ g2["C"] = (Entry - 2) % ByteSize
       /\ ~fn.fp => \A r \in AllRegs : g2[r] = g1[r]
  <2>. HIDE DEF g1
  <2>. QED
    BY <1>6
<1>. HIDE DEF g1, g2
<1>11. Safe(Entry, X0, e) /\ Safe(s, X1, e) /\ Safe(Bottom(fn), X1, e) /\ Entry >= 2
  <2>. DEFINE k == Bottom(fn)
  <2>1. k \in Nat /\ k > 2 /\ k <= s /\ s <= Entry
    BY <1>2
  <2>2. \A t \in X1 : t \in Nat /\ (t >= s \/ t + 2 < k)
    <3>1. ASSUME NEW t \in X0 PROVE t \in Nat /\ (t >= s \/ t + 2 < k)
      BY <1>2, <1>3, <2>1
    <3>. QED
      BY <1>4, <3>1
  <2>3. /\ Entry - 1 \notin X0 /\ Entry - 2 \notin X0 /\ Entry >= 2
    <3>1. ASSUME NEW t \in X0 PROVE t # Entry - 1 /\ t # Entry - 2
      BY <1>2, <1>3, <2>1
    <3>2. Entry >= 2
      BY <1>2, <2>1
    <3>. QED
      BY <3>1, <3>2
  <2>. HIDE DEF k, X1
  <2>4. ASSUME NEW t \in X1 PROVE t # s - 1 /\ t # s - 2 /\ t # k - 1 /\ t # k - 2
    BY <1>2, <2>1, <2>2
  <2>5. s >= 2 /\ Bottom(fn) >= 2 /\ Entry >= 2
    BY <1>2, <2>1, <2>3 DEF k
  <2>. QED
    BY <1>2, <2>3, <2>4, <2>5 DEF Safe, k
<1>12. Hoare(fn, K0, a, K1) /\ IsCode(a)
  <2>1. CASE save
    <3>1. From(Regs, R, Regs, g1, {"D", "E"}) /\ {"H", "L"} \subseteq Regs
      BY <1>6, <1>9 DEF From
    <3>2. a = HLToDE
      BY <2>1
    <3>. HIDE DEF a, save
    <3>. QED
      BY <1>5, <1>6, <1>9, <1>11, <2>1, <3>1, <3>2, SaveHL, MoveCode
  <2>2. CASE ~save
    <3>1. From(Regs, R, Regs, g1, {}) /\ From(X0, h, X0, h, {})
      BY <1>6, <1>9, <2>2 DEF From
    <3>2. K0 \subseteq K1 /\ K0 \subseteq Config /\ Stable(K0)
      BY <1>5, <1>11, <3>1, KnownLess, KnownStable
    <3>3. a = <<>>
      BY <2>2
    <3>. QED
      BY <3>2, <3>3, HoareSkip, EmptyCode
  <2>. QED
    BY <2>1, <2>2
<1>. HIDE DEF a, save
<1>13. Hoare(fn, K1, b, K2) /\ IsCode(b)
  <2>1. CASE fn.fp
    <3>1. s = Entry - 2 /\ Q2 = Regs \ {"H", "L"} /\ Saved(fn) = {Entry - 2, Entry - 1}
      BY <1>2, <2>1 DEF Saved
    <3>2. h[Entry - 1] = g1["B"] /\ h[Entry - 2] = g1["C"]
      BY <1>9, <2>1, MemoryFacts DEF h, R
    <3>3. X1 = X0 \cup {Entry - 2, Entry - 1}
      BY <3>1
    <3>4. /\ Entry >= 2 /\ "B" \in Regs /\ "C" \in Regs /\ Q2 \subseteq Regs \ {"H", "L", "F"}
          /\ \A r \in Q2 \ {"B", "C"} : g2[r] = g1[r]
      BY <1>2, <1>6, <1>10, <1>11, <3>1
    <3>5. b = SetFP /\ K2 = Known(Entry - 2, Q2, g2, X1, h, e) /\ Safe(Entry - 2, X1, e)
      BY <1>11, <2>1, <3>1
    <3>. HIDE DEF b, K2, Q2, X1
    <3>6. Hoare(fn, Known(Entry, Regs, g1, X0, h, e), SetFP, Known(Entry - 2, Q2, g2, X1, h, e))
      BY <1>2, <1>5, <1>6, <1>10, <1>11, <2>1, <3>2, <3>3, <3>4, <3>5, SetFPRight
    <3>. QED
      BY <3>5, <3>6, MoveCode
  <2>2. CASE ~fn.fp
    <3>1. s = Entry /\ Q2 = Regs /\ Saved(fn) = {}
      BY <1>2, <2>2 DEF Saved
    <3>2. From(Regs, g1, Q2, g2, {}) /\ From(X0, h, X1, h, {})
      BY <1>6, <1>10, <2>2, <3>1 DEF From
    <3>3. K1 \subseteq K2 /\ K1 \subseteq Config /\ Stable(K1)
      BY <1>5, <1>11, <3>1, <3>2, KnownLess, KnownStable
    <3>4. b = <<>>
      BY <2>2
    <3>. QED
      BY <3>3, <3>4, HoareSkip, EmptyCode
  <2>. QED
    BY <2>1, <2>2
<1>14. Hoare(fn, K2, c, K3) /\ IsCode(c)
  <2>1. n + 2 <= s /\ s - n = Bottom(fn)
    BY <1>2
  <2>2. \A t \in X1 : t < s - n - 2 \/ t >= s
    <3>1. ASSUME NEW t \in X0 PROVE t < s - n - 2 \/ t >= s
      <4>1. t \in Nat /\ (t >= Entry \/ t + 2 < Bottom(fn))
        BY <1>3
      <4>. QED
        BY <1>2, <2>1, <4>1
    <3>. QED
      BY <1>4, <3>1
  <2>3. Q2 \subseteq AllRegs /\ Q3 \subseteq Q2 /\ (clobbers => Q3 \cap {"H", "L", "F"} = {})
    BY <1>6
  <2>4. K3 = Known(s - n, Q3, g2, X1, h, e)
    BY <2>1
  <2>. HIDE DEF K3, Q2, Q3, X1
  <2>5. Hoare(fn, K2, AdjustSP(fn, n, live, TRUE), Known(s - n, Q3, g2, X1, h, e))
    BY <1>1, <1>2, <1>5, <2>1, <2>2, <2>3, AdjustDown DEF clobbers
  <2>. QED
    BY <1>2, <2>4, <2>5, AdjustCode
<1>15. From(X1, h, Outside(fn) \cup Saved(fn), Memory(fn), {}) /\ K4 = Known(Bottom(fn), live \cup FPRegs(fn), FrameRegs(fn), X1, h, e)
  BY DEF From, X0, h, BodyStart, e, live
<1>16. /\ live \cup FPRegs(fn) \subseteq Regs
       /\ \A r \in AllRegs \ {"B", "C"} : FrameRegs(fn)[r] = R[r]
       /\ \A r \in {"B", "C"} : FrameRegs(fn)[r] = g2[r]
  <2>1. FPRegs(fn) \subseteq Regs
    BY <1>6 DEF FPRegs
  <2>2. \A r \in AllRegs \ {"B", "C"} : FrameRegs(fn)[r] = R[r]
    BY DEF FrameRegs, R
  <2>3. CASE fn.fp
    <3>1. "B" \in AllRegs /\ "C" \in AllRegs /\ "B" # "C"
      BY <1>6
    <3>. QED
      BY <1>6, <1>10, <2>1, <2>2, <2>3, <3>1 DEF FrameRegs
  <2>4. CASE ~fn.fp
    <3>1. "B" \in AllRegs /\ "C" \in AllRegs
      BY <1>6
    <3>. QED
      BY <1>6, <1>9, <1>10, <2>1, <2>2, <2>4, <3>1 DEF FrameRegs, R
  <2>. QED
    BY <2>3, <2>4
<1>17. Hoare(fn, K3, d, K4) /\ IsCode(d)
  <2>. DEFINE Q4 == live \cup FPRegs(fn)
              g4 == FrameRegs(fn)
  <2>1. CASE save
    <3>1. From(Q3, g2, Q4, g4, {"H", "L"})
      <4>1. ASSUME NEW r \in Q4 \ {"H", "L"} PROVE r \in Q3 /\ g4[r] = g2[r]
        <5>1. r \in Regs /\ r \in Q3
          BY <1>16
        <5>2. CASE r \in {"B", "C"}
          BY <1>16, <5>1, <5>2
        <5>3. CASE r \notin {"B", "C"}
          <6>1. r \notin {"D", "E"}
            BY <1>7, <2>1, <5>3 DEF FPRegs
          <6>. QED
            BY <1>6, <1>9, <1>10, <1>16, <5>1, <5>3, <6>1
        <5>. QED
          BY <5>2, <5>3
      <4>. QED
        BY <4>1 DEF From
    <3>. DEFINE Q5 == Q4 \cup {"D", "E"}
                g5 == [r \in AllRegs |-> IF r = "D" THEN R["H"] ELSE IF r = "E" THEN R["L"] ELSE g4[r]]
    <3>2. g2["D"] = R["H"] /\ g2["E"] = R["L"] /\ g4["H"] = R["H"] /\ g4["L"] = R["L"]
      <4>1. g1["D"] = R["H"] /\ g1["E"] = R["L"]
        BY <1>9, <2>1
      <4>. QED
        BY <1>6, <1>10, <1>16, <4>1
    <3>3. {"D", "E"} \subseteq Q3 /\ Q5 \subseteq AllRegs /\ {"D", "E"} \subseteq Q5
      BY <1>6, <1>16
    <3>4. /\ g5["D"] = R["H"] /\ g5["E"] = R["L"] /\ g5["H"] = g5["D"] /\ g5["L"] = g5["E"]
          /\ \A r \in AllRegs \ {"D", "E"} : g5[r] = g4[r]
      <4>. HIDE DEF g4
      <4>. QED
        BY <1>6, <3>2
    <3>. HIDE DEF g5, g4, Q4, Q3
    <3>5. From(Q3, g2, Q5, g5, {"H", "L"})
      BY <1>6, <3>1, <3>2, <3>3, <3>4 DEF From
    <3>6. From(Q5, g5, Q4, g4, {})
      <4>1. ASSUME NEW r \in Q4 PROVE g4[r] = g5[r]
        <5>1. r \in AllRegs /\ r \notin {"D", "E"}
          BY <1>6, <1>7, <1>16, <2>1 DEF Q4, FPRegs
        <5>. QED
          BY <3>4, <5>1
      <4>. QED
        BY <4>1 DEF From
    <3>. DEFINE K5 == Known(Bottom(fn), Q5, g5, X1, h, e)
    <3>. HIDE DEF Q5
    <3>7. Hoare(fn, K3, DEToHL, K5)
      <4>1. g5["H"] = g2["D"] /\ g5["L"] = g2["E"]
        BY <3>2, <3>4
      <4>. QED
        BY <1>5, <1>11, <3>3, <3>5, <4>1, RestoreHL
    <3>8. K5 \subseteq K4
      <4>1. From(X1, h, X1, h, {})
        BY FromSame
      <4>. QED
        BY <1>15, <3>6, <4>1, KnownLess DEF Q4, g4
    <3>9. d = DEToHL
      BY <2>1
    <3>. HIDE DEF K3, K4, K5, d
    <3>10. Hoare(fn, K3, DEToHL, K4)
      BY <3>7, <3>8, HoareWeaker
    <3>. QED
      BY <3>9, <3>10, MoveCode
  <2>2. CASE ~save
    <3>1. From(Q3, g2, Q4, g4, {})
      <4>1. ASSUME NEW r \in Q4 PROVE r \in Q3 /\ g4[r] = g2[r]
        <5>1. r \in Regs /\ r \in Q3
          <6>1. r \in Regs
            BY <1>16
          <6>2. CASE fn.fp \/ clobbers
            <7>1. r \notin {"H", "L"}
              BY <2>2, <6>2 DEF save, FPRegs
            <7>. QED
              BY <6>1, <7>1
          <6>. QED
            BY <6>1, <6>2
        <5>2. CASE r \in {"B", "C"}
          BY <1>16, <5>1, <5>2
        <5>3. CASE r \notin {"B", "C"}
          BY <1>6, <1>9, <1>10, <1>16, <2>2, <5>1, <5>3
        <5>. QED
          BY <5>2, <5>3
      <4>. QED
        BY <4>1 DEF From
    <3>. HIDE DEF Q3
    <3>2. K3 \subseteq K4 /\ K3 \subseteq Config /\ Stable(K3)
      <4>1. From(X1, h, X1, h, {})
        BY FromSame
      <4>. QED
        BY <1>5, <1>11, <1>15, <3>1, <4>1, KnownLess, KnownStable
    <3>3. d = <<>>
      BY <2>2
    <3>. QED
      BY <3>2, <3>3, HoareSkip, EmptyCode
  <2>. QED
    BY <2>1, <2>2
<1>. HIDE DEF K0, K1, K2, K3, K4, b, c, d
<1>18. Prologue(fn) = a \o b \o c \o d
  BY DEF Prologue, a, b, c, d, save, clobbers, n, live
<1>19. Hoare(fn, K0, a \o b, K2) /\ IsCode(a \o b)
  BY <1>12, <1>13, JoinCode
<1>20. Hoare(fn, K0, (a \o b) \o c, K3) /\ IsCode((a \o b) \o c)
  BY <1>14, <1>19, JoinCode
<1>21. Hoare(fn, K0, ((a \o b) \o c) \o d, K4)
  BY <1>17, <1>20, JoinCode
<1>. QED
  BY <1>8, <1>18, <1>21 DEF K4

LEMMA PrologueRight ==
  ASSUME NEW fn \in Functions
  PROVE  Hoare(fn, Start(fn), Prologue(fn), BodyStart(fn))
BY SavingPrologue, ShortPrologue
-----------------------------------------------------------------------------
(* The body: what it keeps in BC, and the memory known when j bytes have    *)
(* been copied.                                                             *)
KeptRegs(fn) == [r \in AllRegs |-> IF r \in FPRegs(fn) THEN FrameRegs(fn)[r] ELSE BodyValue[r]]
Filled(fn) == Outside(fn) \cup Saved(fn) \cup Locals(fn)
CopiedTo(fn, j) == Filled(fn) \cup (Dst..(Dst + j - 1))
InBody(fn, X, e) == Known(Bottom(fn), {"B", "C"}, KeptRegs(fn), X, Memory(fn), e)

LEMMA WholeFacts ==
  ASSUME NEW fn \in Functions
  PROVE  LET W == CopiedTo(fn, fn.copy) IN
         /\ Bottom(fn) \in Nat /\ Bottom(fn) > 2 /\ fn.out \in Nat /\ fn.copy \in Nat
         /\ W \subseteq Addr /\ W = Filled(fn) \cup Copied(fn)
         /\ \A a \in W : a \in Nat /\ (a >= Bottom(fn) + fn.out \/ a + 2 < Bottom(fn))
         /\ \A X \in SUBSET W, e \in BOOLEAN : Safe(Bottom(fn), X, e) /\ X \subseteq Addr
<1>. DEFINE W == CopiedTo(fn, fn.copy)
            k == Bottom(fn)
            o == fn.out
            c == fn.copy
            t == Base(fn)
            l == fn.locals
<1>1. /\ k \in Nat /\ k \in Addr /\ o \in Nat /\ c \in Nat /\ t \in Nat /\ l \in Nat /\ Dst + c + 2 < k /\ k + o <= t - l
      /\ t <= Entry /\ Entry \in Nat /\ Dst \in Nat
  <2>1. /\ k \in Nat /\ k \in Addr /\ o \in Nat /\ c \in Nat /\ t \in Nat /\ l \in Nat /\ Dst + c + 2 < k
        /\ k + o <= t - l /\ t = (IF fn.fp THEN Entry - 2 ELSE Entry)
    BY Layout, FrameFacts
  <2>2. Entry \in Nat /\ Dst \in Nat
    BY AddrFacts
  <2>. QED
    BY <2>1, <2>2
<1>2. W = Filled(fn) \cup Copied(fn)
  BY DEF CopiedTo, Copied
<1>3. W \subseteq Addr /\ \A a \in W : a \in Nat
  BY <1>2, OutsideFacts, ByteFacts DEF Filled
<1>4. ASSUME NEW a \in W PROVE a >= k + o \/ a + 2 < k
  <2>1. a \in Nat
    BY <1>3
  <2>2. CASE a \in Outside(fn)
    <3>1. a >= Entry \/ a + 2 < k
      BY <2>2, OutsideFacts
    <3>. HIDE DEF k, o, c, t, l
    <3>. QED
      BY <1>1, <2>1, <3>1
  <2>3. CASE a \in Saved(fn)
    <3>1. a >= t
      BY <2>3, OutsideFacts
    <3>. HIDE DEF k, o, c, t, l
    <3>. QED
      BY <1>1, <2>1, <3>1
  <2>4. CASE a \in Locals(fn)
    BY <2>4, OutsideFacts
  <2>5. CASE a \in Copied(fn)
    BY <2>5, OutsideFacts
  <2>. QED
    BY <1>2, <2>2, <2>3, <2>4, <2>5 DEF Filled
<1>. HIDE DEF W, k, o, c
<1>5. k > 2
  BY <1>1
<1>6. ASSUME NEW X \in SUBSET W, NEW e \in BOOLEAN PROVE Safe(k, X, e) /\ X \subseteq Addr
  <2>1. ASSUME NEW a \in W PROVE a # k - 1 /\ a # k - 2
    BY <1>1, <1>3, <1>4
  <2>2. k - 1 \notin X /\ k - 2 \notin X /\ k >= 2
    BY <1>1, <1>5, <2>1
  <2>. QED
    BY <1>1, <1>3, <2>2 DEF Safe
<1>. QED
  BY <1>1, <1>2, <1>3, <1>4, <1>5, <1>6 DEF W, k, o, c

(* The locals are found at the bottom of the stack.                         *)
LEMMA LocalsFound ==
  ASSUME NEW fn \in Functions, NEW x \in Machine, NEW Q, NEW g, NEW X, Locals(fn) \subseteq X,
         Fits(x, Bottom(fn), Q, g, X, Memory(fn))
  PROVE  LocalsHold(fn, x)
<1>1. ASSUME NEW k \in 0..fn.locals - 1 PROVE x.mem[LocalAddr(fn, x, k)] = LocalMark(k)
  <2>. DEFINE v == Base(fn) - fn.locals + k
  <2>1. LocalAddr(fn, x, k) = v /\ v \in Addr
    <3>1. /\ FunctionType(fn) /\ Bottom(fn) \in Addr /\ Bottom(fn) + StackSize(fn) = Base(fn) /\ Base(fn) \in Addr
          /\ x.sp = Bottom(fn)
      BY Layout DEF Fits
    <3>. QED
      BY <3>1, LocalAddress
  <2>2. v \in Locals(fn)
    <3>. DEFINE l == fn.locals
                t == Base(fn)
    <3>1. l \in Nat /\ t \in Nat
      BY Layout, FrameFacts
    <3>2. Locals(fn) = (t - l)..(t - 1) /\ v = t - l + k /\ k \in 0..l - 1
      BY DEF Locals
    <3>. HIDE DEF l, t, v
    <3>. QED
      BY <3>1, <3>2
  <2>3. Memory(fn)[v] = LocalMark(k)
    BY MemoryFacts
  <2>. HIDE DEF v
  <2>4. x.mem[v] = Memory(fn)[v]
    BY <2>2 DEF Fits
  <2>. QED
    BY <2>1, <2>3, <2>4
<1>. QED
  BY <1>1 DEF LocalsHold

(* The arguments are found when the body starts.                            *)
LEMMA ArgsFound ==
  ASSUME NEW fn \in Functions, NEW x \in Machine,
         Fits(x, Bottom(fn), LiveIn(fn) \cup FPRegs(fn), FrameRegs(fn), Outside(fn) \cup Saved(fn), Memory(fn))
  PROVE  ArgsHold(fn, x)
<1>. DEFINE w(i) == Where(fn.args)[i]
<1>1. FunctionType(fn) /\ (fn.fp => ~FPTrouble(fn))
  BY FunctionsAssumption
<1>2. ASSUME NEW i \in fn.used, w(i).reg # "", NEW r \in Parts(w(i).reg)
      PROVE  x.reg[r] = RegNumber[r]
  <2>. DEFINE q == w(i).reg
  <2>1. r \in LiveIn(fn)
    <3>1. i \in {j \in fn.used : Where(fn.args)[j].reg # ""}
      BY <1>2
    <3>. QED
      BY <3>1 DEF LiveIn
  <2>2. r \in AllRegs
    BY <1>1, <2>1, LiveInRegs DEF AllRegs
  <2>3. x.reg[r] = FrameRegs(fn)[r]
    BY <2>1 DEF Fits
  <2>4. fn.fp => r \notin {"B", "C"}
    <3>1. ASSUME fn.fp PROVE r \notin {"B", "C"}
      <4>1. q \notin {"", "B", "C", "BC"}
        BY <1>1, <3>1 DEF FPTrouble
      <4>2. q \in Regs \cup Pairs
        BY <1>1, <4>1 DEF FunctionType
      <4>3. r \in Parts(q)
        OBVIOUS
      <4>. HIDE DEF q
      <4>4. CASE q = "DE"
        <5>1. Parts(q) = {"D", "E"}
          BY <4>4, PairFacts DEF Parts
        <5>. QED
          BY <4>3, <5>1
      <4>5. CASE q = "HL"
        <5>1. Parts(q) = {"H", "L"}
          BY <4>5, PairFacts DEF Parts
        <5>. QED
          BY <4>3, <5>1
      <4>6. CASE q \in Regs
        <5>1. q \notin Pairs
          BY <4>6 DEF Regs, Pairs
        <5>2. r = q
          BY <4>3, <5>1 DEF Parts
        <5>. QED
          BY <4>1, <5>2
      <4>. QED
        BY <4>1, <4>2, <4>4, <4>5, <4>6 DEF Pairs
    <3>. QED
      BY <3>1
  <2>. QED
    BY <2>2, <2>3, <2>4 DEF FrameRegs
<1>3. ASSUME NEW i \in fn.used, w(i).reg = ""
      PROVE  LET v == Entry + 2 + w(i).at IN StackArgAddr(fn, x, i) = v /\ x.mem[StackArgAddr(fn, x, i)] = MemAtStart[v]
  <2>. DEFINE d == w(i).at
              v == Entry + 2 + d
              z == StackSize(fn)
              k == Bottom(fn)
  <2>1. ~fn.fp
    BY <1>1, <1>3 DEF FPTrouble
  <2>2. d \in Nat /\ v \in Addr
    BY <1>1 DEF FunctionType
  <2>3. z \in Nat /\ k \in Nat /\ k + z = Entry /\ Entry \in Nat
    BY <2>1, Layout, FrameFacts, AddrFacts
  <2>4. x.sp = k
    BY DEF Fits
  <2>5. StackArgAddr(fn, x, i) = Wrap(k + ((2 + d) + z))
    BY <2>4 DEF StackArgAddr, SpOffset
  <2>. HIDE DEF d, z, k
  <2>6. k + ((2 + d) + z) = v /\ v >= Entry
    BY <2>2, <2>3
  <2>7. v \in Upper
    <3>. DEFINE b == ByteSize * ByteSize
    <3>1. v \in 0..(b - 1) /\ b \in Nat
      BY <2>2, AddrFacts
    <3>2. Upper = Entry..(b - 1)
      BY DEF Upper
    <3>. HIDE DEF b, v
    <3>. QED
      BY <2>3, <2>6, <3>1, <3>2
  <2>. HIDE DEF v
  <2>8. StackArgAddr(fn, x, i) = v
    BY <2>2, <2>5, <2>6, WrapFacts
  <2>9. v \in Outside(fn)
    BY <2>7 DEF Outside
  <2>10. x.mem[v] = Memory(fn)[v] /\ Memory(fn)[v] = MemAtStart[v]
    BY <2>9, MemoryFacts DEF Fits
  <2>. QED
    BY <2>8, <2>10 DEF v, d
<1>. QED
  BY <1>2, <1>3 DEF ArgsHold

(* The bytes copied are found, and what the body kept.                      *)
LEMMA CopyFound ==
  ASSUME NEW fn \in Functions, NEW x \in Machine,
         Fits(x, Bottom(fn), {"B", "C"}, KeptRegs(fn), CopiedTo(fn, fn.copy), Memory(fn))
  PROVE  CopyHolds(fn, x)
<1>. DEFINE c == fn.copy
            W == CopiedTo(fn, c)
<1>1. c \in Nat /\ Dst \in Nat /\ Src \in Nat /\ W = Filled(fn) \cup Copied(fn)
  BY WholeFacts, AddrFacts
<1>2. Copied(fn) = Dst..(Dst + c - 1)
  BY DEF Copied
<1>3. \A a \in W : x.mem[a] = Memory(fn)[a]
  BY DEF Fits
<1>4. ASSUME NEW n \in 0..(Dst + c), n \in Dst..(Dst + c - 1)
      PROVE  x.mem[n] = MemAtStart[Src + n - Dst]
  <2>. DEFINE k == n - Dst
  <2>1. n \in Copied(fn) /\ k \in 0..c - 1 /\ Dst + k = n /\ Src + n - Dst = Src + k
    <3>1. n \in Copied(fn)
      BY <1>2, <1>4
    <3>. HIDE DEF c
    <3>. QED
      BY <1>1, <1>4, <3>1
  <2>2. Memory(fn)[Dst + k] = MemAtStart[Src + k]
    <3>. HIDE DEF k
    <3>. QED
      BY <2>1, MemoryFacts
  <2>. HIDE DEF k
  <2>. QED
    BY <1>1, <1>3, <2>1, <2>2
<1>5. ASSUME NEW n \in 0..(Dst + c), n \notin Dst..(Dst + c - 1)
      PROVE  x.mem[n] = MemAtStart[n]
  <2>1. n \in Outside(fn)
    BY <1>2, <1>5 DEF Outside
  <2>2. n \in W
    BY <1>1, <2>1 DEF Filled
  <2>. QED
    BY <1>3, <2>1, <2>2, MemoryFacts
<1>6. ASSUME NEW r \in fn.keep PROVE x.reg[r] = BodyValue[r]
  <2>1. r \in {"B", "C"} \ FPRegs(fn)
    BY Layout DEF FunctionType
  <2>2. r \in AllRegs
    BY <2>1 DEF AllRegs, Regs
  <2>3. KeptRegs(fn)[r] = BodyValue[r]
    BY <2>1, <2>2 DEF KeptRegs
  <2>. QED
    BY <2>1, <2>3 DEF Fits
<1>. QED
  BY <1>4, <1>5, <1>6 DEF CopyHolds, c

(* "BODY" and "STORE".                                                      *)
LEMMA EnteredRight ==
  ASSUME NEW fn \in Functions
  PROVE  Hoare(fn, BodyStart(fn), Entered, InBody(fn, Filled(fn), ~fn.isr))
<1>. DEFINE e == ~fn.isr
            X0 == Outside(fn) \cup Saved(fn)
            X1 == Filled(fn)
            s == Bottom(fn)
            h == Memory(fn)
            a == Mark("BODY")
            b == Mark("STORE")
            K0 == BodyStart(fn)
            K1 == InBody(fn, X0, e)
            K2 == InBody(fn, X1, e)
<1>1. FunctionType(fn) /\ e \in BOOLEAN /\ fn.fp \in BOOLEAN
  BY Layout DEF FunctionType
<1>2. /\ X0 \subseteq X1 /\ Safe(s, X0, e) /\ X0 \subseteq Addr /\ Safe(s, X1, e) /\ X1 \subseteq Addr
  <2>1. X0 \subseteq X1 /\ X1 \subseteq CopiedTo(fn, fn.copy)
    BY DEF Filled, CopiedTo
  <2>. HIDE DEF X0, X1
  <2>. QED
    BY <1>1, <2>1, WholeFacts
<1>3. {"B", "C"} \subseteq AllRegs /\ FPRegs(fn) \subseteq {"B", "C"}
  BY DEF AllRegs, Regs, FPRegs
<1>4. Hoare(fn, K0, <<a>>, K1)
  <2>. DEFINE Q0 == LiveIn(fn) \cup FPRegs(fn)
              g0 == FrameRegs(fn)
              Q2 == {"B", "C"}
              g2 == KeptRegs(fn)
  <2>1. \A r \in Q2 : IF r \in FPRegs(fn) THEN r \in Q0 /\ g2[r] = g0[r] ELSE g2[r] = BodyValue[r]
    BY <1>3 DEF KeptRegs
  <2>2. \A x \in Machine : Fits(x, s, Q0, g0, X0, h) => ArgsHold(fn, x)
    BY ArgsFound
  <2>3. Q2 \subseteq AllRegs
    BY <1>3
  <2>. HIDE DEF Q0, g0, Q2, g2, X0, s, h, e
  <2>4. Hoare(fn, Known(s, Q0, g0, X0, h, e), <<Mark("BODY")>>, Known(s, Q2, g2, X0, h, e))
    BY <1>1, <1>2, <2>1, <2>2, <2>3, BodyStep
  <2>. QED
    BY <2>4 DEF BodyStart, InBody, Q0, g0, Q2, g2, X0, s, h, e
<1>5. Hoare(fn, K1, <<b>>, K2)
  <2>. DEFINE base == Base(fn)
              l == fn.locals
              Q == {"B", "C"}
              g == KeptRegs(fn)
  <2>1. s + StackSize(fn) = base /\ base \in Addr
    BY Layout
  <2>2. From(X0, h, X1, h, (base - l)..(base - 1))
    BY DEF From, Filled, Locals
  <2>3. \A k \in 0..l - 1 : h[base - l + k] = LocalMark(k)
    BY MemoryFacts
  <2>. HIDE DEF X0, X1, s, h, e, base, Q, g
  <2>4. Q \subseteq AllRegs
    BY <1>3 DEF Q
  <2>5. Hoare(fn, Known(s, Q, g, X0, h, e), <<Mark("STORE")>>, Known(s, Q, g, X1, h, e))
    BY <1>1, <1>2, <2>1, <2>2, <2>3, <2>4, StoreLocals
  <2>. QED
    BY <2>5 DEF InBody, Q, g, X0, X1, s, h, e
<1>. HIDE DEF K0, K1, K2, a, b
<1>6. Hoare(fn, K0, <<a, b>>, K2)
  BY <1>4, <1>5, Hoare2
<1>. QED
  BY <1>6 DEF K0, K2, a, b, Entered
-----------------------------------------------------------------------------
(* Copying, a byte or a word at a time.                                     *)
LEMMA CopyByteRight ==
  ASSUME NEW fn, NEW a \in Addr, NEW d \in Addr, NEW s, NEW g, NEW X, NEW h, NEW e,
         Safe(s, X, e), X \subseteq Addr, Safe(s, X \cup {d}, e), a \in X, h[d] = h[a]
  PROVE  Hoare(fn, Known(s, {"B", "C"}, g, X, h, e), <<Lxi("HL", a), MovFromM("A"), Lxi("HL", d), MovToM("A")>>,
               Known(s, {"B", "C"}, g, X \cup {d}, h, e))
<1>. DEFINE Q0 == {"B", "C"}
            Q1 == Q0 \cup {"H", "L"}
            g1 == HLSet(g, a)
            Q2 == Q0 \cup {"A"}
            g2 == WithA(g, h[a])
            Q3 == Q2 \cup {"H", "L"}
            g3 == HLSet(g2, d)
            X4 == X \cup {d}
            K0 == Known(s, Q0, g, X, h, e)
            K1 == Known(s, Q1, g1, X, h, e)
            K2 == Known(s, Q2, g2, X, h, e)
            K3 == Known(s, Q3, g3, X, h, e)
            K4 == Known(s, Q3, g3, X4, h, e)
            K5 == Known(s, Q0, g, X4, h, e)
            i1 == Lxi("HL", a)
            i2 == MovFromM("A")
            i3 == Lxi("HL", d)
            i4 == MovToM("A")
<1>1. /\ {"A", "B", "C", "D", "E", "H", "L"} = Regs /\ AllRegs = Regs \cup {"F"} /\ "HL" \in Pairs
      /\ Hi["HL"] = "H" /\ Lo["HL"] = "L"
  BY PairFacts DEF Regs, Pairs, AllRegs
<1>2. /\ Q0 \subseteq AllRegs /\ Q1 \subseteq AllRegs /\ Q2 \subseteq AllRegs /\ Q3 \subseteq AllRegs
      /\ "A" \in Regs /\ "A" \in Q3 /\ "A" \notin Q0 /\ "H" \notin Q0 /\ "L" \notin Q0 /\ "H" \notin Q2 /\ "L" \notin Q2
      /\ "A" \in Q2
  BY <1>1
<1>3. Holding("HL", Q1, g1, a) /\ \A r \in AllRegs \ {"H", "L"} : g1[r] = g[r]
  <2>. HIDE DEF Q0
  <2>. QED
    BY HLSetFacts
<1>4. Holding("HL", Q3, g3, d) /\ \A r \in AllRegs \ {"H", "L"} : g3[r] = g2[r]
  <2>. HIDE DEF Q2, g2
  <2>. QED
    BY HLSetFacts
<1>5. g2["A"] = h[a] /\ \A r \in AllRegs \ {"A"} : g2[r] = g[r]
  BY <1>1 DEF WithA
<1>. HIDE DEF g1, g2, g3
<1>6. Hoare(fn, K0, <<i1>>, K1)
  <2>1. From(Q0, g, Q1, g1, {"H", "L"})
    BY <1>2, <1>3 DEF From
  <2>. HIDE DEF Q0, Q1
  <2>. QED
    BY <1>1, <1>2, <1>3, <2>1, LxiStep
<1>7. Hoare(fn, K1, <<i2>>, K2)
  <2>1. From(Q1, g1, Q2, g2, {"A"})
    BY <1>1, <1>2, <1>3, <1>5 DEF From
  <2>. HIDE DEF Q0, Q1, Q2
  <2>. QED
    BY <1>1, <1>2, <1>3, <1>5, <2>1, LoadStep
<1>8. Hoare(fn, K2, <<i3>>, K3)
  <2>1. From(Q2, g2, Q3, g3, {"H", "L"})
    BY <1>2, <1>4 DEF From
  <2>. HIDE DEF Q2, Q3
  <2>. QED
    BY <1>1, <1>2, <1>4, <2>1, LxiStep
<1>9. Hoare(fn, K3, <<i4>>, K4)
  <2>1. From(X, h, X4, h, {d})
    BY DEF From
  <2>2. g3["A"] = h[d] /\ "A" \in Q3
    BY <1>1, <1>4, <1>5
  <2>3. X4 \subseteq Addr /\ Safe(s, X4, e)
    OBVIOUS
  <2>. HIDE DEF Q3, X4
  <2>. QED
    BY <1>1, <1>2, <1>4, <2>1, <2>2, <2>3, StoreStep
<1>10. K4 \subseteq K5
  <2>1. From(Q3, g3, Q0, g, {}) /\ From(X4, h, X4, h, {})
    BY <1>1, <1>4, <1>5 DEF From
  <2>. HIDE DEF Q3, Q0, X4
  <2>. QED
    BY <2>1, KnownLess
<1>. HIDE DEF K0, K1, K2, K3, K4, K5, i1, i2, i3, i4
<1>11. Hoare(fn, K0, <<i1, i2, i3, i4>>, K4)
  BY <1>6, <1>7, <1>8, <1>9, Hoare4
<1>12. Hoare(fn, K0, <<i1, i2, i3, i4>>, K5)
  BY <1>10, <1>11, HoareWeaker
<1>. QED
  BY <1>12 DEF K0, K5, i1, i2, i3, i4

(* Bytes first.. of the n bytes copied.                                     *)
LEMMA CopyBytesCode ==
  ASSUME NEW first \in Nat, NEW n \in Nat
  PROVE  /\ CopyBytes(first, n) = Repeated(4, n, [k \in Nat |-> CopyByte(first + k)])
         /\ IsCode(CopyBytes(first, n)) /\ Len(CopyBytes(first, n)) = 4 * n
<1>. DEFINE B == [k \in Nat |-> CopyByte(first + k)]
            u == CopyBytes(first, n)
            v == Repeated(4, n, B)
<1>1. u = [p \in 1..4 * n |-> CopyByte(first + ((p - 1) \div 4))[1 + ((p - 1) % 4)]]
  BY DEF CopyBytes, Rounds
<1>2. v = [p \in 1..4 * n |-> B[(p - 1) \div 4][1 + ((p - 1) % 4)]]
  BY DEF Repeated
<1>3. \A p \in 1..4 * n : (p - 1) \div 4 \in Nat
  OBVIOUS
<1>4. \A k \in Nat : B[k] = CopyByte(first + k)
  OBVIOUS
<1>. HIDE DEF B, u
<1>5. u = v
  BY <1>1, <1>2, <1>3, <1>4
<1>6. Len(v) = 4 * n
  BY RepeatedLen
<1>7. IsCode(v)
  <2>. DEFINE S == {v[p] : p \in 1..4 * n}
  <2>1. v = [p \in 1..4 * n |-> v[p]]
    BY DEF Repeated
  <2>2. 4 * n \in Nat /\ \A p \in 1..4 * n : v[p] \in S
    OBVIOUS
  <2>. HIDE DEF v, S
  <2>3. v \in Seq(S)
    BY <2>1, <2>2
  <2>. QED
    BY <2>3 DEF IsCode
<1>. QED
  BY <1>5, <1>6, <1>7 DEF B, u

LEMMA CopyBytesRight ==
  ASSUME NEW fn \in Functions, NEW e \in BOOLEAN, NEW first \in Nat, NEW n \in Nat, first + n = fn.copy
  PROVE  Hoare(fn, InBody(fn, CopiedTo(fn, first), e), CopyBytes(first, n), InBody(fn, CopiedTo(fn, fn.copy), e))
<1>. DEFINE c == fn.copy
            B == [k \in Nat |-> CopyByte(first + k)]
            G == [k \in 0..n |-> InBody(fn, CopiedTo(fn, first + k), e)]
<1>1. /\ c \in Nat /\ Dst \in Nat /\ Src \in Nat /\ Src + c <= Dst
  BY WholeFacts, AddrFacts, Layout
<1>2. \A k \in 0..n : G[k] = InBody(fn, CopiedTo(fn, first + k), e)
  OBVIOUS
<1>3. \A k \in Nat : B[k] = CopyByte(first + k)
  OBVIOUS
<1>. HIDE DEF G, B, c
<1>4. ASSUME NEW j \in 0..c PROVE CopiedTo(fn, j) \subseteq CopiedTo(fn, c)
  <2>1. Dst..(Dst + j - 1) \subseteq Dst..(Dst + c - 1)
    BY <1>1
  <2>. QED
    BY <2>1 DEF CopiedTo
<1>5. \A k \in 0..n : G[k] \subseteq Config /\ Stable(G[k])
  <2>1. ASSUME NEW k \in 0..n PROVE G[k] \subseteq Config /\ Stable(G[k])
    <3>1. first + k \in 0..c
      BY <1>1 DEF c
    <3>. DEFINE X == CopiedTo(fn, first + k)
    <3>2. X \subseteq CopiedTo(fn, c)
      BY <1>4, <3>1
    <3>. HIDE DEF X
    <3>3. Safe(Bottom(fn), X, e) /\ X \subseteq Addr
      BY <3>2, WholeFacts DEF c
    <3>4. G[k] = Known(Bottom(fn), {"B", "C"}, KeptRegs(fn), X, Memory(fn), e)
      BY <1>2 DEF InBody, X
    <3>. QED
      BY <3>3, <3>4, KnownStable
  <2>. QED
    BY <2>1
<1>6. ASSUME NEW k \in 0..n - 1
      PROVE  Len(B[k]) = 4 /\ Hoare(fn, G[k], B[k], G[k + 1])
  <2>. DEFINE j == first + k
              X == CopiedTo(fn, j)
              a == Src + j
              d == Dst + j
              h == Memory(fn)
              s == Bottom(fn)
  <2>1. j \in Nat /\ j \in 0..c - 1 /\ j \in 0..c /\ first + (k + 1) = j + 1 /\ j + 1 \in 0..c /\ k \in 0..n /\ k + 1 \in 0..n
        /\ k \in Nat
    BY <1>1 DEF c
  <2>. HIDE DEF j
  <2>2. G[k] = InBody(fn, X, e) /\ G[k + 1] = InBody(fn, CopiedTo(fn, j + 1), e) /\ B[k] = CopyByte(j)
    BY <1>2, <1>3, <2>1 DEF j
  <2>3. CopiedTo(fn, j + 1) = X \cup {d}
    <3>1. Dst..(Dst + (j + 1) - 1) = (Dst..(Dst + j - 1)) \cup {Dst + j}
      BY <1>1, <2>1
    <3>. QED
      BY <3>1 DEF CopiedTo
  <2>4. X \subseteq CopiedTo(fn, c) /\ X \cup {d} \subseteq CopiedTo(fn, c)
    BY <1>4, <2>1, <2>3
  <2>5. a \in Outside(fn)
    <3>1. a \in 0..(Dst + c) /\ a \notin Dst..(Dst + c - 1)
      BY <1>1, <2>1
    <3>. QED
      BY <3>1 DEF Outside, Copied, c
  <2>6. h[d] = h[a]
    <3>1. h[d] = MemAtStart[Src + j]
      BY <2>1, MemoryFacts DEF c
    <3>. QED
      BY <2>5, <3>1, MemoryFacts
  <2>7. a \in X
    BY <2>5 DEF CopiedTo, Filled
  <2>8. d \in Addr /\ a \in Addr
    <3>1. CopiedTo(fn, c) \subseteq Addr
      BY WholeFacts DEF c
    <3>. QED
      BY <2>4, <2>7, <3>1
  <2>. HIDE DEF X, h, s
  <2>9. Safe(s, X, e) /\ X \subseteq Addr /\ Safe(s, X \cup {d}, e)
    BY <2>4, WholeFacts DEF c, s
  <2>10. Len(CopyByte(j)) = 4
    BY DEF CopyByte
  <2>11. CopyByte(j) = <<Lxi("HL", a), MovFromM("A"), Lxi("HL", d), MovToM("A")>>
    BY DEF CopyByte
  <2>. DEFINE g == KeptRegs(fn)
  <2>. HIDE DEF a, d, g
  <2>12. Hoare(fn, Known(s, {"B", "C"}, g, X, h, e), <<Lxi("HL", a), MovFromM("A"), Lxi("HL", d), MovToM("A")>>,
               Known(s, {"B", "C"}, g, X \cup {d}, h, e))
    BY <2>6, <2>7, <2>8, <2>9, CopyByteRight
  <2>. QED
    BY <2>2, <2>3, <2>10, <2>11, <2>12 DEF InBody, g, s, h
<1>7. Hoare(fn, G[0], Repeated(4, n, B), G[n])
  BY <1>5, <1>6, HoareRounds
<1>8. G[0] = InBody(fn, CopiedTo(fn, first), e) /\ G[n] = InBody(fn, CopiedTo(fn, c), e)
  <2>1. 0 \in 0..n /\ n \in 0..n /\ first + 0 = first /\ first + n = c
    BY DEF c
  <2>. QED
    BY <1>2, <2>1
<1>9. CopyBytes(first, n) = Repeated(4, n, B)
  BY CopyBytesCode DEF B
<1>. QED
  BY <1>7, <1>8, <1>9 DEF c
-----------------------------------------------------------------------------
(* The same bytes with SP as the data pointer: interrupts are off from "DI" *)
(* to "EI", and DE keeps SP meanwhile.                                      *)
LEMMA CopyWordRight ==
  ASSUME NEW fn, NEW p \in Addr, NEW d \in Addr, NEW g, NEW X, NEW h,
         p + 1 \in Addr, p + 2 \in Addr, d + 1 \in Addr, {p, p + 1} \subseteq X, X \subseteq Addr,
         h[d] = h[p], h[d + 1] = h[p + 1]
  PROVE  Hoare(fn, Known(p, {"B", "C", "D", "E"}, g, X, h, FALSE), <<Pop("HL"), Shld(d)>>,
               Known(p + 2, {"B", "C", "D", "E"}, g, X \cup {d, d + 1}, h, FALSE))
<1>. DEFINE Q0 == {"B", "C", "D", "E"}
            Q1 == Q0 \cup {"H", "L"}
            g1 == [r \in AllRegs |-> IF r = "H" THEN h[p + 1] ELSE IF r = "L" THEN h[p] ELSE g[r]]
            X2 == X \cup {d, d + 1}
            K0 == Known(p, Q0, g, X, h, FALSE)
            K1 == Known(p + 2, Q1, g1, X, h, FALSE)
            K2 == Known(p + 2, Q1, g1, X2, h, FALSE)
            K3 == Known(p + 2, Q0, g, X2, h, FALSE)
            i1 == Pop("HL")
            i2 == Shld(d)
<1>1. /\ {"A", "B", "C", "D", "E", "H", "L"} = Regs /\ AllRegs = Regs \cup {"F"} /\ "HL" \in Pairs \cup {"PSW"}
      /\ Hi["HL"] = "H" /\ Lo["HL"] = "L"
  BY PairFacts DEF Regs, Pairs, AllRegs
<1>2. Q0 \subseteq AllRegs /\ Q1 \subseteq AllRegs /\ "H" \notin Q0 /\ "L" \notin Q0 /\ "H" \in Q1 /\ "L" \in Q1 /\ Q0 \subseteq Q1
  BY <1>1
<1>3. g1["H"] = h[p + 1] /\ g1["L"] = h[p] /\ \A r \in AllRegs \ {"H", "L"} : g1[r] = g[r]
  BY <1>1
<1>4. Safe(p, X, FALSE) /\ Safe(p + 2, X, FALSE) /\ Safe(p + 2, X2, FALSE) /\ X2 \subseteq Addr
  BY DEF Safe
<1>. HIDE DEF g1
<1>5. Hoare(fn, K0, <<i1>>, K1)
  <2>1. From(Q0, g, Q1, g1, {"H", "L"})
    BY <1>2, <1>3 DEF From
  <2>. HIDE DEF Q0, Q1
  <2>. QED
    BY <1>1, <1>2, <1>3, <1>4, <2>1, PopStep
<1>6. Hoare(fn, K1, <<i2>>, K2)
  <2>1. From(X, h, X2, h, {d, d + 1})
    BY DEF From
  <2>. DEFINE k == p + 2
  <2>. HIDE DEF Q0, Q1, X2, k
  <2>2. Hoare(fn, Known(k, Q1, g1, X, h, FALSE), <<Shld(d)>>, Known(k, Q1, g1, X2, h, FALSE))
    <3>1. Safe(k, X, FALSE) /\ Safe(k, X2, FALSE)
      BY <1>4 DEF k
    <3>. QED
      BY <1>2, <1>3, <1>4, <2>1, <3>1, ShldStep
  <2>. QED
    BY <2>2 DEF k
<1>7. K2 \subseteq K3
  <2>1. From(Q1, g1, Q0, g, {}) /\ From(X2, h, X2, h, {})
    BY <1>2, <1>3 DEF From
  <2>. HIDE DEF Q0, Q1, X2
  <2>. QED
    BY <2>1, KnownLess
<1>. HIDE DEF K0, K1, K2, K3, i1, i2
<1>8. Hoare(fn, K0, <<i1, i2>>, K2)
  BY <1>5, <1>6, Hoare2
<1>9. Hoare(fn, K0, <<i1, i2>>, K3)
  BY <1>7, <1>8, HoareWeaker
<1>. QED
  BY <1>9 DEF K0, K3, i1, i2

InDE(g, v) ==
  [r \in AllRegs |-> IF r = "D" THEN v \div ByteSize ELSE IF r = "E" THEN v % ByteSize ELSE g[r]]
InTrick(fn, k) ==
  Known(Src + 2 * k, {"B", "C", "D", "E"}, InDE(KeptRegs(fn), Bottom(fn)), CopiedTo(fn, 2 * k), Memory(fn), FALSE)

LEMMA WordsRight ==
  ASSUME NEW fn \in Functions, NEW n \in Nat, 2 * n <= fn.copy
  PROVE  /\ Hoare(fn, InTrick(fn, 0), Rounds(2, n, CopyWord), InTrick(fn, n))
         /\ IsCode(Rounds(2, n, CopyWord)) /\ Len(Rounds(2, n, CopyWord)) = 2 * n
<1>. DEFINE c == fn.copy
            B == [k \in Nat |-> CopyWord(k)]
            G == [k \in 0..n |-> InTrick(fn, k)]
            u == Rounds(2, n, CopyWord)
            v == Repeated(2, n, B)
<1>1. c \in Nat /\ Dst \in Nat /\ Src \in Nat /\ Src + c <= Dst
  BY WholeFacts, AddrFacts, Layout
<1>2. \A k \in 0..n : G[k] = InTrick(fn, k)
  OBVIOUS
<1>3. \A k \in Nat : B[k] = CopyWord(k)
  OBVIOUS
<1>4. u = [p \in 1..2 * n |-> CopyWord((p - 1) \div 2)[1 + ((p - 1) % 2)]]
  BY DEF Rounds
<1>5. v = [p \in 1..2 * n |-> B[(p - 1) \div 2][1 + ((p - 1) % 2)]]
  BY DEF Repeated
<1>6. \A p \in 1..2 * n : (p - 1) \div 2 \in Nat
  OBVIOUS
<1>. HIDE DEF B, G, c, u
<1>7. u = v
  BY <1>3, <1>4, <1>5, <1>6
<1>8. Len(v) = 2 * n
  BY RepeatedLen
<1>9. IsCode(v)
  <2>. DEFINE S == {v[p] : p \in 1..2 * n}
  <2>1. v = [p \in 1..2 * n |-> v[p]]
    BY DEF Repeated
  <2>2. 2 * n \in Nat /\ \A p \in 1..2 * n : v[p] \in S
    OBVIOUS
  <2>. HIDE DEF v, S
  <2>3. v \in Seq(S)
    BY <2>1, <2>2
  <2>. QED
    BY <2>3 DEF IsCode
<1>10. ASSUME NEW j \in 0..c PROVE CopiedTo(fn, j) \subseteq CopiedTo(fn, c) /\ CopiedTo(fn, c) \subseteq Addr
  <2>1. Dst..(Dst + j - 1) \subseteq Dst..(Dst + c - 1)
    BY <1>1
  <2>2. CopiedTo(fn, c) \subseteq Addr
    BY WholeFacts DEF c
  <2>. QED
    BY <2>1, <2>2 DEF CopiedTo
<1>11. (\A j \in 0..c - 1 : Src + j \in Outside(fn)) /\ \A j \in 0..c : Src + j \in Addr
  <2>1. ASSUME NEW j \in 0..c - 1 PROVE Src + j \in 0..(Dst + c) /\ Src + j \notin Dst..(Dst + c - 1)
    BY <1>1
  <2>2. \A j \in 0..c - 1 : Src + j \in Outside(fn)
    BY <2>1 DEF Outside, Copied, c
  <2>3. ASSUME NEW j \in 0..c PROVE Src + j \in Addr
    <3>1. Src + j \in 0..(Dst + c)
      BY <1>1
    <3>2. CASE Src + j \notin Dst..(Dst + c - 1)
      <4>1. Src + j \in Outside(fn)
        BY <3>1, <3>2 DEF Outside, Copied, c
      <4>. QED
        BY <4>1, OutsideFacts
    <3>3. CASE Src + j \in Dst..(Dst + c - 1)
      <4>1. Src + j \in Copied(fn)
        BY <3>3 DEF Copied, c
      <4>. QED
        BY <4>1, OutsideFacts
    <3>. QED
      BY <3>2, <3>3
  <2>. QED
    BY <2>2, <2>3
<1>12. \A k \in 0..n : G[k] \subseteq Config /\ Stable(G[k])
  <2>1. ASSUME NEW k \in 0..n PROVE G[k] \subseteq Config /\ Stable(G[k])
    <3>. DEFINE p == Src + 2 * k
                X == CopiedTo(fn, 2 * k)
    <3>1. 2 * k \in 0..c
      BY <1>1 DEF c
    <3>2. X \subseteq Addr /\ p \in Addr
      BY <1>10, <1>11, <3>1
    <3>. HIDE DEF X, p
    <3>3. Safe(p, X, FALSE)
      BY <3>2 DEF Safe
    <3>. DEFINE Q == {"B", "C", "D", "E"}
                g == InDE(KeptRegs(fn), Bottom(fn))
                h == Memory(fn)
    <3>4. G[k] = Known(p, Q, g, X, h, FALSE)
      BY <1>2 DEF InTrick, X, p
    <3>. HIDE DEF Q, g, h
    <3>5. Known(p, Q, g, X, h, FALSE) \subseteq Config /\ Stable(Known(p, Q, g, X, h, FALSE))
      BY <3>2, <3>3, KnownStable
    <3>. QED
      BY <3>4, <3>5
  <2>. QED
    BY <2>1
<1>13. ASSUME NEW k \in 0..n - 1
       PROVE  Len(B[k]) = 2 /\ Hoare(fn, G[k], B[k], G[k + 1])
  <2>. DEFINE j == 2 * k
              X == CopiedTo(fn, j)
              p == Src + j
              d == Dst + j
              h == Memory(fn)
              g == InDE(KeptRegs(fn), Bottom(fn))
  <2>1. /\ j \in Nat /\ j \in 0..c /\ j + 1 \in 0..c /\ j + 2 \in 0..c /\ 2 * (k + 1) = j + 2
        /\ k \in 0..n /\ k + 1 \in 0..n /\ k \in Nat /\ j \in 0..c - 1 /\ j + 1 \in 0..c - 1
    BY <1>1 DEF c
  <2>2. /\ G[k] = InTrick(fn, k) /\ G[k + 1] = InTrick(fn, k + 1) /\ B[k] = <<Pop("HL"), Shld(d)>>
    BY <1>2, <1>3, <2>1 DEF CopyWord
  <2>. HIDE DEF j
  <2>3. p + 1 = Src + (j + 1) /\ p + 2 = Src + (j + 2) /\ d + 1 = Dst + (j + 1)
    BY <1>1, <2>1
  <2>4. CopiedTo(fn, j + 2) = X \cup {d, d + 1}
    <3>1. Dst..(Dst + (j + 2) - 1) = (Dst..(Dst + j - 1)) \cup {Dst + j, Dst + j + 1}
      BY <1>1, <2>1
    <3>. QED
      BY <3>1 DEF CopiedTo
  <2>5. p \in Outside(fn) /\ p + 1 \in Outside(fn) /\ p \in Addr /\ p + 1 \in Addr /\ p + 2 \in Addr
    BY <1>11, <2>1, <2>3
  <2>6. h[d] = h[p] /\ h[d + 1] = h[p + 1]
    <3>1. Memory(fn)[Dst + j] = MemAtStart[Src + j] /\ Memory(fn)[Dst + (j + 1)] = MemAtStart[Src + (j + 1)]
      BY <2>1, MemoryFacts DEF c
    <3>2. Memory(fn)[p] = MemAtStart[p] /\ Memory(fn)[p + 1] = MemAtStart[p + 1]
      BY <2>5, MemoryFacts
    <3>. QED
      BY <2>3, <3>1, <3>2
  <2>7. {p, p + 1} \subseteq X
    BY <2>5 DEF CopiedTo, Filled
  <2>8. X \subseteq Addr /\ d \in Addr /\ d + 1 \in Addr
    BY <1>10, <2>1, <2>4
  <2>9. Len(B[k]) = 2
    BY <2>2
  <2>10. /\ G[k] = Known(p, {"B", "C", "D", "E"}, g, X, h, FALSE)
         /\ G[k + 1] = Known(p + 2, {"B", "C", "D", "E"}, g, X \cup {d, d + 1}, h, FALSE)
    <3>1. G[k] = Known(p, {"B", "C", "D", "E"}, g, X, h, FALSE)
      BY <2>2 DEF InTrick, j
    <3>2. G[k + 1] = Known(Src + (j + 2), {"B", "C", "D", "E"}, g, CopiedTo(fn, j + 2), h, FALSE)
      BY <2>1, <2>2 DEF InTrick
    <3>. QED
      BY <2>3, <2>4, <3>1, <3>2
  <2>. HIDE DEF p, d, X, g, h
  <2>11. Hoare(fn, Known(p, {"B", "C", "D", "E"}, g, X, h, FALSE), <<Pop("HL"), Shld(d)>>,
               Known(p + 2, {"B", "C", "D", "E"}, g, X \cup {d, d + 1}, h, FALSE))
    BY <2>5, <2>6, <2>7, <2>8, CopyWordRight
  <2>. QED
    BY <2>2, <2>9, <2>10, <2>11
<1>14. Hoare(fn, G[0], v, G[n])
  <2>. HIDE DEF v
  <2>. QED
    BY <1>12, <1>13, HoareRounds DEF v
<1>15. G[0] = InTrick(fn, 0) /\ G[n] = InTrick(fn, n)
  BY <1>2
<1>. HIDE DEF v
<1>. QED
  BY <1>7, <1>8, <1>9, <1>14, <1>15 DEF u

LEMMA TrickRight ==
  ASSUME NEW fn \in Functions, NEW n \in Nat, n <= fn.copy, NEW k \in Nat, n = 2 * k, n \div 2 = k
  PROVE  /\ Hoare(fn, InBody(fn, CopiedTo(fn, 0), TRUE), Trick(n), InBody(fn, CopiedTo(fn, n), TRUE))
         /\ IsCode(Trick(n))
<1>. DEFINE s == Bottom(fn)
            g == KeptRegs(fn)
            h == Memory(fn)
            X == CopiedTo(fn, 0)
            Y == CopiedTo(fn, n)
            Q == {"B", "C"}
            QH == (Q \cup {"H", "L"}) \ {"F"}
            QD == {"B", "C", "D", "E"}
            gh == HLSet(g, s)
            gd == InDE(g, s)
            T0 == Known(s, Q, g, X, h, TRUE)
            T1 == Known(s, Q, g, X, h, FALSE)
            T3 == Known(s, QH, gh, X, h, FALSE)
            T4 == Known(s, QD, gd, X, h, FALSE)
            T5 == Known(Src, QD, gd, X, h, FALSE)
            T6 == Known(Src + n, QD, gd, Y, h, FALSE)
            T7 == Known(Src + n, QH, gh, Y, h, FALSE)
            T8 == Known(s, QH, gh, Y, h, FALSE)
            T9 == Known(s, QH, gh, Y, h, TRUE)
            T10 == Known(s, Q, g, Y, h, TRUE)
            a == Mark("DI")
            b == <<Lxi("HL", 0), DadSp>>
            c == Xchg
            d == Lxi("SP", Src)
            w == Rounds(2, k, CopyWord)
            i == Sphl
            j == Mark("EI")
<1>1. /\ fn.copy \in Nat /\ Dst \in Nat /\ Src \in Nat /\ Src + fn.copy <= Dst /\ s \in Addr /\ s \in Nat
  BY WholeFacts, AddrFacts, Layout
<1>2. /\ X \subseteq CopiedTo(fn, fn.copy) /\ Y \subseteq CopiedTo(fn, fn.copy)
  <2>. DEFINE z == fn.copy
  <2>. HIDE DEF z
  <2>1. Dst..(Dst + 0 - 1) \subseteq Dst..(Dst + z - 1) /\ Dst..(Dst + n - 1) \subseteq Dst..(Dst + z - 1)
    BY <1>1 DEF z
  <2>. QED
    BY <2>1 DEF CopiedTo, z
<1>3. Src \in Addr /\ Src + n \in Addr
  <2>. DEFINE z == fn.copy
  <2>1. Src + n \in 0..(Dst + z) /\ Src \in 0..(Dst + z)
    BY <1>1
  <2>2. Dst + z < Entry /\ Entry \in Nat
    <3>1. Dst + z + 2 < s /\ s <= Entry
      <4>1. Dst + z + 2 < s /\ s + StackSize(fn) = Base(fn) /\ Base(fn) = (IF fn.fp THEN Entry - 2 ELSE Entry)
        BY Layout
      <4>2. StackSize(fn) \in Nat /\ Entry \in Nat
        BY Layout, FrameFacts, AddrFacts
      <4>. QED
        BY <1>1, <4>1, <4>2
    <3>. QED
      BY <1>1, <3>1, AddrFacts
  <2>3. Src + n \in 0..Entry /\ Src \in 0..Entry
    BY <1>1, <2>1, <2>2
  <2>. QED
    BY <2>3, AddrFacts
<1>4. /\ {"A", "B", "C", "D", "E", "H", "L"} = Regs /\ AllRegs = Regs \cup {"F"} /\ QH = {"B", "C", "H", "L"}
      /\ Q \subseteq AllRegs /\ QH \subseteq AllRegs /\ QD \subseteq AllRegs /\ Hi["HL"] = "H" /\ Lo["HL"] = "L"
  BY PairFacts DEF Regs, AllRegs
<1>. HIDE DEF s, g, h, X, Y
<1>5. \A e \in BOOLEAN : Safe(s, X, e) /\ Safe(s, Y, e) /\ X \subseteq Addr /\ Y \subseteq Addr
  BY <1>2, WholeFacts DEF s
<1>6. /\ gh["H"] = s \div ByteSize /\ gh["L"] = s % ByteSize /\ \A r \in AllRegs \ {"H", "L"} : gh[r] = g[r]
  BY <1>4 DEF HLSet
<1>7. /\ gd["D"] = s \div ByteSize /\ gd["E"] = s % ByteSize /\ \A r \in AllRegs \ {"D", "E"} : gd[r] = g[r]
  BY <1>4 DEF InDE
<1>8. Safe(Src, X, FALSE) /\ Safe(Src + n, Y, FALSE)
  BY <1>3 DEF Safe
<1>. HIDE DEF gh, gd
<1>9. Hoare(fn, T0, <<a>>, T1)
  BY <1>5, DiStep
<1>10. Hoare(fn, T1, b, T3)
  <2>1. 0 \in Addr /\ Wrap(0 + s) = s
    <3>1. 0 + s = s /\ 0 \in 0..Entry
      BY <1>1, AddrFacts
    <3>. QED
      BY <1>1, <3>1, WrapFacts, AddrFacts
  <2>. HIDE DEF Q
  <2>. QED
    BY <1>1, <1>4, <1>5, <2>1, PointHL DEF gh
<1>. HIDE DEF QH
<1>11. Hoare(fn, T3, <<c>>, T4)
  <2>1. From(QH, gh, QD, gd, {"D", "E", "H", "L"})
    BY <1>4, <1>6, <1>7 DEF From
  <2>2. "H" \in QH /\ "L" \in QH /\ "H" \notin QD /\ "L" \notin QD /\ gd["D"] = gh["H"] /\ gd["E"] = gh["L"]
    BY <1>4, <1>6, <1>7
  <2>. HIDE DEF QD
  <2>. QED
    BY <1>4, <1>5, <2>1, <2>2, XchgStep
<1>12. Hoare(fn, T4, <<d>>, T5)
  <2>. HIDE DEF QD
  <2>. QED
    BY <1>4, <1>5, <1>8, LxiSpStep
<1>13. Hoare(fn, T5, w, T6) /\ IsCode(w)
  <2>1. InTrick(fn, 0) = T5 /\ InTrick(fn, k) = T6
    <3>1. 2 * 0 = 0 /\ Src + 2 * 0 = Src
      BY <1>1
    <3>. QED
      BY <3>1 DEF InTrick, gd, g, s, h, X, Y
  <2>. QED
    BY <2>1, WordsRight
<1>14. Hoare(fn, T6, <<c>>, T7)
  <2>1. From(QD, gd, QH, gh, {"D", "E", "H", "L"})
    BY <1>4, <1>6, <1>7 DEF From
  <2>2. "D" \in QD /\ "E" \in QD /\ "D" \notin QH /\ "E" \notin QH /\ gh["H"] = gd["D"] /\ gh["L"] = gd["E"]
    BY <1>4, <1>6, <1>7
  <2>. DEFINE v == Src + n
  <2>. HIDE DEF QD, v
  <2>3. Safe(v, Y, FALSE)
    BY <1>8 DEF v
  <2>4. Hoare(fn, Known(v, QD, gd, Y, h, FALSE), <<Xchg>>, Known(v, QH, gh, Y, h, FALSE))
    BY <1>4, <1>5, <2>1, <2>2, <2>3, XchgStep
  <2>. QED
    BY <2>4 DEF v
<1>15. Hoare(fn, T7, <<i>>, T8)
  <2>1. Holding("HL", QH, gh, s)
    BY <1>1, <1>4, <1>6 DEF Holding
  <2>. DEFINE v == Src + n
  <2>. HIDE DEF v
  <2>2. Safe(v, Y, FALSE)
    BY <1>8 DEF v
  <2>3. Hoare(fn, Known(v, QH, gh, Y, h, FALSE), <<Sphl>>, Known(s, QH, gh, Y, h, FALSE))
    BY <1>4, <1>5, <2>1, <2>2, SphlStep
  <2>. QED
    BY <2>3 DEF v
<1>16. Hoare(fn, T8, <<j>>, T9)
  BY <1>5, EiStep
<1>17. T9 \subseteq T10
  <2>1. From(QH, gh, Q, g, {}) /\ From(Y, h, Y, h, {})
    BY <1>4, <1>6 DEF From
  <2>. QED
    BY <2>1, KnownLess
<1>18. T0 = InBody(fn, CopiedTo(fn, 0), TRUE) /\ T10 = InBody(fn, CopiedTo(fn, n), TRUE)
  BY DEF InBody, s, g, h, X, Y
<1>. HIDE DEF T0, T1, T3, T4, T5, T6, T7, T8, T9, T10, a, c, d, i, j, w
<1>19. /\ IsCode(<<a>>) /\ IsCode(b) /\ IsCode(<<c, d>>) /\ IsCode(<<c, i, j>>)
  <2>1. <<c, i, j>> \in Seq({c, i, j})
    OBVIOUS
  <2>. QED
    BY <2>1, OneCode, TwoCode DEF IsCode
<1>20. Hoare(fn, T3, <<c, d>>, T5) /\ Hoare(fn, T6, <<c, i, j>>, T9)
  BY <1>11, <1>12, <1>14, <1>15, <1>16, Hoare2, Hoare3
<1>21. Hoare(fn, T0, <<a>> \o b, T3) /\ IsCode(<<a>> \o b)
  BY <1>9, <1>10, <1>19, JoinCode
<1>. DEFINE x == <<a>> \o b
<1>22. x = <<a, Lxi("HL", 0), DadSp>>
  <2>. DEFINE y == Lxi("HL", 0)
  <2>. HIDE DEF y
  <2>1. <<a>> \o <<y, DadSp>> = <<a, y, DadSp>>
    BY OneAndTwo
  <2>. QED
    BY <2>1 DEF y, b
<1>. HIDE DEF x
<1>23. Hoare(fn, T0, x \o <<c, d>>, T5) /\ IsCode(x \o <<c, d>>)
  BY <1>19, <1>20, <1>21, JoinCode DEF x
<1>. DEFINE z == x \o <<c, d>>
<1>24. z = <<a, Lxi("HL", 0), DadSp, c, d>>
  <2>. DEFINE y == Lxi("HL", 0)
  <2>. HIDE DEF y
  <2>1. <<a, y, DadSp>> \o <<c, d>> = <<a, y, DadSp, c, d>>
    BY ThreeAndTwo
  <2>. QED
    BY <1>22, <2>1 DEF y
<1>. HIDE DEF z
<1>25. Hoare(fn, T0, z \o w, T6) /\ IsCode(z \o w)
  BY <1>13, <1>23, JoinCode DEF z
<1>. DEFINE q == z \o w
<1>. HIDE DEF q
<1>26. Hoare(fn, T0, q \o <<c, i, j>>, T9) /\ IsCode(q \o <<c, i, j>>)
  BY <1>19, <1>20, <1>25, JoinCode DEF q
<1>27. Trick(n) = q \o <<c, i, j>>
  BY <1>24 DEF Trick, q, w, a, c, d, i, j
<1>28. Hoare(fn, T0, q \o <<c, i, j>>, T10)
  BY <1>17, <1>26, HoareWeaker
<1>. QED
  BY <1>18, <1>26, <1>27, <1>28
-----------------------------------------------------------------------------
(* The body as it is run: an odd last byte is copied twice.                 *)
OddCopy(fn) == CopyBytes(Even(fn.copy), fn.copy - Even(fn.copy))
CopyCode(fn) ==
  IF Tricks(fn) THEN (Trick(Even(fn.copy)) \o OddCopy(fn)) \o OddCopy(fn)
  ELSE CopyBytes(0, fn.copy)
BodyCode(fn) == Entered \o CopyCode(fn) \o Rest

ReturnRegs(fn) == [r \in AllRegs |-> IF r \in RetRegs(fn.ret) THEN Result[r] ELSE FrameRegs(fn)[r]]
ExitStart(fn) ==
  Known(Bottom(fn), RetRegs(fn.ret) \cup FPRegs(fn), ReturnRegs(fn), Outside(fn) \cup Saved(fn), Memory(fn), ~fn.isr)

LEMMA EvenFacts ==
  ASSUME NEW c \in Nat
  PROVE  /\ Even(c) \in Nat /\ Even(c) <= c /\ c - Even(c) \in Nat /\ Even(c) + (c - Even(c)) = c
         /\ Even(c) \div 2 \in Nat /\ Even(c) = 2 * (Even(c) \div 2)
<1>. DEFINE q == c \div 2
            r == c % 2
<1>1. q \in Nat /\ r \in 0..1 /\ c = 2 * q + r
  BY SplitIndex
<1>. HIDE DEF q, r
<1>2. Even(c) = 2 * q
  BY <1>1 DEF Even, r
<1>3. (2 * q) \div 2 = q
  BY <1>1
<1>. QED
  BY <1>1, <1>2, <1>3

LEMMA FilledIsStart ==
  ASSUME NEW fn
  PROVE  CopiedTo(fn, 0) = Filled(fn)
<1>1. Dst..(Dst + 0 - 1) = {}
  BY AddrFacts
<1>. QED
  BY <1>1 DEF CopiedTo

LEMMA CopiedMore ==
  ASSUME NEW fn, NEW e, NEW c \in Nat, NEW n \in Nat, n <= c
  PROVE  InBody(fn, CopiedTo(fn, c), e) \subseteq InBody(fn, CopiedTo(fn, n), e)
<1>. DEFINE X == CopiedTo(fn, c)
            Y == CopiedTo(fn, n)
            Q == {"B", "C"}
            g == KeptRegs(fn)
            h == Memory(fn)
<1>1. Y \subseteq X
  <2>1. \A a \in Dst..(Dst + n - 1) : a \in Dst..(Dst + c - 1)
    BY AddrFacts
  <2>. QED
    BY <2>1 DEF CopiedTo
<1>. HIDE DEF X, Y, Q, g, h
<1>2. From(Q, g, Q, g, {}) /\ From(X, h, Y, h, {})
  BY <1>1 DEF From
<1>. QED
  BY <1>2, KnownLess DEF InBody, X, Y, Q, g, h

LEMMA CopyCodeRight ==
  ASSUME NEW fn \in Functions
  PROVE  /\ Hoare(fn, InBody(fn, Filled(fn), ~fn.isr), CopyCode(fn), InBody(fn, CopiedTo(fn, fn.copy), ~fn.isr))
         /\ IsCode(CopyCode(fn))
<1>. DEFINE c == fn.copy
            n == Even(c)
            e == ~fn.isr
<1>1. c \in Nat /\ e \in BOOLEAN
  BY Layout DEF FunctionType
<1>2. n \in Nat /\ n <= c /\ c - n \in Nat /\ n + (c - n) = c /\ n \div 2 \in Nat /\ n = 2 * (n \div 2)
  BY <1>1, EvenFacts
<1>3. CASE Tricks(fn)
  <2>1. e = TRUE
    BY <1>3 DEF Tricks
  <2>. HIDE DEF n
  <2>2. Hoare(fn, InBody(fn, CopiedTo(fn, 0), TRUE), Trick(n), InBody(fn, CopiedTo(fn, n), TRUE)) /\ IsCode(Trick(n))
    BY <1>2, TrickRight
  <2>3. Hoare(fn, InBody(fn, CopiedTo(fn, n), TRUE), CopyBytes(n, c - n), InBody(fn, CopiedTo(fn, c), TRUE))
    BY <1>2, CopyBytesRight
  <2>4. IsCode(CopyBytes(n, c - n))
    BY <1>2, CopyBytesCode
  <2>5. CopyCode(fn) = (Trick(n) \o CopyBytes(n, c - n)) \o CopyBytes(n, c - n)
    BY <1>3 DEF CopyCode, OddCopy, n
  <2>6. InBody(fn, CopiedTo(fn, c), TRUE) \subseteq InBody(fn, CopiedTo(fn, n), TRUE)
    BY <1>1, <1>2, CopiedMore
  <2>. DEFINE t == Trick(n)
              y == CopyBytes(n, c - n)
              P0 == InBody(fn, CopiedTo(fn, 0), TRUE)
              P1 == InBody(fn, CopiedTo(fn, n), TRUE)
              P2 == InBody(fn, CopiedTo(fn, c), TRUE)
  <2>. HIDE DEF t, y, P0, P1, P2
  <2>7. Hoare(fn, P0, t \o y, P2) /\ IsCode(t \o y)
    BY <2>2, <2>3, <2>4, JoinCode DEF t, y, P0, P1, P2
  <2>8. Hoare(fn, P0, t \o y, P1)
    <3>1. P2 \subseteq P1
      BY <2>6 DEF P1, P2
    <3>. QED
      BY <2>7, <3>1, HoareWeaker
  <2>9. Hoare(fn, P1, y, P2) /\ IsCode(y)
    BY <2>3, <2>4 DEF y, P1, P2
  <2>10. Hoare(fn, P0, (t \o y) \o y, P2) /\ IsCode((t \o y) \o y)
    BY <2>7, <2>8, <2>9, JoinCode
  <2>. QED
    BY <2>1, <2>5, <2>10, FilledIsStart DEF t, y, P0, P2
<1>4. CASE ~Tricks(fn)
  <2>1. CopyCode(fn) = CopyBytes(0, c)
    BY <1>4 DEF CopyCode
  <2>2. 0 + c = c /\ 0 \in Nat
    BY <1>1
  <2>. HIDE DEF e
  <2>3. Hoare(fn, InBody(fn, CopiedTo(fn, 0), e), CopyBytes(0, c), InBody(fn, CopiedTo(fn, c), e))
    BY <1>1, <2>2, CopyBytesRight
  <2>4. IsCode(CopyBytes(0, c))
    BY <1>1, <2>2, CopyBytesCode
  <2>. QED
    BY <2>1, <2>3, <2>4, FilledIsStart DEF e
<1>. QED
  BY <1>3, <1>4

LEMMA RestRight ==
  ASSUME NEW fn \in Functions
  PROVE  Hoare(fn, InBody(fn, CopiedTo(fn, fn.copy), ~fn.isr), Rest, ExitStart(fn))
<1>. DEFINE e == ~fn.isr
            s == Bottom(fn)
            h == Memory(fn)
            X == CopiedTo(fn, fn.copy)
            Q == {"B", "C"}
            g == KeptRegs(fn)
            Q1 == FPRegs(fn)
            Q2 == RetRegs(fn.ret) \cup FPRegs(fn)
            g2 == ReturnRegs(fn)
            K0 == Known(s, Q, g, X, h, e)
            K1 == Known(s, Q1, g, X, h, e)
            K2 == Known(s, Q2, g2, X, h, e)
            a == Mark("SEEN")
            b == Mark("OUT")
            c == Mark("CALL")
            d == Mark("RESULT")
<1>1. /\ FunctionType(fn) /\ e \in BOOLEAN /\ fn.fp \in BOOLEAN /\ fn.call \in {"no", "framed", "plain"}
      /\ fn.ret \in {"none", "i8", "i16", "i32"} /\ (fn.fp => fn.call # "plain" /\ fn.ret # "i32")
  BY Layout DEF FunctionType
<1>2. /\ Safe(s, X, e) /\ Safe(s, X, TRUE) /\ X \subseteq Addr /\ s \in Nat /\ fn.out \in Nat
      /\ \A t \in X : t \in Nat /\ (t >= s + fn.out \/ t + 2 < s)
  BY <1>1, WholeFacts
<1>3. /\ {"A", "B", "C", "D", "E", "H", "L"} = Regs /\ AllRegs = Regs \cup {"F"}
  BY DEF Regs, AllRegs
<1>4. Q \subseteq AllRegs /\ Q1 \subseteq Q /\ Q1 \subseteq AllRegs
  BY <1>3 DEF FPRegs
<1>5. RetRegs(fn.ret) \subseteq {"A", "D", "E", "H", "L"}
  BY <1>1 DEF RetRegs
<1>6. Locals(fn) \subseteq X /\ Outside(fn) \cup Saved(fn) \subseteq X
  BY DEF CopiedTo, Filled
<1>7. Q2 \subseteq AllRegs
  BY <1>3, <1>4, <1>5
<1>8. \A x \in Machine : Fits(x, s, Q, g, X, h) => LocalsHold(fn, x) /\ CopyHolds(fn, x)
  BY <1>6, LocalsFound, CopyFound
<1>9. \A x \in Machine : Fits(x, s, Q1, g, X, h) => LocalsHold(fn, x)
  BY <1>6, LocalsFound
<1>10. \A r \in Q1 : g2[r] = g[r]
  BY <1>3, <1>4, <1>5 DEF KeptRegs, ReturnRegs, FPRegs
<1>11. \A r \in RetRegs(fn.ret) : g2[r] = Result[r]
  BY <1>3, <1>5 DEF ReturnRegs
<1>12. fn.call # "no" => Q1 \subseteq {"B", "C"}
  BY <1>4
<1>13. fn.call \notin {"no", "framed"} => Q1 = {}
  BY <1>1 DEF FPRegs
<1>14. s + fn.out \in Addr /\ \A k \in 0..fn.out - 1 : s + k \notin X
  <2>. DEFINE o == fn.out
  <2>1. s + o <= Entry /\ Entry \in Nat
    <3>1. s + o <= Base(fn) - fn.locals /\ Base(fn) = (IF fn.fp THEN Entry - 2 ELSE Entry)
      BY Layout
    <3>2. fn.locals \in Nat /\ Entry \in Nat
      BY <1>1, FrameFacts, AddrFacts
    <3>3. Base(fn) <= Entry /\ Base(fn) \in Int
      BY <3>1, <3>2
    <3>. QED
      BY <1>2, <3>1, <3>2, <3>3
  <2>. HIDE DEF o, s, X
  <2>2. s + o \in Addr
    <3>1. s + o \in 0..Entry
      BY <1>2, <2>1 DEF o
    <3>. QED
      BY <3>1, AddrFacts
  <2>3. ASSUME NEW k \in 0..o - 1 PROVE s + k \notin X
    <3>1. ASSUME s + k \in X PROVE FALSE
      <4>1. s + k >= s + o \/ s + k + 2 < s
        BY <1>2, <3>1 DEF o
      <4>. QED
        BY <1>2, <4>1 DEF o
    <3>. QED
      BY <3>1
  <2>. QED
    BY <2>2, <2>3 DEF o
<1>15. InBody(fn, CopiedTo(fn, fn.copy), ~fn.isr) = K0
  BY DEF InBody
<1>16. K2 \subseteq ExitStart(fn)
  <2>1. From(Q2, g2, Q2, g2, {}) /\ From(X, h, Outside(fn) \cup Saved(fn), h, {})
    BY <1>6 DEF From
  <2>. QED
    BY <2>1, KnownLess DEF ExitStart
<1>. HIDE DEF s, h, X, Q, g, Q1, Q2, g2, e
<1>17. Hoare(fn, K0, <<a>>, K0)
  BY <1>1, <1>2, <1>8, SeenStep
<1>18. Hoare(fn, K0, <<b>>, K0)
  BY <1>1, <1>2, <1>4, <1>8, <1>14, OutStep
<1>19. Hoare(fn, K0, <<c>>, K1)
  BY <1>1, <1>2, <1>4, <1>8, <1>12, <1>13, CallStep
<1>20. Hoare(fn, K1, <<d>>, K2)
  <2>1. From(Q1, g, Q2, g2, RetRegs(fn.ret))
    BY <1>10 DEF From, Q1, Q2
  <2>2. \A r \in Q2 \cap RetRegs(fn.ret) : g2[r] = Result[r]
    BY <1>11
  <2>. QED
    BY <1>1, <1>2, <1>7, <1>9, <2>1, <2>2, ResultStep
<1>. HIDE DEF K0, K1, K2, a, b, c, d
<1>21. Hoare(fn, K0, <<a, b, c, d>>, K2)
  BY <1>17, <1>18, <1>19, <1>20, Hoare4
<1>22. Hoare(fn, K0, <<a, b, c, d>>, ExitStart(fn))
  BY <1>16, <1>21, HoareWeaker
<1>. QED
  BY <1>15, <1>22 DEF Rest, a, b, c, d

LEMMA RestCode ==
  IsCode(Rest) /\ Len(Rest) = 4 /\ IsCode(Entered) /\ Len(Entered) = 2
<1>. DEFINE a == Mark("SEEN")
            b == Mark("OUT")
            c == Mark("CALL")
            d == Mark("RESULT")
<1>1. Rest = <<a, b, c, d>>
  BY DEF Rest
<1>. HIDE DEF a, b, c, d
<1>2. <<a, b, c, d>> \in Seq({a, b, c, d}) /\ Len(<<a, b, c, d>>) = 4
  OBVIOUS
<1>3. IsCode(Entered) /\ Len(Entered) = 2
  BY TwoCode DEF Entered
<1>. QED
  BY <1>1, <1>2, <1>3 DEF IsCode

LEMMA BodyRight ==
  ASSUME NEW fn \in Functions
  PROVE  Hoare(fn, BodyStart(fn), BodyCode(fn), ExitStart(fn)) /\ IsCode(BodyCode(fn))
<1>. DEFINE K1 == InBody(fn, Filled(fn), ~fn.isr)
            K2 == InBody(fn, CopiedTo(fn, fn.copy), ~fn.isr)
<1>1. Hoare(fn, BodyStart(fn), Entered, K1)
  BY EnteredRight
<1>2. Hoare(fn, K1, CopyCode(fn), K2) /\ IsCode(CopyCode(fn))
  BY CopyCodeRight
<1>3. Hoare(fn, K2, Rest, ExitStart(fn))
  BY RestRight
<1>. HIDE DEF K1, K2
<1>4. Hoare(fn, BodyStart(fn), Entered \o CopyCode(fn), K2) /\ IsCode(Entered \o CopyCode(fn))
  BY <1>1, <1>2, RestCode, JoinCode
<1>5. Hoare(fn, BodyStart(fn), (Entered \o CopyCode(fn)) \o Rest, ExitStart(fn)) /\ IsCode((Entered \o CopyCode(fn)) \o Rest)
  BY <1>3, <1>4, RestCode, JoinCode
<1>. QED
  BY <1>5 DEF BodyCode
-----------------------------------------------------------------------------
(* The epilogue and "RET".                                                  *)
Exit(fn) == Epilogue(fn) \o <<Mark("RET")>>
AtReturn(fn) ==
  Known(Entry, RetRegs(fn.ret) \cup (IF fn.fp THEN {"B", "C"} ELSE {}),
        [r \in AllRegs |-> IF r \in RetRegs(fn.ret) THEN Result[r] ELSE RegNumber[r]],
        Outside(fn), Memory(fn), ~fn.isr)

LEMMA Returning ==
  ASSUME NEW fn \in Functions
  PROVE  Hoare(fn, AtReturn(fn), <<Mark("RET")>>, {})
<1>. DEFINE e == ~fn.isr
            Q == RetRegs(fn.ret) \cup (IF fn.fp THEN {"B", "C"} ELSE {})
            g == [r \in AllRegs |-> IF r \in RetRegs(fn.ret) THEN Result[r] ELSE RegNumber[r]]
            X == Outside(fn)
            h == Memory(fn)
<1>1. e \in BOOLEAN /\ fn.ret \in {"none", "i8", "i16", "i32"}
  BY Layout DEF FunctionType
<1>2. /\ Entry \in Addr /\ Entry \in Nat /\ Entry >= 2 /\ Bottom(fn) \in Nat /\ Bottom(fn) <= Entry /\ Bottom(fn) > 2
  <2>1. /\ Bottom(fn) \in Nat /\ Bottom(fn) + StackSize(fn) = Base(fn) /\ Base(fn) = (IF fn.fp THEN Entry - 2 ELSE Entry)
    BY Layout
  <2>2. StackSize(fn) \in Nat /\ Entry \in Nat /\ Entry \in Addr
    BY Layout, FrameFacts, AddrFacts
  <2>3. Bottom(fn) > 2
    BY WholeFacts
  <2>4. Bottom(fn) <= Entry
    BY <2>1, <2>2
  <2>. QED
    BY <2>1, <2>2, <2>3, <2>4
<1>3. \A a \in X : a \in Nat /\ (a >= Entry \/ a + 2 < Bottom(fn))
  BY OutsideFacts, ByteFacts
<1>4. Safe(Entry, X, e) /\ X \subseteq Addr
  <2>1. ASSUME NEW a \in X PROVE a # Entry - 1 /\ a # Entry - 2
    BY <1>2, <1>3
  <2>2. X \subseteq Addr
    BY OutsideFacts
  <2>. QED
    BY <1>2, <2>1, <2>2 DEF Safe
<1>5. /\ RetRegs(fn.ret) \subseteq {"A", "D", "E", "H", "L"} /\ RetRegs(fn.ret) \subseteq AllRegs
      /\ "B" \in AllRegs /\ "C" \in AllRegs
  BY <1>1 DEF RetRegs, AllRegs, Regs
<1>6. ASSUME NEW c \in Known(Entry, Q, g, X, h, e) PROVE ReturnHolds(fn, c)
  <2>1. c.ie = e /\ c.m.sp = Entry /\ (\A r \in Q : c.m.reg[r] = g[r]) /\ (\A a \in X : c.m.mem[a] = h[a])
    BY DEF Known, Fits
  <2>2. \A r \in RetRegs(fn.ret) : c.m.reg[r] = Result[r]
    BY <1>5, <2>1
  <2>3. fn.fp => c.m.reg["B"] = RegNumber["B"] /\ c.m.reg["C"] = RegNumber["C"]
    <3>1. ASSUME fn.fp PROVE c.m.reg["B"] = RegNumber["B"] /\ c.m.reg["C"] = RegNumber["C"]
      <4>1. "B" \in Q /\ "C" \in Q
        BY <3>1
      <4>2. g["B"] = RegNumber["B"] /\ g["C"] = RegNumber["C"]
        BY <1>5
      <4>. QED
        BY <2>1, <4>1, <4>2
    <3>. QED
      BY <3>1
  <2>4. \A a \in Entry..(ByteSize * ByteSize - 1) : c.m.mem[a] = MemAtStart[a]
    <3>1. ASSUME NEW a \in Upper PROVE c.m.mem[a] = MemAtStart[a]
      <4>1. a \in X
        BY DEF Outside
      <4>. QED
        BY <2>1, <4>1, MemoryFacts
    <3>. QED
      BY <3>1 DEF Upper
  <2>. QED
    BY <2>1, <2>2, <2>3, <2>4 DEF ReturnHolds
<1>. HIDE DEF Q, g, X, h, e
<1>7. Hoare(fn, Known(Entry, Q, g, X, h, e), <<Mark("RET")>>, {})
  BY <1>1, <1>4, <1>6, RetStep
<1>. QED
  BY <1>7 DEF AtReturn, Q, g, X, h, e

(* Without a frame pointer SP is moved back up.                             *)
Swapped(fn, save) ==
  [r \in AllRegs |-> IF save /\ r = "D" THEN Result["H"] ELSE IF save /\ r = "E" THEN Result["L"] ELSE Result[r]]

LEMMA ExitWithoutFP ==
  ASSUME NEW fn \in Functions, ~fn.fp
  PROVE  Hoare(fn, ExitStart(fn), Epilogue(fn), AtReturn(fn)) /\ IsCode(Epilogue(fn))
<1>. DEFINE e == ~fn.isr
            live == RetRegs(fn.ret)
            n == StackSize(fn)
            clobbers == ClobbersHL(fn, n, live)
            save == fn.ret = "i16" /\ clobbers
            s == Bottom(fn)
            X == Outside(fn)
            h == Memory(fn)
            g0 == ReturnRegs(fn)
            g1 == Swapped(fn, save)
            Q1 == IF save THEN {"D", "E", "H", "L"} ELSE live
            Q2 == IF save THEN {"D", "E"} ELSE live
            g4 == [r \in AllRegs |-> IF r \in live THEN Result[r] ELSE RegNumber[r]]
            K0 == Known(s, live, g0, X, h, e)
            K1 == Known(s, Q1, g1, X, h, e)
            K2 == Known(Entry, Q2, g1, X, h, e)
            K3 == Known(Entry, live, g4, X, h, e)
            a == IF save THEN HLToDE ELSE <<>>
            b == AdjustSP(fn, n, live, FALSE)
            c == IF save THEN DEToHL ELSE <<>>
<1>1. /\ e \in BOOLEAN /\ fn.ret \in {"none", "i8", "i16", "i32"} /\ n \in Nat /\ s \in Addr /\ s \in Nat /\ s + n = Entry
      /\ Entry \in Addr /\ Entry \in Nat /\ s > 2 /\ ~LosesLong(fn)
  <2>1. FunctionType(fn) /\ s \in Addr /\ s \in Nat /\ s + n = Base(fn) /\ Base(fn) = Entry
    BY Layout
  <2>2. n \in Nat /\ Entry \in Nat /\ Entry \in Addr /\ s > 2
    BY <2>1, FrameFacts, AddrFacts, WholeFacts
  <2>3. ~LosesLong(fn)
    BY FunctionsAssumption
  <2>. QED
    BY <2>1, <2>2, <2>3 DEF FunctionType
<1>2. \A t \in X : t \in Nat /\ (t >= Entry \/ t + 2 < s)
  BY OutsideFacts, ByteFacts
<1>3. X \subseteq Addr
  BY OutsideFacts
<1>4. ExitStart(fn) = K0 /\ AtReturn(fn) = K3
  <2>1. FPRegs(fn) = {} /\ Saved(fn) = {} /\ live \cup {} = live /\ X \cup {} = X
    BY DEF FPRegs, Saved
  <2>2. ExitStart(fn) = K0
    BY <2>1 DEF ExitStart
  <2>3. AtReturn(fn) = K3
    BY <2>1 DEF AtReturn
  <2>. QED
    BY <2>2, <2>3
<1>5. Regs = {"A", "B", "C", "D", "E", "H", "L"} /\ AllRegs = Regs \cup {"F"}
  BY DEF Regs, AllRegs
<1>6. /\ live \subseteq {"A", "D", "E", "H", "L"} /\ (fn.ret = "i16" => live = {"H", "L"})
      /\ (fn.ret = "i8" => live = {"A"}) /\ (fn.ret = "none" => live = {})
  BY <1>1 DEF RetRegs
<1>7. clobbers => save \/ live \cap {"H", "L"} = {}
  BY <1>1, <1>6 DEF LosesLong
<1>8. /\ \A r \in live : g0[r] = Result[r] /\ g4[r] = Result[r]
  BY <1>5, <1>6 DEF ReturnRegs
<1>9. /\ g1["H"] = Result["H"] /\ g1["L"] = Result["L"]
      /\ save => g1["D"] = Result["H"] /\ g1["E"] = Result["L"]
      /\ ~save => \A r \in live : g1[r] = Result[r]
  BY <1>5, <1>6 DEF Swapped
<1>10. save => live = {"H", "L"}
  BY <1>6
<1>. HIDE DEF live, n, clobbers, s, X, h, g0, g1, g4, e
<1>11. Safe(s, X, e) /\ Safe(Entry, X, e)
  <2>1. ASSUME NEW t \in X PROVE t # s - 1 /\ t # s - 2 /\ t # Entry - 1 /\ t # Entry - 2
    BY <1>1, <1>2
  <2>2. s >= 2 /\ Entry >= 2
    BY <1>1
  <2>. QED
    BY <1>1, <2>1, <2>2 DEF Safe
<1>. HIDE DEF save
<1>12. Hoare(fn, K0, a, K1) /\ IsCode(a)
  <2>1. CASE save
    <3>. DEFINE Q == {"D", "E", "H", "L"}
    <3>1. Q1 = Q /\ Q \subseteq AllRegs /\ {"H", "L"} \subseteq Q
      BY <1>5, <2>1
    <3>2. From(live, g0, Q, g1, {"D", "E"}) /\ g1["D"] = g0["H"] /\ g1["E"] = g0["L"]
      BY <1>8, <1>9, <1>10, <2>1 DEF From
    <3>3. a = HLToDE
      BY <2>1
    <3>. HIDE DEF Q, Q1
    <3>. QED
      BY <1>3, <1>11, <3>1, <3>2, <3>3, SaveHL, MoveCode
  <2>2. CASE ~save
    <3>1. From(live, g0, Q1, g1, {}) /\ From(X, h, X, h, {})
      BY <1>8, <1>9, <2>2 DEF From
    <3>2. K0 \subseteq K1 /\ K0 \subseteq Config /\ Stable(K0)
      <4>. HIDE DEF Q1
      <4>. QED
        BY <1>3, <1>11, <3>1, KnownLess, KnownStable
    <3>3. a = <<>>
      BY <2>2
    <3>. HIDE DEF K0, K1
    <3>. QED
      BY <3>2, <3>3, HoareSkip, EmptyCode
  <2>. QED
    BY <2>1, <2>2
<1>13. Hoare(fn, K1, b, K2) /\ IsCode(b)
  <2>1. Q1 \subseteq AllRegs /\ Q2 \subseteq Q1 /\ "F" \notin Q2
    BY <1>5, <1>6
  <2>2. clobbers => Q2 \cap {"H", "L"} = {}
    BY <1>7
  <2>3. \A t \in X : t < s - 2 \/ t >= s + n
    <3>1. ASSUME NEW t \in X PROVE t < s - 2 \/ t >= s + n
      BY <1>1, <1>2
    <3>. QED
      BY <3>1
  <2>4. s >= 2 /\ s + n \in Addr /\ s + n = Entry
    BY <1>1
  <2>5. IsCode(b)
    BY <1>1, AdjustCode
  <2>6. PushPop(fn, n, live) => Q2 \subseteq live
    <3>1. PushPop(fn, n, live) => ~save
      BY DEF save, clobbers, ClobbersHL
    <3>. QED
      BY <3>1
  <2>. HIDE DEF Q1, Q2
  <2>7. Hoare(fn, Known(s, Q1, g1, X, h, e), AdjustSP(fn, n, live, FALSE), Known(s + n, Q2, g1, X, h, e))
    BY <1>1, <1>3, <2>1, <2>2, <2>3, <2>4, <2>6, AdjustUp DEF clobbers
  <2>. QED
    BY <2>4, <2>5, <2>7
<1>14. Hoare(fn, K2, c, K3) /\ IsCode(c)
  <2>1. CASE save
    <3>. DEFINE Q == {"D", "E", "H", "L"}
                g5 == [g1 EXCEPT !["H"] = Result["H"]]
                K4 == Known(Entry, Q, g1, X, h, e)
    <3>1. Q2 = {"D", "E"} /\ Q \subseteq AllRegs /\ {"D", "E"} \subseteq Q
      BY <1>5, <2>1
    <3>2. From(Q2, g1, Q, g1, {"H", "L"}) /\ g1["H"] = g1["D"] /\ g1["L"] = g1["E"]
      BY <1>9, <2>1, <3>1 DEF From
    <3>3. From(Q, g1, live, g4, {}) /\ From(X, h, X, h, {})
      BY <1>8, <1>9, <1>10, <2>1 DEF From
    <3>. HIDE DEF Q, Q2
    <3>4. Hoare(fn, K2, DEToHL, K4)
      BY <1>3, <1>11, <3>1, <3>2, RestoreHL
    <3>5. K4 \subseteq K3
      BY <3>3, KnownLess
    <3>6. c = DEToHL
      BY <2>1
    <3>. HIDE DEF K2, K3, K4, c
    <3>7. Hoare(fn, K2, DEToHL, K3)
      BY <3>4, <3>5, HoareWeaker
    <3>. QED
      BY <3>6, <3>7, MoveCode
  <2>2. CASE ~save
    <3>1. From(Q2, g1, live, g4, {}) /\ From(X, h, X, h, {})
      BY <1>8, <1>9, <2>2 DEF From
    <3>2. K2 \subseteq K3 /\ K2 \subseteq Config /\ Stable(K2)
      <4>. HIDE DEF Q2
      <4>. QED
        BY <1>3, <1>11, <3>1, KnownLess, KnownStable
    <3>3. c = <<>>
      BY <2>2
    <3>. HIDE DEF K2, K3
    <3>. QED
      BY <3>2, <3>3, HoareSkip, EmptyCode
  <2>. QED
    BY <2>1, <2>2
<1>. HIDE DEF K0, K1, K2, K3, a, b, c
<1>15. Hoare(fn, K0, a \o b, K2) /\ IsCode(a \o b)
  BY <1>12, <1>13, JoinCode
<1>16. Hoare(fn, K0, (a \o b) \o c, K3) /\ IsCode((a \o b) \o c)
  BY <1>14, <1>15, JoinCode
<1>17. Epilogue(fn) = (a \o b) \o c
  BY DEF Epilogue, a, b, c, save, clobbers, n, live
<1>. QED
  BY <1>4, <1>16, <1>17
(* With one SP comes back from it, and BC from the stack.                   *)
LEMMA ExitWithFP ==
  ASSUME NEW fn \in Functions, fn.fp
  PROVE  Hoare(fn, ExitStart(fn), Epilogue(fn), AtReturn(fn)) /\ IsCode(Epilogue(fn))
<1>. DEFINE e == ~fn.isr
            live == RetRegs(fn.ret)
            save == fn.ret = "i16"
            s == Bottom(fn)
            t == Entry - 2
            X == Outside(fn)
            X1 == Outside(fn) \cup Saved(fn)
            h == Memory(fn)
            R == RegNumber
            BC == {"B", "C"}
            g0 == ReturnRegs(fn)
            g1 == [r \in AllRegs |-> IF save /\ r = "D" THEN Result["H"] ELSE IF save /\ r = "E" THEN Result["L"] ELSE g0[r]]
            g2 == HLSet(g1, t)
            g3 == [r \in AllRegs |-> IF r = "B" THEN R["B"] ELSE IF r = "C" THEN R["C"] ELSE g1[r]]
            g4 == [r \in AllRegs |-> IF r \in live THEN Result[r] ELSE R[r]]
            Q0 == live \cup BC
            Q1 == IF save THEN {"B", "C", "D", "E", "H", "L"} ELSE live \cup BC
            P == IF save THEN {"B", "C", "D", "E"} ELSE live \cup BC
            K0 == Known(s, Q0, g0, X1, h, e)
            K1 == Known(s, Q1, g1, X1, h, e)
            K2 == Known(s, P \cup {"H"}, g2, X1, h, e)
            K3 == Known(s, P \cup {"H", "L"}, g2, X1, h, e)
            K4 == Known(t, P \cup {"H", "L"}, g2, X1, h, e)
            K5 == Known(Entry, P, g3, X, h, e)
            K6 == Known(Entry, Q0, g4, X, h, e)
            a == IF save THEN HLToDE ELSE <<>>
            b1 == Mov("H", "B")
            b2 == Mov("L", "C")
            b3 == Sphl
            b4 == Pop("BC")
            b == <<b1, b2, b3, b4>>
            c == IF save THEN DEToHL ELSE <<>>
<1>1. /\ e \in BOOLEAN /\ fn.ret \in {"none", "i8", "i16"} /\ s \in Addr /\ s \in Nat /\ s <= t /\ t \in Nat /\ t \in Addr
      /\ Entry \in Addr /\ Entry \in Nat /\ s > 2 /\ t + 2 = Entry /\ t + 1 = Entry - 1 /\ ArgSave(fn) = 0
  <2>1. /\ FunctionType(fn) /\ s \in Addr /\ s \in Nat /\ s + StackSize(fn) = Base(fn) /\ Base(fn) = t
        /\ Base(fn) \in Nat /\ Base(fn) \in Addr /\ ArgSave(fn) = 0 /\ fn.ret # "i32"
    BY Layout
  <2>2. StackSize(fn) \in Nat /\ Entry \in Nat /\ Entry \in Addr /\ s > 2
    BY <2>1, FrameFacts, AddrFacts, WholeFacts
  <2>3. e \in BOOLEAN /\ fn.ret \in {"none", "i8", "i16"}
    BY <2>1 DEF FunctionType
  <2>. HIDE DEF s
  <2>4. s <= t /\ t + 2 = Entry /\ t + 1 = Entry - 1
    BY <2>1, <2>2
  <2>. QED
    BY <2>1, <2>2, <2>3, <2>4
<1>2. Saved(fn) = {t, t + 1} /\ FPRegs(fn) = BC
  <2>1. Saved(fn) = {Entry - 2, Entry - 1}
    BY DEF Saved
  <2>. QED
    BY <1>1, <2>1 DEF FPRegs
<1>3. \A v \in X : v \in Nat /\ (v >= Entry \/ v + 2 < s)
  BY OutsideFacts, ByteFacts
<1>4. X \subseteq Addr /\ X1 \subseteq Addr
  BY OutsideFacts
<1>5. h[t + 1] = R["B"] /\ h[t] = R["C"]
  BY <1>1, MemoryFacts
<1>6. Regs = {"A", "B", "C", "D", "E", "H", "L"} /\ AllRegs = Regs \cup {"F"}
  BY DEF Regs, AllRegs
<1>7. live = (IF save THEN {"H", "L"} ELSE live) /\ (~save => live \subseteq {"A"})
  BY <1>1 DEF RetRegs
<1>8. ExitStart(fn) = K0 /\ AtReturn(fn) = K6
  <2>1. ExitStart(fn) = K0
    BY <1>2 DEF ExitStart
  <2>2. AtReturn(fn) = K6
    BY DEF AtReturn
  <2>. QED
    BY <2>1, <2>2
<1>. HIDE DEF live
<1>9. /\ g0["B"] = t \div ByteSize /\ g0["C"] = t % ByteSize /\ \A r \in live : g0[r] = Result[r] /\ g4[r] = Result[r]
      /\ g4["B"] = R["B"] /\ g4["C"] = R["C"]
  <2>1. "B" \notin live /\ "C" \notin live /\ live \subseteq AllRegs /\ "B" \in AllRegs /\ "C" \in AllRegs
    BY <1>6, <1>7
  <2>. QED
    BY <2>1 DEF ReturnRegs, FrameRegs, live
<1>. HIDE DEF s, t, X, h, R, e, g0, g4
<1>10. /\ g1["B"] = t \div ByteSize /\ g1["C"] = t % ByteSize
       /\ save => g1["D"] = Result["H"] /\ g1["E"] = Result["L"]
       /\ ~save => \A r \in AllRegs : g1[r] = g0[r]
       /\ \A r \in AllRegs \ {"D", "E"} : g1[r] = g0[r]
  <2>. HIDE DEF save
  <2>. QED
    BY <1>6, <1>9
<1>. HIDE DEF g1
<1>11. g2["H"] = t \div ByteSize /\ g2["L"] = t % ByteSize /\ \A r \in AllRegs \ {"H", "L"} : g2[r] = g1[r]
  BY <1>6 DEF HLSet
<1>12. g3["B"] = R["B"] /\ g3["C"] = R["C"] /\ \A r \in AllRegs \ {"B", "C"} : g3[r] = g1[r]
  BY <1>6
<1>. HIDE DEF g2, g3
<1>13. Safe(s, X1, e) /\ Safe(t, X1, e) /\ Safe(Entry, X, e)
  <2>1. ASSUME NEW v \in X PROVE v # s - 1 /\ v # s - 2 /\ v # t - 1 /\ v # t - 2 /\ v # Entry - 1 /\ v # Entry - 2
    BY <1>1, <1>3
  <2>2. ASSUME NEW v \in {t, t + 1} PROVE v # s - 1 /\ v # s - 2 /\ v # t - 1 /\ v # t - 2
    BY <1>1
  <2>3. s >= 2 /\ t >= 2 /\ Entry >= 2
    BY <1>1
  <2>4. X1 = X \cup {t, t + 1}
    BY <1>2 DEF X
  <2>. HIDE DEF X1
  <2>5. s - 1 \notin X1 /\ s - 2 \notin X1 /\ t - 1 \notin X1 /\ t - 2 \notin X1
    BY <2>1, <2>2, <2>4
  <2>6. Entry - 1 \notin X /\ Entry - 2 \notin X
    BY <2>1
  <2>. QED
    BY <1>1, <2>3, <2>5, <2>6 DEF Safe
<1>14. X1 = X \cup {t, t + 1}
  BY <1>2 DEF X
<1>. HIDE DEF X1
<1>15. /\ Q1 \subseteq AllRegs /\ P \subseteq AllRegs /\ P \subseteq Q1 /\ "H" \notin P /\ "L" \notin P /\ "B" \in P /\ "C" \in P
       /\ Q0 \subseteq AllRegs /\ P \cup {"H"} \subseteq AllRegs /\ P \cup {"H", "L"} \subseteq AllRegs
  BY <1>6, <1>7
<1>16. /\ save => Q1 = {"B", "C", "D", "E", "H", "L"} /\ P = {"B", "C", "D", "E"} /\ Q0 = {"B", "C", "H", "L"} /\ live = {"H", "L"}
       /\ ~save => Q1 = Q0 /\ P = Q0
  BY <1>7
<1>17. \A r \in Q0 : IF r \in BC THEN g4[r] = R[r] ELSE r \in live
  BY <1>9
<1>. HIDE DEF save, Q0, Q1, P
<1>18. Hoare(fn, K0, a, K1) /\ IsCode(a)
  <2>1. CASE save
    <3>1. {"H", "L"} \subseteq Q1 /\ g1["D"] = g0["H"] /\ g1["E"] = g0["L"]
      BY <1>9, <1>10, <1>16, <2>1
    <3>2. From(Q0, g0, Q1, g1, {"D", "E"})
      <4>1. \A r \in Q1 \ {"D", "E"} : r \in Q0 /\ g1[r] = g0[r]
        BY <1>6, <1>10, <1>16, <2>1
      <4>. QED
        BY <4>1 DEF From
    <3>3. a = HLToDE
      BY <2>1
    <3>. QED
      BY <1>4, <1>13, <1>15, <3>1, <3>2, <3>3, SaveHL, MoveCode
  <2>2. CASE ~save
    <3>1. From(Q0, g0, Q1, g1, {}) /\ From(X1, h, X1, h, {})
      BY <1>10, <1>15, <1>16, <2>2 DEF From
    <3>2. K0 \subseteq K1 /\ K0 \subseteq Config /\ Stable(K0)
      BY <1>4, <1>13, <3>1, KnownLess, KnownStable
    <3>3. a = <<>>
      BY <2>2
    <3>. HIDE DEF K0, K1
    <3>. QED
      BY <3>2, <3>3, HoareSkip, EmptyCode
  <2>. QED
    BY <2>1, <2>2
<1>19. Hoare(fn, K1, <<b1>>, K2)
  <2>. DEFINE Q == P \cup {"H"}
  <2>1. From(Q1, g1, Q, g2, {"H"})
    <3>1. \A r \in Q \ {"H"} : r \in Q1 /\ g2[r] = g1[r]
      BY <1>11, <1>15
    <3>. QED
      BY <3>1 DEF From
  <2>2. "B" \in Q1 /\ g2["H"] = g1["B"] /\ "H" \in Regs /\ "B" \in Regs /\ Q \subseteq AllRegs
    BY <1>6, <1>10, <1>11, <1>15
  <2>. HIDE DEF Q
  <2>3. Hoare(fn, K1, <<b1>>, Known(s, Q, g2, X1, h, e))
    BY <1>4, <1>13, <2>1, <2>2, MovStep
  <2>. QED
    BY <2>3 DEF Q
<1>20. Hoare(fn, K2, <<b2>>, K3)
  <2>. DEFINE Q == P \cup {"H"}
              V == P \cup {"H", "L"}
  <2>1. From(Q, g2, V, g2, {"L"})
    BY DEF From
  <2>2. "C" \in Q /\ g2["L"] = g2["C"] /\ "L" \in Regs /\ "C" \in Regs /\ V \subseteq AllRegs
    BY <1>6, <1>10, <1>11, <1>15
  <2>. HIDE DEF Q, V
  <2>3. Hoare(fn, Known(s, Q, g2, X1, h, e), <<b2>>, Known(s, V, g2, X1, h, e))
    BY <1>4, <1>13, <2>1, <2>2, MovStep
  <2>. QED
    BY <2>3 DEF Q, V
<1>21. Hoare(fn, K3, <<b3>>, K4)
  <2>. DEFINE V == P \cup {"H", "L"}
  <2>1. Holding("HL", V, g2, t)
    BY <1>1, <1>11, PairFacts DEF Holding
  <2>2. V \subseteq AllRegs
    BY <1>15
  <2>. HIDE DEF V
  <2>3. Hoare(fn, Known(s, V, g2, X1, h, e), <<b3>>, Known(t, V, g2, X1, h, e))
    BY <1>4, <1>13, <2>1, <2>2, SphlStep
  <2>. QED
    BY <2>3 DEF V
<1>22. Hoare(fn, K4, <<b4>>, K5)
  <2>. DEFINE V == P \cup {"H", "L"}
  <2>1. "BC" \in Pairs \cup {"PSW"} /\ Hi["BC"] = "B" /\ Lo["BC"] = "C"
    BY PairFacts DEF Pairs
  <2>2. From(V, g2, P, g3, {"B", "C"})
    <3>1. \A r \in P \ {"B", "C"} : r \in V /\ g3[r] = g2[r]
      BY <1>11, <1>12, <1>15
    <3>. QED
      BY <3>1 DEF From
  <2>3. /\ t + 1 \in X1 /\ t \in X1 /\ g3["B"] = h[t + 1] /\ g3["C"] = h[t] /\ X \subseteq X1 /\ t + 2 \in Addr
    BY <1>1, <1>5, <1>12, <1>14
  <2>. HIDE DEF V
  <2>4. Safe(t + 2, X, e)
    BY <1>1, <1>13
  <2>5. Hoare(fn, Known(t, V, g2, X1, h, e), <<Pop("BC")>>, Known(t + 2, P, g3, X, h, e))
    BY <1>4, <1>13, <1>15, <2>1, <2>2, <2>3, <2>4, PopStep
  <2>. QED
    BY <1>1, <2>5 DEF V
<1>23. Hoare(fn, K5, c, K6) /\ IsCode(c)
  <2>1. CASE save
    <3>. DEFINE V == {"B", "C", "D", "E", "H", "L"}
                g5 == [r \in AllRegs |-> IF r = "H" THEN Result["H"] ELSE IF r = "L" THEN Result["L"] ELSE g3[r]]
                K7 == Known(Entry, V, g5, X, h, e)
    <3>1. /\ g5["H"] = Result["H"] /\ g5["L"] = Result["L"] /\ \A r \in AllRegs \ {"H", "L"} : g5[r] = g3[r]
      BY <1>6
    <3>2. g3["D"] = Result["H"] /\ g3["E"] = Result["L"]
      BY <1>6, <1>10, <1>12, <2>1
    <3>. HIDE DEF g5
    <3>3. From(P, g3, V, g5, {"H", "L"}) /\ V \subseteq AllRegs /\ {"D", "E"} \subseteq V
      BY <1>6, <1>16, <2>1, <3>1 DEF From
    <3>4. g5["H"] = g3["D"] /\ g5["L"] = g3["E"]
      BY <3>1, <3>2
    <3>5. From(V, g5, Q0, g4, {}) /\ From(X, h, X, h, {})
      <4>1. \A r \in Q0 : r \in V /\ g4[r] = g5[r]
        BY <1>6, <1>9, <1>12, <1>16, <2>1, <3>1
      <4>. QED
        BY <4>1 DEF From
    <3>. HIDE DEF V
    <3>6. Hoare(fn, K5, DEToHL, K7)
      BY <1>4, <1>13, <3>3, <3>4, RestoreHL
    <3>7. K7 \subseteq K6
      BY <3>5, KnownLess
    <3>8. c = DEToHL
      BY <2>1
    <3>. HIDE DEF K5, K6, K7, c
    <3>9. Hoare(fn, K5, DEToHL, K6)
      BY <3>6, <3>7, HoareWeaker
    <3>. QED
      BY <3>8, <3>9, MoveCode
  <2>2. CASE ~save
    <3>1. From(P, g3, Q0, g4, {}) /\ From(X, h, X, h, {})
      <4>1. ASSUME NEW r \in Q0 PROVE r \in P /\ g4[r] = g3[r]
        <5>1. r \in P /\ r \in AllRegs
          BY <1>15, <1>16, <2>2
        <5>2. CASE r \in BC
          BY <1>9, <1>12, <5>1, <5>2
        <5>3. CASE r \notin BC
          <6>1. r \in live
            BY <1>17, <5>3
          <6>. QED
            BY <1>9, <1>10, <1>12, <2>2, <5>1, <5>3, <6>1
        <5>. QED
          BY <5>2, <5>3
      <4>. QED
        BY <4>1 DEF From
    <3>2. K5 \subseteq K6 /\ K5 \subseteq Config /\ Stable(K5)
      BY <1>4, <1>13, <3>1, KnownLess, KnownStable
    <3>3. c = <<>>
      BY <2>2
    <3>. HIDE DEF K5, K6
    <3>. QED
      BY <3>2, <3>3, HoareSkip, EmptyCode
  <2>. QED
    BY <2>1, <2>2
<1>. HIDE DEF K0, K1, K2, K3, K4, K5, K6, a, b1, b2, b3, b4, c
<1>24. Hoare(fn, K1, b, K5)
  BY <1>19, <1>20, <1>21, <1>22, Hoare4
<1>25. IsCode(b) /\ b \o <<>> = b
  <2>1. b \in Seq({b1, b2, b3, b4})
    OBVIOUS
  <2>2. b \o <<>> = b
    OBVIOUS
  <2>. QED
    BY <2>1, <2>2 DEF IsCode
<1>26. Epilogue(fn) = a \o (b \o <<>>) \o c
  <2>1. AdjustSP(fn, ArgSave(fn), live, FALSE) = <<>>
    BY <1>1 DEF AdjustSP
  <2>. QED
    BY <2>1 DEF Epilogue, a, b1, b2, b3, b4, c, save, live
<1>. HIDE DEF b
<1>27. Hoare(fn, K0, a \o b, K5) /\ IsCode(a \o b)
  BY <1>18, <1>24, <1>25, JoinCode
<1>28. Hoare(fn, K0, (a \o b) \o c, K6) /\ IsCode((a \o b) \o c)
  BY <1>23, <1>27, JoinCode
<1>. QED
  BY <1>8, <1>25, <1>26, <1>28

LEMMA ExitRight ==
  ASSUME NEW fn \in Functions
  PROVE  Hoare(fn, ExitStart(fn), Exit(fn), {}) /\ IsCode(Exit(fn)) /\ Len(Exit(fn)) = Len(Epilogue(fn)) + 1
<1>1. Hoare(fn, ExitStart(fn), Epilogue(fn), AtReturn(fn)) /\ IsCode(Epilogue(fn))
  BY ExitWithFP, ExitWithoutFP
<1>2. IsCode(<<Mark("RET")>>) /\ Len(<<Mark("RET")>>) = 1
  BY OneCode
<1>. QED
  BY <1>1, <1>2, Returning, JoinCode, ConcatCode DEF Exit
-----------------------------------------------------------------------------
(* The code that is laid out and what V6ClangSPTrickOpt makes of it.        *)
LEMMA SliceFacts ==
  ASSUME NEW s, NEW t, IsCode(s), IsCode(t)
  PROVE  SubSeq(s \o t, 1, Len(s)) = s /\ SubSeq(s \o t, Len(s) + 1, Len(s \o t)) = t
<1>1. PICK S : s \in Seq(S)
  BY DEF IsCode
<1>2. PICK T : t \in Seq(T)
  BY DEF IsCode
<1>. DEFINE U == S \cup T
            v == s \o t
            k == Len(s)
            n == Len(t)
            a == SubSeq(v, 1, k)
            b == SubSeq(v, k + 1, Len(v))
<1>3. s \in Seq(U) /\ t \in Seq(U)
  BY <1>1, <1>2
<1>4. /\ v \in Seq(U) /\ Len(v) = k + n
      /\ \A i \in 1..k + n : v[i] = IF i <= k THEN s[i] ELSE t[i - k]
  BY <1>3, ConcatProperties
<1>5. k \in Nat /\ n \in Nat /\ s = [i \in 1..k |-> s[i]] /\ t = [i \in 1..n |-> t[i]]
  BY <1>3
<1>. HIDE DEF U, v, k, n
<1>6. /\ a = [i \in 1..k |-> v[i]]
  BY <1>4, <1>5
<1>7. b = [i \in 1..n |-> v[i + k]]
  BY <1>4, <1>5
<1>8. a = s
  BY <1>4, <1>5, <1>6
<1>9. ASSUME NEW i \in 1..n PROVE v[i + k] = t[i]
  <2>1. i + k \in 1..k + n /\ ~(i + k <= k) /\ (i + k) - k = i
    BY <1>5
  <2>. QED
    BY <1>4, <2>1
<1>10. b = t
  BY <1>5, <1>7, <1>9
<1>. QED
  BY <1>8, <1>10 DEF v, k

Cat(s, t) == s \o t

LEMMA CatAssociative ==
  ASSUME NEW s, NEW t, NEW u, IsCode(s), IsCode(t), IsCode(u)
  PROVE  Cat(Cat(s, t), u) = Cat(s, Cat(t, u))
<1>1. PICK S : s \in Seq(S)
  BY DEF IsCode
<1>2. PICK T : t \in Seq(T)
  BY DEF IsCode
<1>3. PICK U : u \in Seq(U)
  BY DEF IsCode
<1>. DEFINE V == S \cup T \cup U
<1>4. s \in Seq(V) /\ t \in Seq(V) /\ u \in Seq(V)
  BY <1>1, <1>2, <1>3
<1>. HIDE DEF V
<1>5. (s \o t) \o u = s \o (t \o u)
  BY <1>4, ConcatAssociative
<1>. QED
  BY <1>5 DEF Cat

LEMMA CatCode ==
  ASSUME NEW s, NEW t, IsCode(s), IsCode(t)
  PROVE  IsCode(Cat(s, t)) /\ Len(Cat(s, t)) = Len(s) + Len(t)
BY ConcatCode DEF Cat

LEMMA PrologueCode ==
  ASSUME NEW fn \in Functions
  PROVE  IsCode(Prologue(fn))
<1>. DEFINE live == LiveIn(fn)
            n == FrameSize(fn)
            adjust == AdjustSP(fn, n, live, TRUE)
            fp == IF fn.fp THEN SetFP ELSE <<>>
            save == live \cap {"H", "L"} # {} /\ (fn.fp \/ ClobbersHL(fn, n, live))
            push == <<Push("HL"), Push("DE")>>
            pre == IF save THEN HLToDE ELSE <<>>
            post == IF save THEN DEToHL ELSE <<>>
            r == ReloadArgs(n)
<1>1. n \in Nat
  BY Layout, FrameFacts
<1>2. IsCode(adjust)
  BY <1>1, AdjustCode
<1>3. IsCode(fp) /\ IsCode(push) /\ IsCode(pre) /\ IsCode(post) /\ IsCode(r)
  BY MoveCode, TwoCode, EmptyCode
<1>4. Prologue(fn) = IF SavesArgs(fn) THEN ((push \o fp) \o adjust) \o r ELSE ((pre \o fp) \o adjust) \o post
  BY DEF Prologue
<1>. HIDE DEF adjust, fp, push, pre, post, r
<1>5. IsCode(((push \o fp) \o adjust) \o r)
  <2>1. IsCode(push \o fp)
    BY <1>3, ConcatCode
  <2>2. IsCode((push \o fp) \o adjust)
    BY <1>2, <2>1, ConcatCode
  <2>. QED
    BY <1>3, <2>2, ConcatCode
<1>6. IsCode(((pre \o fp) \o adjust) \o post)
  <2>1. IsCode(pre \o fp)
    BY <1>3, ConcatCode
  <2>2. IsCode((pre \o fp) \o adjust)
    BY <1>2, <2>1, ConcatCode
  <2>. QED
    BY <1>3, <2>2, ConcatCode
<1>. QED
  BY <1>4, <1>5, <1>6

(* Copies one after the other.                                              *)
LEMMA CopyBytesSplit ==
  ASSUME NEW k \in Nat, NEW j \in Nat
  PROVE  CopyBytes(0, k + j) = CopyBytes(0, k) \o CopyBytes(k, j)
<1>. DEFINE u == CopyBytes(0, k)
            v == CopyBytes(k, j)
            w == CopyBytes(0, k + j)
<1>1. /\ IsCode(u) /\ Len(u) = 4 * k /\ IsCode(v) /\ Len(v) = 4 * j /\ IsCode(w) /\ Len(w) = 4 * (k + j)
  <2>1. 0 \in Nat /\ k + j \in Nat
    OBVIOUS
  <2>2. IsCode(CopyBytes(0, k)) /\ Len(CopyBytes(0, k)) = 4 * k
    BY <2>1, CopyBytesCode
  <2>3. IsCode(CopyBytes(k, j)) /\ Len(CopyBytes(k, j)) = 4 * j
    BY CopyBytesCode
  <2>4. IsCode(CopyBytes(0, k + j)) /\ Len(CopyBytes(0, k + j)) = 4 * (k + j)
    BY <2>1, CopyBytesCode
  <2>. QED
    BY <2>2, <2>3, <2>4
<1>2. /\ \A p \in 1..4 * k : u[p] = CopyByte(0 + ((p - 1) \div 4))[1 + ((p - 1) % 4)]
      /\ \A p \in 1..4 * j : v[p] = CopyByte(k + ((p - 1) \div 4))[1 + ((p - 1) % 4)]
      /\ \A p \in 1..4 * (k + j) : w[p] = CopyByte(0 + ((p - 1) \div 4))[1 + ((p - 1) % 4)]
  BY DEF CopyBytes, Rounds
<1>3. w = [p \in 1..4 * (k + j) |-> w[p]]
  BY DEF CopyBytes, Rounds
<1>. HIDE DEF u, v, w
<1>4. PICK S : u \in Seq(S)
  BY <1>1 DEF IsCode
<1>5. PICK T : v \in Seq(T)
  BY <1>1 DEF IsCode
<1>6. u \in Seq(S \cup T) /\ v \in Seq(S \cup T)
  BY <1>4, <1>5
<1>. DEFINE x == u \o v
<1>7. /\ x \in Seq(S \cup T) /\ Len(x) = 4 * k + 4 * j
      /\ \A p \in 1..4 * k + 4 * j : x[p] = IF p <= 4 * k THEN u[p] ELSE v[p - 4 * k]
  <2>. DEFINE U == S \cup T
  <2>1. u \in Seq(U) /\ v \in Seq(U)
    BY <1>6
  <2>. HIDE DEF U
  <2>2. /\ x \in Seq(U) /\ Len(x) = Len(u) + Len(v)
        /\ \A p \in 1..Len(u) + Len(v) : x[p] = IF p <= Len(u) THEN u[p] ELSE v[p - Len(u)]
    BY <2>1, ConcatProperties
  <2>. HIDE DEF x
  <2>. QED
    BY <1>1, <2>2 DEF U
<1>. HIDE DEF x
<1>8. 4 * k + 4 * j = 4 * (k + j)
  OBVIOUS
<1>9. ASSUME NEW p \in 1..4 * (k + j) PROVE x[p] = w[p]
  <2>1. CASE p <= 4 * k
    BY <1>2, <1>7, <1>8, <2>1
  <2>2. CASE p > 4 * k
    <3>. DEFINE q == p - 4 * k
    <3>1. q \in 1..4 * j
      BY <1>8, <2>2
    <3>2. (p - 1) \div 4 = k + ((q - 1) \div 4) /\ (p - 1) % 4 = (q - 1) % 4
      <4>1. p - 1 = 4 * k + (q - 1) /\ q - 1 \in Nat
        BY <3>1
      <4>. HIDE DEF q
      <4>. QED
        BY <4>1
    <3>3. x[p] = v[q]
      BY <1>7, <1>8, <2>2
    <3>4. v[q] = CopyByte(k + ((q - 1) \div 4))[1 + ((q - 1) % 4)]
      BY <1>2, <3>1
    <3>5. w[p] = CopyByte(0 + ((p - 1) \div 4))[1 + ((p - 1) % 4)]
      BY <1>2
    <3>6. 0 + ((p - 1) \div 4) = k + ((q - 1) \div 4)
      BY <3>1, <3>2
    <3>. QED
      BY <3>2, <3>3, <3>4, <3>5, <3>6
  <2>. QED
    BY <2>1, <2>2
<1>10. x = [p \in 1..4 * (k + j) |-> x[p]]
  BY <1>7, <1>8
<1>11. x = w
  BY <1>3, <1>9, <1>10
<1>. QED
  BY <1>11 DEF x, u, v, w

(* The code with the copy z \o y, cut before and after z, and with k \o y for*)
(* z.                                                                       *)
Spliced(p, e, z, y, r, t, k) ==
  LET u == Cat(Cat(y, r), t)
      w == Cat(Cat(p, Cat(Cat(e, Cat(z, y)), r)), t)
  IN /\ w = Cat(Cat(p, e), Cat(z, u)) /\ w = Cat(Cat(Cat(p, e), z), u)
     /\ Cat(Cat(Cat(Cat(p, e), k), y), u) = Cat(Cat(p, Cat(Cat(e, Cat(Cat(k, y), y)), r)), t)

LEMMA Splice ==
  ASSUME NEW p, NEW e, NEW z, NEW y, NEW r, NEW t, NEW k,
         IsCode(p), IsCode(e), IsCode(z), IsCode(y), IsCode(r), IsCode(t), IsCode(k)
  PROVE  Spliced(p, e, z, y, r, t, k)
<1>1. \A a, c : IsCode(a) /\ IsCode(c) => IsCode(Cat(a, c))
  BY CatCode
<1>2. \A a, c, d : IsCode(a) /\ IsCode(c) /\ IsCode(d) => Cat(Cat(a, c), d) = Cat(a, Cat(c, d))
  BY CatAssociative
<1>. DEFINE u == Cat(Cat(y, r), t)
            v == Cat(r, t)
            b == Cat(Cat(k, y), y)
<1>3. IsCode(u) /\ IsCode(v) /\ IsCode(Cat(y, r)) /\ u = Cat(y, v)
  BY <1>1, <1>2
<1>4. ASSUME NEW w, IsCode(w) PROVE Cat(Cat(p, Cat(Cat(e, w), r)), t) = Cat(p, Cat(e, Cat(w, v)))
  <2>1. IsCode(Cat(e, w)) /\ IsCode(Cat(Cat(e, w), r))
    BY <1>1, <1>4
  <2>2. Cat(Cat(p, Cat(Cat(e, w), r)), t) = Cat(p, Cat(Cat(Cat(e, w), r), t))
    BY <1>2, <2>1
  <2>3. Cat(Cat(Cat(e, w), r), t) = Cat(Cat(e, w), v)
    BY <1>2, <2>1
  <2>4. Cat(Cat(e, w), v) = Cat(e, Cat(w, v))
    BY <1>2, <1>3, <1>4
  <2>. QED
    BY <2>2, <2>3, <2>4
<1>5. IsCode(Cat(z, y)) /\ Cat(Cat(z, y), v) = Cat(z, u)
  BY <1>1, <1>2, <1>3
<1>6. Cat(Cat(p, Cat(Cat(e, Cat(z, y)), r)), t) = Cat(p, Cat(e, Cat(z, u)))
  BY <1>4, <1>5
<1>7. IsCode(Cat(p, e)) /\ IsCode(Cat(z, u))
  BY <1>1, <1>3
<1>8. Cat(p, Cat(e, Cat(z, u))) = Cat(Cat(p, e), Cat(z, u))
  BY <1>2, <1>7
<1>9. Cat(Cat(p, e), Cat(z, u)) = Cat(Cat(Cat(p, e), z), u)
  BY <1>2, <1>3, <1>7
<1>10. IsCode(b) /\ IsCode(Cat(k, y))
  BY <1>1
<1>11. Cat(Cat(p, Cat(Cat(e, b), r)), t) = Cat(p, Cat(e, Cat(b, v)))
  BY <1>4, <1>10
<1>12. Cat(b, v) = Cat(k, Cat(y, u))
  <2>1. Cat(b, v) = Cat(Cat(k, y), u)
    BY <1>2, <1>3, <1>10
  <2>2. Cat(Cat(k, y), u) = Cat(k, Cat(y, u))
    BY <1>2, <1>3
  <2>. QED
    BY <2>1, <2>2
<1>13. Cat(Cat(Cat(Cat(p, e), k), y), u) = Cat(p, Cat(e, Cat(k, Cat(y, u))))
  <2>1. IsCode(Cat(Cat(p, e), k)) /\ IsCode(Cat(y, u)) /\ IsCode(Cat(k, Cat(y, u)))
    BY <1>1, <1>3, <1>7
  <2>2. Cat(Cat(Cat(Cat(p, e), k), y), u) = Cat(Cat(Cat(p, e), k), Cat(y, u))
    BY <1>2, <1>3, <2>1
  <2>3. Cat(Cat(Cat(p, e), k), Cat(y, u)) = Cat(Cat(p, e), Cat(k, Cat(y, u)))
    BY <1>2, <1>7, <2>1
  <2>4. Cat(Cat(p, e), Cat(k, Cat(y, u))) = Cat(p, Cat(e, Cat(k, Cat(y, u))))
    BY <1>2, <2>1
  <2>. QED
    BY <2>2, <2>3, <2>4
<1>14. Cat(Cat(p, Cat(Cat(e, Cat(z, y)), r)), t) = Cat(Cat(p, e), Cat(z, u))
  BY <1>6, <1>8
<1>15. Cat(Cat(p, Cat(Cat(e, Cat(z, y)), r)), t) = Cat(Cat(Cat(p, e), z), u)
  BY <1>9, <1>14
<1>16. Cat(Cat(Cat(Cat(p, e), k), y), u) = Cat(Cat(p, Cat(Cat(e, b), r)), t)
  BY <1>11, <1>12, <1>13
<1>. QED
  BY <1>14, <1>15, <1>16 DEF u, b, Spliced

(* V6ClangSPTrickOpt replaces just the copy.                                *)
LEMMA SPTrickRight ==
  ASSUME NEW fn \in Functions, NEW t, IsCode(t)
  PROVE  SPTrick(fn, (Prologue(fn) \o Body(fn)) \o t) = (Prologue(fn) \o BodyCode(fn)) \o t
<1>1. CASE ~Tricks(fn)
  <2>1. Body(fn) = BodyCode(fn)
    BY <1>1 DEF Body, BodyCode, CopyCode
  <2>. QED
    BY <1>1, <2>1 DEF SPTrick
<1>2. CASE Tricks(fn)
  <2>. DEFINE c == fn.copy
              n == Even(c)
              p == Prologue(fn)
              e == Entered
              z == CopyBytes(0, n)
              y == CopyBytes(n, c - n)
              r == Rest
              k == Trick(n)
              blk == (p \o Body(fn)) \o t
              start == CopyStart(fn)
              a == Cat(p, e)
              u == Cat(Cat(y, r), t)
              w == Cat(Cat(p, Cat(Cat(e, Cat(z, y)), r)), t)
              first == SubSeq(blk, 1, start)
              last == SubSeq(blk, start + 4 * n + 1, Len(blk))
  <2>1. c \in Nat
    BY Layout DEF FunctionType
  <2>2. n \in Nat /\ n <= c /\ c - n \in Nat /\ n + (c - n) = c
    BY <2>1, EvenFacts
  <2>3. IsCode(p) /\ IsCode(e) /\ IsCode(r) /\ Len(e) = 2
    BY PrologueCode, RestCode
  <2>4. IsCode(z) /\ IsCode(y) /\ Len(z) = 4 * n
    <3>1. 0 \in Nat
      OBVIOUS
    <3>. HIDE DEF n
    <3>. QED
      BY <2>2, <3>1, CopyBytesCode
  <2>5. IsCode(k)
    <3>1. n \div 2 \in Nat /\ n = 2 * (n \div 2)
      BY <2>1, EvenFacts
    <3>. HIDE DEF n
    <3>. QED
      BY <2>2, <3>1, TrickRight
  <2>6. blk = w
    <3>. HIDE DEF n
    <3>1. CopyBytes(0, n + (c - n)) = z \o y
      BY <2>2, CopyBytesSplit
    <3>2. Body(fn) = (e \o (z \o y)) \o r
      BY <2>2, <3>1 DEF Body
    <3>. QED
      BY <3>2 DEF Cat
  <2>7. SPTrick(fn, blk) = Cat(Cat(Cat(first, k), y), last)
    BY <1>2 DEF SPTrick, Cat
  <2>8. start = Len(p) + 2
    BY <2>3 DEF CopyStart
  <2>9. (p \o BodyCode(fn)) \o t = Cat(Cat(p, Cat(Cat(e, Cat(Cat(k, y), y)), r)), t)
    BY <1>2 DEF BodyCode, CopyCode, OddCopy, Cat
  <2>. HIDE DEF n, p, e, z, y, r, k, start, blk
  <2>10. /\ w = Cat(a, Cat(z, u)) /\ w = Cat(Cat(a, z), u)
         /\ Cat(Cat(Cat(a, k), y), u) = Cat(Cat(p, Cat(Cat(e, Cat(Cat(k, y), y)), r)), t)
    <3>1. Spliced(p, e, z, y, r, t, k)
      BY <2>3, <2>4, <2>5, Splice
    <3>. QED
      BY <3>1 DEF Spliced
  <2>11. IsCode(a) /\ Len(a) = start
    BY <2>3, <2>8, CatCode
  <2>12. IsCode(u)
    <3>1. IsCode(Cat(y, r))
      BY <2>3, <2>4, CatCode
    <3>. QED
      BY <3>1, CatCode
  <2>. HIDE DEF a, u, w
  <2>13. IsCode(Cat(z, u)) /\ IsCode(Cat(a, z)) /\ Len(Cat(a, z)) = start + 4 * n
    BY <2>4, <2>11, <2>12, CatCode
  <2>14. first = a
    <3>1. SubSeq(a \o Cat(z, u), 1, Len(a)) = a
      BY <2>11, <2>13, SliceFacts
    <3>2. blk = a \o Cat(z, u)
      BY <2>6, <2>10 DEF Cat
    <3>. QED
      BY <2>11, <3>1, <3>2
  <2>15. last = u
    <3>. DEFINE x == Cat(a, z)
    <3>1. IsCode(x) /\ Len(x) = start + 4 * n
      BY <2>13
    <3>2. blk = x \o u
      BY <2>6, <2>10 DEF Cat
    <3>. HIDE DEF x
    <3>3. SubSeq(x \o u, Len(x) + 1, Len(x \o u)) = u
      BY <2>12, <3>1, SliceFacts
    <3>. QED
      BY <3>1, <3>2, <3>3
  <2>. HIDE DEF first, last
  <2>16. SPTrick(fn, blk) = (p \o BodyCode(fn)) \o t
    BY <2>7, <2>9, <2>10, <2>14, <2>15
  <2>. QED
    BY <2>16 DEF blk, p
<1>. QED
  BY <1>1, <1>2
-----------------------------------------------------------------------------
(* The blocks as PrologEpilogInserter leaves them, and as they are run.     *)
LaidOut(fn) ==
  LET entry == Prologue(fn) \o Body(fn)
      exit == Epilogue(fn) \o <<Mark("RET")>>
  IN IF fn.exits = 0 THEN <<entry \o exit>> ELSE <<entry>> \o Times(fn.exits, exit)

EntryCode(fn) ==
  IF fn.exits = 0 THEN (Prologue(fn) \o BodyCode(fn)) \o Exit(fn) ELSE Prologue(fn) \o BodyCode(fn)
AllBlocks(entry, exit, n) == <<entry>> \o Times(n, exit)
FinalCode(fn) == AllBlocks(EntryCode(fn), Exit(fn), fn.exits)

LEMMA EntryRight ==
  ASSUME NEW fn \in Functions
  PROVE  Hoare(fn, Start(fn), EntryCode(fn), ExitStart(fn)) /\ IsCode(EntryCode(fn))
<1>. DEFINE c == Prologue(fn) \o BodyCode(fn)
            t == Exit(fn)
            P == Start(fn)
            Q == ExitStart(fn)
<1>1. Hoare(fn, P, c, Q) /\ IsCode(c)
  BY PrologueRight, PrologueCode, BodyRight, JoinCode
<1>2. Hoare(fn, Q, t, {}) /\ IsCode(t)
  BY ExitRight
<1>3. EntryCode(fn) = IF fn.exits = 0 THEN c \o t ELSE c
  BY DEF EntryCode
<1>. HIDE DEF c, t, P, Q
<1>4. Hoare(fn, P, c \o t, {}) /\ IsCode(c \o t)
  BY <1>1, <1>2, JoinCode
<1>5. Hoare(fn, P, c \o t, Q)
  <2>1. {} \subseteq Q
    OBVIOUS
  <2>. QED
    BY <1>4, <2>1, HoareWeaker
<1>. QED
  BY <1>1, <1>3, <1>4, <1>5 DEF P, Q

LEMMA BlocksOf ==
  ASSUME NEW a, NEW t, NEW n \in Nat
  PROVE  /\ Len(AllBlocks(a, t, n)) = n + 1
         /\ AllBlocks(a, t, n) = [b \in 1..(n + 1) |-> IF b = 1 THEN a ELSE t]
<1>. DEFINE x == <<a>>
            y == Times(n, t)
            S == {a, t}
            c == x \o y
<1>1. x \in Seq(S) /\ Len(x) = 1 /\ x[1] = a
  OBVIOUS
<1>2. y \in Seq(S) /\ Len(y) = n /\ \A k \in 1..n : y[k] = t
  BY DEF Times
<1>. HIDE DEF x, y, S
<1>3. /\ c \in Seq(S) /\ Len(c) = 1 + n
      /\ \A k \in 1..1 + n : c[k] = IF k <= 1 THEN x[k] ELSE y[k - 1]
  <2>1. /\ c \in Seq(S) /\ Len(c) = Len(x) + Len(y)
        /\ \A k \in 1..Len(x) + Len(y) : c[k] = IF k <= Len(x) THEN x[k] ELSE y[k - Len(x)]
    BY <1>1, <1>2, ConcatProperties
  <2>. HIDE DEF c
  <2>. QED
    BY <1>1, <1>2, <2>1
<1>. HIDE DEF c
<1>4. c = [b \in 1..(n + 1) |-> c[b]]
  BY <1>3
<1>5. ASSUME NEW b \in 1..(n + 1) PROVE c[b] = IF b = 1 THEN a ELSE t
  <2>1. CASE b = 1
    BY <1>1, <1>3, <2>1
  <2>2. CASE b # 1
    <3>1. b - 1 \in 1..n /\ ~(b <= 1)
      BY <2>2
    <3>. QED
      BY <1>2, <1>3, <2>2, <3>1
  <2>. QED
    BY <2>1, <2>2
<1>6. c = AllBlocks(a, t, n)
  BY DEF AllBlocks, c, x, y
<1>7. c = [b \in 1..(n + 1) |-> IF b = 1 THEN a ELSE t]
  BY <1>4, <1>5
<1>8. Len(c) = n + 1
  BY <1>3
<1>. QED
  BY <1>6, <1>7, <1>8

(* Every block of the final code is annotated; what it leaves, if it does   *)
(* not return, is what a returning block starts with.                       *)
BlockEntry(fn, b) == IF b = 1 THEN Start(fn) ELSE ExitStart(fn)

LEMMA FinalRight ==
  ASSUME NEW fn \in Functions
  PROVE  /\ Len(FinalCode(fn)) = fn.exits + 1 /\ Len(FinalCode(fn)) \in Nat
         /\ \A b \in 1..Len(FinalCode(fn)) :
              /\ Hoare(fn, BlockEntry(fn, b), FinalCode(fn)[b], ExitStart(fn))
              /\ Len(FinalCode(fn)[b]) \in Nat
<1>. DEFINE n == fn.exits
            a == EntryCode(fn)
            t == Exit(fn)
            c == FinalCode(fn)
            P == Start(fn)
            Q == ExitStart(fn)
<1>1. n \in Nat
  BY Layout DEF FunctionType
<1>2. Hoare(fn, P, a, Q) /\ IsCode(a)
  BY EntryRight
<1>3. Hoare(fn, Q, t, {}) /\ IsCode(t)
  BY ExitRight
<1>4. c = AllBlocks(a, t, n)
  BY DEF FinalCode
<1>5. \A b : BlockEntry(fn, b) = IF b = 1 THEN P ELSE Q
  BY DEF BlockEntry
<1>. HIDE DEF n, a, t, c, P, Q
<1>6. Len(c) = n + 1 /\ c = [b \in 1..(n + 1) |-> IF b = 1 THEN a ELSE t]
  BY <1>1, <1>4, BlocksOf
<1>7. Hoare(fn, Q, t, Q)
  <2>1. {} \subseteq Q
    OBVIOUS
  <2>. QED
    BY <1>3, <2>1, HoareWeaker
<1>8. Len(a) \in Nat /\ Len(t) \in Nat
  BY <1>2, <1>3 DEF IsCode
<1>9. ASSUME NEW b \in 1..(n + 1)
      PROVE  Hoare(fn, BlockEntry(fn, b), c[b], Q) /\ Len(c[b]) \in Nat
  <2>1. CASE b = 1
    BY <1>2, <1>5, <1>6, <1>8, <2>1
  <2>2. CASE b # 1
    BY <1>5, <1>6, <1>7, <1>8, <2>2
  <2>. QED
    BY <2>1, <2>2
<1>10. Len(c) = n + 1 /\ Len(c) \in Nat
  BY <1>1, <1>6
<1>. QED
  BY <1>6, <1>9, <1>10 DEF n, c, Q

(* What the two passes make is the final code.                              *)
LEMMA PassesRight ==
  ASSUME NEW fn \in Functions
  PROVE  [LaidOut(fn) EXCEPT ![1] = SPTrick(fn, @)] = FinalCode(fn)
<1>. DEFINE n == fn.exits
            p == Prologue(fn)
            q == p \o Body(fn)
            t == Exit(fn)
            w == p \o BodyCode(fn)
            o == LaidOut(fn)
            a == EntryCode(fn)
<1>1. n \in Nat
  BY Layout DEF FunctionType
<1>2. IsCode(t) /\ IsCode(w) /\ IsCode(q)
  <2>1. IsCode(p) /\ IsCode(BodyCode(fn)) /\ IsCode(t)
    BY PrologueCode, BodyRight, ExitRight
  <2>2. IsCode(Body(fn))
    <3>1. fn.copy \in Nat /\ 0 \in Nat
      BY Layout DEF FunctionType
    <3>2. IsCode(CopyBytes(0, fn.copy))
      BY <3>1, CopyBytesCode
    <3>3. IsCode(Entered \o CopyBytes(0, fn.copy))
      BY <3>2, RestCode, ConcatCode
    <3>. QED
      BY <3>3, RestCode, ConcatCode DEF Body
  <2>. HIDE DEF p
  <2>. QED
    BY <2>1, <2>2, ConcatCode
<1>3. SPTrick(fn, q \o t) = w \o t
  BY <1>2, SPTrickRight
<1>4. SPTrick(fn, q) = w
  <2>1. SPTrick(fn, q \o <<>>) = w \o <<>>
    BY EmptyCode, SPTrickRight
  <2>. HIDE DEF q, w
  <2>2. q \o <<>> = q /\ w \o <<>> = w
    BY <1>2, ConcatEmptySeq DEF IsCode
  <2>. QED
    BY <2>1, <2>2
<1>5. o = IF n = 0 THEN <<q \o t>> ELSE <<q>> \o Times(n, t)
  BY DEF LaidOut, Exit
<1>6. a = IF n = 0 THEN w \o t ELSE w
  BY DEF EntryCode
<1>7. FinalCode(fn) = AllBlocks(a, t, n)
  BY DEF FinalCode
<1>. HIDE DEF n, p, q, t, w, o, a
<1>8. FinalCode(fn) = [b \in 1..(n + 1) |-> IF b = 1 THEN a ELSE t]
  BY <1>1, <1>7, BlocksOf
<1>9. CASE n = 0
  <2>1. o = <<q \o t>> /\ a = w \o t
    BY <1>5, <1>6, <1>9
  <2>. DEFINE u == q \o t
  <2>2. [o EXCEPT ![1] = SPTrick(fn, @)] = [b \in 1..1 |-> a]
    <3>1. SPTrick(fn, u) = a /\ o = <<u>>
      BY <1>3, <2>1
    <3>. HIDE DEF u
    <3>2. <<u>> = [b \in 1..1 |-> u]
      OBVIOUS
    <3>. QED
      BY <3>1, <3>2
  <2>. QED
    BY <1>8, <1>9, <2>2 DEF o
<1>10. CASE n # 0
  <2>1. o = AllBlocks(q, t, n) /\ a = w
    BY <1>5, <1>6, <1>10 DEF AllBlocks
  <2>2. o = [b \in 1..(n + 1) |-> IF b = 1 THEN q ELSE t]
    BY <1>1, <2>1, BlocksOf
  <2>3. 1 \in 1..(n + 1)
    BY <1>1
  <2>. QED
    BY <1>4, <1>8, <2>1, <2>2, <2>3 DEF o
<1>. QED
  BY <1>9, <1>10

(* The machine the function is entered with.                                *)
MachineAtStart == [reg |-> RegNumber, sp |-> Entry, mem |-> MemAtStart]

LEMMA StartsRight ==
  ASSUME NEW fn \in Functions
  PROVE  [m |-> MachineAtStart, ie |-> ~fn.isr] \in Start(fn)
<1>. DEFINE x == MachineAtStart
            e == ~fn.isr
            X == Outside(fn)
            h == Memory(fn)
<1>1. e \in BOOLEAN
  BY Layout DEF FunctionType
<1>2. RegNumber \in [AllRegs -> Byte]
  <2>1. RegNumber = [r \in AllRegs |-> RegNumber[r]]
    BY DEF RegNumber, AllRegs, Regs
  <2>. QED
    BY <2>1, ValueFacts
<1>3. MemAtStart \in [Addr -> Byte]
  <2>1. ASSUME NEW a \in Addr PROVE (a + 3) % ByteSize \in Byte
    BY ByteFacts DEF Byte
  <2>. QED
    BY <2>1 DEF MemAtStart
<1>4. x \in Machine
  BY <1>2, <1>3, AddrFacts, MachineOf DEF MachineAtStart
<1>5. \A a \in X : h[a] = MemAtStart[a]
  BY MemoryFacts
<1>6. x.sp = Entry /\ x.reg = RegNumber /\ x.mem = MemAtStart
  BY DEF MachineAtStart
<1>. HIDE DEF x, X, h, e
<1>7. Fits(x, Entry, Regs, RegNumber, X, h)
  BY <1>5, <1>6 DEF Fits
<1>8. [m |-> x, ie |-> e] \in Config
  BY <1>1, <1>4 DEF Config
<1>9. [m |-> x, ie |-> e] \in Known(Entry, Regs, RegNumber, X, h, e)
  BY <1>7, <1>8 DEF Known
<1>. QED
  BY <1>9 DEF Start, x, X, h, e
-----------------------------------------------------------------------------
(* The invariant: the code of each phase, the machine before the run, and   *)
(* the configuration of a running function where an annotation of its block *)
(* puts it.                                                                 *)
Located(fn, c, here) ==
  /\ here.blk \in 1..Len(FinalCode(fn)) /\ here.pos \in 0..Len(FinalCode(fn)[here.blk])
  /\ here = [blk |-> here.blk, pos |-> here.pos]
  /\ \E F : /\ Annotates(fn, F, FinalCode(fn)[here.blk])
            /\ c \in F[here.pos] /\ F[Len(FinalCode(fn)[here.blk])] \subseteq ExitStart(fn)

FInv ==
  /\ f \in Functions
  /\ phase \in {"pei", "sp", "cfi", "run"}
  /\ phase = "sp" => code = LaidOut(f)
  /\ phase \in {"cfi", "run"} => code = FinalCode(f)
  /\ phase # "run" => m = MachineAtStart /\ ie = ~f.isr /\ at = [blk |-> 1, pos |-> 0]
  /\ phase = "run" => Located(f, [m |-> m, ie |-> ie], at)

(* A block that is entered as its annotation begins.                        *)
LEMMA EntersBlock ==
  ASSUME NEW fn \in Functions, NEW b \in 1..Len(FinalCode(fn)), NEW c \in BlockEntry(fn, b)
  PROVE  Located(fn, c, [blk |-> b, pos |-> 0])
<1>. DEFINE s == FinalCode(fn)[b]
            here == [blk |-> b, pos |-> 0]
            Q == ExitStart(fn)
<1>1. Hoare(fn, BlockEntry(fn, b), s, Q) /\ Len(s) \in Nat
  BY FinalRight
<1>2. PICK F : Annotates(fn, F, s) /\ BlockEntry(fn, b) \subseteq F[0] /\ F[Len(s)] \subseteq Q
  BY <1>1 DEF Hoare
<1>3. here.blk = b /\ here.pos = 0 /\ here = [blk |-> here.blk, pos |-> here.pos]
  OBVIOUS
<1>. HIDE DEF here
<1>4. \E G : Annotates(fn, G, s) /\ c \in G[here.pos] /\ G[Len(s)] \subseteq Q
  BY <1>2, <1>3
<1>5. here.pos \in 0..Len(s)
  BY <1>1, <1>3
<1>. QED
  BY <1>3, <1>4, <1>5 DEF Located, here

(* One instruction.                                                         *)
LEMMA StepsOn ==
  ASSUME NEW fn \in Functions, NEW c, NEW here, Located(fn, c, here),
         here.pos # Len(FinalCode(fn)[here.blk])
  PROVE  LET i == FinalCode(fn)[here.blk][here.pos + 1] IN
         /\ Asked(fn, c, i)
         /\ i.op # "RET" => Located(fn, Step(fn, c, i), [here EXCEPT !.pos = @ + 1])
<1>. DEFINE b == here.blk
            k == here.pos
            s == FinalCode(fn)[b]
            i == s[k + 1]
            next == [here EXCEPT !.pos = @ + 1]
            Q == ExitStart(fn)
<1>1. b \in 1..Len(FinalCode(fn)) /\ k \in 0..Len(s) /\ here = [blk |-> b, pos |-> k]
  BY DEF Located
<1>2. Len(s) \in Nat
  BY <1>1, FinalRight
<1>3. PICK F : Annotates(fn, F, s) /\ c \in F[k] /\ F[Len(s)] \subseteq Q
  BY DEF Located
<1>4. next = [blk |-> b, pos |-> k + 1]
  BY <1>1
<1>5. next.blk = b /\ next.pos = k + 1 /\ next = [blk |-> next.blk, pos |-> next.pos]
  BY <1>4
<1>. HIDE DEF next
<1>6. k # Len(s)
  OBVIOUS
<1>. HIDE DEF b, k, s
<1>7. k + 1 \in 1..Len(s) /\ k + 1 \in 0..Len(s) /\ (k + 1) - 1 = k
  BY <1>1, <1>2, <1>6
<1>8. Asked(fn, c, i) /\ (i.op # "RET" => Step(fn, c, i) \in F[k + 1])
  BY <1>3, <1>7 DEF Annotates
<1>. HIDE DEF i
<1>9. ASSUME i.op # "RET" PROVE Located(fn, Step(fn, c, i), next)
  <2>1. Step(fn, c, i) \in F[next.pos]
    BY <1>5, <1>8, <1>9
  <2>2. s = FinalCode(fn)[next.blk]
    BY <1>5 DEF s
  <2>3. \E G : Annotates(fn, G, s) /\ Step(fn, c, i) \in G[next.pos] /\ G[Len(s)] \subseteq Q
    BY <1>3, <2>1
  <2>4. next.blk \in 1..Len(FinalCode(fn)) /\ next.pos \in 0..Len(s)
    BY <1>1, <1>5, <1>7
  <2>. QED
    BY <1>5, <2>2, <2>3, <2>4 DEF Located, Q
<1>. QED
  BY <1>8, <1>9 DEF i, s, b, k, next

LEMMA SameCode ==
  ASSUME FInv, phase = "run"
  PROVE  code[at.blk] = FinalCode(f)[at.blk] /\ code = FinalCode(f) /\ f \in Functions
         /\ Located(f, [m |-> m, ie |-> ie], at)
BY DEF FInv

LEMMA InitInvariant ==
  FrameInit => FInv
BY DEF FrameInit, FInv, MachineAtStart

(* Before the run: the passes.                                              *)
LEMMA PassesStep ==
  ASSUME FInv, InsertPrologEpilog \/ RunSPTrick \/ CfiStep
  PROVE  FInv'
<1>1. CASE InsertPrologEpilog
  <2>1. code' = LaidOut(f) /\ phase' = "sp" /\ phase = "pei" /\ f' = f /\ m' = m /\ ie' = ie /\ at' = at
    BY <1>1 DEF InsertPrologEpilog, LaidOut
  <2>. QED
    BY <2>1 DEF FInv
<1>2. CASE RunSPTrick
  <2>1. /\ code' = [code EXCEPT ![1] = SPTrick(f, @)] /\ phase' = "cfi" /\ phase = "sp"
        /\ f' = f /\ m' = m /\ ie' = ie /\ at' = at
    BY <1>2 DEF RunSPTrick
  <2>2. code = LaidOut(f) /\ f \in Functions
    BY <2>1 DEF FInv
  <2>3. code' = FinalCode(f)
    BY <2>1, <2>2, PassesRight
  <2>. QED
    BY <2>1, <2>3 DEF FInv
<1>3. CASE CfiStep
  <2>1. phase = "cfi" /\ f' = f /\ phase' = phase /\ code' = code /\ at' = at /\ m' = m /\ ie' = ie
    BY <1>3 DEF CfiStep
  <2>. QED
    BY <2>1 DEF FInv
<1>. QED
  BY <1>1, <1>2, <1>3

LEMMA WalkStep ==
  ASSUME FInv, CfiBlock
  PROVE  FInv'
<1>1. /\ phase = "cfi" /\ phase' \in {"cfi", "run"} /\ f' = f /\ code' = code /\ at' = at /\ m' = m /\ ie' = ie
  BY DEF CfiBlock
<1>2. /\ f \in Functions /\ code = FinalCode(f) /\ m = MachineAtStart /\ ie = ~f.isr
      /\ at = [blk |-> 1, pos |-> 0]
  BY <1>1 DEF FInv
<1>3. Located(f, [m |-> m, ie |-> ie], at)
  <2>. DEFINE c == [m |-> m, ie |-> ie]
  <2>1. c \in Start(f)
    BY <1>2, StartsRight
  <2>2. 1 \in 1..Len(FinalCode(f))
    <3>1. f.exits \in Nat /\ Len(FinalCode(f)) = f.exits + 1
      BY <1>2, FinalRight, Layout DEF FunctionType
    <3>. QED
      BY <3>1
  <2>3. c \in BlockEntry(f, 1)
    BY <2>1 DEF BlockEntry
  <2>. HIDE DEF c
  <2>4. Located(f, c, [blk |-> 1, pos |-> 0])
    BY <1>2, <2>2, <2>3, EntersBlock
  <2>. QED
    BY <1>2, <2>4 DEF c
<1>. QED
  BY <1>1, <1>2, <1>3 DEF FInv

LEMMA ExecuteStep ==
  ASSUME FInv, Execute
  PROVE  FInv'
<1>. DEFINE i == code[at.blk][at.pos + 1]
            c == [m |-> m, ie |-> ie]
            d == [m |-> m', ie |-> ie']
<1>1. phase = "run" /\ at.pos # Len(code[at.blk]) /\ NextOp = i.op /\ i.op # "RET"
  BY DEF Execute, NextOp, AtEnd
<1>2. /\ m' = Effect(f, m, i) /\ at' = [at EXCEPT !.pos = @ + 1]
      /\ ie' = (IF i.op = "EI" THEN TRUE ELSE IF i.op = "DI" THEN FALSE ELSE ie)
      /\ f' = f /\ phase' = phase /\ code' = code
  BY <1>1 DEF Execute
<1>3. code[at.blk] = FinalCode(f)[at.blk] /\ code = FinalCode(f) /\ f \in Functions /\ Located(f, c, at)
  BY <1>1, SameCode
<1>4. d = Step(f, c, i)
  BY <1>2 DEF Step
<1>5. Located(f, Step(f, c, i), [at EXCEPT !.pos = @ + 1])
  <2>. HIDE DEF c
  <2>. QED
    BY <1>1, <1>3, StepsOn
<1>. HIDE DEF i, c
<1>6. Located(f, d, at')
  BY <1>2, <1>4, <1>5
<1>. QED
  BY <1>1, <1>2, <1>3, <1>6 DEF FInv

LEMMA BranchStep ==
  ASSUME FInv, Branch
  PROVE  FInv'
<1>. DEFINE c == [m |-> m, ie |-> ie]
<1>1. /\ phase = "run" /\ at.pos = Len(code[at.blk])
      /\ f' = f /\ phase' = phase /\ code' = code /\ m' = m /\ ie' = ie
  BY DEF Branch, AtEnd
<1>2. PICK b \in 2..Len(code) : at' = [blk |-> b, pos |-> 0]
  BY DEF Branch
<1>3. code[at.blk] = FinalCode(f)[at.blk] /\ code = FinalCode(f) /\ f \in Functions /\ Located(f, c, at)
  BY <1>1, SameCode
<1>. HIDE DEF c
<1>4. c \in ExitStart(f)
  BY <1>1, <1>3 DEF Located
<1>5. b \in 1..Len(FinalCode(f)) /\ b # 1
  BY <1>3, <1>2, FinalRight
<1>6. c \in BlockEntry(f, b)
  BY <1>4, <1>5 DEF BlockEntry
<1>7. Located(f, c, at')
  BY <1>2, <1>3, <1>5, <1>6, EntersBlock
<1>. QED
  BY <1>1, <1>3, <1>7 DEF FInv, c

LEMMA InterruptStep ==
  ASSUME FInv, Interrupt
  PROVE  FInv'
<1>. DEFINE c == [m |-> m, ie |-> ie]
            d == [m |-> Interrupted(c.m, Junk), ie |-> c.ie]
            b == at.blk
            k == at.pos
            s == FinalCode(f)[b]
<1>1. /\ phase = "run" /\ ie /\ m' = Interrupted(m, Junk)
      /\ f' = f /\ phase' = phase /\ code' = code /\ at' = at /\ ie' = ie
  BY DEF Interrupt
<1>2. code = FinalCode(f) /\ f \in Functions /\ Located(f, c, at)
  BY <1>1, SameCode
<1>3. PICK F : Annotates(f, F, s) /\ c \in F[k] /\ F[Len(s)] \subseteq ExitStart(f)
  BY <1>2 DEF Located
<1>4. k \in 0..Len(s)
  BY <1>2 DEF Located
<1>5. c.ie
  BY <1>1
<1>6. [m |-> m', ie |-> ie'] = d
  BY <1>1
<1>. HIDE DEF c, k, s
<1>7. d \in F[k]
  BY <1>3, <1>4, <1>5 DEF Annotates, Stable
<1>. HIDE DEF d
<1>8. Located(f, d, at)
  BY <1>2, <1>3, <1>7 DEF Located, k, s
<1>. QED
  BY <1>1, <1>2, <1>6, <1>8 DEF FInv

THEOREM FrameInvariant ==
  FrameSpec => []FInv
<1>1. FrameInit => FInv
  BY InitInvariant
<1>2. FInv /\ [FrameNext]_frameVars => FInv'
  <2>1. ASSUME FInv, FrameNext PROVE FInv'
    BY <2>1, PassesStep, WalkStep, ExecuteStep, BranchStep, InterruptStep DEF FrameNext
  <2>2. ASSUME FInv, UNCHANGED frameVars PROVE FInv'
    BY <2>2 DEF FInv, frameVars
  <2>. QED
    BY <2>1, <2>2
<1>. QED
  BY <1>1, <1>2, PTL DEF FrameSpec

(* Whatever is next finds what the properties ask.                          *)
LEMMA NextIsAsked ==
  ASSUME FInv
  PROVE  NextOp # "" =>
           \E i : i.op = NextOp /\ Asked(f, [m |-> m, ie |-> ie], i)
<1>. DEFINE i == code[at.blk][at.pos + 1]
            c == [m |-> m, ie |-> ie]
<1>1. SUFFICES ASSUME NextOp # "" PROVE i.op = NextOp /\ Asked(f, c, i)
  OBVIOUS
<1>2. phase = "run" /\ at.pos # Len(code[at.blk]) /\ NextOp = i.op
  BY <1>1 DEF NextOp, AtEnd
<1>3. code[at.blk] = FinalCode(f)[at.blk] /\ f \in Functions /\ Located(f, c, at)
  BY <1>2, SameCode
<1>. HIDE DEF c
<1>4. Asked(f, c, i)
  BY <1>2, <1>3, StepsOn
<1>. QED
  BY <1>2, <1>4

(* Every argument the function reads is where the calling convention and    *)
(* the frame-index offsets put it when the body starts: no prologue that    *)
(* emitPrologue can emit, through whatever tier and whatever registers it   *)
(* moves SP, destroys one, and no interrupt during it.                      *)
THEOREM ArgsAreKept ==
  FrameSpec => []ArgsKept
<1>1. FInv => ArgsKept
  <2>1. ASSUME FInv, NextOp = "BODY" PROVE ArgsHold(f, m)
    <3>1. PICK i : i.op = "BODY" /\ Asked(f, [m |-> m, ie |-> ie], i)
      BY <2>1, NextIsAsked
    <3>. QED
      BY <3>1 DEF Asked
  <2>. QED
    BY <2>1 DEF ArgsKept, ArgsHold
<1>. QED
  BY <1>1, FrameInvariant, PTL

(* At RET the stack pointer, the returned value, the caller's frame pointer,*)
(* the caller's stack and the interrupt-enable flip-flop are as the caller  *)
(* relies on: the epilogue undoes the prologue in every block that returns. *)
THEOREM ReturnsAreRight ==
  FrameSpec => []ReturnsRight
<1>1. FInv => ReturnsRight
  <2>1. ASSUME FInv, NextOp = "RET" PROVE ReturnHolds(f, [m |-> m, ie |-> ie])
    <3>1. PICK i : i.op = "RET" /\ Asked(f, [m |-> m, ie |-> ie], i)
      BY <2>1, NextIsAsked
    <3>. QED
      BY <3>1 DEF Asked
  <2>. QED
    BY <2>1 DEF ReturnsRight, ReturnHolds
<1>. QED
  BY <1>1, FrameInvariant, PTL

(* What the body stored in its locals is there whenever the body goes on:   *)
(* no interrupt, callee, outgoing argument or copy with SP as its pointer   *)
(* writes over it.                                                          *)
THEOREM LocalsAreKept ==
  FrameSpec => []LocalsKept
<1>1. FInv => LocalsKept
  <2>1. ASSUME FInv, NextOp \in BodyOps PROVE LocalsHold(f, m)
    <3>1. NextOp # ""
      BY <2>1 DEF BodyOps
    <3>2. PICK i : i.op = NextOp /\ Asked(f, [m |-> m, ie |-> ie], i)
      BY <2>1, <3>1, NextIsAsked
    <3>. QED
      BY <2>1, <3>2 DEF Asked
  <2>. QED
    BY <2>1 DEF LocalsKept, LocalsHold, BodyOps
<1>. QED
  BY <1>1, FrameInvariant, PTL

(* The copy V6ClangSPTrickOpt makes of a byte-by-byte copy leaves the same  *)
(* data, and the registers that are live across it, also when interrupts    *)
(* come at every point where they are enabled.                              *)
THEOREM CopiesAreRight ==
  FrameSpec => []CopyRight
<1>1. FInv => CopyRight
  <2>1. ASSUME FInv, NextOp = "SEEN" PROVE CopyHolds(f, m)
    <3>1. PICK i : i.op = "SEEN" /\ Asked(f, [m |-> m, ie |-> ie], i)
      BY <2>1, NextIsAsked
    <3>. QED
      BY <3>1 DEF Asked
  <2>. QED
    BY <2>1 DEF CopyRight, CopyHolds
<1>. QED
  BY <1>1, FrameInvariant, PTL
=============================================================================
