-------------------------- MODULE PatchedReloadProofs --------------------------
(***************************************************************************)
(* Theorems about V6ClangSpillPatchedReload, for every block: the scan for  *)
(* dead registers stays sound while one slot after another is rewritten.    *)
(* The lemmas about Trace and about 8080 code are those of                  *)
(* SpillForwardingProofs.                                                   *)
(***************************************************************************)
EXTENDS PatchedReload, SpillForwardingProofs, FiniteSetTheorems

Touch(x) == UsesOf(x) \cup DefsOf(x)

(* The instructions of the block as it came, and those the pass makes.      *)
Allocated(words) == {x \in PatchPseudo : PatchOperands(x, words)}
Coded == [op : {"MC"}, i : Instructions, undef : SUBSET AllRegs, killed : SUBSET AllRegs, patch : Nat]
InBlock(words) == Allocated(words) \cup Coded

-----------------------------------------------------------------------------
(* A register is dead after instruction k if what touches it next does not  *)
(* read it.                                                                 *)
LEMMA DeadMeans ==
  ASSUME NEW b, Len(b) \in Nat, NEW k \in Nat, NEW lo, NEW r
  PROVE  DeadAfter(b, k, lo, r) <=>
           \/ (\A j \in k + 1..Len(b) : r \notin Touch(b[j])) /\ r \notin lo
           \/ \E j \in k + 1..Len(b) : /\ r \in Touch(b[j]) /\ r \notin UsesOf(b[j])
                                       /\ \A i \in k + 1..j - 1 : r \notin Touch(b[i])
<1>. DEFINE T == {j \in k + 1..Len(b) : r \in UsesOf(b[j]) \cup DefsOf(b[j])}
            F(S) == CHOOSE j \in S : \A i \in S : j <= i
<1>1. DeadAfter(b, k, lo, r) <=> IF T = {} THEN r \notin lo ELSE r \notin UsesOf(b[F(T)])
  BY DEF DeadAfter
<1>2. \A j \in k + 1..Len(b) : j \in T <=> r \in Touch(b[j])
  BY DEF Touch
<1>3. T \subseteq Nat /\ T \subseteq k + 1..Len(b)
  OBVIOUS
<1>. HIDE DEF T
<1>4. CASE T = {}
  BY <1>1, <1>2, <1>4
<1>5. CASE T # {}
  <2>1. \E n \in T : \A i \in T : n <= i
    BY <1>3, <1>5, LeastElement
  <2>2. F(T) \in T /\ \A i \in T : F(T) <= i
    BY <2>1
  <2>. DEFINE f == F(T)
  <2>5. DeadAfter(b, k, lo, r) <=> r \notin UsesOf(b[f])
    BY <1>1, <1>5
  <2>6. f \in T /\ \A i \in T : f <= i
    BY <2>2
  <2>. HIDE DEF f
  <2>3. f \in k + 1..Len(b) /\ r \in Touch(b[f]) /\ \A i \in k + 1..f - 1 : r \notin Touch(b[i])
    BY <1>2, <1>3, <2>6
  <2>4. ASSUME NEW j \in k + 1..Len(b), r \in Touch(b[j]), \A i \in k + 1..j - 1 : r \notin Touch(b[i])
        PROVE  j = f
    <3>1. ~(f < j) /\ ~(j < f)
      BY <2>3, <2>4
    <3>. QED
      BY <2>3, <3>1
  <2>. QED
    BY <2>3, <2>4, <2>5
<1>. QED
  BY <1>4, <1>5

-----------------------------------------------------------------------------
(* Of a sequence of instructions: the registers it reads before it writes   *)
(* them, those it touches, writes and marks killed.                         *)
Reading(s) == {r \in Regs : \E j \in 1..Len(s) : r \in UsesOf(s[j]) /\ \A i \in 1..j - 1 : r \notin Touch(s[i])}
Touched(s) == {r \in Regs : \E j \in 1..Len(s) : r \in Touch(s[j])}
Written(s) == {r \in Regs : \E j \in 1..Len(s) : r \in DefsOf(s[j])}
Killing(s) == {r \in Regs : \E j \in 1..Len(s) : r \in KilledBy(s[j])}

LEMMA ScanOne ==
  ASSUME NEW x
  PROVE  /\ Reading(<<x>>) = UsesOf(x) \cap Regs /\ Touched(<<x>>) = Touch(x) \cap Regs
         /\ Written(<<x>>) = DefsOf(x) \cap Regs /\ Killing(<<x>>) = KilledBy(x) \cap Regs
<1>. DEFINE s == <<x>>
<1>1. Len(s) = 1 /\ s[1] = x
  OBVIOUS
<1>. HIDE DEF s
<1>2. Reading(s) = UsesOf(x) \cap Regs /\ Touched(s) = Touch(x) \cap Regs
  BY <1>1 DEF Reading, Touched
<1>3. Written(s) = DefsOf(x) \cap Regs /\ Killing(s) = KilledBy(x) \cap Regs
  BY <1>1 DEF Written, Killing
<1>. QED
  BY <1>2, <1>3 DEF s

LEMMA ScanJoin ==
  ASSUME NEW S, NEW s \in Seq(S), NEW t \in Seq(S)
  PROVE  /\ Reading(s \o t) = Reading(s) \cup (Reading(t) \ Touched(s))
         /\ Touched(s \o t) = Touched(s) \cup Touched(t)
         /\ Written(s \o t) = Written(s) \cup Written(t)
         /\ Killing(s \o t) = Killing(s) \cup Killing(t)
<1>. DEFINE w == s \o t
            m0 == Len(s)
            n0 == Len(t)
<1>1. /\ m0 \in Nat /\ n0 \in Nat /\ Len(w) = m0 + n0
      /\ \A i \in 1..m0 : w[i] = s[i]
      /\ \A i \in 1..n0 : w[m0 + i] = t[i]
  BY JoinFacts
<1>. HIDE DEF w
<1>2. \A j \in 1..Len(w) : (j \in 1..m0 /\ w[j] = s[j]) \/ (j - m0 \in 1..n0 /\ w[j] = t[j - m0])
  <2>1. ASSUME NEW j \in 1..Len(w), j \notin 1..m0 PROVE j - m0 \in 1..n0 /\ w[j] = t[j - m0]
    <3>1. j - m0 \in 1..n0 /\ m0 + (j - m0) = j
      BY <1>1, <2>1
    <3>. QED
      BY <1>1, <3>1
  <2>. QED
    BY <1>1, <2>1
<1>3. \A i \in 1..m0 : i \in 1..Len(w)
  BY <1>1
<1>4. \A i \in 1..n0 : m0 + i \in 1..Len(w)
  BY <1>1
<1>. HIDE DEF m0, n0
<1>5. Touched(w) = Touched(s) \cup Touched(t)
  BY <1>1, <1>2, <1>3, <1>4 DEF Touched, m0, n0
<1>6. Written(w) = Written(s) \cup Written(t)
  BY <1>1, <1>2, <1>3, <1>4 DEF Written, m0, n0
<1>7. Killing(w) = Killing(s) \cup Killing(t)
  BY <1>1, <1>2, <1>3, <1>4 DEF Killing, m0, n0
<1>8. ASSUME NEW r \in Regs PROVE r \in Reading(w) <=> r \in Reading(s) \/ (r \in Reading(t) /\ r \notin Touched(s))
  <2>1. ASSUME r \in Reading(s) PROVE r \in Reading(w)
    <3>1. PICK j \in 1..m0 : r \in UsesOf(s[j]) /\ \A i \in 1..j - 1 : r \notin Touch(s[i])
      BY <2>1 DEF Reading, m0
    <3>2. j \in 1..Len(w) /\ w[j] = s[j] /\ \A i \in 1..j - 1 : i \in 1..m0 /\ w[i] = s[i]
      BY <1>1, <1>3
    <3>. QED
      BY <3>1, <3>2 DEF Reading
  <2>2. ASSUME r \in Reading(t), r \notin Touched(s) PROVE r \in Reading(w)
    <3>1. PICK j \in 1..n0 : r \in UsesOf(t[j]) /\ \A i \in 1..j - 1 : r \notin Touch(t[i])
      BY <2>2 DEF Reading, n0
    <3>2. m0 + j \in 1..Len(w) /\ w[m0 + j] = t[j]
      BY <1>1, <1>4
    <3>3. ASSUME NEW i \in 1..(m0 + j) - 1 PROVE r \notin Touch(w[i])
      <4>1. i \in 1..Len(w)
        BY <1>1
      <4>2. CASE i \in 1..m0
        BY <1>1, <2>2, <4>2 DEF Touched, m0
      <4>3. CASE i \notin 1..m0
        <5>1. i - m0 \in 1..n0 /\ w[i] = t[i - m0]
          BY <1>2, <4>1, <4>3
        <5>2. i - m0 \in 1..j - 1
          BY <1>1, <5>1
        <5>. QED
          BY <3>1, <5>1, <5>2
      <4>. QED
        BY <4>2, <4>3
    <3>. QED
      BY <3>1, <3>2, <3>3 DEF Reading
  <2>3. ASSUME r \in Reading(w) PROVE r \in Reading(s) \/ (r \in Reading(t) /\ r \notin Touched(s))
    <3>1. PICK j \in 1..Len(w) : r \in UsesOf(w[j]) /\ \A i \in 1..j - 1 : r \notin Touch(w[i])
      BY <2>3 DEF Reading
    <3>2. CASE j \in 1..m0
      <4>1. w[j] = s[j] /\ \A i \in 1..j - 1 : i \in 1..m0 /\ w[i] = s[i]
        BY <1>1, <3>2
      <4>. QED
        BY <3>1, <3>2, <4>1 DEF Reading, m0
    <3>3. CASE j \notin 1..m0
      <4>1. j - m0 \in 1..n0 /\ w[j] = t[j - m0] /\ m0 < j
        BY <1>1, <1>2, <3>3
      <4>2. \A i \in 1..m0 : i \in 1..j - 1 /\ w[i] = s[i]
        BY <1>1, <4>1
      <4>3. r \notin Touched(s)
        BY <3>1, <4>2 DEF Touched, m0
      <4>4. ASSUME NEW i \in 1..(j - m0) - 1 PROVE r \notin Touch(t[i])
        <5>1. i \in 1..n0 /\ m0 + i \in 1..j - 1 /\ w[m0 + i] = t[i]
          BY <1>1, <4>1, SMTT(20)
        <5>. QED
          BY <3>1, <5>1
      <4>. QED
        BY <3>1, <4>1, <4>3, <4>4 DEF Reading, n0
    <3>. QED
      BY <3>2, <3>3
  <2>. QED
    BY <2>1, <2>2, <2>3
<1>9. Reading(w) = Reading(s) \cup (Reading(t) \ Touched(s))
  BY <1>8 DEF Reading
<1>. QED
  BY <1>5, <1>6, <1>7, <1>9 DEF w

-----------------------------------------------------------------------------
(* 8080 code in the block: what it reads first, touches and writes, whatever*)
(* of it is marked killed.                                                  *)
Shape(c, R, T, W) ==
  /\ c \in Seq(Instructions)
  /\ \A K \in SUBSET AllRegs :
       /\ Plain(c, K) \in Seq(Coded) /\ Len(Plain(c, K)) = Len(c)
       /\ Reading(Plain(c, K)) = R /\ Touched(Plain(c, K)) = T /\ Written(Plain(c, K)) = W
       /\ Killing(Plain(c, K)) \subseteq K

LEMMA CodedFacts ==
  ASSUME NEW i \in Instructions, NEW u \in SUBSET AllRegs, NEW K \in SUBSET AllRegs
  PROVE  /\ Mc(i, u, K) \in Coded /\ Mc(i, u, K).op = "MC" /\ Mc(i, u, K).i = i /\ Mc(i, u, K).patch = 0
         /\ UsesOf(Mc(i, u, K)) = Reads8080(i) \ u /\ DefsOf(Mc(i, u, K)) = Writes8080(i)
         /\ KilledBy(Mc(i, u, K)) = K
<1>. DEFINE x == Mc(i, u, K)
<1>1. x \in Coded /\ x.op = "MC" /\ x.i = i /\ x.patch = 0 /\ x.undef = u /\ x.killed = K
  BY DEF Mc, Coded
<1>. HIDE DEF x
<1>2. UsesOf(x) = Reads8080(i) \ u
  BY <1>1 DEF UsesOf, Spills, Stores
<1>3. DefsOf(x) = Writes8080(i)
  BY <1>1 DEF DefsOf, Reloads, Stores, Loads
<1>4. KilledBy(x) = K
  BY <1>1 DEF KilledBy, Spills, Stores
<1>. QED
  BY <1>1, <1>2, <1>3, <1>4 DEF x

LEMMA PlainOne ==
  ASSUME NEW i, NEW K
  PROVE  Plain(<<i>>, K) = <<Mc(i, {}, K \cap Reads8080(i))>>
<1>. DEFINE s == <<i>>
            v == Mc(i, {}, K \cap Reads8080(i))
            w == Plain(s, K)
<1>1. DOMAIN s = 1..1 /\ s[1] = i
  OBVIOUS
<1>2. w = [j \in 1..1 |-> Mc(s[j], {}, K \cap Reads8080(s[j]))]
  BY <1>1 DEF Plain
<1>3. Mc(s[1], {}, K \cap Reads8080(s[1])) = v
  BY <1>1
<1>. HIDE DEF s, v
<1>4. w = [j \in 1..1 |-> v]
  BY <1>2, <1>3
<1>5. [j \in 1..1 |-> v] = <<v>>
  OBVIOUS
<1>. QED
  BY <1>4, <1>5 DEF s, v

LEMMA PlainJoin ==
  ASSUME NEW c \in Seq(Instructions), NEW d \in Seq(Instructions), NEW K,
         Plain(c, K) \in Seq(Coded), Plain(d, K) \in Seq(Coded)
  PROVE  Plain(c \o d, K) = Plain(c, K) \o Plain(d, K)
<1>. DEFINE w == c \o d
            p == Plain(c, K)
            q == Plain(d, K)
            v == p \o q
            Out(i) == Mc(i, {}, K \cap Reads8080(i))
<1>1. /\ w \in Seq(Instructions) /\ Len(w) = Len(c) + Len(d)
      /\ \A i \in 1..Len(c) : w[i] = c[i]
      /\ \A i \in 1..Len(d) : w[Len(c) + i] = d[i]
  BY JoinFacts
<1>2. \A s \in Seq(Instructions) : Plain(s, K) = [j \in 1..Len(s) |-> Out(s[j])]
  BY DEF Plain
<1>3. p \in Seq(Coded) /\ q \in Seq(Coded) /\ Len(p) = Len(c) /\ Len(q) = Len(d)
  BY <1>2
<1>5. Plain(w, K) = [j \in 1..Len(w) |-> Out(w[j])]
  BY <1>1, <1>2
<1>6. \A i \in 1..Len(c) : p[i] = Out(c[i])
  BY <1>2
<1>7. \A i \in 1..Len(d) : q[i] = Out(d[i])
  BY <1>2
<1>. HIDE DEF p, q
<1>4. /\ v \in Seq(Coded) /\ Len(v) = Len(c) + Len(d)
      /\ \A i \in 1..Len(c) : v[i] = p[i]
      /\ \A i \in 1..Len(d) : v[Len(c) + i] = q[i]
  <2>1. /\ v \in Seq(Coded) /\ Len(v) = Len(p) + Len(q)
        /\ \A i \in 1..Len(p) : v[i] = p[i]
        /\ \A i \in 1..Len(q) : v[Len(p) + i] = q[i]
    <3>1. ASSUME NEW s \in Seq(Coded), NEW t \in Seq(Coded)
          PROVE  /\ s \o t \in Seq(Coded) /\ Len(s \o t) = Len(s) + Len(t)
                 /\ \A i \in 1..Len(s) : (s \o t)[i] = s[i]
                 /\ \A i \in 1..Len(t) : (s \o t)[Len(s) + i] = t[i]
      BY JoinFacts
    <3>. QED
      BY <1>3, <3>1, Zenon
  <2>. QED
    BY <1>3, <2>1
<1>. HIDE DEF w, v, Out
<1>8. ASSUME NEW j \in 1..Len(w) PROVE v[j] = Out(w[j])
  <2>1. CASE j \in 1..Len(c)
    BY <1>1, <1>4, <1>6, <2>1
  <2>2. CASE j \notin 1..Len(c)
    <3>1. PICK i \in 1..Len(d) : j = Len(c) + i
      <4>1. j - Len(c) \in 1..Len(d) /\ Len(c) + (j - Len(c)) = j
        BY <1>1, <2>2
      <4>. QED
        BY <4>1
    <3>2. w[j] = d[i] /\ v[j] = q[i] /\ q[i] = Out(d[i])
      BY <1>1, <1>4, <1>7, <3>1
    <3>. QED
      BY <3>2
  <2>. QED
    BY <2>1, <2>2
<1>9. v = [j \in 1..Len(w) |-> v[j]]
  BY <1>1, <1>4
<1>10. v = Plain(w, K)
  BY <1>5, <1>8, <1>9
<1>. QED
  BY <1>10 DEF w, v, p, q

LEMMA ShapeOne ==
  ASSUME NEW i \in Instructions, Reads8080(i) \subseteq AllRegs
  PROVE  Shape(<<i>>, Reads8080(i) \cap Regs, (Reads8080(i) \cup Writes8080(i)) \cap Regs, Writes8080(i) \cap Regs)
<1>1. ASSUME NEW K \in SUBSET AllRegs
      PROVE  /\ Plain(<<i>>, K) \in Seq(Coded) /\ Len(Plain(<<i>>, K)) = 1
             /\ Reading(Plain(<<i>>, K)) = Reads8080(i) \cap Regs
             /\ Touched(Plain(<<i>>, K)) = (Reads8080(i) \cup Writes8080(i)) \cap Regs
             /\ Written(Plain(<<i>>, K)) = Writes8080(i) \cap Regs
             /\ Killing(Plain(<<i>>, K)) \subseteq K
  <2>. DEFINE x == Mc(i, {}, K \cap Reads8080(i))
  <2>1. Plain(<<i>>, K) = <<x>>
    BY PlainOne
  <2>2. /\ x \in Coded /\ UsesOf(x) = Reads8080(i) /\ DefsOf(x) = Writes8080(i)
        /\ KilledBy(x) = K \cap Reads8080(i)
    <3>1. K \cap Reads8080(i) \in SUBSET AllRegs /\ {} \in SUBSET AllRegs
      OBVIOUS
    <3>2. /\ x \in Coded /\ UsesOf(x) = Reads8080(i) \ {} /\ DefsOf(x) = Writes8080(i)
          /\ KilledBy(x) = K \cap Reads8080(i)
      BY <3>1, CodedFacts
    <3>. QED
      BY <3>2
  <2>. HIDE DEF x
  <2>3. <<x>> \in Seq(Coded) /\ Len(<<x>>) = 1
    BY <2>2
  <2>. QED
    BY <2>1, <2>2, <2>3, ScanOne DEF Touch
<1>2. <<i>> \in Seq(Instructions) /\ Len(<<i>>) = 1
  OBVIOUS
<1>. QED
  BY <1>1, <1>2 DEF Shape

LEMMA ShapeJoin ==
  ASSUME NEW c, NEW R, NEW T, NEW W, Shape(c, R, T, W),
         NEW d, NEW R2, NEW T2, NEW W2, Shape(d, R2, T2, W2)
  PROVE  Shape(c \o d, R \cup (R2 \ T), T \cup T2, W \cup W2)
<1>1. c \in Seq(Instructions) /\ d \in Seq(Instructions) /\ c \o d \in Seq(Instructions) /\ Len(c \o d) = Len(c) + Len(d)
  BY JoinFacts DEF Shape
<1>2. ASSUME NEW K \in SUBSET AllRegs
      PROVE  /\ Plain(c \o d, K) \in Seq(Coded) /\ Len(Plain(c \o d, K)) = Len(c \o d)
             /\ Reading(Plain(c \o d, K)) = R \cup (R2 \ T) /\ Touched(Plain(c \o d, K)) = T \cup T2
             /\ Written(Plain(c \o d, K)) = W \cup W2 /\ Killing(Plain(c \o d, K)) \subseteq K
  <2>. DEFINE p == Plain(c, K)
              q == Plain(d, K)
  <2>1. /\ p \in Seq(Coded) /\ Len(p) = Len(c) /\ Reading(p) = R /\ Touched(p) = T /\ Written(p) = W /\ Killing(p) \subseteq K
        /\ q \in Seq(Coded) /\ Len(q) = Len(d) /\ Reading(q) = R2 /\ Touched(q) = T2 /\ Written(q) = W2 /\ Killing(q) \subseteq K
    BY DEF Shape
  <2>2. Plain(c \o d, K) = p \o q
    BY <1>1, <2>1, PlainJoin
  <2>. HIDE DEF p, q
  <2>3. p \o q \in Seq(Coded) /\ Len(p \o q) = Len(p) + Len(q)
    BY <2>1, JoinFacts
  <2>. QED
    BY <1>1, <2>1, <2>2, <2>3, ScanJoin
<1>. QED
  BY <1>1, <1>2 DEF Shape

-----------------------------------------------------------------------------
(* The shapes of single instructions.                                       *)
LEMMA Instructed ==
  /\ \A op \in Opcodes : \A d, s \in Names : \A n \in Int : Instr(op, d, s, n) \in Instructions
  /\ \A r \in Regs : r \in Names
  /\ \A p \in Pairs \cup {"PSW"} : p \in Names
  /\ "M" \in Names /\ "HL" \in Names /\ "A" \in Names /\ "" \in Names /\ 0 \in Int
<1>1. \A op \in Opcodes : \A d, s \in Names : \A n \in Int : Instr(op, d, s, n) \in Instructions
  BY DEF Instr, Instructions
<1>2. /\ \A r \in Regs : r \in Names
      /\ \A p \in Pairs \cup {"PSW"} : p \in Names
      /\ "M" \in Names /\ "HL" \in Names /\ "A" \in Names /\ "" \in Names /\ 0 \in Int
  BY DEF Regs, Pairs, Names
<1>. QED
  BY <1>1, <1>2

LEMMA HalvesOf ==
  /\ \A p \in Pairs : p # "SP" /\ Parts(p) = {Hi[p], Lo[p]} /\ Parts(p) \subseteq Regs /\ p \in Pairs \cup {"PSW"}
  /\ \A p \in Pairs \cup {"PSW"} : p # "SP" /\ {Hi[p], Lo[p]} \subseteq AllRegs
BY DEF Pairs, Parts, Hi, Lo, Regs, AllRegs

LEMMA ShapeSame ==
  ASSUME NEW c, NEW R, NEW T, NEW W, Shape(c, R, T, W), NEW R2, NEW T2, NEW W2, R = R2, T = T2, W = W2
  PROVE  Shape(c, R2, T2, W2)
OBVIOUS

LEMMA MovShape ==
  ASSUME NEW d \in Regs, NEW s \in Regs
  PROVE  Shape(<<Mov(d, s)>>, {s}, {s, d}, {d})
<1>. DEFINE i == Mov(d, s)
<1>1. i \in Instructions
  <2>1. "MOV" \in Opcodes
    BY DEF Opcodes
  <2>. QED
    BY <2>1, Instructed, Zenon DEF Mov
<1>2. i.op = "MOV" /\ i.d = d /\ i.s = s
  BY DEF Mov, Instr
<1>. HIDE DEF i
<1>3. Reads8080(i) \subseteq AllRegs /\ Reads8080(i) \cap Regs = {s}
  BY <1>2 DEF Reads8080, AluOps, Rotates, AllRegs, Regs
<1>4. (Reads8080(i) \cup Writes8080(i)) \cap Regs = {s, d} /\ Writes8080(i) \cap Regs = {d}
  <2>1. Writes8080(i) = {d}
    BY <1>2 DEF Writes8080, AluOps, Rotates
  <2>. QED
    BY <1>3, <2>1
<1>5. Shape(<<i>>, {s}, {s, d}, {d})
  BY <1>1, <1>3, <1>4, ShapeOne
<1>. QED
  BY <1>5 DEF i

LEMMA MovFromMShape ==
  ASSUME NEW d \in Regs
  PROVE  Shape(<<MovFromM(d)>>, {"H", "L"}, {"H", "L", d}, {d})
<1>. DEFINE i == MovFromM(d)
<1>1. i \in Instructions
  <2>1. "MOVrM" \in Opcodes
    BY DEF Opcodes
  <2>. QED
    BY <2>1, Instructed, Zenon DEF MovFromM
<1>2. i.op = "MOVrM" /\ i.d = d /\ i.s = "M"
  BY DEF MovFromM, Instr
<1>. HIDE DEF i
<1>3. Reads8080(i) \subseteq AllRegs /\ Reads8080(i) \cap Regs = {"H", "L"}
  BY <1>2 DEF Reads8080, AluOps, Rotates, AllRegs, Regs
<1>4. (Reads8080(i) \cup Writes8080(i)) \cap Regs = {"H", "L", d} /\ Writes8080(i) \cap Regs = {d}
  BY <1>2 DEF Reads8080, Writes8080, AluOps, Rotates, Regs
<1>5. Shape(<<i>>, {"H", "L"}, {"H", "L", d}, {d})
  BY <1>1, <1>3, <1>4, ShapeOne
<1>. QED
  BY <1>5 DEF i

LEMMA MovToMShape ==
  ASSUME NEW s \in Regs
  PROVE  Shape(<<MovToM(s)>>, {s, "H", "L"}, {s, "H", "L"}, {})
<1>. DEFINE i == MovToM(s)
<1>1. i \in Instructions
  <2>1. "MOVMr" \in Opcodes
    BY DEF Opcodes
  <2>. QED
    BY <2>1, Instructed, Zenon DEF MovToM
<1>2. i.op = "MOVMr" /\ i.d = "M" /\ i.s = s
  BY DEF MovToM, Instr
<1>. HIDE DEF i
<1>3. Reads8080(i) \subseteq AllRegs /\ Reads8080(i) \cap Regs = {s, "H", "L"}
  BY <1>2 DEF Reads8080, AluOps, Rotates, AllRegs, Regs
<1>4. (Reads8080(i) \cup Writes8080(i)) \cap Regs = {s, "H", "L"} /\ Writes8080(i) \cap Regs = {}
  BY <1>2 DEF Reads8080, Writes8080, AluOps, Rotates, Regs
<1>5. Shape(<<i>>, {s, "H", "L"}, {s, "H", "L"}, {})
  BY <1>1, <1>3, <1>4, ShapeOne
<1>. QED
  BY <1>5 DEF i

LEMMA LxiShape ==
  ASSUME NEW p \in Pairs, NEW n \in Int
  PROVE  Shape(<<Lxi(p, n)>>, {}, Parts(p), Parts(p))
<1>. DEFINE i == Lxi(p, n)
<1>1. i \in Instructions
  <2>1. "LXI" \in Opcodes
    BY DEF Opcodes
  <2>. QED
    BY <2>1, Instructed, Zenon DEF Lxi
<1>2. i.op = "LXI" /\ i.d = p /\ i.s = ""
  BY DEF Lxi, Instr
<1>. HIDE DEF i
<1>3. Reads8080(i) \subseteq AllRegs /\ Reads8080(i) \cap Regs = {}
  BY <1>2, HalvesOf DEF Reads8080, AluOps, Rotates, AllRegs, Regs
<1>4. (Reads8080(i) \cup Writes8080(i)) \cap Regs = Parts(p) /\ Writes8080(i) \cap Regs = Parts(p)
  BY <1>2, HalvesOf DEF Reads8080, Writes8080, AluOps, Rotates, Regs
<1>5. Shape(<<i>>, {}, Parts(p), Parts(p))
  BY <1>1, <1>3, <1>4, ShapeOne
<1>. QED
  BY <1>5 DEF i

LEMMA PushShape ==
  ASSUME NEW p \in Pairs \cup {"PSW"}
  PROVE  Shape(<<Push(p)>>, ({Hi[p], Lo[p]} \cap Regs), ({Hi[p], Lo[p]} \cap Regs), {})
<1>. DEFINE i == Push(p)
<1>1. i \in Instructions
  <2>1. "PUSH" \in Opcodes
    BY DEF Opcodes
  <2>. QED
    BY <2>1, Instructed, Zenon DEF Push
<1>2. i.op = "PUSH" /\ i.d = p /\ i.s = ""
  BY DEF Push, Instr
<1>. HIDE DEF i
<1>3. Reads8080(i) \subseteq AllRegs /\ Reads8080(i) \cap Regs = ({Hi[p], Lo[p]} \cap Regs)
  BY <1>2, HalvesOf DEF Reads8080, AluOps, Rotates, AllRegs, Regs
<1>4. (Reads8080(i) \cup Writes8080(i)) \cap Regs = ({Hi[p], Lo[p]} \cap Regs) /\ Writes8080(i) \cap Regs = {}
  BY <1>2, HalvesOf DEF Reads8080, Writes8080, AluOps, Rotates, Regs
<1>5. Shape(<<i>>, ({Hi[p], Lo[p]} \cap Regs), ({Hi[p], Lo[p]} \cap Regs), {})
  BY <1>1, <1>3, <1>4, ShapeOne
<1>. QED
  BY <1>5 DEF i

LEMMA PopShape ==
  ASSUME NEW p \in Pairs \cup {"PSW"}
  PROVE  Shape(<<Pop(p)>>, {}, ({Hi[p], Lo[p]} \cap Regs), ({Hi[p], Lo[p]} \cap Regs))
<1>. DEFINE i == Pop(p)
<1>1. i \in Instructions
  <2>1. "POP" \in Opcodes
    BY DEF Opcodes
  <2>. QED
    BY <2>1, Instructed, Zenon DEF Pop
<1>2. i.op = "POP" /\ i.d = p /\ i.s = ""
  BY DEF Pop, Instr
<1>. HIDE DEF i
<1>3. Reads8080(i) \subseteq AllRegs /\ Reads8080(i) \cap Regs = {}
  BY <1>2, HalvesOf DEF Reads8080, AluOps, Rotates, AllRegs, Regs
<1>4. (Reads8080(i) \cup Writes8080(i)) \cap Regs = ({Hi[p], Lo[p]} \cap Regs) /\ Writes8080(i) \cap Regs = ({Hi[p], Lo[p]} \cap Regs)
  BY <1>2, HalvesOf DEF Reads8080, Writes8080, AluOps, Rotates, Regs
<1>5. Shape(<<i>>, {}, ({Hi[p], Lo[p]} \cap Regs), ({Hi[p], Lo[p]} \cap Regs))
  BY <1>1, <1>3, <1>4, ShapeOne
<1>. QED
  BY <1>5 DEF i

LEMMA LdaShape ==
  ASSUME NEW n \in Int
  PROVE  Shape(<<Lda(n)>>, {}, {"A"}, {"A"})
<1>. DEFINE i == Lda(n)
<1>1. i \in Instructions
  <2>1. "LDA" \in Opcodes
    BY DEF Opcodes
  <2>. QED
    BY <2>1, Instructed, Zenon DEF Lda
<1>2. i.op = "LDA" /\ i.d = "A" /\ i.s = ""
  BY DEF Lda, Instr
<1>. HIDE DEF i
<1>3. Reads8080(i) \subseteq AllRegs /\ Reads8080(i) \cap Regs = {}
  BY <1>2 DEF Reads8080, AluOps, Rotates, AllRegs, Regs
<1>4. (Reads8080(i) \cup Writes8080(i)) \cap Regs = {"A"} /\ Writes8080(i) \cap Regs = {"A"}
  BY <1>2 DEF Reads8080, Writes8080, AluOps, Rotates, Regs
<1>5. Shape(<<i>>, {}, {"A"}, {"A"})
  BY <1>1, <1>3, <1>4, ShapeOne
<1>. QED
  BY <1>5 DEF i

LEMMA StaShape ==
  ASSUME NEW n \in Int
  PROVE  Shape(<<Sta(n)>>, {"A"}, {"A"}, {})
<1>. DEFINE i == Sta(n)
<1>1. i \in Instructions
  <2>1. "STA" \in Opcodes
    BY DEF Opcodes
  <2>. QED
    BY <2>1, Instructed, Zenon DEF Sta
<1>2. i.op = "STA" /\ i.d = "" /\ i.s = "A"
  BY DEF Sta, Instr
<1>. HIDE DEF i
<1>3. Reads8080(i) \subseteq AllRegs /\ Reads8080(i) \cap Regs = {"A"}
  BY <1>2 DEF Reads8080, AluOps, Rotates, AllRegs, Regs
<1>4. (Reads8080(i) \cup Writes8080(i)) \cap Regs = {"A"} /\ Writes8080(i) \cap Regs = {}
  BY <1>2 DEF Reads8080, Writes8080, AluOps, Rotates, Regs
<1>5. Shape(<<i>>, {"A"}, {"A"}, {})
  BY <1>1, <1>3, <1>4, ShapeOne
<1>. QED
  BY <1>5 DEF i

LEMMA LhldShape ==
  ASSUME NEW n \in Int
  PROVE  Shape(<<Lhld(n)>>, {}, {"H", "L"}, {"H", "L"})
<1>. DEFINE i == Lhld(n)
<1>1. i \in Instructions
  <2>1. "LHLD" \in Opcodes
    BY DEF Opcodes
  <2>. QED
    BY <2>1, Instructed, Zenon DEF Lhld
<1>2. i.op = "LHLD" /\ i.d = "HL" /\ i.s = ""
  BY DEF Lhld, Instr
<1>. HIDE DEF i
<1>3. Reads8080(i) \subseteq AllRegs /\ Reads8080(i) \cap Regs = {}
  BY <1>2 DEF Reads8080, AluOps, Rotates, AllRegs, Regs
<1>4. (Reads8080(i) \cup Writes8080(i)) \cap Regs = {"H", "L"} /\ Writes8080(i) \cap Regs = {"H", "L"}
  BY <1>2 DEF Reads8080, Writes8080, AluOps, Rotates, Regs
<1>5. Shape(<<i>>, {}, {"H", "L"}, {"H", "L"})
  BY <1>1, <1>3, <1>4, ShapeOne
<1>. QED
  BY <1>5 DEF i

LEMMA ShldShape ==
  ASSUME NEW n \in Int
  PROVE  Shape(<<Shld(n)>>, {"H", "L"}, {"H", "L"}, {})
<1>. DEFINE i == Shld(n)
<1>1. i \in Instructions
  <2>1. "SHLD" \in Opcodes
    BY DEF Opcodes
  <2>. QED
    BY <2>1, Instructed, Zenon DEF Shld
<1>2. i.op = "SHLD" /\ i.d = "" /\ i.s = "HL"
  BY DEF Shld, Instr
<1>. HIDE DEF i
<1>3. Reads8080(i) \subseteq AllRegs /\ Reads8080(i) \cap Regs = {"H", "L"}
  BY <1>2 DEF Reads8080, AluOps, Rotates, AllRegs, Regs
<1>4. (Reads8080(i) \cup Writes8080(i)) \cap Regs = {"H", "L"} /\ Writes8080(i) \cap Regs = {}
  BY <1>2 DEF Reads8080, Writes8080, AluOps, Rotates, Regs
<1>5. Shape(<<i>>, {"H", "L"}, {"H", "L"}, {})
  BY <1>1, <1>3, <1>4, ShapeOne
<1>. QED
  BY <1>5 DEF i

LEMMA XchgShape == Shape(<<Xchg>>, {"D", "E", "H", "L"}, {"D", "E", "H", "L"}, {"D", "E", "H", "L"})
<1>. DEFINE i == Xchg
<1>1. i \in Instructions
  <2>1. "XCHG" \in Opcodes
    BY DEF Opcodes
  <2>. QED
    BY <2>1, Instructed, Zenon DEF Xchg
<1>2. i.op = "XCHG" /\ i.d = "" /\ i.s = ""
  BY DEF Xchg, Instr
<1>. HIDE DEF i
<1>3. Reads8080(i) \subseteq AllRegs /\ Reads8080(i) \cap Regs = {"D", "E", "H", "L"}
  BY <1>2 DEF Reads8080, AluOps, Rotates, AllRegs, Regs
<1>4. (Reads8080(i) \cup Writes8080(i)) \cap Regs = {"D", "E", "H", "L"} /\ Writes8080(i) \cap Regs = {"D", "E", "H", "L"}
  BY <1>2 DEF Reads8080, Writes8080, AluOps, Rotates, Regs
<1>5. Shape(<<i>>, {"D", "E", "H", "L"}, {"D", "E", "H", "L"}, {"D", "E", "H", "L"})
  BY <1>1, <1>3, <1>4, ShapeOne
<1>. QED
  BY <1>5 DEF i

-----------------------------------------------------------------------------
(* Code that may stand for instruction x: it reads what x reads, touches    *)
(* besides only what x writes, what it has read, or what is in E, writes HL *)
(* where x does and marks no other register killed.                         *)
Stands(s, x, E) ==
  /\ s \in Seq(Coded)
  /\ UsesOf(x) \cap Regs \subseteq Reading(s)
  /\ Touched(s) \subseteq Reading(s) \cup DefsOf(x) \cup E
  /\ DefsOf(x) \cap {"H", "L"} \subseteq Written(s)
  /\ Killing(s) \subseteq KilledBy(x)

LEMMA PlainStands ==
  ASSUME NEW c, NEW R, NEW T, NEW W, Shape(c, R, T, W), NEW K \in SUBSET AllRegs,
         NEW x, NEW E, K \subseteq KilledBy(x), UsesOf(x) \subseteq R,
         T \subseteq R \cup DefsOf(x) \cup E, DefsOf(x) \cap {"H", "L"} \subseteq W
  PROVE  Stands(Plain(c, K), x, E)
<1>. DEFINE s == Plain(c, K)
<1>1. /\ s \in Seq(Coded) /\ Reading(s) = R /\ Touched(s) = T /\ Written(s) = W /\ Killing(s) \subseteq K
  BY DEF Shape
<1>. HIDE DEF s
<1>2. Stands(s, x, E)
  BY <1>1 DEF Stands
<1>. QED
  BY <1>2 DEF s

LEMMA ShapeTwo ==
  ASSUME NEW i, NEW j, NEW R, NEW T, NEW W, Shape(<<i>>, R, T, W), NEW R2, NEW T2, NEW W2, Shape(<<j>>, R2, T2, W2)
  PROVE  Shape(<<i, j>>, R \cup (R2 \ T), T \cup T2, W \cup W2)
<1>1. Shape(<<i>> \o <<j>>, R \cup (R2 \ T), T \cup T2, W \cup W2)
  BY ShapeJoin
<1>. QED
  BY <1>1, OneAndOne

(* Code between a push and a pop of p: it reads p first, and p comes back.  *)
LEMMA AroundShape ==
  ASSUME NEW c, NEW R, NEW T, NEW W, Shape(c, R, T, W)
  PROVE  /\ Shape(Around("HL", c), {"H", "L"} \cup R, {"H", "L"} \cup T, {"H", "L"} \cup W)
         /\ Shape(Around("PSW", c), {"A"} \cup R, {"A"} \cup T, {"A"} \cup W)
<1>1. ASSUME NEW p, NEW P, Shape(<<Push(p)>>, P, P, {}), Shape(<<Pop(p)>>, {}, P, P)
      PROVE  Shape(Around(p, c), P \cup R, P \cup T, P \cup W)
  <2>2. Shape(<<Push(p)>> \o c, P \cup (R \ P), P \cup T, {} \cup W)
    BY <1>1, ShapeJoin
  <2>3. Shape(<<Push(p)>> \o c \o <<Pop(p)>>, (P \cup (R \ P)) \cup ({} \ (P \cup T)), (P \cup T) \cup P, ({} \cup W) \cup P)
    BY <1>1, <2>2, ShapeJoin
  <2>4. /\ (P \cup (R \ P)) \cup ({} \ (P \cup T)) = P \cup R
        /\ (P \cup T) \cup P = P \cup T /\ ({} \cup W) \cup P = P \cup W
    OBVIOUS
  <2>. QED
    BY <2>3, <2>4 DEF Around
<1>2. \A p \in Pairs \cup {"PSW"} : Shape(<<Push(p)>>, {Hi[p], Lo[p]} \cap Regs, {Hi[p], Lo[p]} \cap Regs, {})
                                    /\ Shape(<<Pop(p)>>, {}, {Hi[p], Lo[p]} \cap Regs, {Hi[p], Lo[p]} \cap Regs)
  BY PushShape, PopShape
<1>3. /\ "HL" \in Pairs \cup {"PSW"} /\ {Hi["HL"], Lo["HL"]} \cap Regs = {"H", "L"}
      /\ "PSW" \in Pairs \cup {"PSW"} /\ {Hi["PSW"], Lo["PSW"]} \cap Regs = {"A"}
  BY DEF Pairs, Hi, Lo, Regs
<1>4. Shape(<<Push("HL")>>, {"H", "L"}, {"H", "L"}, {}) /\ Shape(<<Pop("HL")>>, {}, {"H", "L"}, {"H", "L"})
  <2>1. /\ Shape(<<Push("HL")>>, {Hi["HL"], Lo["HL"]} \cap Regs, {Hi["HL"], Lo["HL"]} \cap Regs, {})
        /\ Shape(<<Pop("HL")>>, {}, {Hi["HL"], Lo["HL"]} \cap Regs, {Hi["HL"], Lo["HL"]} \cap Regs)
    BY <1>2, <1>3, Zenon
  <2>. QED
    BY <1>3, <2>1
<1>5. Shape(<<Push("PSW")>>, {"A"}, {"A"}, {}) /\ Shape(<<Pop("PSW")>>, {}, {"A"}, {"A"})
  <2>1. /\ Shape(<<Push("PSW")>>, {Hi["PSW"], Lo["PSW"]} \cap Regs, {Hi["PSW"], Lo["PSW"]} \cap Regs, {})
        /\ Shape(<<Pop("PSW")>>, {}, {Hi["PSW"], Lo["PSW"]} \cap Regs, {Hi["PSW"], Lo["PSW"]} \cap Regs)
    BY <1>2, <1>3, Zenon
  <2>. QED
    BY <1>3, <2>1
<1>6. Shape(Around("HL", c), {"H", "L"} \cup R, {"H", "L"} \cup T, {"H", "L"} \cup W)
  BY <1>1, <1>4
<1>7. Shape(Around("PSW", c), {"A"} \cup R, {"A"} \cup T, {"A"} \cup W)
  BY <1>1, <1>5
<1>. QED
  BY <1>6, <1>7

LEMMA SpareDead ==
  ASSUME NEW D, NEW res, NEW excluded, SpareIn(D, res, excluded) # NoReg
  PROVE  /\ SpareIn(D, res, excluded) \in D /\ SpareIn(D, res, excluded) \in {"B", "C", "D", "E"}
         /\ SpareIn(D, res, excluded) \in Regs /\ SpareIn(D, res, excluded) # "A"
         /\ SpareIn(D, res, excluded) # excluded
<1>. DEFINE spares == <<"B", "C", "D", "E">>
            free == {i \in 1..4 : spares[i] \in D \ (res \cup {excluded})}
            spare == SpareIn(D, res, excluded)
<1>1. free # {} /\ spare = spares[Min(free)]
  BY DEF SpareIn
<1>2. Min(free) \in free
  <2>1. free \subseteq Nat
    OBVIOUS
  <2>2. \E i \in free : \A j \in free : i <= j
    BY <1>1, <2>1, LeastElement
  <2>. HIDE DEF free
  <2>. QED
    BY <2>2 DEF Min
<1>3. PICK i \in 1..4 : spare = spares[i] /\ spares[i] \in D \ (res \cup {excluded})
  BY <1>1, <1>2
<1>4. spare \in {"B", "C", "D", "E"}
  BY <1>3
<1>. HIDE DEF spare, spares
<1>5. spare \in D /\ spare \in Regs /\ spare # "A" /\ spare # excluded
  BY <1>3, <1>4 DEF Regs
<1>. QED
  BY <1>4, <1>5 DEF spare

(* A byte through A.                                                        *)
LEMMA ThroughAShape ==
  ASSUME NEW D, NEW res, NEW excluded, NEW c, NEW R, NEW T, NEW W, Shape(c, R, T, W), "A" \notin R, "A" \in T,
         NEW fallback, NEW Rf, NEW Tf, NEW Wf, Shape(fallback, Rf, Tf, Wf),
         NEW r, r = excluded \/ r \in {"H", "L"}, r \in R => r \in Rf, r \in W => r \in Wf,
         T \subseteq R \cup {r, "A"}, Tf \subseteq Rf \cup D \cup {r}
  PROVE  \E R2, T2, W2 :
           /\ Shape(ThroughA(D, res, excluded, c, fallback), R2, T2, W2)
           /\ r \in R => r \in R2
           /\ r \in W => r \in W2
           /\ T2 \subseteq R2 \cup D \cup {r}
<1>. DEFINE spare == SpareIn(D, res, excluded)
            t == ThroughA(D, res, excluded, c, fallback)
<1>1. CASE "A" \in D
  <2>1. t = c
    BY <1>1 DEF ThroughA
  <2>2. T \subseteq R \cup D \cup {r}
    BY <1>1
  <2>. QED
    BY <2>1, <2>2
<1>2. CASE "A" \notin D /\ spare # NoReg
  <2>. HIDE DEF spare
  <2>1. t = <<Mov(spare, "A")>> \o c \o <<Mov("A", spare)>>
    BY <1>2 DEF ThroughA, spare
  <2>2. spare \in D /\ spare \in Regs /\ spare # "A" /\ spare # r
    <3>1. spare \in D /\ spare \in Regs /\ spare # "A" /\ spare # excluded /\ spare \in {"B", "C", "D", "E"}
      BY <1>2, SpareDead DEF spare
    <3>. QED
      BY <3>1
  <2>3. "A" \in Regs
    BY DEF Regs
  <2>4. Shape(<<Mov(spare, "A")>>, {"A"}, {"A", spare}, {spare})
    BY <2>2, <2>3, MovShape
  <2>5. Shape(<<Mov("A", spare)>>, {spare}, {spare, "A"}, {"A"})
    BY <2>2, <2>3, MovShape
  <2>6. Shape(<<Mov(spare, "A")>> \o c, {"A"} \cup (R \ {"A", spare}), {"A", spare} \cup T, {spare} \cup W)
    BY <2>4, ShapeJoin
  <2>. DEFINE R1 == {"A"} \cup (R \ {"A", spare})
              T1 == {"A", spare} \cup T
              W1 == {spare} \cup W
  <2>. HIDE DEF R1, T1, W1
  <2>7. Shape(<<Mov(spare, "A")>> \o c \o <<Mov("A", spare)>>, R1 \cup ({spare} \ T1), T1 \cup {spare, "A"}, W1 \cup {"A"})
    BY <2>5, <2>6, ShapeJoin DEF R1, T1, W1
  <2>8. T1 \cup {spare, "A"} \subseteq (R1 \cup ({spare} \ T1)) \cup D \cup {r}
    BY <2>2 DEF R1, T1
  <2>9. (r \in R => r \in R1) /\ (r \in W => r \in W1)
    BY <2>2 DEF R1, W1
  <2>. QED
    BY <2>1, <2>7, <2>8, <2>9
<1>3. CASE "A" \notin D /\ spare = NoReg
  <2>1. t = fallback
    BY <1>3 DEF ThroughA
  <2>. QED
    BY <2>1
<1>. QED
  BY <1>1, <1>2, <1>3

LEMMA Spill8Shape ==
  ASSUME NEW D, NEW res, NEW r \in Regs, r # "A", NEW n \in Int
  PROVE  \E R, T, W : /\ Shape(StaticSpill8(D, res, r, n), R, T, W)
                      /\ r \in R /\ T \subseteq R \cup D \cup {r}
<1>. DEFINE viaA == <<Mov("A", r), Sta(n)>>
            viaM == <<Lxi("HL", n), MovToM(r)>>
<1>1. "A" \in Regs /\ "HL" \in Pairs /\ Parts("HL") = {"H", "L"} /\ Hi["HL"] = "H" /\ Lo["HL"] = "L"
  BY DEF Regs, Pairs, Parts, Hi, Lo
<1>2. \E R, T, W : Shape(viaA, R, T, W) /\ R = {r} /\ T = {r, "A"} /\ W = {"A"}
  <2>1. Shape(<<Mov("A", r)>>, {r}, {r, "A"}, {"A"}) /\ Shape(<<Sta(n)>>, {"A"}, {"A"}, {})
    BY <1>1, MovShape, StaShape
  <2>2. Shape(viaA, {r} \cup ({"A"} \ {r, "A"}), {r, "A"} \cup {"A"}, {"A"} \cup {})
    BY <2>1, ShapeTwo
  <2>. QED
    BY <2>2
<1>3. \E R, T, W : Shape(viaM, R, T, W) /\ R = {r} \ {"H", "L"} /\ T = {r, "H", "L"} /\ W = {"H", "L"}
  <2>1. Shape(<<Lxi("HL", n)>>, {}, {"H", "L"}, {"H", "L"}) /\ Shape(<<MovToM(r)>>, {r, "H", "L"}, {r, "H", "L"}, {})
    BY <1>1, LxiShape, MovToMShape
  <2>2. Shape(viaM, {} \cup ({r, "H", "L"} \ {"H", "L"}), {"H", "L"} \cup {r, "H", "L"}, {"H", "L"} \cup {})
    BY <2>1, ShapeTwo
  <2>. QED
    BY <2>2
<1>. HIDE DEF viaA, viaM
<1>4. CASE r \in {"H", "L"}
  <2>1. \E R, T, W : Shape(Around("PSW", viaA), R, T, W) /\ R = {"A", r} /\ T = {r, "A"}
    <3>1. PICK R, T, W : Shape(viaA, R, T, W) /\ R = {r} /\ T = {r, "A"} /\ W = {"A"}
      BY <1>2
    <3>2. PICK R2, T2, W2 : /\ Shape(Around("PSW", viaA), R2, T2, W2)
                            /\ R2 = {"A"} \cup R
                            /\ T2 = {"A"} \cup T
                            /\ W2 = {"A"} \cup W
      BY <3>1, AroundShape
    <3>. QED
      BY <3>1, <3>2
  <2>2. \E R, T, W : /\ Shape(ThroughA(D, res, NoReg, viaA, Around("PSW", viaA)), R, T, W)
                     /\ r \in R /\ T \subseteq R \cup D \cup {r}
    <3>1. PICK R, T, W : Shape(viaA, R, T, W) /\ R = {r} /\ T = {r, "A"} /\ W = {"A"}
      BY <1>2
    <3>2. PICK Rf, Tf, Wf : Shape(Around("PSW", viaA), Rf, Tf, Wf) /\ Rf = {"A", r} /\ Tf = {r, "A"}
      BY <2>1
    <3>3. "A" \notin R /\ "A" \in T /\ (r \in R => r \in Rf) /\ (r \in W => r \in Wf) /\ r \in R
          /\ T \subseteq R \cup {r, "A"} /\ Tf \subseteq Rf \cup D \cup {r}
      BY <3>1, <3>2
    <3>. QED
      BY <1>4, <3>1, <3>2, <3>3, ThroughAShape
  <2>3. StaticSpill8(D, res, r, n) = ThroughA(D, res, NoReg, viaA, Around("PSW", viaA))
    BY <1>4 DEF StaticSpill8, viaA
  <2>. QED
    BY <2>2, <2>3
<1>5. CASE r \notin {"H", "L"} /\ PairDead(D, "HL")
  <2>1. StaticSpill8(D, res, r, n) = viaM
    BY <1>5 DEF StaticSpill8, viaM
  <2>2. {"H", "L"} \subseteq D
    BY <1>1, <1>5 DEF PairDead
  <2>. QED
    BY <1>3, <1>5, <2>1, <2>2
<1>6. CASE r \notin {"H", "L"} /\ ~PairDead(D, "HL")
  <2>1. \E R, T, W : Shape(Around("HL", viaM), R, T, W) /\ R = {"H", "L", r} /\ T = {r, "H", "L"}
    <3>1. PICK R, T, W : Shape(viaM, R, T, W) /\ R = {r} \ {"H", "L"} /\ T = {r, "H", "L"} /\ W = {"H", "L"}
      BY <1>3
    <3>2. PICK R2, T2, W2 : /\ Shape(Around("HL", viaM), R2, T2, W2)
                            /\ R2 = {"H", "L"} \cup R
                            /\ T2 = {"H", "L"} \cup T
                            /\ W2 = {"H", "L"} \cup W
      BY <3>1, AroundShape
    <3>. QED
      BY <1>6, <3>1, <3>2
  <2>2. \E R, T, W : /\ Shape(ThroughA(D, res, r, viaA, Around("HL", viaM)), R, T, W)
                     /\ r \in R /\ T \subseteq R \cup D \cup {r}
    <3>1. PICK R, T, W : Shape(viaA, R, T, W) /\ R = {r} /\ T = {r, "A"} /\ W = {"A"}
      BY <1>2
    <3>2. PICK Rf, Tf, Wf : Shape(Around("HL", viaM), Rf, Tf, Wf) /\ Rf = {"H", "L", r} /\ Tf = {r, "H", "L"}
      BY <2>1
    <3>3. "A" \notin R /\ "A" \in T /\ (r \in R => r \in Rf) /\ (r \in W => r \in Wf) /\ r \in R
          /\ T \subseteq R \cup {r, "A"} /\ Tf \subseteq Rf \cup D \cup {r}
      BY <3>1, <3>2
    <3>. QED
      BY <3>1, <3>2, <3>3, ThroughAShape
  <2>3. StaticSpill8(D, res, r, n) = ThroughA(D, res, r, viaA, Around("HL", viaM))
    BY <1>6 DEF StaticSpill8, viaA, viaM
  <2>. QED
    BY <2>2, <2>3
<1>. QED
  BY <1>4, <1>5, <1>6

LEMMA Reload8Shape ==
  ASSUME NEW D, NEW res, NEW r \in Regs, r # "A", NEW n \in Int
  PROVE  \E R, T, W : /\ Shape(StaticReload8(D, res, r, n), R, T, W)
                      /\ r \in W /\ T \subseteq R \cup D \cup {r}
<1>. DEFINE viaA == <<Lda(n), Mov(r, "A")>>
            viaM == <<Lxi("HL", n), MovFromM(r)>>
<1>1. "A" \in Regs /\ "HL" \in Pairs /\ Parts("HL") = {"H", "L"} /\ Hi["HL"] = "H" /\ Lo["HL"] = "L"
  BY DEF Regs, Pairs, Parts, Hi, Lo
<1>2. \E R, T, W : Shape(viaA, R, T, W) /\ R = {} /\ T = {r, "A"} /\ W = {r, "A"}
  <2>1. Shape(<<Lda(n)>>, {}, {"A"}, {"A"}) /\ Shape(<<Mov(r, "A")>>, {"A"}, {"A", r}, {r})
    BY <1>1, MovShape, LdaShape
  <2>2. Shape(viaA, {} \cup ({"A"} \ {"A"}), {"A"} \cup {"A", r}, {"A"} \cup {r})
    BY <2>1, ShapeTwo
  <2>. QED
    BY <2>2
<1>3. \E R, T, W : Shape(viaM, R, T, W) /\ R = {} /\ T = {r, "H", "L"} /\ W = {r, "H", "L"}
  <2>1. Shape(<<Lxi("HL", n)>>, {}, {"H", "L"}, {"H", "L"}) /\ Shape(<<MovFromM(r)>>, {"H", "L"}, {"H", "L", r}, {r})
    BY <1>1, LxiShape, MovFromMShape
  <2>2. Shape(viaM, {} \cup ({"H", "L"} \ {"H", "L"}), {"H", "L"} \cup {"H", "L", r}, {"H", "L"} \cup {r})
    BY <2>1, ShapeTwo
  <2>. QED
    BY <2>2
<1>. HIDE DEF viaA, viaM
<1>4. CASE r \in {"H", "L"} /\ OtherHalf[r] \in D
  <2>1. StaticReload8(D, res, r, n) = viaM
    BY <1>4 DEF StaticReload8, viaM
  <2>2. {"H", "L"} \subseteq D \cup {r}
    BY <1>4 DEF OtherHalf
  <2>. QED
    BY <1>3, <2>1, <2>2
<1>5. CASE r \in {"H", "L"} /\ OtherHalf[r] \notin D
  <2>1. \E R, T, W : Shape(Around("PSW", viaA), R, T, W) /\ R = {"A"} /\ T = {r, "A"} /\ r \in W
    <3>1. PICK R, T, W : Shape(viaA, R, T, W) /\ R = {} /\ T = {r, "A"} /\ W = {r, "A"}
      BY <1>2
    <3>2. PICK R2, T2, W2 : /\ Shape(Around("PSW", viaA), R2, T2, W2)
                            /\ R2 = {"A"} \cup R
                            /\ T2 = {"A"} \cup T
                            /\ W2 = {"A"} \cup W
      BY <3>1, AroundShape
    <3>. QED
      BY <3>1, <3>2
  <2>2. \E R, T, W : /\ Shape(ThroughA(D, res, NoReg, viaA, Around("PSW", viaA)), R, T, W)
                     /\ r \in W /\ T \subseteq R \cup D \cup {r}
    <3>1. PICK R, T, W : Shape(viaA, R, T, W) /\ R = {} /\ T = {r, "A"} /\ W = {r, "A"}
      BY <1>2
    <3>2. PICK Rf, Tf, Wf : Shape(Around("PSW", viaA), Rf, Tf, Wf) /\ Rf = {"A"} /\ Tf = {r, "A"} /\ r \in Wf
      BY <2>1
    <3>3. "A" \notin R /\ "A" \in T /\ (r \in R => r \in Rf) /\ (r \in W => r \in Wf) /\ r \in W
          /\ T \subseteq R \cup {r, "A"} /\ Tf \subseteq Rf \cup D \cup {r}
      BY <3>1, <3>2
    <3>. QED
      BY <1>5, <3>1, <3>2, <3>3, ThroughAShape
  <2>3. StaticReload8(D, res, r, n) = ThroughA(D, res, NoReg, viaA, Around("PSW", viaA))
    BY <1>5 DEF StaticReload8, viaA
  <2>. QED
    BY <2>2, <2>3
<1>6. CASE r \notin {"H", "L"} /\ PairDead(D, "HL")
  <2>1. StaticReload8(D, res, r, n) = viaM
    BY <1>6 DEF StaticReload8, viaM
  <2>2. {"H", "L"} \subseteq D
    BY <1>1, <1>6 DEF PairDead
  <2>. QED
    BY <1>3, <1>6, <2>1, <2>2
<1>7. CASE r \notin {"H", "L"} /\ ~PairDead(D, "HL")
  <2>1. \E R, T, W : Shape(Around("HL", viaM), R, T, W) /\ R = {"H", "L"} /\ T = {r, "H", "L"} /\ r \in W
    <3>1. PICK R, T, W : Shape(viaM, R, T, W) /\ R = {} /\ T = {r, "H", "L"} /\ W = {r, "H", "L"}
      BY <1>3
    <3>2. PICK R2, T2, W2 : /\ Shape(Around("HL", viaM), R2, T2, W2)
                            /\ R2 = {"H", "L"} \cup R
                            /\ T2 = {"H", "L"} \cup T
                            /\ W2 = {"H", "L"} \cup W
      BY <3>1, AroundShape
    <3>. QED
      BY <3>1, <3>2
  <2>2. \E R, T, W : /\ Shape(ThroughA(D, res, r, viaA, Around("HL", viaM)), R, T, W)
                     /\ r \in W /\ T \subseteq R \cup D \cup {r}
    <3>1. PICK R, T, W : Shape(viaA, R, T, W) /\ R = {} /\ T = {r, "A"} /\ W = {r, "A"}
      BY <1>2
    <3>2. PICK Rf, Tf, Wf : Shape(Around("HL", viaM), Rf, Tf, Wf) /\ Rf = {"H", "L"} /\ Tf = {r, "H", "L"} /\ r \in Wf
      BY <2>1
    <3>3. "A" \notin R /\ "A" \in T /\ (r \in R => r \in Rf) /\ (r \in W => r \in Wf) /\ r \in W
          /\ T \subseteq R \cup {r, "A"} /\ Tf \subseteq Rf \cup D \cup {r}
      BY <3>1, <3>2
    <3>. QED
      BY <3>1, <3>2, <3>3, ThroughAShape
  <2>3. StaticReload8(D, res, r, n) = ThroughA(D, res, r, viaA, Around("HL", viaM))
    BY <1>7 DEF StaticReload8, viaA, viaM
  <2>. QED
    BY <2>2, <2>3
<1>. QED
  BY <1>4, <1>5, <1>6, <1>7

-----------------------------------------------------------------------------
(* The code of each rewriting stands for the pseudo-instruction.            *)
LEMMA UndefXchgScan ==
  ASSUME NEW S \in SUBSET AllRegs
  PROVE  /\ UndefXchg(S) \in Seq(Coded)
         /\ Reading(UndefXchg(S)) = {"D", "E", "H", "L"} \ S
         /\ Touched(UndefXchg(S)) = {"D", "E", "H", "L"}
         /\ Written(UndefXchg(S)) = {"D", "E", "H", "L"}
         /\ Killing(UndefXchg(S)) = {}
<1>. DEFINE x == Mc(Xchg, S, {})
<1>1. Xchg \in Instructions
  <2>1. "XCHG" \in Opcodes
    BY DEF Opcodes
  <2>. QED
    BY <2>1, Instructed, Zenon DEF Xchg
<1>2. x \in Coded /\ UsesOf(x) = Reads8080(Xchg) \ S /\ DefsOf(x) = Writes8080(Xchg) /\ KilledBy(x) = {}
  <2>1. {} \in SUBSET AllRegs
    OBVIOUS
  <2>. QED
    BY <1>1, <2>1, CodedFacts
<1>3. Reads8080(Xchg) = {"D", "E", "H", "L"} /\ Writes8080(Xchg) = {"D", "E", "H", "L"}
  <2>1. Xchg.op = "XCHG"
    BY DEF Xchg, Instr
  <2>. QED
    BY <2>1 DEF Reads8080, Writes8080, AluOps, Rotates
<1>. HIDE DEF x
<1>4. /\ UsesOf(x) \cap Regs = {"D", "E", "H", "L"} \ S /\ Touch(x) \cap Regs = {"D", "E", "H", "L"}
      /\ DefsOf(x) \cap Regs = {"D", "E", "H", "L"} /\ KilledBy(x) \cap Regs = {}
  BY <1>2, <1>3 DEF Touch, Regs
<1>5. <<x>> \in Seq(Coded)
  BY <1>2
<1>6. UndefXchg(S) = <<x>>
  BY DEF UndefXchg, x
<1>. QED
  BY <1>4, <1>5, <1>6, ScanOne

LEMMA CodedJoin ==
  ASSUME NEW s \in Seq(Coded), NEW t \in Seq(Coded)
  PROVE  /\ s \o t \in Seq(Coded)
         /\ Reading(s \o t) = Reading(s) \cup (Reading(t) \ Touched(s))
         /\ Touched(s \o t) = Touched(s) \cup Touched(t)
         /\ Written(s \o t) = Written(s) \cup Written(t)
         /\ Killing(s \o t) = Killing(s) \cup Killing(t)
<1>1. s \o t \in Seq(Coded)
  BY JoinFacts
<1>. QED
  BY <1>1, ScanJoin

LEMMA LxiNamed ==
  ASSUME NEW p \in Pairs, NEW n \in Int
  PROVE  /\ Lxi(p, n) \in Instructions /\ Lxi(p, n).op = "LXI" /\ Lxi(p, n).d = p /\ Lxi(p, n).n = n
         /\ Reads8080(Lxi(p, n)) = {} /\ Writes8080(Lxi(p, n)) = Parts(p)
<1>. DEFINE i == Lxi(p, n)
<1>1. i \in Instructions
  <2>1. "LXI" \in Opcodes /\ p \in Names
    BY HalvesOf, Instructed DEF Opcodes
  <2>. QED
    BY <2>1, Instructed, Zenon DEF Lxi
<1>2. i.op = "LXI" /\ i.d = p /\ i.n = n
  BY DEF Lxi, Instr
<1>3. p # "SP" /\ Parts(p) = {Hi[p], Lo[p]}
  BY HalvesOf
<1>. HIDE DEF i
<1>4. Reads8080(i) = {}
  BY <1>2 DEF Reads8080, AluOps, Rotates
<1>5. Writes8080(i) = Parts(p)
  BY <1>2, <1>3 DEF Writes8080, AluOps, Rotates
<1>. QED
  BY <1>1, <1>2, <1>4, <1>5 DEF i

LEMMA MviNamed ==
  ASSUME NEW r \in Regs, NEW n \in Int
  PROVE  /\ Mvi(r, n) \in Instructions /\ Mvi(r, n).op = "MVI" /\ Mvi(r, n).d = r /\ Mvi(r, n).n = n
         /\ Reads8080(Mvi(r, n)) = {} /\ Writes8080(Mvi(r, n)) = {r}
<1>. DEFINE i == Mvi(r, n)
<1>1. i \in Instructions
  <2>1. "MVI" \in Opcodes /\ r \in Names
    BY Instructed DEF Opcodes
  <2>. QED
    BY <2>1, Instructed, Zenon DEF Mvi
<1>2. i.op = "MVI" /\ i.d = r /\ i.n = n
  BY DEF Mvi, Instr
<1>. HIDE DEF i
<1>4. Reads8080(i) = {}
  BY <1>2 DEF Reads8080, AluOps, Rotates
<1>5. Writes8080(i) = {r}
  BY <1>2 DEF Writes8080, AluOps, Rotates
<1>. QED
  BY <1>1, <1>2, <1>4, <1>5 DEF i

LEMMA PlainScan ==
  ASSUME NEW c, NEW R, NEW T, NEW W, Shape(c, R, T, W), NEW K \in SUBSET AllRegs
  PROVE  /\ Plain(c, K) \in Seq(Coded) /\ Reading(Plain(c, K)) = R /\ Touched(Plain(c, K)) = T
         /\ Written(Plain(c, K)) = W /\ Killing(Plain(c, K)) \subseteq K
BY DEF Shape

(* One or two sites.                                                        *)
LEMMA StoresShape ==
  ASSUME NEW f, NEW T, NEW n \in 1..2, DOMAIN f = 1..n, \A i \in 1..n : Shape(<<f[i]>>, T, T, {}),
         f = [i \in 1..n |-> f[i]]
  PROVE  Shape(f, T, T, {})
<1>1. CASE n = 1
  <2>. DEFINE g == f[1]
  <2>1. \A i \in 1..1 : f[i] = g
    OBVIOUS
  <2>2. Shape(<<g>>, T, T, {})
    BY <1>1
  <2>. HIDE DEF g
  <2>3. f = [i \in 1..1 |-> g]
    BY <1>1, <2>1
  <2>4. [i \in 1..1 |-> g] = <<g>>
    OBVIOUS
  <2>. QED
    BY <2>2, <2>3, <2>4
<1>2. CASE n = 2
  <2>. DEFINE g == f[1]
              h == f[2]
              w == <<g, h>>
  <2>1. Shape(<<g>>, T, T, {}) /\ Shape(<<h>>, T, T, {})
    BY <1>2
  <2>2. f[1] = g /\ f[2] = h
    OBVIOUS
  <2>. HIDE DEF g, h
  <2>3. Shape(w, T \cup (T \ T), T \cup T, {} \cup {})
    BY <2>1, ShapeTwo
  <2>4. Shape(w, T, T, {})
    BY <2>3, ShapeSame
  <2>5. w = [i \in 1..2 |-> w[i]] /\ w[1] = g /\ w[2] = h
    OBVIOUS
  <2>. HIDE DEF w
  <2>6. f = w
    BY <1>2, <2>2, <2>5
  <2>. QED
    BY <2>4, <2>6
<1>. QED
  BY <1>1, <1>2

SitesKnown ==
  /\ DOMAIN winners = 1..Len(winners) /\ Len(winners) \in 1..2
  /\ sites \in Nat /\ Len(winners) <= sites

LEMMA SitesAddressed ==
  ASSUME SitesKnown
  PROVE  /\ \A i \in 1..Len(winners) : SiteAddr(i) \in Int /\ SiteAddr(i) \in Nat
         /\ 1 \in 1..Len(winners)
         /\ Shape([i \in DOMAIN winners |-> Shld(SiteAddr(i))], {"H", "L"}, {"H", "L"}, {})
         /\ Shape([i \in DOMAIN winners |-> Sta(SiteAddr(i))], {"A"}, {"A"}, {})
<1>. DEFINE n == Len(winners)
            at(i) == SiteAddr(i)
<1>1. /\ DOMAIN winners = 1..n /\ n \in 1..2
      /\ \A i \in 1..n : at(i) \in Int /\ at(i) \in Nat
  BY CodeAssumption DEF SitesKnown, SiteAddr
<1>. HIDE DEF n, at
<1>2. Shape([i \in 1..n |-> Shld(at(i))], {"H", "L"}, {"H", "L"}, {})
  <2>. DEFINE f == [i \in 1..n |-> Shld(at(i))]
  <2>1. DOMAIN f = 1..n /\ f = [i \in 1..n |-> f[i]] /\ \A i \in 1..n : f[i] = Shld(at(i))
    OBVIOUS
  <2>2. \A i \in 1..n : Shape(<<Shld(at(i))>>, {"H", "L"}, {"H", "L"}, {})
    BY <1>1, ShldShape
  <2>. HIDE DEF f
  <2>3. Shape(f, {"H", "L"}, {"H", "L"}, {})
    BY <1>1, <2>1, <2>2, StoresShape
  <2>. QED
    BY <2>3 DEF f
<1>3. Shape([i \in 1..n |-> Sta(at(i))], {"A"}, {"A"}, {})
  <2>. DEFINE f == [i \in 1..n |-> Sta(at(i))]
  <2>1. DOMAIN f = 1..n /\ f = [i \in 1..n |-> f[i]] /\ \A i \in 1..n : f[i] = Sta(at(i))
    OBVIOUS
  <2>2. \A i \in 1..n : Shape(<<Sta(at(i))>>, {"A"}, {"A"}, {})
    BY <1>1, StaShape
  <2>. HIDE DEF f
  <2>3. Shape(f, {"A"}, {"A"}, {})
    BY <1>1, <2>1, <2>2, StoresShape
  <2>. QED
    BY <2>3 DEF f
<1>. QED
  BY <1>1, <1>2, <1>3 DEF n, at

LEMMA PairsNamed ==
  /\ Parts("HL") = {"H", "L"} /\ Parts("DE") = {"D", "E"} /\ Parts("BC") = {"B", "C"}
  /\ \A p \in Pairs : p \in {"HL", "DE", "BC"}
  /\ \A r \in Regs : Parts(r) = {r} /\ {r} \subseteq AllRegs
  /\ {"B", "C"} \subseteq AllRegs /\ {"A", "B", "C", "D", "E", "H", "L"} = Regs
BY DEF Parts, Pairs, Hi, Lo, Regs, AllRegs

LEMMA Spill16Stands ==
  ASSUME SitesKnown, NEW k \in DOMAIN mbb, mbb[k].op = "SPILL16", mbb[k].reg \in Pairs, mbb[k].kill \in BOOLEAN,
         NEW E, DeadSet(k) \subseteq E,
         mbb[k].reg = "DE" /\ ~LiveBefore(k, {"H", "L"}) => {"H", "L"} \subseteq E
  PROVE  Stands(SpillCode16(k), mbb[k], E)
<1>. DEFINE x == mbb[k]
            D == DeadSet(k)
            shlds == [i \in DOMAIN winners |-> Shld(SiteAddr(i))]
            undef == ~LiveBefore(k, {"H", "L"})
            body == <<Mov("L", "C"), Mov("H", "B")>> \o shlds
            last == IF x.kill /\ PairDead(D, "HL") THEN <<>> ELSE UndefXchg(IF undef THEN {"D", "E"} ELSE {})
            first == UndefXchg(IF undef THEN {"H", "L"} ELSE {})
            mid == Plain(shlds, {})
<1>1. Shape(shlds, {"H", "L"}, {"H", "L"}, {})
  BY SitesAddressed
<1>2. UsesOf(x) = Parts(x.reg) /\ DefsOf(x) = {} /\ (x.kill => KilledBy(x) = Parts(x.reg))
  BY DEF UsesOf, DefsOf, KilledBy, Spills, Reloads, Stores, Loads
<1>3. CASE x.reg = "HL"
  <2>1. SpillCode16(k) = mid
    BY <1>3 DEF SpillCode16
  <2>. HIDE DEF shlds
  <2>2. UsesOf(x) = {"H", "L"}
    BY <1>2, <1>3, PairsNamed
  <2>3. {} \in SUBSET AllRegs
    OBVIOUS
  <2>. HIDE DEF x
  <2>4. Stands(mid, x, E)
    BY <1>1, <1>2, <2>2, <2>3, PlainStands
  <2>. QED
    BY <2>1, <2>4 DEF x
<1>4. CASE x.reg = "DE"
  <2>1. SpillCode16(k) = (first \o mid) \o last
    BY <1>4 DEF SpillCode16
  <2>2. first \in Seq(Coded) /\ Touched(first) = {"D", "E", "H", "L"} /\ Killing(first) = {}
        /\ Reading(first) = {"D", "E", "H", "L"} \ (IF undef THEN {"H", "L"} ELSE {})
    <3>1. (IF undef THEN {"H", "L"} ELSE {}) \in SUBSET AllRegs
      BY PairsNamed DEF AllRegs
    <3>. HIDE DEF undef
    <3>. QED
      BY <3>1, UndefXchgScan
  <2>3. last \in Seq(Coded) /\ Touched(last) \subseteq {"D", "E", "H", "L"} /\ Killing(last) = {}
        /\ Reading(last) \subseteq {"D", "E", "H", "L"}
    <3>1. CASE last = <<>>
      <4>1. <<>> \in Seq(Coded) /\ Len(<<>>) = 0
        OBVIOUS
      <4>. HIDE DEF last
      <4>3. 1..Len(last) = {}
        BY <3>1, <4>1
      <4>2. Touched(last) = {} /\ Killing(last) = {} /\ Reading(last) = {}
        BY <4>3 DEF Touched, Killing, Reading
      <4>. QED
        BY <3>1, <4>1, <4>2
    <3>2. CASE last # <<>>
      <4>1. last = UndefXchg(IF undef THEN {"D", "E"} ELSE {})
        BY <3>2
      <4>2. (IF undef THEN {"D", "E"} ELSE {}) \in SUBSET AllRegs
        BY PairsNamed DEF AllRegs
      <4>. HIDE DEF last, undef
      <4>. QED
        BY <4>1, <4>2, UndefXchgScan
    <3>. QED
      BY <3>1, <3>2
  <2>4. mid \in Seq(Coded) /\ Touched(mid) = {"H", "L"} /\ Killing(mid) = {} /\ Reading(mid) = {"H", "L"}
    <3>1. {} \in SUBSET AllRegs
      OBVIOUS
    <3>. HIDE DEF shlds
    <3>. QED
      BY <1>1, <3>1, PlainScan
  <2>5. undef => {"H", "L"} \subseteq E
    BY <1>4
  <2>6. UsesOf(x) = {"D", "E"}
    BY <1>2, <1>4, PairsNamed
  <2>. HIDE DEF first, mid, last, undef, x
  <2>7. /\ first \o mid \in Seq(Coded) /\ Touched(first \o mid) = {"D", "E", "H", "L"} /\ Killing(first \o mid) = {}
        /\ Reading(first \o mid) = {"D", "E", "H", "L"} \ (IF undef THEN {"H", "L"} ELSE {})
    <3>1. first \o mid \in Seq(Coded)
      BY <2>2, <2>4
    <3>2. /\ Reading(first \o mid) = Reading(first) \cup (Reading(mid) \ Touched(first))
          /\ Touched(first \o mid) = Touched(first) \cup Touched(mid)
          /\ Killing(first \o mid) = Killing(first) \cup Killing(mid)
      BY <2>2, <2>4, ScanJoin
    <3>. QED
      BY <2>2, <2>4, <3>1, <3>2
  <2>. DEFINE fm == first \o mid
  <2>. HIDE DEF fm
  <2>8. /\ fm \o last \in Seq(Coded) /\ Touched(fm \o last) = {"D", "E", "H", "L"} /\ Killing(fm \o last) = {}
        /\ Reading(fm \o last) = {"D", "E", "H", "L"} \ (IF undef THEN {"H", "L"} ELSE {})
    <3>1. fm \o last \in Seq(Coded)
      BY <2>3, <2>7 DEF fm
    <3>2. /\ Reading(fm \o last) = Reading(fm) \cup (Reading(last) \ Touched(fm))
          /\ Touched(fm \o last) = Touched(fm) \cup Touched(last)
          /\ Killing(fm \o last) = Killing(fm) \cup Killing(last)
      <4>1. fm \in Seq(Coded)
        BY <2>7 DEF fm
      <4>2. last \in Seq(Coded)
        BY <2>3
      <4>. QED
        BY <4>1, <4>2, CodedJoin, Zenon
    <3>. QED
      BY <2>3, <2>7, <3>1, <3>2 DEF fm
  <2>9. Stands(fm \o last, x, E)
    BY <1>2, <2>5, <2>6, <2>8 DEF Stands
  <2>. QED
    BY <2>1, <2>9 DEF fm, x
<1>5. CASE x.reg = "BC"
  <2>1. \E R, T, W : Shape(body, R, T, W) /\ R = {"B", "C"} /\ T = {"B", "C", "H", "L"}
    <3>1. {"B", "C", "H", "L"} \subseteq Regs
      BY PairsNamed
    <3>2. Shape(<<Mov("L", "C")>>, {"C"}, {"C", "L"}, {"L"}) /\ Shape(<<Mov("H", "B")>>, {"B"}, {"B", "H"}, {"H"})
      BY <3>1, MovShape
    <3>3. Shape(<<Mov("L", "C"), Mov("H", "B")>>, {"C"} \cup ({"B"} \ {"C", "L"}), {"C", "L"} \cup {"B", "H"}, {"L"} \cup {"H"})
      BY <3>2, ShapeTwo
    <3>. DEFINE t == <<Mov("L", "C"), Mov("H", "B")>>
    <3>4. Shape(t, {"B", "C"}, {"B", "C", "H", "L"}, {"H", "L"})
      BY <3>3
    <3>. HIDE DEF t, shlds
    <3>5. Shape(t \o shlds, {"B", "C"} \cup ({"H", "L"} \ {"B", "C", "H", "L"}), {"B", "C", "H", "L"} \cup {"H", "L"}, {"H", "L"} \cup {})
      BY <1>1, <3>4, ShapeJoin
    <3>. QED
      BY <3>5 DEF t
  <2>. DEFINE c == IF PairDead(D, "HL") THEN body ELSE Around("HL", body)
              K == IF x.kill THEN {"B", "C"} ELSE {}
  <2>2. SpillCode16(k) = Plain(c, K)
    BY <1>5 DEF SpillCode16
  <2>3. K \in SUBSET AllRegs /\ K \subseteq KilledBy(x)
    BY <1>2, <1>5, PairsNamed
  <2>4. UsesOf(x) = {"B", "C"}
    BY <1>2, <1>5, PairsNamed
  <2>5. PairDead(D, "HL") => {"H", "L"} \subseteq E
    BY DEF PairDead, Hi, Lo
  <2>. HIDE DEF x, K, D
  <2>6. CASE PairDead(D, "HL")
    <3>1. c = body
      BY <2>6
    <3>. HIDE DEF c, body
    <3>2. PICK R, T, W : Shape(body, R, T, W) /\ R = {"B", "C"} /\ T = {"B", "C", "H", "L"}
      BY <2>1
    <3>3. T \subseteq R \cup DefsOf(x) \cup E /\ UsesOf(x) \subseteq R /\ DefsOf(x) \cap {"H", "L"} \subseteq W
      BY <1>2, <2>4, <2>5, <2>6, <3>2
    <3>4. Stands(Plain(body, K), x, E)
      BY <2>3, <3>2, <3>3, PlainStands
    <3>. QED
      BY <2>2, <3>1, <3>4 DEF x
  <2>7. CASE ~PairDead(D, "HL")
    <3>1. c = Around("HL", body)
      BY <2>7
    <3>. HIDE DEF c, body
    <3>2. PICK R, T, W : Shape(body, R, T, W) /\ R = {"B", "C"} /\ T = {"B", "C", "H", "L"}
      BY <2>1
    <3>. DEFINE R2 == {"H", "L"} \cup R
                T2 == {"H", "L"} \cup T
                W2 == {"H", "L"} \cup W
                b == Around("HL", body)
    <3>3. Shape(b, R2, T2, W2)
      BY <3>2, AroundShape
    <3>4. T2 \subseteq R2 \cup DefsOf(x) \cup E /\ UsesOf(x) \subseteq R2 /\ DefsOf(x) \cap {"H", "L"} \subseteq W2
      BY <1>2, <2>4, <3>2
    <3>. HIDE DEF R2, T2, W2, b
    <3>5. Stands(Plain(b, K), x, E)
      BY <2>3, <3>3, <3>4, PlainStands
    <3>. QED
      BY <2>2, <3>1, <3>5 DEF x, b
  <2>. QED
    BY <2>6, <2>7
<1>. QED
  BY <1>3, <1>4, <1>5, PairsNamed

LEMMA Spill8Stands ==
  ASSUME SitesKnown, NEW k \in DOMAIN mbb, mbb[k].op = "SPILL8", mbb[k].reg \in Regs, mbb[k].kill \in BOOLEAN,
         NEW E, DeadSet(k) \subseteq E
  PROVE  Stands(SpillCode8(k), mbb[k], E)
<1>. DEFINE x == mbb[k]
            K == IF x.kill THEN {x.reg} ELSE {}
            stas == [i \in DOMAIN winners |-> Sta(SiteAddr(i))]
            one == StaticSpill8(DeadSet(k), frame.reserved, x.reg, SiteAddr(1))
<1>1. Shape(stas, {"A"}, {"A"}, {}) /\ SiteAddr(1) \in Int
  BY SitesAddressed
<1>2. UsesOf(x) = {x.reg} /\ DefsOf(x) = {} /\ K \subseteq KilledBy(x) /\ K \in SUBSET AllRegs
  <2>1. UsesOf(x) = Parts(x.reg) /\ DefsOf(x) = {} /\ (x.kill => KilledBy(x) = Parts(x.reg))
    BY DEF UsesOf, DefsOf, KilledBy, Spills, Reloads, Stores, Loads
  <2>2. Parts(x.reg) = {x.reg} /\ {x.reg} \subseteq AllRegs
    BY PairsNamed
  <2>. QED
    BY <2>1, <2>2
<1>3. CASE x.reg = "A"
  <2>1. SpillCode8(k) = Plain(stas, K)
    BY <1>3 DEF SpillCode8
  <2>2. UsesOf(x) = {"A"}
    BY <1>2, <1>3
  <2>. HIDE DEF x, K, stas
  <2>3. Stands(Plain(stas, K), x, E)
    BY <1>1, <1>2, <2>2, PlainStands
  <2>. QED
    BY <2>1, <2>3 DEF x
<1>4. CASE x.reg # "A"
  <2>1. SpillCode8(k) = Plain(one, K)
    BY <1>4 DEF SpillCode8
  <2>2. PICK R, T, W : Shape(one, R, T, W) /\ x.reg \in R /\ T \subseteq R \cup DeadSet(k) \cup {x.reg}
    BY <1>1, <1>4, Spill8Shape
  <2>3. T \subseteq R \cup DefsOf(x) \cup E /\ UsesOf(x) \subseteq R /\ DefsOf(x) \cap {"H", "L"} \subseteq W
    BY <1>2, <2>2
  <2>. HIDE DEF x, K, one
  <2>4. Stands(Plain(one, K), x, E)
    BY <1>2, <2>2, <2>3, PlainStands
  <2>. QED
    BY <2>1, <2>4 DEF x
<1>. QED
  BY <1>3, <1>4

LEMMA Reload16Stands ==
  ASSUME SitesKnown, NEW k \in DOMAIN mbb, mbb[k].op = "RELOAD16", mbb[k].reg \in Pairs, NEW E, DeadSet(k) \subseteq E
  PROVE  Stands(ReloadCode16(k), mbb[k], E)
<1>. DEFINE x == mbb[k]
            dead == PairDead(DeadSet(k), "HL")
            lhld == <<Lhld(SiteAddr(1))>>
            moves == <<Mov("C", "L"), Mov("B", "H")>>
            body == lhld \o moves
            xchg == UndefXchg({"D", "E"})
<1>1. Shape(lhld, {}, {"H", "L"}, {"H", "L"})
  BY SitesAddressed, LhldShape
<1>2. UsesOf(x) = {} /\ DefsOf(x) = Parts(x.reg)
  BY DEF UsesOf, DefsOf, Spills, Reloads, Stores, Loads
<1>3. dead => {"H", "L"} \subseteq E
  BY DEF PairDead, Hi, Lo
<1>4. /\ xchg \in Seq(Coded) /\ Reading(xchg) = {"H", "L"} /\ Touched(xchg) = {"D", "E", "H", "L"}
      /\ Written(xchg) = {"D", "E", "H", "L"} /\ Killing(xchg) = {}
  <2>1. {"D", "E"} \in SUBSET AllRegs
    BY DEF AllRegs, Regs
  <2>2. /\ xchg \in Seq(Coded) /\ Reading(xchg) = {"D", "E", "H", "L"} \ {"D", "E"} /\ Touched(xchg) = {"D", "E", "H", "L"}
        /\ Written(xchg) = {"D", "E", "H", "L"} /\ Killing(xchg) = {}
    BY <2>1, UndefXchgScan
  <2>. QED
    BY <2>2
<1>5. {} \in SUBSET AllRegs /\ {} \subseteq KilledBy(x)
  OBVIOUS
<1>6. CASE x.reg = "HL"
  <2>1. ReloadCode16(k) = Plain(lhld, {})
    BY <1>6 DEF ReloadCode16
  <2>2. DefsOf(x) = {"H", "L"}
    BY <1>2, <1>6, PairsNamed
  <2>. HIDE DEF x, lhld
  <2>3. Stands(Plain(lhld, {}), x, E)
    BY <1>1, <1>2, <1>5, <2>2, PlainStands
  <2>. QED
    BY <2>1, <2>3 DEF x
<1>7. CASE x.reg = "DE" /\ dead
  <2>. DEFINE p == Plain(lhld, {})
  <2>1. ReloadCode16(k) = p \o xchg
    BY <1>7 DEF ReloadCode16
  <2>2. DefsOf(x) = {"D", "E"}
    BY <1>2, <1>7, PairsNamed
  <2>3. p \in Seq(Coded) /\ Reading(p) = {} /\ Touched(p) = {"H", "L"} /\ Killing(p) = {}
    <3>. HIDE DEF lhld
    <3>. QED
      BY <1>1, <1>5, PlainScan
  <2>. HIDE DEF p, xchg, x, dead
  <2>4. p \o xchg \in Seq(Coded)
    BY <1>4, <2>3
  <2>5. /\ Reading(p \o xchg) = Reading(p) \cup (Reading(xchg) \ Touched(p))
        /\ Touched(p \o xchg) = Touched(p) \cup Touched(xchg)
        /\ Killing(p \o xchg) = Killing(p) \cup Killing(xchg)
    BY <1>4, <2>3, ScanJoin
  <2>6. Stands(p \o xchg, x, E)
    BY <1>2, <1>3, <1>4, <1>7, <2>2, <2>3, <2>4, <2>5 DEF Stands
  <2>. QED
    BY <2>1, <2>6 DEF x
<1>8. CASE x.reg = "DE" /\ ~dead
  <2>. DEFINE c == lhld \o <<Xchg>>
              p == Plain(c, {})
  <2>1. ReloadCode16(k) = xchg \o p
    BY <1>8 DEF ReloadCode16
  <2>2. DefsOf(x) = {"D", "E"}
    BY <1>2, <1>8, PairsNamed
  <2>3. p \in Seq(Coded) /\ Reading(p) = {"D", "E"} /\ Touched(p) = {"D", "E", "H", "L"} /\ Killing(p) = {}
    <3>. HIDE DEF lhld
    <3>1. Shape(c, {} \cup ({"D", "E", "H", "L"} \ {"H", "L"}), {"H", "L"} \cup {"D", "E", "H", "L"}, {"H", "L"} \cup {"D", "E", "H", "L"})
      BY <1>1, XchgShape, ShapeJoin
    <3>2. Shape(c, {"D", "E"}, {"D", "E", "H", "L"}, {"D", "E", "H", "L"})
      BY <3>1, ShapeSame
    <3>. HIDE DEF c
    <3>. QED
      BY <1>5, <3>2, PlainScan
  <2>. HIDE DEF p, xchg, x, dead
  <2>4. xchg \o p \in Seq(Coded)
    BY <1>4, <2>3
  <2>5. /\ Reading(xchg \o p) = Reading(xchg) \cup (Reading(p) \ Touched(xchg))
        /\ Touched(xchg \o p) = Touched(xchg) \cup Touched(p)
        /\ Killing(xchg \o p) = Killing(xchg) \cup Killing(p)
    BY <1>4, <2>3, ScanJoin
  <2>6. Stands(xchg \o p, x, E)
    BY <1>2, <1>4, <2>2, <2>3, <2>4, <2>5 DEF Stands
  <2>. QED
    BY <2>1, <2>6 DEF x
<1>9. CASE x.reg = "BC"
  <2>1. Shape(moves, {"H", "L"}, {"B", "C", "H", "L"}, {"B", "C"})
    <3>1. {"B", "C", "H", "L"} \subseteq Regs
      BY PairsNamed
    <3>2. Shape(<<Mov("C", "L")>>, {"L"}, {"L", "C"}, {"C"}) /\ Shape(<<Mov("B", "H")>>, {"H"}, {"H", "B"}, {"B"})
      BY <3>1, MovShape
    <3>3. Shape(moves, {"L"} \cup ({"H"} \ {"L", "C"}), {"L", "C"} \cup {"H", "B"}, {"C"} \cup {"B"})
      BY <3>2, ShapeTwo
    <3>. HIDE DEF moves
    <3>. QED
      BY <3>3, ShapeSame
  <2>2. \E R, T, W : Shape(body, R, T, W) /\ R = {} /\ T = {"B", "C", "H", "L"}
    <3>. HIDE DEF lhld, moves
    <3>1. Shape(body, {} \cup ({"H", "L"} \ {"H", "L"}), {"H", "L"} \cup {"B", "C", "H", "L"}, {"H", "L"} \cup {"B", "C"})
      BY <1>1, <2>1, ShapeJoin
    <3>. QED
      BY <3>1
  <2>. DEFINE c == IF dead THEN body ELSE Around("HL", body)
  <2>3. ReloadCode16(k) = Plain(c, {})
    BY <1>9 DEF ReloadCode16
  <2>4. DefsOf(x) = {"B", "C"}
    BY <1>2, <1>9, PairsNamed
  <2>. HIDE DEF x, dead
  <2>6. CASE dead
    <3>1. c = body
      BY <2>6
    <3>. HIDE DEF c, body
    <3>2. PICK R, T, W : Shape(body, R, T, W) /\ R = {} /\ T = {"B", "C", "H", "L"}
      BY <2>2
    <3>3. T \subseteq R \cup DefsOf(x) \cup E /\ UsesOf(x) \subseteq R /\ DefsOf(x) \cap {"H", "L"} \subseteq W
      BY <1>2, <1>3, <2>4, <2>6, <3>2
    <3>4. Stands(Plain(body, {}), x, E)
      BY <1>5, <3>2, <3>3, PlainStands
    <3>. QED
      BY <2>3, <3>1, <3>4 DEF x
  <2>7. CASE ~dead
    <3>1. c = Around("HL", body)
      BY <2>7
    <3>. HIDE DEF c, body
    <3>2. PICK R, T, W : Shape(body, R, T, W) /\ R = {} /\ T = {"B", "C", "H", "L"}
      BY <2>2
    <3>. DEFINE R2 == {"H", "L"} \cup R
                T2 == {"H", "L"} \cup T
                W2 == {"H", "L"} \cup W
                b == Around("HL", body)
    <3>3. Shape(b, R2, T2, W2)
      BY <3>2, AroundShape
    <3>4. T2 \subseteq R2 \cup DefsOf(x) \cup E /\ UsesOf(x) \subseteq R2 /\ DefsOf(x) \cap {"H", "L"} \subseteq W2
      BY <1>2, <2>4, <3>2
    <3>. HIDE DEF R2, T2, W2, b
    <3>5. Stands(Plain(b, {}), x, E)
      BY <1>5, <3>3, <3>4, PlainStands
    <3>. QED
      BY <2>3, <3>1, <3>5 DEF x, b
  <2>. QED
    BY <2>6, <2>7
<1>. QED
  BY <1>6, <1>7, <1>8, <1>9, PairsNamed

LEMMA Reload8Stands ==
  ASSUME SitesKnown, NEW k \in DOMAIN mbb, mbb[k].op = "RELOAD8", mbb[k].reg \in Regs, NEW E, DeadSet(k) \subseteq E
  PROVE  Stands(ReloadCode8(k), mbb[k], E)
<1>. DEFINE x == mbb[k]
            lda == <<Lda(SiteAddr(1))>>
            one == StaticReload8(DeadSet(k), frame.reserved, x.reg, SiteAddr(1))
<1>1. Shape(lda, {}, {"A"}, {"A"}) /\ SiteAddr(1) \in Int
  BY SitesAddressed, LdaShape
<1>2. UsesOf(x) = {} /\ DefsOf(x) = {x.reg}
  <2>1. UsesOf(x) = {} /\ DefsOf(x) = Parts(x.reg)
    BY DEF UsesOf, DefsOf, Spills, Reloads, Stores, Loads
  <2>2. Parts(x.reg) = {x.reg}
    BY PairsNamed
  <2>. QED
    BY <2>1, <2>2
<1>5. {} \in SUBSET AllRegs /\ {} \subseteq KilledBy(x)
  OBVIOUS
<1>3. CASE x.reg = "A"
  <2>1. ReloadCode8(k) = Plain(lda, {})
    BY <1>3 DEF ReloadCode8
  <2>2. DefsOf(x) = {"A"}
    BY <1>2, <1>3
  <2>. HIDE DEF x, lda
  <2>3. Stands(Plain(lda, {}), x, E)
    BY <1>1, <1>2, <1>5, <2>2, PlainStands
  <2>. QED
    BY <2>1, <2>3 DEF x
<1>4. CASE x.reg # "A"
  <2>1. ReloadCode8(k) = Plain(one, {})
    BY <1>4 DEF ReloadCode8
  <2>2. PICK R, T, W : Shape(one, R, T, W) /\ x.reg \in W /\ T \subseteq R \cup DeadSet(k) \cup {x.reg}
    BY <1>1, <1>4, Reload8Shape
  <2>3. T \subseteq R \cup DefsOf(x) \cup E /\ UsesOf(x) \subseteq R /\ DefsOf(x) \cap {"H", "L"} \subseteq W
    BY <1>2, <2>2
  <2>. HIDE DEF x, one
  <2>4. Stands(Plain(one, {}), x, E)
    BY <1>2, <1>5, <2>2, <2>3, PlainStands
  <2>. QED
    BY <2>1, <2>4 DEF x
<1>. QED
  BY <1>3, <1>4

(* A patched site.                                                          *)
SiteCode(k, n) == <<[Mc(IF cur.width = 16 THEN Lxi(mbb[k].reg, 0) ELSE Mvi(mbb[k].reg, 0), {}, {}) EXCEPT !.patch = n]>>

LEMMA SiteStands ==
  ASSUME NEW k \in DOMAIN mbb, NEW n \in Nat, NEW E,
         \/ cur.width = 16 /\ mbb[k].op = "RELOAD16" /\ mbb[k].reg \in Pairs
         \/ cur.width = 8 /\ mbb[k].op = "RELOAD8" /\ mbb[k].reg \in Regs
  PROVE  Stands(SiteCode(k, n), mbb[k], E)
<1>. DEFINE x == mbb[k]
            i == IF cur.width = 16 THEN Lxi(x.reg, 0) ELSE Mvi(x.reg, 0)
            y == [Mc(i, {}, {}) EXCEPT !.patch = n]
<1>1. UsesOf(x) = {} /\ DefsOf(x) = Parts(x.reg) /\ DefsOf(x) \subseteq Regs
  <2>1. UsesOf(x) = {} /\ DefsOf(x) = Parts(x.reg)
    BY DEF UsesOf, DefsOf, Spills, Reloads, Stores, Loads
  <2>. QED
    BY <2>1, PairsNamed, HalvesOf
<1>2. i \in Instructions /\ Reads8080(i) = {} /\ Writes8080(i) = Parts(x.reg)
  <2>. DEFINE r == x.reg
  <2>1. CASE cur.width = 16
    <3>0. i = Lxi(r, 0) /\ r \in Pairs /\ 0 \in Int
      BY <2>1
    <3>. HIDE DEF i, r
    <3>. QED
      BY <3>0, LxiNamed DEF r
  <2>2. CASE cur.width # 16
    <3>0. i = Mvi(r, 0) /\ r \in Regs /\ 0 \in Int
      BY <2>2
    <3>1. Parts(r) = {r}
      BY <3>0, PairsNamed
    <3>. HIDE DEF i, r
    <3>. QED
      BY <3>0, <3>1, MviNamed DEF r
  <2>. QED
    BY <2>1, <2>2
<1>. HIDE DEF i
<1>3. y \in Coded /\ y.op = "MC" /\ y.i = i /\ y.undef = {} /\ y.killed = {} /\ y.patch = n
  BY <1>2 DEF Mc, Coded
<1>4. SiteCode(k, n) = <<y>>
  BY DEF SiteCode, i
<1>. HIDE DEF y, x
<1>5. UsesOf(y) = {} /\ DefsOf(y) = DefsOf(x) /\ KilledBy(y) = {}
  <2>1. UsesOf(y) = {}
    BY <1>2, <1>3 DEF UsesOf, Spills, Stores
  <2>2. DefsOf(y) = DefsOf(x)
    BY <1>1, <1>2, <1>3 DEF DefsOf, Reloads, Stores, Loads
  <2>3. KilledBy(y) = {}
    BY <1>3 DEF KilledBy, Spills, Stores
  <2>. QED
    BY <2>1, <2>2, <2>3
<1>6. /\ Reading(<<y>>) = {} /\ Touched(<<y>>) = DefsOf(x) /\ Written(<<y>>) = DefsOf(x) /\ Killing(<<y>>) = {}
  BY <1>1, <1>5, ScanOne DEF Touch
<1>7. <<y>> \in Seq(Coded)
  BY <1>3
<1>8. Stands(<<y>>, x, E)
  BY <1>1, <1>6, <1>7 DEF Stands
<1>. QED
  BY <1>4, <1>8 DEF x

-----------------------------------------------------------------------------
(* Instruction K of the block as it came is read in b by a segment: those   *)
(* instructions of b whose id is K.                                         *)
FirstRead(b, id, K, r) ==
  \E p \in 1..Len(b) : /\ id[p] = K /\ r \in UsesOf(b[p])
                       /\ \A q \in 1..p - 1 : id[q] = K => r \notin Touch(b[q])

InOrder(b, id) == \A p, q \in 1..Len(b) : p < q => id[p] <= id[q]
Alone(b, id) ==
  \A p \in 1..Len(b) : b[p].op # "MC" =>
    /\ b[p] = allocated[id[p]]
    /\ \A q \in 1..Len(b) : id[q] = id[p] => q = p
ReadsStay(b, id) == \A K \in 1..Len(allocated) : \A r \in UsesOf(allocated[K]) \cap Regs : FirstRead(b, id, K, r)
OnlyDead(b, id) ==
  \A p \in 1..Len(b) : \A r \in Touch(b[p]) \cap Regs :
    \/ r \in DefsOf(allocated[id[p]])
    \/ DeadAfter(allocated, id[p], frame.liveOut, r)
    \/ FirstRead(b, id, id[p], r)
WritesStay(b, id) ==
  \A K \in 1..Len(allocated) : \A r \in DefsOf(allocated[K]) \cap {"H", "L"} :
    \E p \in 1..Len(b) : id[p] = K /\ r \in DefsOf(b[p])
KillsStay(b, id) == \A p \in 1..Len(b) : KilledBy(b[p]) \cap Regs \subseteq KilledBy(allocated[id[p]])

Segments(b, id) ==
  /\ InOrder(b, id) /\ Alone(b, id) /\ ReadsStay(b, id) /\ OnlyDead(b, id)
  /\ WritesStay(b, id) /\ KillsStay(b, id)

(* Where the instructions of b are, and those of s, in b with s for k.      *)
To(k, n, q) == IF q < k THEN q ELSE q - 1 + n
Exchanged(b, id, k, s, c, id2) ==
  LET n == Len(s) IN
  /\ Len(b) \in Nat /\ n \in Nat /\ k \in 1..Len(b) /\ Len(c) = Len(b) - 1 + n
  /\ \A q \in 1..Len(b) \ {k} :
       To(k, n, q) \in 1..Len(c) /\ c[To(k, n, q)] = b[q] /\ id2[To(k, n, q)] = id[q]
  /\ \A j \in 1..n : k - 1 + j \in 1..Len(c) /\ c[k - 1 + j] = s[j] /\ id2[k - 1 + j] = id[k]
  /\ \A p \in 1..Len(c) : \/ \E q \in 1..Len(b) \ {k} : p = To(k, n, q)
                          \/ \E j \in 1..n : p = k - 1 + j

InPlace(S, b, k, y, c) ==
  /\ c \in Seq(S)
  /\ Len(c) = Len(b) - 1 + Len(y)
  /\ \A i \in 1..k - 1 : c[i] = b[i]
  /\ \A i \in 1..Len(y) : c[k - 1 + i] = y[i]
  /\ \A i \in k + 1..Len(b) : c[i - 1 + Len(y)] = b[i]

LEMMA PutInPlace ==
  ASSUME NEW S, NEW b \in Seq(S), NEW k \in 1..Len(b), NEW y \in Seq(S)
  PROVE  InPlace(S, b, k, y, Replace(b, k, y))
BY ReplaceFacts, Zenon DEF InPlace

Repeated(s, K) == [j \in DOMAIN s |-> K]

LEMMA RewritePlaces ==
  ASSUME NEW w, NEW b \in Seq(InBlock(w)), NEW id \in Seq(Nat), Len(id) = Len(b), NEW s \in Seq(InBlock(w)),
         NEW k \in 1..Len(b)
  PROVE  /\ Exchanged(b, id, k, s, Replace(b, k, s), Replace(id, k, Repeated(s, id[k])))
         /\ Replace(b, k, s) \in Seq(InBlock(w)) /\ Replace(id, k, Repeated(s, id[k])) \in Seq(Nat)
         /\ Len(Replace(b, k, s)) = Len(Replace(id, k, Repeated(s, id[k])))
<1>. DEFINE t == Repeated(s, id[k])
            c == Replace(b, k, s)
            id2 == Replace(id, k, t)
            n == Len(s)
<1>1. n \in Nat /\ Len(b) \in Nat /\ DOMAIN s = 1..n /\ id[k] \in Nat
  OBVIOUS
<1>2. t \in Seq(Nat) /\ Len(t) = n /\ \A j \in 1..n : t[j] = id[k]
  BY <1>1 DEF Repeated
<1>. HIDE DEF t
<1>3. /\ c \in Seq(InBlock(w)) /\ Len(c) = Len(b) - 1 + n
      /\ \A i \in 1..k - 1 : c[i] = b[i]
      /\ \A i \in 1..n : c[k - 1 + i] = s[i]
      /\ \A i \in k + 1..Len(b) : c[i - 1 + n] = b[i]
  <2>1. InPlace(InBlock(w), b, k, s, c)
    BY PutInPlace
  <2>. HIDE DEF c
  <2>. QED
    BY <2>1 DEF InPlace
<1>4. /\ id2 \in Seq(Nat) /\ Len(id2) = Len(id) - 1 + Len(t)
      /\ \A i \in 1..k - 1 : id2[i] = id[i]
      /\ \A i \in 1..Len(t) : id2[k - 1 + i] = t[i]
      /\ \A i \in k + 1..Len(id) : id2[i - 1 + Len(t)] = id[i]
  <2>1. k \in 1..Len(id)
    OBVIOUS
  <2>. QED
    <3>1. InPlace(Nat, id, k, t, id2)
      BY <1>2, <2>1, PutInPlace
    <3>. HIDE DEF id2
    <3>. QED
      BY <3>1 DEF InPlace
<1>. HIDE DEF c, id2, n
<1>5. \A q \in 1..Len(b) \ {k} : To(k, n, q) \in 1..Len(c) /\ c[To(k, n, q)] = b[q] /\ id2[To(k, n, q)] = id[q]
  <2>1. ASSUME NEW q \in 1..Len(b) \ {k}
        PROVE  To(k, n, q) \in 1..Len(c) /\ c[To(k, n, q)] = b[q] /\ id2[To(k, n, q)] = id[q]
    <3>1. CASE q < k
      <4>1. To(k, n, q) = q /\ q \in 1..k - 1 /\ q \in 1..Len(c)
        BY <1>1, <1>3, <3>1 DEF To
      <4>. QED
        BY <1>3, <1>4, <4>1
    <3>2. CASE ~(q < k)
      <4>1. To(k, n, q) = q - 1 + n /\ q \in k + 1..Len(b) /\ q - 1 + n \in 1..Len(c)
        BY <1>1, <1>3, <3>2 DEF To
      <4>2. q \in k + 1..Len(id) /\ q - 1 + n = q - 1 + Len(t)
        BY <1>2, <4>1
      <4>. QED
        BY <1>3, <1>4, <4>1, <4>2
    <3>. QED
      BY <3>1, <3>2
  <2>. QED
    BY <2>1
<1>6. \A j \in 1..n : k - 1 + j \in 1..Len(c) /\ c[k - 1 + j] = s[j] /\ id2[k - 1 + j] = id[k]
  <2>1. \A j \in 1..n : k - 1 + j \in 1..Len(c) /\ j \in 1..Len(t)
    BY <1>1, <1>2, <1>3
  <2>. QED
    BY <1>2, <1>3, <1>4, <2>1
<1>7. \A p \in 1..Len(c) : \/ \E q \in 1..Len(b) \ {k} : p = To(k, n, q)
                           \/ \E j \in 1..n : p = k - 1 + j
  <2>1. ASSUME NEW p \in 1..Len(c)
        PROVE  \/ \E q \in 1..Len(b) \ {k} : p = To(k, n, q)
               \/ \E j \in 1..n : p = k - 1 + j
    <3>1. CASE p < k
      <4>1. p \in 1..Len(b) \ {k} /\ p = To(k, n, p)
        BY <3>1 DEF To
      <4>. QED
        BY <4>1
    <3>2. CASE p >= k /\ p <= k - 1 + n
      <4>1. p - k + 1 \in 1..n /\ p = k - 1 + (p - k + 1)
        BY <1>1, <3>2
      <4>. QED
        BY <4>1
    <3>3. CASE p > k - 1 + n
      <4>1. p - n + 1 \in 1..Len(b) \ {k} /\ p = To(k, n, p - n + 1)
        BY <1>1, <1>3, <3>3 DEF To
      <4>. QED
        BY <4>1
    <3>. QED
      BY <1>1, <3>1, <3>2, <3>3
  <2>. QED
    BY <2>1
<1>8. Exchanged(b, id, k, s, c, id2)
  BY <1>1, <1>3, <1>5, <1>6, <1>7 DEF Exchanged, n
<1>9. Len(c) = Len(id2)
  BY <1>2, <1>3, <1>4
<1>. QED
  BY <1>3, <1>4, <1>8, <1>9 DEF c, id2, t

(* The order of the places.                                                 *)
LEMMA ToOrder ==
  ASSUME NEW k \in Nat, NEW n \in Nat
  PROVE  /\ \A p, q \in Nat \ {k} : p < q <=> To(k, n, p) < To(k, n, q)
         /\ \A p \in Nat \ {k} : \A j \in 1..n : To(k, n, p) < k - 1 + j <=> p < k
         /\ \A p \in Nat \ {k} : \A j \in 1..n : To(k, n, p) # k - 1 + j
BY DEF To

(* A segment that is not rewritten, and the one that is.                    *)
LEMMA OthersRead ==
  ASSUME NEW b, NEW id, NEW k, NEW s, NEW c, NEW id2, Exchanged(b, id, k, s, c, id2),
         NEW K, K # id[k], NEW r, FirstRead(b, id, K, r)
  PROVE  FirstRead(c, id2, K, r)
<1>. DEFINE n == Len(s)
            at(q) == To(k, n, q)
            in(j) == k - 1 + j
<1>1. /\ Len(b) \in Nat /\ n \in Nat /\ k \in 1..Len(b) /\ Len(c) = Len(b) - 1 + n
      /\ \A q \in 1..Len(b) \ {k} : at(q) \in 1..Len(c) /\ c[at(q)] = b[q] /\ id2[at(q)] = id[q]
      /\ \A j \in 1..n : in(j) \in 1..Len(c) /\ c[in(j)] = s[j] /\ id2[in(j)] = id[k]
      /\ \A p \in 1..Len(c) : (\E q \in 1..Len(b) \ {k} : p = at(q)) \/ (\E j \in 1..n : p = in(j))
  BY Zenon DEF Exchanged
<1>2. PICK p \in 1..Len(b) : /\ id[p] = K /\ r \in UsesOf(b[p])
                             /\ \A q \in 1..p - 1 : id[q] = K => r \notin Touch(b[q])
  BY DEF FirstRead
<1>3. p \in 1..Len(b) \ {k}
  BY <1>2
<1>4. \A q \in 1..Len(b) \ {k} : q < p <=> at(q) < at(p)
  <2>1. \A q \in 1..Len(b) \ {k} : q \in Nat \ {k}
    OBVIOUS
  <2>2. k \in Nat /\ n \in Nat
    BY <1>1
  <2>3. \A o, q \in Nat \ {k} : o < q <=> at(o) < at(q)
    <3>. HIDE DEF n
    <3>. QED
      BY <2>2, ToOrder
  <2>. HIDE DEF n, at
  <2>. QED
    BY <1>3, <2>1, <2>3
<1>. HIDE DEF at, n, in
<1>5. at(p) \in 1..Len(c) /\ c[at(p)] = b[p] /\ id2[at(p)] = K
  BY <1>1, <1>2, <1>3
<1>6. ASSUME NEW q \in 1..at(p) - 1, id2[q] = K PROVE r \notin Touch(c[q])
  <2>1. q \in 1..Len(c) /\ q < at(p)
    BY <1>1, <1>5
  <2>2. ~\E j \in 1..n : q = in(j)
    BY <1>1, <1>6
  <2>3. PICK o \in 1..Len(b) \ {k} : q = at(o)
    BY <1>1, <2>1, <2>2
  <2>4. o < p /\ id[o] = K /\ c[q] = b[o]
    BY <1>1, <1>3, <1>4, <1>6, <2>1, <2>3
  <2>5. o \in 1..p - 1
    BY <1>1, <2>4
  <2>. QED
    BY <1>2, <2>4, <2>5
<1>. QED
  BY <1>2, <1>5, <1>6 DEF FirstRead

LEMMA RewrittenReads ==
  ASSUME NEW b, NEW id, NEW k, NEW s, NEW c, NEW id2, Exchanged(b, id, k, s, c, id2),
         \A q \in 1..Len(b) : id[q] = id[k] => q = k, NEW r, r \in Reading(s)
  PROVE  FirstRead(c, id2, id[k], r)
<1>. DEFINE n == Len(s)
            at(q) == To(k, n, q)
            in(j) == k - 1 + j
<1>1. /\ Len(b) \in Nat /\ n \in Nat /\ k \in 1..Len(b) /\ Len(c) = Len(b) - 1 + n
      /\ \A q \in 1..Len(b) \ {k} : at(q) \in 1..Len(c) /\ c[at(q)] = b[q] /\ id2[at(q)] = id[q]
      /\ \A j \in 1..n : in(j) \in 1..Len(c) /\ c[in(j)] = s[j] /\ id2[in(j)] = id[k]
      /\ \A p \in 1..Len(c) : (\E q \in 1..Len(b) \ {k} : p = at(q)) \/ (\E j \in 1..n : p = in(j))
  BY Zenon DEF Exchanged
<1>2. PICK j \in 1..n : r \in UsesOf(s[j]) /\ \A i \in 1..j - 1 : r \notin Touch(s[i])
  BY DEF Reading
<1>. DEFINE p == in(j)
<1>3. p \in 1..Len(c) /\ id2[p] = id[k] /\ r \in UsesOf(c[p])
  BY <1>1, <1>2
<1>. HIDE DEF at, n, in
<1>4. ASSUME NEW q \in 1..p - 1, id2[q] = id[k] PROVE r \notin Touch(c[q])
  <2>0. Len(c) \in Int
    BY <1>1
  <2>1. q \in 1..Len(c) /\ q < in(j)
    <3>. HIDE DEF p
    <3>1. q \in 1..Len(c) /\ q < p
      BY <1>3, <2>0
    <3>. QED
      BY <3>1 DEF p
  <2>2. ~\E o \in 1..Len(b) \ {k} : q = at(o)
    BY <1>1, <1>4
  <2>3. PICK i \in 1..n : q = in(i)
    BY <1>1, <2>1, <2>2
  <2>4. i \in 1..j - 1 /\ c[q] = s[i]
    BY <1>1, <2>1, <2>3 DEF in
  <2>. QED
    BY <1>2, <2>4
<1>. QED
  BY <1>3, <1>4 DEF FirstRead

LEMMA RewriteKeeps ==
  ASSUME NEW b, NEW id, NEW k, NEW s, NEW c, NEW id2, Exchanged(b, id, k, s, c, id2), Segments(b, id),
         b[k].op # "MC", NEW E, Stands(s, b[k], E), \A q \in 1..Len(b) : id[q] \in 1..Len(allocated),
         \A r \in E \cap Regs : DeadAfter(allocated, id[k], frame.liveOut, r)
  PROVE  Segments(c, id2)
<1>. DEFINE n == Len(s)
            at(q) == To(k, n, q)
            in(j) == k - 1 + j
            x == b[k]
<1>1. /\ Len(b) \in Nat /\ n \in Nat /\ k \in 1..Len(b) /\ Len(c) = Len(b) - 1 + n
      /\ \A q \in 1..Len(b) \ {k} : at(q) \in 1..Len(c) /\ c[at(q)] = b[q] /\ id2[at(q)] = id[q]
      /\ \A j \in 1..n : in(j) \in 1..Len(c) /\ c[in(j)] = s[j] /\ id2[in(j)] = id[k]
      /\ \A p \in 1..Len(c) : (\E q \in 1..Len(b) \ {k} : p = at(q)) \/ (\E j \in 1..n : p = in(j))
  BY Zenon DEF Exchanged
<1>2. x = allocated[id[k]] /\ \A q \in 1..Len(b) : id[q] = id[k] => q = k
  BY <1>1 DEF Segments, Alone
<1>3. /\ \A p, q \in 1..Len(b) \ {k} : p < q <=> at(p) < at(q)
      /\ \A p \in 1..Len(b) \ {k} : \A j \in 1..n : (at(p) < in(j) <=> p < k) /\ at(p) # in(j)
  <2>1. \A q \in 1..Len(b) \ {k} : q \in Nat \ {k}
    OBVIOUS
  <2>2. k \in Nat /\ n \in Nat
    BY <1>1
  <2>3. /\ \A p, q \in Nat \ {k} : p < q <=> at(p) < at(q)
        /\ \A p \in Nat \ {k} : \A j \in 1..n : (at(p) < in(j) <=> p < k) /\ at(p) # in(j)
    <3>. HIDE DEF n
    <3>. QED
      BY <2>2, ToOrder
  <2>. HIDE DEF n, at, in
  <2>. QED
    BY <2>1, <2>3
<1>4. \A j \in 1..n : s[j] \in Coded /\ s[j].op = "MC"
  <2>1. s \in Seq(Coded)
    BY DEF Stands
  <2>2. \A j \in 1..n : s[j] \in Coded
    BY <2>1 DEF n
  <2>3. \A y \in Coded : y.op = "MC"
    BY DEF Coded
  <2>. QED
    BY <2>2, <2>3
<1>. HIDE DEF at, n, in, x
<1>5. InOrder(c, id2)
  <2>1. ASSUME NEW p \in 1..Len(c), NEW q \in 1..Len(c), p < q PROVE id2[p] <= id2[q]
    <3>0. \A u, v \in 1..Len(b) : u < v => id[u] <= id[v]
      BY DEF Segments, InOrder
    <3>5. id[k] \in Int
      BY <1>1
    <3>1. ASSUME NEW u \in 1..Len(b) \ {k}, p = at(u), NEW v \in 1..Len(b) \ {k}, q = at(v) PROVE id2[p] <= id2[q]
      BY <1>1, <1>3, <2>1, <3>0, <3>1
    <3>2. ASSUME NEW u \in 1..Len(b) \ {k}, p = at(u), NEW j \in 1..n, q = in(j) PROVE id2[p] <= id2[q]
      BY <1>1, <1>3, <2>1, <3>0, <3>2
    <3>3. ASSUME NEW j \in 1..n, p = in(j), NEW v \in 1..Len(b) \ {k}, q = at(v) PROVE id2[p] <= id2[q]
      <4>1. ~(at(v) < in(j)) /\ ~(v < k) /\ v # k
        BY <1>1, <1>3, <2>1, <3>3
      <4>2. k < v
        BY <1>1, <4>1
      <4>. QED
        BY <1>1, <3>0, <3>3, <4>2
    <3>4. ASSUME NEW j \in 1..n, p = in(j), NEW i \in 1..n, q = in(i) PROVE id2[p] <= id2[q]
      BY <1>1, <3>4, <3>5
    <3>. QED
      BY <1>1, <3>1, <3>2, <3>3, <3>4
  <2>. QED
    BY <2>1 DEF InOrder
<1>6. Alone(c, id2)
  <2>1. ASSUME NEW p \in 1..Len(c), c[p].op # "MC"
        PROVE  c[p] = allocated[id2[p]] /\ \A q \in 1..Len(c) : id2[q] = id2[p] => q = p
    <3>1. ~\E j \in 1..n : p = in(j)
      <4>1. \A j \in 1..n : c[in(j)].op = "MC"
        BY <1>1, <1>4
      <4>. QED
        BY <2>1, <4>1
    <3>2. PICK o \in 1..Len(b) \ {k} : p = at(o)
      BY <1>1, <3>1
    <3>3. c[p] = b[o] /\ id2[p] = id[o]
      BY <1>1, <3>2
    <3>4. b[o] = allocated[id[o]] /\ \A q \in 1..Len(b) : id[q] = id[o] => q = o
      BY <2>1, <3>3 DEF Segments, Alone
    <3>5. ASSUME NEW q \in 1..Len(c), id2[q] = id2[p] PROVE q = p
      <4>1. ~\E j \in 1..n : q = in(j)
        BY <1>1, <1>2, <3>2, <3>3, <3>5
      <4>2. PICK u \in 1..Len(b) \ {k} : q = at(u)
        BY <1>1, <4>1
      <4>3. id[u] = id[o]
        BY <1>1, <3>3, <3>5, <4>2
      <4>. QED
        BY <3>2, <3>4, <4>2, <4>3
    <3>. QED
      BY <3>3, <3>4, <3>5
  <2>. QED
    BY <2>1 DEF Alone
<1>7. ReadsStay(c, id2)
  <2>1. ASSUME NEW K \in 1..Len(allocated), NEW r \in UsesOf(allocated[K]) \cap Regs PROVE FirstRead(c, id2, K, r)
    <3>1. CASE K # id[k]
      <4>1. FirstRead(b, id, K, r)
        BY DEF Segments, ReadsStay
      <4>. QED
        BY <3>1, <4>1, OthersRead
    <3>2. CASE K = id[k]
      <4>1. r \in Reading(s)
        BY <1>2, <3>2 DEF Stands, x
      <4>. QED
        BY <1>2, <3>2, <4>1, RewrittenReads
    <3>. QED
      BY <3>1, <3>2
  <2>. QED
    BY <2>1 DEF ReadsStay
<1>8. OnlyDead(c, id2)
  <2>1. ASSUME NEW p \in 1..Len(c), NEW r \in Touch(c[p]) \cap Regs
        PROVE  \/ r \in DefsOf(allocated[id2[p]])
               \/ DeadAfter(allocated, id2[p], frame.liveOut, r)
               \/ FirstRead(c, id2, id2[p], r)
    <3>1. ASSUME NEW o \in 1..Len(b) \ {k}, p = at(o)
          PROVE  \/ r \in DefsOf(allocated[id2[p]])
                 \/ DeadAfter(allocated, id2[p], frame.liveOut, r)
                 \/ FirstRead(c, id2, id2[p], r)
      <4>1. c[p] = b[o] /\ id2[p] = id[o] /\ id[o] # id[k]
        BY <1>1, <1>2, <3>1
      <4>2. \/ r \in DefsOf(allocated[id[o]])
            \/ DeadAfter(allocated, id[o], frame.liveOut, r)
            \/ FirstRead(b, id, id[o], r)
        BY <2>1, <4>1 DEF Segments, OnlyDead
      <4>3. FirstRead(b, id, id[o], r) => FirstRead(c, id2, id[o], r)
        BY <4>1, OthersRead
      <4>. QED
        BY <4>1, <4>2, <4>3
    <3>2. ASSUME NEW j \in 1..n, p = in(j)
          PROVE  \/ r \in DefsOf(allocated[id2[p]])
                 \/ DeadAfter(allocated, id2[p], frame.liveOut, r)
                 \/ FirstRead(c, id2, id2[p], r)
      <4>1. c[p] = s[j] /\ id2[p] = id[k]
        BY <1>1, <3>2
      <4>2. r \in Touched(s)
        BY <2>1, <4>1 DEF Touched, n
      <4>3. r \in Reading(s) \/ r \in DefsOf(x) \/ r \in E
        BY <4>2 DEF Stands, x
      <4>4. r \in Reading(s) => FirstRead(c, id2, id[k], r)
        BY <1>2, RewrittenReads
      <4>. QED
        BY <1>2, <4>1, <4>3, <4>4
    <3>. QED
      BY <1>1, <3>1, <3>2
  <2>. QED
    BY <2>1 DEF OnlyDead
<1>9. WritesStay(c, id2)
  <2>1. ASSUME NEW K \in 1..Len(allocated), NEW r \in DefsOf(allocated[K]) \cap {"H", "L"}
        PROVE  \E p \in 1..Len(c) : id2[p] = K /\ r \in DefsOf(c[p])
    <3>1. CASE K # id[k]
      <4>1. PICK p \in 1..Len(b) : id[p] = K /\ r \in DefsOf(b[p])
        BY DEF Segments, WritesStay
      <4>2. at(p) \in 1..Len(c) /\ id2[at(p)] = K /\ c[at(p)] = b[p]
        BY <1>1, <3>1, <4>1
      <4>. QED
        BY <4>1, <4>2
    <3>2. CASE K = id[k]
      <4>1. r \in Written(s)
        BY <1>2, <3>2 DEF Stands, x
      <4>2. PICK j \in 1..n : r \in DefsOf(s[j])
        BY <4>1 DEF Written, n
      <4>3. in(j) \in 1..Len(c) /\ c[in(j)] = s[j] /\ id2[in(j)] = K
        BY <1>1, <3>2
      <4>. QED
        BY <4>2, <4>3
    <3>. QED
      BY <3>1, <3>2
  <2>. QED
    BY <2>1 DEF WritesStay
<1>10. KillsStay(c, id2)
  <2>1. ASSUME NEW p \in 1..Len(c) PROVE KilledBy(c[p]) \cap Regs \subseteq KilledBy(allocated[id2[p]])
    <3>1. ASSUME NEW o \in 1..Len(b) \ {k}, p = at(o)
          PROVE  KilledBy(c[p]) \cap Regs \subseteq KilledBy(allocated[id2[p]])
      <4>1. c[p] = b[o] /\ id2[p] = id[o]
        BY <1>1, <3>1
      <4>. QED
        BY <4>1 DEF Segments, KillsStay
    <3>2. ASSUME NEW j \in 1..n, p = in(j)
          PROVE  KilledBy(c[p]) \cap Regs \subseteq KilledBy(allocated[id2[p]])
      <4>1. c[p] = s[j] /\ id2[p] = id[k]
        BY <1>1, <3>2
      <4>2. Killing(s) \subseteq KilledBy(x)
        BY DEF Stands, x
      <4>3. KilledBy(s[j]) \cap Regs \subseteq Killing(s)
        BY DEF Killing, n
      <4>. QED
        BY <1>2, <4>1, <4>2, <4>3
    <3>. QED
      BY <1>1, <3>1, <3>2
  <2>. QED
    BY <2>1 DEF KillsStay
<1>. QED
  BY <1>5, <1>6, <1>7, <1>8, <1>9, <1>10 DEF Segments

-----------------------------------------------------------------------------
(* The scan on the block as it is, and on the block as it came.             *)
LEMMA LiveMeans ==
  ASSUME NEW b, Len(b) \in Nat, NEW k \in Nat, NEW lo, NEW r, ~DeadAfter(b, k, lo, r)
  PROVE  \/ (\A j \in k + 1..Len(b) : r \notin Touch(b[j])) /\ r \in lo
         \/ \E j \in k + 1..Len(b) : /\ r \in UsesOf(b[j])
                                     /\ \A i \in k + 1..j - 1 : r \notin Touch(b[i])
<1>. DEFINE T == {j \in k + 1..Len(b) : r \in Touch(b[j])}
<1>1. CASE T = {}
  BY <1>1, DeadMeans
<1>2. CASE T # {}
  <2>1. T \subseteq Nat
    OBVIOUS
  <2>2. PICK f \in T : \A i \in T : f <= i
    BY <1>2, <2>1, LeastElement
  <2>3. \A i \in k + 1..f - 1 : r \notin Touch(b[i])
    BY <2>2
  <2>4. r \in UsesOf(b[f])
    BY <2>2, <2>3, DeadMeans
  <2>. QED
    BY <2>2, <2>3, <2>4
<1>. QED
  BY <1>1, <1>2

LEMMA DeadStays ==
  ASSUME NEW b, NEW id, Len(b) \in Nat, Len(allocated) \in Nat, \A q \in 1..Len(b) : id[q] \in 1..Len(allocated),
         Segments(b, id), NEW p \in 1..Len(b), b[p].op # "MC", NEW r \in Regs, DeadAfter(b, p, frame.liveOut, r)
  PROVE  DeadAfter(allocated, id[p], frame.liveOut, r)
<1>. DEFINE N == Len(allocated)
            lo == frame.liveOut
<1>1. id[p] \in 1..N /\ p \in Nat /\ id[p] \in Nat
  OBVIOUS
<1>2. \A u, v \in 1..Len(b) : u < v => id[u] <= id[v]
  BY DEF Segments, InOrder
<1>3. \A q \in 1..Len(b) : id[q] = id[p] => q = p
  BY DEF Segments, Alone
<1>4. \/ (\A j \in p + 1..Len(b) : r \notin Touch(b[j])) /\ r \notin lo
      \/ \E j \in p + 1..Len(b) : /\ r \in Touch(b[j]) /\ r \notin UsesOf(b[j])
                                  /\ \A i \in p + 1..j - 1 : r \notin Touch(b[i])
  BY <1>1, DeadMeans
(* What first touches r after p in b has r read or dead in allocated.       *)
<1>5. ASSUME NEW j \in p + 1..Len(b), r \in Touch(b[j]), r \notin UsesOf(b[j]),
             \A i \in p + 1..j - 1 : r \notin Touch(b[i])
      PROVE  /\ id[j] \in id[p] + 1..N
             /\ r \in Touch(allocated[id[j]]) \/ DeadAfter(allocated, id[j], lo, r)
             /\ ~FirstRead(b, id, id[j], r)
  <2>1. j \in 1..Len(b) /\ p < j
    OBVIOUS
  <2>2. id[p] <= id[j] /\ id[j] # id[p] /\ id[j] \in 1..N
    BY <1>2, <1>3, <2>1
  <2>3. id[j] \in id[p] + 1..N
    BY <1>1, <2>2
  <2>4. ASSUME FirstRead(b, id, id[j], r) PROVE FALSE
    <3>1. PICK w \in 1..Len(b) : /\ id[w] = id[j] /\ r \in UsesOf(b[w])
                                 /\ \A q \in 1..w - 1 : id[q] = id[j] => r \notin Touch(b[q])
      BY <2>4 DEF FirstRead
    <3>2. w # j
      BY <1>5, <3>1
    <3>3. ~(j < w)
      BY <1>5, <2>1, <3>1
    <3>4. p < w
      <4>1. w # p /\ ~(w < p)
        BY <1>1, <1>2, <2>2, <3>1
      <4>. QED
        BY <4>1
    <3>5. w \in p + 1..j - 1
      BY <2>1, <3>2, <3>3, <3>4
    <3>. QED
      BY <1>5, <3>1, <3>5 DEF Touch
  <2>5. \/ r \in DefsOf(allocated[id[j]])
        \/ DeadAfter(allocated, id[j], lo, r)
        \/ FirstRead(b, id, id[j], r)
    BY <1>5, <2>1 DEF Segments, OnlyDead
  <2>. QED
    BY <2>3, <2>4, <2>5 DEF Touch
<1>6. ASSUME ~DeadAfter(allocated, id[p], lo, r) PROVE FALSE
  <2>1. CASE (\A j \in id[p] + 1..N : r \notin Touch(allocated[j])) /\ r \in lo
    <3>1. PICK j \in p + 1..Len(b) : /\ r \in Touch(b[j]) /\ r \notin UsesOf(b[j])
                                     /\ \A i \in p + 1..j - 1 : r \notin Touch(b[i])
      BY <1>4, <2>1
    <3>2. id[j] \in id[p] + 1..N /\ DeadAfter(allocated, id[j], lo, r)
      BY <1>5, <2>1, <3>1
    <3>3. id[j] \in Nat /\ \A i \in id[j] + 1..N : i \in id[p] + 1..N
      BY <1>1, <3>2
    <3>. QED
      BY <2>1, <3>2, <3>3, DeadMeans
  <2>2. ASSUME NEW K \in id[p] + 1..N, r \in UsesOf(allocated[K]),
               \A i \in id[p] + 1..K - 1 : r \notin Touch(allocated[i])
        PROVE  FALSE
    <3>1. FirstRead(b, id, K, r)
      <4>1. K \in 1..N
        BY <1>1
      <4>. QED
        BY <2>2, <4>1 DEF Segments, ReadsStay
    <3>2. PICK w \in 1..Len(b) : /\ id[w] = K /\ r \in UsesOf(b[w])
                                 /\ \A q \in 1..w - 1 : id[q] = K => r \notin Touch(b[q])
      BY <3>1 DEF FirstRead
    <3>3. p < w
      <4>1. w # p /\ ~(w < p)
        BY <1>1, <1>2, <3>2
      <4>. QED
        BY <4>1
    <3>4. w \in p + 1..Len(b) /\ r \in Touch(b[w])
      BY <3>2, <3>3 DEF Touch
    <3>5. PICK j \in p + 1..Len(b) : /\ r \in Touch(b[j]) /\ r \notin UsesOf(b[j])
                                     /\ \A i \in p + 1..j - 1 : r \notin Touch(b[i])
      BY <1>4, <3>4
    <3>6. /\ id[j] \in id[p] + 1..N
          /\ r \in Touch(allocated[id[j]]) \/ DeadAfter(allocated, id[j], lo, r)
          /\ ~FirstRead(b, id, id[j], r)
      BY <1>5, <3>5
    <3>7. j < w
      <4>1. ~(w < j)
        <5>1. w < j => w \in p + 1..j - 1
          BY <3>4
        <5>. QED
          BY <3>4, <3>5, <5>1
      <4>2. w # j
        BY <3>2, <3>5
      <4>. QED
        BY <4>1, <4>2
    <3>8. id[j] <= K /\ id[j] # K
      <4>1. j \in 1..Len(b)
        OBVIOUS
      <4>. QED
        BY <1>2, <3>1, <3>2, <3>6, <3>7, <4>1
    <3>9. id[j] \in id[p] + 1..K - 1
      BY <1>1, <3>6, <3>8
    <3>10. DeadAfter(allocated, id[j], lo, r)
      BY <2>2, <3>6, <3>9
    <3>11. /\ id[j] \in Nat /\ K \in id[j] + 1..N /\ r \in Touch(allocated[K])
           /\ \A i \in id[j] + 1..K - 1 : r \notin Touch(allocated[i])
      <4>1. id[j] \in Nat /\ K \in id[j] + 1..N /\ \A i \in id[j] + 1..K - 1 : i \in id[p] + 1..K - 1
        BY <1>1, <3>6, <3>9, SMTT(20)
      <4>. QED
        BY <2>2, <4>1 DEF Touch
    <3>12. PICK i \in id[j] + 1..N : /\ r \in Touch(allocated[i]) /\ r \notin UsesOf(allocated[i])
                                     /\ \A o \in id[j] + 1..i - 1 : r \notin Touch(allocated[o])
      BY <3>10, <3>11, DeadMeans
    <3>13. ~(i < K) /\ ~(K < i) /\ i # K
      BY <2>2, <3>11, <3>12, SMTT(20)
    <3>. QED
      BY <3>11, <3>13
  <2>3. \/ (\A j \in id[p] + 1..N : r \notin Touch(allocated[j])) /\ r \in lo
        \/ \E K \in id[p] + 1..N : /\ r \in UsesOf(allocated[K])
                                   /\ \A i \in id[p] + 1..K - 1 : r \notin Touch(allocated[i])
    BY <1>1, <1>6, LiveMeans
  <2>. QED
    BY <2>1, <2>2, <2>3
<1>. QED
  BY <1>6

(* Whether HL is live before an instruction is found in b as it is in the   *)
(* block that came: what is made for an instruction writes HL if it does,   *)
(* and ends its life only if it does.                                       *)
LEMMA GreatestElement ==
  ASSUME NEW n \in Nat, NEW S, S \subseteq 1..n, S # {}
  PROVE  Max(S) \in S /\ \A i \in S : i <= Max(S)
<1>. DEFINE T == {n - i : i \in S}
<1>1. T \subseteq Nat /\ T # {}
  <2>1. \A i \in S : i \in Int /\ n - i \in Nat
    OBVIOUS
  <2>. QED
    BY <2>1
<1>2. PICK t \in T : \A u \in T : t <= u
  BY <1>1, LeastElement
<1>3. PICK x \in S : t = n - x
  BY <1>2
<1>4. ASSUME NEW i \in S PROVE x >= i
  <2>1. n - i \in T
    OBVIOUS
  <2>2. t <= n - i /\ x \in Int /\ i \in Int
    BY <1>2, <2>1
  <2>. QED
    BY <1>3, <2>2
<1>5. Max(S) \in S /\ \A i \in S : Max(S) >= i
  BY <1>3, <1>4 DEF Max
<1>. QED
  BY <1>5

Deciding(block, k) ==
  {j \in 1..k - 1 : (DefsOf(block[j]) \cup KilledBy(block[j])) \cap {"H", "L"} # {} \/ block[j].op = "CALL"}

LEMMA LiveDecided ==
  ASSUME NEW block, NEW k \in Nat
  PROVE  LiveBeforeIn(block, k, {"H", "L"}) <=>
           IF Deciding(block, k) = {} THEN frame.liveIn \cap {"H", "L"} # {}
           ELSE DefsOf(block[Max(Deciding(block, k))]) \cap {"H", "L"} # {}
BY DEF LiveBeforeIn, Deciding

LEMMA KillersDefineNothing ==
  ASSUME NEW w, NEW x \in Allocated(w), KilledBy(x) # {}
  PROVE  DefsOf(x) = {}
<1>1. x.op \in Spills \cup Reloads \cup {"MOV", "DEF", "USE", "CALL"}
  BY DEF Allocated, PatchPseudo
<1>2. x.op \in Spills \cup {"USE"}
  BY <1>1 DEF KilledBy, Spills, Reloads, Stores
<1>. QED
  BY <1>2 DEF DefsOf, Spills, Reloads, Stores, Loads

LEMMA LiveStays ==
  ASSUME NEW b, NEW id, NEW w, Len(b) \in Nat, Len(allocated) \in Nat,
         \A K \in 1..Len(allocated) : allocated[K] \in Allocated(w),
         \A q \in 1..Len(b) : id[q] \in 1..Len(allocated),
         Segments(b, id), NEW p \in 1..Len(b), b[p].op # "MC", LiveBeforeIn(allocated, id[p], {"H", "L"})
  PROVE  LiveBeforeIn(b, p, {"H", "L"})
<1>. DEFINE S == {"H", "L"}
            K == id[p]
            A == Deciding(allocated, K)
            B == Deciding(b, p)
<1>1. p \in Nat /\ K \in 1..Len(allocated) /\ K \in Nat /\ p - 1 \in Nat /\ K - 1 \in Nat
  OBVIOUS
<1>2. \A u, v \in 1..Len(b) : u < v => id[u] <= id[v]
  BY DEF Segments, InOrder
<1>3. \A q \in 1..Len(b) : id[q] = K => q = p
  BY DEF Segments, Alone
<1>4. A \subseteq 1..K - 1 /\ B \subseteq 1..p - 1
  BY DEF Deciding
<1>5. IF A = {} THEN frame.liveIn \cap S # {} ELSE DefsOf(allocated[Max(A)]) \cap S # {}
  BY <1>1, LiveDecided
<1>6. SUFFICES IF B = {} THEN frame.liveIn \cap S # {} ELSE DefsOf(b[Max(B)]) \cap S # {}
  BY <1>1, LiveDecided
<1>7. \A q \in 1..p - 1 : q \in 1..Len(b) /\ id[q] \in 1..K - 1
  <2>1. ASSUME NEW q \in 1..p - 1 PROVE q \in 1..Len(b) /\ id[q] \in 1..K - 1
    <3>1. q \in 1..Len(b) /\ q < p
      OBVIOUS
    <3>2. id[q] <= K /\ id[q] # K /\ id[q] \in 1..Len(allocated)
      BY <1>2, <1>3, <3>1
    <3>. QED
      BY <1>1, <3>1, <3>2
  <2>. QED
    BY <2>1
(* What ends the life of HL in b does so in the block that came.            *)
<1>8. ASSUME NEW q \in B, DefsOf(b[q]) \cap S = {}
      PROVE  id[q] \in A /\ (DefsOf(allocated[id[q]]) \cap S # {} => FALSE)
  <2>1. q \in 1..Len(b) /\ id[q] \in 1..K - 1 /\ id[q] \in 1..Len(allocated)
    BY <1>4, <1>7
  <2>2. KilledBy(b[q]) \cap S # {} \/ b[q].op = "CALL"
    BY <1>8 DEF Deciding
  <2>3. CASE KilledBy(b[q]) \cap S # {}
    <3>1. KilledBy(b[q]) \cap Regs \subseteq KilledBy(allocated[id[q]])
      BY <2>1 DEF Segments, KillsStay
    <3>2. S \subseteq Regs
      BY PairsNamed
    <3>3. KilledBy(allocated[id[q]]) \cap S # {}
      BY <2>3, <3>1, <3>2
    <3>4. DefsOf(allocated[id[q]]) = {}
      BY <2>1, <3>3, KillersDefineNothing
    <3>. QED
      BY <2>1, <3>3, <3>4 DEF Deciding
  <2>4. CASE b[q].op = "CALL"
    <3>1. b[q] = allocated[id[q]]
      BY <2>1, <2>4 DEF Segments, Alone
    <3>. QED
      BY <1>8, <2>1, <2>4, <3>1 DEF Deciding
  <2>. QED
    BY <2>2, <2>3, <2>4
<1>9. B # {} => Max(B) \in B /\ \A i \in B : i <= Max(B)
  BY <1>1, <1>4, GreatestElement
<1>10. CASE A = {}
  <2>1. B # {} => DefsOf(b[Max(B)]) \cap S # {}
    BY <1>8, <1>9, <1>10
  <2>. QED
    BY <1>5, <1>10, <2>1
<1>11. CASE A # {}
  <2>. DEFINE last == Max(A)
  <2>1. last \in A /\ \A i \in A : i <= last
    BY <1>1, <1>4, <1>11, GreatestElement
  <2>2. DefsOf(allocated[last]) \cap S # {}
    BY <1>5, <1>11
  <2>. HIDE DEF last, A
  <2>3. last \in 1..Len(allocated) /\ last < K /\ last \in Nat
    <3>1. last \in 1..K - 1
      BY <1>4, <2>1
    <3>. HIDE DEF K
    <3>. QED
      BY <1>1, <3>1
  <2>4. PICK v \in 1..Len(b) : id[v] = last /\ DefsOf(b[v]) \cap S # {}
    <3>1. PICK r \in DefsOf(allocated[last]) \cap S : TRUE
      BY <2>2
    <3>. QED
      BY <2>3, <3>1 DEF Segments, WritesStay
  <2>5. v < p
    <3>1. v # p
      BY <2>3, <2>4
    <3>2. p < v => K <= id[v]
      BY <1>2
    <3>3. ~(p < v)
      <4>. HIDE DEF K
      <4>. QED
        BY <1>1, <2>3, <2>4, <3>2
    <3>. QED
      BY <3>1, <3>3
  <2>6. v \in B
    BY <2>4, <2>5 DEF Deciding
  <2>. DEFINE q == Max(B)
  <2>7. q \in B /\ v <= q
    BY <1>9, <2>6
  <2>. HIDE DEF q, B
  <2>8. id[q] >= last
    <3>1. q \in 1..Len(b)
      BY <1>4, <1>7, <2>7
    <3>2. v = q \/ v < q
      BY <2>7, <3>1
    <3>. QED
      BY <1>2, <2>3, <2>4, <3>1, <3>2
  <2>9. DefsOf(b[q]) \cap S # {}
    <3>1. ASSUME DefsOf(b[q]) \cap S = {} PROVE FALSE
      <4>1. id[q] \in A /\ DefsOf(allocated[id[q]]) \cap S = {}
        BY <1>8, <2>7, <3>1
      <4>2. id[q] <= last /\ id[q] \in Nat
        <5>1. id[q] \in 1..K - 1
          <6>. HIDE DEF K
          <6>. QED
            BY <1>4, <4>1
        <5>2. id[q] <= last
          BY <2>1, <4>1
        <5>. HIDE DEF K
        <5>. QED
          BY <1>1, <5>1, <5>2
      <4>3. id[q] = last
        BY <2>3, <2>8, <4>2
      <4>. QED
        BY <2>2, <4>1, <4>3
    <3>. QED
      BY <3>1
  <2>10. B # {}
    BY <2>6
  <2>. QED
    BY <2>9, <2>10 DEF q
<1>. QED
  BY <1>10, <1>11

-----------------------------------------------------------------------------
(* The pass takes HL for dead at a spill of DE where the last thing done to *)
(* HL was to end the life of one half, although the other half may be read  *)
(* later: the blocks in which it is not.                                    *)
HLWhole ==
  \A k \in DOMAIN allocated :
    allocated[k].op = "SPILL16" /\ allocated[k].reg = "DE" /\ ~LiveBeforeIn(allocated, k, {"H", "L"}) =>
      \A r \in {"H", "L"} : DeadAfter(allocated, k, frame.liveOut, r)

(* The block in the making, next to the one that came.                      *)
BlockInv ==
  /\ frame \in Frames
  /\ allocated \in Seq(Allocated(frame.words))
  /\ mbb \in Seq(InBlock(frame.words))
  /\ ids \in Seq(Nat) /\ Len(ids) = Len(mbb)
  /\ \A q \in 1..Len(mbb) : ids[q] \in 1..Len(allocated)
  /\ Segments(mbb, ids)

PatchInv ==
  /\ BlockInv
  /\ HLWhole
  /\ DOMAIN off \subseteq Slots
  /\ sites \in Nat
  /\ todo \subseteq [width : {8, 16}, fi : Slots]
  /\ pc \in {"spills", "reloads"} => SitesKnown /\ cur \in [width : {8, 16}, fi : Slots]

LEMMA SegmentsNext ==
  ASSUME allocated' = allocated, frame'.liveOut = frame.liveOut, Segments(mbb', ids')
  PROVE  Segments(mbb, ids)'
BY DEF Segments, InOrder, Alone, ReadsStay, OnlyDead, WritesStay, KillsStay, FirstRead

LEMMA BlockStays ==
  ASSUME BlockInv, HLWhole, UNCHANGED <<allocated, mbb, ids>>, frame' \in Frames,
         frame'.words = frame.words, frame'.liveIn = frame.liveIn, frame'.liveOut = frame.liveOut
  PROVE  BlockInv' /\ HLWhole'
<1>1. Segments(mbb, ids)'
  BY SegmentsNext DEF BlockInv
<1>2. BlockInv'
  BY <1>1 DEF BlockInv
<1>3. HLWhole'
  BY DEF HLWhole, LiveBeforeIn
<1>. QED
  BY <1>2, <1>3

LEMMA BlockRewritten ==
  ASSUME BlockInv, HLWhole, NEW k \in 1..Len(mbb), NEW s, NEW E, Stands(s, mbb[k], E), mbb[k].op # "MC",
         \A r \in E \cap Regs : DeadAfter(allocated, ids[k], frame.liveOut, r), Rewrite(k, s)
  PROVE  BlockInv' /\ HLWhole'
<1>. DEFINE w == frame.words
            n == Len(s)
<1>1. s \in Seq(InBlock(w)) /\ mbb \in Seq(InBlock(w)) /\ ids \in Seq(Nat) /\ Len(ids) = Len(mbb)
  <2>1. s \in Seq(Coded)
    BY DEF Stands
  <2>. QED
    BY <2>1 DEF BlockInv, InBlock
<1>2. mbb' = Replace(mbb, k, s) /\ ids' = Replace(ids, k, Repeated(s, ids[k])) /\ UNCHANGED <<frame, allocated>>
  BY DEF Rewrite, Repeated
<1>3. /\ Exchanged(mbb, ids, k, s, mbb', ids') /\ mbb' \in Seq(InBlock(w)) /\ ids' \in Seq(Nat) /\ Len(mbb') = Len(ids')
  <2>. DEFINE c == Replace(mbb, k, s)
              id2 == Replace(ids, k, Repeated(s, ids[k]))
  <2>1. Exchanged(mbb, ids, k, s, c, id2) /\ c \in Seq(InBlock(w)) /\ id2 \in Seq(Nat) /\ Len(c) = Len(id2)
    <3>. HIDE DEF w
    <3>. QED
      BY <1>1, RewritePlaces
  <2>2. mbb' = c /\ ids' = id2
    BY <1>2
  <2>. HIDE DEF c, id2, w
  <2>. QED
    BY <2>1, <2>2
<1>4. Segments(mbb', ids')
  BY <1>3, RewriteKeeps DEF BlockInv
<1>5. Segments(mbb, ids)'
  BY <1>2, <1>4, SegmentsNext
<1>6. \A q \in 1..Len(mbb') : ids'[q] \in 1..Len(allocated)
  <2>. DEFINE at(q) == To(k, n, q)
              in(j) == k - 1 + j
  <2>1. /\ \A q \in 1..Len(mbb) \ {k} : ids'[at(q)] = ids[q]
        /\ \A j \in 1..n : ids'[in(j)] = ids[k]
        /\ \A p \in 1..Len(mbb') : (\E q \in 1..Len(mbb) \ {k} : p = at(q)) \/ (\E j \in 1..n : p = in(j))
    BY <1>3, Zenon DEF Exchanged
  <2>. HIDE DEF at, in
  <2>. QED
    BY <2>1 DEF BlockInv
<1>7. BlockInv'
  BY <1>2, <1>3, <1>5, <1>6 DEF BlockInv
<1>8. HLWhole'
  BY <1>2 DEF HLWhole, LiveBeforeIn
<1>. QED
  BY <1>7, <1>8

LEMMA LeastOf ==
  ASSUME NEW S, S \subseteq Nat, S # {}
  PROVE  Min(S) \in S
<1>1. PICK n \in S : \A i \in S : n <= i
  BY LeastElement
<1>. QED
  BY <1>1 DEF Min

(* What is still a pseudo-instruction of the slot being rewritten.          *)
LEMMA SlotOperands ==
  ASSUME BlockInv, cur \in [width : {8, 16}, fi : Slots]
  PROVE  /\ SpillsOf(cur) \subseteq 1..Len(mbb) /\ ReloadsOf(cur) \subseteq 1..Len(mbb)
         /\ \A k \in SpillsOf(cur) :
              /\ mbb[k].kill \in BOOLEAN /\ mbb[k].op # "MC"
              /\ \/ cur.width = 16 /\ mbb[k].op = "SPILL16" /\ mbb[k].reg \in Pairs
                 \/ cur.width = 8 /\ mbb[k].op = "SPILL8" /\ mbb[k].reg \in Regs
         /\ \A k \in ReloadsOf(cur) :
              /\ mbb[k].op # "MC"
              /\ \/ cur.width = 16 /\ mbb[k].op = "RELOAD16" /\ mbb[k].reg \in Pairs
                 \/ cur.width = 8 /\ mbb[k].op = "RELOAD8" /\ mbb[k].reg \in Regs
<1>. DEFINE w == frame.words
<1>1. DOMAIN mbb = 1..Len(mbb) /\ \A k \in 1..Len(mbb) : mbb[k] \in InBlock(w)
  BY DEF BlockInv
<1>2. cur.width \in {8, 16}
  OBVIOUS
<1>3. \A x \in InBlock(w) : x.op # "MC" => x \in PatchPseudo /\ PatchOperands(x, w)
  BY DEF InBlock, Allocated, Coded
<1>4. \A x \in PatchPseudo : x.kill \in BOOLEAN
  BY DEF PatchPseudo
<1>5. \A x : PatchOperands(x, w) => /\ x.op \in {"SPILL8", "RELOAD8"} => x.reg \in Regs
                                    /\ x.op \in {"SPILL16", "RELOAD16"} => x.reg \in Pairs
  BY DEF PatchOperands
<1>6. /\ SpillOp[cur.width] = IF cur.width = 8 THEN "SPILL8" ELSE "SPILL16"
      /\ ReloadOp[cur.width] = IF cur.width = 8 THEN "RELOAD8" ELSE "RELOAD16"
  BY <1>2 DEF SpillOp, ReloadOp
<1>. HIDE DEF w
<1>7. ASSUME NEW k \in SpillsOf(cur)
      PROVE  /\ mbb[k].kill \in BOOLEAN /\ mbb[k].op # "MC" /\ k \in 1..Len(mbb)
             /\ \/ cur.width = 16 /\ mbb[k].op = "SPILL16" /\ mbb[k].reg \in Pairs
                \/ cur.width = 8 /\ mbb[k].op = "SPILL8" /\ mbb[k].reg \in Regs
  <2>1. k \in 1..Len(mbb) /\ mbb[k].op = SpillOp[cur.width]
    BY <1>1 DEF SpillsOf
  <2>2. mbb[k].op # "MC"
    BY <1>6, <2>1
  <2>. QED
    BY <1>1, <1>2, <1>3, <1>4, <1>5, <1>6, <2>1, <2>2
<1>8. ASSUME NEW k \in ReloadsOf(cur)
      PROVE  /\ mbb[k].op # "MC" /\ k \in 1..Len(mbb)
             /\ \/ cur.width = 16 /\ mbb[k].op = "RELOAD16" /\ mbb[k].reg \in Pairs
                \/ cur.width = 8 /\ mbb[k].op = "RELOAD8" /\ mbb[k].reg \in Regs
  <2>1. k \in 1..Len(mbb) /\ mbb[k].op = ReloadOp[cur.width]
    BY <1>1 DEF ReloadsOf
  <2>2. mbb[k].op # "MC"
    BY <1>6, <2>1
  <2>. QED
    BY <1>1, <1>2, <1>3, <1>5, <1>6, <2>1, <2>2
<1>. QED
  BY <1>7, <1>8

(* What the scan of the block as it is finds, of the block that came.       *)
LEMMA ScanStays ==
  ASSUME BlockInv, NEW k \in 1..Len(mbb), mbb[k].op # "MC"
  PROVE  /\ mbb[k] = allocated[ids[k]] /\ ids[k] \in DOMAIN allocated
         /\ \A r \in DeadSet(k) : DeadAfter(allocated, ids[k], frame.liveOut, r)
         /\ LiveBeforeIn(allocated, ids[k], {"H", "L"}) => LiveBefore(k, {"H", "L"})
<1>. DEFINE w == frame.words
            lo == frame.liveOut
<1>1. /\ Len(mbb) \in Nat /\ Len(allocated) \in Nat /\ DOMAIN allocated = 1..Len(allocated)
      /\ \A K \in 1..Len(allocated) : allocated[K] \in Allocated(w)
      /\ \A q \in 1..Len(mbb) : ids[q] \in 1..Len(allocated)
      /\ Segments(mbb, ids)
  BY DEF BlockInv
<1>. HIDE DEF w
<1>2. mbb[k] = allocated[ids[k]]
  BY <1>1 DEF Segments, Alone
<1>3. ASSUME NEW r \in DeadSet(k) PROVE DeadAfter(allocated, ids[k], lo, r)
  <2>1. r \in Regs /\ DeadAfter(mbb, k, lo, r)
    BY <1>3 DEF DeadSet
  <2>. QED
    BY <1>1, <2>1, DeadStays
<1>4. LiveBeforeIn(allocated, ids[k], {"H", "L"}) => LiveBeforeIn(mbb, k, {"H", "L"})
  BY <1>1, LiveStays
<1>. QED
  BY <1>1, <1>2, <1>3, <1>4 DEF LiveBefore

-----------------------------------------------------------------------------
(* Every step keeps the block in the making next to the one that came.      *)
LEMMA SpillRewritten ==
  ASSUME PatchInv, RewriteSpill
  PROVE  PatchInv'
<1>. DEFINE k == Min(SpillsOf(cur))
            s == IF cur.width = 16 THEN SpillCode16(k) ELSE SpillCode8(k)
            lost == mbb[k].op = "SPILL16" /\ mbb[k].reg = "DE" /\ ~LiveBefore(k, {"H", "L"})
            E == DeadSet(k) \cup (IF lost THEN {"H", "L"} ELSE {})
<1>1. /\ BlockInv /\ HLWhole /\ SitesKnown /\ cur \in [width : {8, 16}, fi : Slots]
      /\ SpillsOf(cur) # {} /\ Rewrite(k, s) /\ UNCHANGED <<pc, todo, cur, winners, sites, off>>
  BY DEF PatchInv, RewriteSpill, Rewrite
<1>2. k \in SpillsOf(cur)
  <2>1. SpillsOf(cur) \subseteq Nat
    BY <1>1, SlotOperands
  <2>. QED
    BY <1>1, <2>1, LeastOf
<1>. HIDE DEF k
<1>3. /\ k \in 1..Len(mbb) /\ mbb[k].kill \in BOOLEAN /\ mbb[k].op # "MC"
      /\ \/ cur.width = 16 /\ mbb[k].op = "SPILL16" /\ mbb[k].reg \in Pairs
         \/ cur.width = 8 /\ mbb[k].op = "SPILL8" /\ mbb[k].reg \in Regs
  BY <1>1, <1>2, SlotOperands
<1>4. k \in DOMAIN mbb
  BY <1>3 DEF SpillsOf, BlockInv
<1>5. DeadSet(k) \subseteq E /\ (lost => {"H", "L"} \subseteq E)
  OBVIOUS
<1>6. Stands(s, mbb[k], E)
  <2>. HIDE DEF E
  <2>1. CASE cur.width = 16
    BY <1>1, <1>3, <1>4, <1>5, <2>1, Spill16Stands
  <2>2. CASE cur.width = 8
    <3>1. s = SpillCode8(k) /\ mbb[k].op = "SPILL8" /\ mbb[k].reg \in Regs
      BY <1>3, <2>2
    <3>. QED
      BY <1>1, <1>3, <1>4, <1>5, <3>1, Spill8Stands
  <2>. QED
    BY <1>3, <2>1, <2>2
<1>7. ASSUME NEW r \in E \cap Regs PROVE DeadAfter(allocated, ids[k], frame.liveOut, r)
  <2>1. /\ mbb[k] = allocated[ids[k]] /\ ids[k] \in DOMAIN allocated
        /\ \A o \in DeadSet(k) : DeadAfter(allocated, ids[k], frame.liveOut, o)
        /\ LiveBeforeIn(allocated, ids[k], {"H", "L"}) => LiveBefore(k, {"H", "L"})
    BY <1>1, <1>3, ScanStays
  <2>2. CASE r \in DeadSet(k)
    BY <2>1, <2>2
  <2>3. CASE lost /\ r \in {"H", "L"}
    BY <1>1, <2>1, <2>3 DEF HLWhole
  <2>. QED
    BY <1>7, <2>2, <2>3
<1>8. BlockInv' /\ HLWhole'
  <2>. HIDE DEF E, s
  <2>. QED
    BY <1>1, <1>3, <1>6, <1>7, BlockRewritten
<1>. QED
  BY <1>1, <1>8 DEF PatchInv, SitesKnown

LEMMA WinnerPatched ==
  ASSUME PatchInv, PatchWinner
  PROVE  PatchInv'
<1>1. PICK i \in DOMAIN winners, k \in ReloadsOf(cur) : Rewrite(k, SiteCode(k, SiteAddr(i)))
  BY DEF PatchWinner, SiteCode
<1>2. /\ BlockInv /\ HLWhole /\ SitesKnown /\ cur \in [width : {8, 16}, fi : Slots]
      /\ UNCHANGED <<pc, todo, cur, winners, sites, off>>
  BY <1>1 DEF PatchInv, PatchWinner, Rewrite
<1>3. /\ k \in 1..Len(mbb) /\ mbb[k].op # "MC"
      /\ \/ cur.width = 16 /\ mbb[k].op = "RELOAD16" /\ mbb[k].reg \in Pairs
         \/ cur.width = 8 /\ mbb[k].op = "RELOAD8" /\ mbb[k].reg \in Regs
  BY <1>2, SlotOperands
<1>4. k \in DOMAIN mbb
  BY DEF ReloadsOf
<1>5. SiteAddr(i) \in Nat
  <2>1. i \in 1..Len(winners)
    BY <1>2 DEF SitesKnown
  <2>. QED
    BY <1>2, <2>1, SitesAddressed
<1>6. Stands(SiteCode(k, SiteAddr(i)), mbb[k], {})
  BY <1>3, <1>4, <1>5, SiteStands
<1>7. BlockInv' /\ HLWhole'
  <2>. DEFINE s == SiteCode(k, SiteAddr(i))
              E == {}
  <2>1. /\ Rewrite(k, s) /\ Stands(s, mbb[k], E)
        /\ \A r \in E \cap Regs : DeadAfter(allocated, ids[k], frame.liveOut, r)
    BY <1>1, <1>6
  <2>. HIDE DEF s, E
  <2>. QED
    BY <1>2, <1>3, <2>1, BlockRewritten
<1>. QED
  BY <1>2, <1>7 DEF PatchInv, SitesKnown

LEMMA ReloadRewritten ==
  ASSUME PatchInv, RewriteReload
  PROVE  PatchInv'
<1>. DEFINE k == Min(ReloadsOf(cur))
            s == IF cur.width = 16 THEN ReloadCode16(k) ELSE ReloadCode8(k)
            E == DeadSet(k)
<1>1. /\ BlockInv /\ HLWhole /\ SitesKnown /\ cur \in [width : {8, 16}, fi : Slots]
      /\ ReloadsOf(cur) # {} /\ Rewrite(k, s) /\ UNCHANGED <<pc, todo, cur, winners, sites, off>>
  BY DEF PatchInv, RewriteReload, Rewrite
<1>2. k \in ReloadsOf(cur)
  <2>1. ReloadsOf(cur) \subseteq Nat
    BY <1>1, SlotOperands
  <2>. QED
    BY <1>1, <2>1, LeastOf
<1>. HIDE DEF k
<1>3. /\ k \in 1..Len(mbb) /\ mbb[k].op # "MC"
      /\ \/ cur.width = 16 /\ mbb[k].op = "RELOAD16" /\ mbb[k].reg \in Pairs
         \/ cur.width = 8 /\ mbb[k].op = "RELOAD8" /\ mbb[k].reg \in Regs
  BY <1>1, <1>2, SlotOperands
<1>4. k \in DOMAIN mbb
  BY <1>2 DEF ReloadsOf
<1>6. Stands(s, mbb[k], E)
  <2>1. CASE cur.width = 16
    BY <1>1, <1>3, <1>4, <2>1, Reload16Stands
  <2>2. CASE cur.width = 8
    <3>1. s = ReloadCode8(k) /\ mbb[k].op = "RELOAD8" /\ mbb[k].reg \in Regs
      BY <1>3, <2>2
    <3>. QED
      BY <1>1, <1>4, <3>1, Reload8Stands
  <2>. QED
    BY <1>3, <2>1, <2>2
<1>7. \A r \in E \cap Regs : DeadAfter(allocated, ids[k], frame.liveOut, r)
  BY <1>1, <1>3, ScanStays
<1>8. BlockInv' /\ HLWhole'
  <2>. HIDE DEF E, s
  <2>. QED
    BY <1>1, <1>3, <1>6, <1>7, BlockRewritten
<1>. QED
  BY <1>1, <1>8 DEF PatchInv, SitesKnown

LEMMA SlotPicked ==
  ASSUME PatchInv, PickSlot
  PROVE  PatchInv'
<1>1. BlockInv' /\ HLWhole'
  <2>1. /\ BlockInv /\ HLWhole /\ UNCHANGED <<allocated, mbb, ids, frame>> /\ frame \in Frames
    BY DEF PatchInv, PickSlot, elimVars, BlockInv
  <2>. QED
    BY <2>1, BlockStays
<1>2. PICK s \in todo : /\ todo' = todo \ {s}
                        /\ IF SpillsOf(s) = {} \/ ReloadsOf(s) = {}
                           THEN UNCHANGED <<pc, cur, winners, sites>>
                           ELSE /\ cur' = s
                                /\ winners' = ChooseWinners(s)
                                /\ sites' = sites + Len(winners')
                                /\ pc' = "spills"
  BY DEF PickSlot
<1>3. s \in [width : {8, 16}, fi : Slots] /\ todo' \subseteq [width : {8, 16}, fi : Slots] /\ off' = off
  BY <1>2 DEF PatchInv, PickSlot
<1>4. CASE SpillsOf(s) = {} \/ ReloadsOf(s) = {}
  BY <1>1, <1>2, <1>3, <1>4 DEF PatchInv, SitesKnown
<1>5. CASE ~(SpillsOf(s) = {} \/ ReloadsOf(s) = {})
  <2>1. /\ cur' = s /\ winners' = ChooseWinners(s) /\ sites' = sites + Len(winners') /\ pc' = "spills"
    BY <1>2, <1>5
  <2>2. DOMAIN winners' = 1..Len(winners') /\ Len(winners') \in 1..2
    <3>1. \E x, y : ChooseWinners(s) = <<x, y>> \/ ChooseWinners(s) = <<x>>
      <4>. DEFINE first == Best(ReloadsOf(s))
                  others == {k \in ReloadsOf(s) \ {first} :
                               mbb[k].reg \notin (IF s.width = 16 THEN {"HL"} ELSE {"A", "H", "L"})}
                  x == ids[first]
                  y == ids[Best(others)]
      <4>1. ChooseWinners(s) = IF AllowTwo(s) /\ others # {} THEN <<x, y>> ELSE <<x>>
        BY DEF ChooseWinners
      <4>. HIDE DEF x, y, others
      <4>. QED
        BY <4>1
    <3>2. PICK x, y : winners' = <<x, y>> \/ winners' = <<x>>
      BY <2>1, <3>1
    <3>3. CASE winners' = <<x, y>>
      BY <3>3
    <3>4. CASE winners' = <<x>>
      BY <3>4
    <3>. QED
      BY <3>2, <3>3, <3>4
  <2>3. sites \in Nat
    BY DEF PatchInv
  <2>4. SitesKnown' /\ sites' \in Nat
    BY <2>1, <2>2, <2>3 DEF SitesKnown
  <2>. QED
    BY <1>1, <1>3, <2>1, <2>4 DEF PatchInv
<1>. QED
  BY <1>4, <1>5

LEMMA Compacted ==
  ASSUME PatchInv, Compact
  PROVE  PatchInv'
<1>1. /\ BlockInv /\ HLWhole /\ frame \in Frames /\ DOMAIN off \subseteq Slots
      /\ UNCHANGED <<allocated, mbb, ids, sites, todo>> /\ pc' = "run"
  BY DEF PatchInv, Compact, BlockInv
<1>2. \/ UNCHANGED <<off, frame>>
      \/ /\ off' = Packed(DOMAIN off \cap LiveSlots)
         /\ frame' = [frame EXCEPT !.static = DOMAIN off \cap LiveSlots]
  BY DEF Compact
<1>3. /\ frame' \in Frames /\ frame'.words = frame.words
      /\ frame'.liveIn = frame.liveIn /\ frame'.liveOut = frame.liveOut
  <2>. DEFINE live == DOMAIN off \cap LiveSlots
  <2>1. live \subseteq Slots
    BY <1>1
  <2>. HIDE DEF live
  <2>. QED
    BY <1>1, <1>2, <2>1 DEF Frames
<1>4. DOMAIN off' \subseteq Slots
  BY <1>1, <1>2 DEF Packed
<1>5. BlockInv' /\ HLWhole'
  BY <1>1, <1>3, BlockStays
<1>. QED
  BY <1>1, <1>4, <1>5 DEF PatchInv

LEMMA OthersKeep ==
  ASSUME PatchInv, \/ SpillsDone \/ SlotDone \/ Fetch
                   \/ Execute /\ UNCHANGED <<passVars, reads>>
                   \/ UNCHANGED patchVars
  PROVE  PatchInv'
<1>1. UNCHANGED <<allocated, mbb, ids, frame, off, sites, todo>>
  BY DEF SpillsDone, SlotDone, Fetch, Execute, elimVars, passVars, patchVars
<1>2. \/ UNCHANGED <<pc, cur, winners>>
      \/ pc' = "reloads" /\ pc = "spills" /\ UNCHANGED <<cur, winners>>
      \/ pc' = "pick"
  BY DEF SpillsDone, SlotDone, Fetch, Execute, passVars, patchVars
<1>3. BlockInv' /\ HLWhole'
  <2>1. BlockInv /\ HLWhole /\ frame \in Frames
    BY DEF PatchInv, BlockInv
  <2>. QED
    BY <1>1, <2>1, BlockStays
<1>. QED
  BY <1>1, <1>2, <1>3 DEF PatchInv, SitesKnown

(* The block as it came is its own making.                                  *)
LEMMA SegmentsAtFirst ==
  ASSUME Len(allocated) \in Nat
  PROVE  Segments(allocated, [k \in 1..Len(allocated) |-> k])
<1>. DEFINE id == [k \in 1..Len(allocated) |-> k]
            N == Len(allocated)
<1>1. N \in Nat /\ \A p \in 1..N : id[p] = p /\ p \in Nat
  OBVIOUS
<1>. HIDE DEF id
<1>2. \A K \in 1..N : \A r \in UsesOf(allocated[K]) : FirstRead(allocated, id, K, r)
  <2>1. ASSUME NEW K \in 1..N, NEW r \in UsesOf(allocated[K]) PROVE FirstRead(allocated, id, K, r)
    <3>1. \A q \in 1..K - 1 : q \in 1..N /\ q # K
      BY <1>1
    <3>. QED
      BY <1>1, <3>1 DEF FirstRead
  <2>. QED
    BY <2>1
<1>3. InOrder(allocated, id)
  BY <1>1 DEF InOrder
<1>4. Alone(allocated, id)
  BY <1>1 DEF Alone
<1>5. ReadsStay(allocated, id)
  BY <1>2 DEF ReadsStay
<1>6. OnlyDead(allocated, id)
  BY <1>1, <1>2 DEF OnlyDead, Touch
<1>7. WritesStay(allocated, id)
  BY <1>1 DEF WritesStay
<1>8. KillsStay(allocated, id)
  BY <1>1 DEF KillsStay
<1>. QED
  BY <1>3, <1>4, <1>5, <1>6, <1>7, <1>8 DEF Segments, id

LEMMA PatchInvAtFirst ==
  ASSUME PatchInit, HLWhole
  PROVE  PatchInv
<1>1. frame \in Frames /\ mbb \in Seq(Allocated(frame.words))
  <2>1. PICK in \in Inputs : mbb = in.mbb /\ frame \in in.frames
    BY DEF PatchInit, ElimInit
  <2>. QED
    BY <2>1, PatchInputsAssumption DEF Allocated
<1>2. /\ allocated = mbb /\ ids = [k \in DOMAIN mbb |-> k] /\ sites = 0 /\ off = Packed(Slots) /\ pc = "pick"
      /\ todo \subseteq [width : {8, 16}, fi : Slots]
  BY DEF PatchInit
<1>3. DOMAIN mbb = 1..Len(mbb) /\ Len(mbb) \in Nat
  BY <1>1
<1>4. ids \in Seq(Nat) /\ Len(ids) = Len(mbb) /\ \A q \in 1..Len(mbb) : ids[q] = q
  BY <1>2, <1>3
<1>5. Segments(mbb, ids)
  BY <1>2, <1>3, SegmentsAtFirst
<1>6. mbb \in Seq(InBlock(frame.words))
  BY <1>1 DEF InBlock
<1>7. BlockInv
  BY <1>1, <1>2, <1>4, <1>5, <1>6 DEF BlockInv
<1>8. DOMAIN off \subseteq Slots
  BY <1>2 DEF Packed
<1>. QED
  BY <1>2, <1>7, <1>8 DEF PatchInv

(* For every block that register allocation may leave, every choice of      *)
(* winners and every order of the slots, provided no spill of DE finds one  *)
(* half of HL killed and the other still to be read: code that stands for   *)
(* one slot hides no use from the decisions about the next.                 *)
THEOREM ScanIsSound == PatchSpec /\ HLWhole => []ScanSound
<1>1. PatchInit /\ HLWhole => PatchInv
  BY PatchInvAtFirst
<1>2. PatchInv /\ [PatchNext]_patchVars => PatchInv'
  BY SpillRewritten, WinnerPatched, ReloadRewritten, SlotPicked, Compacted, OthersKeep DEF PatchNext
<1>3. PatchInv => ScanSound
  <2>. SUFFICES ASSUME PatchInv, NEW j \in DOMAIN mbb, mbb[j].op \in Spills \cup Reloads, NEW r \in DeadSet(j)
                PROVE  DeadAfter(allocated, ids[j], frame.liveOut, r)
    BY DEF ScanSound
  <2>1. BlockInv /\ j \in 1..Len(mbb) /\ mbb[j].op # "MC"
    BY DEF PatchInv, BlockInv, Spills, Reloads
  <2>. QED
    BY <2>1, ScanStays
<1>. QED
  BY <1>1, <1>2, <1>3, PTL DEF PatchSpec
=============================================================================
