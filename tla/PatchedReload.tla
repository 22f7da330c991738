----------------------------- MODULE PatchedReload -----------------------------
(***************************************************************************)
(* V6ClangSpillPatchedReload (O61): in a function with a static frame the   *)
(* value of a spill slot moves into the immediate operand of one or two of  *)
(* its reloads, which the spills patch.  The pass treats one slot after     *)
(* another, rewriting a block that is partly pseudo-instructions and partly *)
(* 8080 code, then packs the slots that are left; those are lowered and the *)
(* block runs, code that modifies itself included.  The function has one    *)
(* block, so that the frequency of blocks plays no part in the choice.      *)
(***************************************************************************)
EXTENDS FrameIndexElim, FiniteSetsExt

CONSTANT CodeBase   \* where the immediate of the first patched reload lies

VARIABLES
  pc,        \* where the pass is
  allocated, \* the block as register allocation left it
  ids,       \* ids[k]: the instruction of allocated that mbb[k] stems from
  todo,      \* slots not treated yet: [width, fi]
  cur,       \* the slot being rewritten
  winners,   \* its reloads that become patched sites, as instructions of allocated
  sites,     \* labels .Lo61_N made so far
  off,       \* StaticSlots: the offset of each slot that still has one
  gvSize,    \* bytes of __v6clang_ss.F
  reads      \* what the running block's USE instructions read

passVars == <<pc, allocated, ids, todo, cur, winners, sites, off, gvSize>>
patchVars == <<elimVars, passVars, reads>>

NoSlot == [width |-> 0, fi |-> 0]
SpillOp == [w \in {8, 16} |-> IF w = 8 THEN "SPILL8" ELSE "SPILL16"]
ReloadOp == [w \in {8, 16} |-> IF w = 8 THEN "RELOAD8" ELSE "RELOAD16"]
SpillsOf(s) == {k \in DOMAIN mbb : mbb[k].op = SpillOp[s.width] /\ mbb[k].fi = s.fi}
ReloadsOf(s) == {k \in DOMAIN mbb : mbb[k].op = ReloadOp[s.width] /\ mbb[k].fi = s.fi}

(* The block as it comes to the pass.  A slot is a byte or a word; a        *)
(* register that an instruction kills is not read again.                    *)
KilledBy(x) ==
  CASE x.op = "MC" -> x.killed
    [] x.op \in Spills \cup Stores \cup {"USE"} -> IF x.kill THEN Parts(x.reg) ELSE {}
    [] OTHER -> {}

PatchOperands(x, words) ==
  CASE x.op \in {"SPILL8", "RELOAD8"}   -> x.reg \in Regs /\ x.fi \in Slots \ words
    [] x.op \in {"SPILL16", "RELOAD16"} -> x.reg \in Pairs /\ x.fi \in words
    [] x.op = "MOV"                     -> x.reg \in Regs /\ x.src \in Regs
    [] x.op = "DEF"                     -> x.reg \in Regs \cup Pairs /\ x.fi \in Byte
    [] x.op \in {"USE", "CALL"}         -> x.reg \in Regs \cup Pairs
PatchPseudo == [op : Spills \cup Reloads \cup {"MOV", "DEF", "USE", "CALL"},
                reg : Regs \cup Pairs, fi : Nat, kill : BOOLEAN, src : Regs \cup {""}]
Frames == [static : SUBSET Slots, words : SUBSET Slots, reserved : SUBSET Regs,
           liveIn : SUBSET Regs, liveOut : SUBSET Regs]

ASSUME PatchInputsAssumption ==
  \A in \in Inputs : \A f \in in.frames :
    /\ f \in Frames
    /\ in.mbb \in Seq({x \in PatchPseudo : PatchOperands(x, f.words)})
    /\ \A k \in DOMAIN in.mbb : \A r \in KilledBy(in.mbb[k]) : DeadAfter(in.mbb, k, f.liveOut, r)

ASSUME CodeAssumption == CodeBase \in Nat \ {0}

(* Slots laid out one after the other, by ascending frame index.            *)
Size(fi) == IF fi \in frame.words THEN 2 ELSE 1
Total(S) == MapThenSumSet(Size, S)
Packed(S) == [fi \in S |-> Total({j \in S : j < fi})]

PatchInit ==
  /\ ElimInit
  /\ pc = "pick"
  /\ allocated = mbb
  /\ ids = [k \in DOMAIN mbb |-> k]
  /\ todo = {s \in [width : {8, 16}, fi : Slots] : SpillsOf(s) \cup ReloadsOf(s) # {}}
  /\ cur = NoSlot
  /\ winners = <<>>
  /\ sites = 0
  /\ off = Packed(Slots)
  /\ gvSize = Total(Slots)
  /\ reads = <<>>

(* Instruction k rewritten to the instructions of s.                        *)
Rewrite(k, s) ==
  /\ mbb' = Replace(mbb, k, s)
  /\ ids' = Replace(ids, k, [j \in DOMAIN s |-> ids[k]])
  /\ UNCHANGED <<frame, pos, code, m, a, allocated, sites, off, gvSize, reads>>

-----------------------------------------------------------------------------
(* The chooser.  Cycles saved when a reload of d is patched.                *)
Delta(d, hlLive) ==
  CASE d \in {"HL", "A"} -> 8
    [] d = "DE" -> IF hlLive THEN 16 ELSE 12
    [] d = "BC" -> IF hlLive THEN 52 ELSE 24
    [] OTHER    -> IF hlLive THEN 44 ELSE 20

Score(k) == Delta(mbb[k].reg, ~PairDead(DeadSet(k), "HL"))

Best(S) == CHOOSE k \in S : \A j \in S : Score(k) > Score(j) \/ (Score(k) = Score(j) /\ k <= j)

AllowTwoAnySource(s) == Cardinality(SpillsOf(s)) = 1   \* mutant
AllowTwo(s) ==
  /\ Cardinality(SpillsOf(s)) = 1
  /\ s.width = 8 => \A k \in SpillsOf(s) : mbb[k].reg = "A"

ChooseWinners(s) ==
  LET first == Best(ReloadsOf(s))
      others == {k \in ReloadsOf(s) \ {first} :
                   mbb[k].reg \notin (IF s.width = 16 THEN {"HL"} ELSE {"A", "H", "L"})}
  IN IF AllowTwo(s) /\ others # {} THEN <<ids[first], ids[Best(others)]>> ELSE <<ids[first]>>

(* The 16-bit slots come first, in the order of a hash table.  Every        *)
(* register that can be spilled or reloaded is accepted.                    *)
PickSlot ==
  /\ pc = "pick"
  /\ \E s \in todo :
       /\ s.width = 16 \/ \A t \in todo : t.width = 8
       /\ todo' = todo \ {s}
       /\ IF SpillsOf(s) = {} \/ ReloadsOf(s) = {}
          THEN UNCHANGED <<pc, cur, winners, sites>>
          ELSE /\ cur' = s
               /\ winners' = ChooseWinners(s)
               /\ sites' = sites + Len(winners')
               /\ pc' = "spills"
  /\ UNCHANGED <<elimVars, allocated, ids, off, gvSize, reads>>

SiteAddr(i) == CodeBase + 2 * (sites - Len(winners) + i - 1)
SiteAddrs == [i \in DOMAIN winners |-> SiteAddr(i)]

-----------------------------------------------------------------------------
(* Code in the block, with the operands marked killed or undef.             *)
Plain(s, killed) == [j \in DOMAIN s |-> Mc(s[j], {}, killed \cap Reads8080(s[j]))]
UndefXchg(S) == <<Mc(Xchg, S, {})>>

(* isRegLiveBefore: the last instruction before k that writes HL or ends    *)
(* its life decides; else the live-ins of the block do.                     *)
LiveBeforeInBlock(k, S) ==   \* mutant
  LET deciding == {j \in 1..k - 1 : (DefsOf(mbb[j]) \cup KilledBy(mbb[j])) \cap S # {} \/ mbb[j].op = "CALL"}
  IN deciding # {} /\ DefsOf(mbb[Max(deciding)]) \cap S # {}
LiveBeforeIn(block, k, S) ==
  LET deciding == {j \in 1..k - 1 : (DefsOf(block[j]) \cup KilledBy(block[j])) \cap S # {} \/ block[j].op = "CALL"}
  IN IF deciding = {} THEN frame.liveIn \cap S # {}
     ELSE DefsOf(block[Max(deciding)]) \cap S # {}
LiveBefore(k, S) == LiveBeforeIn(mbb, k, S)

(* A spill stores to every site of the slot.                                *)
SpillCode16(k) ==
  LET D == DeadSet(k)
      shlds == [i \in DOMAIN winners |-> Shld(SiteAddr(i))]
      undef == ~LiveBefore(k, {"H", "L"})
      body == <<Mov("L", "C"), Mov("H", "B")>> \o shlds
  IN CASE mbb[k].reg = "HL" -> Plain(shlds, {})
       [] mbb[k].reg = "DE" ->
            UndefXchg(IF undef THEN {"H", "L"} ELSE {}) \o Plain(shlds, {})
              \o (IF mbb[k].kill /\ PairDead(D, "HL") THEN <<>>
                  ELSE UndefXchg(IF undef THEN {"D", "E"} ELSE {}))
       [] mbb[k].reg = "BC" ->
            Plain(IF PairDead(D, "HL") THEN body ELSE Around("HL", body),
                  IF mbb[k].kill THEN {"B", "C"} ELSE {})

SpillCode8(k) ==
  Plain(IF mbb[k].reg = "A" THEN [i \in DOMAIN winners |-> Sta(SiteAddr(i))]
        ELSE StaticSpill8(DeadSet(k), frame.reserved, mbb[k].reg, SiteAddr(1)),
        IF mbb[k].kill THEN {mbb[k].reg} ELSE {})

RewriteSpill ==
  /\ pc = "spills"
  /\ SpillsOf(cur) # {}
  /\ LET k == Min(SpillsOf(cur)) IN
     Rewrite(k, IF cur.width = 16 THEN SpillCode16(k) ELSE SpillCode8(k))
  /\ UNCHANGED <<pc, todo, cur, winners>>

SpillsDone ==
  /\ pc = "spills"
  /\ SpillsOf(cur) = {}
  /\ pc' = "reloads"
  /\ UNCHANGED <<elimVars, allocated, ids, todo, cur, winners, sites, off, gvSize, reads>>

(* A winner becomes LXI or MVI with an immediate that is patched.           *)
PatchWinner ==
  /\ pc = "reloads"
  /\ \E i \in DOMAIN winners : \E k \in ReloadsOf(cur) :
       /\ ids[k] = winners[i]
       /\ \A j \in ReloadsOf(cur) : ids[j] # winners[1] \/ i = 1
       /\ Rewrite(k, <<[Mc(IF cur.width = 16 THEN Lxi(mbb[k].reg, 0) ELSE Mvi(mbb[k].reg, 0), {}, {})
                          EXCEPT !.patch = SiteAddr(i)]>>)
  /\ UNCHANGED <<pc, todo, cur, winners>>

(* The other reloads read the immediate of the first site.                  *)
ReloadCode16(k) ==
  LET dead == PairDead(DeadSet(k), "HL")
      lhld == <<Lhld(SiteAddr(1))>>
      body == lhld \o <<Mov("C", "L"), Mov("B", "H")>>
  IN CASE mbb[k].reg = "HL" -> Plain(lhld, {})
       [] mbb[k].reg = "DE" ->
            IF dead THEN Plain(lhld, {}) \o UndefXchg({"D", "E"})
            ELSE UndefXchg({"D", "E"}) \o Plain(lhld \o <<Xchg>>, {})
       [] mbb[k].reg = "BC" -> Plain(IF dead THEN body ELSE Around("HL", body), {})

ReloadCode8(k) ==
  Plain(IF mbb[k].reg = "A" THEN <<Lda(SiteAddr(1))>>
        ELSE StaticReload8(DeadSet(k), frame.reserved, mbb[k].reg, SiteAddr(1)), {})

RewriteReload ==
  /\ pc = "reloads"
  /\ ReloadsOf(cur) # {}
  /\ \A k \in ReloadsOf(cur) : \A i \in DOMAIN winners : ids[k] # winners[i]
  /\ LET k == Min(ReloadsOf(cur)) IN
     Rewrite(k, IF cur.width = 16 THEN ReloadCode16(k) ELSE ReloadCode8(k))
  /\ UNCHANGED <<pc, todo, cur, winners>>

SlotDone ==
  /\ pc = "reloads"
  /\ ReloadsOf(cur) = {}
  /\ pc' = "pick"
  /\ cur' = NoSlot
  /\ winners' = <<>>
  /\ UNCHANGED <<elimVars, allocated, ids, todo, sites, off, gvSize, reads>>

(* Dead-BSS compaction: slots that no operand names lose their place, the   *)
(* others move together, in a smaller global.                               *)
SlotsReloaded == {mbb[k].fi : k \in {j \in DOMAIN mbb : mbb[j].op \in Reloads}}   \* mutant
LiveSlots == {mbb[k].fi : k \in {j \in DOMAIN mbb : mbb[j].op \in Spills \cup Reloads}}

Compact ==
  /\ pc = "pick"
  /\ todo = {}
  /\ pc' = "run"
  /\ IF sites = 0 \/ DOMAIN off \subseteq LiveSlots
     THEN UNCHANGED <<off, gvSize, frame>>
     ELSE LET live == DOMAIN off \cap LiveSlots IN
          /\ off' = Packed(live)
          /\ gvSize' = Total(live)
          /\ frame' = [frame EXCEPT !.static = live]
  /\ UNCHANGED <<mbb, pos, code, m, a, allocated, ids, todo, cur, winners, sites, reads>>

-----------------------------------------------------------------------------
(* The block runs, a pseudo-instruction being lowered when it is reached;   *)
(* a patched instruction is fetched with the immediate that is in memory.   *)
Fetched(x) ==
  IF x.patch = 0 THEN x.i
  ELSE IF x.i.op = "LXI" THEN Lxi(x.i.d, Word(m, x.patch)) ELSE Mvi(x.i.d, m.mem[x.patch])

Lowered(k) ==
  CASE mbb[k].op = "MC" -> <<Fetched(mbb[k])>>
    [] mbb[k].op \in Spills \cup Reloads /\ mbb[k].fi \in DOMAIN off ->
         StaticCode(DeadSet(k), frame.reserved, mbb[k], GVBase + off[mbb[k].fi])
    [] OTHER -> CodeFor(k)

Fetch ==
  /\ pc = "run"
  /\ code = <<>>
  /\ pos < Len(mbb)
  /\ pos' = pos + 1
  /\ code' = Lowered(pos + 1)
  /\ reads' = IF mbb[pos + 1].op = "USE" THEN Append(reads, Read(m, mbb[pos + 1].reg)) ELSE reads
  /\ UNCHANGED <<mbb, frame, m, a, passVars>>

PatchNext ==
  \/ PickSlot \/ RewriteSpill \/ SpillsDone \/ PatchWinner \/ RewriteReload \/ SlotDone \/ Compact
  \/ Fetch
  \/ Execute /\ UNCHANGED <<passVars, reads>>

PatchSpec == PatchInit /\ [][PatchNext]_patchVars

-----------------------------------------------------------------------------

(* The scan for dead registers, on a block that is half rewritten, never    *)
(* calls a register dead at a spill or reload where the block that register *)
(* allocation left has it live: code that stands for one slot hides no use  *)
(* from the decisions about the next.                                       *)
ScanSound ==
  \A j \in DOMAIN mbb : mbb[j].op \in Spills \cup Reloads =>
    \A r \in DeadSet(j) : DeadAfter(allocated, ids[j], frame.liveOut, r)

(* The block writes to what is left of its global, to the immediates of its *)
(* patched instructions, and just below SP: no slot that is still named     *)
(* lost its place, and no store is wider than the immediate it patches.     *)
PatchBytes ==
  UNION {{mbb[k].patch} \cup (IF mbb[k].i.op = "LXI" THEN {mbb[k].patch + 1} ELSE {}) :
           k \in {j \in DOMAIN mbb : mbb[j].op = "MC" /\ mbb[j].patch # 0}}
WritesInside ==
  pc = "run" =>
    \A x \in Addr : m.mem[x] # MemAtStart[x] =>
      x \in GVBase..GVBase + gvSize - 1 \/ x \in PatchBytes \/ x \in SP0 - 4..SP0 - 1

(* The block that patches itself reads the values register allocation       *)
(* meant: every reload finds what the last spill of its slot stored,        *)
(* wherever that is, and nothing that is still read was destroyed.          *)
ReadsRight ==
  (pc = "run" /\ pos = Len(mbb) /\ code = <<>>) => reads = Observed(allocated, AbstractAtStart)
=============================================================================
