---------------------------- MODULE SpillForwarding ----------------------------
(***************************************************************************)
(* V6ClangSpillForwarding: a walk over a basic block that remembers which   *)
(* register holds the value of which slot, turns a reload of such a slot    *)
(* into a register copy or deletes it, and deletes a spill of what the slot *)
(* already holds.  The block it leaves is then lowered and run.             *)
(***************************************************************************)
EXTENDS FrameIndexElim

VARIABLES
  given,    \* the block as register allocation left it
  walk,     \* the instruction the walk is at; 0 when it is over
  Avail,    \* slot -> the register that holds its value, or NoReg
  seen      \* what the running block's USE instructions read

fwdVars == <<given, walk, Avail>>
vars == <<elimVars, fwdVars, seen>>

(* A slot is the program's, or register allocation's and then of one width; *)
(* an instruction has the operands its opcode declares.                     *)
Roles == {"byte", "word", "program"}
Operands(mi, role) ==
  CASE mi.op \in {"SPILL8", "RELOAD8"}   -> mi.reg \in Regs /\ mi.fi \in Slots /\ role[mi.fi] = "byte"
    [] mi.op \in {"SPILL16", "RELOAD16"} -> mi.reg \in Pairs /\ mi.fi \in Slots /\ role[mi.fi] = "word"
    [] mi.op = "LOAD8_FI"                -> mi.reg \in Regs /\ mi.fi \in Slots /\ role[mi.fi] = "program"
    [] mi.op \in {"LOAD16_FI", "LEA_FI"} -> mi.reg \in Pairs /\ mi.fi \in Slots /\ role[mi.fi] = "program"
    [] mi.op = "STORE8_FI"               -> mi.reg \in Regs \ {"H", "L"} /\ mi.fi \in Slots /\ role[mi.fi] = "program"
    [] mi.op = "STORE16_FI"              -> mi.reg \in {"BC", "DE"} /\ mi.fi \in Slots /\ role[mi.fi] = "program"
    [] mi.op = "MOV"                     -> mi.reg \in Regs /\ mi.src \in Regs /\ ~mi.kill
    [] mi.op = "DEF"                     -> mi.reg \in Regs \cup Pairs /\ mi.fi \in Byte /\ ~mi.kill
    [] mi.op = "USE"                     -> mi.reg \in Regs \cup Pairs
    [] mi.op = "CALL"                    -> ~mi.kill
Pseudo == [op : Spills \cup Reloads \cup Stores \cup Loads \cup {"LEA_FI", "MOV", "DEF", "USE", "CALL"},
           reg : Regs \cup Pairs, fi : Nat, kill : BOOLEAN, src : Regs \cup {""}]

ASSUME InputsAssumption ==
  \A in \in Inputs :
    /\ \E role \in [Slots -> Roles] : in.mbb \in Seq({mi \in Pseudo : Operands(mi, role)})
    /\ \A f \in in.frames : f.reserved \subseteq {"B", "C"}   \* the frame pointer, if any

NoAvail == [fi \in Slots |-> NoReg]
Overlap(r, s) == r # NoReg /\ Parts(r) \cap Parts(s) # {}

(* The registers of S are written: no slot is in one that overlaps them.    *)
InvalidateExact(av, S) == [fi \in Slots |-> IF av[fi] \in S THEN NoReg ELSE av[fi]]   \* mutant
Invalidate(av, S) ==
  [fi \in Slots |-> IF \E r \in S : Overlap(av[fi], r) THEN NoReg ELSE av[fi]]

MI == mbb[walk]
Walking == walk \in 1..Len(mbb)

(* The copies that stand in for a reload of d from register r.              *)
Copies(d, r) ==
  IF d = r THEN <<>>
  ELSE IF d \in Pairs THEN <<Copy(Lo[d], Lo[r]), Copy(Hi[d], Hi[r])>>
  ELSE <<Copy(d, r)>>

Walk(block, k, av) ==
  /\ mbb' = block
  /\ walk' = k
  /\ Avail' = av
  /\ UNCHANGED <<given, frame, pos, code, m, a, seen>>

Init ==
  /\ ElimInit
  /\ given = mbb
  /\ walk = 1
  /\ Avail = NoAvail
  /\ seen = <<>>

-----------------------------------------------------------------------------
(* The slot already holds this register's value.                            *)
EraseSpill ==
  /\ Walking /\ MI.op \in Spills
  /\ ~MI.kill
  /\ Avail[MI.fi] = MI.reg
  /\ Walk(Replace(mbb, walk, <<>>), walk, Avail)

RecordSpill ==
  /\ Walking /\ MI.op \in Spills
  /\ ~MI.kill
  /\ Avail[MI.fi] # MI.reg
  /\ Walk(mbb, walk + 1, [Avail EXCEPT ![MI.fi] = MI.reg])

ReloadedNext ==
  /\ walk < Len(mbb)
  /\ mbb[walk + 1].op \in Reloads
  /\ mbb[walk + 1].fi = MI.fi

ForwardStillKilled ==   \* mutant
  /\ Walking /\ MI.op \in Spills
  /\ MI.kill
  /\ ReloadedNext
  /\ LET d == mbb[walk + 1].reg
         av == IF d = MI.reg THEN Avail ELSE Invalidate(Avail, {d})
     IN Walk(Replace(mbb, walk + 1, Copies(d, MI.reg)), walk + 1, [av EXCEPT ![MI.fi] = MI.reg])

(* A killing spill whose slot is reloaded at once: the register lives on.   *)
ForwardKilled ==
  /\ Walking /\ MI.op \in Spills
  /\ MI.kill
  /\ ReloadedNext
  /\ LET d == mbb[walk + 1].reg
         av == IF d = MI.reg THEN Avail ELSE Invalidate(Avail, {d})
     IN Walk(Replace([mbb EXCEPT ![walk].kill = FALSE], walk + 1, Copies(d, MI.reg)),
             walk + 1, [av EXCEPT ![MI.fi] = MI.reg])

(* Any other killing spill: the slot is no longer in a register.            *)
KillSpill ==
  /\ Walking /\ MI.op \in Spills
  /\ MI.kill
  /\ ~ReloadedNext
  /\ Walk(mbb, walk + 1, [Avail EXCEPT ![MI.fi] = NoReg])

EraseDeadReload ==
  /\ Walking /\ MI.op \in Reloads
  /\ MI.kill
  /\ Walk(Replace(mbb, walk, <<>>), walk, Avail)

(* The walk goes on behind the copies.                                      *)
ForwardReload ==
  /\ Walking /\ MI.op \in Reloads
  /\ ~MI.kill
  /\ Avail[MI.fi] # NoReg
  /\ LET r == Avail[MI.fi]
     IN Walk(Replace(mbb, walk, Copies(MI.reg, r)),
             walk + Len(Copies(MI.reg, r)),
             IF r = MI.reg THEN Avail ELSE Invalidate(Avail, {MI.reg}))

KeepReload ==
  /\ Walking /\ MI.op \in Reloads
  /\ ~MI.kill
  /\ Avail[MI.fi] = NoReg
  /\ Walk(mbb, walk + 1, [Invalidate(Avail, {MI.reg}) EXCEPT ![MI.fi] = MI.reg])

AtCall ==
  /\ Walking /\ MI.op = "CALL"
  /\ Walk(mbb, walk + 1, NoAvail)

AtOther ==
  /\ Walking /\ MI.op \notin Spills \cup Reloads \cup {"CALL"}
  /\ Walk(mbb, walk + 1, Invalidate(Avail, DefsOf(MI)))

(* The block is walked; frame indices are eliminated after this pass.       *)
WalkDone ==
  /\ walk > Len(mbb)
  /\ walk' = 0
  /\ UNCHANGED <<elimVars, given, Avail, seen>>

Forward ==
  \/ EraseSpill \/ RecordSpill \/ ForwardKilled \/ KillSpill \/ EraseDeadReload
  \/ ForwardReload \/ KeepReload \/ AtCall \/ AtOther \/ WalkDone

(* The block is lowered, an instruction when it is reached, and runs.       *)
Run ==
  /\ walk = 0
  /\ \/ /\ Eliminate
        /\ seen' = IF mbb[pos + 1].op = "USE" THEN Append(seen, Read(m, mbb[pos + 1].reg)) ELSE seen
     \/ /\ Execute \/ Interrupt
        /\ UNCHANGED seen
  /\ UNCHANGED fwdVars

Next == Forward \/ Run

Spec == Init /\ [][Next]_vars

-----------------------------------------------------------------------------
(* What the walk believes is so: a register it names for a slot holds, at   *)
(* that point of the rewritten block, what the slot holds.                  *)
AvailSound ==
  walk # 0 =>
    LET s == Trace(mbb, AbstractAtStart)[walk - 1].s IN
    \A fi \in Slots : Avail[fi] # NoReg =>
      IF Avail[fi] \in Pairs THEN Value(s, Avail[fi]) = s.slot[fi]
      ELSE s.reg[Avail[fi]] = s.slot[fi].lo

(* The 8080 code of the block reads what the block as given reads: whatever *)
(* is forwarded, deleted or lowered, every value that is read is the one    *)
(* register allocation meant.                                               *)
ReloadsRight ==
  (walk = 0 /\ pos = Len(mbb) /\ code = <<>>) => seen = Observed(given, AbstractAtStart)
=============================================================================
