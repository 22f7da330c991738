------------------------------ MODULE FlowProgram ------------------------------
(***************************************************************************)
(* The machine code of one function after register allocation, as a flow    *)
(* graph of basic blocks, and a run of it.  Of an instruction only what it  *)
(* does to the byte registers is told apart, and only as far as the passes  *)
(* that forward register values tell it apart.  This is the specification   *)
(* such a pass has to keep: the code it leaves behind must run like this.   *)
(***************************************************************************)
EXTENDS Naturals, Sequences

CONSTANTS
  Regs,      \* byte registers
  Values     \* what a register may hold, a set of naturals

ASSUME ValuesAssumption == Values \subseteq Nat /\ Values # {}

VARIABLES
  fn,        \* the function: entry, succ, code
  entered,   \* the function has been called
  blk,       \* the block that runs
  pos,       \* instructions of it that have run
  reg

runVars == <<entered, blk, pos, reg>>

(* MOV d, s; MVI d, n (symbolic: n is patched at run time, or an address);  *)
(* ORA A and ANA A ("keep"); inline assembly; anything else, which gives    *)
(* the registers in defs new values; and an instruction that was erased.    *)
Instr ==
  [op : {"MOV"}, d : Regs, s : Regs] \cup [op : {"MVI"}, d : Regs, n : Values, symbolic : BOOLEAN]
    \cup [op : {"keep", "asm", "gone"}] \cup [op : {"other"}, defs : SUBSET Regs]

Mov(d, s) == [op |-> "MOV", d |-> d, s |-> s]
Mvi(d, n) == [op |-> "MVI", d |-> d, n |-> n, symbolic |-> FALSE]
Patched(d) == [op |-> "MVI", d |-> d, n |-> 0, symbolic |-> TRUE]
Other(defs) == [op |-> "other", defs |-> defs]
Plain(op) == [op |-> op]

(* The registers an instruction may leave with any value at all.            *)
Loses(i) ==
  CASE i.op = "other" -> i.defs
    [] i.op = "asm" -> Regs
    [] i.op = "MVI" /\ i.symbolic -> {i.d}
    [] OTHER -> {}

(* What instruction i makes of the registers r, up to those it loses.       *)
Moved(i, r) ==
  CASE i.op = "MOV" -> [r EXCEPT ![i.d] = r[i.s]]
    [] i.op = "MVI" -> [r EXCEPT ![i.d] = i.n]
    [] OTHER -> r

(* The function is called, with anything in the registers.                  *)
Enter ==
  /\ ~entered
  /\ entered' = TRUE
  /\ reg' \in [Regs -> Values]
  /\ UNCHANGED <<fn, blk, pos>>

(* One instruction, and the edge to a successor at the end of a block.      *)
Step(code) ==
  /\ entered
  /\ pos < Len(code[blk])
  /\ LET i == code[blk][pos + 1] IN
     \E v \in [Regs -> Values] :
       reg' = [r \in Regs |-> IF r \in Loses(i) THEN v[r] ELSE Moved(i, reg)[r]]
  /\ pos' = pos + 1
  /\ UNCHANGED <<fn, entered, blk>>

Branch(code) ==
  /\ entered
  /\ pos = Len(code[blk])
  /\ \E j \in DOMAIN fn.succ[blk] : blk' = fn.succ[blk][j]
  /\ pos' = 0
  /\ UNCHANGED <<fn, entered, reg>>

ProgramInit ==
  /\ entered = FALSE
  /\ blk = fn.entry
  /\ pos = 0
  /\ reg = [r \in Regs |-> CHOOSE v \in Values : TRUE]

ProgramNext == Enter \/ Step(fn.code) \/ Branch(fn.code)

Program == ProgramInit /\ [][ProgramNext]_<<fn, runVars>>
=============================================================================
