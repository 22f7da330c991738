---------------------------- MODULE ActivationStack ----------------------------
(***************************************************************************)
(* The linked program running on the 8080: one stack of activations, which  *)
(* an interrupt extends at any point while interrupts are enabled, and the  *)
(* memory of the static frames, which every activation of a function        *)
(* shares.  A byte of a static frame remembers which activation stored it   *)
(* last and for which object.                                               *)
(***************************************************************************)
EXTENDS CallGraph

CONSTANT MaxDepth   \* bound: live activations

VARIABLES
  stack,   \* live activations, the running one last
  inte,    \* the 8080's interrupt-enable flip-flop
  mem      \* mem[f][b]: who stored byte b of f's static frame last

runVars == <<stack, inte, mem>>

FrameBytes == 0..(MaxObjs * MaxSize)
Nobody == [depth |-> 0, obj |-> 0]

Activation(f, irq) == [fn |-> f, irq |-> irq, stored |-> {}]

RunInit ==
  /\ stack = <<>>
  /\ inte = FALSE
  /\ mem = [f \in Funcs |-> [b \in FrameBytes |-> Nobody]]

Running == stack[Len(stack)].fn

(* crt0 has set up SP and cleared .bss: main is called.                     *)
Start ==
  /\ stack = <<>>
  /\ stack' = <<Activation(prog.main, FALSE)>>
  /\ UNCHANGED <<prog, inte, mem>>

Call ==
  /\ stack # <<>>
  /\ Len(stack) < MaxDepth
  /\ \E t \in Targets(prog, Running) : stack' = Append(stack, Activation(t, FALSE))
  /\ UNCHANGED <<prog, inte, mem>>

Return ==
  /\ Len(stack) > 1
  /\ stack' = SubSeq(stack, 1, Len(stack) - 1)
  /\ UNCHANGED <<prog, inte, mem>>

(* The 8080 accepts an interrupt: it disables further ones and enters the   *)
(* handler whose address is in the vector.                                  *)
Interrupt ==
  /\ stack # <<>>
  /\ inte
  /\ Len(stack) < MaxDepth
  /\ \E h \in prog.handlers : stack' = Append(stack, Activation(h, TRUE))
  /\ inte' = FALSE
  /\ UNCHANGED <<prog, mem>>

(* v6clang_ei() and v6clang_di(), which any function may execute.           *)
SetInte ==
  /\ stack # <<>>
  /\ inte' = ~inte
  /\ UNCHANGED <<prog, stack, mem>>

(* The running activation of a function in fns stores object i of its       *)
(* frame, laid out by layout, to memory.                                    *)
StoreObject(fns, layout) ==
  /\ stack # <<>>
  /\ Running \in fns
  /\ \E i \in 1..MaxObjs :
       LET o == layout[Running][i] IN
       /\ o.size > 0
       /\ mem' = [mem EXCEPT ![Running] =
                    [b \in FrameBytes |-> IF b \in o.off..(o.off + o.size - 1)
                                          THEN [depth |-> Len(stack), obj |-> i]
                                          ELSE mem[Running][b]]]
       /\ stack' = [stack EXCEPT ![Len(stack)].stored = @ \cup {i}]
  /\ UNCHANGED <<prog, inte>>

RunNext(fns, layout) ==
  \/ Start \/ Call \/ Return \/ Interrupt \/ SetInte \/ StoreObject(fns, layout)

-----------------------------------------------------------------------------
RunTypeOK ==
  /\ stack \in Seq([fn : Funcs, irq : BOOLEAN, stored : SUBSET (1..MaxObjs)])
  /\ inte \in BOOLEAN
  /\ mem \in [Funcs -> [FrameBytes -> [depth : Nat, obj : 0..MaxObjs]]]

(* No function of fns has two live activations at once.                     *)
NotReenteredIn(fns) ==
  \A i, j \in 1..Len(stack) :
    (i < j /\ stack[i].fn \in fns) => stack[i].fn # stack[j].fn

(* Every object a live activation stored to its static frame still holds    *)
(* what that activation stored.                                             *)
FramesIntactIn(fns, layout) ==
  \A d \in 1..Len(stack) : stack[d].fn \in fns =>
    \A i \in stack[d].stored : \A b \in FrameBytes :
      b \in layout[stack[d].fn][i].off
              ..(layout[stack[d].fn][i].off + layout[stack[d].fn][i].size - 1)
        => mem[stack[d].fn][b] = [depth |-> d, obj |-> i]
=============================================================================
