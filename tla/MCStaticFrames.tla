----------------------------- MODULE MCStaticFrames -----------------------------
(* The programs of MCStaticStackAlloc, compiled and then run.               *)
EXTENDS MCStaticStackAlloc, StaticFrames

(* Every handler is marked and calls only functions defined here.           *)
MCClosedPrograms ==
  {p \in AllPrograms({<<To("g")>>, <<LeafTo("ext")>>},
                     {<<>>, <<Asm, To("g")>>, <<LeafTo("ext")>>},
                     {<<>>, <<To("f")>>, <<Pointer>>},
                     {"isr"}, {"isr"}) : Truthful(p) /\ ClosedInterrupts(p)}
    \cup {p \in MCPrograms : ClosedInterrupts(p) /\ p.addrTaken = {} /\ p.noRecurse = {}}
=============================================================================
