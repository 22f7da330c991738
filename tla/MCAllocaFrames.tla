----------------------------- MODULE MCAllocaFrames -----------------------------
(* main calls f and g; a handler isr calls g, a leaf or nothing; f and g    *)
(* call each other, themselves, ext, through a pointer or nothing, under    *)
(* every truthful choice of attributes; frames that fit and one that does   *)
(* not.                                                                     *)
EXTENDS AllocaFrames

MCFuncs == {"main", "isr", "f", "g", "ext"}
MCNoFunc == "none"

To(c) == [kind |-> "direct", callee |-> c, nocb |-> FALSE]
LeafTo(c) == [kind |-> "direct", callee |-> c, nocb |-> TRUE]
Pointer == [kind |-> "indirect", callee |-> "none", nocb |-> FALSE]
Asm == [kind |-> "asm", callee |-> "none", nocb |-> FALSE]

Local(n) == [size |-> n, static |-> TRUE]
Dynamic == [size |-> 1, static |-> FALSE]

ReachOf(p) ==
  LET R[n \in 0..3] ==
        IF n = 0 THEN [x \in MCFuncs |-> Targets(p, x)]
        ELSE [x \in MCFuncs |-> R[n - 1][x] \cup UNION {R[n - 1][y] : y \in R[n - 1][x]}]
  IN R[3]

Program(isr, f, g, ext, ptr, norec, nocb, locals) ==
  LET p == [main |-> "main", decl |-> {"ext"}, isrAttr |-> {"isr"}, handlers |-> {"isr"},
            noRecurse |-> norec, noCallback |-> nocb, addrTaken |-> ptr,
            sites |-> [main |-> <<To("f"), To("g")>>, isr |-> isr, f |-> f, g |-> g, ext |-> ext],
            objs |-> [x \in MCFuncs |-> <<>>],
            allocas |-> [main |-> <<>>, isr |-> <<Local(1)>>, f |-> locals,
                         g |-> <<Local(1)>>, ext |-> <<>>],
            reach |-> [x \in MCFuncs |-> {}]]
  IN [p EXCEPT !.reach = ReachOf(p)]

MCPrograms ==
  {p \in {Program(isr, f, g, e, ptr, nr, nc, locals) :
            isr \in {<<To("g")>>, <<LeafTo("ext")>>},
            f \in {<<>>, <<Asm, To("g")>>, <<LeafTo("ext")>>, <<To("ext")>>},
            g \in {<<>>, <<To("f")>>, <<Pointer>>, <<To("g")>>},
            e \in {<<>>, <<To("f")>>},
            ptr \in {{}, {"g"}},
            nr \in {{}, {"f"}, {"f", "g"}},
            nc \in SUBSET {"ext"},
            locals \in {<<Local(0), Dynamic, Local(1)>>, <<Local(2), Local(2)>>}} :
     Truthful(p) /\ ClosedInterrupts(p)}
=============================================================================
