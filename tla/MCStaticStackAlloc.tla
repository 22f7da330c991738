--------------------------- MODULE MCStaticStackAlloc ---------------------------
(***************************************************************************)
(* Small programs for StaticStackAlloc and StaticFrames: main calls f and   *)
(* g, an interrupt handler isr and a function ext of another translation    *)
(* unit may or may not call them, f and g call each other, ext, through a   *)
(* pointer or nothing, under every truthful choice of attributes.           *)
(***************************************************************************)
EXTENDS StaticStackAlloc

MCFuncs == {"main", "isr", "f", "g", "ext"}
MCNoFunc == "none"

To(c) == [kind |-> "direct", callee |-> c, nocb |-> FALSE]
LeafTo(c) == [kind |-> "direct", callee |-> c, nocb |-> TRUE]
Pointer == [kind |-> "indirect", callee |-> "none", nocb |-> FALSE]
Asm == [kind |-> "asm", callee |-> "none", nocb |-> FALSE]

Live(n) == [size |-> n, dead |-> FALSE]
Dead(n) == [size |-> n, dead |-> TRUE]

(* What each function can call, by repeated composition of the call sites. *)
ReachOf(p) ==
  LET R[n \in 0..3] ==
        IF n = 0 THEN [x \in MCFuncs |-> Targets(p, x)]
        ELSE [x \in MCFuncs |-> R[n - 1][x] \cup UNION {R[n - 1][y] : y \in R[n - 1][x]}]
  IN R[3]

Program(isr, f, g, ext, ptr, norec, nocb, handlers, marked) ==
  LET p == [main |-> "main", decl |-> {"ext"}, isrAttr |-> marked, handlers |-> handlers,
            noRecurse |-> norec, noCallback |-> nocb, addrTaken |-> ptr,
            sites |-> [main |-> <<To("f"), To("g")>>, isr |-> isr, f |-> f, g |-> g, ext |-> ext],
            objs |-> [main |-> <<>>, isr |-> <<>>, f |-> <<Live(2), Dead(1), Live(1)>>,
                      g |-> <<Live(0), Live(1)>>, ext |-> <<>>],
            reach |-> [x \in MCFuncs |-> {}]]
  IN [p EXCEPT !.reach = ReachOf(p)]

AllPrograms(isrs, fs, gs, handlers, marked) ==
  {Program(i, f, g, e, ptr, nr, nc, handlers, marked) :
     i \in isrs, f \in fs, g \in gs,
     e \in {<<>>, <<To("f")>>},
     ptr \in {{}, {"g"}},
     nr \in SUBSET {"f", "g"},
     nc \in SUBSET {"ext"}}

MCPrograms ==
  {p \in AllPrograms({<<>>, <<To("g")>>, <<Pointer, LeafTo("ext")>>},
                     {<<>>, <<To("g"), To("g")>>, <<Asm, To("g")>>, <<To("ext")>>},
                     {<<>>, <<To("f")>>, <<Pointer>>, <<Asm, To("ext")>>},
                     {"isr"}, {"isr"}) : Truthful(p)}
=============================================================================
