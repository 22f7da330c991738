---------------------------- MODULE MCFrameLowering ----------------------------
(* Every way to set up a small frame: prototypes that leave every register  *)
(* pair live, frame sizes on both sides of every tier.                      *)
EXTENDS FrameLowering

Prototypes == {<<>>, <<"i8">>, <<"i16">>, <<"i8", "i8">>, <<"i16", "i8">>, <<"i16", "i16">>,
               <<"i8", "i16", "i16">>, <<"i16", "i16", "i16">>, <<"i8", "i8", "i8", "i16", "i16">>,
               <<"i16", "i16", "i16", "i8", "i8", "i16">>}

Uses(args) == IF Len(args) <= 3 THEN SUBSET DOMAIN args ELSE {DOMAIN args, {Len(args)}}

Fn(args, used, ret, locals, out, fp, size) ==
  [args |-> args, used |-> used, ret |-> ret, locals |-> locals, out |-> out, fp |-> fp,
   size |-> size, isr |-> FALSE, copy |-> 0, keep |-> {}, call |-> "no", exits |-> 0]

Frames ==
  UNION {{Fn(a, u, r, n, 0, fp, s) : u \in Uses(a), r \in {"none", "i8", "i16", "i32"},
            n \in {0, 2, 3, 4, 6}, fp \in BOOLEAN, s \in BOOLEAN} : a \in Prototypes}

(* Bodies that copy, call and return in more than one place.                *)
Bodies ==
  {[fn EXCEPT !.copy = c, !.keep = IF fn.fp THEN {} ELSE {"B", "C"}, !.call = w, !.exits = e] :
     fn \in {Fn(<<>>, {}, "none", n, o, fp, FALSE) : n \in {0, 3}, o \in {0, 2}, fp \in {FALSE}}
              \cup {Fn(<<>>, {}, "i16", n, 0, TRUE, FALSE) : n \in {0, 3}}
              \cup {Fn(<<"i16", "i16", "i8">>, {1, 2, 3}, "i16", 3, 2, FALSE, FALSE)},
     c \in {0, 5, 6, 7}, w \in {"no", "framed", "plain"}, e \in {0, 1, 2}}

Handlers ==
  {[Fn(<<>>, {}, "none", n, 0, FALSE, FALSE) EXCEPT !.isr = TRUE, !.copy = c] :
     n \in {0, 3}, c \in {0, 6}}

(* The row of BC is not set again for the second block that returns.        *)
ReturnsTwice(fn) == fn.fp /\ fn.exits = 2

AllFunctions == Frames \cup Bodies \cup Handlers
MCFunctions == {fn \in AllFunctions : ~(fn.fp /\ FPTrouble(fn)) /\ ~LosesLong(fn) /\ ~ReturnsTwice(fn)}
=============================================================================
