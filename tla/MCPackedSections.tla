---------------------------- MODULE MCPackedSections ----------------------------
(* Links with up to five packed sections, read in the order 1..5, on a      *)
(* machine with pages of four bytes and five of them.                       *)
EXTENDS PackedSections

MCSections == 1..5

(* Every place in a page, and one past the end of memory.                   *)
MCStarts == 0..3 \cup {23}

(* The three descriptions of v6clang.ld, each in the order the linker read  *)
(* the sections.                                                            *)
Script(n, kind) ==
  LET these(k) == SelectSeq([i \in 1..n |-> i], LAMBDA s : kind[s] = k)
  IN <<these("anchor"), these("window"), these("filler")>>

Link(n, kind, size, order) ==
  [kind |-> kind, size |-> size, flagsOk |-> [s \in MCSections |-> TRUE],
   align |-> [s \in MCSections |-> 1], order |-> order, commands |-> FALSE,
   descs |-> Script(n, kind)]

(* Sections of one kind are compared with each other only, so that it is    *)
(* enough to read the anchors first, then the windows, then the fillers.    *)
InOrder(kind) == \A s, t \in MCSections : s < t => Rank(kind[s]) <= Rank(kind[t])

MCKinds == {k \in [MCSections -> Kinds] : InOrder(k)}

Identity == [s \in MCSections |-> s]

MCLinks ==
  {Link(5, k, z, Identity) : k \in MCKinds, z \in [MCSections -> {1, 2, 3}]}
    \cup {Link(5, k, [s \in MCSections |-> IF k[s] = "anchor" THEN 6 ELSE z[s]], Identity) :
             k \in MCKinds, z \in [MCSections -> {1, 2}]}

(* Links that take the early returns and reach the ends of the address      *)
(* space.                                                                   *)
MCOddLinks ==
  LET kind == [s \in MCSections |-> <<"anchor", "window", "window", "filler", "filler">>[s]]
      size == [s \in MCSections |-> <<2, 4, 3, 2, 2>>[s]]
      base == Link(5, kind, size, Identity)
  IN {[base EXCEPT !.size[2] = a, !.size[4] = b, !.size[5] = c, !.flagsOk[3] = f,
                   !.align[5] = d, !.commands = m, !.kind[5] = k,
                   !.descs = [@ EXCEPT ![2] = w]] :
        a \in {4, 5}, b \in {0, 2, 18}, c \in {2, 8, 30}, f \in BOOLEAN, d \in {1, 2},
        m \in BOOLEAN, k \in {"filler", "other"}, w \in {<<2, 3>>, <<3, 2>>}}
     \cup {[base EXCEPT !.descs = <<<<>>, <<>>, <<>>>>]}

MCInputs == MCLinks \cup MCOddLinks
=============================================================================
