------------------------- MODULE MCRegValueForwarding -------------------------
(* Functions of up to four blocks over three registers.                     *)
EXTENDS RegValueForwarding

MCRegs == {"A", "B", "C"}
MCValues == {0, 1}

Fn(succ, rpo, blocks) == [entry |-> 1, succ |-> succ, rpo |-> rpo, code |-> blocks]

(* A loop; a loop with two ways through it; a loop in a loop.               *)
Loop == <<<<2>>, <<2, 3>>, <<>>>>
Diamond == <<<<2>>, <<3, 4>>, <<4>>, <<2>>>>
Nested == <<<<2>>, <<3>>, <<3, 4>>, <<2>>>>

Some == {<<Mov("A", "B")>>, <<Mov("B", "A")>>, <<Mov("C", "B")>>, <<Mvi("A", 1)>>, <<Mvi("B", 0)>>,
         <<Other({"A", "B"})>>, <<Other({"C"})>>}
Rare == {<<>>, <<Patched("B")>>, <<Plain("keep"), Mov("B", "A")>>, <<Plain("asm")>>}
Starts == {<<Mov("A", "B"), Mov("C", "A")>>, <<Mvi("A", 1), Mvi("B", 1)>>}

MCFunctions ==
  {Fn(Loop, <<1, 2, 3>>, <<e, x \o y, z>>) : e \in Starts, x, y \in Some \cup Rare, z \in Some}
    \cup {Fn(g, <<1, 2, 3, 4>>, <<e, x, y, z>>) :
            g \in {Diamond, Nested}, e \in Starts, x \in Some \cup Rare, y, z \in Some}
=============================================================================
