----------------------------- MODULE PackedSections -----------------------------
(***************************************************************************)
(* lld's layout of the V6CLANG packed BSS arena, the output section         *)
(* .bss.pack.  Its input sections are anchors, which start on a page,       *)
(* windows, which lie within a page, and fillers.  Anchors are placed       *)
(* first and leave holes; windows, then fillers, larger ones first, go into *)
(* the smallest hole that takes them or to the end.  The linker assigns     *)
(* addresses several times before it writes anything, each time with the    *)
(* address at which .bss.pack now starts, and every pass reorders the       *)
(* section lists that the next one reads.                                   *)
(***************************************************************************)
EXTENDS Integers, Sequences, SequencesExt

CONSTANTS
  Sections,    \* input sections the linker script puts in .bss.pack
  PageSize,
  AddrLimit,   \* 0x10000: one past the last address of the 8080
  MaxAddr,     \* 2^64 - 1: the largest uint64_t
  Starts,      \* the addresses at which a run lets .bss.pack start
  MaxPasses,   \* bound: address assignment passes
  Inputs       \* the links a run considers

ASSUME BoundsAssumption ==
  /\ PageSize \in Nat \ {0}
  /\ MaxAddr \in Nat
  /\ AddrLimit \in 0..MaxAddr
  /\ Starts \subseteq 0..MaxAddr
  /\ MaxPasses \in Nat

ASSUME InputsAssumption ==
  \A l \in Inputs : /\ l.kind \in [Sections -> {"anchor", "window", "filler", "other"}]
                    /\ l.size \in [Sections -> Nat]
                    /\ l.align \in [Sections -> Nat \ {0}]
                    /\ l.order \in [Sections -> Nat]
                    /\ l.descs \in Seq(Seq(Sections))
                    /\ IsInjective(FlattenSeq(l.descs))

VARIABLES
  input,       \* the link: what the linker knows of each section
  descs,       \* the input section descriptions of .bss.pack, each a sequence of sections
  pc,
  passes,
  start,       \* startAddr
  blocks,      \* the sections that take part in this layout
  todo,        \* those of them without an address yet
  addr,        \* V6ClangPackBlock::addr
  holes,
  cursor,
  endAddr,
  result,      \* V6ClangPackResult of the last layout
  outSecOff,   \* InputSection::outSecOff
  laidOut,     \* the start address outSecOff was computed for, -1 before the first layout
  failed       \* error() has been called: the link produces no output

layoutVars == <<start, blocks, todo, addr, holes, cursor>>
vars == <<input, descs, pc, passes, layoutVars, endAddr, result, outSecOff, laidOut, failed>>

Kinds == {"anchor", "window", "filler"}

Init ==
  /\ input \in Inputs
  /\ descs = input.descs
  /\ pc = "idle"
  /\ passes = 0
  /\ start = 0
  /\ blocks = {}
  /\ todo = {}
  /\ addr = [s \in Sections |-> 0]
  /\ holes = {}
  /\ cursor = 0
  /\ endAddr = 0
  /\ result = "none"
  /\ outSecOff = [s \in Sections |-> 0]
  /\ laidOut = -1
  /\ failed = FALSE

-----------------------------------------------------------------------------
CanAdd(a, b) == b <= MaxAddr - a
CanAlign(a) == CanAdd(a, PageSize - 1)
AlignToPage(a) == (a + PageSize - 1) - ((a + PageSize - 1) % PageSize)

FitsWindow(a, size) == size <= PageSize /\ (a % PageSize) + size <= PageSize

Size(s) == input.size[s]
Kind(s) == input.kind[s]
IsWindow(s) == Kind(s) = "window"

HoleSetLarge(b, e) == IF b + 1 < e THEN {[begin |-> b, end |-> e]} ELSE {}   \* mutant
HoleSet(b, e) == IF b < e THEN {[begin |-> b, end |-> e]} ELSE {}

(* What validateSection accepts; flagsOk stands for the ELF type, the flags *)
(* and the absence of relocations.                                          *)
ValidSection(s) ==
  /\ input.flagsOk[s]
  /\ input.align[s] = 1
  /\ Size(s) # 0
  /\ IsWindow(s) => Size(s) <= PageSize

Secs == FlattenSeq(descs)
MembersFirst == {s \in Sections : \E j \in DOMAIN descs[1] : descs[1][j] = s}   \* mutant
Members == {s \in Sections : \E i \in DOMAIN descs : \E j \in DOMAIN descs[i] : descs[i][j] = s}
Recognized(s) == Kind(s) \in Kinds
NormalLayout == input.commands \/ Members = {} \/ \E s \in Members : ~Recognized(s)

(* The sections are validated in order, up to the first unrecognized one.   *)
InvalidSeen ==
  /\ ~input.commands
  /\ \E i \in DOMAIN Secs : /\ ~ValidSection(Secs[i])
                            /\ \A j \in 1..i : Recognized(Secs[j])

(* LinkerScript::assignOffsets(.bss.pack), with dot at the section's start. *)
StartPass ==
  /\ pc = "idle"
  /\ passes < MaxPasses
  /\ start' \in Starts
  /\ passes' = passes + 1
  /\ pc' = "classify"
  /\ UNCHANGED <<input, descs, blocks, todo, addr, holes, cursor, endAddr, result,
                 outSecOff, laidOut, failed>>

(* A linker-script command or a section of another name in .bss.pack: the   *)
(* generic layout, in the order of the lists and at each one's alignment.   *)
AssignNormally ==
  /\ pc = "classify"
  /\ NormalLayout
  /\ failed' = (failed \/ InvalidSeen)
  /\ LET align(a, n) == a + ((n - (a % n)) % n)
         end[i \in 0..Len(Secs)] ==
           IF i = 0 THEN start ELSE align(end[i - 1], input.align[Secs[i]]) + Size(Secs[i])
     IN /\ outSecOff' = [s \in Sections |->
             IF s \in Members
             THEN LET i == CHOOSE i \in DOMAIN Secs : Secs[i] = s
                  IN align(end[i - 1], input.align[s]) - start
             ELSE outSecOff[s]]
        /\ endAddr' = end[Len(Secs)]
  /\ pc' = "idle"
  /\ UNCHANGED <<input, descs, passes, layoutVars, result, laidOut>>

(* An invalid section was reported: the section is left empty.              *)
GiveUp ==
  /\ pc = "classify"
  /\ ~NormalLayout
  /\ InvalidSeen
  /\ failed' = TRUE
  /\ endAddr' = start
  /\ pc' = "idle"
  /\ UNCHANGED <<input, descs, passes, layoutVars, result, outSecOff, laidOut>>

(* assignV6ClangPackedBlockAddresses starts: its checks, its empty holes    *)
(* and its cursor.                                                          *)
BadBlock(s) == Size(s) = 0 \/ (IsWindow(s) /\ Size(s) > PageSize)
Rejected == start > AddrLimit \/ \E s \in Members : BadBlock(s)

RejectBlocks ==
  /\ pc = "classify"
  /\ ~NormalLayout /\ ~InvalidSeen
  /\ Rejected
  /\ result' = IF start > AddrLimit THEN "AddressSpaceOverflow" ELSE "InvalidBlock"
  /\ failed' = TRUE
  /\ endAddr' = start
  /\ pc' = "idle"
  /\ UNCHANGED <<input, descs, passes, layoutVars, outSecOff, laidOut>>

StartLayout ==
  /\ pc = "classify"
  /\ ~NormalLayout /\ ~InvalidSeen
  /\ ~Rejected
  /\ blocks' = Members
  /\ todo' = Members
  /\ addr' = [s \in Sections |-> 0]
  /\ holes' = {}
  /\ cursor' = start
  /\ endAddr' = start
  /\ pc' = "place"
  /\ UNCHANGED <<input, descs, passes, start, result, outSecOff, laidOut, failed>>

-----------------------------------------------------------------------------
(* Placement.  The three lists are sorted by size, the larger first, and    *)
(* then by the order in which the linker read the sections.                 *)
Rank(k) == CASE k = "anchor" -> 1 [] k = "window" -> 2 [] OTHER -> 3

(* Mutant: equals stay in the order of the lists.                           *)
PrecedesInList(s, t) ==
  LET at(x) == CHOOSE i \in DOMAIN Secs : Secs[i] = x IN
  \/ Rank(Kind(s)) < Rank(Kind(t))
  \/ /\ Rank(Kind(s)) = Rank(Kind(t))
     /\ Size(s) > Size(t) \/ (Size(s) = Size(t) /\ at(s) < at(t))

Precedes(s, t) ==
  \/ Rank(Kind(s)) < Rank(Kind(t))
  \/ /\ Rank(Kind(s)) = Rank(Kind(t))
     /\ \/ Size(s) > Size(t)
        \/ Size(s) = Size(t) /\ input.order[s] < input.order[t]

IsNext(s) == s \in todo /\ \A t \in todo \ {s} : Precedes(s, t)

Place(s, a) ==
  /\ addr' = [addr EXCEPT ![s] = a]
  /\ todo' = todo \ {s}

NeedsPageIfLarge(s, a) == IsWindow(s) /\ Size(s) >= PageSize   \* mutant
NeedsPage(s, a) == IsWindow(s) /\ ~FitsWindow(a, Size(s))

(* Where in a hole the block would start, and whether it fits there.        *)
AddrIn(h, s) == IF NeedsPage(s, h.begin) THEN AlignToPage(h.begin) ELSE h.begin
Takes(h, s) ==
  /\ NeedsPage(s, h.begin) => CanAlign(h.begin)
  /\ AddrIn(h, s) <= h.end
  /\ Size(s) <= h.end - AddrIn(h, s)

(* The smallest hole that takes s, the lowest among equals.                 *)
BestHole(s, h) ==
  /\ h \in holes
  /\ Takes(h, s)
  /\ \A g \in holes : Takes(g, s) =>
       \/ h.end - h.begin < g.end - g.begin
       \/ h.end - h.begin = g.end - g.begin /\ h.begin <= g.begin

Placing(s) == pc = "place" /\ IsNext(s)

(* The next page, the gap before it a hole, and the anchor there.           *)
PlaceAnchor ==
  \E s \in todo :
    LET a == AlignToPage(cursor) IN
    /\ Placing(s)
    /\ Kind(s) = "anchor"
    /\ CanAlign(cursor) /\ CanAdd(a, Size(s))
    /\ Place(s, a)
    /\ holes' = holes \cup HoleSet(cursor, a)
    /\ cursor' = a + Size(s)
    /\ UNCHANGED <<input, descs, pc, passes, start, blocks, endAddr, result, outSecOff,
                   laidOut, failed>>

(* Mutant: the hole that was used stays in the list.                        *)
PlaceInBestHoleKept ==
  \E s \in todo, h \in holes :
    LET a == AddrIn(h, s) IN
    /\ Placing(s)
    /\ Kind(s) # "anchor"
    /\ BestHole(s, h)
    /\ Place(s, a)
    /\ holes' = holes \cup HoleSet(h.begin, a) \cup HoleSet(a + Size(s), h.end)
    /\ UNCHANGED <<input, descs, pc, passes, start, blocks, cursor, endAddr, result,
                   outSecOff, laidOut, failed>>

(* placeInBestHole: what is left of the hole on either side stays a hole.   *)
PlaceInBestHole ==
  \E s \in todo, h \in holes :
    LET a == AddrIn(h, s) IN
    /\ Placing(s)
    /\ Kind(s) # "anchor"
    /\ BestHole(s, h)
    /\ Place(s, a)
    /\ holes' = (holes \ {h}) \cup HoleSet(h.begin, a) \cup HoleSet(a + Size(s), h.end)
    /\ UNCHANGED <<input, descs, pc, passes, start, blocks, cursor, endAddr, result,
                   outSecOff, laidOut, failed>>

(* appendBlock: a window that would cross a page goes to the next one.      *)
AppendAddr(s) == IF NeedsPage(s, cursor) THEN AlignToPage(cursor) ELSE cursor

AppendBlock ==
  \E s \in todo :
    LET a == AppendAddr(s) IN
    /\ Placing(s)
    /\ Kind(s) # "anchor"
    /\ \A h \in holes : ~Takes(h, s)
    /\ NeedsPage(s, cursor) => CanAlign(cursor)
    /\ CanAdd(a, Size(s))
    /\ Place(s, a)
    /\ holes' = holes \cup HoleSet(cursor, a)
    /\ cursor' = a + Size(s)
    /\ UNCHANGED <<input, descs, pc, passes, start, blocks, endAddr, result, outSecOff,
                   laidOut, failed>>

(* A uint64_t addition would have wrapped: the layout is abandoned.         *)
Overflow ==
  \E s \in todo :
    LET a == IF Kind(s) = "anchor" THEN AlignToPage(cursor) ELSE AppendAddr(s) IN
    /\ Placing(s)
    /\ Kind(s) # "anchor" => \A h \in holes : ~Takes(h, s)
    /\ \/ (Kind(s) = "anchor" \/ NeedsPage(s, cursor)) /\ ~CanAlign(cursor)
       \/ ~CanAdd(a, Size(s))
    /\ result' = "AddressOverflow"
    /\ failed' = TRUE
    /\ pc' = "idle"
    /\ UNCHANGED <<input, descs, passes, layoutVars, endAddr, outSecOff, laidOut>>

(* The end of the arena, one past its last byte, against the end of memory. *)
FitsMemoryInclusive == cursor - 1 <= AddrLimit   \* mutant
FitsMemory == cursor <= AddrLimit

(* The arena is too large for the 8080.                                     *)
TooLarge ==
  /\ pc = "place"
  /\ todo = {}
  /\ ~FitsMemory
  /\ result' = "AddressSpaceOverflow"
  /\ failed' = TRUE
  /\ pc' = "idle"
  /\ UNCHANGED <<input, descs, passes, layoutVars, endAddr, outSecOff, laidOut>>

(* The order in which the sections are written.                             *)
ComesBefore(s, t) ==
  addr[s] < addr[t] \/ (addr[s] = addr[t] /\ input.order[s] < input.order[t])

(* S as a sequence in that order: at i the section that i - 1 others precede. *)
Before(S, s) == {t \in S : ComesBefore(t, s)}
InAddressOrder(S) ==
  [i \in 1..Cardinality(S) |-> CHOOSE s \in S : Cardinality(Before(S, s)) = i - 1]

(* Success: the offsets, and all the sections, by address, in the first     *)
(* description.                                                             *)
Finish ==
  /\ pc = "place"
  /\ todo = {}
  /\ FitsMemory
  /\ result' = "Success"
  /\ endAddr' = cursor
  /\ outSecOff' = [s \in Sections |-> IF s \in blocks THEN addr[s] - start ELSE outSecOff[s]]
  /\ descs' = [i \in DOMAIN descs |-> IF i = 1 THEN InAddressOrder(blocks) ELSE <<>>]
  /\ laidOut' = start
  /\ pc' = "idle"
  /\ UNCHANGED <<input, passes, layoutVars, failed>>

Next ==
  \/ StartPass \/ AssignNormally \/ GiveUp \/ RejectBlocks \/ StartLayout
  \/ PlaceAnchor \/ PlaceInBestHole \/ AppendBlock \/ Overflow \/ TooLarge \/ Finish

Spec == Init /\ [][Next]_vars

-----------------------------------------------------------------------------

Apart(b, e, c, f) == e <= c \/ f <= b
End(s) == addr[s] + Size(s)
Placed == blocks \ todo

(* While blocks are being placed, no byte belongs to two blocks, to a block *)
(* and a hole, or to two holes, and all lie between start and cursor: a     *)
(* block put in a hole later cannot land on one that is there already.      *)
NoOverlap ==
  pc = "place" =>
    /\ \A s \in Placed : start <= addr[s] /\ End(s) <= cursor
    /\ \A h \in holes : start <= h.begin /\ h.begin < h.end /\ h.end <= cursor
    /\ \A s, t \in Placed : s # t => Apart(addr[s], End(s), addr[t], End(t))
    /\ \A s \in Placed, h \in holes : Apart(addr[s], End(s), h.begin, h.end)
    /\ \A g, h \in holes : g # h => Apart(g.begin, g.end, h.begin, h.end)

(* Every placed anchor starts on a page and every placed window lies within *)
(* one, whichever way it was placed.                                        *)
PageRules ==
  \A s \in Placed :
    /\ Kind(s) = "anchor" => addr[s] % PageSize = 0
    /\ IsWindow(s) => FitsWindow(addr[s], Size(s))

(* No byte between start and cursor is forgotten: it is in a block or in a  *)
(* hole that a later block may still take.                                  *)
NoLostByte ==
  pc = "place" =>
    \A b \in start..(cursor - 1) :
      \/ \E s \in Placed : addr[s] <= b /\ b < End(s)
      \/ \E h \in holes : h.begin <= b /\ b < h.end

(* The sections that come out of a pass are the ones that went in, each     *)
(* once, whatever the lists were turned into.                               *)
SameSections ==
  LET given == FlattenSeq(input.descs) IN
  Len(Secs) = Len(given) /\ Range(Secs) = Range(given)

(* What the link writes: the layout finds no block invalid that             *)
(* validateSection has let through, and when the last pass laid the arena out and no error *)
(* was reported, the sections of the first description follow one another   *)
(* without overlap, at legal addresses, and end at endAddr, within the      *)
(* 8080's memory.                                                           *)
OutputLegal ==
  /\ result # "InvalidBlock"
  /\ (pc = "idle" /\ ~failed /\ result = "Success") =>
    LET at(i) == laidOut + outSecOff[Secs[i]] IN
    /\ endAddr <= AddrLimit
    /\ \A i \in DOMAIN Secs :
         /\ at(i) + Size(Secs[i]) <= (IF i < Len(Secs) THEN at(i + 1) ELSE endAddr)
         /\ Kind(Secs[i]) = "anchor" => at(i) % PageSize = 0
         /\ IsWindow(Secs[i]) => FitsWindow(at(i), Size(Secs[i]))

(* A pass that finds .bss.pack where the last layout found it changes       *)
(* nothing: the linker's passes converge.                                   *)
Repeatable ==
  [][(Finish /\ laidOut = start) => UNCHANGED <<descs, outSecOff>>]_vars
=============================================================================
