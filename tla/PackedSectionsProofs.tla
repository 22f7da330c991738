-------------------------- MODULE PackedSectionsProofs --------------------------
(***************************************************************************)
(* The packed BSS layout is correct for every page size, every set of       *)
(* sections and every start address: blocks and holes always tile what has  *)
(* been given out, anchors and windows respect their pages, what is written *)
(* is legal and complete, and passes from one start address agree.          *)
(***************************************************************************)
EXTENDS PackedSections, FiniteSetTheorems, SequenceTheorems, WellFoundedInduction, TLAPS

(* Rounding up to a page: the next multiple of the page size.               *)
LEMMA AlignFacts ==
  ASSUME NEW a \in Nat
  PROVE  /\ AlignToPage(a) \in Nat
         /\ a <= AlignToPage(a)
         /\ AlignToPage(a) < a + PageSize
         /\ AlignToPage(a) % PageSize = 0
<1>. DEFINE x == a + PageSize - 1
            q == x \div PageSize
            r == x % PageSize
<1>1. PageSize \in Nat /\ PageSize > 0 /\ x \in Nat
  BY BoundsAssumption DEF BoundsAssumption
<1>2. q \in Int /\ r \in 0..PageSize - 1 /\ x = PageSize * q + r
  BY <1>1
<1>3. AlignToPage(a) = x - r
  BY DEF AlignToPage
<1>4. x - r = PageSize * q
  <2>. HIDE DEF x, q, r
  <2>. QED
    BY <1>1, <1>2
<1>5. (PageSize * q) % PageSize = 0
  <2>. HIDE DEF q
  <2>. QED
    BY <1>1, <1>2
<1>6. x - r >= a /\ x - r < a + PageSize /\ x - r \in Nat
  <2>. HIDE DEF q, r
  <2>. QED
    BY <1>1, <1>2
<1>. QED
  BY <1>3, <1>4, <1>5, <1>6
-----------------------------------------------------------------------------
(* The inductive invariant: the types of what the placement reads, what the *)
(* checks before it established of its blocks, and the three properties,    *)
(* which need one another.                                                  *)
LayoutType ==
  /\ input \in Inputs
  /\ pc \in {"idle", "classify", "place"}
  /\ start \in 0..MaxAddr
  /\ blocks \subseteq Sections
  /\ todo \subseteq blocks
  /\ addr \in [Sections -> 0..MaxAddr]
  /\ holes \subseteq [begin : 0..MaxAddr, end : 0..MaxAddr]
  /\ cursor \in 0..MaxAddr
  /\ pc = "place" =>
       /\ start <= cursor
       /\ \A s \in blocks : Size(s) > 0 /\ Kind(s) \in Kinds /\ (IsWindow(s) => Size(s) <= PageSize)

LayoutInv == LayoutType /\ NoOverlap /\ PageRules /\ NoLostByte

LEMMA InputFacts ==
  ASSUME input \in Inputs
  PROVE  \A s \in Sections : Size(s) \in Nat
BY InputsAssumption DEF Size

LEMMA LayoutInitInv == Init => LayoutInv
<1>. SUFFICES ASSUME Init PROVE LayoutInv
  OBVIOUS
<1>1. LayoutType
  BY BoundsAssumption DEF BoundsAssumption, Init, LayoutType
<1>2. NoOverlap /\ PageRules /\ NoLostByte
  BY DEF Init, NoOverlap, PageRules, Placed, NoLostByte
<1>. QED
  BY <1>1, <1>2 DEF LayoutInv

(* What a block rules out at an address, and what the three ways of placing *)
(* it have in common.                                                       *)
RuleAt(s, a) ==
  /\ Kind(s) = "anchor" => a % PageSize = 0
  /\ IsWindow(s) => FitsWindow(a, Size(s))

PlacedAt(s, a) ==
  /\ pc = "place" /\ s \in todo
  /\ a \in 0..MaxAddr
  /\ RuleAt(s, a)
  /\ Place(s, a)
  /\ UNCHANGED <<input, pc, start, blocks>>

LEMMA PlacedFacts ==
  ASSUME LayoutInv, NEW s, NEW a, PlacedAt(s, a)
  PROVE  /\ s \in Sections /\ s \notin Placed /\ Placed' = Placed \cup {s}
         /\ addr'[s] = a /\ End(s)' = a + Size(s) /\ Size(s) \in Nat /\ Size(s) > 0
         /\ \A t \in Placed : /\ t \in Sections /\ t # s
                               /\ addr'[t] = addr[t] /\ End(t)' = End(t)
                               /\ addr[t] \in Nat /\ Size(t) \in Nat /\ Size(t) > 0
                               /\ End(t) \in Nat /\ addr[t] < End(t)
         /\ PageRules'
         /\ start \in Nat /\ cursor \in Nat /\ start <= cursor
<1>1. /\ s \in todo /\ s \in blocks /\ s \in Sections
      /\ addr \in [Sections -> 0..MaxAddr]
      /\ addr' = [addr EXCEPT ![s] = a] /\ todo' = todo \ {s}
      /\ blocks' = blocks /\ input' = input /\ pc = "place"
      /\ MaxAddr \in Nat
      /\ start \in Nat /\ cursor \in Nat /\ start <= cursor
  BY BoundsAssumption DEF BoundsAssumption, LayoutInv, LayoutType, PlacedAt, Place
<1>2. \A t \in blocks : t \in Sections /\ Size(t) \in Nat /\ Size(t) > 0 /\ Size(t)' = Size(t)
  BY <1>1, InputFacts DEF LayoutInv, LayoutType, Size
<1>3. Placed' = Placed \cup {s} /\ s \notin Placed /\ \A t \in Placed : t \in blocks /\ t # s
  BY <1>1 DEF Placed
<1>4. addr'[s] = a /\ \A t \in Placed : addr'[t] = addr[t] /\ addr[t] \in Nat
  BY <1>1, <1>2, <1>3
<1>5. /\ End(s)' = a + Size(s)
      /\ \A t \in Placed : End(t)' = End(t) /\ End(t) \in Nat /\ addr[t] < End(t)
  BY <1>1, <1>2, <1>3, <1>4 DEF End
<1>6. PageRules'
  <2>1. \A t \in Placed \cup {s} :
          /\ Kind(t)' = Kind(t) /\ (IsWindow(t)' <=> IsWindow(t)) /\ Size(t)' = Size(t)
    BY <1>1, <1>2, <1>3 DEF Kind, IsWindow
  <2>2. RuleAt(s, a)
    BY DEF PlacedAt
  <2>3. \A t \in Placed : RuleAt(t, addr[t])
    BY DEF LayoutInv, PageRules, RuleAt
  <2>. QED
    BY <1>3, <1>4, <2>1, <2>2, <2>3 DEF PageRules, RuleAt, FitsWindow
<1>. QED
  BY <1>1, <1>2, <1>3, <1>4, <1>5, <1>6

LEMMA LayoutTypeKept ==
  ASSUME LayoutInv, NEW s, NEW a, PlacedAt(s, a),
         cursor' \in 0..MaxAddr, cursor <= cursor',
         holes' \subseteq [begin : 0..MaxAddr, end : 0..MaxAddr]
  PROVE  LayoutType'
<1>1. /\ addr' \in [Sections -> 0..MaxAddr] /\ todo' \subseteq blocks'
      /\ UNCHANGED <<input, pc, start, blocks>>
  BY DEF LayoutInv, LayoutType, PlacedAt, Place
<1>2. start \in Nat /\ cursor \in Nat /\ start <= cursor
  BY PlacedFacts
<1>3. MaxAddr \in Nat
  BY BoundsAssumption DEF BoundsAssumption
<1>4. start <= cursor'
  BY <1>2, <1>3
<1>. QED
  BY <1>1, <1>4 DEF LayoutInv, LayoutType, PlacedAt, Size, Kind, IsWindow

(* A block put behind everything else, the gap before it made a hole.       *)
LEMMA PutAtEnd ==
  ASSUME LayoutInv, NEW s, NEW a, PlacedAt(s, a),
         cursor <= a, a + Size(s) <= MaxAddr,
         holes' = holes \cup HoleSet(cursor, a), cursor' = a + Size(s)
  PROVE  LayoutInv'
<1>. USE PlacedFacts
<1>a. MaxAddr \in Nat /\ a \in Nat /\ pc = "place" /\ pc' = "place" /\ start' = start
  BY BoundsAssumption DEF BoundsAssumption, PlacedAt
<1>b. \A h \in holes : h.begin \in Nat /\ h.end \in Nat /\ h \in [begin : 0..MaxAddr, end : 0..MaxAddr]
  BY <1>a DEF LayoutInv, LayoutType
<1>c. /\ \A t \in Placed : start <= addr[t] /\ End(t) <= cursor
      /\ \A h \in holes : start <= h.begin /\ h.begin < h.end /\ h.end <= cursor
  BY <1>a DEF LayoutInv, NoOverlap
<1>d. \A h \in HoleSet(cursor, a) : h = [begin |-> cursor, end |-> a] /\ h.begin = cursor /\ h.end = a /\ cursor < a
  BY DEF HoleSet
<1>e. \A h \in holes' : h \in holes \/ (h = [begin |-> cursor, end |-> a] /\ h.begin = cursor /\ h.end = a /\ cursor < a)
  BY <1>d
<1>1. LayoutType'
  <2>1. HoleSet(cursor, a) \subseteq [begin : 0..MaxAddr, end : 0..MaxAddr]
    BY <1>a DEF HoleSet, LayoutInv, LayoutType, PlacedAt
  <2>2. holes' \subseteq [begin : 0..MaxAddr, end : 0..MaxAddr]
    BY <2>1 DEF LayoutInv, LayoutType
  <2>3. cursor' \in 0..MaxAddr /\ cursor <= cursor'
    BY <1>a
  <2>. QED
    BY <2>2, <2>3, LayoutTypeKept
<1>2. NoOverlap'
  <2>1. \A t \in Placed' : start <= addr'[t] /\ End(t)' <= cursor'
    <3>1. \A t \in Placed : start <= addr[t] /\ End(t) <= a + Size(s)
      BY <1>a, <1>c
    <3>. QED
      BY <1>a, <3>1
  <2>2. \A h \in holes' : start <= h.begin /\ h.begin < h.end /\ h.end <= cursor'
    BY <1>a, <1>b, <1>c, <1>e
  <2>3. \A t, u \in Placed' : t # u => Apart(addr'[t], End(t)', addr'[u], End(u)')
    <3>1. \A t, u \in Placed : t # u => Apart(addr[t], End(t), addr[u], End(u))
      BY <1>a DEF LayoutInv, NoOverlap
    <3>2. \A t \in Placed : End(t) <= a
      BY <1>a, <1>c
    <3>. QED
      BY <3>1, <3>2 DEF Apart
  <2>4. \A t \in Placed', h \in holes' : Apart(addr'[t], End(t)', h.begin, h.end)
    <3>1. \A t \in Placed, h \in holes : Apart(addr[t], End(t), h.begin, h.end)
      BY <1>a DEF LayoutInv, NoOverlap
    <3>2. \A h \in holes' : h.end <= a
      BY <1>a, <1>b, <1>c, <1>e
    <3>. QED
      BY <1>c, <1>e, <3>1, <3>2 DEF Apart
  <2>5. \A g, h \in holes' : g # h => Apart(g.begin, g.end, h.begin, h.end)
    <3>1. \A g, h \in holes : g # h => Apart(g.begin, g.end, h.begin, h.end)
      BY <1>a DEF LayoutInv, NoOverlap
    <3>. QED
      BY <1>c, <1>e, <3>1 DEF Apart
  <2>. QED
    BY <1>a, <2>1, <2>2, <2>3, <2>4, <2>5 DEF NoOverlap, Apart
<1>3. NoLostByte'
  <2>1. ASSUME NEW b \in start..(cursor' - 1)
        PROVE  \/ \E t \in Placed' : addr'[t] <= b /\ b < End(t)'
               \/ \E h \in holes' : h.begin <= b /\ b < h.end
    <3>1. CASE b < cursor
      <4>1. b \in start..(cursor - 1)
        BY <1>a, <3>1
      <4>2. \/ \E t \in Placed : addr[t] <= b /\ b < End(t)
            \/ \E h \in holes : h.begin <= b /\ b < h.end
        BY <1>a, <4>1 DEF LayoutInv, NoLostByte
      <4>. QED
        BY <4>2
    <3>2. CASE cursor <= b /\ b < a
      <4>1. [begin |-> cursor, end |-> a] \in HoleSet(cursor, a)
        BY <1>a, <3>2 DEF HoleSet
      <4>. QED
        BY <3>2, <4>1
    <3>3. CASE a <= b
      BY <1>a, <3>3
    <3>. QED
      BY <1>a, <3>1, <3>2, <3>3
  <2>. QED
    BY <1>a, <2>1 DEF NoLostByte
<1>. QED
  BY <1>1, <1>2, <1>3 DEF LayoutInv

(* A block put in a hole, which leaves what is before and behind it.        *)
LEMMA PutInHole ==
  ASSUME LayoutInv, NEW s, NEW a, PlacedAt(s, a), NEW h \in holes,
         h.begin <= a, a + Size(s) <= h.end,
         holes' = (holes \ {h}) \cup HoleSet(h.begin, a) \cup HoleSet(a + Size(s), h.end),
         cursor' = cursor
  PROVE  LayoutInv'
<1>. USE PlacedFacts
<1>. DEFINE e == a + Size(s)
<1>a. MaxAddr \in Nat /\ a \in Nat /\ e \in Nat /\ a < e /\ pc = "place" /\ pc' = "place" /\ start' = start
  BY BoundsAssumption DEF BoundsAssumption, PlacedAt
<1>b. \A g \in holes : g.begin \in Nat /\ g.end \in Nat /\ g.end <= MaxAddr
  BY <1>a DEF LayoutInv, LayoutType
<1>c. /\ \A t \in Placed : start <= addr[t] /\ End(t) <= cursor
      /\ \A g \in holes : start <= g.begin /\ g.begin < g.end /\ g.end <= cursor
      /\ \A t, u \in Placed : t # u => Apart(addr[t], End(t), addr[u], End(u))
      /\ \A t \in Placed, g \in holes : Apart(addr[t], End(t), g.begin, g.end)
      /\ \A f, g \in holes : f # g => Apart(f.begin, f.end, g.begin, g.end)
  BY <1>a DEF LayoutInv, NoOverlap
<1>e. \A g \in holes' :
        \/ g \in holes /\ g # h
        \/ g = [begin |-> h.begin, end |-> a] /\ g.begin = h.begin /\ g.end = a /\ h.begin < a
        \/ g = [begin |-> e, end |-> h.end] /\ g.begin = e /\ g.end = h.end /\ e < h.end
  BY DEF HoleSet
<1>. HIDE DEF e
<1>f. h.begin <= a /\ e <= h.end /\ h.begin \in Nat /\ h.end \in Nat /\ End(s)' = e
  BY <1>b DEF e
<1>g. \A g \in holes' : g.begin \in Nat /\ g.end \in Nat
  BY <1>a, <1>b, <1>e, <1>f
<1>1. LayoutType'
  <2>1. \A g \in holes' : g \in [begin : 0..MaxAddr, end : 0..MaxAddr]
    <3>1. \A g \in holes : g \in [begin : 0..MaxAddr, end : 0..MaxAddr]
      BY DEF LayoutInv, LayoutType
    <3>2. /\ [begin |-> h.begin, end |-> a] \in [begin : 0..MaxAddr, end : 0..MaxAddr]
          /\ [begin |-> e, end |-> h.end] \in [begin : 0..MaxAddr, end : 0..MaxAddr]
      BY <1>a, <1>b, <1>f
    <3>. QED
      BY <1>e, <3>1, <3>2
  <2>2. cursor' \in 0..MaxAddr /\ cursor <= cursor'
    BY <1>a DEF LayoutInv, LayoutType
  <2>. QED
    BY <2>1, <2>2, LayoutTypeKept
<1>2. NoOverlap'
  <2>1. \A t \in Placed' : start <= addr'[t] /\ End(t)' <= cursor'
    <3>1. start <= a /\ e <= cursor
      BY <1>a, <1>c, <1>f
    <3>. QED
      BY <1>c, <1>f, <3>1
  <2>2. \A g \in holes' : start <= g.begin /\ g.begin < g.end /\ g.end <= cursor'
    <3>1. start <= h.begin /\ start <= e /\ a <= cursor /\ h.end <= cursor
      BY <1>a, <1>c, <1>f
    <3>. QED
      BY <1>c, <1>e, <3>1
  <2>3. \A t, u \in Placed' : t # u => Apart(addr'[t], End(t)', addr'[u], End(u)')
    <3>1. \A t \in Placed : End(t) <= a \/ e <= addr[t]
      BY <1>a, <1>c, <1>f DEF Apart
    <3>. QED
      BY <1>c, <1>f, <3>1 DEF Apart
  <2>4. \A t \in Placed', g \in holes' : Apart(addr'[t], End(t)', g.begin, g.end)
    <3>1. ASSUME NEW t \in Placed, NEW g \in holes'
          PROVE  Apart(addr[t], End(t), g.begin, g.end)
      <4>1. Apart(addr[t], End(t), h.begin, h.end)
        BY <1>c
      <4>. QED
        BY <1>a, <1>c, <1>e, <1>f, <4>1 DEF Apart
    <3>2. ASSUME NEW g \in holes'
          PROVE  Apart(a, e, g.begin, g.end)
      <4>1. g \in holes /\ g # h => Apart(g.begin, g.end, h.begin, h.end)
        BY <1>c
      <4>. QED
        BY <1>a, <1>b, <1>e, <1>f, <4>1 DEF Apart
    <3>. QED
      BY <1>f, <3>1, <3>2
  <2>5. \A f, g \in holes' : f # g => Apart(f.begin, f.end, g.begin, g.end)
    <3>1. ASSUME NEW f \in holes', NEW g \in holes', f # g
          PROVE  Apart(f.begin, f.end, g.begin, g.end)
      <4>1. /\ f \in holes /\ f # h => Apart(f.begin, f.end, h.begin, h.end)
            /\ g \in holes /\ g # h => Apart(g.begin, g.end, h.begin, h.end)
            /\ f \in holes /\ g \in holes => Apart(f.begin, f.end, g.begin, g.end)
        BY <1>c, <3>1
      <4>. QED
        BY <1>a, <1>b, <1>e, <1>f, <1>g, <3>1, <4>1 DEF Apart
    <3>. QED
      BY <3>1
  <2>. QED
    BY <1>a, <2>1, <2>2, <2>3, <2>4, <2>5 DEF NoOverlap, Apart
<1>3. NoLostByte'
  <2>1. ASSUME NEW b \in start..(cursor - 1)
        PROVE  \/ \E t \in Placed' : addr'[t] <= b /\ b < End(t)'
               \/ \E g \in holes' : g.begin <= b /\ b < g.end
    <3>1. \/ \E t \in Placed : addr[t] <= b /\ b < End(t)
          \/ \E g \in holes : g.begin <= b /\ b < g.end
      BY <1>a DEF LayoutInv, NoLostByte
    <3>2. CASE h.begin <= b /\ b < h.end
      <4>1. CASE b < a
        <5>1. [begin |-> h.begin, end |-> a] \in HoleSet(h.begin, a)
          BY <1>a, <1>f, <3>2, <4>1 DEF HoleSet
        <5>. QED
          BY <3>2, <4>1, <5>1
      <4>2. CASE a <= b /\ b < e
        BY <1>f, <4>2
      <4>3. CASE e <= b
        <5>1. [begin |-> e, end |-> h.end] \in HoleSet(e, h.end)
          BY <1>a, <1>f, <3>2, <4>3 DEF HoleSet
        <5>. QED
          BY <3>2, <4>3, <5>1 DEF e
      <4>. QED
        BY <1>a, <4>1, <4>2, <4>3
    <3>. QED
      BY <3>1, <3>2
  <2>. QED
    BY <1>a, <2>1 DEF NoLostByte
<1>. QED
  BY <1>1, <1>2, <1>3 DEF LayoutInv
(* A window that crosses a page where it is fits at the next page.          *)
LEMMA AlignedFits ==
  ASSUME NEW a \in Nat, NEW n \in Nat, n <= PageSize
  PROVE  FitsWindow(AlignToPage(a), n)
BY AlignFacts DEF FitsWindow

LEMMA LayoutNextInv ==
  ASSUME LayoutInv, [Next]_vars
  PROVE  LayoutInv'
<1>a. /\ input \in Inputs /\ cursor \in Nat /\ MaxAddr \in Nat
      /\ addr \in [Sections -> 0..MaxAddr] /\ todo \subseteq blocks /\ blocks \subseteq Sections
  BY BoundsAssumption DEF BoundsAssumption, LayoutInv, LayoutType
<1>b. \A s \in todo : pc = "place" =>
        /\ s \in Sections /\ Size(s) \in Nat /\ Size(s) > 0 /\ Kind(s) \in Kinds
        /\ IsWindow(s) => Size(s) <= PageSize
  BY <1>a, InputFacts DEF LayoutInv, LayoutType
<1>1. CASE PlaceAnchor
  <2>1. PICK s \in todo :
          /\ pc = "place" /\ Kind(s) = "anchor"
          /\ CanAdd(AlignToPage(cursor), Size(s))
          /\ Place(s, AlignToPage(cursor))
          /\ holes' = holes \cup HoleSet(cursor, AlignToPage(cursor))
          /\ cursor' = AlignToPage(cursor) + Size(s)
          /\ UNCHANGED <<input, pc, start, blocks>>
    BY <1>1 DEF PlaceAnchor, Placing
  <2>. DEFINE a == AlignToPage(cursor)
  <2>2. a \in Nat /\ cursor <= a /\ a % PageSize = 0
    BY <1>a, AlignFacts
  <2>3. a + Size(s) <= MaxAddr /\ a \in 0..MaxAddr
    BY <1>a, <1>b, <2>1, <2>2 DEF CanAdd
  <2>4. RuleAt(s, a)
    BY <2>1, <2>2 DEF RuleAt, IsWindow
  <2>. HIDE DEF a
  <2>5. PlacedAt(s, a)
    BY <2>1, <2>3, <2>4 DEF PlacedAt, a
  <2>. QED
    BY <2>1, <2>2, <2>3, <2>5, PutAtEnd DEF a
<1>2. CASE AppendBlock
  <2>1. PICK s \in todo :
          /\ pc = "place" /\ Kind(s) # "anchor"
          /\ CanAdd(AppendAddr(s), Size(s))
          /\ Place(s, AppendAddr(s))
          /\ holes' = holes \cup HoleSet(cursor, AppendAddr(s))
          /\ cursor' = AppendAddr(s) + Size(s)
          /\ UNCHANGED <<input, pc, start, blocks>>
    BY <1>2 DEF AppendBlock, Placing
  <2>. DEFINE a == AppendAddr(s)
  <2>2. a \in Nat /\ cursor <= a
    BY <1>a, AlignFacts DEF AppendAddr
  <2>3. a + Size(s) <= MaxAddr /\ a \in 0..MaxAddr
    BY <1>a, <1>b, <2>1, <2>2 DEF CanAdd
  <2>4. RuleAt(s, a)
    <3>1. CASE NeedsPage(s, cursor)
      BY <1>a, <1>b, <2>1, <3>1, AlignedFits DEF AppendAddr, RuleAt
    <3>2. CASE ~NeedsPage(s, cursor)
      BY <2>1, <3>2 DEF AppendAddr, NeedsPage, RuleAt
    <3>. QED
      BY <3>1, <3>2
  <2>. HIDE DEF a
  <2>5. PlacedAt(s, a)
    BY <2>1, <2>3, <2>4 DEF PlacedAt, a
  <2>. QED
    BY <2>1, <2>2, <2>3, <2>5, PutAtEnd DEF a
<1>3. CASE PlaceInBestHole
  <2>1. PICK s \in todo, h \in holes :
          /\ pc = "place" /\ Kind(s) # "anchor"
          /\ Takes(h, s)
          /\ Place(s, AddrIn(h, s))
          /\ holes' = (holes \ {h}) \cup HoleSet(h.begin, AddrIn(h, s))
                                    \cup HoleSet(AddrIn(h, s) + Size(s), h.end)
          /\ UNCHANGED <<input, pc, start, blocks, cursor>>
    BY <1>3 DEF PlaceInBestHole, Placing, BestHole
  <2>. DEFINE a == AddrIn(h, s)
  <2>2. h.begin \in 0..MaxAddr /\ h.end \in 0..MaxAddr
    BY DEF LayoutInv, LayoutType
  <2>3. a \in Nat /\ h.begin <= a
    BY <1>a, <2>2, AlignFacts DEF AddrIn
  <2>4. a + Size(s) <= h.end /\ a \in 0..MaxAddr
    BY <1>a, <1>b, <2>1, <2>2, <2>3 DEF Takes
  <2>5. RuleAt(s, a)
    <3>1. CASE NeedsPage(s, h.begin)
      BY <1>a, <1>b, <2>1, <2>2, <3>1, AlignedFits DEF AddrIn, RuleAt
    <3>2. CASE ~NeedsPage(s, h.begin)
      BY <2>1, <3>2 DEF AddrIn, NeedsPage, RuleAt
    <3>. QED
      BY <3>1, <3>2
  <2>. HIDE DEF a
  <2>6. PlacedAt(s, a)
    BY <2>1, <2>4, <2>5 DEF PlacedAt, a
  <2>. QED
    BY <2>1, <2>3, <2>4, <2>6, PutInHole DEF a
<1>4. CASE StartLayout
  <2>1. /\ blocks' = Members /\ todo' = Members /\ addr' = [s \in Sections |-> 0]
        /\ holes' = {} /\ cursor' = start /\ pc' = "place" /\ start' = start /\ input' = input
        /\ \A s \in Members : Recognized(s) /\ ~BadBlock(s)
    BY <1>4 DEF StartLayout, NormalLayout, Rejected
  <2>2. Members \subseteq Sections
    BY DEF Members
  <2>3. start \in 0..MaxAddr
    BY BoundsAssumption DEF BoundsAssumption, LayoutInv, LayoutType
  <2>4. \A s \in Members : /\ Size(s)' > 0 /\ Kind(s)' \in Kinds
                           /\ IsWindow(s)' => Size(s)' <= PageSize
    <3>1. \A s \in Members : Size(s)' = Size(s) /\ Kind(s)' = Kind(s) /\ (IsWindow(s)' <=> IsWindow(s))
      BY <2>1 DEF Size, Kind, IsWindow
    <3>2. PageSize \in Nat /\ \A s \in Members : Size(s) \in Nat
      BY <1>a, <2>2, InputFacts, BoundsAssumption DEF BoundsAssumption
    <3>3. \A s \in Members : Size(s) > 0 /\ Kind(s) \in Kinds /\ (IsWindow(s) => Size(s) <= PageSize)
      BY <2>1, <3>2 DEF Recognized, BadBlock
    <3>. QED
      BY <3>1, <3>3
  <2>5. LayoutType'
    <3>1. addr' \in [Sections -> 0..MaxAddr]
      BY <1>a, <2>1
    <3>2. start' <= cursor'
      BY <2>1, <2>3
    <3>. QED
      BY <1>a, <2>1, <2>2, <2>3, <2>4, <3>1, <3>2 DEF LayoutType
  <2>6. Placed' = {} /\ holes' = {} /\ cursor' = start'
    BY <2>1 DEF Placed
  <2>7. NoOverlap' /\ PageRules'
    BY <2>6 DEF NoOverlap, PageRules
  <2>8. NoLostByte'
    <3>1. start \in Nat /\ start' = start /\ cursor' = start
      BY <1>a, <2>1, <2>3
    <3>2. start..(start - 1) = {}
      BY <3>1
    <3>. QED
      BY <3>1, <3>2 DEF NoLostByte
  <2>. QED
    BY <2>5, <2>7, <2>8 DEF LayoutInv
<1>5. CASE StartPass
  <2>1. /\ pc' = "classify" /\ start' \in 0..MaxAddr
        /\ UNCHANGED <<input, blocks, todo, addr, holes, cursor>>
    BY <1>5, BoundsAssumption DEF BoundsAssumption, StartPass
  <2>2. LayoutType'
    BY <2>1 DEF LayoutInv, LayoutType
  <2>. QED
    BY <2>1, <2>2 DEF LayoutInv, NoOverlap, PageRules, NoLostByte, Placed, Kind, IsWindow, Size
<1>6. ASSUME \/ AssignNormally \/ GiveUp \/ RejectBlocks \/ Overflow \/ TooLarge \/ Finish
             \/ UNCHANGED vars
      PROVE  /\ UNCHANGED <<input, start, blocks, todo, addr, holes, cursor>>
             /\ pc' = "idle" \/ pc' = pc
  BY <1>6 DEF AssignNormally, GiveUp, RejectBlocks, Overflow, TooLarge, Finish, vars, layoutVars
<1>7. ASSUME UNCHANGED <<input, start, blocks, todo, addr, holes, cursor>>,
             pc' = "idle" \/ pc' = pc
      PROVE  LayoutInv'
  <2>1. LayoutType'
    BY <1>7 DEF LayoutInv, LayoutType, Size, Kind, IsWindow
  <2>2. NoOverlap' /\ NoLostByte'
    BY <1>7 DEF LayoutInv, NoOverlap, NoLostByte, Placed, End, Size
  <2>3. PageRules'
    BY <1>7 DEF LayoutInv, PageRules, Placed, Kind, IsWindow, Size
  <2>. QED
    BY <2>1, <2>2, <2>3 DEF LayoutInv
<1>. QED
  BY <1>1, <1>2, <1>3, <1>4, <1>5, <1>6, <1>7 DEF Next

-----------------------------------------------------------------------------
(* Blocks never overlap one another or a hole, for every page size, every   *)
(* set of sections and every sequence of passes (placeInBestHole,           *)
(* appendBlock).                                                            *)
THEOREM BlocksDisjoint == Spec => []NoOverlap
<1>1. LayoutInv => NoOverlap
  BY DEF LayoutInv
<1>. QED
  BY <1>1, LayoutInitInv, LayoutNextInv, PTL DEF Spec

(* Anchors are page-aligned and windows do not cross a page, whether they   *)
(* were put in a hole or at the end.                                        *)
THEOREM PagesRespected == Spec => []PageRules
<1>1. LayoutInv => PageRules
  BY DEF LayoutInv
<1>. QED
  BY <1>1, LayoutInitInv, LayoutNextInv, PTL DEF Spec

(* Every byte given out is in a block or still in a hole.                   *)
THEOREM NothingLost == Spec => []NoLostByte
<1>1. LayoutInv => NoLostByte
  BY DEF LayoutInv
<1>. QED
  BY <1>1, LayoutInitInv, LayoutNextInv, PTL DEF Spec

-----------------------------------------------------------------------------
(* From the placement to what the link writes.  Three facts about the       *)
(* operators come first: least elements, FlattenSeq and InAddressOrder.     *)
(* Induction over the natural numbers, as a statement about sets: what is   *)
(* not empty has a least element.                                           *)
LEMMA LeastElement ==
  ASSUME NEW T, T \subseteq Nat, T # {}
  PROVE  \E n \in T : \A m \in T : n <= m
<1>1. PICK n \in T : \A m \in T : ~(<<m, n>> \in OpToRel(<, Nat))
  BY NatLessThanWellFounded, WFMin
<1>2. \A m \in T : ~(m < n)
  BY <1>1 DEF OpToRel
<1>. QED
  BY <1>2

(* The partial concatenations by which FlattenSeq is defined.               *)
IsFlatten(f, d) == f = [i \in 1..Len(d) |-> IF i = 1 THEN d[i] ELSE f[i - 1] \o d[i]]

LEMMA FlattenExists ==
  ASSUME NEW S, NEW d \in Seq(Seq(S)), Len(d) # 0
  PROVE  \E f \in [1..Len(d) -> Seq(S)] : IsFlatten(f, d) /\ FlattenSeq(d) = f[Len(d)]
<1>. DEFINE n == Len(d)
            Good(m, f) == \A i \in 1..m : f[i] = IF i = 1 THEN d[i] ELSE f[i - 1] \o d[i]
            Bad == {m \in 1..n : ~\E f \in [1..m -> Seq(S)] : Good(m, f)}
<1>1. n \in Nat /\ n \in 1..n /\ \A i \in 1..n : d[i] \in Seq(S)
  OBVIOUS
<1>2. Bad = {}
  <2>. SUFFICES ASSUME Bad # {} PROVE FALSE
    OBVIOUS
  <2>1. PICK m \in Bad : \A l \in Bad : m <= l
    <3>1. Bad \subseteq Nat
      BY <1>1
    <3>. HIDE DEF Bad
    <3>. QED
      BY <3>1, LeastElement
  <2>2. m \in 1..n /\ ~\E f \in [1..m -> Seq(S)] : Good(m, f)
    OBVIOUS
  <2>3. CASE m = 1
    <3>1. [i \in 1..1 |-> d[1]] \in [1..m -> Seq(S)] /\ Good(m, [i \in 1..1 |-> d[1]])
      BY <1>1, <2>3
    <3>. QED
      BY <2>2, <3>1
  <2>4. CASE m # 1
    <3>1. m - 1 \in 1..n /\ m - 1 \notin Bad
      <4>1. m \in 1..n /\ \A l \in Bad : m <= l
        BY <2>1, <2>2
      <4>. HIDE DEF Bad
      <4>. QED
        BY <1>1, <2>4, <4>1
    <3>2. PICK f \in [1..m - 1 -> Seq(S)] : Good(m - 1, f)
      BY <3>1
    <3>. DEFINE g == [i \in 1..m |-> IF i = m THEN f[m - 1] \o d[m] ELSE f[i]]
    <3>3. f[m - 1] \o d[m] \in Seq(S)
      BY <1>1, <2>2, <3>1, <3>2
    <3>4. g \in [1..m -> Seq(S)]
      BY <2>2, <2>4, <3>2, <3>3
    <3>5. Good(m, g)
      <4>1. \A i \in 1..m : i # m => i \in 1..m - 1 /\ (i # 1 => i - 1 \in 1..m - 1)
        BY <2>2, <2>4
      <4>2. m - 1 \in 1..m /\ m - 1 # m /\ m \in 1..m
        BY <2>2, <2>4
      <4>3. \A i \in 1..m : g[i] = IF i = m THEN f[m - 1] \o d[m] ELSE f[i]
        OBVIOUS
      <4>. HIDE DEF g
      <4>4. ASSUME NEW i \in 1..m
            PROVE  g[i] = IF i = 1 THEN d[i] ELSE g[i - 1] \o d[i]
        <5>1. CASE i = m
          BY <2>4, <4>2, <4>3, <5>1
        <5>2. CASE i # m
          <6>1. i # 1 => i - 1 \in 1..m /\ i - 1 # m
            BY <2>2, <4>4, <5>2, <4>1
          <6>2. g[i] = f[i] /\ (i # 1 => g[i - 1] = f[i - 1])
            BY <4>3, <5>2, <6>1
          <6>3. f[i] = IF i = 1 THEN d[i] ELSE f[i - 1] \o d[i]
            BY <3>2, <4>1, <5>2
          <6>. QED
            BY <6>2, <6>3
        <5>. QED
          BY <5>1, <5>2
      <4>. QED
        BY <4>4
    <3>. QED
      BY <2>2, <3>4, <3>5
  <2>. QED
    BY <2>3, <2>4
<1>3. PICK g \in [1..n -> Seq(S)] : Good(n, g)
  BY <1>1, <1>2
<1>4. g = [i \in 1..n |-> IF i = 1 THEN d[i] ELSE g[i - 1] \o d[i]]
  BY <1>3
<1>5. \E f : IsFlatten(f, d) /\ FlattenSeq(d) = f[n]
  BY <1>4 DEF IsFlatten, FlattenSeq
<1>6. PICK f : IsFlatten(f, d) /\ FlattenSeq(d) = f[n]
  BY <1>5
<1>7. f \in [1..n -> Seq(S)]
  <2>. DEFINE Odd == {m \in 1..n : f[m] \notin Seq(S)}
  <2>1. \A i \in 1..n : f[i] = IF i = 1 THEN d[i] ELSE f[i - 1] \o d[i]
    BY <1>6 DEF IsFlatten
  <2>2. Odd = {}
    <3>. SUFFICES ASSUME Odd # {} PROVE FALSE
      OBVIOUS
    <3>0. Odd \subseteq Nat
      BY <1>1
    <3>1. PICK m \in Odd : \A l \in Odd : m <= l
      <4>. HIDE DEF Odd
      <4>. QED
        BY <3>0, LeastElement
    <3>2. m # 1 => m - 1 \in 1..n /\ m - 1 \notin Odd
      <4>1. m \in 1..n /\ \A l \in Odd : m <= l
        BY <3>1
      <4>. HIDE DEF Odd
      <4>. QED
        BY <1>1, <4>1
    <3>3. m # 1 => f[m - 1] \in Seq(S)
      BY <3>2
    <3>4. m \in 1..n /\ f[m] \notin Seq(S) /\ d[m] \in Seq(S)
      BY <1>1
    <3>5. f[m] = IF m = 1 THEN d[m] ELSE f[m - 1] \o d[m]
      BY <2>1, <3>4
    <3>. QED
      BY <3>3, <3>4, <3>5
  <2>3. f = [i \in 1..n |-> f[i]]
    BY <1>6 DEF IsFlatten
  <2>. QED
    BY <2>2, <2>3
<1>. QED
  BY <1>6, <1>7

(* FlattenSeq keeps the elements.                                           *)
LEMMA FlattenRange ==
  ASSUME NEW S, NEW d \in Seq(Seq(S))
  PROVE  /\ FlattenSeq(d) \in Seq(S)
         /\ Range(FlattenSeq(d)) = {s \in S : \E i \in 1..Len(d) : \E j \in 1..Len(d[i]) : d[i][j] = s}
<1>1. CASE Len(d) = 0
  <2>1. FlattenSeq(d) = d /\ d = <<>>
    BY <1>1 DEF FlattenSeq
  <2>. QED
    BY <1>1, <2>1 DEF Range
<1>2. CASE Len(d) # 0
  <2>. DEFINE n == Len(d)
  <2>1. PICK f \in [1..n -> Seq(S)] : IsFlatten(f, d) /\ FlattenSeq(d) = f[n]
    BY <1>2, FlattenExists
  <2>2. n \in Nat /\ n \in 1..n /\ \A i \in 1..n : d[i] \in Seq(S)
    BY <1>2
  <2>3. \A i \in 1..n : f[i] = IF i = 1 THEN d[i] ELSE f[i - 1] \o d[i]
    BY <2>1 DEF IsFlatten
  <2>. DEFINE Upto(m) == {s \in S : \E i \in 1..m : \E j \in 1..Len(d[i]) : d[i][j] = s}
              Bad == {m \in 1..n : Range(f[m]) # Upto(m)}
  <2>4. \A i \in 1..n : Range(d[i]) = {s \in S : \E j \in 1..Len(d[i]) : d[i][j] = s}
    <3>. SUFFICES ASSUME NEW i \in 1..n
                  PROVE  Range(d[i]) = {s \in S : \E j \in 1..Len(d[i]) : d[i][j] = s}
      OBVIOUS
    <3>1. d[i] \in Seq(S)
      BY <2>2
    <3>2. \A j \in 1..Len(d[i]) : d[i][j] \in S
      BY <3>1, ElementOfSeq
    <3>3. Range(d[i]) = {d[i][j] : j \in 1..Len(d[i])}
      BY <3>1, RangeEquality
    <3>. QED
      BY <3>2, <3>3
  <2>5. Bad = {}
    <3>. SUFFICES ASSUME Bad # {} PROVE FALSE
      OBVIOUS
    <3>1. Bad \subseteq Nat
      BY <2>2
    <3>2. PICK m \in Bad : \A l \in Bad : m <= l
      <4>. HIDE DEF Bad
      <4>. QED
        BY <3>1, LeastElement
    <3>3. m \in 1..n /\ Range(f[m]) # Upto(m)
      OBVIOUS
    <3>4. CASE m = 1
      <4>1. 1 \in 1..n /\ f[1] = d[1]
        BY <2>2, <2>3, <3>3, <3>4
      <4>2. Upto(1) = {s \in S : \E j \in 1..Len(d[1]) : d[1][j] = s}
        <5>1. \A i \in 1..1 : i = 1
          OBVIOUS
        <5>. QED
          BY <5>1
      <4>. QED
        BY <2>4, <3>3, <3>4, <4>1, <4>2
    <3>5. CASE m # 1
      <4>1. m - 1 \in 1..n /\ m - 1 \notin Bad
        <5>. HIDE DEF Bad, Upto
        <5>. QED
          BY <2>2, <3>2, <3>3, <3>5
      <4>2. Range(f[m - 1]) = Upto(m - 1)
        BY <4>1
      <4>3. f[m] = f[m - 1] \o d[m] /\ f[m - 1] \in Seq(S) /\ d[m] \in Seq(S)
        BY <2>2, <2>3, <3>3, <3>5, <4>1
      <4>4. Range(f[m]) = Range(f[m - 1]) \cup Range(d[m])
        BY <4>3, RangeConcatenation
      <4>5. Upto(m) = Upto(m - 1) \cup {s \in S : \E j \in 1..Len(d[m]) : d[m][j] = s}
        <5>1. \A i \in 1..m : i \in 1..m - 1 \/ i = m
          BY <2>2, <3>3
        <5>2. 1..m - 1 \subseteq 1..m /\ m \in 1..m
          BY <2>2, <3>3
        <5>. QED
          BY <5>1, <5>2
      <4>. HIDE DEF Upto, Bad
      <4>. QED
        BY <2>4, <3>3, <4>2, <4>4, <4>5
    <3>. QED
      BY <3>4, <3>5
  <2>6. Range(f[n]) = Upto(n)
    BY <2>2, <2>5
  <2>. QED
    BY <2>1, <2>2, <2>6
<1>. QED
  BY <1>1, <1>2

(* When all lists but the first are empty, FlattenSeq is the first list.    *)
LEMMA FlattenFirst ==
  ASSUME NEW S, NEW d \in Seq(Seq(S)), Len(d) # 0,
         \A i \in 1..Len(d) : i # 1 => d[i] = <<>>
  PROVE  FlattenSeq(d) = d[1]
<1>. DEFINE n == Len(d)
<1>1. PICK f \in [1..n -> Seq(S)] : IsFlatten(f, d) /\ FlattenSeq(d) = f[n]
  BY FlattenExists
<1>2. n \in Nat /\ n \in 1..n /\ 1 \in 1..n
  OBVIOUS
<1>3. \A i \in 1..n : f[i] = IF i = 1 THEN d[i] ELSE f[i - 1] \o d[i]
  BY <1>1 DEF IsFlatten
<1>. DEFINE Odd == {m \in 1..n : f[m] # d[1]}
<1>4. Odd = {}
  <2>. SUFFICES ASSUME Odd # {} PROVE FALSE
    OBVIOUS
  <2>1. Odd \subseteq Nat
    BY <1>2
  <2>2. PICK m \in Odd : \A l \in Odd : m <= l
    <3>. HIDE DEF Odd
    <3>. QED
      BY <2>1, LeastElement
  <2>3. m \in 1..n /\ f[m] # d[1] /\ m # 1
    BY <1>3
  <2>4. m - 1 \in 1..n /\ m - 1 \notin Odd
    <3>. HIDE DEF Odd
    <3>. QED
      BY <1>2, <2>2, <2>3
  <2>5. f[m - 1] = d[1] /\ f[m - 1] \in Seq(S)
    BY <2>4
  <2>6. f[m] = f[m - 1] \o <<>>
    BY <1>3, <2>3
  <2>. QED
    BY <2>3, <2>5, <2>6
<1>. QED
  BY <1>1, <1>2, <1>4

(* InAddressOrder lists a finite set of sections that have different        *)
(* addresses, each of them once, the lower address first.                   *)
LEMMA AddressOrder ==
  ASSUME NEW S \in SUBSET Sections, IsFiniteSet(S), input \in Inputs,
         \A s \in S : addr[s] \in Nat,
         \A s, t \in S : s # t => addr[s] # addr[t]
  PROVE  /\ Cardinality(S) \in Nat
         /\ InAddressOrder(S) \in [1..Cardinality(S) -> S]
         /\ InAddressOrder(S) \in Seq(S) /\ Len(InAddressOrder(S)) = Cardinality(S)
         /\ Range(InAddressOrder(S)) = S
         /\ \A i, j \in 1..Cardinality(S) : i < j => addr[InAddressOrder(S)[i]] < addr[InAddressOrder(S)[j]]
<1>. DEFINE n == Cardinality(S)
            q == InAddressOrder(S)
            rank == [s \in S |-> Cardinality(Before(S, s))]
<1>1. n \in Nat
  BY FS_CardinalityType
<1>2. \A s, t \in S : ComesBefore(s, t) <=> addr[s] < addr[t]
  <2>1. \A s \in S : input.order[s] \in Nat
    BY InputsAssumption
  <2>. QED
    BY <2>1 DEF ComesBefore
<1>3. \A s \in S : Before(S, s) = {t \in S : addr[t] < addr[s]}
  BY <1>2 DEF Before
<1>4. \A s \in S : IsFiniteSet(Before(S, s)) /\ Cardinality(Before(S, s)) \in 0..n - 1
  <2>. SUFFICES ASSUME NEW s \in S PROVE IsFiniteSet(Before(S, s)) /\ Cardinality(Before(S, s)) \in 0..n - 1
    OBVIOUS
  <2>1. Before(S, s) \in SUBSET S /\ s \notin Before(S, s)
    BY <1>3
  <2>2. IsFiniteSet(Before(S, s)) /\ Cardinality(Before(S, s)) <= n /\ Cardinality(Before(S, s)) # n
    BY <2>1, FS_Subset
  <2>. QED
    BY <1>1, <2>2, FS_CardinalityType
<1>5. \A s, t \in S : addr[s] < addr[t] => Cardinality(Before(S, s)) < Cardinality(Before(S, t))
  <2>. SUFFICES ASSUME NEW s \in S, NEW t \in S, addr[s] < addr[t]
                PROVE  Cardinality(Before(S, s)) < Cardinality(Before(S, t))
    OBVIOUS
  <2>1. Before(S, s) \in SUBSET Before(S, t)
    BY <1>3
  <2>2. s \in Before(S, t) /\ s \notin Before(S, s)
    BY <1>3
  <2>3. /\ Cardinality(Before(S, s)) <= Cardinality(Before(S, t))
        /\ Cardinality(Before(S, s)) # Cardinality(Before(S, t))
    BY <1>4, <2>1, <2>2, FS_Subset
  <2>. QED
    BY <1>1, <1>4, <2>3
<1>6. rank \in Injection(S, 0..n - 1)
  <2>1. rank \in [S -> 0..n - 1]
    BY <1>4
  <2>2. \A s, t \in S : rank[s] = rank[t] => s = t
    <3>1. \A s, t \in S : s # t => addr[s] < addr[t] \/ addr[t] < addr[s]
      OBVIOUS
    <3>. QED
      BY <1>1, <1>4, <1>5, <3>1
  <2>. HIDE DEF rank
  <2>3. DOMAIN rank = S
    BY <2>1
  <2>4. IsInjective(rank)
    BY <2>2, <2>3, Zenon DEF IsInjective
  <2>. QED
    BY <2>1, <2>4, Zenon DEF Injection
<1>7. rank \in Surjection(S, 0..n - 1)
  <2>1. IsFiniteSet(0..n - 1) /\ Cardinality(0..n - 1) = n
    BY <1>1, FS_Interval
  <2>. HIDE DEF rank
  <2>. QED
    BY <1>6, <2>1, FS_Injection
<1>8. ASSUME NEW i \in 1..n
      PROVE  q[i] \in S /\ Cardinality(Before(S, q[i])) = i - 1
  <2>1. i - 1 \in 0..n - 1
    BY <1>1
  <2>2. \E s \in S : rank[s] = i - 1
    <3>. HIDE DEF rank
    <3>. QED
      BY <1>7, <2>1 DEF Surjection
  <2>3. \E s \in S : Cardinality(Before(S, s)) = i - 1
    BY <2>2
  <2>. QED
    BY <2>3 DEF InAddressOrder
<1>9. q \in [1..n -> S]
  BY <1>8 DEF InAddressOrder
<1>10. q \in Seq(S) /\ Len(q) = n
  <2>. HIDE DEF q
  <2>. QED
    BY <1>1, <1>9
<1>11. \A s \in S : \E i \in 1..n : q[i] = s
  <2>. SUFFICES ASSUME NEW s \in S PROVE \E i \in 1..n : q[i] = s
    OBVIOUS
  <2>. DEFINE i == Cardinality(Before(S, s)) + 1
  <2>1. i \in 1..n /\ i - 1 = Cardinality(Before(S, s))
    BY <1>1, <1>4
  <2>. HIDE DEF i, q
  <2>2. q[i] \in S /\ Cardinality(Before(S, q[i])) = Cardinality(Before(S, s))
    BY <1>8, <2>1
  <2>3. ~(addr[q[i]] < addr[s]) /\ ~(addr[s] < addr[q[i]])
    <3>1. Cardinality(Before(S, s)) \in Nat
      BY <1>1, <1>4
    <3>. QED
      BY <1>5, <2>2, <3>1
  <2>. QED
    BY <2>1, <2>2, <2>3
<1>12. Range(q) = S
  <2>1. Range(q) = {q[i] : i \in 1..n}
    BY <1>9 DEF Range
  <2>. HIDE DEF q
  <2>. QED
    BY <1>8, <1>11, <2>1
<1>13. ASSUME NEW i \in 1..n, NEW j \in 1..n, i < j PROVE addr[q[i]] < addr[q[j]]
  <2>. HIDE DEF q
  <2>1. q[i] \in S /\ q[j] \in S /\ Cardinality(Before(S, q[i])) = i - 1 /\ Cardinality(Before(S, q[j])) = j - 1
    BY <1>8
  <2>2. ~(addr[q[j]] < addr[q[i]]) /\ q[i] # q[j]
    <3>1. ~(j - 1 < i - 1) /\ i - 1 # j - 1
      BY <1>1, <1>13
    <3>. QED
      BY <1>5, <2>1, <3>1
  <2>. QED
    BY <2>1, <2>2
<1>. QED
  BY <1>1, <1>9, <1>10, <1>12, <1>13

-----------------------------------------------------------------------------
(* The sections of the lists, as a sequence and as a set.                   *)
SectionsOf(d) == {s \in Sections : \E i \in DOMAIN d : \E j \in DOMAIN d[i] : d[i][j] = s}

LEMMA SectionsInSequence ==
  ASSUME NEW d \in Seq(Seq(Sections))
  PROVE  Range(FlattenSeq(d)) = SectionsOf(d)
<1>1. Range(FlattenSeq(d)) = {s \in Sections : \E i \in 1..Len(d) : \E j \in 1..Len(d[i]) : d[i][j] = s}
  BY FlattenRange
<1>2. DOMAIN d = 1..Len(d) /\ \A i \in 1..Len(d) : DOMAIN d[i] = 1..Len(d[i])
  <2>1. \A i \in 1..Len(d) : d[i] \in Seq(Sections)
    BY ElementOfSeq
  <2>. QED
    BY <2>1
<1>. QED
  BY <1>1, <1>2 DEF SectionsOf

LEMMA ListFacts ==
  ASSUME descs \in Seq(Seq(Sections))
  PROVE  Secs \in Seq(Sections) /\ Members = Range(Secs) /\ IsFiniteSet(Members)
<1>1. Secs \in Seq(Sections)
  BY FlattenRange DEF Secs
<1>2. Members = Range(Secs)
  BY SectionsInSequence DEF Secs, Members, SectionsOf
<1>3. IsFiniteSet(Range(Secs))
  <2>1. IsFiniteSet(1..Len(Secs))
    BY <1>1, FS_Interval
  <2>2. Range(Secs) = {Secs[i] : i \in 1..Len(Secs)}
    BY <1>1, RangeEquality
  <2>3. [i \in 1..Len(Secs) |-> Secs[i]] \in Surjection(1..Len(Secs), Range(Secs))
    BY <2>2 DEF Surjection
  <2>. QED
    BY <2>1, <2>3, FS_Surjection
<1>. QED
  BY <1>1, <1>2, <1>3

(* The sections of the link are all different, so their number is that of   *)
(* the set they form.                                                       *)
LEMMA GivenFacts ==
  ASSUME input \in Inputs
  PROVE  LET given == FlattenSeq(input.descs)
         IN  given \in Seq(Sections) /\ Len(given) = Cardinality(Range(given))
<1>. DEFINE given == FlattenSeq(input.descs)
<1>1. given \in Seq(Sections) /\ IsInjective(given)
  BY InputsAssumption, FlattenRange
<1>. HIDE DEF given
<1>2. Range(given) = {given[i] : i \in 1..Len(given)} /\ DOMAIN given = 1..Len(given) /\ Len(given) \in Nat
  BY <1>1, RangeEquality
<1>3. [i \in 1..Len(given) |-> given[i]] \in Bijection(1..Len(given), Range(given))
  BY <1>1, <1>2 DEF Bijection, Injection, Surjection, IsInjective
<1>4. IsFiniteSet(1..Len(given)) /\ Cardinality(1..Len(given)) = Len(given)
  <2>1. \A n \in Nat : IsFiniteSet(1..n) /\ Cardinality(1..n) = n
    <3>. TAKE n \in Nat
    <3>1. Cardinality(1..n) = (IF 1 > n THEN 0 ELSE n - 1 + 1) /\ IsFiniteSet(1..n)
      BY FS_Interval
    <3>. QED
      BY <3>1
  <2>. QED
    BY <1>2, <2>1
<1>5. Cardinality(Range(given)) = Cardinality(1..Len(given))
  <2>. DEFINE S == 1..Len(given)
              T == Range(given)
              f == [i \in 1..Len(given) |-> given[i]]
  <2>1. f \in Bijection(S, T) /\ IsFiniteSet(S)
    BY <1>3, <1>4
  <2>. HIDE DEF S, T, f
  <2>2. Cardinality(T) = Cardinality(S)
    BY <2>1, FS_Bijection DEF ExistsBijection
  <2>. QED
    BY <2>2 DEF S, T
<1>6. given \in Seq(Sections) /\ Len(given) = Cardinality(Range(given))
  BY <1>1, <1>4, <1>5
<1>. QED
  BY <1>6 DEF given

(* The rest of the inductive invariant.  The members never change, so an    *)
(* arena that was laid out once is never laid out in the generic way later; *)
(* a layout stays as it was written until the next one starts.              *)
ListInv ==
  /\ descs \in Seq(Seq(Sections))
  /\ SameSections

WrittenLegally ==
  /\ endAddr <= AddrLimit
  /\ \A i \in DOMAIN Secs :
       LET at(k) == laidOut + outSecOff[Secs[k]] IN
       /\ at(i) + Size(Secs[i]) <= (IF i < Len(Secs) THEN at(i + 1) ELSE endAddr)
       /\ Kind(Secs[i]) = "anchor" => at(i) % PageSize = 0
       /\ IsWindow(Secs[i]) => FitsWindow(at(i), Size(Secs[i]))

WriteInv ==
  /\ result # "InvalidBlock"
  /\ pc = "place" => blocks = Members
  /\ pc = "place" \/ result = "Success" => ~NormalLayout
  /\ pc # "place" /\ ~failed /\ result = "Success" => WrittenLegally

OutputInv == LayoutInv /\ ListInv /\ WriteInv

LEMMA OutputInitInv == Init => OutputInv
<1>. SUFFICES ASSUME Init PROVE OutputInv
  OBVIOUS
<1>1. ListInv
  BY InputsAssumption DEF Init, ListInv, SameSections, Secs
<1>2. WriteInv
  BY DEF Init, WriteInv
<1>. QED
  BY <1>1, <1>2, LayoutInitInv DEF OutputInv

(* A block the layout would call invalid has not passed validateSection.    *)
LEMMA ValidatedBlocks ==
  ASSUME input \in Inputs, ListInv, ~NormalLayout, ~InvalidSeen
  PROVE  \A s \in Members : ~BadBlock(s)
<1>1. Secs \in Seq(Sections) /\ Members = Range(Secs)
  BY ListFacts DEF ListInv
<1>2. ~input.commands /\ \A s \in Members : Recognized(s)
  BY DEF NormalLayout
<1>3. \A i \in DOMAIN Secs : \A j \in 1..i : j \in DOMAIN Secs /\ Secs[j] \in Members
  BY <1>1 DEF Range
<1>4. \A i \in DOMAIN Secs : ValidSection(Secs[i])
  BY <1>2, <1>3 DEF InvalidSeen
<1>5. \A s \in Members : ValidSection(s)
  BY <1>1, <1>4 DEF Range
<1>6. \A s \in Members : Size(s) # 0 /\ (IsWindow(s) => Size(s) <= PageSize) /\ Size(s) \in Nat
  BY <1>5, InputFacts DEF ValidSection, Members
<1>7. PageSize \in Nat
  BY BoundsAssumption DEF BoundsAssumption
<1>. QED
  BY <1>6, <1>7 DEF BadBlock

(* The members are those of the link, whatever the lists look like.         *)
LEMMA MembersGiven ==
  ASSUME ListInv
  PROVE  Members = Range(FlattenSeq(input.descs))
BY ListFacts DEF ListInv, SameSections

(* Finish writes the sections by address: they stay the same, and each one  *)
(* ends where the next may start.                                           *)
LEMMA FinishWrites ==
  ASSUME OutputInv, Finish
  PROVE  ListInv' /\ WrittenLegally'
<1>. DEFINE n == Cardinality(blocks)
            q == InAddressOrder(blocks)
            given == FlattenSeq(input.descs)
<1>1. /\ pc = "place" /\ todo = {} /\ cursor <= AddrLimit
      /\ endAddr' = cursor /\ laidOut' = start
      /\ outSecOff' = [s \in Sections |-> IF s \in blocks THEN addr[s] - start ELSE outSecOff[s]]
      /\ descs' = [i \in DOMAIN descs |-> IF i = 1 THEN q ELSE <<>>]
      /\ input' = input
  BY DEF Finish, FitsMemory
<1>2. /\ input \in Inputs /\ blocks \in SUBSET Sections /\ blocks = Members /\ Members # {}
      /\ addr \in [Sections -> 0..MaxAddr] /\ start \in Nat /\ cursor \in Nat /\ MaxAddr \in Nat
  <2>1. blocks = Members /\ Members # {}
    BY <1>1 DEF OutputInv, WriteInv, NormalLayout
  <2>2. start \in 0..MaxAddr /\ cursor \in 0..MaxAddr /\ MaxAddr \in Nat
    BY BoundsAssumption DEF BoundsAssumption, OutputInv, LayoutInv, LayoutType
  <2>. QED
    BY <2>1, <2>2 DEF OutputInv, LayoutInv, LayoutType
<1>3. descs \in Seq(Seq(Sections)) /\ Members = Range(Secs) /\ IsFiniteSet(Members)
  BY ListFacts DEF OutputInv, ListInv
<1>4. \A s \in blocks : /\ addr[s] \in Nat /\ Size(s) \in Nat /\ Size(s) > 0 /\ End(s) = addr[s] + Size(s)
                        /\ s \in Sections /\ start <= addr[s] /\ End(s) <= cursor
                        /\ Kind(s) = "anchor" => addr[s] % PageSize = 0
                        /\ IsWindow(s) => FitsWindow(addr[s], Size(s))
  <2>1. Placed = blocks
    BY <1>1 DEF Placed
  <2>2. \A s \in blocks : s \in Sections /\ addr[s] \in Nat /\ Size(s) \in Nat /\ Size(s) > 0
    BY <1>1, <1>2, InputFacts DEF OutputInv, LayoutInv, LayoutType
  <2>3. \A s \in blocks : start <= addr[s] /\ End(s) <= cursor
    BY <1>1, <2>1 DEF OutputInv, LayoutInv, NoOverlap
  <2>4. \A s \in blocks : /\ Kind(s) = "anchor" => addr[s] % PageSize = 0
                          /\ IsWindow(s) => FitsWindow(addr[s], Size(s))
    BY <2>1 DEF OutputInv, LayoutInv, PageRules
  <2>. QED
    BY <2>2, <2>3, <2>4 DEF End
<1>5. \A s, t \in blocks : s # t => Apart(addr[s], End(s), addr[t], End(t))
  BY <1>1 DEF OutputInv, LayoutInv, NoOverlap, Placed
<1>6. \A s, t \in blocks : s # t => addr[s] # addr[t]
  BY <1>4, <1>5 DEF Apart
<1>7. /\ n \in Nat /\ q \in Seq(blocks) /\ Len(q) = n /\ Range(q) = blocks
      /\ \A i \in 1..n : q[i] \in blocks
      /\ \A i, j \in 1..n : i < j => addr[q[i]] < addr[q[j]]
  <2>1. IsFiniteSet(blocks) /\ \A s \in blocks : addr[s] \in Nat
    BY <1>2, <1>3, <1>4
  <2>2. /\ n \in Nat /\ q \in [1..n -> blocks] /\ q \in Seq(blocks) /\ Len(q) = n /\ Range(q) = blocks
        /\ \A i, j \in 1..n : i < j => addr[q[i]] < addr[q[j]]
    BY <1>2, <1>6, <2>1, AddressOrder
  <2>. HIDE DEF q, n
  <2>. QED
    BY <2>2
<1>8. q \in Seq(Sections)
  <2>. HIDE DEF q
  <2>. QED
    BY <1>2, <1>7
<1>. HIDE DEF q, n
<1>9. /\ descs' \in Seq(Seq(Sections)) /\ Len(descs') # 0 /\ descs'[1] = q
      /\ \A i \in 1..Len(descs') : i # 1 => descs'[i] = <<>>
  <2>1. Len(descs) \in Nat /\ DOMAIN descs = 1..Len(descs)
    BY <1>3
  <2>2. Len(descs) # 0
    BY <1>2, <2>1 DEF Members
  <2>3. <<>> \in Seq(Sections)
    OBVIOUS
  <2>4. descs' \in [1..Len(descs) -> Seq(Sections)]
    BY <1>1, <1>8, <2>1, <2>3
  <2>5. descs' \in Seq(Seq(Sections)) /\ Len(descs') = Len(descs)
    BY <2>1, <2>4
  <2>. QED
    BY <1>1, <2>1, <2>2, <2>5
<1>10. Secs' = q
  <2>1. FlattenSeq(descs') = descs'[1]
    BY <1>9, FlattenFirst
  <2>. QED
    BY <1>9, <2>1 DEF Secs
<1>11. ListInv'
  <2>1. Range(q) = Range(given)
    BY <1>2, <1>7, MembersGiven DEF OutputInv
  <2>2. Len(given) = Cardinality(Range(given))
    BY <1>2, GivenFacts
  <2>3. Len(q) = Len(given)
    BY <1>2, <1>7, <2>1, <2>2 DEF n
  <2>. QED
    BY <1>1, <1>9, <1>10, <2>1, <2>3 DEF ListInv, SameSections
<1>12. WrittenLegally'
  <2>. PICK p : p = q
    OBVIOUS
  <2>a. /\ \A i \in 1..n : p[i] \in blocks
        /\ \A i, j \in 1..n : i < j => addr[p[i]] < addr[p[j]]
    BY <1>7
  <2>b. Secs' = p /\ DOMAIN p = 1..n /\ Len(p) = n
    BY <1>7, <1>10
  <2>1. \A i \in 1..n : laidOut' + outSecOff'[p[i]] = addr[p[i]]
    <3>. SUFFICES ASSUME NEW i \in 1..n PROVE laidOut' + outSecOff'[p[i]] = addr[p[i]]
      OBVIOUS
    <3>1. p[i] \in blocks /\ p[i] \in Sections /\ addr[p[i]] \in Nat
      BY <1>4, <1>7, <2>a
    <3>2. outSecOff'[p[i]] = addr[p[i]] - start
      BY <1>1, <3>1
    <3>. QED
      BY <1>1, <1>2, <3>1, <3>2
  <2>2. ASSUME NEW i \in 1..n
        PROVE  addr[p[i]] + Size(p[i]) <= IF i < n THEN addr[p[i + 1]] ELSE cursor
    <3>1. CASE i < n
      <4>1. i + 1 \in 1..n /\ i < i + 1
        BY <1>7, <2>a, <3>1
      <4>2. p[i] \in blocks /\ p[i + 1] \in blocks /\ addr[p[i]] < addr[p[i + 1]]
        BY <1>7, <2>a, <4>1
      <4>3. Apart(addr[p[i]], End(p[i]), addr[p[i + 1]], End(p[i + 1]))
        BY <1>4, <1>5, <4>2
      <4>. QED
        BY <1>4, <3>1, <4>2, <4>3 DEF Apart
    <3>2. CASE ~(i < n)
      BY <1>4, <1>7, <2>a, <3>2
    <3>. QED
      BY <3>1, <3>2
  <2>3. \A i \in 1..n : i < n => i + 1 \in 1..n
    BY <1>7, <2>a
  <2>4. \A s \in Sections : Size(s)' = Size(s) /\ Kind(s)' = Kind(s) /\ (IsWindow(s)' <=> IsWindow(s))
    BY <1>1 DEF Size, Kind, IsWindow
  <2>6. \A i \in 1..n :
          /\ addr[p[i]] + Size(p[i])' <= IF i < n THEN laidOut' + outSecOff'[p[i + 1]] ELSE cursor
          /\ Kind(p[i])' = "anchor" => addr[p[i]] % PageSize = 0
          /\ IsWindow(p[i])' => FitsWindow(addr[p[i]], Size(p[i])')
    <3>. SUFFICES ASSUME NEW i \in 1..n
                  PROVE  /\ addr[p[i]] + Size(p[i])' <= IF i < n THEN laidOut' + outSecOff'[p[i + 1]] ELSE cursor
                         /\ Kind(p[i])' = "anchor" => addr[p[i]] % PageSize = 0
                         /\ IsWindow(p[i])' => FitsWindow(addr[p[i]], Size(p[i])')
      OBVIOUS
    <3>1. p[i] \in blocks /\ p[i] \in Sections
      BY <1>4, <1>7, <2>a
    <3>2. Size(p[i])' = Size(p[i]) /\ Kind(p[i])' = Kind(p[i]) /\ (IsWindow(p[i])' <=> IsWindow(p[i]))
      BY <2>4, <3>1
    <3>3. i < n => laidOut' + outSecOff'[p[i + 1]] = addr[p[i + 1]]
      <4>1. i < n => i + 1 \in 1..n
        BY <2>3
      <4>. QED
        BY <2>1, <4>1
    <3>4. addr[p[i]] + Size(p[i]) <= IF i < n THEN addr[p[i + 1]] ELSE cursor
      BY <2>2
    <3>5. /\ Kind(p[i]) = "anchor" => addr[p[i]] % PageSize = 0
          /\ IsWindow(p[i]) => FitsWindow(addr[p[i]], Size(p[i]))
      BY <1>4, <3>1
    <3>6. addr[p[i]] + Size(p[i])' <= IF i < n THEN laidOut' + outSecOff'[p[i + 1]] ELSE cursor
      BY <3>2, <3>3, <3>4
    <3>. QED
      BY <3>2, <3>5, <3>6
  <2>. DEFINE at(k) == laidOut' + outSecOff'[p[k]]
              Rules(i) == /\ at(i) + Size(p[i])' <= (IF i < n THEN at(i + 1) ELSE cursor)
                          /\ Kind(p[i])' = "anchor" => at(i) % PageSize = 0
                          /\ IsWindow(p[i])' => FitsWindow(at(i), Size(p[i])')
  <2>7. \A i \in 1..n : Rules(i)
    BY <2>1, <2>6
  <2>8. WrittenLegally' <=> (endAddr' <= AddrLimit /\ \A i \in DOMAIN p : Rules(i))
    BY <1>1, <2>b DEF WrittenLegally, FitsWindow
  <2>. QED
    BY <1>1, <2>b, <2>7, <2>8
<1>. QED
  BY <1>11, <1>12

(* The link and its sections stay the same in every step.                   *)
LEMMA MembersStay ==
  ASSUME ListInv, ListInv', UNCHANGED input
  PROVE  Members' = Members /\ (NormalLayout' <=> NormalLayout)
<1>1. Members = Range(FlattenSeq(input.descs))
  BY MembersGiven
<1>2. Members' = Range(FlattenSeq(input.descs))'
  <2>1. descs' \in Seq(Seq(Sections)) /\ SameSections'
    BY DEF ListInv
  <2>2. Range(FlattenSeq(descs')) = SectionsOf(descs')
    BY <2>1, SectionsInSequence
  <2>3. Range(Secs)' = Range(FlattenSeq(descs')) /\ Members' = SectionsOf(descs')
    BY DEF Secs, Members, SectionsOf, Range
  <2>. QED
    BY <2>1, <2>2, <2>3 DEF SameSections
<1>3. Members' = Members
  BY <1>1, <1>2
<1>. QED
  BY <1>3 DEF NormalLayout, Recognized, Kind

(* The steps that leave the link and the lists alone.                       *)
LEMMA ListsStay ==
  ASSUME OutputInv, UNCHANGED <<input, descs>>
  PROVE  /\ ListInv' /\ Members' = Members /\ (NormalLayout' <=> NormalLayout)
         /\ UNCHANGED <<endAddr, outSecOff, laidOut>> => (WrittenLegally' <=> WrittenLegally)
<1>1. Members' = Members /\ Secs' = Secs
  BY DEF Members, Secs
<1>2. ListInv'
  BY <1>1 DEF OutputInv, ListInv, SameSections
<1>3. NormalLayout' <=> NormalLayout
  BY <1>1 DEF NormalLayout, Recognized, Kind
<1>4. UNCHANGED <<endAddr, outSecOff, laidOut>> => (WrittenLegally' <=> WrittenLegally)
  BY <1>1 DEF WrittenLegally, Kind, IsWindow, Size, FitsWindow
<1>. QED
  BY <1>1, <1>2, <1>3, <1>4

LEMMA OutputNextInv ==
  ASSUME OutputInv, [Next]_vars
  PROVE  OutputInv'
<1>0. LayoutInv'
  BY LayoutNextInv DEF OutputInv
<1>a. /\ result # "InvalidBlock"
      /\ pc = "place" => blocks = Members
      /\ pc = "place" \/ result = "Success" => ~NormalLayout
      /\ pc # "place" /\ ~failed /\ result = "Success" => WrittenLegally
  BY DEF OutputInv, WriteInv
<1>1. CASE StartPass
  <2>1. /\ UNCHANGED <<input, descs, blocks, endAddr, result, outSecOff, laidOut, failed>>
        /\ pc = "idle" /\ pc' = "classify"
    BY <1>1 DEF StartPass
  <2>2. WriteInv'
    BY <1>a, <2>1, ListsStay DEF WriteInv
  <2>. QED
    BY <1>0, <2>1, <2>2, ListsStay DEF OutputInv
<1>2. CASE AssignNormally
  <2>1. UNCHANGED <<input, descs, result>> /\ NormalLayout /\ pc' = "idle"
    BY <1>2 DEF AssignNormally
  <2>2. WriteInv'
    BY <1>a, <2>1, ListsStay DEF WriteInv
  <2>. QED
    BY <1>0, <2>1, <2>2, ListsStay DEF OutputInv
<1>3. CASE GiveUp
  <2>1. UNCHANGED <<input, descs, result>> /\ failed' = TRUE /\ pc' = "idle"
    BY <1>3 DEF GiveUp
  <2>2. WriteInv'
    BY <1>a, <2>1, ListsStay DEF WriteInv
  <2>. QED
    BY <1>0, <2>1, <2>2, ListsStay DEF OutputInv
<1>4. CASE RejectBlocks
  <2>1. /\ UNCHANGED <<input, descs>> /\ ~NormalLayout /\ ~InvalidSeen /\ Rejected
        /\ result' = IF start > AddrLimit THEN "AddressSpaceOverflow" ELSE "InvalidBlock"
        /\ failed' = TRUE /\ pc' = "idle"
    BY <1>4 DEF RejectBlocks
  <2>2. \A s \in Members : ~BadBlock(s)
    BY <2>1, ValidatedBlocks DEF OutputInv, LayoutInv, LayoutType
  <2>3. start > AddrLimit
    BY <2>1, <2>2 DEF Rejected
  <2>4. result' = "AddressSpaceOverflow"
    BY <2>1, <2>3
  <2>5. WriteInv'
    BY <2>1, <2>4 DEF WriteInv
  <2>. QED
    BY <1>0, <2>1, <2>5, ListsStay DEF OutputInv
<1>5. CASE StartLayout
  <2>1. /\ UNCHANGED <<input, descs, result>> /\ ~NormalLayout
        /\ blocks' = Members /\ pc' = "place"
    BY <1>5 DEF StartLayout
  <2>2. WriteInv'
    BY <1>a, <2>1, ListsStay DEF WriteInv
  <2>. QED
    BY <1>0, <2>1, <2>2, ListsStay DEF OutputInv
<1>6. CASE PlaceAnchor \/ PlaceInBestHole \/ AppendBlock
  <2>1. UNCHANGED <<input, descs, pc, blocks, result, failed>> /\ pc = "place"
    BY <1>6 DEF PlaceAnchor, PlaceInBestHole, AppendBlock, Placing
  <2>2. WriteInv'
    BY <1>a, <2>1, ListsStay DEF WriteInv
  <2>. QED
    BY <1>0, <2>1, <2>2, ListsStay DEF OutputInv
<1>7. CASE Overflow \/ TooLarge
  <2>1. /\ UNCHANGED <<input, descs>> /\ failed' = TRUE /\ pc' = "idle"
        /\ result' \in {"AddressOverflow", "AddressSpaceOverflow"}
    BY <1>7 DEF Overflow, TooLarge
  <2>2. WriteInv'
    BY <1>a, <2>1, ListsStay DEF WriteInv
  <2>. QED
    BY <1>0, <2>1, <2>2, ListsStay DEF OutputInv
<1>8. CASE Finish
  <2>1. input' = input /\ pc = "place" /\ pc' = "idle" /\ result' = "Success"
    BY <1>8 DEF Finish
  <2>2. ListInv' /\ WrittenLegally'
    BY <1>8, FinishWrites
  <2>3. ~NormalLayout'
    BY <1>a, <2>1, <2>2, MembersStay DEF OutputInv
  <2>4. WriteInv'
    BY <2>1, <2>2, <2>3 DEF WriteInv
  <2>. QED
    BY <1>0, <2>2, <2>4 DEF OutputInv
<1>9. CASE UNCHANGED vars
  <2>1. UNCHANGED <<input, descs, pc, blocks, endAddr, result, outSecOff, laidOut, failed>>
    BY <1>9 DEF vars, layoutVars
  <2>2. WriteInv'
    BY <1>a, <2>1, ListsStay DEF WriteInv
  <2>. QED
    BY <1>0, <2>1, <2>2, ListsStay DEF OutputInv
<1>. QED
  BY <1>1, <1>2, <1>3, <1>4, <1>5, <1>6, <1>7, <1>8, <1>9 DEF Next

(* Nothing is lost or duplicated: whatever the passes turn the lists into,  *)
(* they hold the sections of the link, each once                            *)
(* (assignV6ClangPackedSectionOffsets, which rewrites the descriptions).    *)
THEOREM SectionsPreserved == Spec => []SameSections
<1>1. OutputInv => SameSections
  BY DEF OutputInv, ListInv
<1>. QED
  BY <1>1, OutputInitInv, OutputNextInv, PTL DEF Spec

(* What the link writes is legal: the sections follow one another, respect  *)
(* their pages and end within the 8080's memory, for every sequence of      *)
(* address assignment passes that reports no error, and no block that       *)
(* validateSection accepted is ever reported as invalid.                    *)
THEOREM WritesLegalArena == Spec => []OutputLegal
<1>1. OutputInv => OutputLegal
  BY DEF OutputInv, WriteInv, WrittenLegally, OutputLegal
<1>. QED
  BY <1>1, OutputInitInv, OutputNextInv, PTL DEF Spec

-----------------------------------------------------------------------------
(* The passes converge.  A placement is determined by the link and the      *)
(* start address: its steps form a sequence of states, each of which has    *)
(* one successor at most.                                                   *)
Given == Range(FlattenSeq(input.descs))

PlacementStates ==
  [todo : SUBSET Sections, addr : [Sections -> 0..MaxAddr],
   holes : SUBSET [begin : 0..MaxAddr, end : 0..MaxAddr], cursor : 0..MaxAddr]

Placement == [todo |-> todo, addr |-> addr, holes |-> holes, cursor |-> cursor]

EmptyPlacement(st) ==
  [todo |-> Given, addr |-> [s \in Sections |-> 0], holes |-> {}, cursor |-> st]

With(x, s, a, hs, c) ==
  [todo |-> x.todo \ {s}, addr |-> [x.addr EXCEPT ![s] = a], holes |-> hs, cursor |-> c]

FirstOf(x, s) == s \in x.todo /\ \A t \in x.todo \ {s} : Precedes(s, t)

SmallestHole(x, s, h) ==
  /\ h \in x.holes
  /\ Takes(h, s)
  /\ \A g \in x.holes : Takes(g, s) =>
       \/ h.end - h.begin < g.end - g.begin
       \/ h.end - h.begin = g.end - g.begin /\ h.begin <= g.begin

EndAddr(x, s) ==
  IF Kind(s) = "anchor" \/ NeedsPage(s, x.cursor) THEN AlignToPage(x.cursor) ELSE x.cursor

AtEnd(x, s) ==
  With(x, s, EndAddr(x, s), x.holes \cup HoleSet(x.cursor, EndAddr(x, s)), EndAddr(x, s) + Size(s))

InHole(x, s, h) ==
  With(x, s, AddrIn(h, s),
       (x.holes \ {h}) \cup HoleSet(h.begin, AddrIn(h, s)) \cup HoleSet(AddrIn(h, s) + Size(s), h.end),
       x.cursor)

PlacementStep(x, y) ==
  \E s \in Sections :
    /\ FirstOf(x, s)
    /\ \/ /\ Kind(s) = "anchor" \/ \A h \in x.holes : ~Takes(h, s)
          /\ y = AtEnd(x, s)
       \/ /\ Kind(s) # "anchor"
          /\ \E h \in x.holes : SmallestHole(x, s, h) /\ y = InHole(x, s, h)

(* Only one block is next, and only one hole is the smallest.               *)
LEMMA StepOnce ==
  ASSUME input \in Inputs, NEW x \in PlacementStates, NEW y, NEW z,
         PlacementStep(x, y), PlacementStep(x, z)
  PROVE  y = z
<1>1. PICK s \in Sections :
        /\ FirstOf(x, s)
        /\ \/ /\ Kind(s) = "anchor" \/ \A h \in x.holes : ~Takes(h, s)
              /\ y = AtEnd(x, s)
           \/ /\ Kind(s) # "anchor"
              /\ \E h \in x.holes : SmallestHole(x, s, h) /\ y = InHole(x, s, h)
  BY DEF PlacementStep
<1>2. PICK t \in Sections :
        /\ FirstOf(x, t)
        /\ \/ /\ Kind(t) = "anchor" \/ \A h \in x.holes : ~Takes(h, t)
              /\ z = AtEnd(x, t)
           \/ /\ Kind(t) # "anchor"
              /\ \E h \in x.holes : SmallestHole(x, t, h) /\ z = InHole(x, t, h)
  BY DEF PlacementStep
<1>3. s = t
  <2>1. /\ Size(s) \in Nat /\ Size(t) \in Nat
        /\ input.order[s] \in Nat /\ input.order[t] \in Nat
    BY InputsAssumption DEF Size
  <2>2. \A k : Rank(k) \in Nat
    BY DEF Rank
  <2>3. ~(Precedes(s, t) /\ Precedes(t, s))
    <3>1. Rank(Kind(s)) \in Nat /\ Rank(Kind(t)) \in Nat
      BY <2>2
    <3>. QED
      BY <2>1, <3>1 DEF Precedes
  <2>. QED
    BY <1>1, <1>2, <2>3 DEF FirstOf
<1>4. \A g, h \in x.holes : SmallestHole(x, s, g) /\ SmallestHole(x, s, h) => g = h
  <2>. SUFFICES ASSUME NEW g \in x.holes, NEW h \in x.holes, SmallestHole(x, s, g), SmallestHole(x, s, h)
                PROVE  g = h
    OBVIOUS
  <2>1. g \in [begin : 0..MaxAddr, end : 0..MaxAddr] /\ h \in [begin : 0..MaxAddr, end : 0..MaxAddr]
    BY DEF PlacementStates
  <2>2. g.begin = h.begin /\ g.end = h.end
    <3>1. g.begin \in Int /\ h.begin \in Int /\ g.end \in Int /\ h.end \in Int
      BY <2>1
    <3>. QED
      BY <3>1 DEF SmallestHole
  <2>. QED
    BY <2>1, <2>2
<1>5. \A h : SmallestHole(x, s, h) => h \in x.holes /\ Takes(h, s)
  BY DEF SmallestHole
<1>. QED
  BY <1>1, <1>2, <1>3, <1>4, <1>5

PlacementRun(f, n, st) ==
  /\ f \in [0..n -> PlacementStates]
  /\ f[0] = EmptyPlacement(st)
  /\ \A i \in 0..(n - 1) : PlacementStep(f[i], f[i + 1])

Reached(st, x) == \E n \in Nat : \E f : PlacementRun(f, n, st) /\ f[n] = x

(* The runs of the placement: the empty one, and one step more.             *)
LEMMA ReachedFirst ==
  ASSUME input \in Inputs, NEW st \in 0..MaxAddr
  PROVE  Reached(st, EmptyPlacement(st))
<1>. DEFINE f == [i \in 0..0 |-> EmptyPlacement(st)]
<1>1. Given \subseteq Sections
  <2>1. FlattenSeq(input.descs) \in Seq(Sections)
    BY GivenFacts
  <2>. HIDE DEF f
  <2>. QED
    BY <2>1, RangeOfSeq DEF Given
<1>2. EmptyPlacement(st) \in PlacementStates
  <2>1. MaxAddr \in Nat
    BY BoundsAssumption DEF BoundsAssumption
  <2>. QED
    BY <1>1, <2>1 DEF EmptyPlacement, PlacementStates
<1>3. PlacementRun(f, 0, st) /\ f[0] = EmptyPlacement(st)
  <2>1. 0 \in 0..0 /\ 0..(0 - 1) = {}
    OBVIOUS
  <2>. QED
    BY <1>2, <2>1 DEF PlacementRun
<1>. HIDE DEF f
<1>. QED
  BY <1>3 DEF Reached

LEMMA ReachedNext ==
  ASSUME NEW st, NEW x, Reached(st, x), NEW y \in PlacementStates, PlacementStep(x, y)
  PROVE  Reached(st, y)
<1>a. PICK n \in Nat : \E f : PlacementRun(f, n, st) /\ f[n] = x
  BY DEF Reached
<1>1. PICK f : PlacementRun(f, n, st) /\ f[n] = x
  BY <1>a
<1>. DEFINE g == [i \in 0..n + 1 |-> IF i = n + 1 THEN y ELSE f[i]]
<1>2. f \in [0..n -> PlacementStates] /\ f[0] = EmptyPlacement(st)
      /\ \A i \in 0..(n - 1) : PlacementStep(f[i], f[i + 1])
  BY <1>1 DEF PlacementRun
<1>3. g \in [0..n + 1 -> PlacementStates]
  <2>1. \A i \in 0..n + 1 : i # n + 1 => i \in 0..n
    OBVIOUS
  <2>. QED
    BY <1>2, <2>1
<1>4. g[n + 1] = y /\ \A i \in 0..n : g[i] = f[i]
  OBVIOUS
<1>. HIDE DEF g
<1>5. \A i \in 0..n : PlacementStep(g[i], g[i + 1])
  <2>. SUFFICES ASSUME NEW i \in 0..n PROVE PlacementStep(g[i], g[i + 1])
    OBVIOUS
  <2>1. CASE i = n
    BY <1>1, <1>4, <2>1
  <2>2. CASE i # n
    <3>1. i \in 0..(n - 1) /\ i + 1 \in 0..n
      BY <2>2
    <3>. QED
      BY <1>2, <1>4, <3>1
  <2>. QED
    BY <2>1, <2>2
<1>6. n + 1 \in Nat /\ (n + 1) - 1 = n /\ 0 \in 0..n
  OBVIOUS
<1>7. PlacementRun(g, n + 1, st)
  BY <1>2, <1>3, <1>4, <1>5, <1>6 DEF PlacementRun
<1>. QED
  BY <1>4, <1>6, <1>7 DEF Reached

(* Two complete placements from one start address are the same.             *)
LEMMA ReachedOnce ==
  ASSUME input \in Inputs, NEW st, NEW x, NEW y,
         Reached(st, x), Reached(st, y), x.todo = {}, y.todo = {}
  PROVE  x = y
<1>a. PICK n \in Nat : \E f : PlacementRun(f, n, st) /\ f[n] = x
  BY DEF Reached
<1>1. PICK f : PlacementRun(f, n, st) /\ f[n] = x
  BY <1>a
<1>b. PICK m \in Nat : \E g : PlacementRun(g, m, st) /\ g[m] = y
  BY DEF Reached
<1>2. PICK g : PlacementRun(g, m, st) /\ g[m] = y
  BY <1>b
<1>3. /\ f \in [0..n -> PlacementStates] /\ f[0] = EmptyPlacement(st)
      /\ \A i \in 0..(n - 1) : PlacementStep(f[i], f[i + 1])
      /\ g \in [0..m -> PlacementStates] /\ g[0] = EmptyPlacement(st)
      /\ \A i \in 0..(m - 1) : PlacementStep(g[i], g[i + 1])
  BY <1>1, <1>2 DEF PlacementRun
<1>4. \A u, v : PlacementStep(u, v) => u.todo # {}
  BY DEF PlacementStep, FirstOf
<1>. DEFINE Differ == {i \in Nat : i <= n /\ i <= m /\ f[i] # g[i]}
<1>5. Differ = {}
  <2>. SUFFICES ASSUME Differ # {} PROVE FALSE
    OBVIOUS
  <2>0. Differ \subseteq Nat
    OBVIOUS
  <2>1. PICK i \in Differ : \A j \in Differ : i <= j
    <3>. HIDE DEF Differ
    <3>. QED
      BY <2>0, LeastElement
  <2>2. i \in Nat /\ i <= n /\ i <= m /\ f[i] # g[i] /\ i # 0
    BY <1>3
  <2>3. i - 1 \in Nat /\ i - 1 < i /\ i - 1 \in 0..(n - 1) /\ i - 1 \in 0..(m - 1) /\ (i - 1) + 1 = i
        /\ i - 1 \in 0..n /\ i - 1 \in 0..m
    BY <2>2
  <2>4. i - 1 \notin Differ
    <3>. HIDE DEF Differ
    <3>. QED
      BY <2>1, <2>2, <2>3
  <2>5. f[i - 1] = g[i - 1]
    BY <2>2, <2>3, <2>4
  <2>6. PlacementStep(f[i - 1], f[i]) /\ PlacementStep(f[i - 1], g[i]) /\ f[i - 1] \in PlacementStates
    BY <1>3, <2>3, <2>5
  <2>. QED
    BY <2>2, <2>6, StepOnce
<1>6. ~(n < m)
  <2>. SUFFICES ASSUME n < m PROVE FALSE
    OBVIOUS
  <2>1. n \in 0..(m - 1) /\ f[n] = g[n]
    BY <1>5
  <2>. QED
    BY <1>1, <1>3, <1>4, <2>1
<1>7. ~(m < n)
  <2>. SUFFICES ASSUME m < n PROVE FALSE
    OBVIOUS
  <2>1. m \in 0..(n - 1) /\ f[m] = g[m]
    BY <1>5
  <2>. QED
    BY <1>2, <1>3, <1>4, <2>1
<1>. QED
  BY <1>1, <1>2, <1>5, <1>6, <1>7

(* A placement is judged alike as long as the link is the same.             *)
LEMMA ReachedStays ==
  ASSUME UNCHANGED input
  PROVE  \A st, x : Reached(st, x)' <=> Reached(st, x)
<1>1. \A s, h : (Takes(h, s)' <=> Takes(h, s)) /\ AddrIn(h, s)' = AddrIn(h, s)
  BY DEF Takes, AddrIn, NeedsPage, IsWindow, Kind, Size, FitsWindow
<1>2. \A s, a : (NeedsPage(s, a)' <=> NeedsPage(s, a)) /\ Kind(s)' = Kind(s) /\ Size(s)' = Size(s)
  BY DEF NeedsPage, IsWindow, Kind, Size, FitsWindow
<1>3. \A s, t : Precedes(s, t)' <=> Precedes(s, t)
  BY DEF Precedes, Kind, Size
<1>4. \A x, s : FirstOf(x, s)' <=> FirstOf(x, s)
  BY <1>3 DEF FirstOf
<1>5. \A x, s, h : (SmallestHole(x, s, h)' <=> SmallestHole(x, s, h)) /\ InHole(x, s, h)' = InHole(x, s, h)
  BY <1>1, <1>2 DEF SmallestHole, InHole
<1>6. \A x, s : AtEnd(x, s)' = AtEnd(x, s)
  BY <1>2 DEF AtEnd, EndAddr
<1>7. \A x, y : PlacementStep(x, y)' <=> PlacementStep(x, y)
  BY <1>1, <1>2, <1>4, <1>5, <1>6 DEF PlacementStep
<1>8. \A st : EmptyPlacement(st)' = EmptyPlacement(st)
  BY DEF EmptyPlacement, Given
<1>. QED
  BY <1>7, <1>8 DEF Reached, PlacementRun

(* What the lists and the offsets are after a placement that gave out the   *)
(* addresses a.                                                             *)
OrderedBy(a) ==
  [i \in 1..Cardinality(Given) |->
     CHOOSE s \in Given :
       Cardinality({t \in Given : a[t] < a[s] \/ (a[t] = a[s] /\ input.order[t] < input.order[s])}) = i - 1]

WrittenFrom(a, st) ==
  /\ outSecOff = [s \in Sections |-> IF s \in Given THEN a[s] - st ELSE 0]
  /\ descs = [i \in DOMAIN descs |-> IF i = 1 THEN OrderedBy(a) ELSE <<>>]

(* The placement in progress is one from the start address of this pass,    *)
(* and what is written comes from a complete one from laidOut.              *)
RepeatInv ==
  /\ pc = "place" => Reached(start, Placement)
  /\ laidOut = -1 /\ ~NormalLayout => outSecOff = [s \in Sections |-> 0]
  /\ laidOut # -1 =>
       /\ ~NormalLayout
       /\ \E x : Reached(laidOut, x) /\ x.todo = {} /\ WrittenFrom(x.addr, laidOut)

LEMMA RepeatInitInv == Init => RepeatInv
BY DEF Init, RepeatInv

(* The members of .bss.pack are the sections of the link.                   *)
LEMMA GivenStays ==
  ASSUME OutputInv, UNCHANGED input
  PROVE  Members = Given /\ Given' = Given
BY MembersGiven DEF OutputInv, Given

(* Each of the three ways of placing a block is a step of the placement.    *)
LEMMA PlacingSteps ==
  ASSUME OutputInv, LayoutInv', PlaceAnchor \/ PlaceInBestHole \/ AppendBlock
  PROVE  PlacementStep(Placement, Placement') /\ Placement' \in PlacementStates
<1>1. Placement' \in PlacementStates
  BY DEF LayoutInv, LayoutType, Placement, PlacementStates
<1>2. todo \subseteq Sections
  BY DEF OutputInv, LayoutInv, LayoutType
<1>3. CASE PlaceAnchor
  <2>1. PICK s \in todo :
          /\ IsNext(s) /\ Kind(s) = "anchor"
          /\ Place(s, AlignToPage(cursor))
          /\ holes' = holes \cup HoleSet(cursor, AlignToPage(cursor))
          /\ cursor' = AlignToPage(cursor) + Size(s)
    BY <1>3 DEF PlaceAnchor, Placing
  <2>2. FirstOf(Placement, s)
    BY <2>1 DEF FirstOf, IsNext, Placement
  <2>3. EndAddr(Placement, s) = AlignToPage(cursor)
    BY <2>1 DEF EndAddr, Placement
  <2>4. Placement' = AtEnd(Placement, s)
    BY <2>1, <2>3 DEF AtEnd, With, Placement, Place
  <2>. QED
    BY <1>1, <1>2, <2>1, <2>2, <2>4 DEF PlacementStep
<1>4. CASE AppendBlock
  <2>1. PICK s \in todo :
          /\ IsNext(s) /\ Kind(s) # "anchor"
          /\ \A h \in holes : ~Takes(h, s)
          /\ Place(s, AppendAddr(s))
          /\ holes' = holes \cup HoleSet(cursor, AppendAddr(s))
          /\ cursor' = AppendAddr(s) + Size(s)
    BY <1>4 DEF AppendBlock, Placing
  <2>2. FirstOf(Placement, s)
    BY <2>1 DEF FirstOf, IsNext, Placement
  <2>3. EndAddr(Placement, s) = AppendAddr(s)
    BY <2>1 DEF EndAddr, AppendAddr, Placement
  <2>4. Placement' = AtEnd(Placement, s)
    BY <2>1, <2>3 DEF AtEnd, With, Placement, Place
  <2>5. \A h \in Placement.holes : ~Takes(h, s)
    BY <2>1 DEF Placement
  <2>. QED
    BY <1>1, <1>2, <2>1, <2>2, <2>4, <2>5 DEF PlacementStep
<1>5. CASE PlaceInBestHole
  <2>1. PICK s \in todo, h \in holes :
          /\ IsNext(s) /\ Kind(s) # "anchor"
          /\ BestHole(s, h)
          /\ Place(s, AddrIn(h, s))
          /\ holes' = (holes \ {h}) \cup HoleSet(h.begin, AddrIn(h, s))
                                    \cup HoleSet(AddrIn(h, s) + Size(s), h.end)
          /\ cursor' = cursor
    BY <1>5 DEF PlaceInBestHole, Placing
  <2>2. FirstOf(Placement, s)
    BY <2>1 DEF FirstOf, IsNext, Placement
  <2>3. h \in Placement.holes /\ SmallestHole(Placement, s, h)
    BY <2>1 DEF SmallestHole, BestHole, Placement
  <2>4. Placement' = InHole(Placement, s, h)
    BY <2>1 DEF InHole, With, Placement, Place
  <2>. QED
    BY <1>1, <1>2, <2>1, <2>2, <2>3, <2>4 DEF PlacementStep
<1>. QED
  BY <1>3, <1>4, <1>5

LEMMA RepeatNextInv ==
  ASSUME OutputInv, OutputInv', RepeatInv, [Next]_vars
  PROVE  RepeatInv'
<1>a. input' = input /\ input \in Inputs /\ Members = Given /\ Given' = Given
      /\ (NormalLayout' <=> NormalLayout)
  <2>1. input' = input
    BY DEF Next, StartPass, AssignNormally, GiveUp, RejectBlocks, StartLayout, PlaceAnchor,
           PlaceInBestHole, AppendBlock, Overflow, TooLarge, Finish, vars
  <2>. QED
    BY <2>1, GivenStays, MembersStay DEF OutputInv, LayoutInv, LayoutType
<1>b. \A st, x : Reached(st, x)' <=> Reached(st, x)
  BY <1>a, ReachedStays
<1>1. ASSUME pc' # "place", UNCHANGED <<descs, outSecOff, laidOut>>
      PROVE  RepeatInv'
  <2>1. \A a, st : WrittenFrom(a, st)' <=> WrittenFrom(a, st)
    BY <1>1, <1>a DEF WrittenFrom, OrderedBy
  <2>. QED
    BY <1>1, <1>a, <1>b, <2>1 DEF RepeatInv
<1>2. ASSUME pc' = "place", UNCHANGED <<descs, outSecOff, laidOut, start>>, Reached(start, Placement')
      PROVE  RepeatInv'
  <2>1. \A a, st : WrittenFrom(a, st)' <=> WrittenFrom(a, st)
    BY <1>2, <1>a DEF WrittenFrom, OrderedBy
  <2>. QED
    BY <1>2, <1>a, <1>b, <2>1 DEF RepeatInv
<1>3. CASE StartPass \/ GiveUp \/ RejectBlocks \/ Overflow \/ TooLarge
  <2>1. pc' # "place" /\ UNCHANGED <<descs, outSecOff, laidOut>>
    BY <1>3 DEF StartPass, GiveUp, RejectBlocks, Overflow, TooLarge
  <2>. QED
    BY <1>1, <2>1
<1>4. CASE AssignNormally
  <2>1. pc' = "idle" /\ NormalLayout /\ UNCHANGED <<descs, laidOut>>
    BY <1>4 DEF AssignNormally
  <2>. QED
    BY <1>a, <2>1 DEF RepeatInv
<1>5. CASE StartLayout
  <2>1. /\ pc' = "place" /\ UNCHANGED <<descs, outSecOff, laidOut, start>>
        /\ Placement' = EmptyPlacement(start)
    BY <1>5, <1>a DEF StartLayout, Placement, EmptyPlacement
  <2>2. start \in 0..MaxAddr
    BY DEF OutputInv, LayoutInv, LayoutType
  <2>3. Reached(start, EmptyPlacement(start))
    BY <1>a, <2>2, ReachedFirst
  <2>. QED
    BY <1>2, <2>1, <2>3
<1>6. CASE PlaceAnchor \/ PlaceInBestHole \/ AppendBlock
  <2>1. /\ pc = "place" /\ pc' = "place" /\ UNCHANGED <<descs, outSecOff, laidOut, start>>
    BY <1>6 DEF PlaceAnchor, PlaceInBestHole, AppendBlock, Placing
  <2>2. PlacementStep(Placement, Placement') /\ Placement' \in PlacementStates
    BY <1>6, PlacingSteps DEF OutputInv
  <2>3. Reached(start, Placement')
    BY <2>1, <2>2, ReachedNext DEF RepeatInv
  <2>. QED
    BY <1>2, <2>1, <2>3
<1>7. CASE Finish
  <2>1. /\ pc = "place" /\ pc' = "idle" /\ todo = {} /\ laidOut' = start
        /\ UNCHANGED <<start, addr>>
        /\ outSecOff' = [s \in Sections |-> IF s \in blocks THEN addr[s] - start ELSE outSecOff[s]]
        /\ descs' = [i \in DOMAIN descs |-> IF i = 1 THEN InAddressOrder(blocks) ELSE <<>>]
    BY <1>7 DEF Finish, layoutVars
  <2>2. blocks = Given /\ ~NormalLayout
    BY <1>a, <2>1 DEF OutputInv, WriteInv
  <2>3. InAddressOrder(blocks) = OrderedBy(addr)
    BY <2>2 DEF InAddressOrder, OrderedBy, Before, ComesBefore
  <2>4. \A s \in Sections : s \notin Given => outSecOff[s] = 0
    <3>1. CASE laidOut = -1
      BY <2>2, <3>1 DEF RepeatInv
    <3>2. CASE laidOut # -1
      BY <3>2 DEF RepeatInv, WrittenFrom
    <3>. QED
      BY <3>1, <3>2
  <2>5. PICK x : x = Placement
    OBVIOUS
  <2>6. PICK st : st = start
    OBVIOUS
  <2>7. Reached(st, x) /\ x.todo = {} /\ x.addr = addr
    BY <2>1, <2>5, <2>6 DEF RepeatInv, Placement
  <2>8. WrittenFrom(x.addr, st)'
    <3>1. outSecOff' = [s \in Sections |-> IF s \in Given THEN x.addr[s] - st ELSE 0]
      BY <2>1, <2>2, <2>4, <2>6, <2>7
    <3>2. descs' = [i \in DOMAIN descs' |-> IF i = 1 THEN OrderedBy(x.addr) ELSE <<>>]
      BY <2>1, <2>3, <2>7
    <3>3. OrderedBy(x.addr)' = OrderedBy(x.addr)
      BY <1>a DEF OrderedBy
    <3>. QED
      BY <1>a, <3>1, <3>2, <3>3 DEF WrittenFrom
  <2>9. laidOut' = st /\ Reached(laidOut, x)' /\ WrittenFrom(x.addr, laidOut)'
    BY <1>b, <2>1, <2>6, <2>7, <2>8
  <2>10. laidOut' # -1
    <3>1. start \in 0..MaxAddr /\ MaxAddr \in Nat
      BY BoundsAssumption DEF BoundsAssumption, OutputInv, LayoutInv, LayoutType
    <3>. QED
      BY <2>1, <3>1
  <2>. QED
    BY <1>a, <2>1, <2>2, <2>7, <2>9, <2>10 DEF RepeatInv
<1>8. CASE UNCHANGED vars
  <2>1. UNCHANGED <<descs, outSecOff, laidOut, start, pc>> /\ Placement' = Placement
    BY <1>8 DEF vars, layoutVars, Placement
  <2>2. CASE pc = "place"
    BY <1>2, <2>1, <2>2 DEF RepeatInv
  <2>3. CASE pc # "place"
    BY <1>1, <2>1, <2>3
  <2>. QED
    BY <2>2, <2>3
<1>. QED
  BY <1>3, <1>4, <1>5, <1>6, <1>7, <1>8 DEF Next

(* Two layouts from one start address write the same.                       *)
LEMMA RepeatStep ==
  ASSUME OutputInv, RepeatInv, Finish, laidOut = start
  PROVE  UNCHANGED <<descs, outSecOff>>
<1>1. /\ pc = "place" /\ todo = {}
      /\ outSecOff' = [s \in Sections |-> IF s \in blocks THEN addr[s] - start ELSE outSecOff[s]]
      /\ descs' = [i \in DOMAIN descs |-> IF i = 1 THEN InAddressOrder(blocks) ELSE <<>>]
  BY DEF Finish
<1>2. start \in Nat /\ input \in Inputs
  <2>1. start \in 0..MaxAddr /\ MaxAddr \in Nat
    BY BoundsAssumption DEF BoundsAssumption, OutputInv, LayoutInv, LayoutType
  <2>. QED
    BY <2>1 DEF OutputInv, LayoutInv, LayoutType
<1>3. PICK x : Reached(start, x) /\ x.todo = {} /\ WrittenFrom(x.addr, start)
  <2>1. laidOut # -1
    BY <1>2
  <2>. QED
    BY <2>1 DEF RepeatInv
<1>4. Reached(start, Placement) /\ Placement.todo = {} /\ Placement.addr = addr
  BY <1>1 DEF RepeatInv, Placement
<1>5. x.addr = addr
  BY <1>2, <1>3, <1>4, ReachedOnce
<1>6. blocks = Given
  BY <1>1, MembersGiven DEF OutputInv, WriteInv, Given
<1>7. InAddressOrder(blocks) = OrderedBy(addr)
  BY <1>6 DEF InAddressOrder, OrderedBy, Before, ComesBefore
<1>8. /\ outSecOff = [s \in Sections |-> IF s \in Given THEN addr[s] - start ELSE 0]
      /\ descs = [i \in DOMAIN descs |-> IF i = 1 THEN OrderedBy(addr) ELSE <<>>]
  BY <1>3, <1>5 DEF WrittenFrom
<1>9. outSecOff' = outSecOff
  BY <1>1, <1>6, <1>8
<1>10. descs' = descs
  BY <1>1, <1>7, <1>8
<1>. QED
  BY <1>9, <1>10

(* The linker's passes converge: a pass that finds .bss.pack where the last *)
(* layout found it repeats that layout, although that layout has reordered  *)
(* the lists this one reads (assignV6ClangPackedSectionOffsets).            *)
THEOREM PassesConverge == Spec => Repeatable
<1>1. OutputInv /\ RepeatInv /\ OutputInv' /\ [Next]_vars => RepeatInv'
  BY RepeatNextInv
<1>2. OutputInv /\ RepeatInv /\ [Next]_vars =>
        [(Finish /\ laidOut = start) => UNCHANGED <<descs, outSecOff>>]_vars
  BY RepeatStep
<1>. QED
  BY <1>1, <1>2, OutputInitInv, OutputNextInv, RepeatInitInv, PTL DEF Spec, Repeatable
=============================================================================
