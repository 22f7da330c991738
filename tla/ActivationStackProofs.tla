------------------------- MODULE ActivationStackProofs -------------------------
(***************************************************************************)
(* Proofs about the running program, for whatever pass gave some of its     *)
(* functions frames at fixed addresses: fns are these functions and layout  *)
(* says where the objects of their frames lie.  The types; who may be live  *)
(* above whom; and that no function of fns is entered twice, nor a byte of  *)
(* its frame overwritten, when it cannot come back to itself and no         *)
(* interrupt handler reaches it.                                            *)
(***************************************************************************)
EXTENDS ActivationStack, SequenceTheorems, TLAPS

(* A well-formed program has the fields the pass reads, in their types.     *)
LEMMA ProgramFacts ==
  ASSUME prog \in Programs
  PROVE  /\ prog.sites \in [Funcs -> Seq(Site)]
         /\ \A f \in Funcs : Len(prog.sites[f]) \in 0..MaxSites
         /\ prog.isrAttr \subseteq Funcs
         /\ prog.main \in Defined(prog)
         /\ prog.handlers \subseteq Funcs
         /\ prog.objs \in [Funcs -> Seq(Obj)]
         /\ \A f \in Funcs : Len(prog.objs[f]) \in 0..MaxObjs
         /\ prog.reach \in [Funcs -> SUBSET Funcs]
         /\ IsReach(prog)
         /\ Truthful(prog)
         /\ Defined(prog) \subseteq Funcs
<1>1. WellFormed(prog)
  BY ProgramsAssumption
<1>2. ProgramType(prog) /\ IsReach(prog) /\ Truthful(prog)
  BY <1>1 DEF WellFormed
<1>. QED
  BY <1>2, BoundsAssumption DEF ProgramType, Defined, BoundsAssumption

(* What is left of a sequence when its last element is popped.              *)
LEMMA PoppedSeq ==
  ASSUME NEW S, NEW s \in Seq(S), Len(s) \in Nat \ {0}
  PROVE  /\ Len(SubSeq(s, 1, Len(s) - 1)) = Len(s) - 1
         /\ \A k \in 1..Len(s) - 1 : SubSeq(s, 1, Len(s) - 1)[k] = s[k]
<1>. DEFINE m == Len(s) - 1
<1>1. m \in 0..Len(s) /\ m \in Int
  OBVIOUS
<1>2. Len(s) = m + 1
  OBVIOUS
<1>. HIDE DEF m
<1>3. /\ Len(SubSeq(s, 1, m)) = IF 1 <= m THEN m - 1 + 1 ELSE 0
      /\ \A k \in 1..m - 1 + 1 : SubSeq(s, 1, m)[k] = s[1 + k - 1]
  BY <1>1, <1>2, SubSeqProperties
<1>. QED
  BY <1>1, <1>2, <1>3 DEF m

-----------------------------------------------------------------------------
Act == [fn : Funcs, irq : BOOLEAN, stored : SUBSET (1..MaxObjs)]

FromHandler(f) == f \in prog.handlers \/ \E h \in prog.handlers : f \in prog.reach[h]

(* Within one stretch of calls the lower activation reaches the higher one; *)
(* across an interrupt, a handler does.                                     *)
CallShape ==
  \A i, j \in 1..Len(stack) : i < j =>
    IF \E k \in 1..Len(stack) : i < k /\ k <= j /\ stack[k].irq
    THEN FromHandler(stack[j].fn)
    ELSE stack[j].fn \in prog.reach[stack[i].fn]

StackInv == prog \in Programs /\ RunTypeOK /\ CallShape

LEMMA StackInitInv == RunInit /\ prog \in Programs => StackInv
<1>. SUFFICES ASSUME RunInit, prog \in Programs PROVE StackInv
  OBVIOUS
<1>1. RunTypeOK
  <2>1. 0 \in 0..MaxObjs
    BY BoundsAssumption DEF BoundsAssumption
  <2>2. Nobody \in [depth : Nat, obj : 0..MaxObjs]
    BY <2>1 DEF Nobody
  <2>3. stack = <<>> /\ inte = FALSE /\ mem = [f \in Funcs |-> [b \in FrameBytes |-> Nobody]]
    BY DEF RunInit
  <2>. HIDE DEF Nobody
  <2>4. mem \in [Funcs -> [FrameBytes -> [depth : Nat, obj : 0..MaxObjs]]]
    BY <2>2, <2>3
  <2>5. stack \in Seq([fn : Funcs, irq : BOOLEAN, stored : SUBSET (1..MaxObjs)])
    BY <2>3
  <2>. QED
    BY <2>3, <2>4, <2>5 DEF RunTypeOK
<1>2. CallShape
  BY DEF RunInit, CallShape
<1>. QED
  BY <1>1, <1>2 DEF StackInv

(* Pushing an activation that the top one calls, or that an interrupt       *)
(* starts, keeps the shape of the stack.                                    *)
LEMMA PushShape ==
  ASSUME StackInv, prog' = prog,
         NEW a \in Act, stack' = Append(stack, a),
         \/ stack = <<>>
         \/ a.irq /\ a.fn \in prog.handlers
         \/ stack # <<>> /\ ~a.irq /\ a.fn \in Targets(prog, Running)
  PROVE  CallShape' /\ stack' \in Seq(Act)
<1>. DEFINE n == Len(stack)
<1>a. stack \in Seq(Act) /\ n \in Nat /\ prog \in Programs
  BY DEF StackInv, RunTypeOK, Act
<1>b. /\ Len(stack') = n + 1 /\ stack'[n + 1] = a
      /\ \A k \in 1..n : stack'[k] = stack[k] /\ stack[k].fn \in Funcs
  <2>1. Len(stack') = n + 1 /\ stack'[n + 1] = a /\ \A k \in 1..n : stack'[k] = stack[k]
    BY <1>a
  <2>2. \A k \in 1..n : stack[k] \in Act
    BY <1>a
  <2>. QED
    BY <2>1, <2>2 DEF Act
<1>c. stack' \in Seq(Act)
  BY <1>a
<1>. HIDE DEF n
<1>1. ASSUME NEW i \in 1..n + 1, NEW j \in 1..n + 1, i < j
      PROVE  IF \E k \in 1..n + 1 : i < k /\ k <= j /\ stack'[k].irq
             THEN FromHandler(stack'[j].fn)
             ELSE stack'[j].fn \in prog.reach[stack'[i].fn]
  <2>1. CASE j \in 1..n
    <3>1. i \in 1..n
      BY <1>a, <1>1, <2>1
    <3>2. (\E k \in 1..n + 1 : i < k /\ k <= j /\ stack'[k].irq)
            <=> (\E k \in 1..n : i < k /\ k <= j /\ stack[k].irq)
      BY <1>a, <1>b, <2>1
    <3>. QED
      BY <1>1, <1>b, <2>1, <3>1, <3>2 DEF StackInv, CallShape, n
  <2>2. CASE j = n + 1
    <3>1. i \in 1..n /\ stack'[j] = a /\ stack'[i] = stack[i] /\ stack # <<>> /\ n \in 1..n
      BY <1>a, <1>b, <1>1, <2>2 DEF n
    <3>2. CASE a.irq /\ a.fn \in prog.handlers
      <4>1. \E k \in 1..n + 1 : i < k /\ k <= j /\ stack'[k].irq
        <5>1. n + 1 \in 1..n + 1 /\ i < n + 1 /\ n + 1 <= j
          BY <1>a, <1>1, <2>2
        <5>. QED
          BY <1>b, <3>2, <5>1
      <4>. QED
        BY <3>1, <3>2, <4>1 DEF FromHandler
    <3>3. CASE ~a.irq /\ a.fn \in Targets(prog, stack[n].fn)
      <4>1. a.fn \in prog.reach[stack[n].fn] /\ stack[n].fn \in Funcs
        BY <1>a, <1>b, <3>1, <3>3, ProgramFacts DEF IsReach
      <4>2. (\E k \in 1..n + 1 : i < k /\ k <= j /\ stack'[k].irq)
              <=> (\E k \in 1..n : i < k /\ k <= n /\ stack[k].irq)
        BY <1>a, <1>b, <2>2, <3>1, <3>3
      <4>3. CASE i = n
        <5>1. ~(\E k \in 1..n : i < k /\ k <= n /\ stack[k].irq)
          BY <1>a, <4>3
        <5>. QED
          BY <3>1, <4>1, <4>2, <4>3, <5>1
      <4>4. CASE i < n
        <5>1. IF \E k \in 1..n : i < k /\ k <= n /\ stack[k].irq
              THEN FromHandler(stack[n].fn)
              ELSE stack[n].fn \in prog.reach[stack[i].fn]
          BY <3>1, <4>4 DEF StackInv, CallShape, n
        <5>2. FromHandler(stack[n].fn) => FromHandler(a.fn)
          <6>1. \A h \in prog.handlers : h \in Funcs
            BY <1>a, ProgramFacts
          <6>2. \A h \in prog.handlers : stack[n].fn \in prog.reach[h] =>
                   prog.reach[stack[n].fn] \subseteq prog.reach[h]
            BY <1>a, <4>1, <6>1, ProgramFacts DEF IsReach
          <6>. QED
            BY <4>1, <6>2 DEF FromHandler
        <5>3. stack[n].fn \in prog.reach[stack[i].fn] => a.fn \in prog.reach[stack[i].fn]
          BY <1>a, <1>b, <3>1, <4>1, ProgramFacts DEF IsReach
        <5>. QED
          BY <3>1, <4>2, <5>1, <5>2, <5>3
      <4>5. i = n \/ i < n
        BY <1>a, <3>1
      <4>. QED
        BY <4>3, <4>4, <4>5
    <3>. QED
      BY <3>1, <3>2, <3>3 DEF Running, n
  <2>3. j \in 1..n \/ j = n + 1
    BY <1>a
  <2>. QED
    BY <2>1, <2>2, <2>3
<1>2. \A f : FromHandler(f)' <=> FromHandler(f)
  BY DEF FromHandler
<1>. QED
  BY <1>b, <1>c, <1>1, <1>2 DEF CallShape

(* A stack that keeps the functions and the interrupt marks of a prefix     *)
(* keeps the shape.                                                         *)
LEMMA PrefixShape ==
  ASSUME CallShape, prog' = prog, Len(stack) \in Nat,
         Len(stack') \in Nat, Len(stack') <= Len(stack),
         \A k \in 1..Len(stack') : stack'[k].fn = stack[k].fn /\ stack'[k].irq = stack[k].irq
  PROVE  CallShape'
<1>1. ASSUME NEW i \in 1..Len(stack'), NEW j \in 1..Len(stack'), i < j
      PROVE  IF \E k \in 1..Len(stack') : i < k /\ k <= j /\ stack'[k].irq
             THEN FromHandler(stack'[j].fn)
             ELSE stack'[j].fn \in prog.reach[stack'[i].fn]
  <2>1. i \in 1..Len(stack) /\ j \in 1..Len(stack)
    OBVIOUS
  <2>2. (\E k \in 1..Len(stack') : i < k /\ k <= j /\ stack'[k].irq)
          <=> (\E k \in 1..Len(stack) : i < k /\ k <= j /\ stack[k].irq)
    <3>1. \A k \in 1..Len(stack) : k <= j => k \in 1..Len(stack')
      BY <1>1
    <3>2. \A k \in 1..Len(stack') : k \in 1..Len(stack)
      OBVIOUS
    <3>. QED
      BY <3>1, <3>2
  <2>3. stack'[i].fn = stack[i].fn /\ stack'[j].fn = stack[j].fn
    BY <1>1
  <2>. QED
    BY <1>1, <2>1, <2>2, <2>3 DEF CallShape
<1>2. \A f : FromHandler(f)' <=> FromHandler(f)
  BY DEF FromHandler
<1>. QED
  BY <1>1, <1>2 DEF CallShape

(* What a store to a static frame leaves in memory has its type.            *)
LEMMA StoreType ==
  ASSUME StackInv, NEW fns, NEW layout, StoreObject(fns, layout)
  PROVE  /\ stack' \in Seq(Act)
         /\ Len(stack') = Len(stack)
         /\ \A k \in 1..Len(stack) : stack'[k].fn = stack[k].fn /\ stack'[k].irq = stack[k].irq
         /\ mem' \in [Funcs -> [FrameBytes -> [depth : Nat, obj : 0..MaxObjs]]]
         /\ inte' = inte /\ prog' = prog
<1>. DEFINE n == Len(stack)
<1>1. PICK i \in 1..MaxObjs :
        /\ stack # <<>>
        /\ mem' = [mem EXCEPT ![Running] =
                     [b \in FrameBytes |-> IF b \in layout[Running][i].off..(layout[Running][i].off + layout[Running][i].size - 1)
                                           THEN [depth |-> n, obj |-> i]
                                           ELSE mem[Running][b]]]
        /\ stack' = [stack EXCEPT ![n] = [stack[n] EXCEPT !.stored = @ \cup {i}]]
        /\ inte' = inte /\ prog' = prog
  BY DEF StoreObject
<1>2. stack \in Seq(Act) /\ n \in Nat \ {0} /\ n \in 1..n
  BY <1>1 DEF StackInv, RunTypeOK, Act
<1>3. stack[n] \in Act /\ Running = stack[n].fn
  BY <1>2 DEF Running
<1>. DEFINE top == [stack[n] EXCEPT !.stored = @ \cup {i}]
<1>4. top \in Act /\ top.fn = stack[n].fn /\ top.irq = stack[n].irq
  BY <1>3 DEF Act
<1>5. Running \in Funcs
  BY <1>3 DEF Act
<1>6. stack' = [stack EXCEPT ![n] = top]
  BY <1>1
<1>. HIDE DEF top, n
<1>7. stack' \in Seq(Act) /\ Len(stack') = Len(stack)
  BY <1>2, <1>4, <1>6 DEF n
<1>8. \A k \in 1..Len(stack) : stack'[k] = IF k = n THEN top ELSE stack[k]
  BY <1>2, <1>6 DEF n
<1>. DEFINE new == [b \in FrameBytes |-> IF b \in layout[Running][i].off..(layout[Running][i].off + layout[Running][i].size - 1)
                                           THEN [depth |-> n, obj |-> i]
                                           ELSE mem[Running][b]]
<1>9. new \in [FrameBytes -> [depth : Nat, obj : 0..MaxObjs]]
  <2>1. [depth |-> n, obj |-> i] \in [depth : Nat, obj : 0..MaxObjs]
    BY <1>1, <1>2, BoundsAssumption DEF BoundsAssumption
  <2>2. mem[Running] \in [FrameBytes -> [depth : Nat, obj : 0..MaxObjs]]
    BY <1>5 DEF StackInv, RunTypeOK
  <2>. QED
    BY <2>1, <2>2
<1>10. mem' = [mem EXCEPT ![Running] = new]
  BY <1>1 DEF n
<1>. HIDE DEF new
<1>11. mem' \in [Funcs -> [FrameBytes -> [depth : Nat, obj : 0..MaxObjs]]]
  BY <1>9, <1>10 DEF StackInv, RunTypeOK
<1>. QED
  BY <1>1, <1>4, <1>7, <1>8, <1>11

(* Every step of the program keeps the types and the shape of the stack,    *)
(* whichever functions have static frames.                                  *)
LEMMA StackNextInv ==
  ASSUME StackInv, NEW fns, NEW layout, RunNext(fns, layout)
  PROVE  StackInv'
<1>b. prog' = prog
  BY DEF RunNext, Start, Call, Return, Interrupt, SetInte, StoreObject
<1>e. stack \in Seq(Act) /\ Len(stack) \in Nat /\ prog \in Programs
  BY DEF StackInv, RunTypeOK, Act
<1>f. ASSUME stack' \in Seq(Act), inte' \in BOOLEAN, mem' = mem, CallShape'
      PROVE  StackInv'
  BY <1>b, <1>f DEF StackInv, RunTypeOK, Act
<1>g. inte \in BOOLEAN
  BY DEF StackInv, RunTypeOK
<1>1. CASE Start
  <2>1. stack = <<>> /\ stack' = Append(stack, Activation(prog.main, FALSE)) /\ inte' = inte /\ mem' = mem
    BY <1>1 DEF Start
  <2>2. Activation(prog.main, FALSE) \in Act
    BY <1>e, ProgramFacts DEF Activation, Act
  <2>. QED
    BY <1>b, <1>f, <1>g, <2>1, <2>2, PushShape
<1>2. CASE Call
  <2>1. PICK t \in Targets(prog, Running) : stack' = Append(stack, Activation(t, FALSE))
    BY <1>2 DEF Call
  <2>2. stack # <<>> /\ inte' = inte /\ mem' = mem
    BY <1>2 DEF Call
  <2>3. Activation(t, FALSE) \in Act
    BY <2>1 DEF Targets, SiteTargets, Activation, Act
  <2>4. ~Activation(t, FALSE).irq /\ Activation(t, FALSE).fn = t
    BY DEF Activation
  <2>. QED
    BY <1>b, <1>f, <1>g, <2>1, <2>2, <2>3, <2>4, PushShape
<1>3. CASE Return
  <2>1. Len(stack) > 1 /\ stack' = SubSeq(stack, 1, Len(stack) - 1) /\ inte' = inte /\ mem' = mem
    BY <1>3 DEF Return
  <2>2. stack' \in Seq(Act) /\ Len(stack) \in Nat \ {0}
    BY <1>e, <2>1
  <2>3. Len(stack') = Len(stack) - 1 /\ \A k \in 1..Len(stack) - 1 : stack'[k] = stack[k]
    BY <1>e, <2>1, <2>2, PoppedSeq
  <2>4. CallShape'
    BY <1>b, <1>e, <2>2, <2>3, PrefixShape DEF StackInv
  <2>. QED
    BY <1>f, <1>g, <2>1, <2>2, <2>4
<1>4. CASE Interrupt
  <2>1. PICK h \in prog.handlers : stack' = Append(stack, Activation(h, TRUE))
    BY <1>4 DEF Interrupt
  <2>2. inte' = FALSE /\ mem' = mem
    BY <1>4 DEF Interrupt
  <2>3. Activation(h, TRUE) \in Act
    BY <1>e, <2>1, ProgramFacts DEF Activation, Act
  <2>4. Activation(h, TRUE).irq /\ Activation(h, TRUE).fn = h
    BY DEF Activation
  <2>. QED
    BY <1>b, <1>f, <2>1, <2>2, <2>3, <2>4, PushShape
<1>5. CASE SetInte
  <2>1. stack' = stack /\ mem' = mem /\ inte' \in BOOLEAN
    BY <1>5, <1>g DEF SetInte
  <2>2. CallShape'
    BY <1>b, <1>e, <2>1, PrefixShape DEF StackInv
  <2>. QED
    BY <1>e, <1>f, <2>1, <2>2
<1>6. CASE StoreObject(fns, layout)
  <2>1. CallShape'
    BY <1>b, <1>e, <1>6, StoreType, PrefixShape DEF StackInv
  <2>2. RunTypeOK'
    BY <1>6, <1>g, StoreType DEF RunTypeOK, Act
  <2>. QED
    BY <1>b, <1>e, <2>1, <2>2 DEF StackInv
<1>. QED
  BY <1>1, <1>2, <1>3, <1>4, <1>5, <1>6 DEF RunNext

LEMMA StackStutterInv ==
  ASSUME StackInv, UNCHANGED <<prog, stack, inte, mem>>
  PROVE  StackInv'
<1>1. \A f : FromHandler(f)' <=> FromHandler(f)
  BY DEF FromHandler
<1>. QED
  BY <1>1 DEF StackInv, RunTypeOK, CallShape

-----------------------------------------------------------------------------
(* A function with a body that a search from the marked handlers has not    *)
(* found is not entered from a handler.                                     *)
LEMMA OutsideHandlers ==
  ASSUME ClosedInterrupts(prog), NEW found \in SUBSET Funcs, prog.isrAttr \subseteq found,
         \A f \in found : VisibleCallees(prog, f) \subseteq found,
         NEW f \in Defined(prog), f \notin found
  PROVE  ~FromHandler(f)
<1>1. prog.handlers \subseteq found
  BY DEF ClosedInterrupts
<1>2. \A h \in prog.handlers : prog.reach[h] \cap Defined(prog) \subseteq found
  BY DEF ClosedInterrupts
<1>. QED
  BY <1>1, <1>2 DEF FromHandler

(* What cannot come back to itself and is not entered from a handler is     *)
(* never live twice.                                                        *)
LEMMA NotReenteredStack ==
  ASSUME StackInv, NEW fns, \A f \in fns : f \notin prog.reach[f] /\ ~FromHandler(f)
  PROVE  NotReenteredIn(fns)
<1>. SUFFICES ASSUME NEW i \in 1..Len(stack), NEW j \in 1..Len(stack), i < j,
                     stack[i].fn \in fns, stack[i].fn = stack[j].fn
              PROVE  FALSE
  BY DEF NotReenteredIn
<1>1. IF \E k \in 1..Len(stack) : i < k /\ k <= j /\ stack[k].irq
      THEN FromHandler(stack[j].fn)
      ELSE stack[j].fn \in prog.reach[stack[i].fn]
  BY DEF StackInv, CallShape
<1>. QED
  BY <1>1

Bytes(o) == o.off..(o.off + o.size - 1)

(* The objects of every frame share no byte.                                *)
ApartIn(fns, layout) ==
  \A f \in fns : \A i, j \in 1..MaxObjs :
    i # j /\ layout[f][j].size > 0 => Bytes(layout[f][i]) \cap Bytes(layout[f][j]) = {}

(* A store by the running activation leaves intact what every other object  *)
(* of its frame, and every other live activation, has stored.               *)
LEMMA FramesStore ==
  ASSUME StackInv, NEW fns, NEW layout, NotReenteredIn(fns), ApartIn(fns, layout),
         FramesIntactIn(fns, layout), StoreObject(fns, layout)
  PROVE  FramesIntactIn(fns, layout)'
<1>. DEFINE n == Len(stack)
            bytes(g, i) == layout[g][i].off..(layout[g][i].off + layout[g][i].size - 1)
<1>1. PICK i0 \in 1..MaxObjs :
        /\ stack # <<>>
        /\ Running \in fns
        /\ layout[Running][i0].size > 0
        /\ mem' = [mem EXCEPT ![Running] =
                     [b \in FrameBytes |-> IF b \in bytes(Running, i0)
                                           THEN [depth |-> n, obj |-> i0]
                                           ELSE mem[Running][b]]]
        /\ stack' = [stack EXCEPT ![n] = [stack[n] EXCEPT !.stored = @ \cup {i0}]]
  BY DEF StoreObject
<1>2. stack \in Seq(Act) /\ n \in Nat \ {0} /\ n \in 1..n
  BY <1>1 DEF StackInv, RunTypeOK, Act
<1>3. \A k \in 1..n : stack[k] \in Act /\ stack[k].fn \in Funcs
  <2>1. \A k \in 1..n : stack[k] \in Act
    BY <1>2
  <2>. QED
    BY <2>1 DEF Act
<1>4. Running = stack[n].fn /\ Running \in Funcs
  BY <1>2, <1>3 DEF Running
<1>5. /\ Len(stack') = n
      /\ \A d \in 1..n : stack'[d].fn = stack[d].fn
      /\ \A d \in 1..n : d # n => stack'[d].stored = stack[d].stored
      /\ stack'[n].stored = stack[n].stored \cup {i0}
  <2>. DEFINE top == [stack[n] EXCEPT !.stored = @ \cup {i0}]
  <2>1. top.fn = stack[n].fn /\ top.stored = stack[n].stored \cup {i0}
    BY <1>2, <1>3 DEF Act
  <2>2. stack' = [stack EXCEPT ![n] = top]
    BY <1>1
  <2>. HIDE DEF top, n
  <2>3. Len(stack') = n /\ \A k \in 1..n : stack'[k] = IF k = n THEN top ELSE stack[k]
    BY <1>2, <2>2 DEF n
  <2>. QED
    BY <1>2, <2>1, <2>3
<1>6. /\ \A g \in Funcs : g # Running => mem'[g] = mem[g]
      /\ \A b \in FrameBytes : mem'[Running][b] = IF b \in bytes(Running, i0)
                                                   THEN [depth |-> n, obj |-> i0]
                                                   ELSE mem[Running][b]
  <2>. DEFINE new == [b \in FrameBytes |-> IF b \in bytes(Running, i0)
                                           THEN [depth |-> n, obj |-> i0]
                                           ELSE mem[Running][b]]
  <2>1. \A b \in FrameBytes : new[b] = IF b \in bytes(Running, i0)
                                       THEN [depth |-> n, obj |-> i0]
                                       ELSE mem[Running][b]
    OBVIOUS
  <2>2. mem' = [mem EXCEPT ![Running] = new]
    BY <1>1
  <2>. HIDE DEF new, bytes, n
  <2>3. mem'[Running] = new /\ \A g \in Funcs : g # Running => mem'[g] = mem[g]
    BY <1>4, <2>2 DEF StackInv, RunTypeOK
  <2>. QED
    BY <2>1, <2>3
<1>8. \A d \in 1..n : stack[d].fn \in fns => \A i \in stack[d].stored : \A b \in FrameBytes :
         b \in bytes(stack[d].fn, i) => mem[stack[d].fn][b] = [depth |-> d, obj |-> i]
  BY DEF FramesIntactIn
<1>9. ASSUME NEW i \in 1..MaxObjs, i # i0, NEW b \in FrameBytes, b \in bytes(Running, i)
      PROVE  b \notin bytes(Running, i0)
  BY <1>1, <1>9 DEF ApartIn, Bytes
<1>10. \A d \in 1..n : d # n /\ stack[d].fn \in fns => stack[d].fn # Running
  <2>1. \A d \in 1..n : d # n => d < n
    BY <1>2
  <2>. QED
    BY <1>2, <1>4, <2>1 DEF NotReenteredIn
<1>11. stack[n].stored \subseteq 1..MaxObjs
  BY <1>2, <1>3 DEF Act
<1>. HIDE DEF n, bytes
<1>12. ASSUME NEW d \in 1..n, stack[d].fn \in fns, NEW i \in stack'[d].stored,
              NEW b \in FrameBytes, b \in bytes(stack[d].fn, i)
       PROVE  mem'[stack[d].fn][b] = [depth |-> d, obj |-> i]
  <2>1. CASE d # n
    BY <1>3, <1>5, <1>6, <1>8, <1>10, <1>12, <2>1
  <2>2. CASE d = n /\ i = i0
    BY <1>4, <1>6, <1>12, <2>2
  <2>3. CASE d = n /\ i # i0
    <3>1. i \in stack[n].stored /\ i \in 1..MaxObjs
      BY <1>5, <1>11, <1>12, <2>3
    <3>2. mem[Running][b] = [depth |-> n, obj |-> i]
      BY <1>1, <1>2, <1>4, <1>8, <1>12, <2>3, <3>1
    <3>. QED
      BY <1>4, <1>6, <1>9, <1>12, <2>3, <3>1, <3>2
  <2>. QED
    BY <2>1, <2>2, <2>3
<1>. QED
  BY <1>5, <1>12 DEF FramesIntactIn, bytes, n

(* No step of the program overwrites what a live activation has stored.     *)
LEMMA FramesNext ==
  ASSUME StackInv, NEW fns, NEW layout, NotReenteredIn(fns), ApartIn(fns, layout),
         FramesIntactIn(fns, layout), RunNext(fns, layout)
  PROVE  FramesIntactIn(fns, layout)'
<1>a. stack \in Seq(Act) /\ Len(stack) \in Nat
  BY DEF StackInv, RunTypeOK, Act
<1>1. ASSUME mem' = mem, NEW a, a.stored = {}, stack' = Append(stack, a)
      PROVE  FramesIntactIn(fns, layout)'
  <2>1. /\ Len(stack') = Len(stack) + 1 /\ stack'[Len(stack) + 1] = a
        /\ \A k \in 1..Len(stack) : stack'[k] = stack[k]
    BY <1>a, <1>1
  <2>2. \A k \in 1..Len(stack) + 1 : k \in 1..Len(stack) \/ k = Len(stack) + 1
    BY <1>a
  <2>. QED
    BY <1>1, <2>1, <2>2 DEF FramesIntactIn
<1>2. CASE Start \/ Call \/ Interrupt
  <2>a. \A x : <<x>> = Append(<<>>, x)
    OBVIOUS
  <2>b. Start => stack' = Append(stack, Activation(prog.main, FALSE))
    BY <2>a DEF Start
  <2>c. Call => \E t : stack' = Append(stack, Activation(t, FALSE))
    BY DEF Call
  <2>d. Interrupt => \E h : stack' = Append(stack, Activation(h, TRUE))
    BY DEF Interrupt
  <2>1. /\ mem' = mem
        /\ \E f, q : stack' = Append(stack, Activation(f, q))
    <3>1. mem' = mem
      BY <1>2 DEF Start, Call, Interrupt
    <3>. QED
      BY <1>2, <2>b, <2>c, <2>d, <3>1
  <2>2. \A f, q : Activation(f, q).stored = {}
    BY DEF Activation
  <2>. QED
    BY <1>1, <2>1, <2>2
<1>3. CASE Return
  <2>1. Len(stack) > 1 /\ stack' = SubSeq(stack, 1, Len(stack) - 1) /\ mem' = mem
    BY <1>3 DEF Return
  <2>2. Len(stack') = Len(stack) - 1 /\ \A k \in 1..Len(stack) - 1 : stack'[k] = stack[k]
    BY <1>a, <2>1, PoppedSeq
  <2>3. \A k \in 1..Len(stack) - 1 : k \in 1..Len(stack)
    BY <1>a
  <2>. QED
    <3>1. \A k \in 1..Len(stack') : k \in 1..Len(stack) /\ stack'[k] = stack[k]
      BY <2>2, <2>3
    <3>. SUFFICES ASSUME NEW d \in 1..Len(stack'), stack'[d].fn \in fns,
                         NEW i \in stack'[d].stored, NEW b \in FrameBytes,
                         b \in layout[stack'[d].fn][i].off
                                 ..(layout[stack'[d].fn][i].off + layout[stack'[d].fn][i].size - 1)
                  PROVE  mem'[stack'[d].fn][b] = [depth |-> d, obj |-> i]
      BY Zenon DEF FramesIntactIn
    <3>2. d \in 1..Len(stack) /\ stack'[d] = stack[d]
      BY <3>1
    <3>3. mem[stack[d].fn][b] = [depth |-> d, obj |-> i]
      BY <3>2, Zenon DEF FramesIntactIn
    <3>. QED
      BY <2>1, <3>2, <3>3
<1>4. CASE SetInte
  BY <1>4 DEF SetInte, FramesIntactIn
<1>5. CASE StoreObject(fns, layout)
  BY <1>5, FramesStore
<1>. QED
  BY <1>2, <1>3, <1>4, <1>5 DEF RunNext
=============================================================================
