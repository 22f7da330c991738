------------------------------- MODULE CallGraph -------------------------------
(***************************************************************************)
(* The program the static-stack passes look at: the functions of one LLVM   *)
(* module, their call sites in order, the attributes the passes read, and   *)
(* the frame objects register allocation left them.  A function in p.decl   *)
(* is a declaration: it has no body in this module, and p.sites[f] is then  *)
(* what its body in another translation unit does, which the passes never   *)
(* look at and the running machine does.                                    *)
(***************************************************************************)
EXTENDS Naturals, Sequences

CONSTANTS
  Funcs,      \* the functions of the linked program
  NoFunc,     \* getCalledFunction() of an indirect call or of inline asm
  MaxSites,   \* bound: call sites in one body
  MaxObjs,    \* bound: frame objects of one function
  MaxSize,    \* bound: bytes of one frame object
  Programs    \* the programs a run considers

VARIABLE prog

Kinds == {"direct", "indirect", "asm"}

Site == [kind : Kinds, callee : Funcs \cup {NoFunc}, nocb : BOOLEAN]

Obj == [size : 0..MaxSize, dead : BOOLEAN]

Defined(p) == Funcs \ p.decl

(* What a call site may transfer control to at run time.  An indirect call  *)
(* goes to some function whose address is taken; inline asm calls nothing.  *)
SiteTargets(p, s) ==
  {t \in Funcs : \/ s.kind = "direct" /\ t = s.callee
                 \/ s.kind = "indirect" /\ t \in p.addrTaken}

Targets(p, f) == UNION {SiteTargets(p, p.sites[f][i]) : i \in DOMAIN p.sites[f]}

(* The call is promised not to come back into this module: the attribute is *)
(* on the call site, or on the function it names.                           *)
PromisesNoCallback(p, s) ==
  s.kind # "asm" /\ (s.nocb \/ (s.kind = "direct" /\ s.callee \in p.noCallback))

(* Mutant: an indirect call passed over like inline asm.                    *)
SafeSiteIndirect(p, s) ==
  \/ s.kind # "direct"
  \/ PromisesNoCallback(p, s)
  \/ s.callee \in p.noRecurse

(* The call sites V6ClangStaticStackAlloc passes over: inline asm, a call   *)
(* promised not to call back, and a call of a norecurse function.           *)
SafeSite(p, s) ==
  \/ s.kind = "asm"
  \/ PromisesNoCallback(p, s)
  \/ s.kind = "direct" /\ s.callee \in p.noRecurse

(* A direct call whose callee has its body in this module.                  *)
VisibleCall(p, s) == s.kind = "direct" /\ s.callee \in Defined(p)

VisibleCallees(p, f) ==
  {g \in Defined(p) : f \in Defined(p) /\ \E i \in DOMAIN p.sites[f] :
                         p.sites[f][i].kind = "direct" /\ p.sites[f][i].callee = g}

-----------------------------------------------------------------------------
ProgramType(p) ==
  /\ p.decl \subseteq Funcs
  /\ p.sites \in [Funcs -> Seq(Site)]
  /\ \A f \in Funcs : Len(p.sites[f]) <= MaxSites
  /\ \A f \in Funcs : \A i \in DOMAIN p.sites[f] :
       (p.sites[f][i].kind = "direct") <=> (p.sites[f][i].callee # NoFunc)
  /\ p.isrAttr \subseteq Funcs
  /\ p.noRecurse \subseteq Funcs
  /\ p.noCallback \subseteq Funcs
  /\ p.addrTaken \subseteq Funcs
  /\ p.handlers \subseteq Funcs
  /\ p.main \in Defined(p)
  /\ p.objs \in [Funcs -> Seq(Obj)]
  /\ \A f \in Funcs : Len(p.objs[f]) <= MaxObjs
  /\ p.reach \in [Funcs -> SUBSET Funcs]

(* p.reach[f] is what a run of f can call, directly or through others: the  *)
(* least transitive relation that contains the targets of every site.       *)
IsReach(p) ==
  /\ \A f \in Funcs : Targets(p, f) \subseteq p.reach[f]
  /\ \A f, g \in Funcs : g \in p.reach[f] => p.reach[g] \subseteq p.reach[f]
  /\ \A f \in Funcs : \A S \in SUBSET Funcs :
       (Targets(p, f) \subseteq S /\ \A g \in S : Targets(p, g) \subseteq S)
         => p.reach[f] \subseteq S

(* The attributes say the truth: a norecurse function never comes back to   *)
(* itself, and a call promised not to call back reaches no function of this *)
(* module (beyond the one it names).                                        *)
Truthful(p) ==
  /\ \A f \in p.noRecurse : f \notin p.reach[f]
  /\ \A f \in Funcs : \A i \in DOMAIN p.sites[f] :
       PromisesNoCallback(p, p.sites[f][i]) =>
         \A t \in SiteTargets(p, p.sites[f][i]) : p.reach[t] \cap Defined(p) = {}

(* What the interrupt analysis takes for granted about the linked program:  *)
(* every installed handler carries the "interrupt" attribute, and whatever  *)
(* a handler can reach in this module it reaches by direct calls of         *)
(* functions defined here.                                                  *)
ClosedInterrupts(p) ==
  /\ p.handlers \subseteq p.isrAttr
  /\ \A S \in SUBSET Funcs :
       (p.isrAttr \subseteq S /\ \A f \in S : VisibleCallees(p, f) \subseteq S)
         => \A h \in p.handlers : p.reach[h] \cap Defined(p) \subseteq S

WellFormed(p) == ProgramType(p) /\ IsReach(p) /\ Truthful(p)

ASSUME BoundsAssumption ==
  MaxSites \in Nat /\ MaxObjs \in Nat /\ MaxSize \in Nat /\ NoFunc \notin Funcs

ASSUME ProgramsAssumption == \A p \in Programs : WellFormed(p)
=============================================================================
