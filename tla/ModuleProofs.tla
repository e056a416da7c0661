------------------------------ MODULE ModuleProofs ------------------------------
(***************************************************************************)
(* Proofs about trees of modules, in two parts.                            *)
(*                                                                         *)
(* ModuleTree, for any number of modules, calls and children: the children *)
(* form a forest whose edges are the owners, whatever the build()          *)
(* callbacks do to it in the middle of a materialization, and the guard of *)
(* a materialization is set exactly as long as it lasts.                   *)
(*                                                                         *)
(* ModuleMove, for any number of layers and parameters and machines with   *)
(* any accelerator: Module.to never leaves a part of a model on another    *)
(* device without saying so, and it closes every handle it opens, once.    *)
(***************************************************************************)
EXTENDS ModuleTree, ModuleMove, SequenceTheorems, FiniteSetTheorems, WellFoundedInduction,
        TLAPS

(***************************************************************************)
(* The invariant.                                                          *)
(***************************************************************************)

\* A number that no constructor has returned is nobody's child or owner.
UnbuiltIsBare ==
  \A m \in Module : kind[m] = "unbuilt" =>
    children[m] = <<>> /\ owner[m] = NoModule /\ ~disposed[m]

ChildrenAreBuilt == \A p \in Module : Elements(children[p]) \subseteq Built

\* The children form no circle: every set of modules has one that is no child
\* of the others.
NoCircle ==
  \A S \in SUBSET Module :
    S # {} => \E o \in S : \A p \in S : o \notin Elements(children[p])

TreeInv == UnbuiltIsBare /\ ChildrenAreBuilt /\ SingleOwner /\ NoCircle

\* What the cycle check has seen or will see.
Reached(f) == f.visited \cup Elements(f.agenda)

\* A call in progress, in a tree of these kinds and children.  The cycle check
\* has seen only modules whose trees are built, and will see all their children.
FrameOK(f, k, ch) ==
  /\ Materializes(f) => k[f.of] = "model" /\ ch[f.of] = <<>>
  /\ f.op = "build" => f.visited = {}
  /\ f.op = "contains" =>
       /\ f.root \in Reached(f)
       /\ \A m \in Reached(f) : k[m] # "unbuilt"
       /\ f.of \notin f.visited
       /\ \A v \in f.visited : /\ ~(k[v] = "model" /\ ch[v] = <<>>)
                               /\ Elements(ch[v]) \subseteq Reached(f)

SearchInv == \A i \in DOMAIN stack : FrameOK(stack[i], kind, children)

IInv == TypeOK /\ TreeInv /\ SearchInv /\ BuildingIsScoped

-------------------------------------------------------------------------------
(***************************************************************************)
(* Sequential attaches the children before the first one it refuses.       *)
(***************************************************************************)

LEMMA LeastNumber ==
  ASSUME NEW T \in SUBSET Nat, T # {}
  PROVE  \E x \in T : \A y \in T : x <= y
<1> DEFINE R == OpToRel(<, Nat)
<1>1. IsWellFoundedOn(R, Nat)
  BY NatLessThanWellFounded
<1>2. PICK x \in T : \A y \in T : <<y, x>> \notin R
  BY <1>1, WFMin
<1>3. ASSUME NEW y \in T PROVE x <= y
  <2>1. <<y, x>> \notin R
    BY <1>2
  <2>2. ~(y < x)
    BY <2>1 DEF OpToRel
  <2>3. QED
    BY <2>2
<1>4. QED
  BY <1>3

\* There is always a first refusal, or none.
LEMMA AttachedCountIs ==
  ASSUME NEW list \in Seq(Module)
  PROVE  LET n == AttachedCount(list) IN
         n \in 0 .. Len(list) /\ \A i \in 1 .. n :
           Attachable(list[i]) /\ \A j \in 1 .. i - 1 : list[j] # list[i]
<1> DEFINE Good(i) == Attachable(list[i]) /\ \A j \in 1 .. i - 1 : list[j] # list[i]
           Bad == {i \in 1 .. Len(list) : ~Good(i)}
           Last(n) == /\ \A i \in 1 .. n : Good(i)
                      /\ n < Len(list) =>
                           ~ ( /\ Attachable(list[n + 1])
                               /\ \A j \in 1 .. n : list[j] # list[n + 1] )
<1>1. Len(list) \in Nat
  BY LenProperties
<1>2. \E n \in 0 .. Len(list) : Last(n)
  <2>1. CASE Bad = {}
    <3>1. Last(Len(list))
      BY <1>1, <2>1
    <3>2. QED
      BY <1>1, <3>1
  <2>2. CASE Bad # {}
    <3>0. Bad \in SUBSET Nat
      BY <1>1
    <3>1. PICK b \in Bad : \A i \in Bad : b <= i
      <4> HIDE DEF Bad
      <4>1. QED
        BY <2>2, <3>0, LeastNumber
    <3>2. b - 1 \in 0 .. Len(list) /\ b \in 1 .. Len(list) /\ ~Good(b)
      BY <1>1
    <3>3. \A i \in 1 .. b - 1 : Good(i)
      BY <1>1, <3>1, <3>2
    <3>4. Last(b - 1)
      <4>1. (b - 1) + 1 = b
        BY <3>2
      <4>2. QED
        BY <3>2, <3>3, <4>1
    <3>5. QED
      BY <3>2, <3>4
  <2>3. QED
    BY <2>1, <2>2
<1>3. AttachedCount(list) = CHOOSE n \in 0 .. Len(list) : Last(n)
  BY DEF AttachedCount
<1>4. AttachedCount(list) \in 0 .. Len(list) /\ Last(AttachedCount(list))
  BY <1>2, <1>3
<1>5. QED
  BY <1>4

-------------------------------------------------------------------------------
(***************************************************************************)
(* Sequences and their elements.                                           *)
(***************************************************************************)

LEMMA ElementsAre ==
  ASSUME NEW S, NEW s \in Seq(S)
  PROVE  /\ \A x : x \in Elements(s) <=> \E i \in 1 .. Len(s) : x = s[i]
         /\ Elements(s) \subseteq S
<1>1. DOMAIN s = 1 .. Len(s) /\ s \in [1 .. Len(s) -> S]
  BY LenProperties
<1>2. QED
  BY <1>1 DEF Elements

LEMMA ElementsOfEmpty == Elements(<<>>) = {}
  BY DEF Elements

LEMMA ElementsOfOne ==
  ASSUME NEW S, NEW e \in S
  PROVE  Elements(<<e>>) = {e} /\ <<e>> \in Seq(S)
  BY DEF Elements

LEMMA ElementsOfConcat ==
  ASSUME NEW S, NEW s \in Seq(S), NEW t \in Seq(S)
  PROVE  s \o t \in Seq(S) /\ Elements(s \o t) = Elements(s) \cup Elements(t)
<1>1. /\ Len(s) \in Nat /\ Len(t) \in Nat
      /\ s \o t \in Seq(S) /\ Len(s \o t) = Len(s) + Len(t)
      /\ \A i \in 1 .. Len(s) + Len(t) : (s \o t)[i] =
           IF i <= Len(s) THEN s[i] ELSE t[i - Len(s)]
  BY ConcatProperties, LenProperties
<1>2. ASSUME NEW x PROVE x \in Elements(s \o t) <=> x \in Elements(s) \cup Elements(t)
  <2>1. /\ x \in Elements(s) <=> \E i \in 1 .. Len(s) : x = s[i]
        /\ x \in Elements(t) <=> \E i \in 1 .. Len(t) : x = t[i]
        /\ x \in Elements(s \o t) <=> \E i \in 1 .. Len(s) + Len(t) : x = (s \o t)[i]
    <3>1. x \in Elements(s) <=> \E i \in 1 .. Len(s) : x = s[i]
      BY ElementsAre
    <3>2. x \in Elements(t) <=> \E i \in 1 .. Len(t) : x = t[i]
      BY ElementsAre
    <3>3. x \in Elements(s \o t) <=> \E i \in 1 .. Len(s \o t) : x = (s \o t)[i]
      BY <1>1, ElementsAre
    <3>4. QED
      BY <1>1, <3>1, <3>2, <3>3
  <2>2. ASSUME NEW i \in 1 .. Len(s) + Len(t), x = (s \o t)[i]
        PROVE  x \in Elements(s) \cup Elements(t)
    <3>1. CASE i <= Len(s)
      BY <1>1, <2>1, <2>2, <3>1
    <3>2. CASE ~(i <= Len(s))
      <4>1. i - Len(s) \in 1 .. Len(t) /\ x = t[i - Len(s)]
        BY <1>1, <2>2, <3>2
      <4>2. QED
        BY <2>1, <4>1
    <3>3. QED
      BY <3>1, <3>2
  <2>3. ASSUME NEW i \in 1 .. Len(s), x = s[i] PROVE x \in Elements(s \o t)
    BY <1>1, <2>1, <2>3
  <2>4. ASSUME NEW i \in 1 .. Len(t), x = t[i] PROVE x \in Elements(s \o t)
    <3>1. i + Len(s) \in 1 .. Len(s) + Len(t) /\ x = (s \o t)[i + Len(s)]
      BY <1>1, <2>4
    <3>2. QED
      BY <2>1, <3>1
  <2>5. QED
    BY <2>1, <2>2, <2>3, <2>4
<1>3. QED
  BY <1>1, <1>2

LEMMA HeadAndTail ==
  ASSUME NEW S, NEW s \in Seq(S), s # <<>>
  PROVE  /\ Head(s) \in S /\ Tail(s) \in Seq(S)
         /\ Elements(s) = {Head(s)} \cup Elements(Tail(s))
<1>1. /\ Head(s) \in S /\ Tail(s) \in Seq(S) /\ Len(Tail(s)) = Len(s) - 1
      /\ \A i \in 1 .. Len(Tail(s)) : Tail(s)[i] = s[i + 1]
      /\ Len(s) \in Nat \ {0} /\ Head(s) = s[1]
  BY HeadTailProperties, EmptySeq
<1>2. ASSUME NEW x PROVE x \in Elements(s) <=> x = Head(s) \/ x \in Elements(Tail(s))
  <2>1. /\ x \in Elements(s) <=> \E i \in 1 .. Len(s) : x = s[i]
        /\ x \in Elements(Tail(s)) <=> \E i \in 1 .. Len(Tail(s)) : x = Tail(s)[i]
    <3>1. x \in Elements(s) <=> \E i \in 1 .. Len(s) : x = s[i]
      BY ElementsAre
    <3>2. x \in Elements(Tail(s)) <=> \E i \in 1 .. Len(Tail(s)) : x = Tail(s)[i]
      BY <1>1, ElementsAre
    <3>3. QED
      BY <3>1, <3>2
  <2>2. ASSUME NEW i \in 1 .. Len(s), x = s[i], i # 1
        PROVE  x \in Elements(Tail(s))
    <3>1. i - 1 \in 1 .. Len(Tail(s)) /\ x = Tail(s)[i - 1]
      BY <1>1, <2>2
    <3>2. QED
      BY <2>1, <3>1
  <2>3. ASSUME NEW i \in 1 .. Len(Tail(s)), x = Tail(s)[i]
        PROVE  x \in Elements(s)
    <3>1. i + 1 \in 1 .. Len(s) /\ x = s[i + 1]
      BY <1>1, <2>3
    <3>2. QED
      BY <2>1, <3>1
  <2>4. 1 \in 1 .. Len(s)
    BY <1>1
  <2>5. QED
    BY <1>1, <2>1, <2>2, <2>3, <2>4
<1>3. QED
  BY <1>1, <1>2

-----------------------------------------------------------------------------
(***************************************************************************)
(* The stack of calls: pushed, popped, and changed at the top.             *)
(***************************************************************************)

LEMMA FrameType ==
  ASSUME NEW f \in Frame
  PROVE  /\ f.op \in {"walk", "build", "contains"} /\ f.of \in Module
         /\ f.root \in Module /\ f.agenda \in Seq(Module) /\ f.visited \in SUBSET Module
  BY DEF Frame

LEMMA TopIsFrame ==
  ASSUME NEW s \in Seq(Frame), s # <<>>
  PROVE  /\ Len(s) \in Nat \ {0} /\ DOMAIN s = 1 .. Len(s)
         /\ Len(s) \in DOMAIN s /\ s[Len(s)] \in Frame
<1>1. Len(s) \in Nat \ {0} /\ DOMAIN s = 1 .. Len(s)
  BY EmptySeq, LenProperties
<1>2. Len(s) \in 1 .. Len(s)
  BY <1>1
<1>3. QED
  BY <1>1, <1>2, ElementOfSeq

LEMMA Pushed ==
  ASSUME NEW s \in Seq(Frame), NEW f \in Frame, NEW t, t = Append(s, f)
  PROVE  /\ t \in Seq(Frame) /\ t # <<>>
         /\ Len(s) \in Nat /\ DOMAIN s = 1 .. Len(s)
         /\ DOMAIN t = 1 .. Len(s) + 1
         /\ \A i \in DOMAIN s : t[i] = s[i]
         /\ t[Len(s) + 1] = f
<1>1. /\ t \in Seq(Frame) /\ t # <<>> /\ Len(t) = Len(s) + 1
      /\ \A i \in 1 .. Len(s) : t[i] = s[i] /\ t[Len(s) + 1] = f
      /\ t[Len(s) + 1] = f
  BY AppendProperties
<1>2. DOMAIN s = 1 .. Len(s) /\ Len(s) \in Nat /\ DOMAIN t = 1 .. Len(t)
  BY <1>1, LenProperties
<1>3. QED
  BY <1>1, <1>2

LEMMA Popped ==
  ASSUME NEW s \in Seq(Frame), s # <<>>, NEW t, t = SubSeq(s, 1, Len(s) - 1)
  PROVE  /\ t \in Seq(Frame)
         /\ Len(s) \in Nat \ {0} /\ DOMAIN s = 1 .. Len(s)
         /\ DOMAIN t = 1 .. Len(s) - 1
         /\ \A i \in DOMAIN t : t[i] = s[i]
         /\ Len(t) = Len(s) - 1
<1>1. Len(s) \in Nat \ {0} /\ DOMAIN s = 1 .. Len(s)
  BY TopIsFrame
<1>2. \A i \in 1 .. Len(s) - 1 : s[i] \in Frame
  BY <1>1, ElementOfSeq
<1>3. /\ t \in Seq(Frame)
      /\ Len(t) = IF 1 <= Len(s) - 1 THEN Len(s) - 1 - 1 + 1 ELSE 0
      /\ \A i \in 1 .. Len(s) - 1 - 1 + 1 : t[i] = s[1 + i - 1]
  BY <1>1, <1>2, SubSeqProperties
<1>4. Len(t) = Len(s) - 1
  BY <1>1, <1>3
<1>5. DOMAIN t = 1 .. Len(s) - 1
  BY <1>3, <1>4, LenProperties
<1>6. \A i \in DOMAIN t : t[i] = s[i]
  BY <1>1, <1>3, <1>5
<1>7. QED
  BY <1>1, <1>3, <1>4, <1>5, <1>6

LEMMA Changed ==
  ASSUME NEW s \in Seq(Frame), s # <<>>, NEW f \in Frame,
         NEW t, t = [s EXCEPT ![Len(s)] = f]
  PROVE  /\ t \in Seq(Frame) /\ t # <<>>
         /\ DOMAIN t = DOMAIN s /\ DOMAIN s = 1 .. Len(s) /\ Len(s) \in DOMAIN s
         /\ \A i \in DOMAIN t : t[i] = IF i = Len(s) THEN f ELSE s[i]
<1>1. Len(s) \in Nat \ {0} /\ DOMAIN s = 1 .. Len(s) /\ Len(s) \in 1 .. Len(s)
  BY TopIsFrame
<1>2. /\ t \in Seq(Frame) /\ Len(t) = Len(s)
      /\ \A j \in 1 .. Len(s) : t[j] = IF j = Len(s) THEN f ELSE s[j]
  BY <1>1, ExceptSeq
<1>3. DOMAIN t = 1 .. Len(t) /\ t # <<>>
  BY <1>1, <1>2, LenProperties, EmptySeq
<1>4. QED
  BY <1>1, <1>2, <1>3

\* The calls in progress are consistent with the tree and with _building.
FramesOK(s, k, ch) == \A i \in DOMAIN s : FrameOK(s[i], k, ch)

Scoped(b, s) ==
  /\ \A m \in Module :
       b[m] <=> \E i \in DOMAIN s : Materializes(s[i]) /\ s[i].of = m
  /\ \A i, j \in DOMAIN s :
       (Materializes(s[i]) /\ Materializes(s[j]) /\ s[i].of = s[j].of) => i = j

Calls(s, b, k, ch) ==
  /\ s \in Seq(Frame) /\ b \in [Module -> BOOLEAN]
  /\ FramesOK(s, k, ch) /\ Scoped(b, s)

LEMMA CallsMean ==
  TypeOK /\ SearchInv /\ BuildingIsScoped <=> TypeOK /\ Calls(stack, building, kind, children)
  BY DEF TypeOK, SearchInv, BuildingIsScoped, Calls, FramesOK, Scoped

\* A call returns or throws; a Model it was materializing stops building.
LEMMA PopKeepsCalls ==
  ASSUME NEW s, NEW b, NEW k, NEW ch, Calls(s, b, k, ch), s # <<>>,
         NEW t, t = SubSeq(s, 1, Len(s) - 1),
         NEW c, c = IF Materializes(s[Len(s)]) THEN [b EXCEPT ![s[Len(s)].of] = FALSE]
                                               ELSE b
  PROVE  Calls(t, c, k, ch) /\ (Len(s) # 1 => t # <<>>)
<1>0. s \in Seq(Frame)
  BY DEF Calls
<1>1. /\ t \in Seq(Frame)
      /\ Len(s) \in Nat \ {0} /\ DOMAIN s = 1 .. Len(s)
      /\ DOMAIN t = 1 .. Len(s) - 1
      /\ \A i \in DOMAIN t : t[i] = s[i]
      /\ Len(t) = Len(s) - 1
  BY <1>0, Popped
<1>2. \A i \in DOMAIN t : i \in DOMAIN s /\ i # Len(s) /\ t[i] = s[i]
  BY <1>1
<1>3. \A i \in DOMAIN s : i = Len(s) \/ i \in DOMAIN t
  BY <1>1
<1>4. Len(s) \in DOMAIN s /\ s[Len(s)] \in Frame /\ s[Len(s)].of \in Module
  BY <1>0, <1>1, TopIsFrame, FrameType
<1>5. FramesOK(t, k, ch)
  BY <1>2 DEF Calls, FramesOK
<1>6. c \in [Module -> BOOLEAN]
  BY DEF Calls
<1>7. \A i, j \in DOMAIN t :
        (Materializes(t[i]) /\ Materializes(t[j]) /\ t[i].of = t[j].of) => i = j
  BY <1>2 DEF Calls, Scoped
<1>8. ASSUME NEW m \in Module
      PROVE  c[m] <=> \E i \in DOMAIN t : Materializes(t[i]) /\ t[i].of = m
  <2>1. b[m] <=> \E i \in DOMAIN s : Materializes(s[i]) /\ s[i].of = m
    BY DEF Calls, Scoped
  <2>2. CASE Materializes(s[Len(s)]) /\ s[Len(s)].of = m
    <3>1. \A i \in DOMAIN s : Materializes(s[i]) /\ s[i].of = m => i = Len(s)
      BY <1>4, <2>2 DEF Calls, Scoped
    <3>2. ~ \E i \in DOMAIN t : Materializes(t[i]) /\ t[i].of = m
      BY <1>2, <3>1
    <3>3. c[m] = FALSE
      BY <2>2 DEF Calls
    <3>4. QED
      BY <3>2, <3>3
  <2>3. CASE ~(Materializes(s[Len(s)]) /\ s[Len(s)].of = m)
    <3>1. c[m] = b[m]
      BY <1>4, <2>3 DEF Calls
    <3>2. (\E i \in DOMAIN s : Materializes(s[i]) /\ s[i].of = m)
            <=> \E i \in DOMAIN t : Materializes(t[i]) /\ t[i].of = m
      BY <1>2, <1>3, <2>3
    <3>3. QED
      BY <2>1, <3>1, <3>2
  <2>4. QED
    BY <2>2, <2>3
<1>9. ASSUME Len(s) # 1 PROVE t # <<>>
  <2>1. Len(t) # 0
    BY <1>1, <1>9
  <2>2. Len(<<>>) = 0
    BY EmptySeq
  <2>3. QED
    BY <2>1, <2>2
<1>10. QED
  BY <1>1, <1>5, <1>6, <1>7, <1>8, <1>9 DEF Calls, Scoped

\* A call is made: a traversal, or the build() of a Model that is not building.
LEMMA PushKeepsCalls ==
  ASSUME NEW s, NEW b, NEW k, NEW ch, Calls(s, b, k, ch),
         NEW f \in Frame, FrameOK(f, k, ch),
         NEW t, t = Append(s, f),
         NEW c, c = IF Materializes(f) THEN [b EXCEPT ![f.of] = TRUE] ELSE b,
         Materializes(f) => ~b[f.of]
  PROVE  Calls(t, c, k, ch) /\ t # <<>>
<1>1. /\ t \in Seq(Frame) /\ t # <<>>
      /\ Len(s) \in Nat /\ DOMAIN s = 1 .. Len(s)
      /\ DOMAIN t = 1 .. Len(s) + 1
      /\ \A i \in DOMAIN s : t[i] = s[i]
      /\ t[Len(s) + 1] = f
  BY Pushed DEF Calls
<1>2. \A i \in DOMAIN t : i \in DOMAIN s \/ i = Len(s) + 1
  BY <1>1
<1>3. \A i \in DOMAIN s : i \in DOMAIN t /\ i # Len(s) + 1
  BY <1>1
<1>4. Len(s) + 1 \in DOMAIN t /\ f.of \in Module
  BY <1>1, FrameType
<1>5. FramesOK(t, k, ch)
  BY <1>1, <1>2 DEF Calls, FramesOK
<1>6. c \in [Module -> BOOLEAN]
  BY DEF Calls
<1>7. ASSUME Materializes(f), NEW i \in DOMAIN s, Materializes(s[i])
      PROVE  s[i].of # f.of
  BY <1>4, <1>7 DEF Calls, Scoped
<1>8. \A i, j \in DOMAIN t :
        (Materializes(t[i]) /\ Materializes(t[j]) /\ t[i].of = t[j].of) => i = j
  <2>1. SUFFICES ASSUME NEW i \in DOMAIN t, NEW j \in DOMAIN t,
                        Materializes(t[i]), Materializes(t[j]), t[i].of = t[j].of
                 PROVE  i = j
    OBVIOUS
  <2>2. CASE i \in DOMAIN s /\ j \in DOMAIN s
    BY <1>1, <2>1, <2>2 DEF Calls, Scoped
  <2>3. CASE i = Len(s) + 1 \/ j = Len(s) + 1
    BY <1>1, <1>2, <1>7, <2>1, <2>3
  <2>4. QED
    BY <1>2, <2>2, <2>3
<1>9. ASSUME NEW m \in Module
      PROVE  c[m] <=> \E i \in DOMAIN t : Materializes(t[i]) /\ t[i].of = m
  <2>1. b[m] <=> \E i \in DOMAIN s : Materializes(s[i]) /\ s[i].of = m
    BY DEF Calls, Scoped
  <2>2. c[m] <=> b[m] \/ (Materializes(f) /\ f.of = m)
    BY <1>4 DEF Calls
  <2>3. (\E i \in DOMAIN t : Materializes(t[i]) /\ t[i].of = m)
          <=> \/ \E i \in DOMAIN s : Materializes(s[i]) /\ s[i].of = m
              \/ Materializes(f) /\ f.of = m
    BY <1>1, <1>2, <1>3, <1>4
  <2>4. QED
    BY <2>1, <2>2, <2>3
<1>10. QED
  BY <1>1, <1>5, <1>6, <1>8, <1>9 DEF Calls, Scoped

\* The call on top goes on: what it materializes, if anything, stays the same.
LEMMA ChangeKeepsCalls ==
  ASSUME NEW s, NEW b, NEW k, NEW ch, Calls(s, b, k, ch), s # <<>>,
         NEW f \in Frame, FrameOK(f, k, ch),
         Materializes(f) <=> Materializes(s[Len(s)]), f.of = s[Len(s)].of,
         NEW t, t = [s EXCEPT ![Len(s)] = f]
  PROVE  Calls(t, b, k, ch) /\ t # <<>>
<1>1. /\ t \in Seq(Frame) /\ t # <<>>
      /\ DOMAIN t = DOMAIN s /\ DOMAIN s = 1 .. Len(s) /\ Len(s) \in DOMAIN s
      /\ \A i \in DOMAIN t : t[i] = IF i = Len(s) THEN f ELSE s[i]
  BY Changed DEF Calls
<1>2. FramesOK(t, k, ch)
  BY <1>1 DEF Calls, FramesOK
<1>3. \A i \in DOMAIN s : (Materializes(t[i]) <=> Materializes(s[i])) /\ t[i].of = s[i].of
  BY <1>1
<1>4. Scoped(b, t)
  <2>1. Scoped(b, s)
    BY DEF Calls
  <2>2. \A m \in Module :
          b[m] <=> \E i \in DOMAIN t : Materializes(t[i]) /\ t[i].of = m
    BY <1>1, <1>3, <2>1 DEF Scoped
  <2>3. \A i, j \in DOMAIN t :
          (Materializes(t[i]) /\ Materializes(t[j]) /\ t[i].of = t[j].of) => i = j
    BY <1>1, <1>3, <2>1 DEF Scoped
  <2>4. QED
    BY <2>2, <2>3 DEF Scoped
<1>5. QED
  BY <1>1, <1>2, <1>4 DEF Calls

\* The tree changes away from the calls in progress.
LEMMA TreeChangeKeepsCalls ==
  ASSUME NEW s, NEW b, NEW k, NEW ch, Calls(s, b, k, ch),
         NEW k2, NEW ch2,
         \A i \in DOMAIN s : FrameOK(s[i], k2, ch2)
  PROVE  Calls(s, b, k2, ch2)
  BY DEF Calls, FramesOK

-------------------------------------------------------------------------------
(***************************************************************************)
(* The steps of the calls in progress, which leave the tree alone.         *)
(***************************************************************************)

\* A step that leaves the tree and the calls in order leaves everything in order.
LEMMA CallStep ==
  ASSUME IInv, UNCHANGED tree,
         Calls(stack', building', kind, children),
         raised' \in BOOLEAN, raised' => stack' # <<>>,
         calls' \in 0 .. MaxCalls
  PROVE  IInv'
<1>1. UNCHANGED <<kind, children, owner, disposed>>
  BY DEF tree
<1>2. TypeOK'
  BY <1>1 DEF IInv, TypeOK, Calls, Idle
<1>3. TreeInv'
  BY <1>1 DEF IInv, TreeInv, UnbuiltIsBare, ChildrenAreBuilt, SingleOwner, NoCircle, Built
<1>4. SearchInv' /\ BuildingIsScoped'
  BY <1>1 DEF Calls, FramesOK, Scoped, SearchInv, BuildingIsScoped
<1>5. QED
  BY <1>2, <1>3, <1>4 DEF IInv

LEMMA IInvCalls ==
  ASSUME IInv
  PROVE  /\ Calls(stack, building, kind, children)
         /\ raised \in BOOLEAN /\ (raised => stack # <<>>) /\ calls \in 0 .. MaxCalls
  BY CallsMean DEF IInv, TypeOK, Idle

LEMMA TopIs ==
  ASSUME IInv, stack # <<>>
  PROVE  /\ Top \in Frame /\ Top = stack[Len(stack)] /\ FrameOK(Top, kind, children)
         /\ Len(stack) \in Nat \ {0}
<1>1. stack \in Seq(Frame)
  BY DEF IInv, TypeOK
<1>2. QED
  BY <1>1, TopIsFrame DEF IInv, SearchInv, Top

\* An exception leaves the call on top, or it returns without having changed a thing.
LEMMA TopFailsStep ==
  ASSUME IInv, stack # <<>>, TopFails, UNCHANGED <<tree, calls>>
  PROVE  IInv'
<1>1. /\ stack' = SubSeq(stack, 1, Len(stack) - 1)
      /\ building' = IF Materializes(stack[Len(stack)])
                     THEN [building EXCEPT ![stack[Len(stack)].of] = FALSE]
                     ELSE building
  BY DEF TopFails, BuildingAfter, Below, Top
<1>2. Calls(stack', building', kind, children) /\ (Len(stack) # 1 => stack' # <<>>)
  BY <1>1, IInvCalls, PopKeepsCalls
<1>3. raised' \in BOOLEAN /\ (raised' => stack' # <<>>)
  <2>1. PICK n \in Nat \ {0} : n = Len(stack)
    BY TopIs
  <2>2. raised' = (n > 1)
    BY <2>1, Zenon DEF TopFails
  <2>3. (n > 1) \in BOOLEAN
    OBVIOUS
  <2>4. raised' \in BOOLEAN
    BY <2>2, <2>3, Zenon
  <2>5. ASSUME raised' PROVE stack' # <<>>
    <3>1. n > 1
      BY <2>2, <2>5, Zenon
    <3>2. Len(stack) # 1
      BY <2>1, <3>1
    <3>3. QED
      BY <1>2, <3>2
  <2>6. QED
    BY <2>4, <2>5
<1>4. QED
  BY <1>2, <1>3, CallStep, IInvCalls

LEMMA UnwindStep == IInv /\ Unwind => IInv'
<1>1. SUFFICES ASSUME IInv, Unwind PROVE IInv'
  OBVIOUS
<1>2. stack # <<>>
  BY <1>1, IInvCalls DEF Unwind
<1>3. CASE TopFails
  BY <1>1, <1>2, <1>3, TopFailsStep DEF Unwind
<1>4. CASE raised' = FALSE /\ UNCHANGED <<stack, building>>
  <2>1. UNCHANGED tree /\ calls' = calls
    BY <1>1 DEF Unwind
  <2>2. QED
    BY <1>1, <1>4, <2>1, IInvCalls, CallStep
<1>5. QED
  BY <1>1, <1>3, <1>4 DEF Unwind

LEMMA WalkReturnsStep == IInv /\ WalkReturns => IInv'
<1>1. SUFFICES ASSUME IInv, WalkReturns PROVE IInv'
  OBVIOUS
<1>2. stack # <<>> /\ ~raised /\ Top.op = "walk"
  BY <1>1 DEF WalkReturns, Runs, Idle
<1>3. Calls(stack', building', kind, children)
  BY <1>1, <1>2, IInvCalls, PopKeepsCalls DEF WalkReturns, Below, Top, Materializes
<1>4. UNCHANGED tree /\ raised' = raised /\ calls' = calls
  BY <1>1 DEF WalkReturns
<1>5. QED
  BY <1>1, <1>2, <1>3, <1>4, IInvCalls, CallStep

LEMMA WalkStep ==
  ASSUME NEW m \in Module, IInv, Walk(m)
  PROVE  IInv'
<1>1. /\ calls < MaxCalls /\ calls' = calls + 1 /\ UNCHANGED tree /\ building' = building
      /\ stack = <<>> \/ ~raised
  BY DEF Walk, MayCall, ProgramRuns, Runs, Idle
<1>2. calls' \in 0 .. MaxCalls
  BY <1>1, IInvCalls, BoundsAssumption
<1>3. CASE disposed[m]
  BY <1>1, <1>2, <1>3, IInvCalls, CallStep DEF Walk, Idle
<1>4. CASE ~disposed[m]
  <2>1. stack' = Append(stack, WalkFrame(m)) /\ raised' = raised
    BY <1>4 DEF Walk
  <2>2. <<m>> \in Seq(Module)
    BY ElementsOfOne
  <2>3. WalkFrame(m) \in Frame /\ ~Materializes(WalkFrame(m))
    BY <2>2 DEF WalkFrame, Frame, Materializes
  <2>4. FrameOK(WalkFrame(m), kind, children)
    BY DEF FrameOK, WalkFrame, Materializes
  <2>5. Calls(stack', building', kind, children) /\ stack' # <<>>
    BY <1>1, <2>1, <2>3, <2>4, IInvCalls, PushKeepsCalls
  <2>6. QED
    BY <1>1, <1>2, <2>1, <2>5, IInvCalls, CallStep
<1>5. QED
  BY <1>3, <1>4

LEMMA EnsureMaterializedStep == IInv /\ EnsureMaterialized => IInv'
<1>1. SUFFICES ASSUME IInv, EnsureMaterialized PROVE IInv'
  OBVIOUS
<1> DEFINE m == Head(Top.agenda)
<1>2. /\ stack # <<>> /\ ~raised /\ Top.agenda # <<>> /\ Unmaterialized(m)
      /\ UNCHANGED tree /\ calls' = calls
  BY <1>1 DEF EnsureMaterialized, Runs, Idle
<1>3. m \in Module
  BY <1>1, <1>2, TopIs, FrameType, HeadAndTail
<1>4. CASE ~MayBuild(m)
  <2>1. TopFails
    BY <1>1, <1>4 DEF EnsureMaterialized
  <2>2. QED
    BY <1>1, <1>2, <2>1, TopFailsStep
<1>5. CASE MayBuild(m)
  <2>1. /\ stack' = Append(stack, BuildFrame(m))
        /\ building' = [building EXCEPT ![m] = TRUE]
        /\ raised' = raised
    BY <1>1, <1>5 DEF EnsureMaterialized
  <2>2. /\ BuildFrame(m) \in Frame /\ Materializes(BuildFrame(m))
        /\ BuildFrame(m).of = m
    BY <1>3 DEF BuildFrame, Frame, Materializes
  <2>3. FrameOK(BuildFrame(m), kind, children)
    BY <1>2 DEF FrameOK, BuildFrame, Materializes, Unmaterialized
  <2>4. Calls(stack', building', kind, children) /\ stack' # <<>>
    BY <1>1, <1>5, <2>1, <2>2, <2>3, IInvCalls, PushKeepsCalls DEF MayBuild
  <2>5. QED
    BY <1>1, <1>2, <2>1, <2>4, IInvCalls, CallStep
<1>6. QED
  BY <1>4, <1>5

LEMMA BuildThrowsStep == IInv /\ BuildThrows => IInv'
<1>1. ASSUME IInv, BuildThrows PROVE stack # <<>> /\ TopFails /\ UNCHANGED <<tree, calls>>
  BY <1>1 DEF BuildThrows, Runs, Idle
<1>2. QED
  BY <1>1, TopFailsStep

LEMMA CycleFoundStep == IInv /\ CycleFound => IInv'
<1>1. ASSUME IInv, CycleFound PROVE stack # <<>> /\ TopFails /\ UNCHANGED <<tree, calls>>
  BY <1>1 DEF CycleFound, Runs, Idle
<1>2. QED
  BY <1>1, TopFailsStep

\* What the call on top becomes in a step of it.
TopBecomes(f) == stack' = [stack EXCEPT ![Len(stack)] = f]

LEMMA TopBecomesStep ==
  ASSUME IInv, stack # <<>>, NEW f \in Frame, FrameOK(f, kind, children),
         Materializes(f) <=> Materializes(Top), f.of = Top.of,
         TopBecomes(f), UNCHANGED <<tree, building, raised, calls>>
  PROVE  IInv'
<1>1. /\ stack' = [stack EXCEPT ![Len(stack)] = f]
      /\ Materializes(f) <=> Materializes(stack[Len(stack)])
      /\ f.of = stack[Len(stack)].of
  BY DEF TopBecomes, Top
<1>2. Calls(stack', building, kind, children) /\ stack' # <<>>
  BY <1>1, IInvCalls, ChangeKeepsCalls
<1>3. Calls(stack', building', kind, children)
  BY <1>2
<1>4. QED
  BY <1>2, <1>3, CallStep, IInvCalls

\* The traversal or the search goes to the next module of its agenda.
Descended(f, m, skip) ==
  [f EXCEPT !.agenda = IF skip THEN Tail(@) ELSE children[m] \o Tail(@),
            !.visited = @ \cup {m}]

LEMMA DescendedIs ==
  ASSUME NEW f \in Frame, NEW m \in Module, NEW skip
  PROVE  LET g == Descended(f, m, skip) IN
         /\ g.op = f.op /\ g.of = f.of /\ g.root = f.root
         /\ g.agenda = IF skip THEN Tail(f.agenda) ELSE children[m] \o Tail(f.agenda)
         /\ g.visited = f.visited \cup {m}
         /\ g.agenda \in Seq(Module) => g \in Frame
  BY DEF Descended, Frame

LEMMA DescendedIsOK ==
  ASSUME TypeOK, ChildrenAreBuilt,
         NEW f \in Frame, FrameOK(f, kind, children), f.op \in {"walk", "contains"},
         f.agenda # <<>>, NEW m, m = Head(f.agenda),
         f.op = "contains" => m # f.of,
         NEW skip \in BOOLEAN, skip <=> (f.op = "contains" /\ m \in f.visited),
         skip \/ ~Unmaterialized(m),
         NEW g, g = Descended(f, m, skip)
  PROVE  g \in Frame /\ FrameOK(g, kind, children)
<1>1. /\ m \in Module /\ Tail(f.agenda) \in Seq(Module)
      /\ Elements(f.agenda) = {m} \cup Elements(Tail(f.agenda))
  BY FrameType, HeadAndTail
<1>2. children[m] \in Seq(Module)
  BY <1>1 DEF TypeOK
<1>3. /\ children[m] \o Tail(f.agenda) \in Seq(Module)
      /\ Elements(children[m] \o Tail(f.agenda))
           = Elements(children[m]) \cup Elements(Tail(f.agenda))
  <2>1. PICK t \in Seq(Module) : t = Tail(f.agenda)
    BY <1>1
  <2>2. PICK ch \in Seq(Module) : ch = children[m]
    BY <1>2
  <2>3. ch \o t \in Seq(Module) /\ Elements(ch \o t) = Elements(ch) \cup Elements(t)
    BY ElementsOfConcat
  <2>4. QED
    BY <2>1, <2>2, <2>3
<1>4. /\ g.op = f.op /\ g.of = f.of /\ g.root = f.root
      /\ g.agenda = IF skip THEN Tail(f.agenda) ELSE children[m] \o Tail(f.agenda)
      /\ g.visited = f.visited \cup {m}
      /\ g.agenda \in Seq(Module) => g \in Frame
  BY <1>1, DescendedIs
<1>5. g \in Frame
  BY <1>1, <1>3, <1>4
<1>6. CASE f.op = "walk"
  BY <1>4, <1>5, <1>6 DEF FrameOK, Materializes
<1>7. CASE f.op = "contains"
  <2>1. /\ Materializes(g) => kind[g.of] = "model" /\ children[g.of] = <<>>
        /\ g.op = "contains" /\ g.of = f.of /\ g.of \notin f.visited
        /\ \A v \in f.visited : /\ ~(kind[v] = "model" /\ children[v] = <<>>)
                                /\ Elements(children[v]) \subseteq Reached(f)
        /\ \A v \in Reached(f) : kind[v] # "unbuilt"
        /\ f.root \in Reached(f)
    BY <1>4, <1>7 DEF FrameOK, Materializes
  <2>2. CASE skip
    <3>1. g.visited = f.visited /\ Reached(g) = Reached(f)
      BY <1>1, <1>4, <2>2 DEF Reached
    <3>2. QED
      BY <1>4, <1>5, <2>1, <3>1 DEF FrameOK
  <2>3. CASE ~skip
    <3>1. Reached(g) = Reached(f) \cup Elements(children[m])
      BY <1>1, <1>3, <1>4, <2>3 DEF Reached
    <3>2. Elements(children[m]) \subseteq Module
          /\ \A v \in Elements(children[m]) : kind[v] # "unbuilt"
      BY <1>1 DEF ChildrenAreBuilt, Built
    <3>3. ~(kind[m] = "model" /\ children[m] = <<>>)
      BY <2>3 DEF Unmaterialized
    <3>4. g.of \notin g.visited /\ g.visited = f.visited \cup {m}
      BY <1>4, <1>7, <2>1
    <3>5. \A v \in Reached(g) : kind[v] # "unbuilt"
      BY <2>1, <3>1, <3>2
    <3>6. \A v \in g.visited : /\ ~(kind[v] = "model" /\ children[v] = <<>>)
                               /\ Elements(children[v]) \subseteq Reached(g)
      BY <2>1, <3>1, <3>3, <3>4
    <3>7. QED
      BY <1>4, <1>5, <2>1, <3>1, <3>4, <3>5, <3>6 DEF FrameOK
  <2>4. QED
    BY <2>2, <2>3
<1>8. QED
  BY <1>5, <1>6, <1>7

LEMMA DescendStep == IInv /\ Descend => IInv'
<1>1. SUFFICES ASSUME IInv, Descend PROVE IInv'
  OBVIOUS
<1> DEFINE m == Head(Top.agenda)
           skip == Top.op = "contains" /\ m \in Top.visited
           g == Descended(Top, m, skip)
<1>2. /\ stack # <<>> /\ Top.op \in {"walk", "contains"} /\ Top.agenda # <<>>
      /\ Top.op = "contains" => m # Top.of
      /\ skip \/ ~Unmaterialized(m)
      /\ UNCHANGED <<tree, building, raised, calls>>
  BY <1>1 DEF Descend, Runs, Idle, ClosesCycle
<1>3. Top \in Frame /\ FrameOK(Top, kind, children)
  BY <1>1, <1>2, TopIs
<1>4. m \in Module
  BY <1>2, <1>3, FrameType, HeadAndTail
<1>5. g.op = Top.op /\ g.of = Top.of
  BY <1>3, <1>4, DescendedIs
<1>6. g \in Frame /\ FrameOK(g, kind, children)
  <2>1. TypeOK /\ ChildrenAreBuilt
    BY <1>1 DEF IInv, TreeInv
  <2>2. skip \in BOOLEAN
    OBVIOUS
  <2>3. QED
    BY <1>2, <1>3, <2>1, <2>2, DescendedIsOK
<1>7. TopBecomes(g)
  <2>1. stack \in Seq(Frame)
    BY <1>1 DEF IInv, TypeOK
  <2>2. stack' = [stack EXCEPT
             ![Len(stack)].agenda =
                IF skip THEN Tail(@) ELSE children[m] \o Tail(@),
             ![Len(stack)].visited = @ \cup {m}]
    BY <1>1 DEF Descend
  <2>3. QED
    BY <1>2, <2>1, <2>2, TopIsFrame DEF TopBecomes, Descended, Top
<1>8. Materializes(g) <=> Materializes(Top)
  BY <1>5 DEF Materializes
<1>9. QED
  BY <1>1, <1>2, <1>5, <1>6, <1>7, <1>8, TopBecomesStep

LEMMA BuildReturnsStep ==
  ASSUME NEW c \in Module, IInv, BuildReturns(c)
  PROVE  IInv'
<1>1. /\ stack # <<>> /\ Top.op = "build" /\ c \in Built /\ UNCHANGED <<tree, calls>>
  BY DEF BuildReturns, Runs, Idle
<1>2. CASE Refused(Top.of, c)
  BY <1>1, <1>2, TopFailsStep DEF BuildReturns
<1>3. CASE ~Refused(Top.of, c)
  <2> DEFINE g == [Top EXCEPT !.op = "contains", !.root = c, !.agenda = <<c>>]
  <2>1. stack \in Seq(Frame) /\ Top \in Frame /\ FrameOK(Top, kind, children)
    BY <1>1, TopIs DEF IInv, TypeOK
  <2>2. <<c>> \in Seq(Module) /\ Elements(<<c>>) = {c}
    BY ElementsOfOne
  <2>3. /\ g \in Frame /\ g.op = "contains" /\ g.of = Top.of /\ g.root = c
        /\ g.agenda = <<c>> /\ g.visited = Top.visited
    BY <2>1, <2>2 DEF Frame
  <2>4. g.visited = {} /\ kind[g.of] = "model" /\ children[g.of] = <<>>
    BY <1>1, <2>1, <2>3 DEF FrameOK, Materializes
  <2>5. Reached(g) = {c} /\ kind[c] # "unbuilt"
    BY <1>1, <2>2, <2>3, <2>4 DEF Reached, Built
  <2>6. FrameOK(g, kind, children)
    BY <2>3, <2>4, <2>5 DEF FrameOK
  <2>7. Materializes(g) /\ Materializes(Top)
    BY <1>1, <2>3 DEF Materializes
  <2>8. UNCHANGED <<building, raised>>
        /\ stack' = [stack EXCEPT ![Len(stack)].op = "contains",
                                  ![Len(stack)].root = c,
                                  ![Len(stack)].agenda = <<c>>]
    BY <1>3 DEF BuildReturns, Searched
  <2>9. TopBecomes(g)
    BY <1>1, <2>1, <2>8, TopIsFrame DEF TopBecomes, Top
  <2>10. QED
    BY <1>1, <2>3, <2>6, <2>7, <2>8, <2>9, TopBecomesStep
<1>4. QED
  BY <1>2, <1>3

-------------------------------------------------------------------------------
(***************************************************************************)
(* The steps of the tree: disposal, construction and adoption.             *)
(***************************************************************************)

LEMMA IInvParts ==
  ASSUME IInv
  PROVE  /\ kind \in [Module -> Kind] /\ children \in [Module -> Seq(Module)]
         /\ owner \in [Module -> Module \cup {NoModule}]
         /\ disposed \in [Module -> BOOLEAN]
         /\ \A p \in Module : Elements(children[p]) \subseteq Module
         /\ NoModule \notin Module
<1>1. children \in [Module -> Seq(Module)]
  BY DEF IInv, TypeOK
<1>2. \A p \in Module : Elements(children[p]) \subseteq Module
  BY <1>1, ElementsAre
<1>3. NoModule \notin Module
  BY BoundsAssumption DEF Module, NoModule
<1>4. QED
  BY <1>1, <1>2, <1>3 DEF IInv, TypeOK

\* A step of the tree itself, with the calls in progress kept.
LEMMA TreeStep ==
  ASSUME IInv,
         kind' \in [Module -> Kind], children' \in [Module -> Seq(Module)],
         owner' \in [Module -> Module \cup {NoModule}],
         disposed' \in [Module -> BOOLEAN],
         TreeInv',
         Calls(stack', building', kind', children'),
         raised' \in BOOLEAN, raised' => stack' # <<>>,
         calls' \in 0 .. MaxCalls
  PROVE  IInv'
<1>1. TypeOK'
  BY DEF TypeOK, Calls, Idle
<1>2. SearchInv' /\ BuildingIsScoped'
  BY DEF Calls, FramesOK, Scoped, SearchInv, BuildingIsScoped
<1>3. QED
  BY <1>1, <1>2 DEF IInv

LEMMA DisposeStep ==
  ASSUME NEW m \in Module, IInv, Dispose(m)
  PROVE  IInv'
<1>1. /\ calls < MaxCalls /\ calls' = calls + 1
      /\ UNCHANGED <<kind, children, building, stack, raised>>
      /\ disposed' = [c \in Module |-> disposed[c] \/ c \in DisposedWith(m)]
      /\ owner' = [c \in Module |-> IF c \in DisposedWith(m) THEN NoModule ELSE owner[c]]
      /\ m \in Built /\ ~disposed[m]
  BY DEF Dispose, MayCall
<1>2. calls' \in 0 .. MaxCalls
  BY <1>1, IInvCalls, BoundsAssumption
<1>3. /\ owner' \in [Module -> Module \cup {NoModule}] /\ disposed' \in [Module -> BOOLEAN]
      /\ \A c \in Module : ~disposed'[c] => ~disposed[c] /\ owner'[c] = owner[c]
  BY <1>1, IInvParts
<1>4. ASSUME NEW c \in DisposedWith(m) PROVE kind[c] # "unbuilt"
  \* What dispose() reaches has been constructed.
  <2>1. ClosedUnderDispose(Built) /\ Built \in SUBSET Module /\ m \in Built
    BY <1>1 DEF IInv, TreeInv, ChildrenAreBuilt, ClosedUnderDispose, Built
  <2>2. c \in Built
    BY <2>1 DEF DisposedWith
  <2>3. QED
    BY <2>2 DEF Built
<1>5. UnbuiltIsBare'
  BY <1>1, <1>4 DEF IInv, TreeInv, UnbuiltIsBare
<1>6. SingleOwner'
  BY <1>1, <1>3 DEF IInv, TreeInv, SingleOwner
<1>7. ChildrenAreBuilt' /\ NoCircle'
  BY <1>1 DEF IInv, TreeInv, ChildrenAreBuilt, NoCircle, Built
<1>8. Calls(stack', building', kind', children')
  BY <1>1, IInvCalls
<1>9. QED
  BY <1>1, <1>2, <1>3, <1>5, <1>6, <1>7, <1>8, IInvCalls, IInvParts, TreeStep DEF TreeInv

\* Constructing a module that nobody has seen leaves the calls in order.
LEMMA ConstructedKeepsCalls ==
  ASSUME IInv, NEW m \in Module, m \notin Built, NEW k, NEW ch,
         \A n \in Module : n # m => k[n] = kind[n] /\ ch[n] = children[n]
  PROVE  Calls(stack, building, k, ch)
<1>1. Calls(stack, building, kind, children) /\ stack \in Seq(Frame)
  BY IInvCalls DEF Calls
<1>2. kind[m] = "unbuilt"
  BY DEF Built
<1>3. ASSUME NEW i \in DOMAIN stack PROVE FrameOK(stack[i], k, ch)
  <2>1. stack[i] \in Frame /\ FrameOK(stack[i], kind, children)
    <3>1. i \in 1 .. Len(stack)
      BY <1>1, LenProperties
    <3>2. QED
      BY <1>1, <3>1, ElementOfSeq DEF Calls, FramesOK
  <2>2. PICK f \in Frame : f = stack[i]
    BY <2>1
  <2>3. /\ f.of \in Module /\ f.visited \subseteq Module
        /\ Elements(f.agenda) \subseteq Module
    BY FrameType, ElementsAre
  <2>4. FrameOK(f, kind, children)
    BY <2>1, <2>2
  <2>5. Materializes(f) => k[f.of] = "model" /\ ch[f.of] = <<>>
    <3>1. Materializes(f) => f.of # m
      BY <1>2, <2>4 DEF FrameOK
    <3>2. QED
      BY <2>3, <2>4, <3>1 DEF FrameOK
  <2>6. ASSUME f.op = "contains"
        PROVE  /\ f.root \in Reached(f)
               /\ \A n \in Reached(f) : k[n] # "unbuilt"
               /\ f.of \notin f.visited
               /\ \A v \in f.visited : /\ ~(k[v] = "model" /\ ch[v] = <<>>)
                                       /\ Elements(ch[v]) \subseteq Reached(f)
    <3>1. \A n \in Reached(f) : n \in Module /\ n # m
      BY <1>2, <2>3, <2>4, <2>6 DEF FrameOK, Reached
    <3>2. f.visited \subseteq Reached(f)
      BY DEF Reached
    <3>3. \A n \in Reached(f) : k[n] = kind[n] /\ ch[n] = children[n]
      BY <3>1
    <3>4. QED
      BY <2>4, <2>6, <3>2, <3>3 DEF FrameOK
  <2>7. QED
    BY <2>2, <2>4, <2>5, <2>6 DEF FrameOK
<1>4. QED
  BY <1>1, <1>3, TreeChangeKeepsCalls

LEMMA CreateStep ==
  ASSUME NEW m \in Module, NEW k \in Kind, IInv, Create(m, k)
  PROVE  IInv'
<1>1. /\ kind' = [kind EXCEPT ![m] = k] /\ m \notin Built
      /\ k \in {"layer", "model"}
      /\ UNCHANGED <<children, owner, disposed, building, stack, raised, calls>>
  BY DEF Create, Fresh
<1>2. kind' \in [Module -> Kind] /\ \A n \in Module : n # m => kind'[n] = kind[n]
  BY <1>1, IInvParts
<1>3. Calls(stack, building, kind', children)
  BY <1>1, <1>2, ConstructedKeepsCalls
<1>4. UnbuiltIsBare'
  BY <1>1, <1>2, IInvParts DEF IInv, TreeInv, UnbuiltIsBare
<1>5. ChildrenAreBuilt'
  <2>1. kind'[m] # "unbuilt"
    BY <1>1, IInvParts
  <2>2. Built \subseteq Built'
    BY <1>2, <2>1 DEF Built
  <2>3. QED
    BY <1>1, <2>2 DEF IInv, TreeInv, ChildrenAreBuilt
<1>6. SingleOwner' /\ NoCircle'
  BY <1>1 DEF IInv, TreeInv, SingleOwner, NoCircle
<1>7. QED
  BY <1>1, <1>2, <1>3, <1>4, <1>5, <1>6, IInvCalls, IInvParts, TreeStep DEF TreeInv

LEMMA ChildListsAreLists ==
  ASSUME NEW list \in ChildLists
  PROVE  /\ list \in Seq(Module) /\ list \in Seq(Built)
         /\ Elements(list) \subseteq Built /\ Len(list) \in Nat
         /\ \A x : x \in Elements(list) <=> \E i \in 1 .. Len(list) : x = list[i]
<1>1. PICK n \in 1 .. MaxChildren : list \in [1 .. n -> Built]
  BY DEF ChildLists
<1>2. n \in Nat /\ Built \subseteq Module
  BY <1>1, BoundsAssumption DEF Built
<1>3. list \in Seq(Built)
  BY <1>1, <1>2, SeqDef
<1>4. list \in Seq(Module)
  BY <1>2, <1>3, SeqMonotonic
<1>5. QED
  BY <1>3, <1>4, ElementsAre, LenProperties

\* The new container is nobody's child, and its children were nobody's.
LEMMA AdoptedListKeepsTree ==
  ASSUME IInv, NEW m \in Module, m \notin Built, NEW list \in ChildLists,
         \A c \in Elements(list) : Attachable(c),
         kind' = [kind EXCEPT ![m] = "sequential"],
         children' = [children EXCEPT ![m] = list],
         owner' = [c \in Module |-> IF c \in Elements(list) THEN m ELSE owner[c]],
         disposed' = disposed
  PROVE  TreeInv'
<1>1. /\ list \in Seq(Module) /\ Elements(list) \subseteq Built
      /\ kind[m] = "unbuilt" /\ children[m] = <<>> /\ owner[m] = NoModule
  BY ChildListsAreLists DEF IInv, TreeInv, UnbuiltIsBare, Built
<1>2. /\ children' \in [Module -> Seq(Module)] /\ children'[m] = list
      /\ \A p \in Module : p # m => children'[p] = children[p]
      /\ \A p \in Module : kind'[p] = IF p = m THEN "sequential" ELSE kind[p]
      /\ \A c \in Module : owner'[c] = IF c \in Elements(list) THEN m ELSE owner[c]
  BY <1>1, IInvParts
<1>3. m \notin Elements(list) /\ \A p \in Module : m \notin Elements(children[p])
  BY <1>1 DEF IInv, TreeInv, ChildrenAreBuilt, Built
<1>4. UnbuiltIsBare'
  <2>1. \A n \in Module : kind'[n] = "unbuilt" => n # m /\ kind[n] = "unbuilt" /\ n \notin Built
    BY <1>2 DEF Built
  <2>2. \A n \in Module : kind'[n] = "unbuilt" => owner'[n] = owner[n]
    BY <1>1, <1>2, <2>1
  <2>3. QED
    BY <1>2, <2>1, <2>2 DEF IInv, TreeInv, UnbuiltIsBare
<1>5. ChildrenAreBuilt'
  <2>1. Built \subseteq Built'
    BY <1>2 DEF Built
  <2>2. ASSUME NEW p \in Module PROVE Elements(children'[p]) \subseteq Built
    BY <1>1, <1>2 DEF IInv, TreeInv, ChildrenAreBuilt
  <2>3. QED
    BY <2>1, <2>2 DEF ChildrenAreBuilt
<1>6. SingleOwner'
  <2>1. ASSUME NEW p \in Module, NEW c \in Module, ~disposed[c]
        PROVE  owner'[c] = p <=> c \in Elements(children'[p])
    <3>0. \A q \in Module : owner[c] = q <=> c \in Elements(children[q])
      BY <2>1 DEF IInv, TreeInv, SingleOwner
    <3>1. CASE c \in Elements(list)
      <4>1. owner[c] = NoModule /\ owner'[c] = m
        BY <1>2, <3>1 DEF Attachable
      <4>2. \A q \in Module : c \notin Elements(children[q])
        BY <3>0, <4>1, IInvParts
      <4>3. QED
        BY <1>2, <3>1, <4>1, <4>2
    <3>2. CASE c \notin Elements(list)
      <4>1. owner'[c] = owner[c]
        BY <1>2, <3>2
      <4>2. owner[c] # m
        BY <1>1, <3>0, ElementsOfEmpty
      <4>3. QED
        BY <1>2, <3>0, <3>2, <4>1, <4>2
    <3>3. QED
      BY <3>1, <3>2
  <2>2. QED
    BY <2>1 DEF SingleOwner
<1>7. NoCircle'
  <2>1. ASSUME NEW S \in SUBSET Module, S # {}
        PROVE  \E o \in S : \A p \in S : o \notin Elements(children'[p])
    <3>1. CASE m \in S
      <4>1. \A p \in S : m \notin Elements(children'[p])
        BY <1>2, <1>3
      <4>2. QED
        BY <3>1, <4>1
    <3>2. CASE m \notin S
      <4>1. PICK o \in S : \A p \in S : o \notin Elements(children[p])
        BY <2>1 DEF IInv, TreeInv, NoCircle
      <4>2. \A p \in S : children'[p] = children[p]
        BY <1>2, <3>2
      <4>3. QED
        BY <4>1, <4>2
    <3>3. QED
      BY <3>1, <3>2
  <2>2. QED
    BY <2>1 DEF NoCircle
<1>8. QED
  BY <1>4, <1>5, <1>6, <1>7 DEF TreeInv

LEMMA CreateSequentialStep ==
  ASSUME NEW m \in Module, NEW list \in ChildLists, IInv, CreateSequential(m, list)
  PROVE  IInv'
<1>1. /\ m \notin Built /\ UNCHANGED <<disposed, building, stack>>
      /\ stack = <<>> \/ ~raised
  BY DEF CreateSequential, Fresh, ProgramRuns, Runs, Idle
<1>2. /\ list \in Seq(Module) /\ Elements(list) \subseteq Built /\ Len(list) \in Nat
      /\ \A x : x \in Elements(list) <=> \E i \in 1 .. Len(list) : x = list[i]
  BY ChildListsAreLists
<1>3. CASE AttachedCount(list) = Len(list)
  <2>1. /\ kind' = [kind EXCEPT ![m] = "sequential"]
        /\ children' = [children EXCEPT ![m] = list]
        /\ owner' = [c \in Module |-> IF c \in Elements(list) THEN m ELSE owner[c]]
        /\ UNCHANGED <<raised, calls>>
    BY <1>3 DEF CreateSequential
  <2>2. \A c \in Elements(list) : Attachable(c)
    <3>1. \A i \in 1 .. Len(list) : Attachable(list[i])
      BY <1>2, <1>3, AttachedCountIs
    <3>2. QED
      BY <1>2, <3>1
  <2>3. TreeInv'
    BY <1>1, <2>1, <2>2, AdoptedListKeepsTree
  <2>4. /\ kind' \in [Module -> Kind] /\ children' \in [Module -> Seq(Module)]
        /\ owner' \in [Module -> Module \cup {NoModule}]
        /\ disposed' \in [Module -> BOOLEAN]
        /\ \A n \in Module : n # m => kind'[n] = kind[n] /\ children'[n] = children[n]
    BY <1>1, <1>2, <2>1, IInvParts DEF Kind
  <2>5. Calls(stack, building, kind', children')
    BY <1>1, <2>4, ConstructedKeepsCalls
  <2>6. Calls(stack', building', kind', children')
    BY <1>1, <2>5
  <2>7. QED
    BY <1>1, <2>1, <2>3, <2>4, <2>6, IInvCalls, TreeStep
<1>4. CASE AttachedCount(list) # Len(list)
  <2>1. /\ calls < MaxCalls /\ calls' = calls + 1
        /\ owner' = owner /\ raised' = ~Idle /\ UNCHANGED <<kind, children>>
    BY <1>4 DEF CreateSequential, Detached
  <2>2. UNCHANGED tree
    BY <1>1, <2>1 DEF tree
  <2>3. calls' \in 0 .. MaxCalls
    BY <2>1, IInvCalls, BoundsAssumption
  <2>4. raised' \in BOOLEAN /\ (raised' => stack' # <<>>)
    BY <1>1, <2>1 DEF Idle
  <2>5. Calls(stack', building', kind, children)
    BY <1>1, IInvCalls
  <2>6. QED
    BY <2>2, <2>3, <2>4, <2>5, CallStep
<1>5. QED
  BY <1>3, <1>4

\* The Model of a cycle check that has nothing left to search can have its
\* candidate: the candidate and all below it are searched, and the Model is not
\* among them.
LEMMA SearchIsOver ==
  ASSUME IInv, stack # <<>>, Top.op = "contains", Top.agenda = <<>>
  PROVE  /\ Top.of \in Module /\ Top.root \in Top.visited /\ Top.visited \subseteq Built
         /\ Top.of \notin Top.visited
         /\ kind[Top.of] = "model" /\ children[Top.of] = <<>>
         /\ \A v \in Top.visited : Elements(children[v]) \subseteq Top.visited
<1>1. Top \in Frame /\ FrameOK(Top, kind, children)
  BY TopIs
<1>2. Reached(Top) = Top.visited
  BY ElementsOfEmpty DEF Reached
<1>3. Top.of \in Module /\ Top.visited \subseteq Module
  BY <1>1, FrameType
<1>4. QED
  BY <1>1, <1>2, <1>3 DEF FrameOK, Materializes, Built

LEMMA AdoptionKeepsTree ==
  ASSUME IInv, NEW m \in Module, NEW r \in Module, NEW V \in SUBSET Built,
         r \in V, m \notin V, Attachable(r),
         kind[m] = "model", children[m] = <<>>,
         \A v \in V : Elements(children[v]) \subseteq V,
         owner' = [owner EXCEPT ![r] = m],
         children' = [children EXCEPT ![m] = <<r>>],
         kind' = kind, disposed' = disposed
  PROVE  TreeInv'
<1>1. <<r>> \in Seq(Module) /\ Elements(<<r>>) = {r} /\ Elements(children[m]) = {}
  BY ElementsOfOne, ElementsOfEmpty
<1>2. /\ children'[m] = <<r>>
      /\ \A p \in Module : p # m => children'[p] = children[p]
      /\ owner'[r] = m
      /\ \A c \in Module : c # r => owner'[c] = owner[c]
      /\ kind[r] # "unbuilt" /\ kind[m] # "unbuilt"
  BY IInvParts DEF Built
<1>3. UnbuiltIsBare'
  BY <1>2 DEF IInv, TreeInv, UnbuiltIsBare
<1>4. ChildrenAreBuilt'
  <2>1. Built' = Built /\ r \in Built
    BY DEF Built
  <2>2. ASSUME NEW p \in Module PROVE Elements(children'[p]) \subseteq Built
    BY <1>1, <1>2, <2>1 DEF IInv, TreeInv, ChildrenAreBuilt
  <2>3. QED
    BY <2>1, <2>2 DEF ChildrenAreBuilt
<1>5. SingleOwner'
  <2>1. ASSUME NEW p \in Module, NEW c \in Module, ~disposed[c]
        PROVE  owner'[c] = p <=> c \in Elements(children'[p])
    <3>1. \A q \in Module : owner[c] = q <=> c \in Elements(children[q])
      BY <2>1 DEF IInv, TreeInv, SingleOwner
    <3>2. CASE c = r
      <4>1. \A q \in Module : c \notin Elements(children[q])
        BY <3>1, <3>2, IInvParts DEF Attachable
      <4>2. QED
        BY <1>1, <1>2, <3>2, <4>1
    <3>3. CASE c # r
      BY <1>1, <1>2, <3>1, <3>3
    <3>4. QED
      BY <3>2, <3>3
  <2>2. QED
    BY <2>1 DEF SingleOwner
<1>6. NoCircle'
  <2>1. ASSUME NEW S \in SUBSET Module, S # {}
        PROVE  \E o \in S : \A p \in S : o \notin Elements(children'[p])
    <3>1. CASE m \notin S
      <4>1. PICK o \in S : \A p \in S : o \notin Elements(children[p])
        BY <2>1 DEF IInv, TreeInv, NoCircle
      <4>2. QED
        BY <1>2, <3>1, <4>1
    <3>2. CASE m \in S
      <4>1. S \ V \in SUBSET Module /\ S \ V # {}
        BY <3>2
      <4>2. PICK o \in S \ V : \A p \in S \ V : o \notin Elements(children[p])
        BY <4>1 DEF IInv, TreeInv, NoCircle
      <4>3. ASSUME NEW p \in S PROVE o \notin Elements(children'[p])
        <5>1. CASE p = m
          BY <1>1, <1>2, <4>2, <5>1
        <5>2. CASE p # m /\ p \in V
          BY <1>2, <4>2, <5>2
        <5>3. CASE p # m /\ p \notin V
          BY <1>2, <4>2, <5>3
        <5>4. QED
          BY <5>1, <5>2, <5>3
      <4>4. QED
        BY <4>3
    <3>3. QED
      BY <3>1, <3>2
  <2>2. QED
    BY <2>1 DEF NoCircle
<1>7. QED
  BY <1>3, <1>4, <1>5, <1>6 DEF TreeInv

\* The calls around the cycle check that ends: none of them is materializing
\* the same Model, and none has searched past it.
LEMMA AdoptionKeepsCalls ==
  ASSUME NEW s, NEW b, NEW k, NEW ch, Calls(s, b, k, ch), s # <<>>,
         Materializes(s[Len(s)]),
         NEW m, m = s[Len(s)].of,
         NEW ch2, \A n \in Module : n # m => ch2[n] = ch[n]
  PROVE  LET t == SubSeq(s, 1, Len(s) - 1) IN
         Calls(t, [b EXCEPT ![m] = FALSE], k, ch2) /\ (Len(s) # 1 => t # <<>>)
<1> DEFINE t == SubSeq(s, 1, Len(s) - 1)
           c == [b EXCEPT ![m] = FALSE]
<1>0. s \in Seq(Frame)
  BY DEF Calls
<1>1. Calls(t, c, k, ch) /\ (Len(s) # 1 => t # <<>>)
  BY PopKeepsCalls
<1>2. /\ Len(s) \in Nat \ {0} /\ DOMAIN s = 1 .. Len(s)
      /\ DOMAIN t = 1 .. Len(s) - 1
      /\ \A i \in DOMAIN t : t[i] = s[i]
  BY <1>0, Popped
<1>3. FrameOK(s[Len(s)], k, ch)
  BY <1>2 DEF Calls, FramesOK
<1>4. ASSUME NEW i \in DOMAIN t PROVE FrameOK(t[i], k, ch2)
  <2>1. i \in DOMAIN s /\ i # Len(s) /\ Len(s) \in DOMAIN s /\ t[i] = s[i]
    BY <1>2
  <2>2. s[i] \in Frame
    BY <1>0, <1>2, <2>1, ElementOfSeq
  <2>3. PICK f \in Frame : f = s[i]
    BY <2>2
  <2>4. f.of \in Module /\ f.visited \subseteq Module
    BY FrameType
  <2>5. FrameOK(f, k, ch)
    BY <2>1, <2>3 DEF Calls, FramesOK
  <2>6. Materializes(f) => f.of # m
    BY <2>1, <2>3 DEF Calls, Scoped
  <2>7. k[m] = "model" /\ ch[m] = <<>>
    BY <1>3 DEF FrameOK
  <2>8. f.op = "contains" => m \notin f.visited
    BY <2>5, <2>7 DEF FrameOK
  <2>9. FrameOK(f, k, ch2)
    <3>1. Materializes(f) => k[f.of] = "model" /\ ch2[f.of] = <<>>
      BY <2>4, <2>5, <2>6 DEF FrameOK
    <3>2. ASSUME f.op = "contains"
          PROVE  \A v \in f.visited : ch2[v] = ch[v]
      BY <2>4, <2>8, <3>2
    <3>3. QED
      BY <2>5, <3>1, <3>2 DEF FrameOK
  <2>10. QED
    BY <2>1, <2>3, <2>9
<1>5. Calls(t, c, k, ch2)
  <2> HIDE DEF t, c
  <2>1. QED
    BY <1>1, <1>4, TreeChangeKeepsCalls
<1>6. QED
  BY <1>1, <1>5

LEMMA AdoptStep == IInv /\ Adopt => IInv'
<1>1. SUFFICES ASSUME IInv, Adopt PROVE IInv'
  OBVIOUS
<1>2. /\ stack # <<>> /\ ~raised /\ Top.op = "contains" /\ Top.agenda = <<>>
      /\ UNCHANGED <<kind, disposed, calls>>
  BY <1>1 DEF Adopt, Runs, Idle
<1>3. CASE ~Attachable(Top.root)
  <2>1. TopFails /\ UNCHANGED <<tree, calls>>
    BY <1>1, <1>2, <1>3 DEF Adopt, tree
  <2>2. QED
    BY <1>1, <1>2, <2>1, TopFailsStep
<1>4. CASE Attachable(Top.root)
  <2>1. PICK m : m = Top.of
    OBVIOUS
  <2>2. PICK r : r = Top.root
    OBVIOUS
  <2>3. /\ m \in Module /\ r \in Top.visited /\ Top.visited \in SUBSET Built
        /\ m \notin Top.visited
        /\ kind[m] = "model" /\ children[m] = <<>>
        /\ \A v \in Top.visited : Elements(children[v]) \subseteq Top.visited
    BY <1>1, <1>2, <2>1, <2>2, SearchIsOver
  <2>4. r \in Module
    BY <2>3 DEF Built
  <2>5. /\ owner' = [owner EXCEPT ![r] = m]
        /\ children' = [children EXCEPT ![m] = <<r>>]
        /\ building' = [building EXCEPT ![m] = FALSE]
        /\ stack' = SubSeq(stack, 1, Len(stack) - 1)
        /\ raised' = raised
    BY <1>1, <1>2, <1>4, <2>1, <2>2 DEF Adopt, BuildingAfter, Materializes, Below
  <2>6. TreeInv'
    BY <1>1, <1>2, <1>4, <2>2, <2>3, <2>4, <2>5, AdoptionKeepsTree
  <2>7. /\ owner' \in [Module -> Module \cup {NoModule}]
        /\ children' \in [Module -> Seq(Module)]
        /\ \A n \in Module : n # m => children'[n] = children[n]
    BY <1>1, <2>3, <2>4, <2>5, IInvParts, ElementsOfOne
  <2>8. Materializes(stack[Len(stack)]) /\ m = stack[Len(stack)].of
    BY <1>2, <2>1 DEF Materializes, Top
  <2>9. Calls(SubSeq(stack, 1, Len(stack) - 1), [building EXCEPT ![m] = FALSE], kind, children')
    BY <1>1, <1>2, <2>7, <2>8, IInvCalls, AdoptionKeepsCalls
  <2>10. Calls(stack', building', kind', children')
    BY <1>2, <2>5, <2>9
  <2>11. QED
    BY <1>1, <1>2, <2>5, <2>6, <2>7, <2>10, IInvCalls, IInvParts, TreeStep
<1>5. QED
  BY <1>3, <1>4

-------------------------------------------------------------------------------
(***************************************************************************)
(* The theorems.                                                           *)
(***************************************************************************)

LEMMA InitIInv == Init => IInv
<1>1. SUFFICES ASSUME Init PROVE IInv
  OBVIOUS
<1>2. TypeOK
  <2>1. stack \in Seq(Frame) /\ <<>> \in Seq(Module)
    BY <1>1, EmptySeq DEF Init
  <2>2. children \in [Module -> Seq(Module)]
    BY <1>1, <2>1 DEF Init
  <2>3. calls \in 0 .. MaxCalls
    BY <1>1, BoundsAssumption DEF Init
  <2>4. QED
    BY <1>1, <2>1, <2>2, <2>3 DEF Init, TypeOK, Kind, Idle
<1>3. \A p \in Module : Elements(children[p]) = {}
  BY <1>1, ElementsOfEmpty DEF Init
<1>4. \A c \in Module : owner[c] \notin Module
  BY <1>1, BoundsAssumption DEF Init, Module, NoModule
<1>5. TreeInv
  BY <1>1, <1>3, <1>4 DEF Init, TreeInv, UnbuiltIsBare, ChildrenAreBuilt, SingleOwner, NoCircle
<1>6. SearchInv /\ BuildingIsScoped
  BY <1>1 DEF Init, SearchInv, BuildingIsScoped
<1>7. QED
  BY <1>2, <1>5, <1>6 DEF IInv

LEMMA NextIInv == IInv /\ [Next]_vars => IInv'
<1>1. SUFFICES ASSUME IInv, [Next]_vars PROVE IInv'
  OBVIOUS
<1>2. CASE Program
  BY <1>1, <1>2, CreateStep, CreateSequentialStep, WalkStep, DisposeStep DEF Program
<1>3. CASE Callback
  BY <1>1, <1>3, BuildThrowsStep, BuildReturnsStep DEF Callback
<1>4. CASE Machine
  BY <1>1, <1>4, EnsureMaterializedStep, DescendStep, WalkReturnsStep, CycleFoundStep,
     AdoptStep, UnwindStep DEF Machine
<1>5. CASE UNCHANGED vars
  <2>1. UNCHANGED <<tree, stack, building, raised, calls>>
    BY <1>5 DEF vars
  <2>2. QED
    BY <1>1, <2>1, IInvCalls, CallStep
<1>6. QED
  BY <1>1, <1>2, <1>3, <1>4, <1>5 DEF Next

\* The invariant holds of every behaviour of the modules.
LEMMA InvariantHolds == Spec => []IInv
  BY InitIInv, NextIInv, PTL DEF Spec

\* Kinds, children, owners, flags and the calls in progress keep their types: the
\* agenda of a search holds only modules, however the tree grows under it.
THEOREM TreeIsTyped == Spec => []TypeOK
<1>1. IInv => TypeOK
  BY DEF IInv
<1>2. QED
  BY <1>1, InvariantHolds, PTL

\* A living module is a child of its owner and of nothing else, though Sequential
\* attaches its children one by one and a Model adopts a candidate that it had
\* checked before the builds of the cycle check ran (layers.dart:17, model.dart:63).
THEOREM OwnersFormAForest == Spec => []SingleOwner
<1>1. IInv => SingleOwner
  BY DEF IInv, TreeInv
<1>2. QED
  BY <1>1, InvariantHolds, PTL

\* Model._building is set exactly while its materialization is on the stack, and
\* no Model is materialized twice at a time (model.dart:28 and its finally clause).
THEOREM GuardIsScoped == Spec => []BuildingIsScoped
<1>1. IInv => BuildingIsScoped
  BY DEF IInv
<1>2. QED
  BY <1>1, InvariantHolds, PTL

\* The modules below m, and m, would have one that is nobody's child; but each
\* of them is a child of another, m by assumption.
LEMMA NoCircleNoDescent ==
  ASSUME children \in [Module -> Seq(Module)], NoCircle
  PROVE  Acyclic
<1>1. ASSUME NEW m \in Module, m \in Descendants(m) PROVE FALSE
  <2> DEFINE D == Descendants(m)
  <2>1. D \in SUBSET Module /\ D # {}
    BY <1>1 DEF Descendants
  <2>2. PICK o \in D : \A p \in D : o \notin Elements(children[p])
    BY <2>1 DEF NoCircle
  <2>3. \A p \in Module : Elements(children[p]) \subseteq Module
    BY ElementsAre
  <2>5. Elements(children[m]) \subseteq D
    BY <2>3 DEF Descendants
  <2>6. \A p \in D : Elements(children[p]) \subseteq D
    <3>1. ASSUME NEW p \in D, NEW c \in Elements(children[p]) PROVE c \in D
      <4>1. c \in Module
        BY <2>1, <2>3
      <4>2. ASSUME NEW S \in SUBSET Module, Elements(children[m]) \subseteq S, Below1(S) = S
            PROVE  c \in S
        <5>1. p \in S
          BY <4>2 DEF Descendants
        <5>2. c \in Below1(S)
          BY <5>1, <3>1 DEF Below1
        <5>3. QED
          BY <4>2, <5>2
      <4>3. QED
        BY <4>1, <4>2 DEF Descendants
    <3>2. QED
      BY <3>1
  <2>7. D \ {o} \in SUBSET Module /\ Elements(children[m]) \subseteq D \ {o}
    BY <1>1, <2>1, <2>2, <2>5
  <2>8. Below1(D \ {o}) = D \ {o}
    BY <2>2, <2>6 DEF Below1
  <2>9. o \in D \ {o}
    BY <2>2, <2>7, <2>8 DEF Descendants
  <2>10. QED
    BY <2>9
<1>2. QED
  BY <1>1 DEF Acyclic

\* No module is below itself, in a tree of any size: the search of
\* internalContainsModule covers what was lazy when it began (model.dart:56).
THEOREM TreeIsAcyclic == Spec => []Acyclic
<1>1. IInv => Acyclic
  BY NoCircleNoDescent DEF IInv, TreeInv, TypeOK
<1>2. QED
  BY <1>1, InvariantHolds, PTL

-----------------------------------------------------------------------------
(***************************************************************************)
(* Module.to: where the layers are, step by step.                          *)
(***************************************************************************)

USE MoveAssumption

On(d) == TorchDevice(d, accelerator)

\* Layer l is on device d, and the Tensors of its parameters can be used.
Placed(l, d) ==
  \A p \in Param :
    /\ native[l][p] = On(d)
    /\ <<l, p>> \notin gone => live[l][p] /\ wrapper[l][p] = d

\* Where the program was told the layer is, if it was told.
PlacedAtHome(l) == home[l] # NoDevice => Placed(l, home[l])

Types ==
  /\ accelerator \in Accelerators
  /\ native \in [Layer -> [Param -> {On(d) : d \in Device}]]
  /\ wrapper \in [Layer -> [Param -> Device]]
  /\ live \in [Layer -> [Param -> BOOLEAN]]
  /\ gone \subseteq Layer \X Param
  /\ pc \in Phase /\ back \in BOOLEAN /\ backFails \in BOOLEAN
  /\ plan \in [Layer -> Device] /\ target \in Device
  /\ home \in [Layer -> Device \cup {NoDevice}]
  /\ pc # "idle" => layer \in Layer

\* The plan to go back leads to where the program was told the layers are.
PlanIsHome ==
  pc # "idle" => \A l \in Layer : home[l] # NoDevice => plan[l] = home[l]

\* Layers before the current one have arrived, layers after it have not left.
Forward ==
  pc # "idle" /\ ~back =>
    /\ \A l \in Layer : l < layer => Placed(l, target)
    /\ \A l \in Layer : l > layer => PlacedAtHome(l)

\* Unless something failed on the way back, layers after the current one are
\* where they were.
Backward ==
  pc # "idle" /\ back /\ ~backFails =>
    \A l \in Layer : l > layer => PlacedAtHome(l)

\* Behind the native move, the parameters of the layer have arrived.
Arrived ==
  pc \in {"fetch", "check", "install"} =>
    /\ On(Destination) # Unmapped
    /\ \A p \in Param : native[layer][p] = On(Destination)

PlacesInv ==
  Types /\ NotSilentlySplit /\ PlanIsHome /\ Forward /\ Backward /\ Arrived

-----------------------------------------------------------------------------
(***************************************************************************)
(* The codec of devices.                                                   *)
(***************************************************************************)

\* A tensor on a device LibTorch has is reported on the device it was put on,
\* whichever device LibTorch keeps it on (MapTorchDevice of torch_backend.cc).
LEMMA RoundTrip ==
  ASSUME NEW a \in [kind : TorchKind \cup {"none"}, count : Nat],
         NEW family \in DeviceKind, NEW index \in Int,
         TorchDevice(<<family, index>>, a) # Unmapped
  PROVE  MapTorchDevice(TorchDevice(<<family, index>>, a), a) = <<family, index>>
<1>1. Indexed(family, index) /\ index < DeviceCount(family, a)
  <2>1. <<family, index>>[1] = family /\ <<family, index>>[2] = index
    OBVIOUS
  <2>2. CASE ~(Indexed(family, index) /\ index < DeviceCount(family, a))
    <3>1. DeviceCount(family, a) \in Int
      BY DEF DeviceCount
    <3>2. TorchDevice(<<family, index>>, a) = Unmapped
      BY <2>1, <2>2, <3>1 DEF TorchDevice
    <3>3. QED
      BY <3>2
  <2>3. QED
    BY <2>2
<1>2. index >= 0
  BY <1>1 DEF Indexed
<1>3. CASE family = "cpu"
  <2>1. TorchDevice(<<family, index>>, a) = <<"CPU", -1>>
    BY <1>1, <1>3 DEF TorchDevice
  <2>2. index = 0
    BY <1>1, <1>3 DEF Indexed
  <2>3. QED
    BY <1>3, <2>1, <2>2 DEF MapTorchDevice
<1>4. CASE family = "mps"
  <2>1. TorchDevice(<<family, index>>, a) = <<"MPS", -1>>
    BY <1>1, <1>4 DEF TorchDevice
  <2>2. index = 0
    BY <1>1, <1>4 DEF Indexed
  <2>3. QED
    BY <1>4, <2>1, <2>2 DEF MapTorchDevice
<1>5. CASE family = "xpu"
  <2>1. TorchDevice(<<family, index>>, a) = <<"XPU", index>>
    BY <1>1, <1>5 DEF TorchDevice
  <2>2. QED
    BY <1>5, <2>1 DEF MapTorchDevice
<1>6. CASE family \in {"cuda", "hip"}
  <2>1. TorchDevice(<<family, index>>, a) = <<"CUDA", index>>
    BY <1>1, <1>6 DEF TorchDevice
  <2>2. DeviceCount(family, a) # 0
    BY <1>1, <1>2 DEF DeviceCount
  <2>3. MatchesAccelerator(family, a)
    BY <1>6, <2>2 DEF DeviceCount
  <2>4. family = IF a.kind = "HIP" THEN "hip" ELSE "cuda"
    BY <1>6, <2>3 DEF MatchesAccelerator
  <2>5. QED
    BY <2>1, <2>4 DEF MapTorchDevice
<1>7. QED
  BY <1>3, <1>4, <1>5, <1>6 DEF DeviceKind

LEMMA Named ==
  ASSUME Types, NEW d \in Device, On(d) # Unmapped
  PROVE  MapTorchDevice(On(d), accelerator) = d
<1>1. accelerator \in [kind : TorchKind \cup {"none"}, count : Nat]
  BY DEF Types
<1>2. PICK family \in DeviceKind, index \in Int : d = <<family, index>>
  OBVIOUS
<1>3. QED
  BY <1>1, <1>2, RoundTrip DEF On

LEMMA DestinationIsDevice ==
  ASSUME Types, pc # "idle" PROVE Destination \in Device
  BY DEF Types, Destination

LEMMA InitPlaces == MoveInit => PlacesInv
<1> SUFFICES ASSUME MoveInit PROVE PlacesInv
  OBVIOUS
<1>1. home \in [Layer -> Device] /\ 1 \in Layer
  BY DEF MoveInit, Available, Layer
<1>2. Types
  <2>1. \A l \in Layer : On(home[l]) \in {On(d) : d \in Device}
    BY <1>1
  <2>2. native \in [Layer -> [Param -> {On(d) : d \in Device}]]
    BY <2>1 DEF MoveInit, On
  <2>3. QED
    BY <1>1, <2>2 DEF MoveInit, Types, Phase
<1>3. NotSilentlySplit
  BY <1>1 DEF MoveInit, NotSilentlySplit
<1>4. QED
  BY <1>2, <1>3 DEF PlacesInv, MoveInit, PlanIsHome, Forward, Backward, Arrived

-----------------------------------------------------------------------------
(***************************************************************************)
(* The ends of a step: whatever it did to the layer it is about, the other *)
(* layers keep what the invariant says of them.                            *)
(***************************************************************************)
OnlyThisLayer ==
  /\ accelerator' = accelerator /\ gone' = gone
  /\ native' \in [Layer -> [Param -> {On(d) : d \in Device}]]
  /\ wrapper' \in [Layer -> [Param -> Device]]
  /\ live' \in [Layer -> [Param -> BOOLEAN]]
  /\ \A l \in Layer : l # layer =>
       native'[l] = native[l] /\ wrapper'[l] = wrapper[l] /\ live'[l] = live[l]

LEMMA OthersStay ==
  ASSUME Types, OnlyThisLayer, NEW l \in Layer, l # layer,
         home' = home, target' = target
  PROVE  /\ PlacedAtHome(l) => PlacedAtHome(l)'
         /\ Placed(l, target) => Placed(l, target)'
<1>1. native'[l] = native[l] /\ wrapper'[l] = wrapper[l] /\ live'[l] = live[l]
  BY DEF OnlyThisLayer
<1>2. accelerator' = accelerator /\ gone' = gone
  BY DEF OnlyThisLayer
<1>3. QED
  BY <1>1, <1>2 DEF PlacedAtHome, Placed, On

\* The step goes on to the next part of internalOnMove.
LEMMA ProceedKeepsIInv ==
  ASSUME PlacesInv, pc # "idle", OnlyThisLayer,
         NEW to \in {"fetch", "check", "install"}, Proceed(to),
         On(Destination) # Unmapped,
         \A p \in Param : native'[layer][p] = On(Destination)
  PROVE  PlacesInv'
<1> USE DEF PlacesInv
<1>1. /\ pc' = to
      /\ UNCHANGED <<plan, target, layer, back, backFails, outcome, moves, home>>
  BY DEF Proceed
<1>2. Types'
  BY <1>1 DEF Types, OnlyThisLayer, Phase, On
<1>3. NotSilentlySplit' /\ PlanIsHome'
  BY <1>1 DEF NotSilentlySplit, PlanIsHome
<1>4. Forward'
  <2>1. \A l \in Layer : l < layer \/ l > layer => l # layer
    BY DEF Types, Layer
  <2>2. QED
    BY <1>1, <2>1, OthersStay DEF Forward
<1>5. Backward'
  <2>1. \A l \in Layer : l > layer => l # layer
    BY DEF Types, Layer
  <2>2. QED
    BY <1>1, <2>1, OthersStay DEF Backward
<1>6. Destination' = Destination /\ On(Destination)' = On(Destination)
  BY <1>1 DEF Destination, OnlyThisLayer, On
<1>7. Arrived'
  BY <1>1, <1>6 DEF Arrived
<1>8. QED
  BY <1>2, <1>3, <1>4, <1>5, <1>7

\* The step fails: the way back begins at this layer, or, if the move is on it,
\* goes on below and ends in a state declared indeterminate.
LEMMA FailsKeepsIInv ==
  ASSUME PlacesInv, pc # "idle", OnlyThisLayer, LayerFails
  PROVE  PlacesInv'
<1> USE DEF PlacesInv
<1>1. UNCHANGED <<plan, target, moves>> /\ layer \in Layer
  BY DEF LayerFails, Types
<1>2. CASE ~back
  <2>1. /\ back' = TRUE /\ backFails' = FALSE /\ layer' = layer /\ pc' = "native"
        /\ UNCHANGED <<outcome, home>>
    BY <1>1, <1>2 DEF LayerFails, StartRollBack, RollBackFrom, GoTo
  <2>2. Types'
    <3>1. /\ layer' \in Layer /\ plan' = plan /\ target' = target /\ home' = home
          /\ pc' \in Phase /\ back' \in BOOLEAN /\ backFails' \in BOOLEAN
      BY <1>1, <2>1 DEF Phase
    <3>2. QED
      BY <3>1 DEF Types, OnlyThisLayer, On
  <2>3. Backward'
    <3>1. \A l \in Layer : l > layer => l # layer
      BY DEF Types, Layer
    <3>2. QED
      BY <1>1, <1>2, <2>1, <3>1, OthersStay DEF Backward, Forward
  <2>4. QED
    BY <1>1, <2>1, <2>2, <2>3 DEF NotSilentlySplit, PlanIsHome, Forward, Arrived
<1>3. CASE back
  <2>1. ContinueRollBack(TRUE)
    BY <1>3 DEF LayerFails
  <2>2. back' = back /\ backFails' = TRUE
    BY <1>3, <2>1 DEF ContinueRollBack, Types
  <2>3. CASE layer - 1 \in Layer
    <3>1. layer' = layer - 1 /\ pc' = "native" /\ UNCHANGED <<outcome, home>>
      BY <2>1, <2>3 DEF ContinueRollBack, GoTo
    <3>2. Types'
      BY <1>1, <2>2, <2>3, <3>1 DEF Types, OnlyThisLayer, Phase, On
    <3>3. QED
      BY <1>1, <1>3, <2>2, <3>1, <3>2
         DEF NotSilentlySplit, PlanIsHome, Forward, Backward, Arrived
  <2>4. CASE layer - 1 \notin Layer
    <3>1. pc' = "idle" /\ home' = [l \in Layer |-> NoDevice]
      BY <2>1, <2>2, <2>4 DEF ContinueRollBack, Settle, Told
    <3>2. Types'
      BY <1>1, <2>2, <3>1 DEF Types, OnlyThisLayer, Phase, On
    <3>3. QED
      BY <3>1, <3>2 DEF NotSilentlySplit, PlanIsHome, Forward, Backward, Arrived
  <2>5. QED
    BY <2>3, <2>4
<1>4. QED
  BY <1>2, <1>3

\* The layer has arrived: the move goes on to the next layer, or ends.
LEMMA MovedKeepsIInv ==
  ASSUME PlacesInv, pc # "idle", OnlyThisLayer, LayerMoved,
         \A p \in Param : /\ native'[layer][p] = On(Destination)
                          /\ live'[layer][p] /\ wrapper'[layer][p] = Destination
  PROVE  PlacesInv'
<1> USE DEF PlacesInv
<1> PICK here \in Layer : here = layer
  BY DEF Types
<1>1. /\ UNCHANGED <<plan, target, moves>> /\ layer \in Layer
      /\ accelerator' = accelerator
      /\ \A l \in Layer : /\ (l < here \/ l > here => l # here)
                          /\ (l # here => l < here \/ l > here)
  BY DEF LayerMoved, Types, Layer, OnlyThisLayer
<1>2. CASE ~back
  <2>1. NextLayer /\ UNCHANGED <<back, backFails>>
    BY <1>2 DEF LayerMoved, NextLayer
  <2>2. Placed(here, target)'
    BY <1>1, <1>2 DEF Destination, Placed, On
  <2>3. CASE layer + 1 \in Layer
    <3>1. layer' = layer + 1 /\ pc' = "native" /\ UNCHANGED <<outcome, home>>
      BY <2>1, <2>3 DEF NextLayer, GoTo
    <3>2. Types'
      BY <1>1, <2>1, <2>3, <3>1 DEF Types, OnlyThisLayer, Phase, On
    <3>3. Forward'
      <4>1. \A l \in Layer : /\ (l < here + 1 => l = here \/ l < here)
                            /\ (l > here + 1 => l > here)
        BY DEF Types, Layer
      <4>2. QED
        BY <1>1, <1>2, <2>1, <2>2, <3>1, <4>1, OthersStay DEF Forward
    <3>4. QED
      BY <1>1, <1>2, <2>1, <3>1, <3>2, <3>3
         DEF NotSilentlySplit, PlanIsHome, Backward, Arrived
  <2>4. CASE layer + 1 \notin Layer
    <3>1. pc' = "idle" /\ home' = [l \in Layer |-> target]
      BY <2>1, <2>4 DEF NextLayer, Settle, Told
    <3>2. Types'
      BY <1>1, <2>1, <3>1 DEF Types, OnlyThisLayer, Phase, On
    <3>3. \A l \in Layer : l = here \/ l < here
      BY <2>4 DEF Types, Layer
    <3>4. ASSUME NEW l \in Layer PROVE Placed(l, target)'
      <4>1. CASE l = here
        BY <2>2, <4>1
      <4>2. CASE l # here
        <5>1. Placed(l, target)
          BY <1>2, <3>3, <4>2 DEF Forward
        <5>2. native'[l] = native[l] /\ wrapper'[l] = wrapper[l] /\ live'[l] = live[l]
          BY <4>2 DEF OnlyThisLayer
        <5>3. gone' = gone /\ accelerator' = accelerator /\ target' = target
          BY <1>1 DEF OnlyThisLayer
        <5>4. QED
          BY <5>1, <5>2, <5>3 DEF Placed, On
      <4>3. QED
        BY <4>1, <4>2
    <3>5. NotSilentlySplit'
      BY <1>1, <3>1, <3>4 DEF NotSilentlySplit, Placed, On
    <3>6. QED
      BY <3>1, <3>2, <3>5 DEF PlanIsHome, Forward, Backward, Arrived
  <2>5. QED
    BY <2>3, <2>4
<1>3. CASE back
  <2>1. ContinueRollBack(FALSE) /\ back' = back /\ backFails' = backFails
    BY <1>3 DEF LayerMoved, ContinueRollBack, Types
  <2>2. home[layer] # NoDevice => Destination = home[layer]
    BY <1>1, <1>3 DEF PlanIsHome, Destination
  <2>3. home' = home => PlacedAtHome(here)'
    BY <1>1, <2>2 DEF PlacedAtHome, Placed, On
  <2>4. CASE layer - 1 \in Layer
    <3>1. layer' = layer - 1 /\ pc' = "native" /\ UNCHANGED <<outcome, home>>
      BY <2>1, <2>4 DEF ContinueRollBack, GoTo
    <3>2. Types'
      BY <1>1, <2>1, <2>4, <3>1 DEF Types, OnlyThisLayer, Phase, On
    <3>3. Backward'
      <4>1. \A l \in Layer : l > here - 1 => l = here \/ l > here
        BY DEF Types, Layer
      <4>2. QED
        BY <1>1, <1>3, <2>1, <2>3, <3>1, <4>1, OthersStay DEF Backward
    <3>4. QED
      BY <1>1, <1>3, <2>1, <3>1, <3>2, <3>3
         DEF NotSilentlySplit, PlanIsHome, Forward, Arrived
  <2>5. CASE layer - 1 \notin Layer /\ backFails
    <3>1. pc' = "idle" /\ home' = [l \in Layer |-> NoDevice]
      BY <2>1, <2>5 DEF ContinueRollBack, Settle, Told
    <3>2. Types'
      BY <1>1, <2>1, <3>1 DEF Types, OnlyThisLayer, Phase, On
    <3>3. QED
      BY <3>1, <3>2 DEF NotSilentlySplit, PlanIsHome, Forward, Backward, Arrived
  <2>6. CASE layer - 1 \notin Layer /\ ~backFails
    <3>1. pc' = "idle" /\ home' = home
      BY <2>1, <2>6 DEF ContinueRollBack, Settle, Told
    <3>2. Types'
      BY <1>1, <2>1, <3>1 DEF Types, OnlyThisLayer, Phase, On
    <3>3. \A l \in Layer : l = here \/ l > here
      BY <2>6 DEF Types, Layer
    <3>4. \A l \in Layer : PlacedAtHome(l)'
      BY <1>1, <1>3, <2>3, <2>6, <3>1, <3>3, OthersStay DEF Backward
    <3>5. NotSilentlySplit'
      BY <3>4 DEF NotSilentlySplit, PlacedAtHome, Placed, On
    <3>6. QED
      BY <3>1, <3>2, <3>5 DEF PlanIsHome, Forward, Backward, Arrived
  <2>7. QED
    BY <2>4, <2>5, <2>6
<1>4. QED
  BY <1>2, <1>3

-----------------------------------------------------------------------------
(***************************************************************************)
(* The steps of the program and of internalOnMove.                         *)
(***************************************************************************)

\* Between moves the program may dispose of parameters, which are then not spoken
\* of any more, or begin a move.
LEMMA ProgramKeepsIInv ==
  ASSUME PlacesInv,
         \/ \E d \in Device : Begin(d)
         \/ \E l \in Layer, p \in Param : DisposeParameter(l, p)
  PROVE  PlacesInv'
<1> USE DEF PlacesInv
<1>1. ASSUME NEW d \in Device, Begin(d) PROVE PlacesInv'
  <2>1. UNCHANGED <<accelerator, native, wrapper, live, gone, handles, home>> /\ pc = "idle"
    BY <1>1 DEF Begin, parameters
  <2>2. CASE DeviceCount(d[1], accelerator) > 0 /\ Plannable
    <3>1. /\ pc' = "native" /\ layer' = 1 /\ target' = d
          /\ plan' = [l \in Layer |-> wrapper[l][1]]
          /\ back' = FALSE /\ backFails' = FALSE
      BY <1>1, <2>2 DEF Begin
    <3>2. 1 \in Layer /\ 1 \in Param /\ \A l \in Layer : l >= 1
      BY DEF Layer, Param
    <3>3. Types'
      BY <2>1, <3>1, <3>2 DEF Types, Phase, On
    <3>4. PlanIsHome'
      BY <2>1, <2>2, <3>1, <3>2 DEF PlanIsHome, NotSilentlySplit, Plannable
    <3>5. \A l \in Layer : PlacedAtHome(l)'
      BY <2>1 DEF NotSilentlySplit, PlacedAtHome, Placed, On
    <3>6. Forward'
      BY <3>1, <3>2, <3>5 DEF Forward, Layer
    <3>7. QED
      BY <3>1, <3>3, <3>4, <3>6 DEF NotSilentlySplit, Backward, Arrived
  <2>3. CASE ~(DeviceCount(d[1], accelerator) > 0 /\ Plannable)
    <3>1. UNCHANGED <<pc, plan, target, layer, back, backFails>>
      BY <1>1, <2>3 DEF Begin
    <3>2. Types'
      BY <2>1, <3>1 DEF Types, On
    <3>3. QED
      BY <2>1, <3>1, <3>2
         DEF NotSilentlySplit, PlanIsHome, Forward, Backward, Arrived
  <2>4. QED
    BY <2>2, <2>3
<1>2. ASSUME NEW l \in Layer, NEW p \in Param, DisposeParameter(l, p) PROVE PlacesInv'
  <2>1. /\ pc = "idle" /\ gone' = gone \cup {<<l, p>>}
        /\ live' = [live EXCEPT ![l][p] = FALSE]
        /\ UNCHANGED <<accelerator, native, wrapper, pc, plan, target, layer, back,
                      backFails, home>>
    BY <1>2 DEF DisposeParameter, call
  <2>2. /\ live' \in [Layer -> [Param -> BOOLEAN]]
        /\ \A k \in Layer, q \in Param : <<k, q>> \notin gone' => live'[k][q] = live[k][q]
    BY <2>1 DEF Types
  <2>3. Types'
    BY <2>1, <2>2 DEF Types, On
  <2>4. NotSilentlySplit'
    BY <2>1, <2>2 DEF NotSilentlySplit
  <2>5. QED
    BY <2>1, <2>3, <2>4 DEF PlanIsHome, Forward, Backward, Arrived
<1>3. QED
  BY <1>1, <1>2

LEMMA NativeKeepsIInv ==
  ASSUME PlacesInv, MoveNative \/ RefuseNative
  PROVE  PlacesInv'
<1>1. CASE RefuseNative
  <2>1. pc # "idle" /\ OnlyThisLayer /\ LayerFails
    BY <1>1 DEF RefuseNative, parameters, OnlyThisLayer, PlacesInv, Types
  <2>2. QED
    BY <2>1, FailsKeepsIInv
<1>2. CASE MoveNative
  <2>1. pc # "idle" /\ On(Destination) # Unmapped /\ layer \in Layer
    BY <1>2 DEF MoveNative, On, PlacesInv, Types
  <2>2. PICK n \in 0 .. MaxParam :
          /\ native' = [native EXCEPT ![layer] =
                          [p \in Param |-> IF p <= n THEN On(Destination)
                                          ELSE native[layer][p]]]
          /\ IF n = MaxParam THEN Proceed("fetch") ELSE LayerFails
          /\ UNCHANGED <<accelerator, wrapper, live, gone>>
    BY <1>2, <2>1 DEF MoveNative, On, PlacesInv, Types
  <2>3. On(Destination) \in {On(d) : d \in Device}
    BY <2>1, DestinationIsDevice DEF PlacesInv
  <2>4. OnlyThisLayer
    BY <2>1, <2>2, <2>3 DEF OnlyThisLayer, PlacesInv, Types
  <2>5. CASE n = MaxParam
    <3>1. \A p \in Param : native'[layer][p] = On(Destination)
      BY <2>1, <2>2, <2>5 DEF PlacesInv, Types, Param
    <3>2. Proceed("fetch")
      BY <2>2, <2>5
    <3>3. QED
      BY <2>1, <2>4, <3>1, <3>2, ProceedKeepsIInv
  <2>6. CASE n # MaxParam
    BY <2>1, <2>2, <2>4, <2>6, FailsKeepsIInv
  <2>7. QED
    BY <2>5, <2>6
<1>3. QED
  BY <1>1, <1>2

\* Fetching and checking the replacements changes no layer.
LEMMA ReplacementsKeepIInv ==
  ASSUME PlacesInv, Fetch \/ Check
  PROVE  PlacesInv'
<1>1. /\ pc \in {"fetch", "check"}
      /\ UNCHANGED <<accelerator, native, wrapper, live, gone>>
      /\ LayerFails \/ Proceed("check") \/ Proceed("install")
  BY DEF Fetch, Check
<1>2. OnlyThisLayer
  BY <1>1 DEF OnlyThisLayer, PlacesInv, Types
<1>3. CASE LayerFails
  BY <1>1, <1>2, <1>3, FailsKeepsIInv
<1>4. CASE Proceed("check") \/ Proceed("install")
  <2>1. On(Destination) # Unmapped /\ \A p \in Param : native'[layer][p] = On(Destination)
    BY <1>1 DEF PlacesInv, Arrived
  <2>2. QED
    BY <1>1, <1>2, <1>4, <2>1, ProceedKeepsIInv
<1>5. QED
  BY <1>1, <1>3, <1>4

\* The Tensors installed name the device the layer was sent to.
LEMMA InstallKeepsIInv ==
  ASSUME PlacesInv, Install \/ InstallFails
  PROVE  PlacesInv'
<1>1. pc = "install" /\ UNCHANGED <<accelerator, native, gone>> /\ layer \in Layer
  BY DEF Install, InstallFails, PlacesInv, Types
<1>2. /\ On(Destination) # Unmapped /\ Destination \in Device
      /\ \A p \in Param : native[layer][p] = On(Destination)
  BY <1>1, DestinationIsDevice DEF PlacesInv, Arrived
<1>3. \A p \in Param : MapTorchDevice(native[layer][p], accelerator) = Destination
  BY <1>2, Named DEF PlacesInv
<1>4. \A n \in Nat :
        Installed(n) = [wrapper EXCEPT ![layer] =
                          [p \in Param |-> IF p <= n THEN Destination
                                          ELSE wrapper[layer][p]]]
  BY <1>1, <1>3 DEF Installed, PlacesInv, Types
<1>5. ASSUME NEW n \in Nat, NEW row \in [Param -> BOOLEAN],
              wrapper' = Installed(n), live' = [live EXCEPT ![layer] = row]
      PROVE  OnlyThisLayer
  <2>1. /\ wrapper' \in [Layer -> [Param -> Device]]
        /\ \A l \in Layer : l # layer => wrapper'[l] = wrapper[l]
    <3> DEFINE new == [p \in Param |-> IF p <= n THEN Destination ELSE wrapper[layer][p]]
    <3>1. new \in [Param -> Device] /\ wrapper \in [Layer -> [Param -> Device]]
      BY <1>1, <1>2 DEF PlacesInv, Types
    <3>2. wrapper' = [wrapper EXCEPT ![layer] = new]
      BY <1>4, <1>5
    <3> HIDE DEF new
    <3>3. QED
      BY <1>1, <3>1, <3>2
  <2>2. /\ live' \in [Layer -> [Param -> BOOLEAN]]
        /\ \A l \in Layer : l # layer => live'[l] = live[l]
    BY <1>1, <1>5 DEF PlacesInv, Types
  <2>3. native' \in [Layer -> [Param -> {On(d) : d \in Device}]]
    BY <1>1 DEF PlacesInv, Types
  <2>4. QED
    BY <1>1, <2>1, <2>2, <2>3 DEF OnlyThisLayer
<1>6. CASE Install
  <2>1. /\ wrapper' = Installed(MaxParam)
        /\ live' = [live EXCEPT ![layer] = [p \in Param |-> TRUE]] /\ LayerMoved
    BY <1>6 DEF Install
  <2>2. OnlyThisLayer
    <3>1. [p \in Param |-> TRUE] \in [Param -> BOOLEAN] /\ MaxParam \in Nat
      OBVIOUS
    <3>2. QED
      BY <1>5, <2>1, <3>1
  <2>3. \A p \in Param : /\ native'[layer][p] = On(Destination)
                        /\ live'[layer][p] /\ wrapper'[layer][p] = Destination
    BY <1>1, <1>2, <1>4, <2>1 DEF PlacesInv, Types, Param
  <2>4. QED
    BY <1>1, <2>1, <2>2, <2>3, MovedKeepsIInv
<1>7. CASE InstallFails
  <2>1. PICK n \in 0 .. MaxParam - 1 :
          /\ wrapper' = Installed(n)
          /\ live' = [live EXCEPT ![layer] = [p \in Param |-> p > n /\ live[layer][p]]]
    BY <1>1, <1>7 DEF InstallFails, PlacesInv, Types
  <2>2. OnlyThisLayer
    <3>1. [p \in Param |-> p > n /\ live[layer][p]] \in [Param -> BOOLEAN] /\ n \in Nat
      OBVIOUS
    <3>2. QED
      BY <1>5, <2>1, <3>1
  <2>3. LayerFails
    BY <1>7 DEF InstallFails
  <2>4. QED
    BY <1>1, <2>2, <2>3, FailsKeepsIInv
<1>8. QED
  BY <1>6, <1>7

\* The invariant holds of every behaviour of Module.to.
THEOREM PlacesHold == MoveSpec => []PlacesInv
<1>1. MoveInit => PlacesInv
  BY InitPlaces
<1>2. PlacesInv /\ [MoveNext]_move_vars => PlacesInv'
  <2>1. ASSUME PlacesInv, UNCHANGED move_vars PROVE PlacesInv'
    BY <2>1 DEF PlacesInv, Types, NotSilentlySplit, PlanIsHome, Forward, Backward, Arrived,
                PlacedAtHome, Placed, On, Destination, move_vars, parameters, call
  <2>2. QED
    BY <2>1, ProgramKeepsIInv, NativeKeepsIInv, ReplacementsKeepIInv, InstallKeepsIInv
       DEF MoveNext
<1>3. QED
  BY <1>1, <1>2, PTL DEF MoveSpec

\* Module.to never leaves a part of a model on another device without declaring
\* the state indeterminate, whatever fails in the move and in the roll-back.
THEOREM NeverSilentlySplit == MoveSpec => []NotSilentlySplit
<1>1. PlacesInv => NotSilentlySplit
  BY DEF PlacesInv
<1>2. QED
  BY <1>1, PlacesHold, PTL

-----------------------------------------------------------------------------
(***************************************************************************)
(* The count of open handles.                                              *)
(***************************************************************************)
Alive(f) == {x \in Layer \X Param : f[x[1]][x[2]]}
Row(f, l) == {p \in Param : f[l][p]}

LEMMA Sizes ==
  /\ IsFiniteSet(Layer) /\ Cardinality(Layer) = MaxLayer
  /\ IsFiniteSet(Param) /\ Cardinality(Param) = MaxParam
  /\ IsFiniteSet(Layer \X Param) /\ Cardinality(Layer \X Param) = MaxLayer * MaxParam
<1>1. /\ IsFiniteSet(Layer) /\ Cardinality(Layer) = MaxLayer
      /\ IsFiniteSet(Param) /\ Cardinality(Param) = MaxParam
  BY FS_Interval DEF Layer, Param
<1>2. QED
  BY <1>1, FS_Product

\* Wrappers that live, counted layer by layer.
LEMMA RowReplaced ==
  ASSUME NEW f, NEW g, NEW k \in Layer, \A l \in Layer : l # k => g[l] = f[l]
  PROVE  /\ Cardinality(Alive(f)) \in Nat /\ Cardinality(Alive(g)) \in Nat
         /\ Cardinality(Row(f, k)) \in Nat /\ Cardinality(Row(g, k)) \in Nat
         /\ Cardinality(Alive(g)) =
              Cardinality(Alive(f)) - Cardinality(Row(f, k)) + Cardinality(Row(g, k))
<1> DEFINE Rest == {x \in Alive(f) : x[1] # k}
<1>1. ASSUME NEW h, Rest = {x \in Alive(h) : x[1] # k}
      PROVE  /\ Cardinality(Alive(h)) \in Nat /\ Cardinality(Row(h, k)) \in Nat
             /\ Cardinality(Rest) \in Nat
             /\ Cardinality(Alive(h)) = Cardinality(Rest) + Cardinality(Row(h, k))
  <2>1. IsFiniteSet(Alive(h)) /\ IsFiniteSet(Rest) /\ IsFiniteSet(Row(h, k))
    BY <1>1, Sizes, FS_Subset DEF Alive, Row
  <2>2. IsFiniteSet({k} \X Row(h, k)) /\ Cardinality({k} \X Row(h, k)) = Cardinality(Row(h, k))
    <3>1. IsFiniteSet({k}) /\ Cardinality({k}) = 1
      BY FS_Singleton
    <3>2. /\ IsFiniteSet({k} \X Row(h, k))
          /\ Cardinality({k} \X Row(h, k)) = Cardinality({k}) * Cardinality(Row(h, k))
      BY <2>1, <3>1, FS_Product
    <3>3. Cardinality(Row(h, k)) \in Nat
      BY <2>1, FS_CardinalityType
    <3>4. QED
      BY <3>1, <3>2, <3>3
  <2>3. Alive(h) = Rest \cup ({k} \X Row(h, k))
    BY <1>1 DEF Alive, Row
  <2>4. Rest \cap ({k} \X Row(h, k)) = {}
    OBVIOUS
  <2> HIDE DEF Rest
  <2>5. /\ Cardinality(Alive(h)) \in Nat /\ Cardinality(Row(h, k)) \in Nat
        /\ Cardinality(Rest) \in Nat
    BY <2>1, FS_CardinalityType
  <2>6. /\ Cardinality(Rest \cap ({k} \X Row(h, k))) = 0
        /\ Cardinality(Rest \cup ({k} \X Row(h, k))) =
             Cardinality(Rest) + Cardinality({k} \X Row(h, k))
                               - Cardinality(Rest \cap ({k} \X Row(h, k)))
    BY <2>1, <2>2, <2>4, FS_Union, FS_EmptySet
  <2>7. QED
    BY <2>2, <2>3, <2>5, <2>6
<1>2. Rest = {x \in Alive(g) : x[1] # k}
  BY DEF Alive
<1> HIDE DEF Rest
<1>3. Rest = {x \in Alive(f) : x[1] # k}
  BY DEF Rest
<1>4. /\ Cardinality(Alive(f)) \in Nat /\ Cardinality(Row(f, k)) \in Nat
      /\ Cardinality(Rest) \in Nat
      /\ Cardinality(Alive(f)) = Cardinality(Rest) + Cardinality(Row(f, k))
  BY <1>1, <1>3
<1>5. /\ Cardinality(Alive(g)) \in Nat /\ Cardinality(Row(g, k)) \in Nat
      /\ Cardinality(Alive(g)) = Cardinality(Rest) + Cardinality(Row(g, k))
  BY <1>1, <1>2
<1>6. QED
  BY <1>4, <1>5

\* The replacements the move holds.
Held == IF pc \in {"check", "install"} THEN MaxParam ELSE 0

\* What MoveTypeOK says beyond Types.
Ranges ==
  /\ native \in [Layer -> [Param -> {On(d) : d \in Available}]]
  /\ outcome \in Outcome /\ layer \in 0 .. MaxLayer /\ moves \in 0 .. MaxMoves
  /\ (backFails => back)

Balance == handles = Cardinality(Alive(live)) + Held

LEMMA InitBalance == MoveInit => Ranges /\ Balance
<1> SUFFICES ASSUME MoveInit PROVE Ranges /\ Balance
  OBVIOUS
<1>1. Alive(live) = Layer \X Param
  BY DEF MoveInit, Alive
<1>2. Balance
  <2>1. Cardinality(Alive(live)) = handles /\ handles \in Int
    <3>1. Cardinality(Layer \X Param) \in Nat
      BY Sizes, FS_CardinalityType
    <3>2. handles = MaxLayer * MaxParam
      BY DEF MoveInit
    <3>3. Cardinality(Alive(live)) = MaxLayer * MaxParam
      BY <1>1, Sizes
    <3>4. QED
      BY <1>1, <3>1, <3>2, <3>3
  <2>2. Held = 0
    BY DEF MoveInit, Held
  <2>3. QED
    BY <2>1, <2>2 DEF Balance
<1>3. native \in [Layer -> [Param -> {On(d) : d \in Available}]]
  <2>1. \A l \in Layer : On(home[l]) \in {On(d) : d \in Available}
    BY DEF MoveInit
  <2>2. QED
    BY <2>1 DEF MoveInit, On
<1>4. QED
  BY <1>2, <1>3 DEF Ranges, MoveInit, Outcome

\* Whichever way a step ends, the move goes on in range.
LEMMA EndsInRange ==
  ASSUME Types, Ranges, pc # "idle", LayerMoved \/ LayerFails
  PROVE  /\ outcome' \in Outcome /\ layer' \in 0 .. MaxLayer /\ moves' = moves
         /\ (backFails' => back') /\ pc' \in {"native", "idle"}
<1> USE DEF GoTo, Settle, Outcome
<1>1. layer \in Layer /\ Layer \subseteq 0 .. MaxLayer
  BY DEF Types, Layer
<1>2. moves' = moves
  BY DEF LayerMoved, LayerFails
<1>3. CASE NextLayer /\ ~back
  BY <1>1, <1>2, <1>3 DEF NextLayer, Ranges
<1>4. CASE StartRollBack
  BY <1>1, <1>2, <1>4 DEF StartRollBack, RollBackFrom, Ranges
<1>5. CASE (ContinueRollBack(TRUE) \/ ContinueRollBack(FALSE)) /\ back
  BY <1>1, <1>2, <1>5 DEF ContinueRollBack, Ranges
<1>6. QED
  BY <1>3, <1>4, <1>5 DEF LayerMoved, LayerFails

LEMMA ProceedsInRange ==
  ASSUME Ranges, NEW to, Proceed(to)
  PROVE  /\ outcome' \in Outcome /\ layer' \in 0 .. MaxLayer /\ moves' = moves
         /\ (backFails' => back') /\ pc' = to
  BY DEF Proceed, Ranges

\* The native parameters stay on devices a program can name.
LEMMA NativeRange ==
  ASSUME PlacesInv, Ranges, MoveNative
  PROVE  native' \in [Layer -> [Param -> {On(d) : d \in Available}]]
<1>1. /\ On(Destination) # Unmapped /\ layer \in Layer /\ Destination \in Device
  BY DestinationIsDevice DEF MoveNative, On, PlacesInv, Types
<1>2. On(Destination) \in {On(d) : d \in Available}
  BY <1>1 DEF Available, On
<1>3. PICK n \in 0 .. MaxParam :
        native' = [native EXCEPT ![layer] =
                    [p \in Param |-> IF p <= n THEN On(Destination) ELSE native[layer][p]]]
  BY <1>1 DEF MoveNative, On, Ranges
<1> DEFINE row == [p \in Param |-> IF p <= n THEN On(Destination) ELSE native[layer][p]]
<1>4. row \in [Param -> {On(d) : d \in Available}]
  BY <1>1, <1>2 DEF Ranges
<1> HIDE DEF row
<1>5. native' = [native EXCEPT ![layer] = row]
  BY <1>3 DEF row
<1>6. QED
  BY <1>1, <1>4, <1>5 DEF Ranges

LEMMA ProgramBalances ==
  ASSUME Types, Ranges, Balance,
         \/ \E d \in Device : Begin(d)
         \/ \E l \in Layer, p \in Param : DisposeParameter(l, p)
  PROVE  Ranges' /\ Balance'
<1>1. ASSUME NEW d \in Device, Begin(d) PROVE Ranges' /\ Balance'
  <2>1. /\ UNCHANGED <<accelerator, native, live, handles>> /\ pc = "idle"
        /\ moves < MaxMoves /\ moves' = moves + 1 /\ pc' \in {"idle", "native"}
    BY <1>1 DEF Begin, parameters
  <2>2. moves' \in 0 .. MaxMoves
    BY <2>1 DEF Ranges
  <2>3. /\ outcome' \in Outcome /\ layer' \in 0 .. MaxLayer /\ (backFails' => back')
    BY <1>1 DEF Begin, Ranges, Outcome
  <2>4. Ranges'
    BY <2>1, <2>2, <2>3 DEF Ranges, Available, On
  <2>5. Balance'
    BY <2>1 DEF Balance, Held, Alive
  <2>6. QED
    BY <2>4, <2>5
<1>2. ASSUME NEW l \in Layer, NEW p \in Param, DisposeParameter(l, p)
      PROVE  Ranges' /\ Balance'
  <2>1. /\ live' = [live EXCEPT ![l][p] = FALSE] /\ pc = "idle"
        /\ handles' = handles - (IF live[l][p] THEN 1 ELSE 0)
        /\ UNCHANGED <<accelerator, native, pc, layer, back, backFails, outcome, moves>>
    BY <1>2 DEF DisposeParameter, call
  <2>2. Alive(live') = Alive(live) \ {<<l, p>>}
    BY <2>1 DEF Alive, Types
  <2>3. IsFiniteSet(Alive(live))
    BY Sizes, FS_Subset DEF Alive
  <2>4. /\ Cardinality(Alive(live)) \in Nat
        /\ Cardinality(Alive(live')) =
             Cardinality(Alive(live)) - (IF live[l][p] THEN 1 ELSE 0)
    <3>1. <<l, p>> \in Alive(live) <=> live[l][p]
      BY DEF Alive
    <3>2. Cardinality(Alive(live)) \in Nat
      BY <2>3, FS_CardinalityType
    <3>3. Cardinality(Alive(live) \ {<<l, p>>}) =
            IF <<l, p>> \in Alive(live) THEN Cardinality(Alive(live)) - 1
                                       ELSE Cardinality(Alive(live))
      BY <2>3, FS_RemoveElement
    <3>4. CASE live[l][p]
      BY <2>2, <3>1, <3>2, <3>3, <3>4
    <3>5. CASE ~live[l][p]
      BY <2>2, <3>1, <3>2, <3>3, <3>5
    <3>6. QED
      BY <3>4, <3>5
  <2>5. Ranges'
    BY <2>1 DEF Ranges, Available, On
  <2>6. Alive(live)' = Alive(live') /\ Held = 0 /\ Held' = 0
    BY <2>1 DEF Alive, Held
  <2>7. Balance'
    BY <2>1, <2>4, <2>6 DEF Balance
  <2>8. QED
    BY <2>5, <2>7
<1>3. QED
  BY <1>1, <1>2

\* The native move opens and closes nothing; fetching opens the replacements and a
\* failed check closes them.
LEMMA NativeAndFetchBalance ==
  ASSUME PlacesInv, Ranges, Balance, MoveNative \/ RefuseNative \/ Fetch \/ Check
  PROVE  Ranges' /\ Balance'
<1>1. /\ UNCHANGED <<accelerator, wrapper, live, gone>> /\ pc # "idle" /\ Types
      /\ Cardinality(Alive(live)) \in Int /\ handles \in Int
  <2>1. IsFiniteSet(Alive(live))
    BY Sizes, FS_Subset DEF Alive
  <2>2. Cardinality(Alive(live)) \in Nat
    BY <2>1, FS_CardinalityType
  <2>3. handles \in Int
    BY <2>2 DEF Balance, Held
  <2>4. QED
    BY <2>2, <2>3 DEF MoveNative, RefuseNative, Fetch, Check, parameters, PlacesInv
<1>2. Alive(live)' = Alive(live)
  BY <1>1 DEF Alive
<1>3. CASE MoveNative
  <2>1. \/ LayerFails
        \/ Proceed("fetch")
    BY <1>3 DEF MoveNative
  <2>2. handles' = handles /\ pc = "native"
    BY <1>3 DEF MoveNative
  <2>3. native' \in [Layer -> [Param -> {On(d) : d \in Available}]]
    BY <1>3, NativeRange
  <2>4. /\ outcome' \in Outcome /\ layer' \in 0 .. MaxLayer /\ moves' = moves
        /\ (backFails' => back') /\ pc' \in {"native", "idle", "fetch"}
    BY <1>1, <2>1, EndsInRange, ProceedsInRange
  <2>5. Ranges'
    BY <1>1, <2>3, <2>4 DEF Ranges, Available, On
  <2>6. Balance'
    BY <1>2, <2>2, <2>4 DEF Balance, Held
  <2>7. QED
    BY <2>5, <2>6
<1>4. CASE RefuseNative \/ Fetch \/ Check
  <2>1. native' = native
    BY <1>4 DEF RefuseNative, Fetch, Check, parameters
  <2>2. \/ LayerFails /\ handles' = handles - Held
        \/ Proceed("check") /\ pc = "fetch" /\ handles' = handles + MaxParam
        \/ Proceed("install") /\ pc = "check" /\ handles' = handles
    BY <1>1, <1>4 DEF RefuseNative, Fetch, Check, Held, parameters
  <2>3. /\ outcome' \in Outcome /\ layer' \in 0 .. MaxLayer /\ moves' = moves
        /\ (backFails' => back')
    BY <1>1, <2>2, EndsInRange, ProceedsInRange
  <2>4. Ranges'
    BY <1>1, <2>1, <2>3 DEF Ranges, Available, On
  <2>5. CASE LayerFails /\ handles' = handles - Held
    <3>1. pc' \in {"native", "idle"}
      BY <1>1, <2>5, EndsInRange
    <3>2. QED
      BY <1>1, <1>2, <2>4, <2>5, <3>1 DEF Balance, Held
  <2>6. CASE Proceed("check") /\ pc = "fetch" /\ handles' = handles + MaxParam
    BY <1>1, <1>2, <2>4, <2>6, ProceedsInRange DEF Balance, Held
  <2>7. CASE Proceed("install") /\ pc = "check" /\ handles' = handles
    BY <1>1, <1>2, <2>4, <2>7, ProceedsInRange DEF Balance, Held
  <2>8. QED
    BY <2>2, <2>5, <2>6, <2>7
<1>5. QED
  BY <1>3, <1>4

\* Installing hands the replacements to the wrappers and closes what they replace;
\* a failure closes all replacements, and leaves the wrappers it got to without one.
LEMMA InstallBalances ==
  ASSUME PlacesInv, Ranges, Balance, Install \/ InstallFails
  PROVE  Ranges' /\ Balance'
<1>1. /\ UNCHANGED <<accelerator, native, gone>> /\ pc = "install" /\ layer \in Layer
      /\ Types /\ (LayerMoved \/ LayerFails) /\ live \in [Layer -> [Param -> BOOLEAN]]
  BY DEF Install, InstallFails, PlacesInv, Types
<1>2. /\ outcome' \in Outcome /\ layer' \in 0 .. MaxLayer /\ moves' = moves
      /\ (backFails' => back') /\ pc' \in {"native", "idle"}
  BY <1>1, EndsInRange
<1>3. Ranges'
  BY <1>1, <1>2 DEF Ranges, Available, On
<1>4. Held = MaxParam /\ Held' = 0
  BY <1>1, <1>2 DEF Held
<1>5. \A l \in Layer : l # layer => live'[l] = live[l]
  <2>1. CASE Install
    BY <1>1, <2>1 DEF Install
  <2>2. CASE InstallFails
    BY <1>1, <2>2 DEF InstallFails
  <2>3. QED
    BY <2>1, <2>2
<1>6. /\ Cardinality(Alive(live)) \in Nat /\ Cardinality(Alive(live')) \in Nat
      /\ Cardinality(Row(live, layer)) \in Nat /\ Cardinality(Row(live', layer)) \in Nat
      /\ Cardinality(Alive(live')) = Cardinality(Alive(live))
            - Cardinality(Row(live, layer)) + Cardinality(Row(live', layer))
  BY <1>1, <1>5, RowReplaced
<1>7. Alive(live)' = Alive(live')
  BY DEF Alive
<1>8. CASE Install
  <2>1. Row(live', layer) = Param /\ Replaced(MaxParam) = Row(live, layer)
    <3>1. live'[layer] = [p \in Param |-> TRUE]
      BY <1>1, <1>8 DEF Install
    <3>2. Row(live', layer) = Param
      BY <3>1 DEF Row
    <3>3. Replaced(MaxParam) = Row(live, layer)
      BY DEF Replaced, Row, Param
    <3>4. QED
      BY <3>2, <3>3
  <2>2. handles' = handles - Cardinality(Replaced(MaxParam))
    BY <1>8 DEF Install
  <2>3. Balance'
    BY <1>4, <1>6, <1>7, <2>1, <2>2, Sizes DEF Balance
  <2>4. QED
    BY <1>3, <2>3
<1>9. CASE InstallFails
  <2>1. PICK n \in 0 .. MaxParam - 1 :
          /\ live' = [live EXCEPT ![layer] = [p \in Param |-> p > n /\ live[layer][p]]]
          /\ handles' = handles - Cardinality(Replaced(n)) - MaxParam
    BY <1>1, <1>9 DEF InstallFails, ClosedAfter, Types
  <2>2. /\ Row(live, layer) = Replaced(n) \cup Row(live', layer)
        /\ Replaced(n) \cap Row(live', layer) = {}
    <3>1. live'[layer] = [p \in Param |-> p > n /\ live[layer][p]]
      BY <1>1, <2>1
    <3>2. Row(live', layer) = {p \in Param : p > n /\ live[layer][p]}
      BY <3>1 DEF Row
    <3>3. \A p : p \in Param /\ ~(p > n) <=> p \in 1 .. n
      BY DEF Param
    <3>4. Replaced(n) = {p \in Param : ~(p > n) /\ live[layer][p]}
      BY <3>3 DEF Replaced
    <3>5. QED
      BY <3>2, <3>4 DEF Row
  <2>3. IsFiniteSet(Replaced(n)) /\ IsFiniteSet(Row(live', layer))
    BY <2>2, Sizes, FS_Subset DEF Row
  <2>4. /\ Cardinality(Replaced(n)) \in Nat
        /\ Cardinality(Row(live, layer)) =
             Cardinality(Replaced(n)) + Cardinality(Row(live', layer))
    <3>1. Cardinality(Replaced(n)) \in Nat
      BY <2>3, FS_CardinalityType
    <3>2. Cardinality(Replaced(n) \cup Row(live', layer)) =
            Cardinality(Replaced(n)) + Cardinality(Row(live', layer))
              - Cardinality(Replaced(n) \cap Row(live', layer))
      BY <2>3, FS_Union
    <3>3. QED
      <4>1. Cardinality(Replaced(n) \cap Row(live', layer)) = 0
        BY <2>2, FS_EmptySet
      <4>2. QED
        BY <1>6, <2>2, <3>1, <3>2, <4>1
  <2>5. Balance'
    BY <1>4, <1>6, <1>7, <2>1, <2>4 DEF Balance
  <2>6. QED
    BY <1>3, <2>5
<1>10. QED
  BY <1>8, <1>9

\* No handle is leaked or closed twice by Module.to, whichever native call, fetch,
\* check or installation fails, in the move or in the roll-back.
THEOREM HandlesStayBalanced == MoveSpec => []HandlesBalanced
<1>1. MoveInit => Ranges /\ Balance
  BY InitBalance
<1>2. PlacesInv /\ (Ranges /\ Balance) /\ [MoveNext]_move_vars => (Ranges /\ Balance)'
  <2>1. ASSUME Ranges /\ Balance, UNCHANGED move_vars PROVE Ranges' /\ Balance'
    BY <2>1 DEF Ranges, Balance, Available, Alive, On, Held, move_vars, parameters, call
  <2>2. QED
    BY <2>1, ProgramBalances, NativeAndFetchBalance, InstallBalances DEF MoveNext, PlacesInv
<1>3. PlacesInv /\ Ranges /\ Balance => HandlesBalanced
  <2> SUFFICES ASSUME PlacesInv, Ranges, Balance PROVE HandlesBalanced
    OBVIOUS
  <2>1. handles \in Nat
    <3>1. IsFiniteSet(Alive(live))
      BY Sizes, FS_Subset DEF Alive
    <3>2. Cardinality(Alive(live)) \in Nat
      BY <3>1, FS_CardinalityType
    <3>3. QED
      BY <3>2 DEF Balance, Held
  <2>2. MoveTypeOK
    BY <2>1 DEF MoveTypeOK, PlacesInv, Types, Ranges, On
  <2>3. QED
    BY <2>2 DEF HandlesBalanced, Balance, Alive, Held
<1>4. QED
  BY <1>1, <1>2, <1>3, PlacesHold, PTL DEF MoveSpec
================================================================================
