------------------------ MODULE BridgeTransportProofs ------------------------
(***************************************************************************)
(* Proofs about BridgeTransport, for every number of credits, buffers and  *)
(* requests and for every workload: the two properties of the run bridge   *)
(* that are about credits and packets.                                     *)
(*                                                                         *)
(* Over the types and Ending of BridgeRequestProofs the inductive          *)
(* invariant adds two layers: the two sums of credits (FlowInv), and the   *)
(* numbering of the device's packets wherever they are (OrderInv).         *)
(***************************************************************************)
EXTENDS BridgeRequestProofs, FiniteSetTheorems

USE SMTT(30), ZenonT(30)

-----------------------------------------------------------------------------
(* Counting frames and credits in the socket.                              *)

\* Those of the first i frames that have this kind, and how many they are.
Ranked(frames, kind, i) == {j \in DOMAIN frames : j <= i /\ frames[j].kind = kind}
RankOf(frames, kind, i) == Cardinality(Ranked(frames, kind, i))

\* Those of all frames that have this kind; the credits in them, one by one.
Kin(frames, kind) == {j \in DOMAIN frames : frames[j].kind = kind}
Units(frames) ==
    {c \in (DOMAIN frames) \X (1 .. HostCredits) :
        frames[c[1]].kind = "credit" /\ c[2] <= frames[c[1]].value}

One(b) == IF b THEN 1 ELSE 0
ValueOf(f) == IF f.kind = "credit" THEN f.value ELSE 0

\* A set of positions, and the same positions one further, have the same size.
LEMMA ShiftedSet ==
    ASSUME NEW S \in SUBSET Nat, NEW T, IsFiniteSet(S),
           T = {i + 1 : i \in S}
    PROVE  IsFiniteSet(T) /\ Cardinality(T) = Cardinality(S)
<1> DEFINE f == [i \in S |-> i + 1]
<1>1. f \in Bijection(S, T)
  BY DEF Bijection, Injection, Surjection, IsInjective
<1> QED
  BY <1>1, FS_Bijection DEF ExistsBijection

LEMMA RankedFinite ==
    ASSUME NEW F, NEW q \in Seq(F), NEW kind, NEW i
    PROVE  IsFiniteSet(Ranked(q, kind, i)) /\ RankOf(q, kind, i) \in Nat
<1>1. IsFiniteSet(1 .. Len(q))
  BY FS_Interval
<1>2. Ranked(q, kind, i) \in SUBSET (1 .. Len(q))
  BY DEF Ranked
<1>3. IsFiniteSet(Ranked(q, kind, i))
  BY <1>1, <1>2, FS_Subset
<1> QED
  BY <1>3, FS_CardinalityType DEF RankOf

\* A frame more: the ranks before it stay, and its own rank is the count.
LEMMA RankAppend ==
    ASSUME NEW F, NEW q \in Seq(F), NEW f \in F, NEW kind
    PROVE  /\ \A i \in 1 .. Len(q) : RankOf(Append(q, f), kind, i) = RankOf(q, kind, i)
           /\ RankOf(Append(q, f), kind, Len(q) + 1) = CountOf(q, kind) + One(f.kind = kind)
           /\ CountOf(Append(q, f), kind) = CountOf(q, kind) + One(f.kind = kind)
<1>0. PICK qq : qq = Append(q, f)
  BY Zenon
<1>1. /\ qq \in Seq(F) /\ DOMAIN qq = 1 .. Len(q) + 1 /\ DOMAIN q = 1 .. Len(q)
      /\ Len(q) \in Nat
      /\ \A j \in 1 .. Len(q) : qq[j] = q[j]
      /\ qq[Len(q) + 1] = f
  BY <1>0
<1>2. ASSUME NEW i \in 1 .. Len(q)
      PROVE  Ranked(qq, kind, i) = Ranked(q, kind, i)
  <2>1. \A j : j \in Ranked(qq, kind, i) <=> j \in Ranked(q, kind, i)
    BY <1>1 DEF Ranked
  <2> QED BY <2>1, Zenon
<1>3. IsFiniteSet(Kin(q, kind)) /\ Cardinality(Kin(q, kind)) \in Nat
  <2>1. IsFiniteSet(1 .. Len(q)) /\ Kin(q, kind) \in SUBSET (1 .. Len(q))
    BY <1>1, FS_Interval DEF Kin
  <2>2. IsFiniteSet(Kin(q, kind))
    BY <2>1, FS_Subset
  <2> QED BY <2>2, FS_CardinalityType
<1>4. Ranked(qq, kind, Len(q) + 1) = Kin(qq, kind)
  <2>1. \A j : j \in Ranked(qq, kind, Len(q) + 1) <=> j \in Kin(qq, kind)
    BY <1>1 DEF Ranked, Kin
  <2> QED BY <2>1, Zenon
<1>5. Cardinality(Kin(qq, kind)) = Cardinality(Kin(q, kind)) + One(f.kind = kind)
  <2>1. CASE f.kind = kind
    <3>1. \A j : j \in Kin(qq, kind) <=> j \in Kin(q, kind) \/ j = Len(q) + 1
      BY <1>1, <2>1 DEF Kin
    <3>2. Kin(qq, kind) = Kin(q, kind) \cup {Len(q) + 1}
      BY <3>1
    <3>3. Len(q) + 1 \notin Kin(q, kind)
      BY <1>1 DEF Kin
    <3> QED BY <3>2, <3>3, <2>1, <1>3, FS_AddElement, Zenon DEF One
  <2>2. CASE f.kind # kind
    <3>1. \A j : j \in Kin(qq, kind) <=> j \in Kin(q, kind)
      BY <1>1, <2>2 DEF Kin
    <3>2. Kin(qq, kind) = Kin(q, kind)
      BY <3>1, Zenon
    <3> QED BY <3>2, <2>2, <1>3 DEF One
  <2> QED BY <2>1, <2>2
<1>6. /\ CountOf(qq, kind) = CountOf(q, kind) + One(f.kind = kind)
      /\ RankOf(qq, kind, Len(q) + 1) = CountOf(q, kind) + One(f.kind = kind)
  BY <1>4, <1>5, Zenon DEF CountOf, Kin, RankOf
<1>7. \A i \in 1 .. Len(q) : RankOf(qq, kind, i) = RankOf(q, kind, i)
  BY <1>2 DEF RankOf
<1> QED BY <1>0, <1>6, <1>7

\* A frame less at the front: every other rank falls by one if it counted.
LEMMA RankTailAt ==
    ASSUME NEW F, NEW q \in Seq(F), q # <<>>, NEW kind, NEW i \in 0 .. Len(Tail(q))
    PROVE  RankOf(Tail(q), kind, i) = RankOf(q, kind, i + 1) - One(Head(q).kind = kind)
<1>0. PICK t : t = Tail(q)
  BY Zenon
<1>1. /\ t \in Seq(F) /\ Len(q) \in Nat /\ Len(t) \in Nat /\ Len(t) = Len(q) - 1
      /\ DOMAIN t = 1 .. Len(t) /\ DOMAIN q = 1 .. Len(q)
      /\ \A j \in 1 .. Len(t) : t[j] = q[j + 1]
      /\ Head(q) = q[1] /\ i \in 0 .. Len(t)
  BY <1>0
<1>2. RankOf(t, kind, i) = RankOf(q, kind, i + 1) - One(Head(q).kind = kind)
  <2>0. PICK A, B, C : /\ A = Ranked(t, kind, i) /\ B = {j + 1 : j \in A}
                       /\ C = Ranked(q, kind, i + 1)
    BY Zenon
  <2>1. IsFiniteSet(A)
    BY <1>1, <2>0, RankedFinite
  <2>2. A \in SUBSET Nat /\ \A j \in A : j \in 1 .. Len(t) /\ j <= i /\ q[j + 1].kind = kind
    BY <1>1, <2>0 DEF Ranked
  <2>3. IsFiniteSet(B) /\ Cardinality(B) = Cardinality(A)
    BY <2>0, <2>1, <2>2, ShiftedSet
  <2>4. Cardinality(A) \in Nat
    BY <2>1, FS_CardinalityType
  <2>5. 1 \notin B
    BY <2>0, <2>2
  <2>6. \A j \in B : j \in C
    <3> SUFFICES ASSUME NEW k \in A PROVE k + 1 \in C
      BY <2>0
    <3> QED BY <1>1, <2>0, <2>2 DEF Ranked
  <2>7. \A j \in C : j # 1 => j \in B
    <3> SUFFICES ASSUME NEW j \in C, j # 1 PROVE j \in B
      OBVIOUS
    <3>1. j - 1 \in A /\ j = (j - 1) + 1
      BY <1>1, <2>0 DEF Ranked
    <3> QED BY <2>0, <3>1
  <2>8. 1 \in C <=> Head(q).kind = kind
    BY <1>1, <2>0 DEF Ranked
  <2>9. Cardinality(C) = Cardinality(B) + One(Head(q).kind = kind)
    <3>1. CASE Head(q).kind = kind
      <4>1. C = B \cup {1}
        BY <2>6, <2>7, <2>8, <3>1
      <4> QED BY <4>1, <2>3, <2>5, <3>1, FS_AddElement, Zenon DEF One
    <3>2. CASE Head(q).kind # kind
      <4>1. C = B
        BY <2>6, <2>7, <2>8, <3>2, Zenon
      <4> QED BY <4>1, <2>3, <2>4, <3>2 DEF One
    <3> QED BY <3>1, <3>2
  <2> QED BY <2>0, <2>3, <2>4, <2>9 DEF RankOf, One
<1> QED BY <1>0, <1>2

LEMMA RankTail ==
    ASSUME NEW F, NEW q \in Seq(F), q # <<>>, NEW kind
    PROVE  /\ RankOf(q, kind, 1) = One(Head(q).kind = kind)
           /\ CountOf(Tail(q), kind) = CountOf(q, kind) - One(Head(q).kind = kind)
<1>0. PICK t : t = Tail(q)
  BY Zenon
<1>1. /\ t \in Seq(F) /\ Len(q) \in Nat /\ Len(t) \in Nat /\ Len(t) = Len(q) - 1
      /\ DOMAIN t = 1 .. Len(t) /\ DOMAIN q = 1 .. Len(q)
  BY <1>0
<1>2. ASSUME NEW i \in 0 .. Len(t)
      PROVE  RankOf(t, kind, i) = RankOf(q, kind, i + 1) - One(Head(q).kind = kind)
  BY <1>0, RankTailAt
<1>3. RankOf(q, kind, 1) = One(Head(q).kind = kind)
  <2>1. Ranked(t, kind, 0) = {}
    BY <1>1 DEF Ranked
  <2>2. RankOf(t, kind, 0) = RankOf(q, kind, 0 + 1) - One(Head(q).kind = kind)
    BY <1>1, <1>2
  <2>3. RankOf(q, kind, 1) \in Nat
    BY RankedFinite
  <2>4. RankOf(t, kind, 0) = 0
    BY <2>1, FS_EmptySet, Zenon DEF RankOf
  <2> QED BY <2>2, <2>3, <2>4 DEF One
<1>4. CountOf(t, kind) = CountOf(q, kind) - One(Head(q).kind = kind)
  <2>1. Ranked(t, kind, Len(t)) = Kin(t, kind)
    BY <1>1 DEF Ranked, Kin
  <2>2. Ranked(q, kind, Len(t) + 1) = Kin(q, kind)
    BY <1>1 DEF Ranked, Kin
  <2>3. Len(t) \in 0 .. Len(t)
    BY <1>1
  <2>4. RankOf(t, kind, Len(t)) = RankOf(q, kind, Len(t) + 1) - One(Head(q).kind = kind)
    BY <1>2, <2>3
  <2> QED BY <2>1, <2>2, <2>4, Zenon DEF CountOf, RankOf, Kin
<1> QED
  BY <1>0, <1>3, <1>4

LEMMA RankAppendAt ==
    ASSUME NEW F, NEW q \in Seq(F), NEW f \in F, NEW kind, NEW i \in 1 .. Len(q)
    PROVE  RankOf(Append(q, f), kind, i) = RankOf(q, kind, i)
BY RankAppend

LEMMA CountType ==
    ASSUME NEW F, NEW q \in Seq(F), NEW kind
    PROVE  CountOf(q, kind) \in Nat
<1>1. IsFiniteSet(1 .. Len(q)) /\ {j \in DOMAIN q : q[j].kind = kind} \in SUBSET (1 .. Len(q))
  BY FS_Interval
<1> QED BY <1>1, FS_Subset, FS_CardinalityType DEF CountOf

LEMMA CountEmpty ==
    ASSUME NEW kind
    PROVE  CountOf(<<>>, kind) = 0
<1>1. {j \in DOMAIN <<>> : <<>>[j].kind = kind} = {}
  OBVIOUS
<1> QED BY <1>1, FS_EmptySet DEF CountOf
LEMMA UnitsFinite ==
    ASSUME NEW F, NEW q \in Seq(F), HostCredits \in Nat
    PROVE  IsFiniteSet(Units(q)) /\ CreditIn(q) \in Nat
<1>1. IsFiniteSet(1 .. Len(q)) /\ IsFiniteSet(1 .. HostCredits)
  BY FS_Interval
<1>2. IsFiniteSet((1 .. Len(q)) \X (1 .. HostCredits))
  BY <1>1, FS_Product, Zenon
<1>3. Units(q) \in SUBSET ((1 .. Len(q)) \X (1 .. HostCredits))
  BY DEF Units
<1>4. IsFiniteSet(Units(q))
  BY <1>2, <1>3, FS_Subset
<1> QED BY <1>4, FS_CardinalityType DEF CreditIn, Units

LEMMA CreditEmpty == CreditIn(<<>>) = 0
<1>1. Units(<<>>) = {}
  BY DEF Units
<1> QED BY <1>1, FS_EmptySet DEF CreditIn, Units

\* The credits of one frame.
LEMMA OneFrame ==
    ASSUME NEW n, NEW v \in Nat
    PROVE  IsFiniteSet({n} \X (1 .. v)) /\ Cardinality({n} \X (1 .. v)) = v
<1>1. IsFiniteSet({n}) /\ Cardinality({n}) = 1
  BY FS_Singleton
<1>2. IsFiniteSet(1 .. v) /\ Cardinality(1 .. v) = v
  BY FS_Interval
<1>3. /\ IsFiniteSet({n} \X (1 .. v))
      /\ Cardinality({n} \X (1 .. v)) = Cardinality({n}) * Cardinality(1 .. v)
  BY <1>1, <1>2, FS_Product, Zenon
<1>4. 1 * v = v
  OBVIOUS
<1> QED BY <1>1, <1>2, <1>3, <1>4

\* Two sets without a common element.
LEMMA DisjointUnion ==
    ASSUME NEW S, NEW T, IsFiniteSet(S), IsFiniteSet(T), S \cap T = {}
    PROVE  /\ IsFiniteSet(S \cup T)
           /\ Cardinality(S \cup T) = Cardinality(S) + Cardinality(T)
<1>1. Cardinality(S) \in Nat /\ Cardinality(T) \in Nat
  BY FS_CardinalityType
<1> QED BY <1>1, FS_Union, FS_EmptySet

LEMMA CreditAppend ==
    ASSUME NEW F, NEW q \in Seq(F), NEW f \in F, HostCredits \in Nat,
           ValueOf(f) \in 0 .. HostCredits
    PROVE  CreditIn(Append(q, f)) = CreditIn(q) + ValueOf(f)
<1>0. PICK qq, n, A, B, C :
         /\ qq = Append(q, f) /\ n = Len(q) + 1
         /\ A = Units(q) /\ B = {n} \X (1 .. ValueOf(f)) /\ C = Units(qq)
  BY Zenon
<1>1. /\ DOMAIN qq = 1 .. n /\ DOMAIN q = 1 .. n - 1 /\ n \in Nat \ {0}
      /\ \A j \in 1 .. n - 1 : qq[j] = q[j]
      /\ qq[n] = f
  BY <1>0
<1>2. IsFiniteSet(A) /\ IsFiniteSet(B) /\ Cardinality(B) = ValueOf(f)
  <2>1. ValueOf(f) \in Nat
    OBVIOUS
  <2>2. IsFiniteSet(B) /\ Cardinality(B) = ValueOf(f)
    BY <1>0, <2>1, OneFrame, Zenon
  <2>3. IsFiniteSet(A)
    BY <1>0, UnitsFinite
  <2> QED BY <2>2, <2>3
<1>3. A \cap B = {}
  BY <1>0, <1>1 DEF Units
<1>4. \A c : c \in C <=> c \in A \cup B
  <2>1. ASSUME NEW c \in C PROVE c \in A \cup B
    <3>1. PICK i \in 1 .. n, k \in 1 .. HostCredits :
             c = <<i, k>> /\ qq[i].kind = "credit" /\ k <= qq[i].value
      BY <1>0, <1>1 DEF Units
    <3>2. CASE i = n
      BY <1>0, <1>1, <3>1, <3>2 DEF ValueOf
    <3>3. CASE i # n
      BY <1>0, <1>1, <3>1, <3>3 DEF Units
    <3> QED BY <3>2, <3>3
  <2>2. ASSUME NEW c \in A PROVE c \in C
    <3>1. PICK i \in 1 .. n - 1, k \in 1 .. HostCredits :
             c = <<i, k>> /\ q[i].kind = "credit" /\ k <= q[i].value
      BY <1>0, <1>1, <2>2 DEF Units
    <3> QED BY <1>0, <1>1, <3>1 DEF Units
  <2>3. ASSUME NEW c \in B PROVE c \in C
    <3>1. PICK k \in 1 .. ValueOf(f) : c = <<n, k>>
      BY <1>0, <2>3
    <3>2. f.kind = "credit" /\ k <= f.value /\ k \in 1 .. HostCredits
      BY <3>1 DEF ValueOf
    <3> QED BY <1>0, <1>1, <3>1, <3>2 DEF Units
  <2> QED BY <2>1, <2>2, <2>3
<1>5. C = A \cup B
  BY <1>4
<1>6. Cardinality(C) = Cardinality(A) + ValueOf(f)
  BY <1>2, <1>3, <1>5, DisjointUnion, Zenon
<1> QED BY <1>0, <1>6, Zenon DEF CreditIn, Units

LEMMA CreditTail ==
    ASSUME NEW F, NEW q \in Seq(F), q # <<>>, HostCredits \in Nat,
           ValueOf(Head(q)) \in 0 .. HostCredits
    PROVE  CreditIn(Tail(q)) = CreditIn(q) - ValueOf(Head(q))
<1>0. PICK t, A, B, C, D :
         /\ t = Tail(q)
         /\ A = Units(t) /\ B = {1} \X (1 .. ValueOf(Head(q))) /\ C = Units(q)
         /\ D = {<<c[1] + 1, c[2]>> : c \in A}
  BY Zenon
<1>1. /\ t \in Seq(F) /\ Len(q) \in Nat /\ Len(t) \in Nat /\ Len(t) = Len(q) - 1
      /\ DOMAIN t = 1 .. Len(t) /\ DOMAIN q = 1 .. Len(q)
      /\ \A j \in 1 .. Len(t) : t[j] = q[j + 1]
      /\ Head(q) = q[1]
  BY <1>0
<1>2. IsFiniteSet(A) /\ IsFiniteSet(B) /\ Cardinality(B) = ValueOf(Head(q))
  <2>1. ValueOf(Head(q)) \in Nat
    OBVIOUS
  <2>2. IsFiniteSet(B) /\ Cardinality(B) = ValueOf(Head(q))
    BY <1>0, <2>1, OneFrame, Zenon
  <2>3. IsFiniteSet(A)
    BY <1>0, <1>1, UnitsFinite, Zenon
  <2> QED BY <2>2, <2>3
<1>3. \A c : c \in A <=> \E i \in 1 .. Len(t), k \in 1 .. HostCredits :
                            c = <<i, k>> /\ t[i].kind = "credit" /\ k <= t[i].value
  BY <1>0, <1>1 DEF Units
<1>4. IsFiniteSet(D) /\ Cardinality(D) = Cardinality(A)
  <2> DEFINE g == [c \in A |-> <<c[1] + 1, c[2]>>]
  <2>1. g \in [A -> D]
    BY <1>0
  <2>2. \A x, y \in A : g[x] = g[y] => x = y
    BY <1>3
  <2>3. \A d \in D : \E c \in A : g[c] = d
    BY <1>0
  <2>4. g \in Bijection(A, D)
    BY <2>1, <2>2, <2>3, Zenon DEF Bijection, Injection, Surjection, IsInjective
  <2> QED BY <1>2, <2>4, FS_Bijection DEF ExistsBijection
<1>5. \A c : c \in D <=> \E i \in 1 .. Len(t), k \in 1 .. HostCredits :
                            c = <<i + 1, k>> /\ t[i].kind = "credit" /\ k <= t[i].value
  <2>1. ASSUME NEW c \in D
        PROVE  \E i \in 1 .. Len(t), k \in 1 .. HostCredits :
                   c = <<i + 1, k>> /\ t[i].kind = "credit" /\ k <= t[i].value
    <3>1. PICK a \in A : c = <<a[1] + 1, a[2]>>
      BY <1>0, <2>1
    <3> QED BY <1>3, <3>1
  <2>2. ASSUME NEW i \in 1 .. Len(t), NEW k \in 1 .. HostCredits,
               t[i].kind = "credit", k <= t[i].value
        PROVE  <<i + 1, k>> \in D
    <3>1. <<i, k>> \in A
      BY <1>3, <2>2
    <3> QED BY <1>0, <3>1
  <2> QED BY <2>1, <2>2
<1>6. D \cap B = {}
  BY <1>0, <1>5
<1>7. \A c : c \in C <=> c \in D \cup B
  <2>1. ASSUME NEW c \in C PROVE c \in D \cup B
    <3>1. PICK i \in 1 .. Len(q), k \in 1 .. HostCredits :
             c = <<i, k>> /\ q[i].kind = "credit" /\ k <= q[i].value
      BY <1>0, <1>1 DEF Units
    <3>2. CASE i = 1
      BY <1>0, <1>1, <3>1, <3>2 DEF ValueOf
    <3>3. CASE i # 1
      <4>1. i - 1 \in 1 .. Len(t) /\ i = (i - 1) + 1 /\ t[i - 1] = q[i]
        BY <1>1, <3>3
      <4> QED BY <1>5, <3>1, <4>1
    <3> QED BY <3>2, <3>3
  <2>2. ASSUME NEW c \in D PROVE c \in C
    <3>1. PICK i \in 1 .. Len(t), k \in 1 .. HostCredits :
             c = <<i + 1, k>> /\ t[i].kind = "credit" /\ k <= t[i].value
      BY <1>5
    <3>2. i + 1 \in 1 .. Len(q) /\ t[i] = q[i + 1]
      BY <1>1
    <3> QED BY <1>0, <1>1, <3>1, <3>2 DEF Units
  <2>3. ASSUME NEW c \in B PROVE c \in C
    <3>1. PICK k \in 1 .. ValueOf(Head(q)) : c = <<1, k>>
      BY <1>0, <2>3
    <3>2. q[1].kind = "credit" /\ k <= q[1].value /\ k \in 1 .. HostCredits
      BY <1>1, <3>1 DEF ValueOf
    <3> QED BY <1>0, <1>1, <3>1, <3>2 DEF Units
  <2> QED BY <2>1, <2>2, <2>3
<1>8. C = D \cup B
  BY <1>7
<1>9. Cardinality(C) = Cardinality(A) + ValueOf(Head(q)) /\ Cardinality(A) \in Nat
  BY <1>2, <1>4, <1>6, <1>8, DisjointUnion, FS_CardinalityType
<1>10. CreditIn(t) = Cardinality(A) /\ CreditIn(q) = Cardinality(C)
  BY <1>0 DEF CreditIn, Units
<1> QED BY <1>0, <1>9, <1>10

-----------------------------------------------------------------------------
(* The credits.                                                            *)

HostSum ==
    hostCredits + InHand("sending") + CountOf(toBroker, "packet") + held
        + CreditIn(toClient)

QueueSum ==
    Len(packets) + InHand("crediting") + CountOf(toClient, "packet") + devCredits
        + CreditIn(toBroker)

\* A credit is never made, and none is lost while the socket is up; so the limits
\* the reader enforces are never met.  send has never more credits out than
\* MaxInFlight.
FlowInv ==
    /\ HostSum <= HostCredits
    /\ QueueSum <= QueueLimit
    /\ sock = "open" => HostSum = HostCredits /\ QueueSum = QueueLimit
    /\ HostCredits - hostCredits <= MaxInFlight
    /\ why["reader"] \notin {"overrun", "overcredit"}

LEMMA InFlightType == MaxInFlight \in Nat \ {0}
<1>1. CASE GuestBuffers <= HostCredits
  <2>1. \E x \in {GuestBuffers, HostCredits} : \A y \in {GuestBuffers, HostCredits} : x <= y
    BY <1>1, Constants
  <2> QED BY <2>1, Constants DEF MaxInFlight, Min
<1>2. CASE HostCredits <= GuestBuffers
  <2>1. \E x \in {GuestBuffers, HostCredits} : \A y \in {GuestBuffers, HostCredits} : x <= y
    BY <1>2, Constants
  <2> QED BY <2>1, Constants DEF MaxInFlight, Min
<1> QED BY <1>1, <1>2, Constants

\* What the socket holds, in numbers; and how a frame read or written changes it.
LEMMA InSocket ==
    ASSUME TypeOK
    PROVE  /\ CountOf(toBroker, "packet") \in Nat /\ CreditIn(toBroker) \in Nat
           /\ CountOf(toClient, "packet") \in Nat /\ CreditIn(toClient) \in Nat
<1>1. toBroker \in Seq(FramesToBroker) /\ toClient \in Seq(FramesToClient)
  BY DEF TypeOK
<1>2. HostCredits \in Nat
  BY Constants
<1> QED BY <1>1, <1>2, CountType, UnitsFinite

LEMMA BrokerFrameValue ==
    ASSUME NEW f \in FramesToBroker
    PROVE  ValueOf(f) = One(f.kind = "credit") /\ ValueOf(f) \in 0 .. HostCredits
BY Constants DEF FramesToBroker, ValueOf, One

LEMMA ClientFrameValue ==
    ASSUME NEW f \in FramesToClient
    PROVE  ValueOf(f) \in 0 .. HostCredits
BY Constants DEF FramesToClient, ValueOf

LEMMA ToBrokerAppend ==
    ASSUME TypeOK, NEW f \in FramesToBroker
    PROVE  /\ CountOf(Append(toBroker, f), "packet") = CountOf(toBroker, "packet") + One(f.kind = "packet")
           /\ CreditIn(Append(toBroker, f)) = CreditIn(toBroker) + One(f.kind = "credit")
<1>1. toBroker \in Seq(FramesToBroker) /\ HostCredits \in Nat
  BY Constants DEF TypeOK
<1>2. CreditIn(Append(toBroker, f)) = CreditIn(toBroker) + ValueOf(f)
  BY <1>1, BrokerFrameValue, CreditAppend
<1> QED BY <1>1, <1>2, BrokerFrameValue, RankAppend

LEMMA ToBrokerTail ==
    ASSUME TypeOK, toBroker # <<>>
    PROVE  /\ CountOf(Tail(toBroker), "packet") = CountOf(toBroker, "packet") - One(Head(toBroker).kind = "packet")
           /\ CreditIn(Tail(toBroker)) = CreditIn(toBroker) - One(Head(toBroker).kind = "credit")
<1>1. toBroker \in Seq(FramesToBroker) /\ HostCredits \in Nat
  BY Constants DEF TypeOK
<1>2. Head(toBroker) \in FramesToBroker
  BY <1>1
<1>3. CreditIn(Tail(toBroker)) = CreditIn(toBroker) - ValueOf(Head(toBroker))
  BY <1>1, <1>2, BrokerFrameValue, CreditTail
<1> QED BY <1>1, <1>2, <1>3, BrokerFrameValue, RankTail

LEMMA ToClientAppend ==
    ASSUME TypeOK, NEW f \in FramesToClient
    PROVE  /\ CountOf(Append(toClient, f), "packet") = CountOf(toClient, "packet") + One(f.kind = "packet")
           /\ CreditIn(Append(toClient, f)) = CreditIn(toClient) + ValueOf(f)
<1>1. toClient \in Seq(FramesToClient) /\ HostCredits \in Nat
  BY Constants DEF TypeOK
<1> QED BY <1>1, ClientFrameValue, CreditAppend, RankAppend

LEMMA ToClientTail ==
    ASSUME TypeOK, toClient # <<>>
    PROVE  /\ Incoming \in FramesToClient
           /\ CountOf(Tail(toClient), "packet") = CountOf(toClient, "packet") - One(Incoming.kind = "packet")
           /\ CreditIn(Tail(toClient)) = CreditIn(toClient) - ValueOf(Incoming)
<1>1. toClient \in Seq(FramesToClient) /\ HostCredits \in Nat
  BY Constants DEF TypeOK
<1>2. Head(toClient) \in FramesToClient
  BY <1>1
<1>3. CreditIn(Tail(toClient)) = CreditIn(toClient) - ValueOf(Head(toClient))
  BY <1>1, <1>2, ClientFrameValue, CreditTail
<1> QED BY <1>1, <1>2, <1>3, RankTail DEF Incoming

\* A step that moves no credit.
FlowFrame ==
    /\ UNCHANGED <<hostCredits, toBroker, toClient, held, packets, devCredits>>
    /\ sock' = "open" => sock = "open"
    /\ pc'["link"] = "sending" <=> pc["link"] = "sending"
    /\ pc'["link"] = "crediting" <=> pc["link"] = "crediting"
    /\ why'["reader"] \in {why["reader"], NoReason, "gone", "write", "detached", "unsolicited",
                           "timeout", "aborted"}

LEMMA FlowUnmoved == FlowInv /\ FlowFrame => FlowInv'
BY DEF FlowInv, FlowFrame, HostSum, QueueSum, InHand, NoReason, MaxInFlight

\* A step that moves credits and loses none, and one that loses some with the
\* socket down.
FlowKept ==
    /\ HostSum' = HostSum /\ QueueSum' = QueueSum
    /\ sock' = sock
    /\ HostCredits - hostCredits' <= MaxInFlight
    /\ why'["reader"] \in {why["reader"], "gone", "write", "detached", "unsolicited"}

LEMMA FlowMoved == FlowInv /\ FlowKept => FlowInv'
<1> SUFFICES ASSUME FlowInv, FlowKept PROVE FlowInv'
  OBVIOUS
<1>1. MaxInFlight' = MaxInFlight
  BY DEF MaxInFlight
<1> QED BY <1>1 DEF FlowInv, FlowKept

LEMMA FlowLost ==
    ASSUME FlowInv, sock # "open", UNCHANGED <<sock, hostCredits>>,
           why'["reader"] = why["reader"],
           HostSum \in Int, QueueSum \in Int, HostSum' \in HostSum - 1 .. HostSum,
           QueueSum' \in QueueSum - 1 .. QueueSum
    PROVE  FlowInv'
<1>1. MaxInFlight' = MaxInFlight
  BY DEF MaxInFlight
<1>2. HostSum' <= HostCredits /\ QueueSum' <= QueueLimit
  BY Constants DEF FlowInv
<1> QED BY <1>1, <1>2 DEF FlowInv

LEMMA FlowInit == Init => FlowInv
<1> SUFFICES ASSUME Init PROVE FlowInv
  OBVIOUS
<1>1. /\ packets = <<>> /\ toBroker = <<>> /\ toClient = <<>> /\ held = 0
      /\ hostCredits = HostCredits /\ devCredits = QueueLimit
  BY DEF Init
<1>2. \A t \in Threads : pc[t] \in {"reading", "done", "idle"}
  BY DEF Init
<1>3. why["reader"] = NoReason
  BY Constants DEF Init
<1>4. InHand("sending") = 0 /\ InHand("crediting") = 0
  BY <1>2, Constants DEF InHand
<1>5. HostSum = HostCredits /\ QueueSum = QueueLimit
  BY <1>1, <1>4, CountEmpty, CreditEmpty, Constants DEF HostSum, QueueSum
<1> QED BY <1>1, <1>3, <1>5, InFlightType, Constants DEF FlowInv, NoReason

LEMMA FlowStep == TypeOK /\ Ending /\ FlowInv /\ [Next]_vars => FlowInv'
<1> SUFFICES ASSUME TypeOK, Ending, FlowInv, [Next]_vars PROVE FlowInv'
  OBVIOUS
<1> USE Constants DEF queueVars, requestVars, linkVars, brokerVars, wire
<1>0. /\ pc \in [Threads -> Stations] /\ why \in [Threads -> Reasons]
      /\ hostCredits \in Nat /\ held \in Nat /\ devCredits \in Nat /\ packets \in Seq(Nat)
      /\ Len(packets) \in Nat
  BY DEF TypeOK
<1>1. CASE ReadPacket
  <2>1. toClient # <<>> /\ Incoming.kind = "packet" /\ toClient' = Tail(toClient)
    BY <1>1 DEF ReadPacket, Reads
  <2>2. /\ CountOf(toClient', "packet") = CountOf(toClient, "packet") - 1
        /\ CreditIn(toClient') = CreditIn(toClient)
    BY <2>1, ToClientTail, InSocket DEF One, ValueOf
  <2>3. InHand("crediting") \in Nat
    BY DEF InHand
  <2>4. CountOf(toClient', "packet") \in Nat
    BY TypeStep, CountType DEF TypeOK
  <2>9. PacketFits
    BY <1>0, <2>2, <2>3, <2>4, InSocket DEF FlowInv, QueueSum, PacketFits
  <2>5. /\ Len(packets') = Len(packets) + 1
        /\ UNCHANGED <<hostCredits, toBroker, held, devCredits, sock, why>>
        /\ InHand("sending")' = InHand("sending") /\ InHand("crediting")' = InHand("crediting")
    BY <1>0, <1>1, <2>9 DEF ReadPacket, Reads, Handled, Goto, At, Enqueued, InHand
  <2>7. HostSum' = HostSum /\ QueueSum' = QueueSum
    BY <1>0, <2>2, <2>3, <2>5, InSocket DEF HostSum, QueueSum
  <2>8. HostCredits - hostCredits' <= MaxInFlight
    BY <1>0, <2>2, <2>3, <2>5, InSocket, InFlightType DEF FlowInv
  <2> QED BY <1>0, <2>2, <2>3, <2>5, InSocket, <2>7, <2>8, FlowMoved DEF FlowKept
<1>2. CASE ReadCredit
  <2>1. toClient # <<>> /\ Incoming.kind = "credit" /\ toClient' = Tail(toClient)
    BY <1>2 DEF ReadCredit, Reads
  <2>2. PICK v \in 1 .. HostCredits : v = Incoming.value
    BY <2>1, ToClientTail DEF FramesToClient
  <2>3. /\ CountOf(toClient', "packet") = CountOf(toClient, "packet")
        /\ CreditIn(toClient') = CreditIn(toClient) - v
    BY <2>1, <2>2, ToClientTail, InSocket DEF One, ValueOf
  <2>4. InHand("sending") \in Nat /\ InHand("crediting") \in Nat
    BY DEF InHand
  <2>5. CreditIn(toClient') \in Nat
    BY TypeStep, UnitsFinite DEF TypeOK
  <2>6. hostCredits + v <= HostCredits
    BY <1>0, <2>3, <2>4, <2>5, InSocket DEF FlowInv, HostSum
  <2>7. /\ hostCredits' = hostCredits + v
        /\ UNCHANGED <<packets, toBroker, held, devCredits, sock, why>>
        /\ InHand("sending")' = InHand("sending") /\ InHand("crediting")' = InHand("crediting")
    BY <1>0, <1>2, <2>2, <2>6 DEF ReadCredit, Reads, Handled, Goto, At, Credited, InHand
  <2>8. HostSum' = HostSum
    BY <1>0, <2>3, <2>4, <2>7, InSocket DEF HostSum
  <2>9. QueueSum' = QueueSum
    BY <1>0, <2>3, <2>4, <2>7, InSocket DEF QueueSum
  <2>10. HostCredits - hostCredits' <= MaxInFlight
    BY <1>0, <2>7, InFlightType DEF FlowInv
  <2> QED BY <2>7, <2>8, <2>9, <2>10, FlowMoved DEF FlowKept
<1>3. CASE ReadGone
  <2>1. toClient # <<>> /\ Incoming.kind \notin {"packet", "credit"} /\ toClient' = Tail(toClient)
    BY <1>3 DEF ReadGone, Reads
  <2>2. /\ CountOf(toClient', "packet") = CountOf(toClient, "packet")
        /\ CreditIn(toClient') = CreditIn(toClient)
    BY <2>1, ToClientTail, InSocket DEF One, ValueOf
  <2>3. /\ UNCHANGED <<hostCredits, packets, held, devCredits, sock>>
        /\ why'["reader"] \in {why["reader"], "gone", "write", "detached", "unsolicited"}
        /\ InHand("sending")' = InHand("sending") /\ InHand("crediting")' = InHand("crediting")
        /\ InHand("sending") \in Nat /\ InHand("crediting") \in Nat
    BY <1>0, <1>3 DEF ReadGone, Reads, Incoming, Handled, EnterTerminal, Goto, At,
       InHand
  <2>4. UNCHANGED toBroker
    BY <1>3 DEF ReadGone
  <2>7. HostSum' = HostSum /\ QueueSum' = QueueSum
    BY <1>0, <2>2, <2>3, <2>4, InSocket DEF HostSum, QueueSum
  <2>8. HostCredits - hostCredits' <= MaxInFlight
    BY <1>0, <2>2, <2>3, <2>4, InSocket, InFlightType DEF FlowInv
  <2> QED BY <1>0, <2>2, <2>3, <2>4, InSocket, <2>7, <2>8, FlowMoved DEF FlowKept
<1>4. CASE ReadPing
  <2>1. toClient # <<>> /\ Incoming.kind \notin {"packet", "credit"} /\ toClient' = Tail(toClient)
    BY <1>4 DEF ReadPing, Reads
  <2>2. /\ CountOf(toClient', "packet") = CountOf(toClient, "packet")
        /\ CreditIn(toClient') = CreditIn(toClient)
    BY <2>1, ToClientTail, InSocket DEF One, ValueOf
  <2>3. /\ UNCHANGED <<hostCredits, packets, held, devCredits, sock>>
        /\ why'["reader"] \in {why["reader"], "gone", "write", "detached", "unsolicited"}
        /\ InHand("sending")' = InHand("sending") /\ InHand("crediting")' = InHand("crediting")
        /\ InHand("sending") \in Nat /\ InHand("crediting") \in Nat
    BY <1>0, <1>4 DEF ReadPing, Reads, Incoming, Goto, At, InHand
  <2>4. UNCHANGED toBroker
    BY <1>4 DEF ReadPing
  <2>7. HostSum' = HostSum /\ QueueSum' = QueueSum
    BY <1>0, <2>2, <2>3, <2>4, InSocket DEF HostSum, QueueSum
  <2>8. HostCredits - hostCredits' <= MaxInFlight
    BY <1>0, <2>2, <2>3, <2>4, InSocket, InFlightType DEF FlowInv
  <2> QED BY <1>0, <2>2, <2>3, <2>4, InSocket, <2>7, <2>8, FlowMoved DEF FlowKept
<1>5. CASE ReadReply
  <2>1. toClient # <<>> /\ Incoming.kind \notin {"packet", "credit"} /\ toClient' = Tail(toClient)
    BY <1>5 DEF ReadReply, Reads
  <2>2. /\ CountOf(toClient', "packet") = CountOf(toClient, "packet")
        /\ CreditIn(toClient') = CreditIn(toClient)
    BY <2>1, ToClientTail, InSocket DEF One, ValueOf
  <2>3. /\ UNCHANGED <<hostCredits, packets, held, devCredits, sock>>
        /\ why'["reader"] \in {why["reader"], "gone", "write", "detached", "unsolicited"}
        /\ InHand("sending")' = InHand("sending") /\ InHand("crediting")' = InHand("crediting")
        /\ InHand("sending") \in Nat /\ InHand("crediting") \in Nat
    BY <1>0, <1>5 DEF ReadReply, Reads, Incoming, Handled, EnterTerminal, Goto, At,
       InHand
  <2>4. UNCHANGED toBroker
    BY <1>5 DEF ReadReply
  <2>7. HostSum' = HostSum /\ QueueSum' = QueueSum
    BY <1>0, <2>2, <2>3, <2>4, InSocket DEF HostSum, QueueSum
  <2>8. HostCredits - hostCredits' <= MaxInFlight
    BY <1>0, <2>2, <2>3, <2>4, InSocket, InFlightType DEF FlowInv
  <2> QED BY <1>0, <2>2, <2>3, <2>4, InSocket, <2>7, <2>8, FlowMoved DEF FlowKept
<1>6. CASE ReadEof
  <2>1. FlowFrame
    BY <1>0, <1>6 DEF FlowFrame, NoReason, ReadEof, EnterTerminal, Goto, At
  <2> QED BY <2>1, FlowUnmoved
<1>7. CASE CheckClosed
  <2>1. FlowFrame
    BY <1>0, <1>7 DEF FlowFrame, NoReason, CheckClosed, Goto, At
  <2> QED BY <2>1, FlowUnmoved
<1>8. CASE TakeCredit
  <2>1. /\ hostCredits' = hostCredits - 1 /\ HostCredits - hostCredits < MaxInFlight
        /\ UNCHANGED <<packets, toBroker, toClient, held, devCredits, sock, why>>
        /\ InHand("sending") = 0 /\ InHand("crediting") = 0
        /\ InHand("sending")' = 1 /\ InHand("crediting")' = 0
    BY <1>0, <1>8 DEF TakeCredit, LinkFree, MayTake, Goto, At, InHand
  <2>7. HostSum' = HostSum /\ QueueSum' = QueueSum
    BY <1>0, <2>1, InSocket DEF HostSum, QueueSum
  <2>8. HostCredits - hostCredits' <= MaxInFlight
    BY <1>0, <2>1, InSocket, InFlightType DEF FlowInv
  <2> QED BY <1>0, <2>1, InSocket, <2>7, <2>8, FlowMoved DEF FlowKept
<1>9. CASE WritePacket
  <2>1. /\ InHand("sending") = 1 /\ InHand("crediting") = 0
        /\ InHand("sending")' = 0 /\ InHand("crediting")' = 0
        /\ UNCHANGED <<hostCredits, packets, toClient, held, devCredits, sock>>
        /\ why'["reader"] = why["reader"]
    BY <1>0, <1>9 DEF WritePacket, EnterTerminal, Goto, At, InHand
  <2>2. CASE CanWrite
    <3>1. Frame("packet", 0) \in FramesToBroker
      BY DEF Frame, FramesToBroker
    <3>0. toBroker' = Append(toBroker, Frame("packet", 0))
      BY <1>9, <2>2 DEF WritePacket
    <3>2. /\ CountOf(toBroker', "packet") = CountOf(toBroker, "packet") + 1
          /\ CreditIn(toBroker') = CreditIn(toBroker)
      BY <3>0, <3>1, ToBrokerAppend, InSocket DEF Frame, One
    <3>7. HostSum' = HostSum /\ QueueSum' = QueueSum
      BY <1>0, <2>1, <3>2, InSocket DEF HostSum, QueueSum
    <3>8. HostCredits - hostCredits' <= MaxInFlight
      BY <1>0, <2>1, <3>2, InSocket, InFlightType DEF FlowInv
    <3> QED BY <1>0, <2>1, <3>2, InSocket, <3>7, <3>8, FlowMoved DEF FlowKept
  <2>3. CASE ~CanWrite
    <3>1. UNCHANGED toBroker /\ sock # "open"
      BY <1>9, <2>3 DEF WritePacket, CanWrite
    <3>2. /\ HostSum \in Int /\ QueueSum \in Int
          /\ HostSum' = HostSum - 1 /\ QueueSum' = QueueSum
      BY <1>0, <2>1, <3>1, InSocket DEF HostSum, QueueSum
    <3> QED BY <2>1, <3>1, <3>2, FlowLost
  <2> QED BY <2>2, <2>3
<1>10. CASE PopPacket
  <2>1. /\ InHand("sending") = 0 /\ InHand("crediting") = 0
        /\ InHand("sending")' = 0 /\ InHand("crediting")' = 1
        /\ UNCHANGED <<hostCredits, toBroker, toClient, held, devCredits, sock, why>>
    BY <1>0, <1>10 DEF PopPacket, LinkFree, Goto, At, InHand
  <2>2. Len(packets') = Len(packets) - 1
    BY <1>0, <1>10 DEF PopPacket
  <2>7. HostSum' = HostSum /\ QueueSum' = QueueSum
    BY <1>0, <2>1, <2>2, InSocket DEF HostSum, QueueSum
  <2>8. HostCredits - hostCredits' <= MaxInFlight
    BY <1>0, <2>1, <2>2, InSocket, InFlightType DEF FlowInv
  <2> QED BY <1>0, <2>1, <2>2, InSocket, <2>7, <2>8, FlowMoved DEF FlowKept
<1>11. CASE WriteCredit
  <2>1. /\ InHand("sending") = 0 /\ InHand("crediting") = 1
        /\ InHand("sending")' = 0 /\ InHand("crediting")' = 0
        /\ UNCHANGED <<hostCredits, packets, toClient, held, devCredits, sock>>
        /\ why'["reader"] = why["reader"]
    BY <1>0, <1>11 DEF WriteCredit, EnterTerminal, Goto, At, InHand
  <2>2. CASE CanWrite
    <3>0. toBroker' = Append(toBroker, Frame("credit", 1))
      BY <1>11, <2>2 DEF WriteCredit, CreditBack
    <3>1. Frame("credit", 1) \in FramesToBroker
      BY DEF Frame, FramesToBroker
    <3>2. /\ CountOf(toBroker', "packet") = CountOf(toBroker, "packet")
          /\ CreditIn(toBroker') = CreditIn(toBroker) + 1
      BY <3>0, <3>1, ToBrokerAppend, InSocket DEF Frame, One
    <3>7. HostSum' = HostSum /\ QueueSum' = QueueSum
      BY <1>0, <2>1, <3>2, InSocket DEF HostSum, QueueSum
    <3>8. HostCredits - hostCredits' <= MaxInFlight
      BY <1>0, <2>1, <3>2, InSocket, InFlightType DEF FlowInv
    <3> QED BY <1>0, <2>1, <3>2, InSocket, <3>7, <3>8, FlowMoved DEF FlowKept
  <2>3. CASE ~CanWrite
    <3>1. UNCHANGED toBroker /\ sock # "open"
      BY <1>11, <2>3 DEF WriteCredit, CanWrite
    <3>2. /\ HostSum \in Int /\ QueueSum \in Int
          /\ QueueSum' = QueueSum - 1 /\ HostSum' = HostSum
      BY <1>0, <2>1, <3>1, InSocket DEF HostSum, QueueSum
    <3> QED BY <2>1, <3>1, <3>2, FlowLost
  <2> QED BY <2>2, <2>3
<1>12. CASE BrokerPacket
  <2>0. Head(script) \in Nat
    BY <1>12 DEF BrokerPacket, TypeOK
  <2>1. /\ toClient' = Append(toClient, Frame("packet", Head(script)))
        /\ UNCHANGED <<hostCredits, packets, toBroker, sock, pc, why>>
        /\ UNCHANGED held /\ devCredits' = devCredits - 1
    BY <1>0, <1>12 DEF BrokerPacket, BrokerSays
  <2>2. Frame("packet", Head(script)) \in FramesToClient
    BY <2>0 DEF Frame, FramesToClient
  <2>3. /\ CountOf(toClient', "packet") = CountOf(toClient, "packet") + 1
        /\ CreditIn(toClient') = CreditIn(toClient)
    BY <2>1, <2>2, ToClientAppend, InSocket DEF Frame, One, ValueOf
  <2>4. /\ InHand("sending")' = InHand("sending") /\ InHand("crediting")' = InHand("crediting")
        /\ InHand("sending") \in Nat /\ InHand("crediting") \in Nat
    BY <2>1 DEF InHand
  <2>7. HostSum' = HostSum /\ QueueSum' = QueueSum
    <3>1. UNCHANGED <<hostCredits, packets, toBroker, held>> /\ devCredits' = devCredits - 1
      BY <2>1
    <3>2. HostSum' = HostSum
      BY <1>0, <2>3, <2>4, <3>1, InSocket DEF HostSum
    <3>3. PICK q, d, n, m, c \in Nat :
            /\ q = Len(packets) /\ d = devCredits /\ n = InHand("crediting")
            /\ m = CountOf(toClient, "packet") /\ c = CreditIn(toBroker)
      BY <1>0, <2>4, InSocket
    <3>4. QueueSum = q + n + m + d + c
      BY <3>3 DEF QueueSum
    <3>5. QueueSum' = q + n + (m + 1) + (d - 1) + c
      BY <2>3, <2>4, <3>1, <3>3 DEF QueueSum
    <3> QED BY <3>2, <3>4, <3>5
  <2>8. HostCredits - hostCredits' <= MaxInFlight
    BY <1>0, <2>1, <2>3, <2>4, InSocket, InFlightType DEF FlowInv
  <2> QED BY <1>0, <2>1, <2>3, <2>4, InSocket, <2>7, <2>8, FlowMoved DEF FlowKept
<1>13. CASE BrokerPing
  <2>1. /\ toClient' = Append(toClient, Frame("ping", 0))
        /\ UNCHANGED <<hostCredits, packets, toBroker, sock, pc, why>>
        /\ UNCHANGED <<held, devCredits>>
    BY <1>0, <1>13 DEF BrokerPing, BrokerSays
  <2>2. Frame("ping", 0) \in FramesToClient
    BY DEF Frame, FramesToClient
  <2>3. /\ CountOf(toClient', "packet") = CountOf(toClient, "packet")
        /\ CreditIn(toClient') = CreditIn(toClient)
    BY <2>1, <2>2, ToClientAppend, InSocket DEF Frame, One, ValueOf
  <2>4. /\ InHand("sending")' = InHand("sending") /\ InHand("crediting")' = InHand("crediting")
        /\ InHand("sending") \in Nat /\ InHand("crediting") \in Nat
    BY <2>1 DEF InHand
  <2>7. HostSum' = HostSum /\ QueueSum' = QueueSum
    BY <1>0, <2>1, <2>3, <2>4, InSocket DEF HostSum, QueueSum
  <2>8. HostCredits - hostCredits' <= MaxInFlight
    BY <1>0, <2>1, <2>3, <2>4, InSocket, InFlightType DEF FlowInv
  <2> QED BY <1>0, <2>1, <2>3, <2>4, InSocket, <2>7, <2>8, FlowMoved DEF FlowKept
<1>14. CASE BrokerGone
  <2>1. /\ toClient' = Append(toClient, Frame("gone", 0))
        /\ UNCHANGED <<hostCredits, packets, toBroker, sock, pc, why>>
        /\ UNCHANGED <<held, devCredits>>
    BY <1>0, <1>14 DEF BrokerGone, BrokerSays
  <2>2. Frame("gone", 0) \in FramesToClient
    BY DEF Frame, FramesToClient
  <2>3. /\ CountOf(toClient', "packet") = CountOf(toClient, "packet")
        /\ CreditIn(toClient') = CreditIn(toClient)
    BY <2>1, <2>2, ToClientAppend, InSocket DEF Frame, One, ValueOf
  <2>4. /\ InHand("sending")' = InHand("sending") /\ InHand("crediting")' = InHand("crediting")
        /\ InHand("sending") \in Nat /\ InHand("crediting") \in Nat
    BY <2>1 DEF InHand
  <2>7. HostSum' = HostSum /\ QueueSum' = QueueSum
    BY <1>0, <2>1, <2>3, <2>4, InSocket DEF HostSum, QueueSum
  <2>8. HostCredits - hostCredits' <= MaxInFlight
    BY <1>0, <2>1, <2>3, <2>4, InSocket, InFlightType DEF FlowInv
  <2> QED BY <1>0, <2>1, <2>3, <2>4, InSocket, <2>7, <2>8, FlowMoved DEF FlowKept
<1>15. CASE BrokerHangsUp
  <2>1. FlowFrame
    BY <1>0, <1>15 DEF FlowFrame, NoReason, BrokerHangsUp, CanWrite
  <2> QED BY <2>1, FlowUnmoved
<1>16. CASE BrokerReads
  <2>1. /\ toBroker # <<>> /\ toBroker' = Tail(toBroker)
        /\ UNCHANGED <<hostCredits, packets, toClient, sock, pc, why>>
    BY <1>16 DEF BrokerReads
  <2>2. Head(toBroker) \in FramesToBroker
    BY <2>1 DEF TypeOK
  <2>3. /\ Head(toBroker).kind = "credit" => Head(toBroker).value = 1
        /\ Head(toBroker).kind \in {"pong", "packet", "credit", "request"}
    BY <2>2 DEF FramesToBroker
  <2>4. /\ held' = held + One(Head(toBroker).kind = "packet")
        /\ devCredits' = devCredits + One(Head(toBroker).kind = "credit")
    BY <1>0, <1>16, <2>3 DEF BrokerReads, One
  <2>5. InHand("sending")' = InHand("sending") /\ InHand("crediting")' = InHand("crediting")
        /\ InHand("sending") \in Nat /\ InHand("crediting") \in Nat
    BY <2>1 DEF InHand
  <2>6. PICK p \in Nat, c \in Nat : /\ p = One(Head(toBroker).kind = "packet")
                                   /\ c = One(Head(toBroker).kind = "credit")
    BY DEF One
  <2>9. /\ CountOf(toBroker', "packet") = CountOf(toBroker, "packet") - p
        /\ CreditIn(toBroker') = CreditIn(toBroker) - c
        /\ held' = held + p /\ devCredits' = devCredits + c
    BY <2>1, <2>4, <2>6, ToBrokerTail
  <2>10. PICK n \in Nat, v \in Nat : n = CountOf(toBroker, "packet") /\ v = CreditIn(toBroker)
    BY InSocket
  <2>11. /\ CountOf(toBroker, "packet")' = n - p /\ CreditIn(toBroker)' = v - c
        /\ CreditIn(toClient)' = CreditIn(toClient) /\ hostCredits' = hostCredits
        /\ CountOf(toClient, "packet")' = CountOf(toClient, "packet") /\ packets' = packets
    BY <2>1, <2>9, <2>10
  <2>12. HostSum' = HostSum
    BY <1>0, <2>5, <2>9, <2>10, <2>11, InSocket DEF HostSum
  <2>13. QueueSum' = QueueSum
    BY <1>0, <2>5, <2>9, <2>10, <2>11, InSocket DEF QueueSum
  <2>7. HostSum' = HostSum /\ QueueSum' = QueueSum
    BY <2>12, <2>13
  <2>8. HostCredits - hostCredits' <= MaxInFlight
    BY <1>0, <2>1, <2>4, <2>5, <2>6, ToBrokerTail, InSocket, InFlightType DEF
       FlowInv
  <2> QED BY <1>0, <2>1, <2>4, <2>5, <2>6, ToBrokerTail, InSocket, <2>7, <2>8,
     FlowMoved DEF FlowKept
<1>17. ASSUME NEW n \in 1 .. HostCredits, BrokerCredit(n) PROVE FlowInv'
  <2>1. /\ toClient' = Append(toClient, Frame("credit", n))
        /\ UNCHANGED <<hostCredits, packets, toBroker, sock, pc, why>>
        /\ UNCHANGED devCredits /\ held' = held - n /\ n <= held
    BY <1>0, <1>17 DEF BrokerCredit, BrokerSays
  <2>2. Frame("credit", n) \in FramesToClient
    BY DEF Frame, FramesToClient
  <2>3. /\ CountOf(toClient', "packet") = CountOf(toClient, "packet")
        /\ CreditIn(toClient') = CreditIn(toClient) + n
    BY <2>1, <2>2, ToClientAppend, InSocket DEF Frame, One, ValueOf
  <2>4. /\ InHand("sending")' = InHand("sending") /\ InHand("crediting")' = InHand("crediting")
        /\ InHand("sending") \in Nat /\ InHand("crediting") \in Nat
    BY <2>1 DEF InHand
  <2>7. HostSum' = HostSum /\ QueueSum' = QueueSum
    BY <1>0, <2>1, <2>3, <2>4, InSocket DEF HostSum, QueueSum
  <2>8. HostCredits - hostCredits' <= MaxInFlight
    BY <1>0, <2>1, <2>3, <2>4, InSocket, InFlightType DEF FlowInv
  <2> QED BY <1>0, <2>1, <2>3, <2>4, InSocket, <2>7, <2>8, FlowMoved DEF FlowKept
<1>18. ASSUME NEW r \in Requests, BrokerAnswer(r) PROVE FlowInv'
  <2>1. PICK f \in {Frame("reply", r), Frame("detached", r)} :
          f \in FramesToClient /\ toClient' = Append(toClient, f)
    BY <1>18 DEF BrokerAnswer, BrokerSays, Frame, FramesToClient
  <2>2. UNCHANGED <<hostCredits, packets, toBroker, held, devCredits, sock, pc, why>>
    BY <1>18 DEF BrokerAnswer, BrokerSays
  <2>3. /\ CountOf(toClient', "packet") = CountOf(toClient, "packet")
        /\ CreditIn(toClient') = CreditIn(toClient)
    BY <2>1, ToClientAppend, InSocket DEF Frame, One, ValueOf
  <2>4. /\ InHand("sending")' = InHand("sending") /\ InHand("crediting")' = InHand("crediting")
        /\ InHand("sending") \in Nat /\ InHand("crediting") \in Nat
    BY <2>2 DEF InHand
  <2>7. HostSum' = HostSum /\ QueueSum' = QueueSum
    BY <1>0, <2>2, <2>3, <2>4, InSocket DEF HostSum, QueueSum
  <2>8. HostCredits - hostCredits' <= MaxInFlight
    BY <1>0, <2>2, <2>3, <2>4, InSocket, InFlightType DEF FlowInv
  <2> QED BY <1>0, <2>2, <2>3, <2>4, InSocket, <2>7, <2>8, FlowMoved DEF FlowKept
<1>19. ASSUME NEW r \in Requests, CheckOpen(r) PROVE FlowInv'
  <2>1. FlowFrame
    BY <1>0, <1>19 DEF FlowFrame, NoReason, CheckOpen, Goto, At
  <2> QED BY <2>1, FlowUnmoved
<1>20. ASSUME NEW r \in Requests, RegisterWaiter(r) PROVE FlowInv'
  <2>1. FlowFrame
    BY <1>0, <1>20 DEF FlowFrame, NoReason, RegisterWaiter, Registered, Goto, At
  <2> QED BY <2>1, FlowUnmoved
<1>21. ASSUME NEW r \in Requests, WriteRequest(r) PROVE FlowInv'
  <2>1. /\ UNCHANGED <<hostCredits, packets, toClient, held, devCredits, sock, why>>
        /\ toBroker' = Append(toBroker, Frame("request", r))
        /\ InHand("sending")' = InHand("sending") /\ InHand("crediting")' = InHand("crediting")
        /\ InHand("sending") \in Nat /\ InHand("crediting") \in Nat
    BY <1>0, <1>21 DEF WriteRequest, Goto, At, InHand
  <2>2. Frame("request", r) \in FramesToBroker
    BY DEF Frame, FramesToBroker
  <2>3. /\ CountOf(toBroker', "packet") = CountOf(toBroker, "packet")
        /\ CreditIn(toBroker') = CreditIn(toBroker)
    BY <2>1, <2>2, ToBrokerAppend, InSocket DEF Frame, One
  <2>7. HostSum' = HostSum /\ QueueSum' = QueueSum
    BY <1>0, <2>1, <2>3, InSocket DEF HostSum, QueueSum
  <2>8. HostCredits - hostCredits' <= MaxInFlight
    BY <1>0, <2>1, <2>3, InSocket, InFlightType DEF FlowInv
  <2> QED BY <1>0, <2>1, <2>3, InSocket, <2>7, <2>8, FlowMoved DEF FlowKept
<1>22. ASSUME NEW r \in Requests, RequestFails(r) PROVE FlowInv'
  <2>1. FlowFrame
    BY <1>0, <1>22 DEF FlowFrame, NoReason, RequestFails, EnterTerminal, CanWrite,
       Goto, At
  <2> QED BY <2>1, FlowUnmoved
<1>23. ASSUME NEW r \in Requests, ReceiveReply(r) PROVE FlowInv'
  <2>1. FlowFrame
    BY <1>0, <1>23 DEF FlowFrame, NoReason, ReceiveReply, Goto, At
  <2> QED BY <2>1, FlowUnmoved
<1>24. ASSUME NEW r \in Requests, Disconnected(r) PROVE FlowInv'
  <2>1. FlowFrame
    BY <1>0, <1>24 DEF FlowFrame, NoReason, Disconnected, Goto, At
  <2> QED BY <2>1, FlowUnmoved
<1>25. ASSUME NEW r \in Requests, TimesOut(r) PROVE FlowInv'
  <2>1. FlowFrame
    BY <1>0, <1>25 DEF FlowFrame, NoReason, TimesOut, Goto, At
  <2> QED BY <2>1, FlowUnmoved
<1>26. ASSUME NEW r \in Requests, RemoveWaiter(r) PROVE FlowInv'
  <2>1. FlowFrame
    BY <1>0, <1>26 DEF FlowFrame, NoReason, RemoveWaiter, EnterTerminal, Goto, At
  <2> QED BY <2>1, FlowUnmoved
<1>27. ASSUME NEW t \in Threads, MarkAbsent(t) PROVE FlowInv'
  <2>1. FlowFrame
    BY <1>0, <1>27 DEF FlowFrame, NoReason, MarkAbsent, Goto, At
  <2> QED BY <2>1, FlowUnmoved
<1>28. ASSUME NEW t \in Threads, MarkClosed(t) PROVE FlowInv'
  <2>1. FlowFrame
    BY <1>0, <1>28 DEF FlowFrame, NoReason, MarkClosed, Goto, At
  <2> QED BY <2>1, FlowUnmoved
<1>29. ASSUME NEW t \in Threads, ClearWaiters(t) PROVE FlowInv'
  <2>1. FlowFrame
    BY <1>0, <1>29 DEF FlowFrame, NoReason, ClearWaiters, AfterTerminal, Goto, At
  <2> QED BY <2>1, FlowUnmoved
<1>30. ASSUME NEW t \in Threads, ShutSocket(t) PROVE FlowInv'
  <2>1. FlowFrame
    BY <1>0, <1>30 DEF FlowFrame, NoReason, ShutSocket, SocketShut, Goto, At
  <2> QED BY <2>1, FlowUnmoved
<1>31. CASE Abort
  <2>1. FlowFrame
    BY <1>0, <1>31 DEF FlowFrame, NoReason, Abort, EnterTerminal, Goto, At
  <2> QED BY <2>1, FlowUnmoved
<1>32. CASE DropTransport
  <2>1. FlowFrame
    BY <1>0, <1>32 DEF FlowFrame, NoReason, DropTransport, LinkFree, EnterTerminal,
       Goto, At
  <2> QED BY <2>1, FlowUnmoved
<1>33. CASE JoinReader
  <2>1. FlowFrame
    BY <1>0, <1>33 DEF FlowFrame, NoReason, JoinReader, Goto, At
  <2> QED BY <2>1, FlowUnmoved
<1>34. CASE UNCHANGED vars
  BY <1>34, FlowUnmoved DEF FlowFrame, vars
<1>35. CASE WritePong
  <2>1. Frame("pong", 0) \in FramesToBroker
    BY DEF Frame, FramesToBroker
  <2>2. /\ CountOf(Append(toBroker, Frame("pong", 0)), "packet") = CountOf(toBroker, "packet")
        /\ CreditIn(Append(toBroker, Frame("pong", 0))) = CreditIn(toBroker)
    BY <2>1, ToBrokerAppend, InSocket DEF Frame, One
  <2>3. /\ CountOf(toBroker', "packet") = CountOf(toBroker, "packet")
        /\ CreditIn(toBroker') = CreditIn(toBroker)
    BY <1>35, <2>2, Zenon DEF WritePong
  <2>4. /\ UNCHANGED <<hostCredits, packets, toClient, held, devCredits, sock>>
        /\ why'["reader"] \in {why["reader"], "gone", "write", "detached", "unsolicited"}
        /\ InHand("sending")' = InHand("sending") /\ InHand("crediting")' = InHand("crediting")
        /\ InHand("sending") \in Nat /\ InHand("crediting") \in Nat
    BY <1>0, <1>35 DEF WritePong, Handled, EnterTerminal, Goto, At, InHand
  <2>7. HostSum' = HostSum /\ QueueSum' = QueueSum
    BY <1>0, <2>3, <2>4, InSocket DEF HostSum, QueueSum
  <2>8. HostCredits - hostCredits' <= MaxInFlight
    BY <1>0, <2>4, InFlightType DEF FlowInv
  <2> QED BY <2>4, <2>7, <2>8, FlowMoved DEF FlowKept
<1>36. ASSUME NEW t \in Threads, WriteWaits(t) PROVE FlowInv'
  BY <1>36, FlowUnmoved DEF FlowFrame, WriteWaits
<1> QED
  BY <1>1, <1>2, <1>3, <1>4, <1>5, <1>6, <1>7, <1>8, <1>9, <1>10, <1>11, <1>12,
     <1>13, <1>14, <1>15, <1>16, <1>17, <1>18, <1>19, <1>20, <1>21, <1>22, <1>23,
     <1>24, <1>25, <1>26, <1>27, <1>28, <1>29, <1>30, <1>31, <1>32, <1>33, <1>34,
     <1>35, <1>36
     DEF Next, Reader, Link, Broker, Request, Terminal

-----------------------------------------------------------------------------
(* The order of the device's packets.                                      *)

\* The packets among these frames are numbered from base + 1.
InOrder(frames, base) ==
    \A i \in 1 .. Len(frames) :
        frames[i].kind = "packet" => frames[i].value = base + RankOf(frames, "packet", i)

Taken == Len(delivered) + InHand("crediting")
Received == Taken + Len(packets)

\* Wherever a packet is, its number says how many were sent before it: returned,
\* in the link's hand, in the queue, in the socket or not yet sent.
Stream ==
    /\ pc["link"] = "crediting" => holding = Len(delivered) + 1
    /\ \A i \in 1 .. Len(packets) : packets[i] = Taken + i
    /\ InOrder(toClient, Received)
    /\ \A i \in 1 .. Len(script) : script[i] = Received + CountOf(toClient, "packet") + i

\* A packet is dropped only when the link fails to write, and after that recv
\* returns none.
OrderInv ==
    /\ \A i \in 1 .. Len(delivered) : delivered[i] = i
    /\ why["link"] # "write" => Stream

LEMMA InOrderTail ==
    ASSUME NEW q \in Seq(FramesToClient), q # <<>>, NEW base \in Nat, InOrder(q, base)
    PROVE  /\ InOrder(Tail(q), base + One(Head(q).kind = "packet"))
           /\ Head(q).kind = "packet" => Head(q).value = base + 1
<1>1. PICK t : t = Tail(q)
  BY Zenon
<1>2. PICK d \in Nat : d = One(Head(q).kind = "packet")
  BY DEF One
<1>3. /\ t \in Seq(FramesToClient) /\ Len(q) \in Nat /\ Len(t) = Len(q) - 1
      /\ \A i \in 1 .. Len(t) : t[i] = q[i + 1]
      /\ Head(q) = q[1] /\ Len(q) > 0
  BY <1>1
<1>7. \A i \in 1 .. Len(Tail(q)) :
          RankOf(Tail(q), "packet", i) = RankOf(q, "packet", i + 1) - One(Head(q).kind = "packet")
  <2>1. \A i \in 1 .. Len(Tail(q)) : i \in 0 .. Len(Tail(q))
    OBVIOUS
  <2> QED BY <2>1, RankTailAt
<1>8. \A i \in 1 .. Len(t) : RankOf(t, "packet", i) = RankOf(q, "packet", i + 1) - d
  BY <1>1, <1>2, <1>7, Zenon
<1>4. ASSUME NEW i \in 1 .. Len(t), t[i].kind = "packet"
      PROVE  t[i].value = (base + d) + RankOf(t, "packet", i)
  <2>1. i + 1 \in 1 .. Len(q) /\ t[i] = q[i + 1]
    BY <1>3
  <2>2. q[i + 1].value = base + RankOf(q, "packet", i + 1)
    BY <1>4, <2>1 DEF InOrder
  <2>3. RankOf(t, "packet", i) = RankOf(q, "packet", i + 1) - d
    BY <1>8
  <2>4. RankOf(q, "packet", i + 1) \in Nat
    BY RankedFinite
  <2> QED BY <2>1, <2>2, <2>3, <2>4
<1>5. InOrder(t, base + d)
  BY <1>4 DEF InOrder
<1>6. ASSUME Head(q).kind = "packet" PROVE Head(q).value = base + 1
  <2>1. RankOf(q, "packet", 1) = 1
    BY <1>6, RankTail DEF One
  <2>2. 1 \in 1 .. Len(q)
    BY <1>3
  <2> QED BY <1>3, <1>6, <2>1, <2>2 DEF InOrder
<1> QED BY <1>1, <1>2, <1>5, <1>6

LEMMA InOrderAppend ==
    ASSUME NEW q \in Seq(FramesToClient), NEW f \in FramesToClient, NEW base \in Nat,
           InOrder(q, base),
           f.kind = "packet" => f.value = base + CountOf(q, "packet") + 1
    PROVE  InOrder(Append(q, f), base)
<1>1. PICK a : a = Append(q, f)
  BY Zenon
<1>2. /\ Len(q) \in Nat /\ Len(a) = Len(q) + 1
      /\ \A i \in 1 .. Len(q) : a[i] = q[i]
      /\ a[Len(q) + 1] = f
  BY <1>1
<1>4. \A i \in 1 .. Len(q) : RankOf(a, "packet", i) = RankOf(q, "packet", i)
  <2>1. \A i \in 1 .. Len(q) : RankOf(Append(q, f), "packet", i) = RankOf(q, "packet", i)
    BY RankAppendAt
  <2> QED BY <1>1, <2>1, Zenon
<1>3. ASSUME NEW i \in 1 .. Len(a), a[i].kind = "packet"
      PROVE  a[i].value = base + RankOf(a, "packet", i)
  <2>1. CASE i \in 1 .. Len(q)
    <3>1. RankOf(a, "packet", i) = RankOf(q, "packet", i)
      BY <1>4, <2>1
    <3> QED BY <1>2, <1>3, <2>1, <3>1 DEF InOrder
  <2>2. CASE i = Len(q) + 1
    <3>1. RankOf(a, "packet", i) = CountOf(q, "packet") + 1
      BY <1>1, <1>2, <1>3, <2>2, RankAppend DEF One
    <3>2. CountOf(q, "packet") \in Nat
      BY CountType
    <3> QED BY <1>2, <1>3, <2>2, <3>1, <3>2
  <2> QED BY <1>2, <2>1, <2>2
<1>5. InOrder(a, base)
  BY <1>3 DEF InOrder
<1> QED BY <1>1, <1>5

OrderFrame ==
    /\ UNCHANGED <<delivered, holding, packets, toClient, script>>
    /\ pc'["link"] = "crediting" <=> pc["link"] = "crediting"
    /\ why'["link"] # "write" => why["link"] # "write"

LEMMA OrderUnmoved == OrderInv /\ OrderFrame => OrderInv'
BY DEF OrderInv, OrderFrame, Stream, Taken, Received, InHand, InOrder

LEMMA OrderInit == Init => OrderInv
<1> SUFFICES ASSUME Init PROVE OrderInv
  OBVIOUS
<1>1. /\ packets = <<>> /\ toClient = <<>> /\ delivered = <<>>
      /\ \E load \in Workloads : script = [i \in 1 .. load.packets |-> i]
  BY DEF Init
<1>2. \A t \in Threads : pc[t] \in {"reading", "done", "idle"}
  BY DEF Init
<1>3. pc["link"] # "crediting" /\ InHand("crediting") = 0
  BY <1>2, Constants DEF InHand
<1>4. Taken = 0 /\ Received = 0 /\ CountOf(toClient, "packet") = 0
  BY <1>1, <1>3, CountEmpty DEF Taken, Received
<1>5. PICK n \in Nat : script = [i \in 1 .. n |-> i]
  BY <1>1, Constants
<1>6. \A i \in 1 .. Len(script) : script[i] = 0 + 0 + i
  BY <1>5
<1>7. InOrder(toClient, Received)
  BY <1>1 DEF InOrder
<1>8. Len(packets) = 0 /\ Len(delivered) = 0
  BY <1>1
<1> QED BY <1>3, <1>4, <1>6, <1>7, <1>8 DEF OrderInv, Stream

\* The link at work: its hand is empty unless it has popped a packet.
LEMMA StreamTypes ==
    ASSUME TypeOK
    PROVE  /\ Len(delivered) \in Nat /\ Len(packets) \in Nat /\ Len(script) \in Nat
           /\ InHand("crediting") \in {0, 1} /\ Taken \in Nat /\ Received \in Nat
           /\ CountOf(toClient, "packet") \in Nat
<1>1. Len(delivered) \in Nat /\ Len(packets) \in Nat /\ Len(script) \in Nat
  BY DEF TypeOK
<1>2. InHand("crediting") \in {0, 1}
  BY DEF InHand
<1> QED BY <1>1, <1>2, InSocket DEF Taken, Received

\* A frame that is no packet is read or written.
LEMMA OtherFrame ==
    ASSUME TypeOK, OrderInv,
           UNCHANGED <<delivered, holding, packets, script>>,
           pc'["link"] = "crediting" <=> pc["link"] = "crediting",
           why'["link"] = why["link"],
           \/ toClient # <<>> /\ toClient' = Tail(toClient) /\ Incoming.kind # "packet"
           \/ \E f \in FramesToClient : f.kind # "packet" /\ toClient' = Append(toClient, f)
    PROVE  OrderInv'
<1>1. /\ Len(delivered)' = Len(delivered) /\ Taken' = Taken /\ Received' = Received
  BY DEF Taken, Received, InHand
<1>2. toClient \in Seq(FramesToClient) /\ Received \in Nat
  BY StreamTypes DEF TypeOK
<1>3. ASSUME InOrder(toClient, Received)
      PROVE  /\ InOrder(toClient', Received)
             /\ CountOf(toClient', "packet") = CountOf(toClient, "packet")
  <2>1. CASE toClient # <<>> /\ toClient' = Tail(toClient) /\ Incoming.kind # "packet"
    <3>1. One(Head(toClient).kind = "packet") = 0
      BY <2>1 DEF One, Incoming
    <3>2. InOrder(toClient', Received + 0)
      BY <1>2, <1>3, <2>1, <3>1, InOrderTail
    <3>3. CountOf(toClient', "packet") = CountOf(toClient, "packet") - 0
      BY <2>1, <3>1, ToClientTail DEF Incoming
    <3> QED BY <1>2, <3>2, <3>3, InSocket
  <2>2. ASSUME NEW f \in FramesToClient, f.kind # "packet", toClient' = Append(toClient, f)
        PROVE  /\ InOrder(toClient', Received)
               /\ CountOf(toClient', "packet") = CountOf(toClient, "packet")
    <3>1. InOrder(toClient', Received)
      BY <1>2, <1>3, <2>2, InOrderAppend
    <3>2. CountOf(toClient', "packet") = CountOf(toClient, "packet") + 0
      BY <2>2, ToClientAppend DEF One
    <3> QED BY <3>1, <3>2, InSocket
  <2> QED BY <2>1, <2>2
<1>4. Stream => Stream'
  BY <1>1, <1>3 DEF Stream
<1> QED BY <1>4 DEF OrderInv

LEMMA OrderStep == TypeOK /\ Ending /\ FlowInv /\ OrderInv /\ [Next]_vars => OrderInv'
<1> SUFFICES ASSUME TypeOK, Ending, FlowInv, OrderInv, [Next]_vars PROVE OrderInv'
  OBVIOUS
<1> USE Constants DEF queueVars, requestVars, linkVars, brokerVars, wire
<1>0. /\ pc \in [Threads -> Stations] /\ why \in [Threads -> Reasons]
      /\ packets \in Seq(Nat) /\ delivered \in Seq(Nat) /\ script \in Seq(Nat)
      /\ toClient \in Seq(FramesToClient)
  BY DEF TypeOK
<1>1. CASE ReadPacket
  <2>1. /\ toClient # <<>> /\ Incoming.kind = "packet" /\ toClient' = Tail(toClient)
        /\ UNCHANGED <<delivered, holding, script>>
    BY <1>1 DEF ReadPacket, Reads
  <2>2. packets' = Append(packets, Incoming.value)
    <3>1. why'["reader"] # "overrun"
      BY FlowStep DEF FlowInv
    <3> QED BY <1>0, <1>1, <3>1 DEF ReadPacket, EnterTerminal, Goto, Enqueued
  <2>3. UNCHANGED why /\ pc'["link"] = pc["link"]
    <3>1. why'["reader"] # "overrun"
      BY FlowStep DEF FlowInv
    <3> QED BY <1>0, <1>1, <3>1 DEF ReadPacket, EnterTerminal, Goto, Handled
  <2>4. /\ Len(packets') = Len(packets) + 1 /\ Taken' = Taken /\ Received' = Received + 1
    <3>1. Len(packets') = Len(packets) + 1
      BY <1>0, <2>2
    <3>2. InHand("crediting")' = InHand("crediting") /\ Len(delivered') = Len(delivered)
      BY <2>1, <2>3 DEF InHand
    <3> QED BY <3>1, <3>2, StreamTypes DEF Taken, Received
  <2>5. CountOf(toClient', "packet") = CountOf(toClient, "packet") - 1
    BY <2>1, ToClientTail DEF One
  <2>6. ASSUME Stream PROVE Stream'
    <3>1. One(Head(toClient).kind = "packet") = 1
      BY <2>1 DEF One, Incoming
    <3>2. InOrder(Tail(toClient), Received + 1) /\ Head(toClient).value = Received + 1
      BY <1>0, <2>1, <2>6, <3>1, InOrderTail, StreamTypes DEF Stream, Incoming
    <3>3. InOrder(toClient', Received')
      BY <2>1, <2>4, <3>2
    <3>4. \A i \in 1 .. Len(packets') : packets'[i] = Taken' + i
      <4>1. Received + 1 = Taken + (Len(packets) + 1)
        BY StreamTypes DEF Received
      <4>2. \A i \in 1 .. Len(packets) : packets[i] = Taken + i
        BY <2>6 DEF Stream
      <4>3. Incoming.value = Taken + (Len(packets) + 1)
        BY <3>2, <4>1 DEF Incoming
      <4> QED BY <1>0, <2>2, <2>4, <4>2, <4>3
    <3>5. \A i \in 1 .. Len(script') : script'[i] = Received' + CountOf(toClient', "packet") + i
      BY <2>1, <2>4, <2>5, <2>6, StreamTypes DEF Stream
    <3>6. pc'["link"] = "crediting" => holding' = Len(delivered') + 1
      BY <2>1, <2>3, <2>6 DEF Stream
    <3> QED BY <3>3, <3>4, <3>5, <3>6 DEF Stream
  <2> QED BY <2>1, <2>3, <2>6 DEF OrderInv
<1>2. CASE ReadCredit
  <2>1. /\ toClient # <<>> /\ toClient' = Tail(toClient) /\ Incoming.kind # "packet"
        /\ UNCHANGED <<delivered, holding, packets, script>>
    BY <1>2 DEF ReadCredit, Reads
  <2>2. pc'["link"] = pc["link"] /\ why'["link"] = why["link"]
    BY <1>0, <1>2 DEF ReadCredit, Handled, EnterTerminal, Goto
  <2> QED BY <2>1, <2>2, OtherFrame
<1>3. CASE ReadGone
  <2>1. /\ toClient # <<>> /\ toClient' = Tail(toClient) /\ Incoming.kind # "packet"
        /\ UNCHANGED <<delivered, holding, packets, script>>
    BY <1>3 DEF ReadGone, Reads
  <2>2. pc'["link"] = pc["link"] /\ why'["link"] = why["link"]
    BY <1>0, <1>3 DEF ReadGone, Handled, EnterTerminal, Goto
  <2> QED BY <2>1, <2>2, OtherFrame
<1>4. CASE ReadPing
  <2>1. /\ toClient # <<>> /\ toClient' = Tail(toClient) /\ Incoming.kind # "packet"
        /\ UNCHANGED <<delivered, holding, packets, script>>
    BY <1>4 DEF ReadPing, Reads
  <2>2. pc'["link"] = pc["link"] /\ why'["link"] = why["link"]
    BY <1>0, <1>4 DEF ReadPing, Goto
  <2> QED BY <2>1, <2>2, OtherFrame
<1>5. CASE ReadReply
  <2>1. /\ toClient # <<>> /\ toClient' = Tail(toClient) /\ Incoming.kind # "packet"
        /\ UNCHANGED <<delivered, holding, packets, script>>
    BY <1>5 DEF ReadReply, Reads
  <2>2. pc'["link"] = pc["link"] /\ why'["link"] = why["link"]
    BY <1>0, <1>5 DEF ReadReply, Handled, EnterTerminal, Goto
  <2> QED BY <2>1, <2>2, OtherFrame
<1>6. CASE ReadEof
  <2>1. OrderFrame
    BY <1>0, <1>6 DEF OrderFrame, ReadEof, EnterTerminal, Goto, At
  <2> QED BY <2>1, OrderUnmoved
<1>7. CASE CheckClosed
  <2>1. OrderFrame
    BY <1>0, <1>7 DEF OrderFrame, CheckClosed, Goto, At
  <2> QED BY <2>1, OrderUnmoved
<1>8. CASE TakeCredit
  <2>1. OrderFrame
    BY <1>0, <1>8 DEF OrderFrame, TakeCredit, LinkFree, MayTake, Goto, At
  <2> QED BY <2>1, OrderUnmoved
<1>9. CASE WritePacket
  <2>1. OrderFrame
    BY <1>0, <1>9 DEF OrderFrame, WritePacket, EnterTerminal, Goto, At
  <2> QED BY <2>1, OrderUnmoved
<1>10. CASE PopPacket
  <2>1. /\ packets # <<>> /\ packets' = Tail(packets) /\ holding' = Head(packets)
        /\ UNCHANGED <<delivered, toClient, script, why>>
        /\ InHand("crediting") = 0 /\ InHand("crediting")' = 1
    BY <1>0, <1>10 DEF PopPacket, LinkFree, Goto, At, InHand
  <2>2. /\ Len(packets') = Len(packets) - 1 /\ Len(packets) > 0
        /\ \A i \in 1 .. Len(packets') : packets'[i] = packets[i + 1]
        /\ Head(packets) = packets[1]
    BY <1>0, <2>1
  <2>3. Taken = Len(delivered) /\ Taken' = Taken + 1 /\ Received' = Received
    BY <2>1, <2>2, StreamTypes DEF Taken, Received
  <2>4. ASSUME Stream PROVE Stream'
    <3>1. \A i \in 1 .. Len(packets) : packets[i] = Taken + i
      BY <2>4 DEF Stream
    <3>2. holding' = Len(delivered') + 1
      BY <2>1, <2>2, <2>3, <3>1, StreamTypes
    <3>3. \A i \in 1 .. Len(packets') : packets'[i] = Taken' + i
      BY <2>2, <2>3, <3>1, StreamTypes
    <3> QED BY <2>1, <2>3, <2>4, <3>2, <3>3 DEF Stream
  <2> QED BY <2>1, <2>4 DEF OrderInv
<1>11. CASE WriteCredit
  <2>1. /\ UNCHANGED <<packets, holding, toClient, script>>
        /\ InHand("crediting") = 1 /\ InHand("crediting")' = 0
        /\ pc["link"] = "crediting" /\ pc'["link"] # "crediting"
    BY <1>0, <1>11 DEF WriteCredit, EnterTerminal, Goto, At, InHand
  <2>2. CASE CanWrite
    <3>1. delivered' = Append(delivered, holding) /\ UNCHANGED why
      BY <1>11, <2>2 DEF WriteCredit
    <3>2. why["link"] # "write"
      BY <2>2 DEF Ending, CanWrite
    <3>3. Stream /\ holding = Len(delivered) + 1
      BY <2>1, <3>2 DEF OrderInv, Stream
    <3>4. Len(delivered') = Len(delivered) + 1
      BY <1>0, <3>1
    <3>5. Taken' = Taken /\ Received' = Received
      BY <2>1, <3>4, StreamTypes DEF Taken, Received
    <3>6. Stream'
      BY <2>1, <3>3, <3>5 DEF Stream
    <3>7. \A i \in 1 .. Len(delivered') : delivered'[i] = i
      BY <1>0, <3>1, <3>3, <3>4 DEF OrderInv
    <3> QED BY <3>6, <3>7 DEF OrderInv
  <2>3. CASE ~CanWrite
    <3>1. UNCHANGED delivered /\ why'["link"] = "write"
      BY <1>0, <1>11, <2>3 DEF WriteCredit, EnterTerminal
    <3> QED BY <3>1 DEF OrderInv
  <2> QED BY <2>2, <2>3
<1>12. CASE BrokerPacket
  <2>1. /\ script # <<>> /\ script' = Tail(script)
        /\ toClient' = Append(toClient, Frame("packet", Head(script)))
        /\ UNCHANGED <<delivered, holding, packets, pc, why>>
    BY <1>12 DEF BrokerPacket, BrokerSays
  <2>2. /\ Head(script) \in Nat /\ Head(script) = script[1] /\ Len(script) > 0
        /\ Len(script') = Len(script) - 1
        /\ \A i \in 1 .. Len(script') : script'[i] = script[i + 1]
    BY <1>0, <2>1
  <2>3. Frame("packet", Head(script)) \in FramesToClient
    BY <2>2 DEF Frame, FramesToClient
  <2>4. CountOf(toClient', "packet") = CountOf(toClient, "packet") + 1
    BY <2>1, <2>3, ToClientAppend DEF Frame, One
  <2>5. Taken' = Taken /\ Received' = Received
    BY <2>1 DEF Taken, Received, InHand
  <2>6. ASSUME Stream PROVE Stream'
    <3>1. \A i \in 1 .. Len(script) : script[i] = Received + CountOf(toClient, "packet") + i
      BY <2>6 DEF Stream
    <3>2. Head(script) = Received + CountOf(toClient, "packet") + 1
      BY <2>2, <3>1, StreamTypes
    <3>3. InOrder(toClient', Received)
      BY <1>0, <2>1, <2>3, <2>6, <3>2, InOrderAppend, StreamTypes DEF Stream, Frame
    <3>4. \A i \in 1 .. Len(script') : script'[i] = Received + CountOf(toClient', "packet") + i
      BY <2>2, <2>4, <3>1, StreamTypes
    <3> QED BY <2>1, <2>5, <2>6, <3>3, <3>4 DEF Stream
  <2> QED BY <2>1, <2>6 DEF OrderInv
<1>13. CASE BrokerPing
  <2>1. Frame("ping", 0) \in FramesToClient /\ Frame("ping", 0).kind # "packet"
    BY DEF Frame, FramesToClient
  <2>2. /\ toClient' = Append(toClient, Frame("ping", 0))
        /\ UNCHANGED <<delivered, holding, packets, script, pc, why>>
    BY <1>13 DEF BrokerPing, BrokerSays
  <2> QED BY <2>1, <2>2, OtherFrame
<1>14. CASE BrokerGone
  <2>1. Frame("gone", 0) \in FramesToClient /\ Frame("gone", 0).kind # "packet"
    BY DEF Frame, FramesToClient
  <2>2. /\ toClient' = Append(toClient, Frame("gone", 0))
        /\ UNCHANGED <<delivered, holding, packets, script, pc, why>>
    BY <1>14 DEF BrokerGone, BrokerSays
  <2> QED BY <2>1, <2>2, OtherFrame
<1>15. CASE BrokerHangsUp
  <2>1. OrderFrame
    BY <1>0, <1>15 DEF OrderFrame, BrokerHangsUp, CanWrite
  <2> QED BY <2>1, OrderUnmoved
<1>16. CASE BrokerReads
  <2>1. OrderFrame
    BY <1>0, <1>16 DEF OrderFrame, BrokerReads
  <2> QED BY <2>1, OrderUnmoved
<1>17. ASSUME NEW n \in 1 .. HostCredits, BrokerCredit(n) PROVE OrderInv'
  <2>1. Frame("credit", n) \in FramesToClient /\ Frame("credit", n).kind # "packet"
    BY DEF Frame, FramesToClient
  <2>2. /\ toClient' = Append(toClient, Frame("credit", n))
        /\ UNCHANGED <<delivered, holding, packets, script, pc, why>>
    BY <1>17 DEF BrokerCredit, BrokerSays
  <2> QED BY <2>1, <2>2, OtherFrame
<1>18. ASSUME NEW r \in Requests, BrokerAnswer(r) PROVE OrderInv'
  <2>0. PICK kind \in Answers : toClient' = Append(toClient, Frame(kind, r))
                                /\ (kind = "detached" => r \in Detachers)
    BY <1>18 DEF BrokerAnswer, BrokerSays, Answers
  <2>1. Frame(kind, r) \in FramesToClient /\ Frame(kind, r).kind # "packet"
    BY <2>0 DEF Frame, FramesToClient, Answers
  <2>2. UNCHANGED <<delivered, holding, packets, script, pc, why>>
    BY <1>18 DEF BrokerAnswer, BrokerSays
  <2> QED BY <2>0, <2>1, <2>2, OtherFrame
<1>19. ASSUME NEW r \in Requests, CheckOpen(r) PROVE OrderInv'
  <2>1. OrderFrame
    BY <1>0, <1>19 DEF OrderFrame, CheckOpen, Goto, At
  <2> QED BY <2>1, OrderUnmoved
<1>20. ASSUME NEW r \in Requests, RegisterWaiter(r) PROVE OrderInv'
  <2>1. OrderFrame
    BY <1>0, <1>20 DEF OrderFrame, RegisterWaiter, Registered, Goto, At
  <2> QED BY <2>1, OrderUnmoved
<1>21. ASSUME NEW r \in Requests, WriteRequest(r) PROVE OrderInv'
  <2>1. OrderFrame
    BY <1>0, <1>21 DEF OrderFrame, WriteRequest, CanWrite, Frame, Goto, At
  <2> QED BY <2>1, OrderUnmoved
<1>22. ASSUME NEW r \in Requests, RequestFails(r) PROVE OrderInv'
  <2>1. OrderFrame
    BY <1>0, <1>22 DEF OrderFrame, RequestFails, EnterTerminal, CanWrite, Goto, At
  <2> QED BY <2>1, OrderUnmoved
<1>23. ASSUME NEW r \in Requests, ReceiveReply(r) PROVE OrderInv'
  <2>1. OrderFrame
    BY <1>0, <1>23 DEF OrderFrame, ReceiveReply, Goto, At
  <2> QED BY <2>1, OrderUnmoved
<1>24. ASSUME NEW r \in Requests, Disconnected(r) PROVE OrderInv'
  <2>1. OrderFrame
    BY <1>0, <1>24 DEF OrderFrame, Disconnected, Goto, At
  <2> QED BY <2>1, OrderUnmoved
<1>25. ASSUME NEW r \in Requests, TimesOut(r) PROVE OrderInv'
  <2>1. OrderFrame
    BY <1>0, <1>25 DEF OrderFrame, TimesOut, Goto, At
  <2> QED BY <2>1, OrderUnmoved
<1>26. ASSUME NEW r \in Requests, RemoveWaiter(r) PROVE OrderInv'
  <2>1. OrderFrame
    BY <1>0, <1>26 DEF OrderFrame, RemoveWaiter, EnterTerminal, Goto, At
  <2> QED BY <2>1, OrderUnmoved
<1>27. ASSUME NEW t \in Threads, MarkAbsent(t) PROVE OrderInv'
  <2>1. OrderFrame
    BY <1>0, <1>27 DEF OrderFrame, MarkAbsent, Goto, At
  <2> QED BY <2>1, OrderUnmoved
<1>28. ASSUME NEW t \in Threads, MarkClosed(t) PROVE OrderInv'
  <2>1. OrderFrame
    BY <1>0, <1>28 DEF OrderFrame, MarkClosed, Goto, At
  <2> QED BY <2>1, OrderUnmoved
<1>29. ASSUME NEW t \in Threads, ClearWaiters(t) PROVE OrderInv'
  <2>1. OrderFrame
    BY <1>0, <1>29 DEF OrderFrame, ClearWaiters, AfterTerminal, Goto, At
  <2> QED BY <2>1, OrderUnmoved
<1>30. ASSUME NEW t \in Threads, ShutSocket(t) PROVE OrderInv'
  <2>1. OrderFrame
    BY <1>0, <1>30 DEF OrderFrame, ShutSocket, SocketShut, Goto, At
  <2> QED BY <2>1, OrderUnmoved
<1>31. CASE Abort
  <2>1. OrderFrame
    BY <1>0, <1>31 DEF OrderFrame, Abort, EnterTerminal, Goto, At
  <2> QED BY <2>1, OrderUnmoved
<1>32. CASE DropTransport
  <2>1. OrderFrame
    BY <1>0, <1>32 DEF OrderFrame, DropTransport, LinkFree, EnterTerminal, Goto, At
  <2> QED BY <2>1, OrderUnmoved
<1>33. CASE JoinReader
  <2>1. OrderFrame
    BY <1>0, <1>33 DEF OrderFrame, JoinReader, Goto, At
  <2> QED BY <2>1, OrderUnmoved
<1>34. CASE UNCHANGED vars
  BY <1>34, OrderUnmoved DEF OrderFrame, vars
<1>35. CASE WritePong
  <2>1. OrderFrame
    BY <1>0, <1>35 DEF OrderFrame, WritePong, Handled, EnterTerminal, Goto, At
  <2> QED BY <2>1, OrderUnmoved
<1>36. ASSUME NEW t \in Threads, WriteWaits(t) PROVE OrderInv'
  BY <1>36, OrderUnmoved DEF OrderFrame, WriteWaits
<1> QED
  BY <1>1, <1>2, <1>3, <1>4, <1>5, <1>6, <1>7, <1>8, <1>9, <1>10, <1>11, <1>12,
     <1>13, <1>14, <1>15, <1>16, <1>17, <1>18, <1>19, <1>20, <1>21, <1>22, <1>23,
     <1>24, <1>25, <1>26, <1>27, <1>28, <1>29, <1>30, <1>31, <1>32, <1>33, <1>34,
     <1>35, <1>36
     DEF Next, Reader, Link, Broker, Request, Terminal

-----------------------------------------------------------------------------
(* The theorems about credits and packets.                                 *)

IInv == TypeOK /\ Ending /\ FlowInv /\ OrderInv

LEMMA Inductive == Spec => []IInv
<1>1. Init => IInv
  BY TypeInit, EndingInit, FlowInit, OrderInit DEF IInv
<1>2. IInv /\ [Next]_vars => IInv'
  BY TypeStep, EndingStep, FlowStep, OrderStep DEF IInv
<1> QED BY <1>1, <1>2, PTL DEF Spec

\* For every number of credits and every workload: while the socket is up no
\* credit of try_take_host_credit, add_host_credit and recv is lost or doubled,
\* whatever the interleaving of send, recv, the reader and the broker.
THEOREM CreditsAreConserved == Spec => []CreditsConserved
<1>1. IInv => CreditsConserved
  BY DEF IInv, FlowInv, HostSum, QueueSum, CreditsConserved
<1> QED BY <1>1, Inductive, PTL

\* For every number of credits, read buffers and packets: push_packet and
\* add_host_credit never refuse a broker that keeps to its credits, no more than
\* MAX_IN_FLIGHT_HOST_PACKETS are under way, and recv returns the device's packets
\* in order with none missing.
THEOREM FlowStaysSound == Spec => []FlowIsSound
<1>1. IInv => FlowIsSound
  <2> SUFFICES ASSUME IInv PROVE FlowIsSound
    OBVIOUS
  <2>1. TypeOK /\ FlowInv /\ OrderInv
    BY DEF IInv
  <2>2. \A i \in DOMAIN delivered : delivered[i] = i
    <3>1. DOMAIN delivered = 1 .. Len(delivered)
      BY <2>1 DEF TypeOK
    <3> QED BY <2>1, <3>1 DEF OrderInv
  <2>3. CountOf(toBroker, "packet") + held + InHand("sending") <= MaxInFlight
    <3>1. PICK a \in Nat, b \in Nat, c \in Nat :
            a = CountOf(toBroker, "packet") /\ b = CreditIn(toClient) /\ c = InHand("sending")
      <4>1. InHand("sending") \in Nat
        BY DEF InHand
      <4> QED BY <2>1, <4>1, InSocket
    <3>2. hostCredits \in Nat /\ held \in Nat /\ MaxInFlight \in Nat /\ HostCredits \in Nat
      BY <2>1, InFlightType, Constants DEF TypeOK
    <3>3. /\ hostCredits + c + a + held + b <= HostCredits
          /\ HostCredits - hostCredits <= MaxInFlight
      BY <2>1, <3>1 DEF FlowInv, HostSum
    <3>4. a + held + c <= MaxInFlight
      BY <3>1, <3>2, <3>3
    <3> QED BY <3>1, <3>4
  <2> QED BY <2>1, <2>2, <2>3 DEF FlowInv, FlowIsSound
<1> QED BY <1>1, Inductive, PTL

=============================================================================
