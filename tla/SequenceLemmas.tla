---- MODULE SequenceLemmas ----
(***************************************************************************)
(* Facts about the sequence operators the chat is built from: Cons,        *)
(* RemoveAt and SubSeq, and that sequences without duplicates stay so.     *)
(* Then induction over the turns of a loop, for the loops the model writes *)
(* as recursive functions.                                                 *)
(***************************************************************************)
EXTENDS Integers, SequencesExt, SequenceTheorems, WellFoundedInduction, TLAPS

\* A function from 1..n is a sequence.
LEMMA FunIsSeq ==
    ASSUME NEW T, NEW n \in Nat, NEW f \in [1..n -> T]
    PROVE  f \in Seq(T) /\ Len(f) = n /\ DOMAIN f = 1..n
<1>1. f \in Seq(T)
  BY SeqDef
<1>2. DOMAIN f = 1..n
  OBVIOUS
<1> QED
  BY <1>1, <1>2, LenProperties

\* What Cons puts where.
LEMMA ConsSeq ==
    ASSUME NEW T, NEW e \in T, NEW s \in Seq(T)
    PROVE  /\ Cons(e, s) \in Seq(T)
           /\ Len(Cons(e, s)) = Len(s) + 1
           /\ Cons(e, s)[1] = e
           /\ \A i \in 1..Len(s) : Cons(e, s)[i + 1] = s[i]
<1>1. <<e>> \in Seq(T) /\ Len(<<e>>) = 1 /\ <<e>>[1] = e
  OBVIOUS
<1>2. /\ <<e>> \o s \in Seq(T)
      /\ Len(<<e>> \o s) = 1 + Len(s)
      /\ \A i \in 1..(1 + Len(s)) :
            (<<e>> \o s)[i] = IF i <= 1 THEN <<e>>[i] ELSE s[i - 1]
  BY <1>1, ConcatProperties
<1>3. Len(s) \in Nat
  BY LenProperties
<1> QED
  BY <1>1, <1>2, <1>3 DEF Cons

\* What RemoveAt leaves where.
LEMMA RemoveAtSeq ==
    ASSUME NEW T, NEW s \in Seq(T), NEW i \in DOMAIN s
    PROVE  /\ RemoveAt(s, i) \in Seq(T)
           /\ Len(RemoveAt(s, i)) = Len(s) - 1
           /\ \A j \in 1..(Len(s) - 1) :
                RemoveAt(s, i)[j] = IF j < i THEN s[j] ELSE s[j + 1]
<1> DEFINE a == SubSeq(s, 1, i - 1)
           b == SubSeq(s, i + 1, Len(s))
<1>1. Len(s) \in Nat /\ DOMAIN s = 1..Len(s) /\ i \in 1..Len(s)
  BY LenProperties
<1>2. \A j \in 1..Len(s) : s[j] \in T
  BY ElementOfSeq
<1>3. /\ a \in Seq(T) /\ Len(a) = i - 1
      /\ \A j \in 1..(i - 1) : a[j] = s[j]
  <2>1. i - 1 \in Int /\ \A j \in 1..(i - 1) : s[j] \in T
    BY <1>1, <1>2
  <2>2. /\ a \in Seq(T) /\ Len(a) = IF 1 <= i - 1 THEN i - 1 - 1 + 1 ELSE 0
        /\ \A j \in 1..(i - 1 - 1 + 1) : a[j] = s[1 + j - 1]
    BY <2>1, SubSeqProperties
  <2> HIDE DEF a
  <2>3. i - 1 - 1 + 1 = i - 1 /\ \A j \in 1..(i - 1) : 1 + j - 1 = j
    BY <1>1
  <2>4. Len(a) = i - 1
    BY <2>2, <1>1
  <2> QED
    BY <2>2, <2>3, <2>4
<1>4. /\ b \in Seq(T) /\ Len(b) = Len(s) - i
      /\ \A j \in 1..(Len(s) - i) : b[j] = s[i + j]
  <2>1. i + 1 \in Int /\ Len(s) \in Int /\ \A j \in (i + 1)..Len(s) : s[j] \in T
    BY <1>1, <1>2
  <2>2. /\ b \in Seq(T) /\ Len(b) = IF i + 1 <= Len(s) THEN Len(s) - (i + 1) + 1 ELSE 0
        /\ \A j \in 1..(Len(s) - (i + 1) + 1) : b[j] = s[(i + 1) + j - 1]
    BY <2>1, SubSeqProperties
  <2> HIDE DEF b
  <2>3. /\ Len(s) - (i + 1) + 1 = Len(s) - i
        /\ \A j \in 1..(Len(s) - i) : (i + 1) + j - 1 = i + j
    BY <1>1
  <2>4. Len(b) = Len(s) - i
    BY <2>2, <1>1
  <2> QED
    BY <2>2, <2>3, <2>4
<1>5. /\ a \o b \in Seq(T)
      /\ Len(a \o b) = Len(a) + Len(b)
      /\ \A j \in 1..(Len(a) + Len(b)) :
            (a \o b)[j] = IF j <= Len(a) THEN a[j] ELSE b[j - Len(a)]
  BY <1>3, <1>4, ConcatProperties
<1> HIDE DEF a, b
<1>6. RemoveAt(s, i) = a \o b
  BY DEF RemoveAt, a, b
<1>7. Len(a) + Len(b) = Len(s) - 1
  BY <1>1, <1>3, <1>4
<1>8. \A j \in 1..(Len(s) - 1) : (a \o b)[j] = IF j < i THEN s[j] ELSE s[j + 1]
  <2> TAKE j \in 1..(Len(s) - 1)
  <2>1. CASE j < i
    BY <2>1, <1>1, <1>3, <1>5, <1>7
  <2>2. CASE ~(j < i)
    <3>1. j - Len(a) = j - (i - 1) /\ j - (i - 1) \in 1..(Len(s) - i) /\ i + (j - (i - 1)) = j + 1
      BY <2>2, <1>1, <1>3
    <3>2. (a \o b)[j] = b[j - (i - 1)]
      <4>1. j \in 1..(Len(a) + Len(b)) /\ ~(j <= Len(a))
        BY <2>2, <1>1, <1>3, <1>7
      <4>2. (a \o b)[j] = b[j - Len(a)]
        BY <4>1, <1>5
      <4> QED
        BY <4>2, <3>1
    <3> QED
      BY <2>2, <3>1, <3>2, <1>4
  <2> QED
    BY <2>1, <2>2
<1> QED
  BY <1>5, <1>6, <1>7, <1>8

\* Moving an element to the front keeps a sequence injective
LEMMA MoveToFront ==
    ASSUME NEW T, NEW s \in Seq(T), IsInjective(s), NEW i \in DOMAIN s
    PROVE  Cons(s[i], RemoveAt(s, i)) \in Seq(T)
           /\ IsInjective(Cons(s[i], RemoveAt(s, i)))
<1> DEFINE r == RemoveAt(s, i)
           t == Cons(s[i], r)
<1>1. Len(s) \in Nat /\ DOMAIN s = 1..Len(s) /\ s[i] \in T
  BY LenProperties, ElementOfSeq
<1>2. /\ r \in Seq(T) /\ Len(r) = Len(s) - 1
      /\ \A j \in 1..(Len(s) - 1) : r[j] = IF j < i THEN s[j] ELSE s[j + 1]
  BY RemoveAtSeq
<1>3. /\ t \in Seq(T) /\ Len(t) = Len(s) /\ t[1] = s[i]
      /\ \A j \in 1..(Len(s) - 1) : t[j + 1] = r[j]
  BY <1>1, <1>2, ConsSeq
<1>4. DOMAIN t = 1..Len(s)
  BY <1>3, LenProperties
<1>5. \A j \in 2..Len(s) : t[j] = IF j <= i THEN s[j - 1] ELSE s[j]
  <2> TAKE j \in 2..Len(s)
  <2>1. j - 1 \in 1..(Len(s) - 1) /\ (j - 1) + 1 = j
    BY <1>1
  <2>2. t[j] = r[j - 1]
    BY <2>1, <1>3
  <2> QED
    BY <2>1, <2>2, <1>1, <1>2
<1>6. t[1] = s[i]
  BY <1>3
<1> HIDE DEF t, r
<1>7. IsInjective(t)
  BY <1>1, <1>4, <1>5, <1>6 DEF IsInjective
<1> QED
  BY <1>3, <1>7 DEF t, r

\* Consing an element that is not there yet keeps a sequence injective.
LEMMA ConsNew ==
    ASSUME NEW T, NEW e \in T, NEW s \in Seq(T), IsInjective(s), e \notin ToSet(s)
    PROVE  Cons(e, s) \in Seq(T) /\ IsInjective(Cons(e, s))
           /\ ToSet(Cons(e, s)) = {e} \cup ToSet(s)
<1> DEFINE t == Cons(e, s)
<1>1. Len(s) \in Nat /\ DOMAIN s = 1..Len(s)
  BY LenProperties
<1>2. /\ t \in Seq(T) /\ Len(t) = Len(s) + 1 /\ t[1] = e
      /\ \A i \in 1..Len(s) : t[i + 1] = s[i]
  BY ConsSeq
<1>3. DOMAIN t = 1..(Len(s) + 1)
  BY <1>2, LenProperties
<1>4. \A j \in 2..(Len(s) + 1) : j - 1 \in DOMAIN s /\ t[j] = s[j - 1]
  <2> TAKE j \in 2..(Len(s) + 1)
  <2>1. j - 1 \in 1..Len(s) /\ (j - 1) + 1 = j
    BY <1>1
  <2> QED
    BY <2>1, <1>1, <1>2
<1>5. \A j \in DOMAIN s : s[j] # e
  BY DEF ToSet
<1>8. \A i \in DOMAIN s : i + 1 \in 2..(Len(s) + 1) /\ t[i + 1] = s[i]
  BY <1>1, <1>2
<1>9. t[1] = e
  BY <1>2
<1> HIDE DEF t
<1>6. IsInjective(t)
  BY <1>1, <1>3, <1>4, <1>5, <1>9 DEF IsInjective
<1>7. ToSet(t) = {e} \cup ToSet(s)
  <2>1. ASSUME NEW x \in ToSet(t) PROVE x \in {e} \cup ToSet(s)
    BY <1>1, <1>3, <1>4, <1>9 DEF ToSet
  <2>2. ASSUME NEW x \in {e} \cup ToSet(s) PROVE x \in ToSet(t)
    <3>1. CASE x = e
      BY <3>1, <1>1, <1>3, <1>9 DEF ToSet
    <3>2. CASE x # e
      <4>1. PICK i \in DOMAIN s : x = s[i]
        BY <3>2, <2>2 DEF ToSet
      <4>2. i + 1 \in DOMAIN t /\ t[i + 1] = x
        BY <4>1, <1>8, <1>3, <1>1
      <4> QED
        BY <4>2 DEF ToSet
    <3> QED
      BY <3>1, <3>2
  <2> QED
    BY <2>1, <2>2
<1> QED
  BY <1>2, <1>6, <1>7 DEF t

\* The front of an injective sequence is one, and keeps the first element.
LEMMA FrontSeq ==
    ASSUME NEW T, NEW s \in Seq(T), IsInjective(s), NEW n \in 1..Len(s)
    PROVE  /\ SubSeq(s, 1, n) \in Seq(T)
           /\ IsInjective(SubSeq(s, 1, n))
           /\ ToSet(SubSeq(s, 1, n)) \subseteq ToSet(s)
           /\ s[1] \in ToSet(SubSeq(s, 1, n))
<1> DEFINE t == SubSeq(s, 1, n)
<1>1. Len(s) \in Nat /\ DOMAIN s = 1..Len(s)
  BY LenProperties
<1>2. \A j \in 1..n : s[j] \in T
  BY <1>1, ElementOfSeq
<1>3. /\ t \in Seq(T) /\ Len(t) = IF 1 <= n THEN n - 1 + 1 ELSE 0
      /\ \A j \in 1..(n - 1 + 1) : t[j] = s[1 + j - 1]
  BY <1>2, <1>1, SubSeqProperties
<1>4. Len(t) = n /\ DOMAIN t = 1..n
  BY <1>3, <1>1, LenProperties
<1>5. \A j \in 1..n : t[j] = s[j] /\ j \in DOMAIN s
  BY <1>3, <1>1
<1> HIDE DEF t
<1>6. IsInjective(t)
  BY <1>4, <1>5 DEF IsInjective
<1>7. ToSet(t) \subseteq ToSet(s)
  BY <1>4, <1>5 DEF ToSet
<1>8. s[1] \in ToSet(t)
  BY <1>1, <1>4, <1>5 DEF ToSet
<1> QED
  BY <1>3, <1>6, <1>7, <1>8 DEF t

-----------------------------------------------------------------------------
(* Loops *)

\* A set of numbers that is not empty has a least one.
LEMMA LeastElement ==
    ASSUME NEW T \in SUBSET Nat, T # {}
    PROVE  \E m \in T : \A k \in T : m <= k
<1>1. IsWellFoundedOn(OpToRel(<, Nat), Nat)
  BY NatLessThanWellFounded
<1>2. PICK m \in T : \A k \in T : ~(<<k, m>> \in OpToRel(<, Nat))
  BY <1>1, WFMin
<1>3. ASSUME NEW k \in T
      PROVE  m <= k
  <2>1. ~(k < m)
    BY <1>2 DEF OpToRel
  <2> QED
    BY <2>1
<1> QED
  BY <1>3

\* Induction over 0..n, for a property given as a set of numbers.
LEMMA Induction ==
    ASSUME NEW n \in Nat, NEW T, 0 \in T, \A i \in 1..n : i - 1 \in T => i \in T
    PROVE  0..n \subseteq T
<1>1. SUFFICES ASSUME ~(0..n \subseteq T)
               PROVE  FALSE
  OBVIOUS
<1> DEFINE U == (0..n) \ T
<1>2. PICK m \in U : \A k \in U : m <= k
  <2>1. U \in SUBSET Nat /\ U # {}
    BY <1>1
  <2> HIDE DEF U
  <2> QED
    BY <2>1, LeastElement
<1>3. m \in 1..n /\ m - 1 \in 0..n /\ m - 1 \notin U
  BY <1>2
<1> QED
  BY <1>2, <1>3

\* A loop of n turns over states in S: turn[<<x, i>>] is what turn i makes of x.
LoopTurns(S, n) == [S \X (1..n) -> S]
LoopRun(f, S, n, init, turn) ==
    /\ f \in [0..n -> S] /\ f[0] = init
    /\ \A i \in 1..n : f[i] = turn[<<f[i - 1], i>>]

\* Every loop has a run: a recursive function over 0..n has a value.
LEMMA LoopRuns ==
    ASSUME NEW S, NEW n \in Nat, NEW init \in S, NEW step \in LoopTurns(S, n)
    PROVE  \E f : LoopRun(f, S, n, init, step)
<1> DEFINE Run(m, f) == f[0] = init /\ \A i \in 1..m : f[i] = step[<<f[i - 1], i>>]
<1> DEFINE T == {m \in 0..n : \E f \in [0..m -> S] : Run(m, f)}
<1>1. 0 \in T
  <2> DEFINE g == [i \in 0..0 |-> init]
  <2>1. g \in [0..0 -> S] /\ Run(0, g)
    OBVIOUS
  <2>2. 0 \in 0..n
    OBVIOUS
  <2> HIDE DEF g, Run
  <2> QED
    BY <2>1, <2>2
<1>2. ASSUME NEW m \in 1..n, m - 1 \in T
      PROVE  m \in T
  <2>1. PICK f \in [0..(m - 1) -> S] : Run(m - 1, f)
    BY <1>2
  <2> DEFINE g == [i \in 0..m |-> IF i = m THEN step[<<f[m - 1], m>>] ELSE f[i]]
  <2>2. \A i \in 0..m : g[i] \in S
    BY <1>2 DEF LoopTurns
  <2>3. g \in [0..m -> S]
    BY <2>2
  <2>4. Run(m, g)
    <3>1. g[0] = init
      BY <2>1
    <3>2. ASSUME NEW i \in 1..m
          PROVE  g[i] = step[<<g[i - 1], i>>]
      <4>1. g[i - 1] = f[i - 1]
        OBVIOUS
      <4>2. CASE i = m
        <5>1. g[i] = step[<<f[m - 1], m>>] /\ f[m - 1] = g[i - 1]
          BY <4>1, <4>2
        <5> QED
          BY <4>2, <5>1, Zenon
      <4>3. CASE i # m
        <5>1. i \in 1..(m - 1)
          BY <4>3
        <5> QED
          BY <4>1, <5>1, <2>1
      <4> QED
        BY <4>2, <4>3
    <3> QED
      BY <3>1, <3>2
  <2> HIDE DEF g
  <2> QED
    BY <2>3, <2>4
<1>3. n \in T
  <2> HIDE DEF T
  <2>1. 0..n \subseteq T
    BY <1>1, <1>2, Induction
  <2> QED
    BY <2>1
<1> QED
  BY <1>3 DEF LoopRun

\* Whatever obeys the equations of a loop is a run of it.
LEMMA LoopTyped ==
    ASSUME NEW S, NEW n \in Nat, NEW init \in S, NEW turn \in LoopTurns(S, n), NEW f,
           DOMAIN f = 0..n, f = [i \in DOMAIN f |-> f[i]], f[0] = init,
           \A i \in 1..n : f[i - 1] \in S => f[i] = turn[<<f[i - 1], i>>]
    PROVE  LoopRun(f, S, n, init, turn)
<1> DEFINE T == {i \in 0..n : f[i] \in S}
<1>1. 0 \in T
  OBVIOUS
<1>2. ASSUME NEW i \in 1..n, i - 1 \in T
      PROVE  i \in T
  <2>1. f[i] = turn[<<f[i - 1], i>>] /\ <<f[i - 1], i>> \in S \X (1..n)
    BY <1>2
  <2>2. turn[<<f[i - 1], i>>] \in S
    BY <2>1 DEF LoopTurns
  <2> QED
    BY <2>1, <2>2
<1>3. 0..n \subseteq T
  <2> HIDE DEF T
  <2> QED
    BY <1>1, <1>2, Induction
<1>4. f \in [0..n -> S]
  BY <1>3
<1> QED
  BY <1>4 DEF LoopRun
=============================================================================
