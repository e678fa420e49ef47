---------------------------- MODULE FiniteSetLemmas ----------------------------
(***************************************************************************)
(* Facts about finite sets and numbers that the proofs share, and about    *)
(* what recursive functions, folds and closures compute.  What needs an    *)
(* induction is proved by a minimal counterexample: the order of finite    *)
(* sets by inclusion is well founded.                                      *)
(***************************************************************************)
EXTENDS FiniteSetsExt, Functions, Sequences, FiniteSetTheorems, FunctionTheorems, SequenceTheorems,
  WellFoundedInduction, TLAPS

\* A non-empty set of finite sets has a minimal member.
LEMMA MinimalFiniteSet ==
  ASSUME NEW S, NEW Q, Q \subseteq FiniteSubsetsOf(S), Q # {}
  PROVE  \E T \in Q : \A U \in Q : ~(U \subseteq T /\ U # T)
<1>1. \E T \in Q : \A U \in Q : ~(<<U, T>> \in StrictSubsetOrdering(S))
  BY FS_StrictSubsetOrderingWellFounded, WFMin
<1> QED BY <1>1 DEF StrictSubsetOrdering, FiniteSubsetsOf

\* What Max of the library returns for the sets that queue_head's sequence numbers,
\* the newest run and the newest checkpoint are taken from.
LEMMA MaxIsGreatest ==
  ASSUME NEW S, IsFiniteSet(S), S # {}, S \subseteq Int
  PROVE  Max(S) \in S /\ \A y \in S : Max(S) >= y
<1> DEFINE Q == {T \in FiniteSubsetsOf(S) : T # {} /\ ~\E x \in T : \A y \in T : x >= y}
<1>1. Q = {}
  <2> SUFFICES ASSUME Q # {} PROVE FALSE
    OBVIOUS
  <2>0. Q \subseteq FiniteSubsetsOf(S)
    OBVIOUS
  <2>1. PICK T \in Q : \A U \in Q : ~(U \subseteq T /\ U # T)
    <3> HIDE DEF Q
    <3> QED BY MinimalFiniteSet, <2>0
  <2>2. PICK x \in T : TRUE
    BY <2>1
  <2>3. T \ {x} \in FiniteSubsetsOf(S)
    BY FS_RemoveElement, <2>1 DEF FiniteSubsetsOf
  <2>4. T \ {x} \notin Q
    BY <2>1, <2>2
  <2>5. T \subseteq Int
    BY <2>1 DEF FiniteSubsetsOf
  <2>6. CASE T \ {x} = {}
    BY <2>6, <2>1, <2>2, <2>5
  <2>7. CASE T \ {x} # {}
    <3>1. PICK z \in T \ {x} : \A y \in T \ {x} : z >= y
      BY <2>3, <2>4, <2>7
    <3> QED BY <3>1, <2>1, <2>2, <2>5
  <2> QED BY <2>6, <2>7
<1>2. \E x \in S : \A y \in S : x >= y
  BY <1>1 DEF FiniteSubsetsOf
<1> QED BY <1>2 DEF Max

\* A non-empty set of naturals has a least member.
LEMMA LeastNatural ==
  ASSUME NEW Q, Q \subseteq Nat, Q # {}
  PROVE  \E n \in Q : \A m \in Q : n <= m
<1>1. PICK q \in Q : TRUE
  OBVIOUS
<1> DEFINE S == {d \in 0..q : q - d \in Q}
<1>2. q \in Nat /\ IsFiniteSet(0..q)
  BY FS_Interval
<1>3. IsFiniteSet(S) /\ S \subseteq Int /\ S # {}
  <2>1. 0 \in S
    BY <1>1, <1>2
  <2>2. S \subseteq 0..q
    OBVIOUS
  <2> HIDE DEF S
  <2>3. IsFiniteSet(S)
    BY <1>2, <2>2, FS_Subset
  <2> QED BY <1>2, <2>1, <2>2, <2>3
<1>4. Max(S) \in S /\ \A d \in S : Max(S) >= d
  <2> HIDE DEF S
  <2> QED BY <1>3, MaxIsGreatest
<1>5. PICK d \in 0..q : q - d \in Q /\ \A e \in S : d >= e
  BY <1>4
<1>6. ASSUME NEW m \in Q PROVE q - d <= m
  <2>1. CASE m > q
    BY <1>2, <2>1
  <2>2. CASE m <= q
    <3>1. q - m \in S
      BY <1>2, <2>2
    <3> QED BY <1>2, <1>5, <3>1
  <2> QED BY <1>2, <2>1, <2>2
<1> QED BY <1>5, <1>6

\* A function on 1..n is a sequence of length n.
LEMMA SequenceOfLength ==
  ASSUME NEW S, NEW n \in Nat, NEW f \in [1..n -> S]
  PROVE  f \in Seq(S) /\ Len(f) = n
OBVIOUS

LEMMA AppendFront ==
  ASSUME NEW S, NEW s \in Seq(S), NEW x \in S
  PROVE  /\ Append(s, x) \in Seq(S) /\ Len(Append(s, x)) = Len(s) + 1
         /\ SubSeq(Append(s, x), 1, Len(Append(s, x)) - 1) = s
         /\ Append(s, x) \in [1..(Len(s) + 1) -> S]
<1> DEFINE t == Append(s, x)
<1>1. t \in Seq(S) /\ Len(t) = Len(s) + 1 /\ \A i \in 1..Len(s) : t[i] = s[i]
  BY AppendProperties
<1>2. t \in [1..(Len(s) + 1) -> S] /\ Len(s) \in Nat
  BY <1>1, LenProperties
<1> HIDE DEF t
<1>3. Len(t) - 1 = Len(s)
  BY <1>1, <1>2
<1>4. SubSeq(t, 1, Len(s)) = s
  BY <1>1, <1>2
<1> QED BY <1>1, <1>2, <1>3, <1>4 DEF t

\* The first n members of a sequence.
LEMMA FirstMembers ==
  ASSUME NEW S, NEW s \in Seq(S), NEW n \in 0..Len(s)
  PROVE  /\ SubSeq(s, 1, n) \in Seq(S) /\ Len(SubSeq(s, 1, n)) = n
         /\ \A i \in 1..n : SubSeq(s, 1, n)[i] = s[i]
OBVIOUS

\* What Min of the library returns: the next file of an export, in the plan's order.
LEMMA MinIsLeast ==
  ASSUME NEW S, IsFiniteSet(S), S # {}, S \subseteq Int
  PROVE  Min(S) \in S /\ \A y \in S : Min(S) <= y
<1> DEFINE Q == {T \in FiniteSubsetsOf(S) : T # {} /\ ~\E x \in T : \A y \in T : x <= y}
<1>1. Q = {}
  <2> SUFFICES ASSUME Q # {} PROVE FALSE
    OBVIOUS
  <2>0. Q \subseteq FiniteSubsetsOf(S)
    OBVIOUS
  <2>1. PICK T \in Q : \A U \in Q : ~(U \subseteq T /\ U # T)
    <3> HIDE DEF Q
    <3> QED BY MinimalFiniteSet, <2>0
  <2>2. PICK x \in T : TRUE
    BY <2>1
  <2>3. T \ {x} \in FiniteSubsetsOf(S)
    BY FS_RemoveElement, <2>1 DEF FiniteSubsetsOf
  <2>4. T \ {x} \notin Q
    BY <2>1, <2>2
  <2>5. T \subseteq Int
    BY <2>1 DEF FiniteSubsetsOf
  <2>6. CASE T \ {x} = {}
    BY <2>6, <2>1, <2>2, <2>5
  <2>7. CASE T \ {x} # {}
    <3>1. PICK z \in T \ {x} : \A y \in T \ {x} : z <= y
      BY <2>3, <2>4, <2>7
    <3> QED BY <3>1, <2>1, <2>2, <2>5
  <2> QED BY <2>6, <2>7
<1>2. \E x \in S : \A y \in S : x <= y
  BY <1>1 DEF FiniteSubsetsOf
<1> QED BY <1>2 DEF Min

(***************************************************************************)
(* Sums of a function over a finite set.  SumFunctionOnSet of the library  *)
(* is a recursive function on the subsets of its set: that it exists, and  *)
(* that the one for a smaller set is a restriction of it, is proved first. *)
(***************************************************************************)

Chosen(s) == CHOOSE x \in s : TRUE

\* g gives the sums of w over the subsets of S.
Sums(g, w, S) ==
  g = [s \in SUBSET S |-> IF s = {} THEN 0 ELSE w[Chosen(s)] + g[s \ {Chosen(s)}]]

LEMMA SumIsChosen ==
  ASSUME NEW w, NEW S
  PROVE  SumFunctionOnSet(w, S) = (CHOOSE g : Sums(g, w, S))[S]
BY DEF SumFunctionOnSet, FoldFunctionOnSet, MapThenFoldSet, Sums, Chosen

LEMMA AnyMember ==
  ASSUME NEW s, s # {}
  PROVE  Chosen(s) \in s
BY DEF Chosen

\* The sums over the subsets of two sets agree on what they share.
LEMMA SumsAgree ==
  ASSUME NEW w, NEW S, NEW T, NEW g, NEW h, Sums(g, w, S), Sums(h, w, T),
         NEW U, U \subseteq S, U \subseteq T, IsFiniteSet(U)
  PROVE  g[U] = h[U]
<1> DEFINE Q == {s \in FiniteSubsetsOf(U) : g[s] # h[s]}
<1>1. Q = {}
  <2> SUFFICES ASSUME Q # {} PROVE FALSE
    OBVIOUS
  <2>0. Q \subseteq FiniteSubsetsOf(U)
    OBVIOUS
  <2>1. PICK s \in Q : \A t \in Q : ~(t \subseteq s /\ t # s)
    <3> HIDE DEF Q
    <3> QED BY MinimalFiniteSet, <2>0
  <2>2. s \subseteq S /\ s \subseteq T /\ s \subseteq U /\ IsFiniteSet(s)
    BY <2>1 DEF FiniteSubsetsOf
  <2>3. s # {}
    <3>1. g[{}] = 0 /\ h[{}] = 0
      BY DEF Sums
    <3> QED BY <2>1, <3>1
  <2>4. PICK x : x = Chosen(s)
    OBVIOUS
  <2>5. x \in s
    BY <2>3, <2>4, AnyMember
  <2>6. g[s] = w[x] + g[s \ {x}] /\ h[s] = w[x] + h[s \ {x}]
    BY <2>2, <2>3, <2>4 DEF Sums
  <2>7. s \ {x} \in FiniteSubsetsOf(U)
    BY <2>2, FS_RemoveElement DEF FiniteSubsetsOf
  <2>8. g[s \ {x}] = h[s \ {x}]
    BY <2>1, <2>5, <2>7
  <2> QED BY <2>1, <2>6, <2>8
<1>2. U \in FiniteSubsetsOf(U)
  BY DEF FiniteSubsetsOf
<1> QED BY <1>1, <1>2

\* The sums over the subsets of a finite set exist: a minimal finite set without them
\* would get them from the sums of its proper subsets.
LEMMA SumsExist ==
  ASSUME NEW w, NEW S, IsFiniteSet(S)
  PROVE  \E g : Sums(g, w, S)
<1> DEFINE Q == {T \in FiniteSubsetsOf(S) : ~\E g : Sums(g, w, T)}
<1>1. Q = {}
  <2> SUFFICES ASSUME Q # {} PROVE FALSE
    OBVIOUS
  <2>0. Q \subseteq FiniteSubsetsOf(S)
    OBVIOUS
  <2>1. PICK T \in Q : \A t \in Q : ~(t \subseteq T /\ t # T)
    <3> HIDE DEF Q
    <3> QED BY MinimalFiniteSet, <2>0
  <2>2. T \subseteq S /\ IsFiniteSet(T) /\ ~\E g : Sums(g, w, T)
    BY <2>1 DEF FiniteSubsetsOf
  <2> DEFINE of(t) == CHOOSE g : Sums(g, w, t)
             Good(t) == t \in SUBSET T /\ t # T
  <2>3. ASSUME NEW t, Good(t) PROVE Sums(of(t), w, t) /\ IsFiniteSet(t)
    <3>1. IsFiniteSet(t)
      BY <2>2, <2>3, FS_Subset
    <3>2. t \in FiniteSubsetsOf(S)
      BY <2>2, <2>3, <3>1 DEF FiniteSubsetsOf
    <3>3. t \notin Q
      BY <2>1, <2>3
    <3>4. \E g : Sums(g, w, t)
      BY <3>2, <3>3
    <3>5. Sums(CHOOSE g : Sums(g, w, t), w, t)
      <4> DEFINE P(g) == Sums(g, w, t)
      <4>1. \E g : P(g)
        BY <3>4
      <4> HIDE DEF P
      <4>2. P(CHOOSE g : P(g))
        BY <4>1
      <4> QED BY <4>2 DEF P
    <3> QED BY <3>1, <3>5
  <2> DEFINE val(s) == IF s = {} THEN 0 ELSE w[Chosen(s)] + of(s \ {Chosen(s)})[s \ {Chosen(s)}]
             f == [s \in SUBSET T |-> val(s)]
  <2>4. ASSUME NEW s \in SUBSET T
        PROVE  f[s] = IF s = {} THEN 0 ELSE w[Chosen(s)] + f[s \ {Chosen(s)}]
    <3>1. CASE s = {}
      BY <3>1
    <3>2. CASE s # {}
      <4>1. PICK x : x = Chosen(s)
        OBVIOUS
      <4>2. x \in s
        BY <3>2, <4>1, AnyMember
      <4>3. PICK r : r = s \ {x}
        OBVIOUS
      <4>4. Good(r) /\ r \in SUBSET T
        BY <4>2, <4>3
      <4>5. Sums(of(r), w, r) /\ IsFiniteSet(r)
        BY <2>3, <4>4
      <4>6. f[r] = of(r)[r]
        <5>1. CASE r = {}
          <6>1. of(r)[r] = 0
            <7> HIDE DEF of
            <7> QED BY <4>5, <5>1 DEF Sums
          <6> QED BY <4>4, <5>1, <6>1
        <5>2. CASE r # {}
          <6>1. PICK y : y = Chosen(r)
            OBVIOUS
          <6>2. y \in r
            BY <5>2, <6>1, AnyMember
          <6>3. PICK q : q = r \ {y}
            OBVIOUS
          <6>4. Good(q) /\ q \subseteq r
            BY <4>4, <6>2, <6>3
          <6>5. Sums(of(q), w, q) /\ IsFiniteSet(q)
            BY <2>3, <6>4
          <6>6. of(r)[q] = of(q)[q]
            <7> HIDE DEF of, Good
            <7> QED BY <4>5, <6>4, <6>5, SumsAgree
          <6>7. of(r)[r] = w[y] + of(r)[q]
            <7> HIDE DEF of, Good
            <7> QED BY <4>5, <5>2, <6>1, <6>3 DEF Sums
          <6>8. f[r] = w[y] + of(q)[q]
            <7> HIDE DEF of, Good
            <7> QED BY <4>4, <5>2, <6>1, <6>3
          <6> QED
            <7> HIDE DEF of, Good, f
            <7> QED BY <6>6, <6>7, <6>8
        <5> QED BY <5>1, <5>2
      <4>7. f[s] = w[x] + of(r)[r]
        <5> HIDE DEF of, Good
        <5> QED BY <3>2, <4>1, <4>3
      <4> QED
        <5> HIDE DEF of, Good, f
        <5> QED BY <3>2, <4>1, <4>3, <4>6, <4>7
    <3> QED
      <4> HIDE DEF f
      <4> QED BY <3>1, <3>2
  <2>5. f = [s \in SUBSET T |-> f[s]]
    OBVIOUS
  <2> HIDE DEF f
  <2>6. Sums(f, w, T)
    BY <2>4, <2>5 DEF Sums
  <2> QED BY <2>2, <2>6
<1>2. S \in FiniteSubsetsOf(S)
  BY DEF FiniteSubsetsOf
<1> QED BY <1>1, <1>2

\* The recursion that SumFunctionOnSet follows.
LEMMA SumUnfolds ==
  ASSUME NEW w, NEW S, IsFiniteSet(S)
  PROVE  SumFunctionOnSet(w, S) =
           IF S = {} THEN 0 ELSE w[Chosen(S)] + SumFunctionOnSet(w, S \ {Chosen(S)})
<1> DEFINE of(t) == CHOOSE g : Sums(g, w, t)
<1>1. ASSUME NEW t, IsFiniteSet(t) PROVE Sums(of(t), w, t)
  <2> DEFINE P(g) == Sums(g, w, t)
  <2>1. \E g : P(g)
    BY <1>1, SumsExist
  <2> HIDE DEF P
  <2>2. P(CHOOSE g : P(g))
    BY <2>1
  <2> QED BY <2>2 DEF P
<1>2. \A t : SumFunctionOnSet(w, t) = of(t)[t]
  BY SumIsChosen
<1>3. Sums(of(S), w, S)
  BY <1>1
<1> HIDE DEF of
<1>4. CASE S = {}
  BY <1>2, <1>3, <1>4 DEF Sums
<1>5. CASE S # {}
  <2>1. PICK x : x = Chosen(S)
    OBVIOUS
  <2>2. PICK r : r = S \ {x}
    OBVIOUS
  <2>3. IsFiniteSet(r) /\ r \subseteq S
    BY <2>2, FS_RemoveElement
  <2>4. of(S)[S] = w[x] + of(S)[r]
    BY <1>3, <1>5, <2>1, <2>2 DEF Sums
  <2>5. of(S)[r] = of(r)[r]
    BY <1>1, <1>3, <2>3, SumsAgree
  <2> QED BY <1>2, <1>5, <2>1, <2>2, <2>4, <2>5
<1> QED BY <1>4, <1>5

LEMMA SumOfNone ==
  ASSUME NEW w
  PROVE  SumFunctionOnSet(w, {}) = 0
BY SumUnfolds, FS_EmptySet

\* A sum of naturals is a natural.
LEMMA SumType ==
  ASSUME NEW w, NEW S, IsFiniteSet(S), \A x \in S : w[x] \in Nat
  PROVE  SumFunctionOnSet(w, S) \in Nat
<1> DEFINE Q == {T \in FiniteSubsetsOf(S) : SumFunctionOnSet(w, T) \notin Nat}
<1>1. Q = {}
  <2> SUFFICES ASSUME Q # {} PROVE FALSE
    OBVIOUS
  <2>0. Q \subseteq FiniteSubsetsOf(S)
    OBVIOUS
  <2>1. PICK T \in Q : \A t \in Q : ~(t \subseteq T /\ t # T)
    <3> HIDE DEF Q
    <3> QED BY MinimalFiniteSet, <2>0
  <2>2. T \subseteq S /\ IsFiniteSet(T)
    BY <2>1 DEF FiniteSubsetsOf
  <2>3. T # {}
    <3>1. SumFunctionOnSet(w, {}) = 0
      BY SumOfNone
    <3>2. SumFunctionOnSet(w, T) # 0
      BY <2>1
    <3> QED BY <3>1, <3>2
  <2>4. PICK x : x = Chosen(T)
    OBVIOUS
  <2>5. x \in T /\ w[x] \in Nat
    BY <2>2, <2>3, <2>4, AnyMember
  <2>6. T \ {x} \in FiniteSubsetsOf(S)
    BY <2>2, FS_RemoveElement DEF FiniteSubsetsOf
  <2>7. SumFunctionOnSet(w, T \ {x}) \in Nat
    BY <2>1, <2>5, <2>6
  <2>8. SumFunctionOnSet(w, T) = w[x] + SumFunctionOnSet(w, T \ {x})
    BY <2>2, <2>3, <2>4, SumUnfolds
  <2> QED BY <2>1, <2>5, <2>7, <2>8
<1>2. S \in FiniteSubsetsOf(S)
  BY DEF FiniteSubsetsOf
<1> QED BY <1>1, <1>2

\* Any member can be taken out of a sum first.
LEMMA SumRemove ==
  ASSUME NEW w, NEW S, IsFiniteSet(S), \A x \in S : w[x] \in Nat, NEW y \in S
  PROVE  /\ SumFunctionOnSet(w, S) = w[y] + SumFunctionOnSet(w, S \ {y})
         /\ SumFunctionOnSet(w, S \ {y}) \in Nat
<1> DEFINE Sum(T) == SumFunctionOnSet(w, T)
           Ok(T) == \A z \in T : Sum(T) = w[z] + Sum(T \ {z})
           Q == {T \in FiniteSubsetsOf(S) : ~Ok(T)}
<1>0. ASSUME NEW T, T \subseteq S PROVE IsFiniteSet(T) /\ Sum(T) \in Nat
  <2>1. IsFiniteSet(T)
    BY <1>0, FS_Subset
  <2> QED BY <1>0, <2>1, SumType
<1>1. Q = {}
  <2> SUFFICES ASSUME Q # {} PROVE FALSE
    OBVIOUS
  <2>0. Q \subseteq FiniteSubsetsOf(S)
    OBVIOUS
  <2>1. PICK T \in Q : \A t \in Q : ~(t \subseteq T /\ t # T)
    <3> HIDE DEF Q
    <3> QED BY MinimalFiniteSet, <2>0
  <2>2. T \subseteq S /\ IsFiniteSet(T)
    BY <2>1 DEF FiniteSubsetsOf
  <2>3. PICK z \in T : Sum(T) # w[z] + Sum(T \ {z})
    BY <2>1
  <2>4. PICK x : x = Chosen(T)
    OBVIOUS
  <2>5. x \in T
    BY <2>3, <2>4, AnyMember
  <2>6. ASSUME NEW t, t \subseteq T, t # T PROVE Ok(t)
    <3>1. t \in FiniteSubsetsOf(S)
      BY <1>0, <2>2, <2>6 DEF FiniteSubsetsOf
    <3> QED BY <2>1, <2>6, <3>1
  <2>7. Sum(T) = w[x] + Sum(T \ {x})
    BY <2>2, <2>3, <2>4, SumUnfolds
  <2>8. x # z
    BY <2>3, <2>7
  <2>9. Sum(T \ {x}) = w[z] + Sum((T \ {x}) \ {z})
    <3>1. Ok(T \ {x})
      BY <2>5, <2>6
    <3> HIDE DEF Sum
    <3> QED BY <2>3, <2>8, <3>1
  <2>10. Sum(T \ {z}) = w[x] + Sum((T \ {z}) \ {x})
    <3>1. Ok(T \ {z})
      BY <2>3, <2>6
    <3> HIDE DEF Sum
    <3> QED BY <2>5, <2>8, <3>1
  <2>11. (T \ {x}) \ {z} = (T \ {z}) \ {x}
    OBVIOUS
  <2>12. Sum((T \ {z}) \ {x}) \in Nat /\ w[x] \in Nat /\ w[z] \in Nat
    <3>1. (T \ {z}) \ {x} \subseteq S /\ x \in S /\ z \in S
      BY <2>2, <2>5
    <3> QED BY <1>0, <3>1
  <2>13. PICK n : n = Sum((T \ {z}) \ {x})
    OBVIOUS
  <2>14. Sum(T) = w[x] + (w[z] + n) /\ Sum(T \ {z}) = w[x] + n /\ n \in Nat
    <3> HIDE DEF Sum
    <3> QED BY <2>7, <2>9, <2>10, <2>11, <2>12, <2>13
  <2>15. w[z] + (w[x] + n) = w[x] + (w[z] + n)
    BY <2>12, <2>14
  <2> HIDE DEF Sum
  <2> QED BY <2>3, <2>14, <2>15
<1>2. S \in FiniteSubsetsOf(S)
  BY DEF FiniteSubsetsOf
<1>3. Ok(S)
  BY <1>1, <1>2
<1>4. Sum(S \ {y}) \in Nat
  BY <1>0
<1> QED BY <1>3, <1>4

LEMMA SumAdd ==
  ASSUME NEW w, NEW S, IsFiniteSet(S), NEW y, \A x \in S \cup {y} : w[x] \in Nat
  PROVE  SumFunctionOnSet(w, S \cup {y}) =
           IF y \in S THEN SumFunctionOnSet(w, S) ELSE SumFunctionOnSet(w, S) + w[y]
<1>1. CASE y \in S
  <2>1. S \cup {y} = S
    BY <1>1
  <2> QED BY <1>1, <2>1
<1>2. CASE y \notin S
  <2>1. (S \cup {y}) \ {y} = S /\ y \in S \cup {y} /\ IsFiniteSet(S \cup {y})
    BY <1>2, FS_AddElement
  <2>2. PICK T : T = S \cup {y}
    OBVIOUS
  <2>3. SumFunctionOnSet(w, T) = w[y] + SumFunctionOnSet(w, T \ {y})
        /\ SumFunctionOnSet(w, T \ {y}) \in Nat
    <3>1. IsFiniteSet(T) /\ y \in T /\ \A x \in T : w[x] \in Nat
      BY <2>1, <2>2
    <3> QED BY ONLY <3>1, SumRemove
  <2>4. PICK n : n = SumFunctionOnSet(w, S)
    OBVIOUS
  <2>5. SumFunctionOnSet(w, T) = w[y] + n /\ n \in Nat /\ w[y] \in Nat
    BY <2>1, <2>2, <2>3, <2>4
  <2>6. w[y] + n = n + w[y]
    BY <2>5
  <2> QED BY <1>2, <2>2, <2>4, <2>5, <2>6
<1> QED BY <1>1, <1>2

\* A sum depends on the values in its set only.
LEMMA SumExtensional ==
  ASSUME NEW w, NEW v, NEW S, IsFiniteSet(S), \A x \in S : w[x] = v[x]
  PROVE  SumFunctionOnSet(w, S) = SumFunctionOnSet(v, S)
<1> DEFINE Q == {T \in FiniteSubsetsOf(S) : SumFunctionOnSet(w, T) # SumFunctionOnSet(v, T)}
<1>1. Q = {}
  <2> SUFFICES ASSUME Q # {} PROVE FALSE
    OBVIOUS
  <2>0. Q \subseteq FiniteSubsetsOf(S)
    OBVIOUS
  <2>1. PICK T \in Q : \A t \in Q : ~(t \subseteq T /\ t # T)
    <3> HIDE DEF Q
    <3> QED BY MinimalFiniteSet, <2>0
  <2>2. T \subseteq S /\ IsFiniteSet(T) /\ SumFunctionOnSet(w, T) # SumFunctionOnSet(v, T)
    BY <2>1 DEF FiniteSubsetsOf
  <2>3. T # {}
    <3>1. SumFunctionOnSet(w, {}) = 0 /\ SumFunctionOnSet(v, {}) = 0
      BY SumOfNone
    <3> QED BY <2>2, <3>1
  <2>4. PICK x : x = Chosen(T)
    OBVIOUS
  <2>5. x \in T /\ w[x] = v[x]
    BY <2>2, <2>3, <2>4, AnyMember
  <2>6. T \ {x} \in FiniteSubsetsOf(S)
    BY <2>2, FS_RemoveElement DEF FiniteSubsetsOf
  <2>7. SumFunctionOnSet(w, T \ {x}) = SumFunctionOnSet(v, T \ {x})
    BY <2>1, <2>5, <2>6
  <2>8. /\ SumFunctionOnSet(w, T) = w[x] + SumFunctionOnSet(w, T \ {x})
        /\ SumFunctionOnSet(v, T) = v[x] + SumFunctionOnSet(v, T \ {x})
    BY <2>2, <2>3, <2>4, SumUnfolds
  <2> QED BY <2>2, <2>5, <2>7, <2>8
<1>2. S \in FiniteSubsetsOf(S)
  BY DEF FiniteSubsetsOf
<1> QED BY <1>1, <1>2

(***************************************************************************)
(* Recursion over the naturals: the functions the models define by it      *)
(* exist.  An induction is over a set of naturals, and a recursion step is *)
(* a function and not an operator, so that the provers can instantiate     *)
(* them.                                                                   *)
(***************************************************************************)

LEMMA InductionOnNat ==
  ASSUME NEW P, 0 \in P, \A n \in Nat : n \in P => n + 1 \in P
  PROVE  Nat \subseteq P
<1> DEFINE Q == Nat \ P
<1> SUFFICES ASSUME Q # {} PROVE FALSE
  OBVIOUS
<1>1. PICK n \in Q : \A m \in Q : n <= m
  <2>1. Q \subseteq Nat
    OBVIOUS
  <2> HIDE DEF Q
  <2> QED BY <2>1, LeastNatural
<1>2. n \in Nat /\ n # 0 /\ n - 1 \in Nat
  OBVIOUS
<1>3. n - 1 \in P
  BY <1>1, <1>2
<1> QED BY <1>2, <1>3

\* f is the function of the naturals up to n that step defines from base.
IteratesTo(f, n, V, base, step) ==
  /\ f \in [0..n -> V]
  /\ f[0] = base
  /\ \A m \in 1..n : f[m] = step[m][f[m - 1]]

LEMMA IteratesOnce ==
  ASSUME NEW V, NEW base, NEW step, NEW n \in Nat, NEW k \in Nat, NEW f, NEW g,
         IteratesTo(f, n, V, base, step), IteratesTo(g, k, V, base, step)
  PROVE  \A m \in Nat : m <= n /\ m <= k => f[m] = g[m]
<1> DEFINE P == {m \in Nat : m <= n /\ m <= k => f[m] = g[m]}
<1>1. 0 \in P
  BY DEF IteratesTo
<1>2. ASSUME NEW m \in Nat, m \in P PROVE m + 1 \in P
  <2> SUFFICES ASSUME m + 1 <= n, m + 1 <= k PROVE f[m + 1] = g[m + 1]
    OBVIOUS
  <2>1. m + 1 \in 1..n /\ m + 1 \in 1..k /\ f[m] = g[m] /\ (m + 1) - 1 = m
    BY <1>2
  <2>2. f[m + 1] = step[m + 1][f[(m + 1) - 1]] /\ g[m + 1] = step[m + 1][g[(m + 1) - 1]]
    BY <2>1 DEF IteratesTo
  <2> QED BY <2>1, <2>2
<1>3. Nat \subseteq P
  <2> HIDE DEF P
  <2> QED BY <1>1, <1>2, InductionOnNat
<1> QED BY <1>3

Iterates(f, V, base, step) ==
  f \in [Nat -> V] /\ f[0] = base /\ \A n \in Nat : f[n + 1] = step[n + 1][f[n]]

LEMMA IterationExists ==
  ASSUME NEW V, NEW base \in V, NEW step \in [Nat -> [V -> V]]
  PROVE  \E f : Iterates(f, V, base, step)
<1> DEFINE P == {n \in Nat : \E g : IteratesTo(g, n, V, base, step)}
<1>1. 0 \in P
  <2> DEFINE g == [m \in 0..0 |-> base]
  <2>1. IteratesTo(g, 0, V, base, step)
    BY DEF IteratesTo
  <2> HIDE DEF g
  <2> QED BY <2>1
<1>2. ASSUME NEW n \in Nat, n \in P PROVE n + 1 \in P
  <2>1. PICK g : IteratesTo(g, n, V, base, step)
    BY <1>2
  <2> DEFINE h == [m \in 0..(n + 1) |-> IF m = n + 1 THEN step[n + 1][g[n]] ELSE g[m]]
  <2>2. g \in [0..n -> V] /\ g[n] \in V /\ step[n + 1][g[n]] \in V
    BY <2>1 DEF IteratesTo
  <2>3. h \in [0..(n + 1) -> V] /\ h[0] = base /\ h[n + 1] = step[n + 1][g[n]]
    BY <2>1, <2>2 DEF IteratesTo
  <2>4. \A m \in 0..n : h[m] = g[m]
    OBVIOUS
  <2> HIDE DEF h
  <2>5. ASSUME NEW m \in 1..(n + 1) PROVE h[m] = step[m][h[m - 1]]
    <3>1. CASE m = n + 1
      <4>1. m - 1 = n /\ n \in 0..n
        BY <3>1
      <4> QED BY <2>3, <2>4, <3>1, <4>1
    <3>2. CASE m # n + 1
      <4>1. m \in 1..n /\ m \in 0..n /\ m - 1 \in 0..n
        BY <3>2
      <4> QED BY <2>1, <2>4, <4>1 DEF IteratesTo
    <3> QED BY <3>1, <3>2
  <2>6. IteratesTo(h, n + 1, V, base, step)
    BY <2>3, <2>5 DEF IteratesTo
  <2> QED BY <2>6
<1>3. \A n \in Nat : \E g : IteratesTo(g, n, V, base, step)
  <2>1. Nat \subseteq P
    <3> HIDE DEF P
    <3> QED BY <1>1, <1>2, InductionOnNat
  <2> QED BY <2>1
<1> DEFINE to(n) == CHOOSE g : IteratesTo(g, n, V, base, step)
           f == [n \in Nat |-> to(n)[n]]
<1>4. ASSUME NEW n \in Nat PROVE IteratesTo(to(n), n, V, base, step)
  BY <1>3
<1> HIDE DEF to
<1>5. ASSUME NEW n \in Nat PROVE to(n)[n] \in V
  <2>1. to(n) \in [0..n -> V]
    BY <1>4 DEF IteratesTo
  <2> QED BY <2>1
<1>6. f \in [Nat -> V]
  BY <1>5
<1>7. f[0] = base
  BY <1>4 DEF IteratesTo
<1>8. ASSUME NEW n \in Nat PROVE f[n + 1] = step[n + 1][f[n]]
  <2>1. to(n + 1)[n + 1] = step[n + 1][to(n + 1)[n]]
    <3>1. n + 1 \in 1..(n + 1) /\ (n + 1) - 1 = n /\ IteratesTo(to(n + 1), n + 1, V, base, step)
      BY <1>4
    <3> QED BY <3>1 DEF IteratesTo
  <2>2. to(n + 1)[n] = to(n)[n]
    BY <1>4, IteratesOnce
  <2>3. f[n + 1] = to(n + 1)[n + 1] /\ f[n] = to(n)[n]
    OBVIOUS
  <2> QED BY <2>1, <2>2, <2>3
<1> HIDE DEF f
<1> QED BY <1>6, <1>7, <1>8 DEF Iterates

LEMMA IntervalGrows ==
  ASSUME NEW n \in Nat
  PROVE  1..(n + 1) # {} /\ 1..(n + 1) \ {n + 1} = 1..n /\ Max(1..(n + 1)) = n + 1
<1>1. n + 1 \in 1..(n + 1)
  OBVIOUS
<1>2. 1..(n + 1) \ {n + 1} = 1..n
  OBVIOUS
<1>3. IsFiniteSet(1..(n + 1)) /\ 1..(n + 1) \subseteq Int
  BY FS_Interval
<1>4. Max(1..(n + 1)) \in 1..(n + 1) /\ Max(1..(n + 1)) >= n + 1
  BY <1>1, <1>3, MaxIsGreatest
<1> QED BY <1>1, <1>2, <1>4

LEMMA MaxOfIndices ==
  ASSUME NEW n \in Nat, NEW s, s \subseteq 1..n, s # {}
  PROVE  Max(s) \in s /\ \A i \in s : i <= Max(s)
<1>1. IsFiniteSet(1..n)
  BY FS_Interval
<1>2. IsFiniteSet(s)
  BY <1>1, FS_Subset
<1>3. s \subseteq Int
  OBVIOUS
<1>4. Max(s) \in s /\ \A i \in s : Max(s) >= i
  BY <1>2, <1>3, MaxIsGreatest
<1> QED BY <1>3, <1>4

\* The function that FoldLeft of the library chooses, for a step of known types.
Folds(iter, V, base, seq, step) ==
  /\ iter \in [SUBSET (1..Len(seq)) -> V]
  /\ \A s \in SUBSET (1..Len(seq)) :
       iter[s] = IF s = {} THEN base ELSE step[iter[s \ {Max(s)}]][seq[Max(s)]]

LEMMA FoldExists ==
  ASSUME NEW V, NEW A, NEW base \in V, NEW seq \in Seq(A), NEW step \in [V -> [A -> V]]
  PROVE  \E iter : Folds(iter, V, base, seq, step)
<1> DEFINE N == Len(seq)
           D == SUBSET (1..N)
           W == [D -> V]
           apply(n, g) == [s \in D |-> IF n \in s THEN step[g[s]][seq[n]] ELSE g[s]]
           st == [n \in Nat |-> [g \in W |-> apply(n, g)]]
           b == [s \in D |-> base]
<1>0. N \in Nat /\ \A n \in 1..N : seq[n] \in A
  OBVIOUS
<1>1. ASSUME NEW n \in Nat, NEW g \in W PROVE apply(n, g) \in W
  <2> SUFFICES ASSUME NEW s \in D PROVE (IF n \in s THEN step[g[s]][seq[n]] ELSE g[s]) \in V
    OBVIOUS
  <2>1. g[s] \in V /\ (n \in s => n \in 1..N)
    OBVIOUS
  <2> HIDE DEF D, W, N
  <2> QED BY <1>0, <2>1
<1>2. st \in [Nat -> [W -> W]]
  <2> HIDE DEF apply, W
  <2> QED BY <1>1
<1>3. b \in W
  OBVIOUS
<1>4a. PICK G : Iterates(G, W, b, st)
  <2> HIDE DEF st, W, b
  <2> QED BY <1>2, <1>3, IterationExists
<1>4. G \in [Nat -> W] /\ G[0] = b /\ \A n \in Nat : G[n + 1] = st[n + 1][G[n]]
  BY <1>4a DEF Iterates
<1>5. ASSUME NEW n \in Nat, NEW s \in D
      PROVE  G[n + 1][s] = IF n + 1 \in s THEN step[G[n][s]][seq[n + 1]] ELSE G[n][s]
  <2>1. G[n] \in W /\ G[n + 1] = st[n + 1][G[n]]
    BY <1>4
  <2>2. G[n + 1] = apply(n + 1, G[n])
    <3> HIDE DEF apply, W
    <3> QED BY <2>1
  <2> HIDE DEF D
  <2> QED BY <2>2
<1> HIDE DEF st, apply
<1>6. ASSUME NEW s \in D, NEW t \in D
      PROVE  \A n \in Nat : (\A i \in 1..n : i \in s <=> i \in t) => G[n][s] = G[n][t]
  <2> DEFINE P == {n \in Nat : (\A i \in 1..n : i \in s <=> i \in t) => G[n][s] = G[n][t]}
  <2>1. 0 \in P
    BY <1>4
  <2>2. ASSUME NEW n \in Nat, n \in P PROVE n + 1 \in P
    <3> SUFFICES ASSUME \A i \in 1..(n + 1) : i \in s <=> i \in t PROVE G[n + 1][s] = G[n + 1][t]
      OBVIOUS
    <3>1. n + 1 \in 1..(n + 1) /\ \A i \in 1..n : i \in 1..(n + 1)
      OBVIOUS
    <3>2. G[n][s] = G[n][t] /\ (n + 1 \in s <=> n + 1 \in t)
      BY <2>2, <3>1
    <3> HIDE DEF D, P
    <3>3. G[n + 1][s] = IF n + 1 \in s THEN step[G[n][s]][seq[n + 1]] ELSE G[n][s]
      BY <1>5
    <3>4. G[n + 1][t] = IF n + 1 \in t THEN step[G[n][t]][seq[n + 1]] ELSE G[n][t]
      BY <1>5
    <3> QED BY <3>2, <3>3, <3>4
  <2>3. Nat \subseteq P
    <3> HIDE DEF P
    <3> QED BY <2>1, <2>2, InductionOnNat
  <2> QED BY <2>3
<1>7. ASSUME NEW s \in D, NEW m \in Nat, \A i \in s : i <= m
      PROVE  \A n \in Nat : m <= n => G[n][s] = G[m][s]
  <2> DEFINE P == {n \in Nat : m <= n => G[n][s] = G[m][s]}
  <2>1. 0 \in P
    OBVIOUS
  <2>2. ASSUME NEW n \in Nat, n \in P PROVE n + 1 \in P
    <3> SUFFICES ASSUME m <= n + 1 PROVE G[n + 1][s] = G[m][s]
      OBVIOUS
    <3>1. CASE m = n + 1
      BY <3>1
    <3>2. CASE m # n + 1
      <4>1. m <= n /\ ~(n + 1 <= m)
        BY <3>2
      <4>2. n + 1 \notin s /\ G[n][s] = G[m][s]
        BY <1>7, <2>2, <4>1
      <4> HIDE DEF D, P
      <4> QED BY <1>5, <4>2
    <3> QED BY <3>1, <3>2
  <2>3. Nat \subseteq P
    <3> HIDE DEF P
    <3> QED BY <2>1, <2>2, InductionOnNat
  <2> QED BY <2>3
<1>8. G[N] \in [D -> V]
  BY <1>0, <1>4
<1>9. ASSUME NEW s \in D
      PROVE  G[N][s] = IF s = {} THEN base ELSE step[G[N][s \ {Max(s)}]][seq[Max(s)]]
  <2>1. CASE s = {}
    <3>1. G[N][s] = G[0][s]
      <4>1. \A n \in Nat : 0 <= n => G[n][s] = G[0][s]
        BY <1>7, <2>1
      <4> QED BY <1>0, <4>1
    <3> QED BY <1>4, <2>1, <3>1
  <2>2. CASE s # {}
    <3>1. IsFiniteSet(s) /\ s \subseteq Int
      <4>1. s \subseteq 1..N /\ IsFiniteSet(1..N)
        BY <1>0, FS_Interval
      <4>2. IsFiniteSet(s)
        BY <4>1, FS_Subset
      <4> QED BY <4>1, <4>2
    <3>2. PICK m : m = Max(s)
      OBVIOUS
    <3>3. m \in s /\ \A i \in s : m >= i
      BY <2>2, <3>1, <3>2, MaxIsGreatest
    <3>4. m \in 1..N /\ \A i \in s : i \in 1..N
      BY <3>3
    <3>5. m \in Nat /\ m - 1 \in Nat /\ m <= N /\ (m - 1) + 1 = m /\ m - 1 <= N
      BY <1>0, <3>4
    <3>6. \A i \in s : i <= m
      BY <3>3, <3>4
    <3>7. G[N][s] = G[m][s]
      BY <1>0, <1>7, <3>5, <3>6
    <3>8. G[m][s] = step[G[m - 1][s]][seq[m]]
      <4>1. G[(m - 1) + 1][s] = IF (m - 1) + 1 \in s THEN step[G[m - 1][s]][seq[(m - 1) + 1]] ELSE G[m - 1][s]
        BY <1>5, <3>5
      <4> QED BY <3>3, <3>5, <4>1
    <3> DEFINE t == s \ {m}
    <3>9. t \in D /\ \A i \in t : i <= m - 1
      BY <3>4, <3>6
    <3>10. \A i \in 1..(m - 1) : i \in s <=> i \in t
      BY <3>5
    <3> HIDE DEF t, D, N
    <3>11. G[m - 1][s] = G[m - 1][t]
      BY <1>6, <3>5, <3>9, <3>10
    <3>12. G[N][t] = G[m - 1][t]
      BY <1>0, <1>7, <3>5, <3>9
    <3> QED BY <2>2, <3>2, <3>7, <3>8, <3>11, <3>12 DEF t
  <2> QED BY <2>1, <2>2
<1> QED BY <1>8, <1>9 DEF Folds

(***************************************************************************)
(* Reachability in a finite graph: as many rounds as there are nodes find  *)
(* every node there is a path to.                                          *)
(***************************************************************************)

Spread(E, X) == X \cup {e[2] : e \in {d \in E : d[1] \in X}}

Spreads(r, E, start) == r = [n \in Nat |-> IF n = 0 THEN start ELSE Spread(E, r[n - 1])]

LEMMA SpreadExists ==
  ASSUME NEW Nodes, NEW E, E \subseteq Nodes \X Nodes, NEW start, start \subseteq Nodes
  PROVE  \E r : Spreads(r, E, start)
<1> DEFINE V == SUBSET Nodes
           step == [n \in Nat |-> [X \in V |-> Spread(E, X)]]
<1>1. \A X \in V : Spread(E, X) \in V
  BY DEF Spread
<1>2. step \in [Nat -> [V -> V]] /\ start \in V
  BY <1>1
<1>3. PICK r : Iterates(r, V, start, step)
  <2> HIDE DEF step, V
  <2> QED BY <1>2, IterationExists
<1>4. ASSUME NEW n \in Nat PROVE r[n] = IF n = 0 THEN start ELSE Spread(E, r[n - 1])
  <2>1. CASE n = 0
    BY <1>3, <2>1 DEF Iterates
  <2>2. CASE n # 0
    <3>1. n - 1 \in Nat /\ (n - 1) + 1 = n
      BY <2>2
    <3>2. r[n - 1] \in V /\ r[n] = step[n][r[n - 1]]
      BY <1>3, <3>1 DEF Iterates
    <3>3. step[n][r[n - 1]] = Spread(E, r[n - 1])
      BY <3>2
    <3> QED BY <2>2, <3>2, <3>3
  <2> QED BY <2>1, <2>2
<1>5. r = [n \in Nat |-> r[n]]
  BY <1>3 DEF Iterates
<1> QED BY <1>4, <1>5 DEF Spreads

LEMMA SpreadCloses ==
  ASSUME NEW Nodes, IsFiniteSet(Nodes), NEW E, E \subseteq Nodes \X Nodes,
         NEW start, start \subseteq Nodes, NEW r, Spreads(r, E, start)
  PROVE  LET R == r[Cardinality(Nodes)] IN
         /\ start \subseteq R /\ R \subseteq Nodes
         /\ \A e \in E : e[1] \in R => e[2] \in R
         /\ \A C : start \subseteq C /\ (\A e \in E : e[1] \in C => e[2] \in C) => R \subseteq C
<1> DEFINE N == Cardinality(Nodes)
           Closed(X) == \A e \in E : e[1] \in X => e[2] \in X
<1>0. N \in Nat
  BY FS_CardinalityType
<1>1. r[0] = start /\ \A n \in Nat : r[n + 1] = Spread(E, r[n])
  <2>1. \A n \in Nat : r[n] = IF n = 0 THEN start ELSE Spread(E, r[n - 1])
    BY DEF Spreads
  <2> QED BY <2>1
<1>2. \A n \in Nat : start \subseteq r[n] /\ r[n] \subseteq Nodes
  <2> DEFINE P == {n \in Nat : start \subseteq r[n] /\ r[n] \subseteq Nodes}
  <2>1. 0 \in P
    BY <1>1
  <2>2. ASSUME NEW n \in Nat, n \in P PROVE n + 1 \in P
    BY <1>1, <2>2 DEF Spread
  <2>3. Nat \subseteq P
    <3> HIDE DEF P
    <3> QED BY <2>1, <2>2, InductionOnNat
  <2> QED BY <2>3
<1>3. ASSUME NEW C, start \subseteq C, Closed(C) PROVE \A n \in Nat : r[n] \subseteq C
  <2> DEFINE P == {n \in Nat : r[n] \subseteq C}
  <2>1. 0 \in P
    BY <1>1, <1>3
  <2>2. ASSUME NEW n \in Nat, n \in P PROVE n + 1 \in P
    BY <1>1, <1>3, <2>2 DEF Spread
  <2>3. Nat \subseteq P
    <3> HIDE DEF P
    <3> QED BY <2>1, <2>2, InductionOnNat
  <2> QED BY <2>3
<1>4. \A n \in Nat : IsFiniteSet(r[n]) /\ Cardinality(r[n]) \in Nat
  BY <1>2, FS_Subset, FS_CardinalityType
<1>5. \A n \in Nat : Closed(r[n]) \/ Cardinality(r[n]) >= n
  <2> DEFINE P == {n \in Nat : Closed(r[n]) \/ Cardinality(r[n]) >= n}
  <2>1. 0 \in P
    BY <1>4
  <2>2. ASSUME NEW n \in Nat, n \in P PROVE n + 1 \in P
    <3>1. CASE Closed(r[n])
      <4>1. Spread(E, r[n]) = r[n]
        <5>1. \A y \in Spread(E, r[n]) : y \in r[n]
          BY <3>1 DEF Spread
        <5>2. \A y \in r[n] : y \in Spread(E, r[n])
          BY DEF Spread
        <5> QED BY <5>1, <5>2
      <4>2. r[n + 1] = r[n]
        BY <1>1, <4>1
      <4> QED BY <3>1, <4>2
    <3>2. CASE ~Closed(r[n])
      <4>1. PICK e \in E : e[1] \in r[n] /\ e[2] \notin r[n]
        BY <3>2
      <4>2. r[n] \subseteq r[n + 1] /\ e[2] \in r[n + 1]
        BY <1>1, <4>1 DEF Spread
      <4>3. r[n] # r[n + 1] /\ r[n] \in SUBSET r[n + 1]
        BY <4>1, <4>2
      <4>4. Cardinality(r[n]) <= Cardinality(r[n + 1]) /\ Cardinality(r[n]) # Cardinality(r[n + 1])
        BY <1>4, <4>3, FS_Subset
      <4>5. Cardinality(r[n]) >= n
        BY <2>2, <3>2
      <4>6. Cardinality(r[n + 1]) >= n + 1
        <5> DEFINE a == Cardinality(r[n])
                   b == Cardinality(r[n + 1])
        <5>1. a \in Nat /\ b \in Nat /\ a <= b /\ a # b /\ a >= n
          BY <1>4, <4>4, <4>5
        <5> HIDE DEF a, b
        <5>2. b >= n + 1
          BY <5>1
        <5> QED BY <5>2 DEF b
      <4> QED BY <4>6
    <3> QED BY <3>1, <3>2
  <2>3. Nat \subseteq P
    <3> HIDE DEF P
    <3> QED BY <2>1, <2>2, InductionOnNat
  <2> QED BY <2>3
<1>6. Closed(r[N])
  <2> SUFFICES ASSUME ~Closed(r[N]) PROVE FALSE
    OBVIOUS
  <2>1. Cardinality(r[N]) >= N
    BY <1>0, <1>5
  <2>2. r[N] \in SUBSET Nodes
    BY <1>0, <1>2
  <2>3. Cardinality(r[N]) <= Cardinality(Nodes) /\ (Cardinality(Nodes) = Cardinality(r[N]) => Nodes = r[N])
    BY <2>2, FS_Subset
  <2>4. Nodes = r[N]
    BY <1>0, <1>4, <2>1, <2>3
  <2> QED BY <2>4
<1> QED
  <2>1. start \subseteq r[N] /\ r[N] \subseteq Nodes
    BY <1>0, <1>2
  <2>2. \A C : start \subseteq C /\ Closed(C) => r[N] \subseteq C
    BY <1>0, <1>3
  <2> QED BY <1>6, <2>1, <2>2
===============================================================================
