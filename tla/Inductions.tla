------------------------------- MODULE Inductions -------------------------------
(***************************************************************************)
(* What the recursions of the models compute: a sum over a set, a          *)
(* selection from a sequence, a fold along one. The community modules take *)
(* one element after another, the way CHOOSE or Max picks them; the books  *)
(* of the models need that the order of a sum does not matter, and the     *)
(* queues that a fold goes through the places of its sequence one by one.  *)
(*                                                                         *)
(* A weight or a step is a function, so that the facts below can be cited: *)
(* an operator cannot be the parameter of a fact the provers instantiate.  *)
(* For the same reason an induction is an argument about a smallest        *)
(* exception, or about the set of the places a claim is true of.           *)
(***************************************************************************)
EXTENDS Integers, FiniteSets, Sequences, FiniteSetsExt, SequencesExt, Selections,
        FiniteSetTheorems, SequenceTheorems, TLAPS

Chosen(s) == CHOOSE x \in s : TRUE

SumOver(w, S) == MapThenSumSet(LAMBDA x : w[x], S)

(* The equation that defines the partial sums over the subsets of S.       *)
PartialSums(f, w, S) ==
  f = [s \in SUBSET S |-> IF s = {} THEN 0 ELSE w[Chosen(s)] + f[s \ {Chosen(s)}]]

(* A non-empty set picks a member.                                         *)
LEMMA PickMember == ASSUME NEW S, S # {} PROVE Chosen(S) \in S
BY DEF Chosen

(* Of some finite sets, one has no other of them below it.                 *)
LEMMA SmallestException ==
  ASSUME NEW S, IsFiniteSet(S), NEW bad, bad \subseteq SUBSET S, bad # {}
  PROVE  \E least \in bad : \A b \in bad : b \subseteq least => b = least
<1>1. bad \subseteq FiniteSubsetsOf(S)
  BY FS_Subset DEF FiniteSubsetsOf
<1>2. PICK least \in bad : \A b \in bad : <<b, least>> \notin StrictSubsetOrdering(S)
  BY <1>1, WFMin, FS_StrictSubsetOrderingWellFounded
<1>3. \A b \in bad : b \subseteq least => b = least
  BY <1>2 DEF StrictSubsetOrdering
<1> QED BY <1>3

(* Two solutions agree wherever both are defined.                          *)
LEMMA SumsAgree ==
  ASSUME NEW S, NEW T, IsFiniteSet(T), T \subseteq S, NEW w, NEW f, NEW g,
         PartialSums(f, w, S), PartialSums(g, w, T)
  PROVE  \A s \in SUBSET T : f[s] = g[s]
<1> DEFINE bad == {s \in SUBSET T : f[s] # g[s]}
<1>1. ASSUME bad # {} PROVE FALSE
  <2>0. bad \subseteq SUBSET T
    OBVIOUS
  <2>1. PICK least \in bad : \A b \in bad : b \subseteq least => b = least
    <3> HIDE DEF bad
    <3> QED BY <1>1, <2>0, SmallestException
  <2>2. least \in SUBSET T /\ f[least] # g[least]
    BY <2>1
  <2> DEFINE rest == least \ {Chosen(least)}
  <2>3. least # {}
    BY <2>2 DEF PartialSums
  <2>4. Chosen(least) \in least
    BY <2>3, PickMember
  <2>5. rest \in SUBSET T /\ rest \subseteq least /\ rest # least
    BY <2>2, <2>4
  <2>6. f[rest] = g[rest]
    BY <2>1, <2>5
  <2>7. f[least] = w[Chosen(least)] + f[rest]
    BY <2>2, <2>3 DEF PartialSums
  <2>8. g[least] = w[Chosen(least)] + g[rest]
    BY <2>2, <2>3 DEF PartialSums
  <2> QED BY <2>2, <2>6, <2>7, <2>8
<1> QED BY <1>1

(* The equation has a solution over every finite set.                      *)
LEMMA SumsExist ==
  ASSUME NEW S, IsFiniteSet(S), NEW w
  PROVE  \E f : PartialSums(f, w, S)
<1> DEFINE bad == {T \in SUBSET S : ~ \E f : PartialSums(f, w, T)}
<1>1. ASSUME bad # {} PROVE FALSE
  <2>0. bad \subseteq SUBSET S
    OBVIOUS
  <2>1. PICK T \in bad : \A b \in bad : b \subseteq T => b = T
    <3> HIDE DEF bad
    <3> QED BY <1>1, <2>0, SmallestException
  <2> DEFINE F(s) == CHOOSE f : PartialSums(f, w, s)
             rest(s) == s \ {Chosen(s)}
             f == [s \in SUBSET T |->
                     IF s = {} THEN 0 ELSE w[Chosen(s)] + F(rest(s))[rest(s)]]
  <2>2. T \in SUBSET S /\ ~ \E h : PartialSums(h, w, T)
    BY <2>1
  <2>3. \A s \in SUBSET T : s # T => PartialSums(F(s), w, s)
    <3> SUFFICES ASSUME NEW s \in SUBSET T, s # T PROVE \E h : PartialSums(h, w, s)
      OBVIOUS
    <3>1. s \in SUBSET S /\ s \notin bad
      BY <2>1, <2>2
    <3> QED BY <3>1
  <2>4. \A s \in SUBSET T : s # {} => rest(s) \in SUBSET T /\ rest(s) # T
    BY PickMember
  <2>5. \A s \in SUBSET T : s # {} => f[rest(s)] = F(rest(s))[rest(s)]
    <3> SUFFICES ASSUME NEW s \in SUBSET T, s # {}
                 PROVE  f[rest(s)] = F(rest(s))[rest(s)]
      OBVIOUS
    <3> DEFINE u == rest(s)
    <3>1. u \in SUBSET T /\ u # T /\ PartialSums(F(u), w, u)
      BY <2>3, <2>4
    <3>2. CASE u = {}
      <4>1. f[u] = 0
        BY <3>1, <3>2
      <4>2. F(u)[u] = 0
        <5> HIDE DEF F, u
        <5> QED BY <3>1, <3>2 DEF PartialSums
      <4> QED BY <4>1, <4>2
    <3>3. CASE u # {}
      <4> DEFINE v == rest(u)
      <4>1. v \in SUBSET T /\ v # T /\ v \subseteq u /\ PartialSums(F(v), w, v)
        BY <2>3, <2>4, <3>1, <3>3
      <4>2. f[u] = w[Chosen(u)] + F(v)[v]
        BY <3>1, <3>3
      <4>3. F(u)[u] = w[Chosen(u)] + F(u)[v]
        <5> HIDE DEF F, u
        <5> QED BY <3>1, <3>3 DEF PartialSums
      <4>4. F(u)[v] = F(v)[v]
        <5>1. IsFiniteSet(v)
          BY <4>1, <2>2, FS_Subset
        <5> HIDE DEF F, u, v
        <5> QED BY <3>1, <4>1, <5>1, SumsAgree
      <4> QED BY <4>2, <4>3, <4>4
    <3> QED BY <3>2, <3>3
  <2>6. PartialSums(f, w, T)
    <3>1. \A s \in SUBSET T :
            f[s] = IF s = {} THEN 0 ELSE w[Chosen(s)] + F(rest(s))[rest(s)]
      OBVIOUS
    <3>2. f = [s \in SUBSET T |-> f[s]]
      OBVIOUS
    <3>3. \A s \in SUBSET T : f[s] = IF s = {} THEN 0 ELSE w[Chosen(s)] + f[rest(s)]
      <4> HIDE DEF f, F, rest
      <4> QED BY <2>5, <3>1
    <3> HIDE DEF f
    <3> QED BY <3>2, <3>3 DEF PartialSums
  <2> HIDE DEF f
  <2> QED BY <2>2, <2>6
<1> QED BY <1>1

-----------------------------------------------------------------------------
(* Sums.                                                                   *)

(* A sum is the last of the partial sums, whatever solves the equation.    *)
LEMMA SumIsPartial ==
  ASSUME NEW S, IsFiniteSet(S), NEW w, NEW f, PartialSums(f, w, S)
  PROVE  SumOver(w, S) = f[S]
<1> DEFINE g == CHOOSE h : PartialSums(h, w, S)
<1>1. PartialSums(g, w, S)
  BY SumsExist
<1>2. g[S] = SumOver(w, S)
  BY DEF SumOver, MapThenSumSet, MapThenFoldSet, PartialSums, Chosen
<1>3. f[S] = g[S]
  <2> HIDE DEF g
  <2> QED BY <1>1, SumsAgree
<1> QED BY <1>2, <1>3

(* Nothing sums to zero.                                                   *)
LEMMA SumOfNone == ASSUME NEW w PROVE SumOver(w, {}) = 0
<1>1. IsFiniteSet({})
  BY FS_EmptySet
<1>2. PICK f : PartialSums(f, w, {})
  BY <1>1, SumsExist
<1>3. f[{}] = 0
  BY <1>2 DEF PartialSums
<1> QED BY <1>1, <1>2, <1>3, SumIsPartial

(* The recursion, in terms of sums.                                        *)
LEMMA SumPicks ==
  ASSUME NEW S, IsFiniteSet(S), S # {}, NEW w
  PROVE  SumOver(w, S) = w[Chosen(S)] + SumOver(w, S \ {Chosen(S)})
<1> DEFINE rest == S \ {Chosen(S)}
<1>1. IsFiniteSet(rest) /\ rest \subseteq S
  BY FS_Subset
<1>2. PICK f : PartialSums(f, w, S)
  BY SumsExist
<1>3. PICK g : PartialSums(g, w, rest)
  BY <1>1, SumsExist
<1>4. f[S] = w[Chosen(S)] + f[rest]
  BY <1>2 DEF PartialSums
<1>5. f[rest] = g[rest]
  <2> HIDE DEF rest
  <2> QED BY <1>1, <1>2, <1>3, SumsAgree
<1>6. SumOver(w, S) = f[S]
  BY <1>2, SumIsPartial
<1>7. SumOver(w, rest) = g[rest]
  <2> HIDE DEF rest
  <2> QED BY <1>1, <1>3, SumIsPartial
<1> QED BY <1>4, <1>5, <1>6, <1>7

(* Whole weights have a whole sum, and a natural one if they are naturals. *)
LEMMA SumTyped ==
  ASSUME NEW S, IsFiniteSet(S), NEW w, NEW W \in {Int, Nat}, \A x \in S : w[x] \in W
  PROVE  SumOver(w, S) \in W
<1> DEFINE bad == {T \in SUBSET S : SumOver(w, T) \notin W}
<1>0. 0 \in W /\ \A a, b \in W : a + b \in W
  OBVIOUS
<1>1. ASSUME bad # {} PROVE FALSE
  <2>0. bad \subseteq SUBSET S
    OBVIOUS
  <2>1. PICK T \in bad : \A b \in bad : b \subseteq T => b = T
    <3> HIDE DEF bad
    <3> QED BY <1>1, <2>0, SmallestException
  <2>2. T \in SUBSET S /\ SumOver(w, T) \notin W
    BY <2>1
  <2>3. T # {}
    BY <1>0, <2>2, SumOfNone
  <2> DEFINE rest == T \ {Chosen(T)}
  <2>4. Chosen(T) \in T /\ rest \subseteq T /\ rest # T
    BY <2>3, PickMember
  <2>5. SumOver(w, rest) \in W
    BY <2>1, <2>2, <2>4
  <2>6. SumOver(w, T) = w[Chosen(T)] + SumOver(w, rest)
    BY <2>2, <2>3, FS_Subset, SumPicks
  <2>7. w[Chosen(T)] \in W
    BY <2>2, <2>4
  <2> QED BY <1>0, <2>2, <2>5, <2>6, <2>7
<1>2. S \notin bad
  BY <1>1
<1> QED BY <1>2

(* Weights that agree on a set have the same sum over it.                  *)
LEMMA SumAgrees ==
  ASSUME NEW S, IsFiniteSet(S), NEW w, NEW v, \A x \in S : w[x] = v[x]
  PROVE  SumOver(w, S) = SumOver(v, S)
<1>1. PICK f : PartialSums(f, w, S)
  BY SumsExist
<1>2. \A s \in SUBSET S : s # {} => w[Chosen(s)] = v[Chosen(s)]
  BY PickMember
<1>3. PartialSums(f, v, S)
  <2> DEFINE h == [s \in SUBSET S |-> IF s = {} THEN 0 ELSE v[Chosen(s)] + f[s \ {Chosen(s)}]]
  <2>1. f = h
    BY <1>1, <1>2 DEF PartialSums
  <2> QED BY <2>1 DEF PartialSums
<1> QED BY <1>1, <1>3, SumIsPartial

(* The order does not matter: any element's weight may be taken off first. *)
LEMMA SumRemoves ==
  ASSUME NEW S, IsFiniteSet(S), NEW w, \A y \in S : w[y] \in Int, NEW x \in S
  PROVE  SumOver(w, S) = w[x] + SumOver(w, S \ {x})
<1> DEFINE bad == {T \in SUBSET S : \E y \in T : SumOver(w, T) # w[y] + SumOver(w, T \ {y})}
<1>1. ASSUME bad # {} PROVE FALSE
  <2>0. bad \subseteq SUBSET S
    OBVIOUS
  <2>1. PICK T \in bad : \A b \in bad : b \subseteq T => b = T
    <3> HIDE DEF bad
    <3> QED BY <1>1, <2>0, SmallestException
  <2>2. PICK y \in T : SumOver(w, T) # w[y] + SumOver(w, T \ {y})
    BY <2>1
  <2> DEFINE c == Chosen(T)
             noC == T \ {c}
             noY == T \ {y}
             neither == T \ {c, y}
  <2>3. T \in SUBSET S /\ IsFiniteSet(T) /\ c \in T
    BY <2>1, <2>2, FS_Subset, PickMember
  <2>4. SumOver(w, T) = w[c] + SumOver(w, noC)
    BY <2>2, <2>3, SumPicks
  <2>5. y # c
    BY <2>2, <2>4
  <2>6. SumOver(w, noC) = w[y] + SumOver(w, neither)
    <3>1. noC \in SUBSET S /\ noC \subseteq T /\ noC # T /\ y \in noC
      BY <2>3, <2>5
    <3>2. noC \notin bad
      BY <2>1, <3>1
    <3>3. SumOver(w, noC) = w[y] + SumOver(w, noC \ {y})
      BY <3>1, <3>2
    <3>4. noC \ {y} = neither
      OBVIOUS
    <3> QED BY <3>3, <3>4
  <2>7. SumOver(w, noY) = w[c] + SumOver(w, neither)
    <3>1. noY \in SUBSET S /\ noY \subseteq T /\ noY # T /\ c \in noY
      BY <2>3, <2>5
    <3>2. noY \notin bad
      BY <2>1, <3>1
    <3>3. SumOver(w, noY) = w[c] + SumOver(w, noY \ {c})
      BY <3>1, <3>2
    <3>4. noY \ {c} = neither
      OBVIOUS
    <3> QED BY <3>3, <3>4
  <2>8. w[c] \in Int /\ w[y] \in Int
    BY <2>3
  <2>9. SumOver(w, neither) \in Int
    <3>1. IsFiniteSet(neither) /\ \A z \in neither : w[z] \in Int
      BY <2>3, FS_Subset
    <3> HIDE DEF neither
    <3> QED BY <3>1, SumTyped
  <2> HIDE DEF c, noC, noY, neither
  <2>10. SumOver(w, T) = w[y] + SumOver(w, noY)
    BY <2>4, <2>6, <2>7, <2>8, <2>9
  <2> QED BY <2>2, <2>10 DEF noY
<1>2. S \notin bad
  BY <1>1
<1> QED BY <1>2

-----------------------------------------------------------------------------
(* Recursion over numbers and over the parts of a set.                     *)

(* Some numbers have a least one.                                          *)
LEMMA LeastNumber ==
  ASSUME NEW S, S \subseteq Nat, S # {}
  PROVE  \E m \in S : \A x \in S : m <= x
<1>1. PICK top \in S : TRUE
  OBVIOUS
<1> DEFINE low == {x \in S : x <= top}
           parts == {1..x : x \in low}
<1> DEFINE range == 1..top
<1>2. IsFiniteSet(range)
  <2>1. top \in Int /\ 1 \in Int
    BY <1>1
  <2> QED BY <2>1, FS_Interval
<1>a. parts \subseteq SUBSET range /\ parts # {}
  <2>1. top \in low
    BY <1>1
  <2>2. \A x \in low : 1..x \subseteq 1..top
    BY <1>1
  <2> QED BY <2>1, <2>2
<1>3. PICK p \in parts : \A b \in parts : b \subseteq p => b = p
  <2> HIDE DEF parts, range
  <2> QED BY <1>2, <1>a, SmallestException
<1>4. PICK m \in low : p = 1..m
  BY <1>3
<1>5. ASSUME NEW x \in S, x < m PROVE FALSE
  <2>1. x \in low
    BY <1>4, <1>5
  <2>2. 1..x \in parts /\ 1..x \subseteq 1..m /\ m \in 1..m /\ m \notin 1..x
    BY <1>4, <1>5, <2>1
  <2> QED BY <1>3, <1>4, <2>2
<1>6. \A x \in S : m <= x
  BY <1>4, <1>5
<1> QED BY <1>4, <1>6

(* A function that starts at base and takes n steps.                        *)
Ladder(f, base, G, n) ==
  f = [i \in 0..n |-> IF i = 0 THEN base ELSE G[<<f[i - 1], i>>]]

(* Such a function exists.                                                  *)
LEMMA LadderExists ==
  ASSUME NEW n \in Nat, NEW base, NEW G
  PROVE  \E f : Ladder(f, base, G, n)
<1> DEFINE bad == {m \in Nat : ~ \E f : Ladder(f, base, G, m)}
<1>1. ASSUME bad # {} PROVE FALSE
  <2>1. PICK m \in bad : \A x \in bad : m <= x
    <3>1. bad \subseteq Nat
      OBVIOUS
    <3> HIDE DEF bad
    <3> QED BY <1>1, <3>1, LeastNumber
  <2>2. m \in Nat /\ ~ \E f : Ladder(f, base, G, m)
    BY <2>1
  <2>3. m # 0
    <3> DEFINE z == [i \in 0..0 |-> base]
    <3>1. z = [i \in 0..0 |-> IF i = 0 THEN base ELSE G[<<z[i - 1], i>>]]
      OBVIOUS
    <3>2. Ladder(z, base, G, 0)
      BY <3>1 DEF Ladder
    <3> QED BY <2>2, <3>2
  <2>4. PICK f : Ladder(f, base, G, m - 1)
    <3>1. m - 1 \in Nat /\ m - 1 \notin bad
      BY <2>1, <2>2, <2>3
    <3> QED BY <3>1
  <2> DEFINE g == [i \in 0..m |-> IF i < m THEN f[i] ELSE G[<<f[m - 1], m>>]]
  <2>5. \A i \in 0..(m - 1) : g[i] = f[i] /\ f[i] = IF i = 0 THEN base ELSE G[<<f[i - 1], i>>]
    BY <2>2, <2>3, <2>4 DEF Ladder
  <2>6. \A i \in 0..m : g[i] = IF i = 0 THEN base ELSE G[<<g[i - 1], i>>]
    <3> SUFFICES ASSUME NEW i \in 0..m PROVE g[i] = IF i = 0 THEN base ELSE G[<<g[i - 1], i>>]
      OBVIOUS
    <3>1. CASE i = m
      <4>1. m - 1 \in 0..(m - 1)
        BY <2>2, <2>3
      <4>2. g[m] = G[<<f[m - 1], m>>] /\ g[m - 1] = f[m - 1]
        BY <2>2, <2>5, <4>1
      <4> HIDE DEF g
      <4> QED BY <2>3, <3>1, <4>2
    <3>2. CASE i # m
      <4>1. i \in 0..(m - 1) /\ (i # 0 => i - 1 \in 0..(m - 1))
        BY <2>2, <3>2
      <4> HIDE DEF g
      <4> QED BY <2>5, <4>1
    <3> QED BY <3>1, <3>2
  <2>7. g = [i \in 0..m |-> g[i]]
    OBVIOUS
  <2>8. Ladder(g, base, G, m)
    <3> HIDE DEF g
    <3> QED BY <2>6, <2>7 DEF Ladder
  <2> QED BY <2>2, <2>8
<1> QED BY <1>1

(* Induction over sequences, with the claim as the set of those it is true  *)
(* of.                                                                      *)
LEMMA SeqInduction ==
  ASSUME NEW S, NEW good, <<>> \in good,
         \A s \in Seq(S), x \in S : s \in good => Append(s, x) \in good
  PROVE  Seq(S) \subseteq good
<1> DEFINE bad == {n \in Nat : \E s \in Seq(S) : s \notin good /\ Len(s) = n}
<1>1. ASSUME NEW s \in Seq(S), s \notin good PROVE FALSE
  <2>0. Len(s) \in bad /\ bad \subseteq Nat
    BY <1>1
  <2>1. PICK m \in bad : \A n \in bad : m <= n
    <3> HIDE DEF bad
    <3> QED BY <2>0, LeastNumber
  <2>2. PICK t \in Seq(S) : t \notin good /\ Len(t) = m
    BY <2>1
  <2>3. PICK u \in Seq(S), x \in S : t = Append(u, x)
    BY <2>2, SequenceEmptyOrAppend
  <2>4. Len(u) + 1 = m /\ Len(u) \in Nat
    BY <2>2, <2>3
  <2>5. Len(u) \notin bad
    BY <2>1, <2>4
  <2>6. u \in good
    BY <2>4, <2>5
  <2> QED BY <2>2, <2>3, <2>6
<1> QED BY <1>1

(* Induction up to a bound.                                                 *)
LEMMA UpToBound ==
  ASSUME NEW n \in Nat, NEW good, 0 \in good,
         \A i \in 1..n : i - 1 \in good => i \in good
  PROVE  0..n \subseteq good
<1> DEFINE bad == {i \in 0..n : i \notin good}
<1>1. ASSUME bad # {} PROVE FALSE
  <2>1. bad \subseteq Nat
    OBVIOUS
  <2>2. PICK m \in bad : \A x \in bad : m <= x
    <3> HIDE DEF bad
    <3> QED BY <1>1, <2>1, LeastNumber
  <2>3. m # 0 /\ m \in 1..n /\ m - 1 \in 0..n /\ m - 1 \notin bad
    BY <2>2
  <2> QED BY <2>2, <2>3
<1> QED BY <1>1

(* What a sequence holds.                                                   *)
LEMMA ToSetNone == ToSet(<<>>) = {}
<1>1. DOMAIN <<>> = {}
  OBVIOUS
<1> QED BY <1>1 DEF ToSet

(* An element appended is held besides what was there.                      *)
LEMMA ToSetAppend ==
  ASSUME NEW S, NEW s \in Seq(S), NEW x
  PROVE  ToSet(Append(s, x)) = ToSet(s) \cup {x}
<1>1. /\ DOMAIN s = 1..Len(s) /\ DOMAIN Append(s, x) = 1..(Len(s) + 1) /\ Len(s) \in Nat
      /\ Append(s, x)[Len(s) + 1] = x /\ \A i \in 1..Len(s) : Append(s, x)[i] = s[i]
  OBVIOUS
<1>2. ToSet(Append(s, x)) = {Append(s, x)[i] : i \in 1..Len(s)} \cup {x}
  BY <1>1 DEF ToSet
<1> QED BY <1>1, <1>2 DEF ToSet

-----------------------------------------------------------------------------
(* Selections.                                                              *)

(* The equation that defines the selections from the prefixes of s.         *)
PrefixSelections(f, s, T) ==
  f = [i \in 0..Len(s) |->
         IF i = 0 THEN <<>>
         ELSE IF s[i] \in T THEN Append(f[i - 1], s[i]) ELSE f[i - 1]]

(* A selection is the last one of some prefixes' selections.                *)
LEMMA AmongIsLast ==
  ASSUME NEW S, NEW s \in Seq(S), NEW T
  PROVE  \E f : /\ PrefixSelections(f, s, T) /\ Among(s, T) = f[Len(s)]
                /\ \A i \in 0..Len(s) : f[i] \in Seq(S)
<1> DEFINE n == Len(s)
           step(q, i) == IF s[i] \in T THEN Append(q, s[i]) ELSE q
           G == [p \in Seq(S) \X (1..n) |-> step(p[1], p[2])]
<1>0. n \in Nat /\ \A i \in 1..n : s[i] \in S
  OBVIOUS
<1>a. \A q \in Seq(S), i \in 1..n : step(q, i) \in Seq(S) /\ G[<<q, i>>] = step(q, i)
  BY <1>0
<1> HIDE DEF G
<1>1. PICK f : Ladder(f, <<>>, G, n)
  BY <1>0, LadderExists
<1>2. \A i \in 0..n : f[i] = IF i = 0 THEN <<>> ELSE G[<<f[i - 1], i>>]
  BY <1>1 DEF Ladder
<1> DEFINE typed == {i \in 0..n : f[i] \in Seq(S)}
<1>3. 0..n \subseteq typed
  <2>1. 0 \in typed
    <3>1. 0 \in 0..n /\ <<>> \in Seq(S)
      BY <1>0
    <3> QED BY <1>2, <3>1
  <2>2. \A i \in 1..n : i - 1 \in typed => i \in typed
    <3> SUFFICES ASSUME NEW i \in 1..n, f[i - 1] \in Seq(S) PROVE f[i] \in Seq(S)
      BY <1>0
    <3>1. f[i] = G[<<f[i - 1], i>>]
      BY <1>0, <1>2
    <3> HIDE DEF step, n
    <3> QED BY <1>a, <3>1
  <2> HIDE DEF typed
  <2> QED BY <1>0, <2>1, <2>2, UpToBound
<1>4. \A i \in 0..n : f[i] = IF i = 0 THEN <<>> ELSE step(f[i - 1], i)
  <2> SUFFICES ASSUME NEW i \in 0..n, i # 0 PROVE f[i] = step(f[i - 1], i)
    BY <1>2
  <2>1. i \in 1..n /\ i - 1 \in 0..n
    BY <1>0
  <2>2. f[i - 1] \in Seq(S)
    BY <1>3, <2>1
  <2>3. f[i] = G[<<f[i - 1], i>>]
    BY <1>2
  <2> HIDE DEF step
  <2> QED BY <1>a, <2>1, <2>2, <2>3
<1>5. f = [i \in 0..n |-> f[i]]
  BY <1>1 DEF Ladder
<1>6. PrefixSelections(f, s, T)
  BY <1>4, <1>5 DEF PrefixSelections
<1> DEFINE g == CHOOSE h : PrefixSelections(h, s, T)
<1>7. PrefixSelections(g, s, T)
  BY <1>6
<1>8. Among(s, T) = g[n]
  BY DEF Among, PrefixSelections
<1> HIDE DEF g
<1> DEFINE same == {i \in 0..n : g[i] = f[i]}
<1>9. 0..n \subseteq same
  <2>1. 0 \in same
    BY <1>0, <1>6, <1>7 DEF PrefixSelections
  <2>2. \A i \in 1..n : i - 1 \in same => i \in same
    <3> SUFFICES ASSUME NEW i \in 1..n, g[i - 1] = f[i - 1] PROVE g[i] = f[i]
      BY <1>0
    <3>1. i \in 0..n /\ i # 0
      BY <1>0
    <3>2. g[i] = step(g[i - 1], i)
      BY <1>7, <3>1 DEF PrefixSelections
    <3>3. f[i] = step(f[i - 1], i)
      BY <1>4, <3>1
    <3> QED BY <3>2, <3>3
  <2> HIDE DEF same
  <2> QED BY <1>0, <2>1, <2>2, UpToBound
<1>10. \A i \in 0..n : g[i] \in Seq(S)
  BY <1>3, <1>9
<1> QED BY <1>7, <1>8, <1>10

(* Nothing selects to nothing.                                              *)
LEMMA AmongNone == ASSUME NEW T PROVE Among(<<>>, T) = <<>>
<1>1. <<>> \in Seq({}) /\ Len(<<>>) = 0
  OBVIOUS
<1>2. PICK f : PrefixSelections(f, <<>>, T) /\ Among(<<>>, T) = f[Len(<<>>)]
  BY <1>1, AmongIsLast
<1> QED BY <1>1, <1>2 DEF PrefixSelections

(* The last element is kept if it passes.                                   *)
LEMMA AmongAppend ==
  ASSUME NEW S, NEW s \in Seq(S), NEW x \in S, NEW T
  PROVE  Among(Append(s, x), T) = IF x \in T THEN Append(Among(s, T), x) ELSE Among(s, T)
<1> DEFINE n == Len(s)
           t == Append(s, x)
<1>0. /\ n \in Nat /\ t \in Seq(S) /\ Len(t) = n + 1
      /\ t[n + 1] = x /\ \A i \in 1..n : t[i] = s[i]
  OBVIOUS
<1>1. PICK g : PrefixSelections(g, s, T) /\ Among(s, T) = g[n]
  BY AmongIsLast
<1> HIDE DEF t
<1>2. PICK f : PrefixSelections(f, t, T) /\ Among(t, T) = f[n + 1]
  BY <1>0, AmongIsLast
<1> DEFINE same == {i \in 0..n : g[i] = f[i]}
<1>3. 0..n \subseteq same
  <2>1. 0 \in same
    BY <1>0, <1>1, <1>2 DEF PrefixSelections
  <2>2. \A i \in 1..n : i - 1 \in same => i \in same
    <3> SUFFICES ASSUME NEW i \in 1..n, g[i - 1] = f[i - 1] PROVE g[i] = f[i]
      BY <1>0
    <3>1. i \in 0..n /\ i \in 0..(n + 1) /\ i # 0 /\ t[i] = s[i]
      BY <1>0
    <3>2. g[i] = IF s[i] \in T THEN Append(g[i - 1], s[i]) ELSE g[i - 1]
      BY <1>1, <3>1 DEF PrefixSelections
    <3>3. f[i] = IF t[i] \in T THEN Append(f[i - 1], t[i]) ELSE f[i - 1]
      BY <1>0, <1>2, <3>1 DEF PrefixSelections
    <3> QED BY <3>1, <3>2, <3>3
  <2> HIDE DEF same
  <2> QED BY <1>0, <2>1, <2>2, UpToBound
<1>4. f[n] = g[n]
  BY <1>0, <1>3
<1>5. f[n + 1] = IF x \in T THEN Append(f[n], x) ELSE f[n]
  <2>1. n + 1 \in 0..(n + 1) /\ n + 1 # 0 /\ (n + 1) - 1 = n
    BY <1>0
  <2>2. f[n + 1] = IF t[n + 1] \in T THEN Append(f[(n + 1) - 1], t[n + 1]) ELSE f[(n + 1) - 1]
    BY <1>0, <1>2, <2>1 DEF PrefixSelections
  <2> QED BY <1>0, <2>1, <2>2
<1> QED BY <1>1, <1>2, <1>4, <1>5 DEF t

(* A selection has exactly the members that pass.                           *)
LEMMA AmongMembers ==
  ASSUME NEW S, NEW s \in Seq(S), NEW T
  PROVE  Among(s, T) \in Seq(S) /\ ToSet(Among(s, T)) = ToSet(s) \cap T
<1> DEFINE good == {q \in Seq(S) : Among(q, T) \in Seq(S) /\ ToSet(Among(q, T)) = ToSet(q) \cap T}
<1>1. <<>> \in good
  <2>1. <<>> \in Seq(S)
    OBVIOUS
  <2> QED BY <2>1, AmongNone, ToSetNone
<1>2. ASSUME NEW q \in Seq(S), NEW x \in S, q \in good PROVE Append(q, x) \in good
  <2>1. Among(Append(q, x), T) = IF x \in T THEN Append(Among(q, T), x) ELSE Among(q, T)
    BY AmongAppend
  <2>2. \A r \in Seq(S) : Append(r, x) \in Seq(S) /\ ToSet(Append(r, x)) = ToSet(r) \cup {x}
    BY ToSetAppend
  <2>3. Among(q, T) \in Seq(S) /\ ToSet(Among(q, T)) = ToSet(q) \cap T
    BY <1>2
  <2>4. CASE x \in T
    BY <2>1, <2>2, <2>3, <2>4
  <2>5. CASE x \notin T
    BY <2>1, <2>2, <2>3, <2>5
  <2> QED BY <2>4, <2>5
<1> HIDE DEF good
<1>3. s \in good
  BY <1>1, <1>2, SeqInduction
<1> QED BY <1>3 DEF good

(* What passes whole is kept whole.                                         *)
LEMMA AmongAll ==
  ASSUME NEW S, NEW s \in Seq(S), NEW T, ToSet(s) \subseteq T
  PROVE  Among(s, T) = s
<1> DEFINE good == {q \in Seq(S) : ToSet(q) \subseteq T => Among(q, T) = q}
<1>1. <<>> \in good
  BY AmongNone
<1>2. ASSUME NEW q \in Seq(S), NEW x \in S, q \in good PROVE Append(q, x) \in good
  <2> SUFFICES ASSUME ToSet(Append(q, x)) \subseteq T PROVE Among(Append(q, x), T) = Append(q, x)
    OBVIOUS
  <2>1. ToSet(q) \cup {x} \subseteq T
    BY ToSetAppend
  <2> QED BY <1>2, <2>1, AmongAppend
<1> HIDE DEF good
<1>3. s \in good
  BY <1>1, <1>2, SeqInduction
<1> QED BY <1>3 DEF good

(* Two tests that agree on the members select the same.                     *)
LEMMA AmongAgree ==
  ASSUME NEW S, NEW s \in Seq(S), NEW T, NEW U, ToSet(s) \cap T = ToSet(s) \cap U
  PROVE  Among(s, T) = Among(s, U)
<1> DEFINE good == {q \in Seq(S) : ToSet(q) \cap T = ToSet(q) \cap U => Among(q, T) = Among(q, U)}
<1>1. <<>> \in good
  BY AmongNone
<1>2. ASSUME NEW q \in Seq(S), NEW x \in S, q \in good PROVE Append(q, x) \in good
  <2> SUFFICES ASSUME ToSet(Append(q, x)) \cap T = ToSet(Append(q, x)) \cap U
               PROVE  Among(Append(q, x), T) = Among(Append(q, x), U)
    OBVIOUS
  <2>1. ToSet(Append(q, x)) = ToSet(q) \cup {x}
    BY ToSetAppend
  <2>2. (x \in T <=> x \in U) /\ ToSet(q) \cap T = ToSet(q) \cap U
    BY <2>1
  <2>3. Among(q, T) = Among(q, U)
    BY <1>2, <2>2
  <2>4. /\ Among(Append(q, x), T) = IF x \in T THEN Append(Among(q, T), x) ELSE Among(q, T)
        /\ Among(Append(q, x), U) = IF x \in U THEN Append(Among(q, U), x) ELSE Among(q, U)
    BY AmongAppend
  <2> QED BY <2>2, <2>3, <2>4
<1> HIDE DEF good
<1>3. s \in good
  BY <1>1, <1>2, SeqInduction
<1> QED BY <1>3 DEF good

-----------------------------------------------------------------------------
(* Folds over sequences.                                                    *)

(* A finite set of numbers that is not empty has a greatest.                *)
LEMMA GreatestNumber ==
  ASSUME NEW n \in Nat, NEW S, S \subseteq 1..n, S # {}
  PROVE  Max(S) \in S /\ \A x \in S : x <= Max(S)
<1> DEFINE left == {n - x : x \in S}
<1>1. left \subseteq Nat /\ left # {}
  <2>1. \A x \in S : n - x \in Nat
    OBVIOUS
  <2> QED BY <2>1
<1>2. PICK m \in left : \A y \in left : m <= y
  <2> HIDE DEF left
  <2> QED BY <1>1, LeastNumber
<1>3. PICK g \in S : m = n - g
  BY <1>2
<1>4. \A x \in S : g >= x
  <2> SUFFICES ASSUME NEW x \in S PROVE g >= x
    OBVIOUS
  <2>1. n - x \in left
    OBVIOUS
  <2>2. n - g <= n - x /\ n \in Int /\ x \in Int /\ g \in Int
    BY <1>2, <1>3, <2>1
  <2> QED BY <2>2
<1>5. Max(S) \in S /\ \A x \in S : Max(S) >= x
  BY <1>3, <1>4 DEF Max
<1> QED BY <1>5

(* The equation of a fold that takes the places of S in the order of c, with *)
(* a step that is a function.                                                *)
Tree(h, base, G, c, S) ==
  h = [t \in SUBSET S |-> IF t = {} THEN base ELSE G[<<h[t \ {c[t]}], c[t]>>]]

Chooses(c, S) == \A t \in SUBSET S : t # {} => c[t] \in t

(* Two solutions agree wherever both are defined.                          *)
LEMMA TreesAgree ==
  ASSUME NEW S, NEW T, IsFiniteSet(T), T \subseteq S, NEW base, NEW G, NEW c, Chooses(c, S),
         NEW f, NEW g, Tree(f, base, G, c, S), Tree(g, base, G, c, T)
  PROVE  \A t \in SUBSET T : f[t] = g[t]
<1> DEFINE bad == {t \in SUBSET T : f[t] # g[t]}
<1>1. ASSUME bad # {} PROVE FALSE
  <2>0. bad \subseteq SUBSET T
    OBVIOUS
  <2>1. PICK t \in bad : \A b \in bad : b \subseteq t => b = t
    <3> HIDE DEF bad
    <3> QED BY <1>1, <2>0, SmallestException
  <2>2. t \in SUBSET T /\ f[t] # g[t]
    BY <2>1
  <2> DEFINE rest == t \ {c[t]}
  <2>3. t # {}
    BY <2>2 DEF Tree
  <2>4. c[t] \in t
    BY <2>2, <2>3 DEF Chooses
  <2>5. rest \in SUBSET T /\ rest \subseteq t /\ rest # t
    BY <2>2, <2>4
  <2>6. f[rest] = g[rest]
    BY <2>1, <2>5
  <2>7. f[t] = G[<<f[rest], c[t]>>]
    BY <2>2, <2>3 DEF Tree
  <2>8. g[t] = G[<<g[rest], c[t]>>]
    BY <2>2, <2>3 DEF Tree
  <2> QED BY <2>2, <2>6, <2>7, <2>8
<1> QED BY <1>1

(* The equation has a solution.                                             *)
LEMMA TreeExists ==
  ASSUME NEW S, IsFiniteSet(S), NEW base, NEW G, NEW c, Chooses(c, S)
  PROVE  \E f : Tree(f, base, G, c, S)
<1> DEFINE bad == {T \in SUBSET S : ~ \E f : Tree(f, base, G, c, T)}
<1>a. \A t \in SUBSET S : t # {} => c[t] \in t
  BY DEF Chooses
<1>b. \A t \in SUBSET S : IsFiniteSet(t) /\ Chooses(c, t)
  BY FS_Subset DEF Chooses
<1>1. ASSUME bad # {} PROVE FALSE
  <2>0. bad \subseteq SUBSET S
    OBVIOUS
  <2>1. PICK T \in bad : \A b \in bad : b \subseteq T => b = T
    <3> HIDE DEF bad
    <3> QED BY <1>1, <2>0, SmallestException
  <2> DEFINE F(t) == CHOOSE f : Tree(f, base, G, c, t)
             rest(t) == t \ {c[t]}
             f == [t \in SUBSET T |->
                     IF t = {} THEN base ELSE G[<<F(rest(t))[rest(t)], c[t]>>]]
  <2>2. T \in SUBSET S /\ ~ \E h : Tree(h, base, G, c, T)
    BY <2>1
  <2>3. \A t \in SUBSET T : t # T => Tree(F(t), base, G, c, t)
    <3> SUFFICES ASSUME NEW t \in SUBSET T, t # T PROVE \E h : Tree(h, base, G, c, t)
      OBVIOUS
    <3>1. t \in SUBSET S /\ t \notin bad
      BY <2>1, <2>2
    <3> QED BY <3>1
  <2>4. \A t \in SUBSET T : t # {} => rest(t) \in SUBSET T /\ rest(t) # T
    BY <1>a, <2>2
  <2>5. \A t \in SUBSET T : t # {} => f[rest(t)] = F(rest(t))[rest(t)]
    <3> SUFFICES ASSUME NEW t \in SUBSET T, t # {}
                 PROVE  f[rest(t)] = F(rest(t))[rest(t)]
      OBVIOUS
    <3> DEFINE u == rest(t)
    <3>1. u \in SUBSET T /\ u # T /\ Tree(F(u), base, G, c, u)
      BY <2>3, <2>4
    <3>2. CASE u = {}
      <4>1. f[u] = base
        BY <3>1, <3>2
      <4>2. F(u)[u] = base
        <5> HIDE DEF F, u
        <5> QED BY <3>1, <3>2 DEF Tree
      <4> QED BY <4>1, <4>2
    <3>3. CASE u # {}
      <4> DEFINE v == rest(u)
      <4>1. v \in SUBSET T /\ v # T /\ v \subseteq u /\ Tree(F(v), base, G, c, v)
        BY <2>3, <2>4, <3>1, <3>3
      <4>2. f[u] = G[<<F(v)[v], c[u]>>]
        BY <3>1, <3>3
      <4>3. F(u)[u] = G[<<F(u)[v], c[u]>>]
        <5> HIDE DEF F, u
        <5> QED BY <3>1, <3>3 DEF Tree
      <4>4. F(u)[v] = F(v)[v]
        <5>1. IsFiniteSet(v) /\ Chooses(c, u)
          BY <1>b, <2>2, <3>1, <4>1
        <5> HIDE DEF F, u, v
        <5> QED BY <3>1, <4>1, <5>1, TreesAgree
      <4> QED BY <4>2, <4>3, <4>4
    <3> QED BY <3>2, <3>3
  <2>6. Tree(f, base, G, c, T)
    <3>1. \A t \in SUBSET T :
            f[t] = IF t = {} THEN base ELSE G[<<F(rest(t))[rest(t)], c[t]>>]
      OBVIOUS
    <3>2. f = [t \in SUBSET T |-> f[t]]
      OBVIOUS
    <3>3. \A t \in SUBSET T : f[t] = IF t = {} THEN base ELSE G[<<f[rest(t)], c[t]>>]
      <4> HIDE DEF f, F, rest
      <4> QED BY <2>5, <3>1
    <3> HIDE DEF f
    <3> QED BY <3>2, <3>3 DEF Tree
  <2> HIDE DEF f
  <2> QED BY <2>2, <2>6
<1>2. S \notin bad
  BY <1>1
<1> QED BY <1>2

(* The equation of a fold that takes the greatest place of a set last.     *)
FoldOver(h, base, G, n) ==
  h = [t \in SUBSET (1..n) |-> IF t = {} THEN base ELSE G[<<h[t \ {Max(t)}], Max(t)>>]]

(* It has a solution, of the type its step keeps.                          *)
LEMMA FoldPlaces ==
  ASSUME NEW n \in Nat, NEW V, NEW base \in V, NEW G,
         \A v \in V, i \in 1..n : G[<<v, i>>] \in V
  PROVE  \E h : FoldOver(h, base, G, n) /\ \A t \in SUBSET (1..n) : h[t] \in V
<1> DEFINE P == 1..n
           c == [t \in SUBSET P |-> Max(t)]
<1>1. IsFiniteSet(P)
  <2>1. 1 \in Int /\ n \in Int
    OBVIOUS
  <2> QED BY <2>1, FS_Interval
<1>2. \A t \in SUBSET P : t # {} => Max(t) \in t /\ c[t] = Max(t)
  BY GreatestNumber
<1>3. Chooses(c, P)
  <2> HIDE DEF P, c
  <2> QED BY <1>2 DEF Chooses
<1>4. PICK h : Tree(h, base, G, c, P)
  <2> HIDE DEF P, c
  <2> QED BY <1>1, <1>3, TreeExists
<1>5. h = [t \in SUBSET P |-> h[t]] /\ \A t \in SUBSET P :
        h[t] = IF t = {} THEN base ELSE G[<<h[t \ {Max(t)}], Max(t)>>]
  <2>1. h = [t \in SUBSET P |-> IF t = {} THEN base ELSE G[<<h[t \ {c[t]}], c[t]>>]]
    <3> HIDE DEF P, c
    <3> QED BY <1>4 DEF Tree
  <2> HIDE DEF P, c
  <2> QED BY <1>2, <2>1
<1>6. h = [t \in SUBSET P |-> IF t = {} THEN base ELSE G[<<h[t \ {Max(t)}], Max(t)>>]]
  <2> HIDE DEF P, c
  <2> QED BY <1>5
<1> DEFINE bad == {t \in SUBSET P : h[t] \notin V}
<1>7. ASSUME bad # {} PROVE FALSE
  <2>0. bad \subseteq SUBSET P
    OBVIOUS
  <2>1. PICK t \in bad : \A b \in bad : b \subseteq t => b = t
    <3> HIDE DEF bad, P, c
    <3> QED BY <1>1, <1>7, <2>0, SmallestException
  <2>2. t \in SUBSET P /\ h[t] \notin V
    BY <2>1
  <2>3. t # {}
    BY <1>5, <2>2
  <2> DEFINE r == t \ {Max(t)}
  <2>4. Max(t) \in t /\ Max(t) \in P
    <3> HIDE DEF P, c
    <3> QED BY <1>2, <2>2, <2>3
  <2>5. r \in SUBSET P /\ r \subseteq t /\ r # t
    <3> HIDE DEF P, c
    <3> QED BY <2>2, <2>4
  <2>6. h[r] \in V
    <3> HIDE DEF P, c, r
    <3> QED BY <2>1, <2>5
  <2>7. h[t] = G[<<h[r], Max(t)>>]
    <3> HIDE DEF P, c
    <3> QED BY <1>5, <2>2, <2>3
  <2> QED BY <2>2, <2>4, <2>6, <2>7
<1>8. \A t \in SUBSET P : h[t] \in V
  BY <1>7
<1> QED BY <1>6, <1>8 DEF FoldOver

(* The greatest place of a beginning is its last.                          *)
LEMMA LastPlace ==
  ASSUME NEW n \in Nat, NEW i \in 1..n
  PROVE  /\ 1..i \in SUBSET (1..n) /\ 1..i # {} /\ 1..(i - 1) \in SUBSET (1..n)
         /\ Max(1..i) = i /\ (1..i) \ {Max(1..i)} = 1..(i - 1)
<1>1. Max(1..i) \in 1..i /\ \A x \in 1..i : x <= Max(1..i)
  <2>1. 1..i \subseteq 1..n /\ 1..i # {}
    OBVIOUS
  <2> DEFINE Q == 1..i
  <2> HIDE DEF Q
  <2>2. Max(Q) \in Q /\ \A x \in Q : x <= Max(Q)
    <3>1. Q \subseteq 1..n /\ Q # {}
      BY <2>1 DEF Q
    <3> QED BY <3>1, GreatestNumber
  <2> QED BY <2>2 DEF Q
<1> DEFINE m == Max(1..i)
<1>2. m = i
  <2>1. m \in 1..i /\ \A x \in 1..i : x <= m
    BY <1>1
  <2> HIDE DEF m
  <2> QED BY <2>1
<1> HIDE DEF m
<1>3. (1..i) \ {m} = 1..(i - 1)
  BY <1>2
<1>4. 1..i \in SUBSET (1..n) /\ 1..i # {} /\ 1..(i - 1) \in SUBSET (1..n)
  OBVIOUS
<1> QED BY <1>2, <1>3, <1>4 DEF m

(* The listing of a finite set has its elements, once each.                *)
LEMMA SetToSeqOf ==
  ASSUME NEW S, IsFiniteSet(S)
  PROVE  /\ Cardinality(S) \in Nat
         /\ SetToSeq(S) \in [1..Cardinality(S) -> S] /\ IsInjective(SetToSeq(S))
         /\ SetToSeq(S) \in Seq(S) /\ Len(SetToSeq(S)) = Cardinality(S)
         /\ ToSet(SetToSeq(S)) = S
<1> DEFINE n == Cardinality(S)
           q == SetToSeq(S)
<1>1. n \in Nat /\ ExistsBijection(1..n, S)
  BY FS_CardinalityType
<1>2. PICK f : f \in Bijection(1..n, S)
  BY <1>1 DEF ExistsBijection
<1>3. f \in [1..n -> S] /\ IsInjective(f)
  BY <1>2 DEF Bijection, Injection, IsInjective
<1>4. q \in [1..n -> S] /\ IsInjective(q)
  BY <1>3 DEF SetToSeq
<1> HIDE DEF q
<1>5. q \in Seq(S) /\ Len(q) = n
  BY <1>1, <1>4
<1>6. IsFiniteSet(1..n) /\ Cardinality(1..n) = n
  <2>1. 1 \in Int /\ n \in Int
    BY <1>1
  <2>2. IsFiniteSet(1..n) /\ Cardinality(1..n) = IF 1 > n THEN 0 ELSE n - 1 + 1
    BY <2>1, FS_Interval
  <2> QED BY <1>1, <2>2
<1> DEFINE im == {q[i] : i \in 1..n}
<1>7. q \in Surjection(1..n, im)
  BY <1>4 DEF Surjection
<1>8. im \subseteq S
  BY <1>4
<1>9. q \in Injection(1..n, im)
  BY <1>4, <1>7 DEF Injection, Surjection, IsInjective
<1>10. ExistsBijection(1..n, im)
  BY <1>7, <1>9 DEF ExistsBijection, Bijection
<1>11. IsFiniteSet(im)
  BY <1>8, FS_Subset
<1> DEFINE P == 1..n
<1>12. Cardinality(im) = n
  <2>1. Cardinality(P) = Cardinality(im)
    <3> HIDE DEF P, im
    <3> QED BY <1>6, <1>10, <1>11, FS_Bijection DEF P
  <2> QED BY <1>6, <2>1
<1>13. im = S
  <2> HIDE DEF im
  <2> QED BY <1>8, <1>12, FS_Subset
<1>14. ToSet(q) = S
  BY <1>4, <1>13 DEF ToSet
<1> QED BY <1>1, <1>4, <1>5, <1>14 DEF q

(* What a removal leaves, and where.                                       *)
LEMMA RemoveAtPlaces ==
  ASSUME NEW S, NEW s \in Seq(S), NEW d \in 1..Len(s)
  PROVE  /\ RemoveAt(s, d) \in Seq(S) /\ Len(RemoveAt(s, d)) = Len(s) - 1
         /\ \A i \in 1..(Len(s) - 1) : RemoveAt(s, d)[i] = IF i < d THEN s[i] ELSE s[i + 1]
<1> DEFINE a == SubSeq(s, 1, d - 1)
           b == SubSeq(s, d + 1, Len(s))
<1>1. Len(s) \in Nat
  OBVIOUS
<1>2. a \in Seq(S) /\ Len(a) = d - 1 /\ \A i \in 1..(d - 1) : a[i] = s[i]
  BY <1>1
<1>3. b \in Seq(S) /\ Len(b) = Len(s) - d /\ \A i \in 1..(Len(s) - d) : b[i] = s[i + d]
  BY <1>1
<1>4. RemoveAt(s, d) = a \o b
  BY DEF RemoveAt
<1> HIDE DEF a, b
<1>5. /\ a \o b \in Seq(S) /\ Len(a \o b) = Len(s) - 1
      /\ \A i \in 1..(Len(s) - 1) :
           (a \o b)[i] = IF i <= Len(a) THEN a[i] ELSE b[i - Len(a)]
  <2>1. /\ a \o b \in Seq(S) /\ Len(a \o b) = Len(a) + Len(b)
        /\ \A i \in 1..(Len(a) + Len(b)) :
             (a \o b)[i] = IF i <= Len(a) THEN a[i] ELSE b[i - Len(a)]
    <3>1. a \in Seq(S) /\ b \in Seq(S)
      BY <1>2, <1>3
    <3> QED BY <3>1
  <2>2. Len(a) + Len(b) = Len(s) - 1
    BY <1>1, <1>2, <1>3
  <2> QED BY <2>1, <2>2
<1>6. ASSUME NEW i \in 1..(Len(s) - 1)
      PROVE  (a \o b)[i] = IF i < d THEN s[i] ELSE s[i + 1]
  <2>1. CASE i < d
    BY <1>1, <1>2, <1>5, <2>1
  <2>2. CASE ~(i < d)
    <3>1. i - (d - 1) \in 1..(Len(s) - d) /\ i - (d - 1) + d = i + 1
      BY <1>1, <2>2
    <3>2. (a \o b)[i] = b[i - (d - 1)]
      BY <1>1, <1>2, <1>5, <2>2
    <3> QED BY <1>3, <2>2, <3>1, <3>2
  <2> QED BY <2>1, <2>2
<1> QED BY <1>4, <1>5, <1>6

(* A concatenation holds what its parts hold.                              *)
LEMMA ToSetConcat ==
  ASSUME NEW S, NEW s \in Seq(S), NEW t \in Seq(S)
  PROVE  s \o t \in Seq(S) /\ ToSet(s \o t) = ToSet(s) \cup ToSet(t)
<1>1. /\ s \o t \in Seq(S) /\ Len(s \o t) = Len(s) + Len(t) /\ Len(s) \in Nat /\ Len(t) \in Nat
      /\ DOMAIN s = 1..Len(s) /\ DOMAIN t = 1..Len(t)
      /\ DOMAIN (s \o t) = 1..(Len(s) + Len(t))
      /\ \A i \in 1..(Len(s) + Len(t)) :
           (s \o t)[i] = IF i <= Len(s) THEN s[i] ELSE t[i - Len(s)]
  OBVIOUS
<1> DEFINE u == s \o t
<1> HIDE DEF u
<1>2. ToSet(u) \subseteq ToSet(s) \cup ToSet(t)
  <2> SUFFICES ASSUME NEW i \in 1..(Len(s) + Len(t)) PROVE u[i] \in ToSet(s) \cup ToSet(t)
    BY <1>1 DEF ToSet, u
  <2>1. CASE i <= Len(s)
    BY <1>1, <2>1 DEF ToSet, u
  <2>2. CASE ~(i <= Len(s))
    <3>1. i - Len(s) \in 1..Len(t)
      BY <1>1, <2>2
    <3> QED BY <1>1, <2>2, <3>1 DEF ToSet, u
  <2> QED BY <2>1, <2>2
<1>3. ToSet(s) \subseteq ToSet(u)
  <2>1. \A i \in 1..Len(s) : i \in 1..(Len(s) + Len(t)) /\ u[i] = s[i]
    BY <1>1 DEF u
  <2> QED BY <1>1, <2>1 DEF ToSet, u
<1>4. ToSet(t) \subseteq ToSet(u)
  <2>1. \A i \in 1..Len(t) : i + Len(s) \in 1..(Len(s) + Len(t)) /\ u[i + Len(s)] = t[i]
    BY <1>1 DEF u
  <2> QED BY <1>1, <2>1 DEF ToSet, u
<1> QED BY <1>1, <1>2, <1>3, <1>4 DEF u

(* A function of the first numbers is a sequence.                          *)
LEMMA NumberedIsSeq ==
  ASSUME NEW S, NEW n \in Nat, NEW q \in [1..n -> S]
  PROVE  q \in Seq(S) /\ Len(q) = n /\ DOMAIN q = 1..n
OBVIOUS

(* The two parts of a sequence cut after a place.                          *)
LEMMA CutPlaces ==
  ASSUME NEW S, NEW s \in Seq(S), NEW n \in 1..Len(s)
  PROVE  /\ SubSeq(s, 1, n) \in Seq(S) /\ Len(SubSeq(s, 1, n)) = n
         /\ \A i \in 1..n : SubSeq(s, 1, n)[i] = s[i]
         /\ SubSeq(s, n + 1, Len(s)) \in Seq(S)
         /\ Len(SubSeq(s, n + 1, Len(s))) = Len(s) - n
         /\ \A i \in 1..(Len(s) - n) : SubSeq(s, n + 1, Len(s))[i] = s[i + n]
<1>1. Len(s) \in Nat
  OBVIOUS
<1>2. SubSeq(s, 1, n) \in Seq(S) /\ Len(SubSeq(s, 1, n)) = n
  BY <1>1
<1>3. \A i \in 1..n : SubSeq(s, 1, n)[i] = s[i]
  BY <1>1
<1>4. SubSeq(s, n + 1, Len(s)) \in Seq(S) /\ Len(SubSeq(s, n + 1, Len(s))) = Len(s) - n
  BY <1>1
<1>5. \A i \in 1..(Len(s) - n) : SubSeq(s, n + 1, Len(s))[i] = s[i + n]
  BY <1>1
<1> QED BY <1>2, <1>3, <1>4, <1>5

(* A product of a positive number that is less than it in size is zero.    *)
LEMMA SmallMultiple ==
  ASSUME NEW p \in Nat, p > 0, NEW k \in Int, p * k < p, p * k > -p
  PROVE  k = 0
<1>1. CASE k >= 1
  <2>1. PICK j \in Nat : k = j + 1
    BY <1>1
  <2>2. p * k = p * j + p /\ p * j >= 0
    BY <2>1
  <2> QED BY <2>2
<1>2. CASE k <= -1
  <2>1. PICK j \in Nat : k = -j - 1
    <3>1. -k - 1 \in Nat /\ k = -(-k - 1) - 1
      BY <1>2
    <3> QED BY <3>1
  <2>2. p * k = -(p * j) - p /\ p * j >= 0
    BY <2>1
  <2> QED BY <2>2
<1> QED BY <1>1, <1>2

(* Counting modulo p.                                                      *)
LEMMA NextModulo ==
  ASSUME NEW p \in Nat, p > 1, NEW x \in Nat
  PROVE  /\ x % p \in 0..(p - 1)
         /\ (x + 1) % p = IF x % p = p - 1 THEN 0 ELSE (x % p) + 1
<1> DEFINE a == x \div p
           b == (x + 1) \div p
           r == x % p
           t == (x + 1) % p
<1>1. /\ a \in Int /\ r \in 0..(p - 1) /\ x = p * a + r
  OBVIOUS
<1>2. /\ b \in Int /\ t \in 0..(p - 1) /\ x + 1 = p * b + t
  <2>1. x + 1 \in Nat
    OBVIOUS
  <2> QED BY <2>1
<1> HIDE DEF a, b, r, t
<1>3. CASE r = p - 1
  <2>1. p * (b - a) = p - t
    <3>1. p * (b - a) = p * b - p * a
      BY <1>1, <1>2
    <3> QED BY <1>1, <1>2, <1>3, <3>1
  <2>2. p * (b - a - 1) = -t
    <3>1. p * (b - a - 1) = p * (b - a) - p
      BY <1>1, <1>2
    <3> QED BY <1>2, <2>1, <3>1
  <2>3. b - a - 1 = 0
    <3> DEFINE k == b - a - 1
    <3>1. k \in Int
      BY <1>1, <1>2
    <3> HIDE DEF k
    <3>2. p * k < p /\ p * k > -p
      BY <1>2, <2>2 DEF k
    <3>3. k = 0
      BY <3>1, <3>2, SmallMultiple
    <3> QED BY <3>3 DEF k
  <2>4. t = 0
    BY <1>2, <2>2, <2>3
  <2> QED BY <1>1, <1>3, <2>4 DEF r, t
<1>4. CASE r # p - 1
  <2>1. p * (b - a) = r + 1 - t
    <3>1. p * (b - a) = p * b - p * a
      BY <1>1, <1>2
    <3> QED BY <1>1, <1>2, <3>1
  <2>2. b - a = 0
    <3> DEFINE k == b - a
    <3>1. k \in Int
      BY <1>1, <1>2
    <3> HIDE DEF k
    <3>2. p * k < p /\ p * k > -p
      BY <1>1, <1>2, <1>4, <2>1 DEF k
    <3>3. k = 0
      BY <3>1, <3>2, SmallMultiple
    <3> QED BY <3>3 DEF k
  <2>3. t = r + 1
    BY <1>1, <1>2, <2>1, <2>2
  <2> QED BY <1>1, <1>4, <2>3 DEF r, t
<1> QED BY <1>3, <1>4

(* Taking d away on a part K of S takes the sum of d over K away.          *)
LEMMA SumDrops ==
  ASSUME NEW S, IsFiniteSet(S), NEW K, K \subseteq S, NEW w, NEW v, NEW d,
         \A x \in S : w[x] \in Int /\ v[x] \in Int, \A x \in K : d[x] \in Int,
         \A x \in K : v[x] = w[x] - d[x], \A x \in S \ K : v[x] = w[x]
  PROVE  SumOver(v, S) = SumOver(w, S) - SumOver(d, K)
<1> DEFINE P(T) == SumOver(v, T) = SumOver(w, T) - SumOver(d, T \cap K)
           bad == {T \in SUBSET S : ~P(T)}
<1>1. ASSUME bad # {} PROVE FALSE
  <2>0. bad \subseteq SUBSET S
    OBVIOUS
  <2>1. PICK T \in bad : \A b \in bad : b \subseteq T => b = T
    <3> HIDE DEF bad
    <3> QED BY <1>1, <2>0, SmallestException
  <2>2. T \in SUBSET S /\ IsFiniteSet(T) /\ ~P(T)
    BY <2>1, FS_Subset
  <2>3. T # {}
    <3>1. P({})
      BY SumOfNone
    <3> QED BY <2>2, <3>1
  <2>4. PICK x \in T : TRUE
    BY <2>3
  <2> DEFINE rest == T \ {x}
  <2>5. P(rest) /\ IsFiniteSet(rest)
    BY <2>1, <2>2, FS_Subset
  <2>6. /\ SumOver(v, T) = v[x] + SumOver(v, rest)
        /\ SumOver(w, T) = w[x] + SumOver(w, rest)
    BY <2>2, SumRemoves
  <2>7. /\ SumOver(v, rest) \in Int /\ SumOver(w, rest) \in Int
        /\ v[x] \in Int /\ w[x] \in Int
    BY <2>2, <2>5, SumTyped
  <2>8. CASE x \in K
    <3>1. IsFiniteSet(T \cap K) /\ IsFiniteSet(rest \cap K) /\ (T \cap K) \ {x} = rest \cap K
      BY <2>2, <2>5, FS_Subset
    <3>2. SumOver(d, T \cap K) = d[x] + SumOver(d, rest \cap K)
      BY <2>8, <3>1, SumRemoves
    <3>3. SumOver(d, rest \cap K) \in Int /\ d[x] \in Int /\ v[x] = w[x] - d[x]
      BY <2>8, <3>1, SumTyped
    <3> QED BY <2>2, <2>5, <2>6, <2>7, <3>2, <3>3
  <2>9. CASE x \notin K
    <3>1. T \cap K = rest \cap K /\ v[x] = w[x]
      BY <2>2, <2>9
    <3>2. IsFiniteSet(rest \cap K)
      BY <2>5, FS_Subset
    <3>3. SumOver(d, rest \cap K) \in Int
      BY <3>2, SumTyped
    <3> QED BY <2>2, <2>5, <2>6, <2>7, <3>1, <3>3
  <2> QED BY <2>8, <2>9
<1>2. P(S)
  BY <1>1
<1>3. S \cap K = K
  OBVIOUS
<1> QED BY <1>2, <1>3

(* Nothing adds up to nothing.                                              *)
LEMMA SumOfNoughts ==
  ASSUME NEW S, IsFiniteSet(S), NEW w, \A x \in S : w[x] = 0
  PROVE  SumOver(w, S) = 0
<1>1. SumOver(w, S) \in Int
  BY SumTyped
<1>2. SumOver(w, S) = SumOver(w, S) - SumOver(w, S)
  BY SumDrops
<1> QED BY <1>1, <1>2

(* Where nothing is added, nothing need be counted.                         *)
LEMMA SumOfPart ==
  ASSUME NEW S, IsFiniteSet(S), NEW K, K \subseteq S, NEW w,
         \A x \in S : w[x] \in Int, \A x \in S \ K : w[x] = 0
  PROVE  SumOver(w, S) = SumOver(w, K)
<1> DEFINE v == [x \in S |-> 0]
<1>1. SumOver(v, S) = 0
  BY SumOfNoughts
<1>2. \A x \in S : v[x] = 0
  OBVIOUS
<1> HIDE DEF v
<1>3. SumOver(v, S) = SumOver(w, S) - SumOver(w, K)
  BY <1>2, SumDrops
<1>4. SumOver(w, S) \in Int /\ SumOver(w, K) \in Int
  BY SumTyped, FS_Subset
<1> QED BY <1>1, <1>3, <1>4

(* What one place adds.                                                     *)
LEMMA SumAtOne ==
  ASSUME NEW S, IsFiniteSet(S), NEW x \in S, NEW w, NEW v,
         \A y \in S : w[y] \in Int /\ v[y] \in Int, \A y \in S \ {x} : v[y] = w[y]
  PROVE  SumOver(v, S) - SumOver(w, S) = v[x] - w[x]
<1> DEFINE d == [y \in {x} |-> w[y] - v[y]]
<1>1. d[x] = w[x] - v[x] /\ \A y \in {x} : v[y] = w[y] - d[y] /\ d[y] \in Int
  OBVIOUS
<1> HIDE DEF d
<1>2. SumOver(v, S) = SumOver(w, S) - SumOver(d, {x})
  BY <1>1, SumDrops
<1>3. SumOver(d, {x}) = d[x] + SumOver(d, {})
  <2>1. IsFiniteSet({x}) /\ {x} \ {x} = {}
    BY FS_Singleton
  <2> QED BY <1>1, <2>1, SumRemoves
<1>4. SumOver(d, {}) = 0 /\ SumOver(v, S) \in Int /\ SumOver(w, S) \in Int
  BY SumOfNone, SumTyped
<1> QED BY <1>1, <1>2, <1>3, <1>4

-----------------------------------------------------------------------------
(* Sequences in which no key occurs twice.                                  *)

Distinct(s, K) == \A i, j \in 1..Len(s) : K[s[i]] = K[s[j]] => i = j
Keyed(s, K, key) == {x \in ToSet(s) : K[x] = key}

(* An element is appended to such a sequence.                               *)
LEMMA DistinctAppend ==
  ASSUME NEW S, NEW s \in Seq(S), NEW x \in S, NEW K
  PROVE  Distinct(Append(s, x), K) <=> Distinct(s, K) /\ \A y \in ToSet(s) : K[y] # K[x]
<1> DEFINE t == Append(s, x)
           n == Len(s)
<1>1. /\ Len(t) = n + 1 /\ n \in Nat
      /\ t[n + 1] = x /\ \A i \in 1..n : t[i] = s[i]
  OBVIOUS
<1>2. DOMAIN s = 1..n
  OBVIOUS
<1>3. ToSet(s) = {s[i] : i \in 1..n}
  BY <1>2 DEF ToSet
<1> HIDE DEF t
<1>4. Distinct(t, K) => Distinct(s, K) /\ \A y \in ToSet(s) : K[y] # K[x]
  <2> SUFFICES ASSUME Distinct(t, K)
               PROVE  Distinct(s, K) /\ \A y \in ToSet(s) : K[y] # K[x]
    OBVIOUS
  <2>1. \A i, j \in 1..(n + 1) : K[t[i]] = K[t[j]] => i = j
    BY <1>1 DEF Distinct
  <2>2. \A i, j \in 1..n : K[s[i]] = K[s[j]] => i = j
    BY <1>1, <2>1
  <2>3. \A i \in 1..n : K[s[i]] # K[x]
    <3> SUFFICES ASSUME NEW i \in 1..n, K[s[i]] = K[x] PROVE FALSE
      OBVIOUS
    <3>1. i \in 1..(n + 1) /\ n + 1 \in 1..(n + 1) /\ K[t[i]] = K[t[n + 1]]
      BY <1>1
    <3>2. i = n + 1
      BY <2>1, <3>1
    <3> QED BY <1>1, <3>2
  <2> QED BY <1>3, <2>2, <2>3 DEF Distinct
<1>5. Distinct(s, K) /\ (\A y \in ToSet(s) : K[y] # K[x]) => Distinct(t, K)
  <2> SUFFICES ASSUME Distinct(s, K), \A y \in ToSet(s) : K[y] # K[x],
                      NEW i \in 1..(n + 1), NEW j \in 1..(n + 1), K[t[i]] = K[t[j]]
               PROVE  i = j
    BY <1>1 DEF Distinct
  <2>1. \A l \in 1..n : K[s[l]] # K[x]
    BY <1>3
  <2>2. CASE i \in 1..n /\ j \in 1..n
    BY <1>1, <2>2 DEF Distinct
  <2>3. CASE i = n + 1 \/ j = n + 1
    <3>1. i \in 1..n => i = j
      BY <1>1, <2>1, <2>3
    <3>2. j \in 1..n => i = j
      BY <1>1, <2>1, <2>3
    <3> QED BY <1>1, <2>3, <3>1, <3>2
  <2> QED BY <1>1, <2>2, <2>3
<1> QED BY <1>4, <1>5 DEF t

(* A selection of such a sequence is one.                                   *)
LEMMA AmongDistinct ==
  ASSUME NEW S, NEW s \in Seq(S), NEW K, Distinct(s, K), NEW T
  PROVE  Distinct(Among(s, T), K) /\ Len(Among(s, T)) \in Nat
<1> DEFINE good == {q \in Seq(S) : Distinct(q, K) => Distinct(Among(q, T), K)}
<1>1. <<>> \in good
  BY AmongNone
<1>2. ASSUME NEW q \in Seq(S), NEW x \in S, q \in good
      PROVE  Append(q, x) \in good
  <2> SUFFICES ASSUME Distinct(Append(q, x), K)
               PROVE  Distinct(Among(Append(q, x), T), K)
    OBVIOUS
  <2>1. Distinct(q, K) /\ \A y \in ToSet(q) : K[y] # K[x]
    BY DistinctAppend
  <2>2. Distinct(Among(q, T), K)
    BY <1>2, <2>1
  <2>3. Among(q, T) \in Seq(S) /\ ToSet(Among(q, T)) \subseteq ToSet(q)
    BY AmongMembers
  <2>4. Distinct(Append(Among(q, T), x), K)
    BY <2>1, <2>2, <2>3, DistinctAppend
  <2> QED BY <2>2, <2>4, AmongAppend
<1> HIDE DEF good
<1>3. Seq(S) \subseteq good
  BY <1>1, <1>2, SeqInduction
<1>4. Len(Among(s, T)) \in Nat
  BY AmongMembers
<1> QED BY <1>3, <1>4 DEF good

(* Without the elements of one key it is shorter by one, or as long.        *)
LEMMA AmongOthers ==
  ASSUME NEW S, NEW s \in Seq(S), NEW K, Distinct(s, K), NEW key
  PROVE  LET old == Keyed(s, K, key)
         IN Len(Among(s, ToSet(s) \ old)) = IF old = {} THEN Len(s) ELSE Len(s) - 1
<1> DEFINE of(q) == {x \in ToSet(q) : K[x] = key}
           T == {x \in S : K[x] # key}
           P(q) == Len(Among(q, T)) = IF of(q) = {} THEN Len(q) ELSE Len(q) - 1
           good == {q \in Seq(S) : Distinct(q, K) => P(q)}
<1>1. <<>> \in good
  BY AmongNone, ToSetNone
<1>2. ASSUME NEW q \in Seq(S), NEW x \in S, q \in good
      PROVE  Append(q, x) \in good
  <2> SUFFICES ASSUME Distinct(Append(q, x), K) PROVE P(Append(q, x))
    OBVIOUS
  <2>1. Distinct(q, K) /\ \A y \in ToSet(q) : K[y] # K[x]
    BY DistinctAppend
  <2>2. P(q)
    BY <1>2, <2>1
  <2>3. /\ Among(q, T) \in Seq(S) /\ Len(q) \in Nat /\ Len(Among(q, T)) \in Nat
        /\ Len(Append(q, x)) = Len(q) + 1
        /\ Len(Append(Among(q, T), x)) = Len(Among(q, T)) + 1
    BY AmongMembers
  <2>4. ToSet(Append(q, x)) = ToSet(q) \cup {x}
    BY ToSetAppend
  <2>5. CASE K[x] = key
    <3>1. of(q) = {} /\ of(Append(q, x)) # {}
      BY <2>1, <2>4, <2>5
    <3>2. Among(Append(q, x), T) = Among(q, T)
      BY <2>5, AmongAppend
    <3> HIDE DEF of, T
    <3> QED BY <2>2, <2>3, <3>1, <3>2
  <2>6. CASE K[x] # key
    <3>1. of(q) = of(Append(q, x))
      BY <2>4, <2>6
    <3>2. Among(Append(q, x), T) = Append(Among(q, T), x)
      BY <2>6, AmongAppend
    <3> HIDE DEF of, T
    <3> QED BY <2>2, <2>3, <3>1, <3>2
  <2> QED BY <2>5, <2>6
<1>3. Seq(S) \subseteq good
  <2> HIDE DEF good
  <2> QED BY <1>1, <1>2, SeqInduction
<1>4. P(s)
  BY <1>3
<1>5. ToSet(s) \subseteq S
  <2>1. DOMAIN s = 1..Len(s) /\ \A i \in 1..Len(s) : s[i] \in S
    OBVIOUS
  <2> QED BY <2>1 DEF ToSet
<1>6. Among(s, T) = Among(s, ToSet(s) \ of(s))
  BY <1>5, AmongAgree
<1>7. Keyed(s, K, key) = of(s)
  BY DEF Keyed
<1> HIDE DEF of, T
<1> QED BY <1>4, <1>6, <1>7

=============================================================================
