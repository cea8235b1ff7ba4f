----------------------------- MODULE FoldProofs -----------------------------
(***************************************************************************)
(* What a sum over a finite set comes to.  The community modules add up    *)
(* values with a recursive function on sets, which takes one element away  *)
(* at a time: that such a function exists, and that it does not matter     *)
(* which element goes first, is what has to be shown before anything can   *)
(* be said about a balance (WalletViewProofs) or about how long a chain of *)
(* requests takes (PriceFeedProofs).                                       *)
(*                                                                         *)
(* Induction is by the least counterexample: a number, or a set of which   *)
(* no element can be taken away.                                           *)
(***************************************************************************)
EXTENDS Integers, FiniteSetTheorems, WellFoundedInduction, TLAPS

\* h adds up f over every subset of S, whichever element is taken first.
IsSum(h, f, S) ==
    /\ h \in [SUBSET S -> Nat]
    /\ h[{}] = 0
    /\ \A T \in SUBSET S : \A x \in T : h[T] = f[x] + h[T \ {x}]

\* ch names an element of every subset of S that has one.
Names(ch, S) ==
    /\ ch \in [SUBSET S -> S \cup {{}}]
    /\ \A s \in SUBSET S : s # {} => ch[s] \in s

\* h takes away from each set the element that ch names, adds its value and goes
\* on with the rest: the function a community module folds with.
Folds(h, f, ch, S) ==
    h = [s \in SUBSET S |-> IF s = {} THEN 0 ELSE f[ch[s]] + h[s \ {ch[s]}]]

\* The values of T are the same in both.
SameOn(f, e, T) == \A x \in T : f[x] = e[x]

-----------------------------------------------------------------------------
(* Least counterexamples.                                                  *)

\* A set of numbers has a least one.
LEMMA Least ==
    ASSUME NEW T \in SUBSET Nat, T # {}
    PROVE  \E x \in T : \A y \in T : x <= y
  <1>1. PICK x \in T : \A y \in T : <<y, x>> \notin OpToRel(<, Nat)
    BY NatLessThanWellFounded, WFMin
  <1>2. ASSUME NEW y \in T PROVE x <= y
    <2>1. OpToRel(<, Nat) = {q \in Nat \X Nat : q[1] < q[2]}
      BY DEF OpToRel
    <2>2. ~(y < x)
      BY <1>1, <2>1
    <2>3. QED BY <2>2
  <1>3. QED
    BY <1>2

\* A set of numbers that has a bound has a greatest one.
LEMMA Greatest ==
    ASSUME NEW T \in SUBSET Nat, T # {}, NEW n \in Nat, \A x \in T : x <= n
    PROVE  \E x \in T : \A y \in T : x >= y
  <1> DEFINE K == {k \in Nat : \A y \in T : y <= k}
  <1>1. PICK x \in K : \A y \in K : x <= y
    <2>1. n \in K
      OBVIOUS
    <2> HIDE DEF K
    <2>2. K \in SUBSET Nat
      BY DEF K
    <2>3. QED BY <2>1, <2>2, Least
  <1>2. x \in T
    <2>1. SUFFICES ASSUME x \notin T PROVE FALSE
      OBVIOUS
    <2>2. x # 0
      <3>1. PICK y : y \in T
        OBVIOUS
      <3>2. y \in Nat /\ y <= x /\ y # x
        BY <2>1, <3>1
      <3>3. QED BY <3>2
    <2>3. \A y \in T : y <= x - 1
      BY <2>1
    <2>4. x - 1 \in K /\ ~(x <= x - 1)
      BY <2>2, <2>3
    <2>5. QED BY <1>1, <2>4
  <1>3. QED
    BY <1>2

\* Among subsets of a finite set one is smallest: without any one of its
\* elements it is none of them.
LEMMA Smallest ==
    ASSUME NEW S, IsFiniteSet(S), NEW B \in SUBSET SUBSET S, B # {}
    PROVE  \E T \in B : \A x \in T : T \ {x} \notin B
  <1> DEFINE Size == {Cardinality(T) : T \in B}
  <1>1. ASSUME NEW T \in SUBSET S
        PROVE  /\ IsFiniteSet(T) /\ Cardinality(T) \in Nat
               /\ \A x \in T : Cardinality(T \ {x}) = Cardinality(T) - 1
    BY FS_Subset, FS_CardinalityType, FS_RemoveElement
  <1>2. Size \in SUBSET Nat /\ Size # {}
    BY <1>1
  <1>3. PICK n \in Size : \A m \in Size : n <= m
    BY <1>2, Least
  <1>4. PICK T \in B : Cardinality(T) = n
    BY <1>3
  <1>5. ASSUME NEW x \in T, T \ {x} \in B PROVE FALSE
    <2>1. Cardinality(T \ {x}) = n - 1 /\ n \in Nat
      BY <1>1, <1>4
    <2>2. n <= n - 1
      BY <1>3, <1>5, <2>1
    <2>3. QED BY <2>1, <2>2
  <1>6. QED
    BY <1>4, <1>5

-----------------------------------------------------------------------------
(* The recursive function of a fold.                                       *)

\* There is a function that folds: one that does for the sets of up to n elements
\* makes one for those of n + 1.
LEMMA FoldExists ==
    ASSUME NEW S, IsFiniteSet(S), NEW f \in [S -> Nat], NEW ch, Names(ch, S)
    PROVE  \E h \in [SUBSET S -> Nat] : Folds(h, f, ch, S)
  <1> DEFINE D(n) == {s \in SUBSET S : Cardinality(s) <= n}
             Good(n) == \E h \in [D(n) -> Nat] : \A s \in D(n) :
                          h[s] = IF s = {} THEN 0 ELSE f[ch[s]] + h[s \ {ch[s]}]
             Bad == {n \in Nat : ~Good(n)}
  <1>1. ASSUME NEW s \in SUBSET S
        PROVE  /\ Cardinality(s) \in Nat /\ Cardinality(s) <= Cardinality(S)
               /\ Cardinality(s) = 0 => s = {}
               /\ \A x \in s : Cardinality(s \ {x}) = Cardinality(s) - 1
    BY FS_Subset, FS_CardinalityType, FS_RemoveElement, FS_EmptySet
  <1>2. Bad = {}
    <2>1. SUFFICES ASSUME Bad # {} PROVE FALSE
      OBVIOUS
    <2>2. PICK n \in Bad : \A m \in Bad : n <= m
      BY <2>1, Least
    <2>3. n \in Nat /\ ~Good(n)
      BY <2>2
    <2>4. n # 0
      <3>1. SUFFICES ASSUME n = 0 PROVE FALSE
        OBVIOUS
      <3>2. \A s \in D(0) : s = {}
        BY <1>1
      <3> DEFINE h == [s \in D(0) |-> 0]
      <3>3. h \in [D(0) -> Nat] /\ \A s \in D(0) : h[s] = 0
        OBVIOUS
      <3> HIDE DEF D, h
      <3>4. Good(0)
        BY <3>2, <3>3
      <3>5. QED BY <2>3, <3>1, <3>4
    <2>5. n - 1 \in Nat /\ ~(n <= n - 1)
      BY <2>3, <2>4
    <2>6. Good(n - 1)
      <3> HIDE DEF Good
      <3>1. n - 1 \notin Bad
        BY <2>2, <2>5
      <3>2. QED BY <2>5, <3>1
    <2>7. PICK g \in [D(n - 1) -> Nat] : \A s \in D(n - 1) :
             g[s] = IF s = {} THEN 0 ELSE f[ch[s]] + g[s \ {ch[s]}]
      BY <2>6
    <2> DEFINE h == [s \in D(n) |->
                       IF s = {} THEN 0 ELSE f[ch[s]] + g[s \ {ch[s]}]]
    <2>8. ASSUME NEW s \in D(n), s # {}
          PROVE  ch[s] \in s /\ f[ch[s]] \in Nat /\ s \ {ch[s]} \in D(n - 1)
      <3>1. s \in SUBSET S /\ Cardinality(s) \in Nat /\ Cardinality(s) <= n
        BY <1>1
      <3>2. ch[s] \in s /\ ch[s] \in S
        BY <2>8, <3>1 DEF Names
      <3>3. Cardinality(s \ {ch[s]}) = Cardinality(s) - 1
        BY <1>1, <3>1, <3>2
      <3>4. QED BY <2>3, <3>1, <3>2, <3>3
    <2>9. D(n - 1) \subseteq D(n)
      BY <1>1, <2>3
    <2> HIDE DEF D
    <2>10. h \in [D(n) -> Nat]
      <3>1. ASSUME NEW s \in D(n), s # {}
            PROVE  f[ch[s]] + g[s \ {ch[s]}] \in Nat
        <4>1. f[ch[s]] \in Nat /\ s \ {ch[s]} \in D(n - 1)
          BY <2>8, <3>1
        <4>2. g[s \ {ch[s]}] \in Nat
          BY <2>7, <4>1
        <4>3. QED BY <4>1, <4>2
      <3>2. QED BY <3>1
    <2>11. \A s \in D(n) :
              h[s] = IF s = {} THEN 0 ELSE f[ch[s]] + g[s \ {ch[s]}]
      OBVIOUS
    <2> HIDE DEF h
    <2>12. \A s \in D(n - 1) : h[s] = g[s]
      BY <2>7, <2>9, <2>11
    <2>13. ASSUME NEW s \in D(n)
           PROVE  h[s] = IF s = {} THEN 0 ELSE f[ch[s]] + h[s \ {ch[s]}]
      <3>1. CASE s = {}
        BY <2>11, <3>1
      <3>2. CASE s # {}
        <4>1. h[s \ {ch[s]}] = g[s \ {ch[s]}]
          BY <2>8, <2>12, <3>2
        <4>2. QED BY <2>11, <3>2, <4>1
      <3>3. QED BY <3>1, <3>2
    <2>14. Good(n)
      BY <2>10, <2>13
    <2>15. QED BY <2>3, <2>14
  <1>3. Good(Cardinality(S)) /\ D(Cardinality(S)) = SUBSET S
    <2>1. Cardinality(S) \in Nat
      BY FS_CardinalityType
    <2>2. D(Cardinality(S)) = SUBSET S
      BY <1>1
    <2> HIDE DEF D, Good
    <2>3. QED BY <1>2, <2>1, <2>2
  <1> HIDE DEF D
  <1>4. PICK h \in [SUBSET S -> Nat] : \A s \in SUBSET S :
           h[s] = IF s = {} THEN 0 ELSE f[ch[s]] + h[s \ {ch[s]}]
    BY <1>3
  <1>5. Folds(h, f, ch, S)
    BY <1>4 DEF Folds
  <1>6. QED
    BY <1>5

\* Whichever element such a function takes from each set, it could have taken
\* any other first.
LEMMA AnyFirst ==
    ASSUME NEW S, IsFiniteSet(S), NEW f \in [S -> Nat],
           NEW h \in [SUBSET S -> Nat], h[{}] = 0,
           \A T \in SUBSET S : T # {} => \E x \in T : h[T] = f[x] + h[T \ {x}]
    PROVE  IsSum(h, f, S)
  <1> DEFINE B == {T \in SUBSET S : \E x \in T : h[T] # f[x] + h[T \ {x}]}
  <1>1. SUFFICES ASSUME B # {} PROVE FALSE
    BY DEF IsSum
  <1>2. PICK T \in B : \A x \in T : T \ {x} \notin B
    BY <1>1, Smallest
  <1>3. PICK x \in T : h[T] # f[x] + h[T \ {x}]
    OBVIOUS
  <1>4. PICK y \in T : h[T] = f[y] + h[T \ {y}]
    BY <1>3
  <1>5. x # y /\ T \in SUBSET S
    BY <1>3, <1>4
  <1> DEFINE R == T \ {x, y}
  <1>6. (T \ {x}) \ {y} = R /\ (T \ {y}) \ {x} = R /\ R \in SUBSET S
    BY <1>5
  <1>7. h[T \ {x}] = f[y] + h[R]
    <2>1. T \ {x} \in SUBSET S /\ T \ {x} \notin B /\ y \in T \ {x}
      BY <1>2, <1>5
    <2>2. h[T \ {x}] = f[y] + h[(T \ {x}) \ {y}]
      BY <2>1
    <2>3. QED BY <1>6, <2>2
  <1>8. h[T \ {y}] = f[x] + h[R]
    <2>1. T \ {y} \in SUBSET S /\ T \ {y} \notin B /\ x \in T \ {y}
      BY <1>2, <1>5
    <2>2. h[T \ {y}] = f[x] + h[(T \ {y}) \ {x}]
      BY <2>1
    <2>3. QED BY <1>6, <2>2
  <1>9. f[x] \in Nat /\ f[y] \in Nat /\ h[R] \in Nat
    BY <1>5, <1>6
  <1>10. QED
    BY <1>3, <1>4, <1>7, <1>8, <1>9

\* It is the only one of its kind, and adds up the values: whatever function
\* the module that folds has chosen, this is the one.
LEMMA FoldIsSum ==
    ASSUME NEW S, IsFiniteSet(S), NEW f \in [S -> Nat], NEW ch, Names(ch, S)
    PROVE  \E h : /\ IsSum(h, f, S) /\ Folds(h, f, ch, S)
                  /\ \A g : Folds(g, f, ch, S) => g = h
  <1>1. PICK h \in [SUBSET S -> Nat] : Folds(h, f, ch, S)
    BY FoldExists
  <1>2. ASSUME NEW g, Folds(g, f, ch, S)
        PROVE  /\ DOMAIN g = SUBSET S /\ g[{}] = 0
               /\ \A s \in SUBSET S : s # {} => g[s] = f[ch[s]] + g[s \ {ch[s]}]
    BY <1>2 DEF Folds
  <1>3. h[{}] = 0 /\ \A s \in SUBSET S : s # {} => h[s] = f[ch[s]] + h[s \ {ch[s]}]
    BY <1>1, <1>2
  <1>4. IsSum(h, f, S)
    <2>1. \A s \in SUBSET S : s # {} => \E x \in s : h[s] = f[x] + h[s \ {x}]
      BY <1>3 DEF Names
    <2>2. QED BY <1>3, <2>1, AnyFirst
  <1>5. ASSUME NEW g, Folds(g, f, ch, S) PROVE g = h
    <2> DEFINE B == {s \in SUBSET S : g[s] # h[s]}
    <2>1. B = {}
      <3>1. SUFFICES ASSUME B # {} PROVE FALSE
        OBVIOUS
      <3>2. PICK s \in B : \A x \in s : s \ {x} \notin B
        BY <3>1, Smallest
      <3>3. s \in SUBSET S /\ g[s] # h[s]
        OBVIOUS
      <3>4. s # {}
        BY <1>2, <1>3, <1>5, <3>3
      <3>5. g[s \ {ch[s]}] = h[s \ {ch[s]}]
        BY <3>2, <3>3, <3>4 DEF Names
      <3>6. g[s] = f[ch[s]] + g[s \ {ch[s]}]
        BY <1>2, <1>5, <3>3, <3>4
      <3>7. h[s] = f[ch[s]] + h[s \ {ch[s]}]
        BY <1>3, <3>3, <3>4
      <3>8. QED BY <3>3, <3>5, <3>6, <3>7
    <2>2. DOMAIN g = SUBSET S
      BY <1>2, <1>5
    <2>3. g = [s \in SUBSET S |-> g[s]]
      BY <1>5, <2>2 DEF Folds
    <2>4. QED BY <2>1, <2>3
  <1>6. QED
    BY <1>1, <1>4, <1>5

-----------------------------------------------------------------------------
(* What sums come to.                                                      *)

\* Two sums of the same values are the same, whatever else they could add up.
LEMMA SumsAgree ==
    ASSUME NEW S, NEW R, IsFiniteSet(S), NEW f, NEW e, NEW h, NEW g,
           IsSum(h, f, S), IsSum(g, e, R),
           NEW T, T \in SUBSET S, T \in SUBSET R, SameOn(f, e, T)
    PROVE  h[T] = g[T]
  <1> DEFINE B == {A \in SUBSET T : h[A] # g[A]}
  <1>1. SUFFICES ASSUME B # {} PROVE FALSE
    OBVIOUS
  <1>2. B \in SUBSET SUBSET S
    OBVIOUS
  <1>3. PICK A \in B : \A x \in A : A \ {x} \notin B
    BY <1>1, <1>2, Smallest
  <1>4. A \in SUBSET T /\ h[A] # g[A]
    BY <1>3
  <1>5. CASE A = {}
    BY <1>4, <1>5 DEF IsSum
  <1>6. CASE A # {}
    <2>1. PICK x : x \in A
      BY <1>6
    <2>2. h[A \ {x}] = g[A \ {x}]
      BY <1>3, <1>4, <2>1
    <2>3. h[A] = f[x] + h[A \ {x}] /\ g[A] = e[x] + g[A \ {x}]
      BY <1>4, <2>1 DEF IsSum
    <2>4. f[x] = e[x]
      BY <1>4, <2>1 DEF SameOn
    <2>5. QED BY <1>4, <2>2, <2>3, <2>4
  <1>7. QED BY <1>5, <1>6

\* Two sums together count twice what is in both.
LEMMA SumTwo ==
    ASSUME NEW S, IsFiniteSet(S), NEW f \in [S -> Nat], NEW h, IsSum(h, f, S),
           NEW A \in SUBSET S, NEW C \in SUBSET S
    PROVE  h[A] + h[C] = h[A \cup C] + h[A \cap C]
  <1> DEFINE B == {T \in SUBSET A : h[T] + h[C] # h[T \cup C] + h[T \cap C]}
  <1>1. SUFFICES ASSUME B # {} PROVE FALSE
    OBVIOUS
  <1>2. B \in SUBSET SUBSET S
    OBVIOUS
  <1>3. PICK T \in B : \A x \in T : T \ {x} \notin B
    BY <1>1, <1>2, Smallest
  <1>4. T \in SUBSET A /\ h[T] + h[C] # h[T \cup C] + h[T \cap C]
    BY <1>3
  <1>5. \A R \in SUBSET S : h[R] \in Nat
    BY DEF IsSum
  <1>6. T # {}
    <2>1. SUFFICES ASSUME T = {} PROVE FALSE
      OBVIOUS
    <2>2. T \cup C = C /\ T \cap C = {} /\ h[{}] = 0
      BY <2>1 DEF IsSum
    <2>3. QED BY <1>4, <1>5, <2>1, <2>2
  <1>7. PICK x : x \in T
    BY <1>6
  <1> DEFINE R == T \ {x}
  <1>8. /\ R \in SUBSET S /\ R \cup C \in SUBSET S /\ R \cap C \in SUBSET S
        /\ R \in SUBSET A /\ x \in S /\ T \in SUBSET S
    BY <1>4, <1>7
  <1>9. h[R] + h[C] = h[R \cup C] + h[R \cap C]
    BY <1>3, <1>7, <1>8
  <1>10. h[T] = f[x] + h[R] /\ f[x] \in Nat
    BY <1>4, <1>7, <1>8 DEF IsSum
  <1>11. /\ h[R] \in Nat /\ h[C] \in Nat
         /\ h[R \cup C] \in Nat /\ h[R \cap C] \in Nat
    BY <1>5, <1>8
  <1> HIDE DEF R
  <1>12. CASE x \in C
    <2>1. T \cup C = R \cup C
      BY <1>7, <1>12 DEF R
    <2>2. x \in T \cap C /\ (T \cap C) \ {x} = R \cap C /\ T \cap C \in SUBSET S
      BY <1>7, <1>8, <1>12 DEF R
    <2>3. h[T \cap C] = f[x] + h[R \cap C]
      BY <2>2 DEF IsSum
    <2>4. h[T] + h[C] = h[R \cup C] + (f[x] + h[R \cap C])
      BY <1>9, <1>10, <1>11
    <2>5. QED BY <1>4, <2>1, <2>3, <2>4
  <1>13. CASE x \notin C
    <2>1. T \cap C = R \cap C
      BY <1>7, <1>13 DEF R
    <2>2. x \in T \cup C /\ (T \cup C) \ {x} = R \cup C /\ T \cup C \in SUBSET S
      BY <1>7, <1>8, <1>13 DEF R
    <2>3. h[T \cup C] = f[x] + h[R \cup C]
      BY <2>2 DEF IsSum
    <2>4. h[T] + h[C] = (f[x] + h[R \cup C]) + h[R \cap C]
      BY <1>9, <1>10, <1>11
    <2>5. QED BY <1>4, <2>1, <2>3, <2>4
  <1>14. QED BY <1>12, <1>13
=============================================================================
