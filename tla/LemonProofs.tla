---------------------------- MODULE LemonProofs ----------------------------
(***************************************************************************)
(* The parser generator and the parser it makes, for every grammar:        *)
(* FindStates finds the whole automaton, FindFollowSets ends with exactly  *)
(* what can follow, FindActions decides every conflict or reports it,      *)
(* ReportTable packs rows that are all found again and writes tables in    *)
(* which lempar.c finds what the states do, and a parser with these tables *)
(* accepts nothing but sentences of the grammar.                           *)
(*                                                                         *)
(* Inductive invariants of the generator: StatesInv for the first half of  *)
(* a run, TablesInv for the second, ConflictsInv for FindActions between   *)
(* them, WrittenInv for what the actions name and what is written of them, *)
(* StartInv and SoundInv for the configurations an action comes from.      *)
(* ParsingInv is that of the parser: the states under its stack are a way  *)
(* through the automaton, and what is on the stack has been read.          *)
(*                                                                         *)
(* What is grown to a fixed point (closures, follow sets, derivations) is  *)
(* grown by a recursive function, and what is sorted is placed by how many *)
(* come before it: first what these make of finite sets, then the          *)
(* structures of lemon.c in the order in which main() builds them, then    *)
(* the parser.                                                             *)
(***************************************************************************)
EXTENDS Parsing, SequenceTheorems, FiniteSetTheorems, TLAPS

-----------------------------------------------------------------------------
(***************************************************************************)
(* Sorting: a finite set in a strict total order.                          *)
(***************************************************************************)

\* A strict total order.
IsStrictOrder(S, order) ==
    /\ order \in SUBSET (S \X S)
    /\ \A x \in S : <<x, x>> \notin order
    /\ \A x, y, z \in S : <<x, y>> \in order /\ <<y, z>> \in order => <<x, z>> \in order
    /\ \A x, y \in S : x # y => <<x, y>> \in order \/ <<y, x>> \in order

\* A finite set sorted in a strict order: each element is in the sequence, and nothing else.
LEMMA SortedInOrder ==
    ASSUME NEW S, IsFiniteSet(S), NEW order, IsStrictOrder(S, order)
    PROVE  /\ Cardinality(S) \in Nat
           /\ Sorted(S, order) \in [1 .. Cardinality(S) -> S]
           /\ \A x \in S : \E i \in 1 .. Cardinality(S) : Sorted(S, order)[i] = x
           /\ \A i, j \in 1 .. Cardinality(S) :
                i < j => <<Sorted(S, order)[i], Sorted(S, order)[j]>> \in order
<1> DEFINE n == Cardinality(S)
           lower(x) == {y \in S : <<y, x>> \in order}
           rank == [x \in S |-> Cardinality(lower(x)) + 1]
<1>1. n \in Nat
  BY FS_CardinalityType
<1>2. ASSUME NEW x \in S
      PROVE  IsFiniteSet(lower(x)) /\ Cardinality(lower(x)) \in 0 .. n - 1
  <2>1. lower(x) \in SUBSET (S \ {x})
    BY DEF IsStrictOrder
  <2>2. IsFiniteSet(S \ {x}) /\ Cardinality(S \ {x}) = n - 1
    BY FS_RemoveElement
  <2> HIDE DEF lower
  <2>3. IsFiniteSet(lower(x)) /\ Cardinality(lower(x)) <= Cardinality(S \ {x})
    BY <2>1, <2>2, FS_Subset
  <2>4. Cardinality(lower(x)) \in Nat
    BY <2>3, FS_CardinalityType
  <2> QED
    BY <1>1, <2>2, <2>3, <2>4
<1>3. ASSUME NEW x \in S, NEW y \in S, <<x, y>> \in order
      PROVE  Cardinality(lower(x)) < Cardinality(lower(y))
  <2>1. lower(x) \in SUBSET lower(y) /\ x \in lower(y) /\ x \notin lower(x)
    BY <1>3 DEF IsStrictOrder
  <2>2. IsFiniteSet(lower(y))
    BY <1>2
  <2>3. lower(x) # lower(y)
    BY <2>1
  <2> HIDE DEF lower
  <2>4. Cardinality(lower(x)) \in Int /\ Cardinality(lower(y)) \in Int
    BY <1>1, <1>2
  <2>5. Cardinality(lower(x)) <= Cardinality(lower(y)) /\ Cardinality(lower(x)) # Cardinality(lower(y))
    BY <2>1, <2>2, <2>3, FS_Subset
  <2> QED
    BY <2>4, <2>5
<1>4. rank \in [S -> 1 .. n]
  <2>1. ASSUME NEW x \in S PROVE Cardinality(lower(x)) + 1 \in 1 .. n
    <3> HIDE DEF lower
    <3> QED
      BY <1>1, <1>2
  <2> QED
    BY <2>1
<1>5. ASSUME NEW x \in S, NEW y \in S, rank[x] = rank[y]
      PROVE  x = y
  <2>1. Cardinality(lower(x)) = Cardinality(lower(y))
    BY <1>5, <1>1, <1>2
  <2>2. <<x, y>> \notin order /\ <<y, x>> \notin order
    <3> HIDE DEF lower
    <3>1. Cardinality(lower(x)) \in Int /\ Cardinality(lower(y)) \in Int
      BY <1>1, <1>2
    <3> QED
      BY <1>3, <2>1, <3>1
  <2> QED
    BY <2>2 DEF IsStrictOrder
<1>6. rank \in Injection(S, 1 .. n)
  BY <1>4, <1>5 DEF Injection, IsInjective
<1>7. \A i \in 1 .. n : \E x \in S : rank[x] = i
  <2>1. IsFiniteSet(1 .. n) /\ Cardinality(1 .. n) = n
    BY <1>1, FS_Interval
  <2>2. rank \in Surjection(S, 1 .. n)
    BY <1>6, <2>1, FS_Injection
  <2> QED
    BY <2>2 DEF Surjection
<1> DEFINE placed == {<<rank[x], x>> : x \in S}
<1>8. Sorted(S, order) = [i \in 1 .. n |-> (CHOOSE p \in placed : p[1] = i)[2]]
  BY DEF Sorted
<1>9. ASSUME NEW x \in S PROVE (CHOOSE p \in placed : p[1] = rank[x])[2] = x
  <2>1. <<rank[x], x>> \in placed /\ <<rank[x], x>>[1] = rank[x]
    OBVIOUS
  <2>2. ASSUME NEW p \in placed, p[1] = rank[x] PROVE p = <<rank[x], x>>
    <3>1. PICK y \in S : p = <<rank[y], y>>
      OBVIOUS
    <3> HIDE DEF rank
    <3> QED
      BY <1>5, <2>2, <3>1
  <2> HIDE DEF placed
  <2>3. (CHOOSE p \in placed : p[1] = rank[x]) = <<rank[x], x>>
    BY <2>1, <2>2
  <2>4. <<rank[x], x>>[2] = x
    OBVIOUS
  <2> QED
    BY <2>3, <2>4, Zenon
<1>10. \A x, y \in S : <<x, y>> \in order => rank[x] < rank[y]
  <2>1. ASSUME NEW x \in S, NEW y \in S, <<x, y>> \in order PROVE rank[x] < rank[y]
    <3>1. Cardinality(lower(x)) < Cardinality(lower(y))
      BY <1>3, <2>1
    <3>2. rank[x] = Cardinality(lower(x)) + 1 /\ rank[y] = Cardinality(lower(y)) + 1
      OBVIOUS
    <3> HIDE DEF lower, rank
    <3>3. Cardinality(lower(x)) \in Int /\ Cardinality(lower(y)) \in Int
      BY <1>1, <1>2
    <3> QED
      BY <3>1, <3>2, <3>3
  <2> QED
    BY <2>1
<1> HIDE DEF rank, placed
<1>11. \A i \in 1 .. n : Sorted(S, order)[i] \in S
  BY <1>7, <1>8, <1>9
<1>12. Sorted(S, order) \in [1 .. n -> S]
  BY <1>8, <1>11
<1>13. \A x \in S : Sorted(S, order)[rank[x]] = x
  BY <1>4, <1>8, <1>9
<1>14. ASSUME NEW i \in 1 .. n, NEW j \in 1 .. n, i < j
       PROVE  <<Sorted(S, order)[i], Sorted(S, order)[j]>> \in order
  <2>1. PICK x \in S : rank[x] = i
    BY <1>7
  <2>2. PICK y \in S : rank[y] = j
    BY <1>7
  <2>3. Sorted(S, order)[i] = x /\ Sorted(S, order)[j] = y
    BY <1>13, <2>1, <2>2
  <2>4. x # y /\ <<y, x>> \notin order
    BY <1>1, <1>14, <2>1, <2>2, <1>10
  <2>5. <<x, y>> \in order
    BY <2>4 DEF IsStrictOrder
  <2> QED
    BY <2>3, <2>5
<1> QED
  BY <1>1, <1>4, <1>12, <1>13, <1>14

-----------------------------------------------------------------------------
(***************************************************************************)
(* The least of some numbers, induction and recursion.                     *)
(***************************************************************************)

\* Of numbers one is the least.
LEMMA LeastOfNat ==
    ASSUME NEW S \in SUBSET Nat, S # {}
    PROVE  \E m \in S : \A n \in S : m <= n
<1>1. PICK m \in S : \A n \in S : ~ (<<n, m>> \in OpToRel(<, Nat))
  BY NatLessThanWellFounded, WFMin
<1>2. ASSUME NEW n \in S PROVE m <= n
  <2>1. <<n, m>> \in OpToRel(<, Nat) <=> n < m
    BY DEF OpToRel
  <2>2. ~ (n < m)
    BY <1>1, <2>1, Zenon
  <2>3. m \in Nat /\ n \in Nat
    OBVIOUS
  <2> QED
    BY <2>2, <2>3
<1> QED
  BY <1>2

-----------------------------------------------------------------------------
(***************************************************************************)
(* Growing a set until nothing is added.                                   *)
(***************************************************************************)

\* A set of numbers that has 0, and k + 1 when it has k, has them all.
LEMMA Induction ==
    ASSUME NEW S \in SUBSET Nat, 0 \in S, \A k \in S : k + 1 \in S
    PROVE  \A k \in Nat : k \in S
<1> DEFINE bad == Nat \ S
<1>1. ASSUME bad # {} PROVE FALSE
  <2>1. PICK m \in bad : \A n \in bad : m <= n
    BY <1>1, LeastOfNat
  <2>2. m # 0
    OBVIOUS
  <2>3. m - 1 \in Nat /\ m - 1 \notin bad
    BY <2>1, <2>2
  <2>4. (m - 1) + 1 \in S
    BY <2>3
  <2> QED
    BY <2>3, <2>4
<1> QED
  BY <1>1

\* A function on the numbers can be defined by its values one after the other.
LEMMA Recursion ==
    ASSUME NEW E, NEW e0 \in E, NEW F \in [E -> E]
    PROVE  \E r \in [Nat -> E] :
             /\ r[0] = e0
             /\ \A k \in Nat : k # 0 => r[k] = F[r[k - 1]]
<1> DEFINE upto(n) == {h \in [0 .. n -> E] : h[0] = e0 /\ \A k \in 1 .. n : h[k] = F[h[k - 1]]}
           P == {n \in Nat : upto(n) # {}}
<1>1. \A n \in Nat : upto(n) # {}
  <2>1. 0 \in P
    <3>1. [k \in 0 .. 0 |-> e0] \in upto(0)
      OBVIOUS
    <3> QED
      BY <3>1
  <2>2. ASSUME NEW n \in P PROVE n + 1 \in P
    <3>1. PICK h \in upto(n) : TRUE
      BY <2>2
    <3> DEFINE more == [k \in 0 .. n + 1 |-> IF k = n + 1 THEN F[h[n]] ELSE h[k]]
    <3>2. more \in [0 .. n + 1 -> E] /\ more[0] = e0
      OBVIOUS
    <3>3. ASSUME NEW k \in 1 .. n + 1 PROVE more[k] = F[more[k - 1]]
      OBVIOUS
    <3> HIDE DEF more
    <3>4. more \in upto(n + 1)
      BY <3>2, <3>3
    <3> QED
      BY <3>4
  <2> HIDE DEF upto
  <2>3. P \in SUBSET Nat
    OBVIOUS
  <2> HIDE DEF P
  <2>4. \A k \in Nat : k \in P
    BY <2>1, <2>2, <2>3, Induction
  <2> QED
    BY <2>4 DEF P
<1>2. ASSUME NEW n \in Nat, NEW h1 \in upto(n + 1), NEW h2 \in upto(n)
      PROVE  h1[n] = h2[n]
  <2> DEFINE Q == {k \in Nat : k <= n => h1[k] = h2[k]}
  <2>1. 0 \in Q
    OBVIOUS
  <2>2. ASSUME NEW k \in Q PROVE k + 1 \in Q
    BY <2>2
  <2>3. Q \in SUBSET Nat
    OBVIOUS
  <2> HIDE DEF Q, upto
  <2>4. n \in Q
    BY <2>1, <2>2, <2>3, Induction
  <2> QED
    BY <2>4 DEF Q
<1> DEFINE some(n) == CHOOSE h : h \in upto(n)
           r == [n \in Nat |-> some(n)[n]]
<1>3. \A n \in Nat : some(n) \in upto(n)
  BY <1>1
<1>4. r \in [Nat -> E]
  <2>1. ASSUME NEW n \in Nat PROVE some(n)[n] \in E
    <3>1. some(n) \in upto(n)
      BY <1>3
    <3> HIDE DEF some
    <3> QED
      BY <3>1
  <2> HIDE DEF some
  <2> QED
    BY <2>1
<1>5. ASSUME NEW k \in Nat PROVE r[k] = IF k = 0 THEN e0 ELSE F[r[k - 1]]
  <2>1. CASE k = 0
    BY <1>3, <2>1
  <2>2. CASE k # 0
    <3>1. k - 1 \in Nat /\ (k - 1) + 1 = k
      BY <2>2
    <3>2. some(k) \in upto(k) /\ some(k - 1) \in upto(k - 1)
      BY <1>3, <3>1
    <3>3. some(k)[k - 1] = some(k - 1)[k - 1]
      <4> HIDE DEF upto, some
      <4> QED
        BY <1>2, <3>1, <3>2
    <3>4. some(k)[k] = F[some(k)[k - 1]]
      <4>1. k \in 1 .. k
        BY <2>2
      <4> HIDE DEF some
      <4> QED
        BY <3>2, <4>1
    <3> HIDE DEF some
    <3> QED
      BY <2>2, <3>1, <3>3, <3>4
  <2> QED
    BY <2>1, <2>2
<1> HIDE DEF r, some
<1>6. r[0] = e0 /\ \A k \in Nat : k # 0 => r[k] = F[r[k - 1]]
  BY <1>5
<1> QED
  BY <1>4, <1>6

\* r[k] is what up to k steps of f make of a set.
IsGrown(r, f, D) ==
    /\ r \in [Nat -> [D -> D]]
    /\ \A X \in D : \A n \in Nat : Grown(f, X, n) = r[n][X]
    /\ \A k \in Nat : \A Y \in D :
         r[k][Y] = IF k = 0 \/ f[Y] = Y THEN Y ELSE r[k - 1][f[Y]]

\* Growing from all sets at once is a function of the number of steps left.
LEMMA GrownByStep ==
    ASSUME NEW D, NEW f \in [D -> D]
    PROVE  \E r : IsGrown(r, f, D)
<1> DEFINE E == [D -> D]
           e0 == [Y \in D |-> Y]
           F == [h \in E |-> [Y \in D |-> IF f[Y] = Y THEN Y ELSE h[f[Y]]]]
<1>1. e0 \in E /\ F \in [E -> E]
  OBVIOUS
<1>2. PICK r \in [Nat -> E] : r[0] = e0 /\ \A k \in Nat : k # 0 => r[k] = F[r[k - 1]]
  <2> HIDE DEF E, e0, F
  <2> QED
    BY <1>1, Recursion
<1>3. ASSUME NEW k \in Nat, NEW Y \in D
      PROVE  r[k][Y] = IF k = 0 \/ f[Y] = Y THEN Y ELSE r[k - 1][f[Y]]
  <2>1. CASE k = 0
    BY <1>2, <2>1
  <2>2. CASE k # 0
    <3>1. r[k - 1] \in E
      BY <2>2
    <3>2. F[r[k - 1]][Y] = IF f[Y] = Y THEN Y ELSE r[k - 1][f[Y]]
      BY <3>1
    <3>3. r[k] = F[r[k - 1]]
      BY <1>2, <2>2
    <3> HIDE DEF F
    <3> QED
      BY <2>2, <3>2, <3>3
  <2> QED
    BY <2>1, <2>2
<1> DEFINE Defines(h) == h = [k \in Nat |-> [Y \in DOMAIN f |->
             LET more == f[Y] IN IF k = 0 \/ more = Y THEN Y ELSE h[k - 1][more]]]
<1>4. Defines(r)
  BY <1>3
<1> DEFINE grown == CHOOSE h : Defines(h)
<1>5. Defines(grown)
  <2> HIDE DEF Defines
  <2> QED
    BY <1>4
<1>6. \A X \in D : \A n \in Nat : Grown(f, X, n) = grown[n][X]
  BY DEF Grown
<1> HIDE DEF grown
<1> DEFINE P == {k \in Nat : \A Y \in D : grown[k][Y] = r[k][Y]}
<1>7. ASSUME NEW k \in Nat, NEW Y \in D
      PROVE  grown[k][Y] = IF k = 0 \/ f[Y] = Y THEN Y ELSE grown[k - 1][f[Y]]
  BY <1>5
<1>8. \A k \in Nat : k \in P
  <2>1. 0 \in P
    BY <1>3, <1>7
  <2>2. ASSUME NEW k \in P PROVE k + 1 \in P
    BY <1>3, <1>7, <2>2
  <2>3. P \in SUBSET Nat
    OBVIOUS
  <2> HIDE DEF P
  <2> QED
    BY <2>1, <2>2, <2>3, Induction
<1> QED
  BY <1>3, <1>6, <1>8 DEF IsGrown

-----------------------------------------------------------------------------
(***************************************************************************)
(* What a function that adds to sets makes of one: growing to a fixed point.*)
(***************************************************************************)

\* f adds to the subsets of U.
IsGrowth(f, U) ==
    /\ f \in [SUBSET U -> SUBSET U]
    /\ \A Y \in SUBSET U : Y \subseteq f[Y]

\* What has been grown holds the first set, f adds nothing to it, and it lies
\* in every set that does and to whose subsets f adds nothing from outside.
LEMMA Growth ==
    ASSUME NEW U, IsFiniteSet(U), NEW f, IsGrowth(f, U), NEW X \in SUBSET U
    PROVE  LET R == Grown(f, X, Cardinality(U))
           IN  /\ R \in SUBSET U /\ X \subseteq R /\ f[R] = R
               /\ \A C \in SUBSET U :
                    X \subseteq C /\ (\A Y \in SUBSET C : f[Y] \subseteq C) => R \subseteq C
<1> DEFINE n == Cardinality(U)
           Closed(C) == \A Y \in SUBSET C : f[Y] \subseteq C
<1>1. PICK r : IsGrown(r, f, SUBSET U)
  BY GrownByStep DEF IsGrowth
<1>1a. /\ r \in [Nat -> [SUBSET U -> SUBSET U]]
       /\ \A Z \in SUBSET U : \A m \in Nat : Grown(f, Z, m) = r[m][Z]
       /\ \A k \in Nat : \A Y \in SUBSET U :
            r[k][Y] = IF k = 0 \/ f[Y] = Y THEN Y ELSE r[k - 1][f[Y]]
  BY <1>1 DEF IsGrown
<1>2. n \in Nat /\ \A Y \in SUBSET U : Cardinality(Y) \in Nat
  BY FS_CardinalityType, FS_Subset
<1>3. \A Y \in SUBSET U : f[Y] \in SUBSET U /\ Y \subseteq f[Y]
  BY DEF IsGrowth
<1> DEFINE Good(k, Y) ==
             /\ Y \subseteq r[k][Y]
             /\ \A C \in SUBSET U : Y \subseteq C /\ Closed(C) => r[k][Y] \subseteq C
             /\ n - Cardinality(Y) <= k => f[r[k][Y]] = r[k][Y]
           P == {k \in Nat : \A Y \in SUBSET U : Good(k, Y)}
<1>4. 0 \in P
  <2>1. ASSUME NEW Y \in SUBSET U PROVE Good(0, Y)
    <3>1. r[0][Y] = Y
      BY <1>1a
    <3>2. ASSUME n - Cardinality(Y) <= 0 PROVE f[Y] = Y
      <4>1. Cardinality(Y) = n
        BY <1>2, <3>2, FS_Subset
      <4>2. Y = U
        BY <4>1, FS_Subset
      <4> QED
        BY <1>3, <4>2
    <3> QED
      BY <3>1, <3>2
  <2> QED
    BY <2>1
<1>5. ASSUME NEW k \in P PROVE k + 1 \in P
  <2>1. k \in Nat /\ k + 1 \in Nat /\ k + 1 # 0 /\ (k + 1) - 1 = k
    OBVIOUS
  <2>2. ASSUME NEW Y \in SUBSET U PROVE Good(k + 1, Y)
    <3>1. CASE f[Y] = Y
      BY <1>1a, <2>1, <3>1
    <3>2. CASE f[Y] # Y
      <4> DEFINE Z == f[Y]
      <4>1. Z \in SUBSET U /\ Y \subseteq Z
        BY <1>3
      <4>2. r[k + 1][Y] = r[k][Z]
        BY <1>1a, <2>1, <3>2
      <4>3. Good(k, Z)
        BY <4>1
      <4>4. Y \subseteq r[k + 1][Y]
        BY <4>1, <4>2, <4>3
      <4>5. ASSUME NEW C \in SUBSET U, Y \subseteq C, Closed(C)
            PROVE  r[k + 1][Y] \subseteq C
        BY <4>5, <4>2, <4>3
      <4>6. ASSUME n - Cardinality(Y) <= k + 1
            PROVE  f[r[k + 1][Y]] = r[k + 1][Y]
        <5>1. IsFiniteSet(Z)
          BY <4>1, FS_Subset
        <5>2. Cardinality(Y) <= Cardinality(Z) /\ Cardinality(Y) # Cardinality(Z)
          BY <3>2, <4>1, <5>1, FS_Subset
        <5>3. Cardinality(Y) \in Nat /\ Cardinality(Z) \in Nat
          BY <1>2, <4>1
        <5>3a. n \in Nat /\ k \in Nat
          BY <1>2
        <5> HIDE DEF Z, n, P
        <5>4. n - Cardinality(Z) <= k
          BY <5>3a, <4>6, <5>2, <5>3
        <5> QED
          BY <4>2, <4>3, <5>4
      <4> HIDE DEF Z, n
      <4> QED
        BY <4>4, <4>5, <4>6
    <3> HIDE DEF Good
    <3> QED
      BY <3>1, <3>2
  <2> HIDE DEF Good
  <2> QED
    BY <2>1, <2>2
<1>6. n \in P
  BY <1>2, <1>4, <1>5, Induction
<1>7. Grown(f, X, n) = r[n][X] /\ Good(n, X)
  BY <1>1a, <1>2, <1>6
<1>8. n - Cardinality(X) <= n
  BY <1>2
<1>9. r[n][X] \in SUBSET U
  BY <1>1a, <1>2
<1> HIDE DEF n
<1> QED
  BY <1>7, <1>8, <1>9 DEF n

-----------------------------------------------------------------------------
(***************************************************************************)
(* Grammars and configurations.                                            *)
(***************************************************************************)

\* What is known of a grammar that is read.
LEMMA PartsOfGrammar ==
    ASSUME NEW gr, IsGrammar(gr)
    PROVE  /\ gr.nterminal \in Nat \ {0} /\ gr.nsymbol \in Nat /\ gr.nterminal < gr.nsymbol
           /\ Len(gr.rules) \in Nat \ {0} /\ Rules(gr) = 1 .. Len(gr.rules)
           /\ \A r \in Rules(gr) :
                /\ gr.rules[r].lhs \in Nonterminals(gr)
                /\ gr.rules[r].rhs \in Seq(0 .. gr.nsymbol - 1)
<1> DEFINE T == [lhs : Nonterminals(gr), rhs : Seq(0 .. gr.nsymbol - 1), code : BOOLEAN]
<1>1. gr.nterminal \in Nat \ {0} /\ gr.nsymbol \in Nat /\ gr.nterminal < gr.nsymbol
  BY DEF IsGrammar
<1>2. gr.rules \in Seq(T) /\ gr.rules # << >>
  BY DEF IsGrammar
<1>3. Len(gr.rules) \in Nat \ {0} /\ DOMAIN gr.rules = 1 .. Len(gr.rules)
  <2> HIDE DEF T
  <2> QED
    BY <1>2, EmptySeq
<1>4. \A r \in DOMAIN gr.rules : gr.rules[r] \in T
  <2> HIDE DEF T
  <2> QED
    BY <1>2, ElementOfSeq
<1>5. ASSUME NEW r \in Rules(gr)
      PROVE  /\ gr.rules[r].lhs \in Nonterminals(gr)
             /\ gr.rules[r].rhs \in Seq(0 .. gr.nsymbol - 1)
  BY <1>4 DEF Rules
<1> QED
  BY <1>1, <1>3, <1>5 DEF Rules

\* The values of a function on a finite set.
LEMMA FiniteImage ==
    ASSUME NEW h, IsFiniteSet(DOMAIN h)
    PROVE  IsFiniteSet({h[x] : x \in DOMAIN h})
<1> DEFINE S == DOMAIN h
           T == {h[x] : x \in DOMAIN h}
           e == [x \in S |-> h[x]]
<1>1. e \in Surjection(S, T)
  BY DEF Surjection
<1> HIDE DEF e, T
<1>2. IsFiniteSet(T)
  BY <1>1, FS_Surjection
<1> QED
  BY <1>2 DEF T

\* A configuration is a rule with a dot in it or at its end.
LEMMA ConfigParts ==
    ASSUME NEW gr, IsGrammar(gr), NEW c \in Configs(gr)
    PROVE  /\ c = <<c[1], c[2]>> /\ c[1] \in Rules(gr) /\ c[1] \in Nat
           /\ c[2] \in Nat /\ c[2] <= Len(gr.rules[c[1]].rhs)
           /\ gr.rules[c[1]].rhs \in Seq(0 .. gr.nsymbol - 1)
           /\ Len(gr.rules[c[1]].rhs) \in Nat
<1>0. PICK r \in Rules(gr) : c \in {<<r, dot>> : dot \in 0 .. Len(gr.rules[r].rhs)}
  BY DEF Configs
<1>1. PICK dot \in 0 .. Len(gr.rules[r].rhs) : c = <<r, dot>>
  BY <1>0
<1>2. r \in Nat /\ gr.rules[r].rhs \in Seq(0 .. gr.nsymbol - 1)
  BY PartsOfGrammar
<1>3. Len(gr.rules[r].rhs) \in Nat
  BY <1>2
<1> QED
  BY <1>1, <1>2, <1>3

\* A rule with a dot is a configuration.
LEMMA ConfigIn ==
    ASSUME NEW gr, IsGrammar(gr), NEW r \in Rules(gr),
           NEW dot \in 0 .. Len(gr.rules[r].rhs)
    PROVE  <<r, dot>> \in Configs(gr)
  BY DEF Configs

\* A grammar has finitely many configurations.
LEMMA ConfigsFinite ==
    ASSUME NEW gr, IsGrammar(gr)
    PROVE  IsFiniteSet(Configs(gr))
<1> DEFINE of(r) == {<<r, dot>> : dot \in 0 .. Len(gr.rules[r].rhs)}
<1>1. ASSUME NEW r \in Rules(gr) PROVE IsFiniteSet(of(r))
  <2> DEFINE n == Len(gr.rules[r].rhs)
             h == [dot \in 0 .. n |-> <<r, dot>>]
  <2>1. gr.rules[r].rhs \in Seq(0 .. gr.nsymbol - 1)
    BY PartsOfGrammar
  <2>2. n \in Int
    BY <2>1
  <2>3. of(r) = {h[x] : x \in DOMAIN h} /\ DOMAIN h = 0 .. n
    OBVIOUS
  <2> HIDE DEF n, h, of
  <2>4. IsFiniteSet(DOMAIN h)
    BY <2>2, <2>3, FS_Interval
  <2> QED
    BY <2>3, <2>4, FiniteImage
<1> DEFINE all == [r \in Rules(gr) |-> of(r)]
<1>2. IsFiniteSet(DOMAIN all)
  BY PartsOfGrammar, FS_Interval
<1>3. IsFiniteSet({all[r] : r \in DOMAIN all})
  BY <1>2, FiniteImage
<1>4. Configs(gr) = UNION {all[r] : r \in DOMAIN all}
  BY DEF Configs
<1>5. \A T \in {all[r] : r \in DOMAIN all} : IsFiniteSet(T)
  BY <1>1
<1> HIDE DEF all
<1> QED
  BY <1>3, <1>4, <1>5, FS_UNION

\* A dot that is not at the end can move over a symbol of the grammar.
LEMMA SymbolAfterDot ==
    ASSUME NEW gr, IsGrammar(gr), NEW c \in Configs(gr), Shiftable(gr, c)
    PROVE  /\ SymbolAfter(gr, c) \in 0 .. gr.nsymbol - 1
           /\ <<c[1], c[2] + 1>> \in Configs(gr)
           /\ RestAfter(gr, c) \in Seq(0 .. gr.nsymbol - 1)
<1> DEFINE rhs == gr.rules[c[1]].rhs
<1>1. /\ c[1] \in Rules(gr) /\ c[2] \in Nat /\ rhs \in Seq(0 .. gr.nsymbol - 1)
      /\ Len(rhs) \in Nat
  BY ConfigParts
<1>2. c[2] < Len(rhs)
  BY DEF Shiftable
<1> HIDE DEF rhs
<1>3. c[2] + 1 \in 1 .. Len(rhs) /\ c[2] + 1 \in 0 .. Len(rhs)
  BY <1>1, <1>2
<1>4. rhs[c[2] + 1] \in 0 .. gr.nsymbol - 1
  BY <1>1, <1>3, ElementOfSeq
<1>5. <<c[1], c[2] + 1>> \in Configs(gr)
  BY <1>1, <1>3, ConfigIn DEF rhs
<1>6. SubSeq(rhs, c[2] + 2, Len(rhs)) \in Seq(0 .. gr.nsymbol - 1)
  <2>1. \A i \in c[2] + 2 .. Len(rhs) : i \in 1 .. Len(rhs)
    BY <1>1
  <2>2. \A i \in c[2] + 2 .. Len(rhs) : rhs[i] \in 0 .. gr.nsymbol - 1
    BY <1>1, <2>1, ElementOfSeq
  <2>3. c[2] + 2 \in Int /\ Len(rhs) \in Int
    BY <1>1
  <2> QED
    BY <2>2, <2>3, SubSeqProperties
<1> QED
  BY <1>4, <1>5, <1>6 DEF rhs, SymbolAfter, RestAfter

\* What a configuration brings with it are configurations.
LEMMA BroughtAreConfigs ==
    ASSUME NEW gr, IsGrammar(gr), NEW c
    PROVE  Brought(gr, c) \subseteq Configs(gr)
<1>1. ASSUME NEW r \in Rules(gr) PROVE <<r, 0>> \in Configs(gr)
  <2>1. gr.rules[r].rhs \in Seq(0 .. gr.nsymbol - 1)
    BY PartsOfGrammar
  <2>2. 0 \in 0 .. Len(gr.rules[r].rhs)
    BY <2>1
  <2> QED
    BY <2>2, ConfigIn
<1> QED
  BY <1>1 DEF Brought, RulesOf

\* The closure of a basis holds it and whatever its configurations bring in.
LEMMA ClosureCloses ==
    ASSUME NEW gr, IsGrammar(gr), NEW basis \in SUBSET Configs(gr)
    PROVE  /\ Closure(gr, basis) \in SUBSET Configs(gr)
           /\ basis \subseteq Closure(gr, basis)
           /\ \A c \in Closure(gr, basis) : Brought(gr, c) \subseteq Closure(gr, basis)
<1> DEFINE U == Configs(gr)
           F == [cfp \in SUBSET U |-> cfp \cup UNION {Brought(gr, c) : c \in cfp}]
           R == Grown(F, basis, Cardinality(U))
<1>1. Closure(gr, basis) = R
  BY DEF Closure
<1>2. IsGrowth(F, U)
  BY BroughtAreConfigs DEF IsGrowth
<1>3. IsFiniteSet(U)
  BY ConfigsFinite
<1>4. R \in SUBSET U /\ basis \subseteq R /\ F[R] = R
  <2> HIDE DEF F
  <2> QED
    BY <1>2, <1>3, Growth
<1> HIDE DEF R
<1>5. \A c \in R : Brought(gr, c) \subseteq F[R]
  BY <1>4
<1> QED
  BY <1>1, <1>4, <1>5

\* What a string can begin with are terminals.
LEMMA FirstsAreTerminals ==
    ASSUME NEW gr, IsGrammar(gr), NEW lambda,
           NEW first \in [Nonterminals(gr) -> SUBSET Terminals(gr)],
           NEW symbols \in Seq(0 .. gr.nsymbol - 1)
    PROVE  FirstOf(gr, lambda, first, symbols) \subseteq Terminals(gr)
<1>1. gr.nterminal \in Nat /\ gr.nsymbol \in Nat
  BY PartsOfGrammar
<1>2. ASSUME NEW i \in DOMAIN symbols
      PROVE  (IF symbols[i] \in Terminals(gr) THEN {symbols[i]} ELSE first[symbols[i]])
               \subseteq Terminals(gr)
  BY ElementOfSeq, <1>1 DEF Terminals, Nonterminals
<1> QED
  BY <1>2 DEF FirstOf

-----------------------------------------------------------------------------
(***************************************************************************)
(* The states under construction.                                          *)
(***************************************************************************)

\* Functions on configurations.
Maps(gr, S) == UNION {[C -> S] : C \in SUBSET Configs(gr)}

\* States, and calls of buildshifts.
StateSet(gr) ==
    [bp : SUBSET Configs(gr), cfp : SUBSET Configs(gr),
     shifts : SUBSET [sp : 0 .. gr.nsymbol - 1, x : Nat],
     bplp : Maps(gr, SUBSET (Nat \X Configs(gr))),
     fws : Maps(gr, SUBSET Terminals(gr)), fplp : Maps(gr, SUBSET Configs(gr))]

CallSet(gr) == [place : Nat, todo : SUBSET Configs(gr)]

\* What is known of a configuration is known of those of the state.
IsState(gr, st) ==
    /\ st.cfp = Closure(gr, st.bp)
    /\ DOMAIN st.bplp = st.bp /\ DOMAIN st.fws = st.cfp /\ DOMAIN st.fplp = st.cfp
    /\ \A c \in st.cfp : st.fplp[c] \subseteq st.cfp

\* The configurations with the dot before a symbol, and with the dot moved over it.
Awaiting(gr, cfp, sp) == {c \in cfp : Shiftable(gr, c) /\ SymbolAfter(gr, c) = sp}
Moved(c) == <<c[1], c[2] + 1>>
Goto(gr, cfp, sp) == {Moved(c) : c \in Awaiting(gr, cfp, sp)}

\* A shift leads to the state its symbol moves the configurations to, and each
\* of them is linked back to where it comes from.
Goes(gr, sts, k) ==
    \A s \in sts[k].shifts :
      /\ s.x \in DOMAIN sts
      /\ sts[s.x].bp = Goto(gr, sts[k].cfp, s.sp)
      /\ \A c \in Awaiting(gr, sts[k].cfp, s.sp) : <<k, c>> \in sts[s.x].bplp[Moved(c)]

\* What a call has left to do is of its state, and all there is for a symbol.
IsCall(gr, sts, call) ==
    /\ call.place \in DOMAIN sts
    /\ \A c \in call.todo :
         /\ c \in sts[call.place].cfp /\ Shiftable(gr, c)
         /\ Awaiting(gr, sts[call.place].cfp, SymbolAfter(gr, c)) \subseteq call.todo

\* An automaton under construction, with the calls that are still to build it: no basis has two
\* states.
IsAutomaton(gr, sts, cs) ==
    /\ sts \in Seq(StateSet(gr)) /\ cs \in Seq(CallSet(gr))
    /\ \A k \in DOMAIN sts : IsState(gr, sts[k]) /\ Goes(gr, sts, k)
    /\ \A k, l \in DOMAIN sts : sts[k].bp = sts[l].bp => k = l
    /\ \A i \in DOMAIN cs : IsCall(gr, sts, cs[i])

\* A call is still to move over the symbol after the dot.
Due(cs, k, c) == \E i \in DOMAIN cs : cs[i].place = k /\ c \in cs[i].todo

\* Every symbol is shifted, now or later.
NoneForgotten(gr, sts, cs) ==
    \A k \in DOMAIN sts : \A c \in sts[k].cfp :
      Shiftable(gr, c) =>
        Due(cs, k, c) \/ \E s \in sts[k].shifts : s.sp = SymbolAfter(gr, c)

\* What nonterminals begin with.
IsFirsts(gr, fi) == fi.first \in [Nonterminals(gr) -> SUBSET Terminals(gr)]

-----------------------------------------------------------------------------

\* A state with more shifts.
WithShifts(sts, k, Y) == [sts EXCEPT ![k].shifts = @ \cup Y]

\* A shift added to one state changes nothing else.
LEMMA ShiftAdded ==
    ASSUME NEW gr, NEW sts \in Seq(StateSet(gr)), NEW k \in DOMAIN sts,
           NEW Y \in SUBSET [sp : 0 .. gr.nsymbol - 1, x : Nat]
    PROVE  LET T == WithShifts(sts, k, Y)
           IN  /\ T \in Seq(StateSet(gr)) /\ DOMAIN T = DOMAIN sts
               /\ \A j \in DOMAIN sts :
                    /\ T[j].bp = sts[j].bp /\ T[j].cfp = sts[j].cfp
                    /\ T[j].bplp = sts[j].bplp
                    /\ T[j].fws = sts[j].fws /\ T[j].fplp = sts[j].fplp
                    /\ j # k => T[j] = sts[j]
               /\ T[k].shifts = sts[k].shifts \cup Y
<1> DEFINE T == [sts EXCEPT ![k].shifts = @ \cup Y]
<1>1. DOMAIN sts = 1 .. Len(sts) /\ Len(sts) \in Nat
  OBVIOUS
<1>2. \A j \in DOMAIN sts : sts[j] \in StateSet(gr)
  BY <1>1, ElementOfSeq
<1>3. DOMAIN T = DOMAIN sts /\ \A j \in DOMAIN sts : j # k => T[j] = sts[j]
  OBVIOUS
<1>4. T[k] = [sts[k] EXCEPT !.shifts = sts[k].shifts \cup Y]
  OBVIOUS
<1>5. /\ T[k] \in StateSet(gr)
      /\ T[k].bp = sts[k].bp /\ T[k].cfp = sts[k].cfp
      /\ T[k].bplp = sts[k].bplp
      /\ T[k].fws = sts[k].fws /\ T[k].fplp = sts[k].fplp
      /\ T[k].shifts = sts[k].shifts \cup Y
  BY <1>2, <1>4 DEF StateSet
<1> HIDE DEF T
<1>6. T \in Seq(StateSet(gr))
  BY <1>2, <1>3, <1>5, <1>1 DEF T
<1>7. \A j \in DOMAIN sts :
                    /\ T[j].bp = sts[j].bp /\ T[j].cfp = sts[j].cfp
                    /\ T[j].bplp = sts[j].bplp
                    /\ T[j].fws = sts[j].fws /\ T[j].fplp = sts[j].fplp
  BY <1>3, <1>5
<1> QED
  BY <1>3, <1>5, <1>6, <1>7 DEF T, WithShifts

\* getstate that finds its state adds the links of the new basis to those it has, and changes
\* nothing else.
LEMMA LinksCopied ==
    ASSUME NEW gr, NEW sts \in Seq(StateSet(gr)), NEW k \in DOMAIN sts,
           NEW bplp \in [sts[k].bp -> SUBSET (Nat \X Configs(gr))],
           DOMAIN sts[k].bplp = sts[k].bp
    PROVE  LET T == CopyLinks(sts, k, bplp)
           IN  /\ T \in Seq(StateSet(gr)) /\ DOMAIN T = DOMAIN sts
               /\ \A j \in DOMAIN sts :
                    /\ T[j].bp = sts[j].bp /\ T[j].cfp = sts[j].cfp
                    /\ T[j].shifts = sts[j].shifts
                    /\ T[j].fws = sts[j].fws /\ T[j].fplp = sts[j].fplp
                    /\ DOMAIN T[j].bplp = DOMAIN sts[j].bplp
                    /\ \A c \in DOMAIN sts[j].bplp : sts[j].bplp[c] \subseteq T[j].bplp[c]
               /\ \A c \in sts[k].bp : bplp[c] \subseteq T[k].bplp[c]
<1> DEFINE new == [c \in DOMAIN bplp |-> sts[k].bplp[c] \cup bplp[c]]
           T == [sts EXCEPT ![k].bplp = new]
<1>0. CopyLinks(sts, k, bplp) = T
  BY DEF CopyLinks
<1>1. DOMAIN sts = 1 .. Len(sts) /\ Len(sts) \in Nat
  OBVIOUS
<1>2. \A j \in DOMAIN sts : sts[j] \in StateSet(gr)
  BY <1>1, ElementOfSeq
<1>2a. DOMAIN new = sts[k].bp /\ \A c \in sts[k].bp : new[c] = sts[k].bplp[c] \cup bplp[c]
  OBVIOUS
<1>2b. new \in Maps(gr, SUBSET (Nat \X Configs(gr)))
  BY <1>2 DEF StateSet, Maps
<1> HIDE DEF new
<1>3. DOMAIN T = DOMAIN sts /\ \A j \in DOMAIN sts : j # k => T[j] = sts[j]
  OBVIOUS
<1>4. T[k] = [sts[k] EXCEPT !.bplp = new]
  OBVIOUS
<1>5. /\ T[k] \in StateSet(gr)
      /\ T[k].bp = sts[k].bp /\ T[k].cfp = sts[k].cfp
      /\ T[k].shifts = sts[k].shifts
      /\ T[k].fws = sts[k].fws /\ T[k].fplp = sts[k].fplp
      /\ T[k].bplp = new
  BY <1>2, <1>2b, <1>4 DEF StateSet
<1> HIDE DEF T
<1>6. T \in Seq(StateSet(gr))
  BY <1>2, <1>3, <1>5, <1>1 DEF T
<1>7. ASSUME NEW j \in DOMAIN sts
      PROVE         /\ T[j].bp = sts[j].bp /\ T[j].cfp = sts[j].cfp
                    /\ T[j].shifts = sts[j].shifts
                    /\ T[j].fws = sts[j].fws /\ T[j].fplp = sts[j].fplp
                    /\ DOMAIN T[j].bplp = DOMAIN sts[j].bplp
                    /\ \A c \in DOMAIN sts[j].bplp : sts[j].bplp[c] \subseteq T[j].bplp[c]
  BY <1>2a, <1>5, <1>3
<1>8. \A c \in sts[k].bp : bplp[c] \subseteq T[k].bplp[c]
  BY <1>2a, <1>5
<1> QED
  BY <1>0, <1>3, <1>6, <1>7, <1>8

\* A new state has the closure of its basis, with what is known of each of its configurations.
LEMMA StateMade ==
    ASSUME NEW gr, IsGrammar(gr), NEW fi, IsFirsts(gr, fi),
           NEW basis \in SUBSET Configs(gr), NEW fws \in SUBSET Terminals(gr),
           NEW bplp \in [basis -> SUBSET (Nat \X Configs(gr))]
    PROVE  LET st == NewState(gr, fi, basis, fws, bplp)
           IN  /\ st \in StateSet(gr) /\ IsState(gr, st)
               /\ st.bp = basis /\ st.shifts = {} /\ st.bplp = bplp
<1> DEFINE cfp == Closure(gr, basis)
           By(d) == {c \in cfp : d \in Brought(gr, c)}
           follow1 == [d \in cfp |->
                    (IF d \in basis THEN fws ELSE {})
                    \cup UNION {FirstOf(gr, fi.lambda, fi.first, RestAfter(gr, c)) :
                                  c \in By(d)}]
           forward == [c \in cfp |->
                     IF Shiftable(gr, c) /\ Range(RestAfter(gr, c)) \subseteq fi.lambda
                     THEN Brought(gr, c) ELSE {}]
           st == [bp |-> basis, cfp |-> cfp, shifts |-> {}, bplp |-> bplp,
                  fws |-> follow1, fplp |-> forward]
<1>1. NewState(gr, fi, basis, fws, bplp) = st
  BY DEF NewState
<1>2. cfp \in SUBSET Configs(gr) /\ \A c \in cfp : Brought(gr, c) \subseteq cfp
  BY ClosureCloses
<1>3. follow1 \in [cfp -> SUBSET Terminals(gr)]
  <2>1. ASSUME NEW d \in cfp, NEW c \in By(d)
        PROVE  FirstOf(gr, fi.lambda, fi.first, RestAfter(gr, c)) \subseteq Terminals(gr)
    BY <1>2, SymbolAfterDot, FirstsAreTerminals DEF Brought, IsFirsts
  <2> HIDE DEF cfp, By
  <2> QED
    BY <2>1
<1>4. forward \in [cfp -> SUBSET Configs(gr)] /\ \A c \in cfp : forward[c] \subseteq cfp
  BY <1>2
<1> HIDE DEF cfp, By, follow1, forward
<1>5. st \in StateSet(gr)
  BY <1>2, <1>3, <1>4 DEF Maps, StateSet
<1>6. IsState(gr, st)
  BY <1>3, <1>4 DEF cfp, IsState
<1> QED
  BY <1>1, <1>5, <1>6

\* getstate keeps all there is and comes up with a state for the basis.
Keeps(sts, T) ==
    /\ DOMAIN sts \subseteq DOMAIN T
    /\ \A k \in DOMAIN sts :
         /\ T[k].bp = sts[k].bp /\ T[k].cfp = sts[k].cfp /\ T[k].shifts = sts[k].shifts
         /\ \A c \in DOMAIN sts[k].bplp : sts[k].bplp[c] \subseteq T[k].bplp[c]

\* A call is still right when states are added or linked.
LEMMA KeepingCalls ==
    ASSUME NEW gr, NEW sts, NEW T, Keeps(sts, T), NEW call, IsCall(gr, sts, call)
    PROVE  IsCall(gr, T, call)
  BY DEF Keeps, IsCall

\* The shifts of a state still go where they went.
LEMMA KeepingGoes ==
    ASSUME NEW gr, NEW sts, NEW T, Keeps(sts, T), NEW k \in DOMAIN sts, Goes(gr, sts, k),
           \A j \in DOMAIN sts : DOMAIN sts[j].bplp = sts[j].bp
    PROVE  Goes(gr, T, k)
<1> SUFFICES ASSUME NEW s \in T[k].shifts
             PROVE  /\ s.x \in DOMAIN T
                    /\ T[s.x].bp = Goto(gr, T[k].cfp, s.sp)
                    /\ \A c \in Awaiting(gr, T[k].cfp, s.sp) : <<k, c>> \in T[s.x].bplp[Moved(c)]
  BY DEF Goes
<1>1. T[k].cfp = sts[k].cfp /\ T[k].shifts = sts[k].shifts
  BY DEF Keeps
<1>2. /\ s.x \in DOMAIN sts
      /\ sts[s.x].bp = Goto(gr, sts[k].cfp, s.sp)
      /\ \A c \in Awaiting(gr, sts[k].cfp, s.sp) : <<k, c>> \in sts[s.x].bplp[Moved(c)]
  BY <1>1 DEF Goes
<1>3. /\ s.x \in DOMAIN T /\ T[s.x].bp = sts[s.x].bp
      /\ \A c \in sts[s.x].bp : sts[s.x].bplp[c] \subseteq T[s.x].bplp[c]
  BY <1>2 DEF Keeps
<1>4. ASSUME NEW c \in Awaiting(gr, sts[k].cfp, s.sp) PROVE <<k, c>> \in T[s.x].bplp[Moved(c)]
  BY <1>2, <1>3 DEF Goto
<1> QED
  BY <1>1, <1>2, <1>3, <1>4

\* getstate finds a state with the basis.
LEMMA StateFound ==
    ASSUME NEW gr, NEW sts, NEW cs, IsAutomaton(gr, sts, cs),
           NEW basis \in SUBSET Configs(gr),
           NEW bplp \in [basis -> SUBSET (Nat \X Configs(gr))],
           NEW k \in DOMAIN sts, sts[k].bp = basis
    PROVE  LET T == CopyLinks(sts, k, bplp)
           IN  /\ IsAutomaton(gr, T, cs) /\ Keeps(sts, T) /\ DOMAIN T = DOMAIN sts
               /\ \A c \in basis : bplp[c] \subseteq T[k].bplp[c]
<1> DEFINE T == CopyLinks(sts, k, bplp)
<1>1. /\ sts \in Seq(StateSet(gr)) /\ cs \in Seq(CallSet(gr))
      /\ \A j \in DOMAIN sts : IsState(gr, sts[j]) /\ Goes(gr, sts, j)
      /\ \A i, j \in DOMAIN sts : sts[i].bp = sts[j].bp => i = j
      /\ \A i \in DOMAIN cs : IsCall(gr, sts, cs[i])
  BY DEF IsAutomaton
<1>2. \A j \in DOMAIN sts : DOMAIN sts[j].bplp = sts[j].bp
  BY <1>1 DEF IsState
<1>3. /\ T \in Seq(StateSet(gr)) /\ DOMAIN T = DOMAIN sts
               /\ \A j \in DOMAIN sts :
                    /\ T[j].bp = sts[j].bp /\ T[j].cfp = sts[j].cfp
                    /\ T[j].shifts = sts[j].shifts
                    /\ T[j].fws = sts[j].fws /\ T[j].fplp = sts[j].fplp
                    /\ DOMAIN T[j].bplp = DOMAIN sts[j].bplp
                    /\ \A c \in DOMAIN sts[j].bplp : sts[j].bplp[c] \subseteq T[j].bplp[c]
               /\ \A c \in sts[k].bp : bplp[c] \subseteq T[k].bplp[c]
  BY <1>1, <1>2, LinksCopied
<1> HIDE DEF T
<1>4. Keeps(sts, T)
  BY <1>3 DEF Keeps
<1>5. \A j \in DOMAIN T : IsState(gr, T[j])
  BY <1>1, <1>3 DEF IsState
<1>6. \A j \in DOMAIN T : Goes(gr, T, j)
  BY <1>1, <1>2, <1>3, <1>4, KeepingGoes
<1>7. \A i \in DOMAIN cs : IsCall(gr, T, cs[i])
  BY <1>1, <1>4, KeepingCalls
<1>8. \A i, j \in DOMAIN T : T[i].bp = T[j].bp => i = j
  BY <1>1, <1>3
<1>9. IsAutomaton(gr, T, cs)
  BY <1>1, <1>3, <1>5, <1>6, <1>7, <1>8 DEF IsAutomaton
<1> QED
  BY <1>3, <1>4, <1>9 DEF T

\* The call of buildshifts for a state that has become the last.
NewCall(gr, sts, st) ==
    [place |-> Len(sts) + 1, todo |-> {c \in st.cfp : Shiftable(gr, c)}]

\* getstate finds none and adds one, with a call of buildshifts for it.
LEMMA StateAdded ==
    ASSUME NEW gr, NEW sts, NEW cs, IsAutomaton(gr, sts, cs),
           NEW new \in StateSet(gr), IsState(gr, new), new.shifts = {},
           \A j \in DOMAIN sts : sts[j].bp # new.bp
    PROVE  /\ IsAutomaton(gr, Append(sts, new), <<NewCall(gr, sts, new)>> \o cs)
           /\ Keeps(sts, Append(sts, new))
           /\ DOMAIN Append(sts, new) = DOMAIN sts \cup {Len(sts) + 1}
           /\ Len(sts) + 1 \notin DOMAIN sts
           /\ Append(sts, new)[Len(sts) + 1] = new
<1> DEFINE T == Append(sts, new)
           n == Len(sts) + 1
           call == [place |-> n, todo |-> {c \in new.cfp : Shiftable(gr, c)}]
           ds == <<call>> \o cs
<1>1. /\ sts \in Seq(StateSet(gr)) /\ cs \in Seq(CallSet(gr))
      /\ \A j \in DOMAIN sts : IsState(gr, sts[j]) /\ Goes(gr, sts, j)
      /\ \A i, j \in DOMAIN sts : sts[i].bp = sts[j].bp => i = j
      /\ \A i \in DOMAIN cs : IsCall(gr, sts, cs[i])
  BY DEF IsAutomaton
<1>2. \A j \in DOMAIN sts : DOMAIN sts[j].bplp = sts[j].bp
  BY <1>1 DEF IsState
<1>3a. new.cfp \in SUBSET Configs(gr)
  BY DEF StateSet
<1>4. /\ T \in Seq(StateSet(gr)) /\ Len(sts) \in Nat /\ DOMAIN sts = 1 .. Len(sts)
      /\ DOMAIN T = DOMAIN sts \cup {n} /\ n \notin DOMAIN sts
      /\ T[n] = new /\ \A j \in DOMAIN sts : T[j] = sts[j]
  BY <1>1, AppendProperties
<1> HIDE DEF T
<1>5. Keeps(sts, T)
  BY <1>4 DEF Keeps
<1>6. \A j \in DOMAIN T : IsState(gr, T[j])
  BY <1>1, <1>4
<1>7. ASSUME NEW j \in DOMAIN T PROVE Goes(gr, T, j)
  BY <1>1, <1>2, <1>5, KeepingGoes, <1>4 DEF Goes
<1>8. \A i, j \in DOMAIN T : T[i].bp = T[j].bp => i = j
  BY <1>1, <1>4
<1>9. call \in CallSet(gr) /\ IsCall(gr, T, call)
  BY <1>4, <1>3a DEF CallSet, Awaiting, IsCall
<1> HIDE DEF call
<1>10. ds \in Seq(CallSet(gr)) /\ \A i \in DOMAIN ds : IsCall(gr, T, ds[i])
  <2>1. <<call>> \in Seq(CallSet(gr)) /\ Len(<<call>>) = 1
    BY <1>9
  <2>2. /\ ds \in Seq(CallSet(gr)) /\ Len(ds) = 1 + Len(cs)
        /\ \A i \in 1 .. Len(ds) : ds[i] = IF i <= 1 THEN call ELSE cs[i - 1]
    BY <1>1, <2>1, ConcatProperties
  <2>3. ASSUME NEW i \in 1 .. Len(ds) PROVE IsCall(gr, T, ds[i])
    <3>1. Len(cs) \in Nat /\ DOMAIN cs = 1 .. Len(cs)
      BY <1>1
    <3>2. CASE i <= 1
      BY <1>9, <2>2, <3>2
    <3>3. CASE ~ (i <= 1)
      <4>1. ds[i] = cs[i - 1]
        BY <2>2, <3>3
      <4>2. i - 1 \in DOMAIN cs
        BY <2>2, <3>1, <3>3
      <4> QED
        BY <1>1, <1>5, <4>1, <4>2, KeepingCalls
    <3> QED
      BY <3>2, <3>3
  <2>4. DOMAIN ds = 1 .. Len(ds)
    BY <2>2
  <2> QED
    BY <2>2, <2>3, <2>4
<1> HIDE DEF ds
<1>11. IsAutomaton(gr, T, ds)
  BY <1>4, <1>6, <1>7, <1>8, <1>10 DEF IsAutomaton
<1> QED
  BY <1>4, <1>5, <1>11 DEF T, ds, call, NewCall

\* What Due says of the calls afterwards, for all that was due and all that is new.
StillDue(gr, sts, cs, T, ds) ==
    \A k \in DOMAIN T : \A c \in T[k].cfp :
      Shiftable(gr, c) /\ (k \in DOMAIN sts => Due(cs, k, c)) => Due(ds, k, c)

\* getstate, either way: there is one state more or none, and none is in it twice.
LEMMA StateGot ==
    ASSUME NEW gr, IsGrammar(gr), NEW fi, IsFirsts(gr, fi),
           NEW sts, NEW cs, IsAutomaton(gr, sts, cs),
           NEW basis \in SUBSET Configs(gr), NEW fws \in SUBSET Terminals(gr),
           NEW bplp \in [basis -> SUBSET (Nat \X Configs(gr))]
    PROVE  LET got == getstate(gr, fi, sts, cs, basis, fws, bplp)
           IN  /\ got = [states |-> got.states, calls |-> got.calls]
               /\ IsAutomaton(gr, got.states, got.calls) /\ Keeps(sts, got.states)
               /\ \E k \in DOMAIN got.states :
                    /\ got.states[k].bp = basis
                    /\ \A c \in basis : bplp[c] \subseteq got.states[k].bplp[c]
               /\ StillDue(gr, sts, cs, got.states, got.calls)
<1> DEFINE same == {k \in DOMAIN sts : sts[k].bp = basis}
           got == getstate(gr, fi, sts, cs, basis, fws, bplp)
<1>1. CASE same # {}
  <2> DEFINE k == CHOOSE k \in same : TRUE
             T == CopyLinks(sts, k, bplp)
  <2>1. k \in same
    BY <1>1
  <2>2. got = [states |-> T, calls |-> cs]
    BY <1>1 DEF getstate
  <2> HIDE DEF got, k
  <2>3. k \in DOMAIN sts /\ sts[k].bp = basis
    BY <2>1
  <2> HIDE DEF T, same
  <2>4. /\ IsAutomaton(gr, T, cs) /\ Keeps(sts, T) /\ DOMAIN T = DOMAIN sts
        /\ \A c \in basis : bplp[c] \subseteq T[k].bplp[c]
    BY <2>3, StateFound DEF T
  <2>5. got.states = T /\ got.calls = cs
    BY <2>2
  <2>6. T[k].bp = basis
    BY <2>3, <2>4 DEF Keeps
  <2>7. StillDue(gr, sts, cs, T, cs)
    BY <2>4 DEF StillDue
  <2> HIDE DEF got
  <2> QED
    BY <2>2, <2>3, <2>4, <2>5, <2>6, <2>7 DEF got
<1>2. CASE same = {}
  <2> DEFINE new == NewState(gr, fi, basis, fws, bplp)
             T == Append(sts, new)
             n == Len(sts) + 1
             call == NewCall(gr, sts, new)
             ds == <<call>> \o cs
  <2>1. got = [states |-> T, calls |-> ds]
    BY <1>2 DEF getstate, NewCall
  <2>2. /\ new \in StateSet(gr) /\ IsState(gr, new)
        /\ new.bp = basis /\ new.shifts = {} /\ new.bplp = bplp
    <3> HIDE DEF got
    <3>1. /\ IsGrammar(gr) /\ IsFirsts(gr, fi) /\ basis \in SUBSET Configs(gr)
          /\ fws \in SUBSET Terminals(gr) /\ bplp \in [basis -> SUBSET (Nat \X Configs(gr))]
      OBVIOUS
    <3> QED
      BY ONLY <3>1, StateMade DEF new
  <2>2a. \A j \in DOMAIN sts : sts[j].bp # new.bp
    BY <1>2, <2>2
  <2> HIDE DEF new, got
  <2>3. /\ IsAutomaton(gr, T, ds) /\ Keeps(sts, T)
        /\ DOMAIN T = DOMAIN sts \cup {n} /\ n \notin DOMAIN sts
        /\ T[n] = new
    BY <2>2, <2>2a, StateAdded
  <2>4. got.states = T /\ got.calls = ds
    BY <2>1
  <2>4a. call.place = n /\ call.todo = {c \in new.cfp : Shiftable(gr, c)}
    BY DEF NewCall
  <2>5. cs \in Seq(CallSet(gr))
    BY DEF IsAutomaton
  <2>6. ds[1] = call /\ 1 \in DOMAIN ds /\ \A i \in DOMAIN cs : i + 1 \in DOMAIN ds /\ ds[i + 1] = cs[i]
    BY <2>5
  <2> HIDE DEF ds, T, n, call
  <2>7. StillDue(gr, sts, cs, T, ds)
    BY <2>6, <2>3, <2>4a DEF Due, StillDue
  <2>8. got = [states |-> got.states, calls |-> got.calls]
    BY <2>1, <2>4
  <2> QED
    BY <2>2, <2>3, <2>4, <2>7, <2>8 DEF got
<1> QED
  BY <1>1, <1>2

\* Of some configurations, or other pairs of numbers, one is the first.
LEMMA LeastConfig ==
    ASSUME NEW C, C # {}, \A c \in C : c[1] \in Nat /\ c[2] \in Nat /\ c = <<c[1], c[2]>>
    PROVE  \E c \in C : \A d \in C : d = c \/ Configcmp(c, d)
<1> DEFINE R == {c[1] : c \in C}
<1>1. PICK r \in R : \A q \in R : r <= q
  <2>1. R \in SUBSET Nat /\ R # {}
    OBVIOUS
  <2> HIDE DEF R
  <2> QED
    BY <2>1, LeastOfNat
<1> DEFINE D == {c[2] : c \in {b \in C : b[1] = r}}
<1>2. PICK d \in D : \A e \in D : d <= e
  <2>1. D \in SUBSET Nat /\ D # {}
    OBVIOUS
  <2> HIDE DEF D
  <2> QED
    BY <2>1, LeastOfNat
<1>3. PICK c \in C : c[1] = r /\ c[2] = d
  OBVIOUS
<1>4. ASSUME NEW b \in C PROVE b = c \/ Configcmp(c, b)
  BY <1>1, <1>2, <1>3 DEF Configcmp
<1> QED
  BY <1>4

\* The configuration buildshifts begins with is one of those left.
LEMMA FirstConfigIn ==
    ASSUME NEW gr, IsGrammar(gr), NEW C \in SUBSET Configs(gr), C # {}
    PROVE  FirstConfig(C) \in C
<1>1. \A c \in C : c[1] \in Nat /\ c[2] \in Nat /\ c = <<c[1], c[2]>>
  BY ConfigParts
<1>2. \E c \in C : \A d \in C : d = c \/ Configcmp(c, d)
  BY <1>1, LeastConfig
<1> QED
  BY <1>2 DEF FirstConfig

\* A call with the configurations for one symbol less to do is one.
LEMMA CallAdvanced ==
    ASSUME NEW gr, IsGrammar(gr), NEW sts, NEW cs, IsAutomaton(gr, sts, cs), cs # << >>,
           NEW moved, NEW sp, moved = Awaiting(gr, sts[cs[1].place].cfp, sp)
    PROVE  LET ds == [cs EXCEPT ![1].todo = @ \ moved]
           IN  /\ IsAutomaton(gr, sts, ds) /\ DOMAIN ds = DOMAIN cs
               /\ ds[1].place = cs[1].place /\ ds[1].todo = cs[1].todo \ moved
               /\ \A i \in DOMAIN cs : i # 1 => ds[i] = cs[i]
<1> DEFINE ds == [cs EXCEPT ![1].todo = @ \ moved]
<1>1. cs \in Seq(CallSet(gr)) /\ \A i \in DOMAIN cs : IsCall(gr, sts, cs[i])
  BY DEF IsAutomaton
<1>2. Len(cs) \in Nat \ {0} /\ DOMAIN cs = 1 .. Len(cs) /\ 1 \in DOMAIN cs
  BY <1>1, EmptySeq
<1>3. \A i \in DOMAIN cs : cs[i] \in CallSet(gr)
  BY <1>1, <1>2, ElementOfSeq
<1>4. DOMAIN ds = DOMAIN cs /\ \A i \in DOMAIN cs : i # 1 => ds[i] = cs[i]
  OBVIOUS
<1>5. ds[1] = [cs[1] EXCEPT !.todo = cs[1].todo \ moved]
  BY <1>2
<1>6. /\ ds[1] \in CallSet(gr) /\ ds[1].place = cs[1].place
      /\ ds[1].todo = cs[1].todo \ moved
  BY <1>2, <1>3, <1>5 DEF CallSet
<1>7. ds \in Seq(CallSet(gr))
  <2>1. ds = [i \in 1 .. Len(cs) |-> ds[i]]
    BY <1>2
  <2> HIDE DEF ds
  <2>2. \A i \in 1 .. Len(cs) : ds[i] \in CallSet(gr)
    BY <1>2, <1>3, <1>4, <1>6
  <2>3. ds \in [1 .. Len(cs) -> CallSet(gr)]
    BY <2>1, <2>2
  <2> QED
    BY <1>2, <2>3
<1> HIDE DEF ds
<1>8. ASSUME NEW i \in DOMAIN ds PROVE IsCall(gr, sts, ds[i])
  BY <1>1, <1>2, <1>6, <1>4 DEF IsCall, Awaiting
<1>9. IsAutomaton(gr, sts, ds)
  BY <1>7, <1>8 DEF IsAutomaton
<1> QED
  BY <1>4, <1>6, <1>9 DEF ds

\* The shift on a symbol, and the state it leads to.
LEMMA ShiftKeepsAutomaton ==
    ASSUME NEW gr, NEW sts, NEW cs, IsAutomaton(gr, sts, cs),
           NEW k \in DOMAIN sts, NEW sp \in 0 .. gr.nsymbol - 1, NEW x \in DOMAIN sts,
           sts[x].bp = Goto(gr, sts[k].cfp, sp),
           \A c \in Awaiting(gr, sts[k].cfp, sp) : <<k, c>> \in sts[x].bplp[Moved(c)]
    PROVE  LET T == WithShifts(sts, k, {[sp |-> sp, x |-> x]})
           IN  IsAutomaton(gr, T, cs)
<1> DEFINE new == [sp |-> sp, x |-> x]
           Y == {new}
           T == WithShifts(sts, k, Y)
<1>1. /\ sts \in Seq(StateSet(gr)) /\ cs \in Seq(CallSet(gr))
      /\ \A j \in DOMAIN sts : IsState(gr, sts[j]) /\ Goes(gr, sts, j)
      /\ \A i, j \in DOMAIN sts : sts[i].bp = sts[j].bp => i = j
      /\ \A i \in DOMAIN cs : IsCall(gr, sts, cs[i])
  BY DEF IsAutomaton
<1>2. Y \in SUBSET [sp : 0 .. gr.nsymbol - 1, x : Nat]
  BY <1>1
<1>3. new.sp = sp /\ new.x = x
  OBVIOUS
<1> HIDE DEF new, Y
<1>4. /\ T \in Seq(StateSet(gr)) /\ DOMAIN T = DOMAIN sts
      /\ \A j \in DOMAIN sts :
                    /\ T[j].bp = sts[j].bp /\ T[j].cfp = sts[j].cfp
                    /\ T[j].bplp = sts[j].bplp
                    /\ T[j].fws = sts[j].fws /\ T[j].fplp = sts[j].fplp
                    /\ j # k => T[j] = sts[j]
      /\ T[k].shifts = sts[k].shifts \cup Y
  <2>1. k \in DOMAIN sts /\ sts \in Seq(StateSet(gr))
    BY <1>1
  <2> QED
    BY ONLY <1>2, <2>1, ShiftAdded DEF T
<1> HIDE DEF T
<1>5. \A j \in DOMAIN T : IsState(gr, T[j])
  BY <1>1, <1>4 DEF IsState
<1>6. \A i \in DOMAIN cs : IsCall(gr, T, cs[i])
  BY <1>1, <1>4 DEF IsCall
<1>7. ASSUME NEW j \in DOMAIN T, NEW s \in T[j].shifts
      PROVE  /\ s.x \in DOMAIN T
             /\ T[s.x].bp = Goto(gr, T[j].cfp, s.sp)
             /\ \A c \in Awaiting(gr, T[j].cfp, s.sp) : <<j, c>> \in T[s.x].bplp[Moved(c)]
  <2>1. CASE s \in sts[j].shifts
    <3>1. /\ s.x \in DOMAIN sts
          /\ sts[s.x].bp = Goto(gr, sts[j].cfp, s.sp)
          /\ \A c \in Awaiting(gr, sts[j].cfp, s.sp) : <<j, c>> \in sts[s.x].bplp[Moved(c)]
      BY <1>1, <1>4, <2>1 DEF Goes
    <3>2. /\ T[s.x].bp = sts[s.x].bp /\ T[s.x].bplp = sts[s.x].bplp
          /\ T[j].cfp = sts[j].cfp /\ DOMAIN T = DOMAIN sts
      BY <1>4, <3>1
    <3> QED
      BY <3>1, <3>2
  <2>2. CASE j = k /\ s = new
    BY <1>3, <1>4, <2>2
  <2> QED
    BY <1>4, <2>1, <2>2 DEF Y
<1>8. \A i, j \in DOMAIN T : T[i].bp = T[j].bp => i = j
  BY <1>1, <1>4
<1>9. \A j \in DOMAIN T : Goes(gr, T, j)
  BY <1>7 DEF Goes
<1> QED
  BY <1>1, <1>4, <1>5, <1>6, <1>8, <1>9 DEF IsAutomaton, T, new, Y

\* A shift built by buildshifts, with the state it leads to, leaves an automaton in which no
\* symbol is forgotten and every state is where it was.
LEMMA BuildShiftsKeeps ==
    ASSUME NEW gr, IsGrammar(gr), NEW fi, IsFirsts(gr, fi),
           NEW sts, NEW cs, IsAutomaton(gr, sts, cs), NoneForgotten(gr, sts, cs),
           cs # << >>, cs[1].todo # {}
    PROVE  LET built == buildshifts(gr, fi, sts, cs)
           IN  /\ IsAutomaton(gr, built.states, built.calls)
               /\ NoneForgotten(gr, built.states, built.calls)
               /\ \A j \in DOMAIN sts :
                    j \in DOMAIN built.states /\ built.states[j].bp = sts[j].bp
<1> DEFINE k == cs[1].place
           todo == cs[1].todo
           sp == SymbolAfter(gr, FirstConfig(todo))
           moved == {c \in todo : SymbolAfter(gr, c) = sp}
           basis == {<<c[1], c[2] + 1>> : c \in moved}
           back == [c \in basis |-> {<<k, <<c[1], c[2] - 1>>>>}]
           ds == [cs EXCEPT ![1].todo = @ \ moved]
           got == getstate(gr, fi, sts, ds, basis, {}, back)
           x == PlaceOf(got.states, basis)
           T == WithShifts(got.states, k, {[sp |-> sp, x |-> x]})
<1>1. /\ sts \in Seq(StateSet(gr)) /\ cs \in Seq(CallSet(gr))
      /\ \A j \in DOMAIN sts : IsState(gr, sts[j]) /\ Goes(gr, sts, j)
      /\ \A i \in DOMAIN cs : IsCall(gr, sts, cs[i])
  BY DEF IsAutomaton
<1>2. 1 \in DOMAIN cs /\ cs[1] \in CallSet(gr) /\ Head(cs) = cs[1]
  BY <1>1, EmptySeq, ElementOfSeq, HeadTailProperties
<1>3. /\ k \in DOMAIN sts /\ k \in Nat /\ todo \in SUBSET Configs(gr)
      /\ \A c \in todo : /\ c \in sts[k].cfp /\ Shiftable(gr, c)
                         /\ Awaiting(gr, sts[k].cfp, SymbolAfter(gr, c)) \subseteq todo
  BY <1>1, <1>2 DEF IsCall, CallSet
<1>4. /\ FirstConfig(todo) \in todo /\ sp \in 0 .. gr.nsymbol - 1
      /\ moved = Awaiting(gr, sts[k].cfp, sp)
  BY <1>3, FirstConfigIn, SymbolAfterDot DEF Awaiting
<1> HIDE DEF k, todo, sp, moved
<1>5. basis \in SUBSET Configs(gr) /\ basis = Goto(gr, sts[k].cfp, sp)
  BY <1>3, <1>4, SymbolAfterDot DEF moved, Goto, Moved
<1>6. /\ back \in [basis -> SUBSET (Nat \X Configs(gr))]
      /\ \A c \in moved : Moved(c) \in basis /\ <<k, c>> \in back[Moved(c)]
  <2>1. ASSUME NEW c \in moved
        PROVE  Moved(c) \in basis /\ <<Moved(c)[1], Moved(c)[2] - 1>> = c /\ c \in Configs(gr)
    BY <1>3, ConfigParts DEF moved, Moved
  <2>2. \A b \in basis : \E c \in moved : b = Moved(c)
    BY DEF Moved
  <2> HIDE DEF basis
  <2>3. \A b \in basis : <<k, <<b[1], b[2] - 1>>>> \in Nat \X Configs(gr)
    BY <1>3, <2>1, <2>2
  <2> QED
    BY <2>1, <2>3
<1>7. /\ IsAutomaton(gr, sts, ds) /\ DOMAIN ds = DOMAIN cs
      /\ ds[1].place = k /\ ds[1].todo = todo \ moved
      /\ \A i \in DOMAIN cs : i # 1 => ds[i] = cs[i]
  <2>1. moved = Awaiting(gr, sts[cs[1].place].cfp, sp)
    BY <1>4 DEF k
  <2>2. IsGrammar(gr) /\ IsAutomaton(gr, sts, cs) /\ cs # << >>
    OBVIOUS
  <2> QED
    BY ONLY <2>1, <2>2, CallAdvanced DEF ds, k, todo
<1> HIDE DEF basis, back, ds
<1>8. /\ got = [states |-> got.states, calls |-> got.calls]
      /\ IsAutomaton(gr, got.states, got.calls) /\ Keeps(sts, got.states)
      /\ \E j \in DOMAIN got.states :
                    /\ got.states[j].bp = basis
                    /\ \A c \in basis : back[c] \subseteq got.states[j].bplp[c]
      /\ StillDue(gr, sts, ds, got.states, got.calls)
  BY ONLY IsGrammar(gr), IsFirsts(gr, fi), <1>5, <1>6, <1>7, StateGot DEF got
<1> HIDE DEF got
<1>9. /\ x \in DOMAIN got.states /\ got.states[x].bp = basis
      /\ \A c \in basis : back[c] \subseteq got.states[x].bplp[c]
  BY <1>8 DEF PlaceOf, IsAutomaton
<1> HIDE DEF x
<1>10. k \in DOMAIN got.states /\ got.states[k].cfp = sts[k].cfp
  BY <1>3, <1>8 DEF Keeps
<1>11. IsAutomaton(gr, T, got.calls)
  BY <1>4, <1>6, <1>9, <1>10, <1>5, <1>8, ShiftKeepsAutomaton
<1>12. /\ NoneForgotten(gr, T, got.calls)
       /\ \A j \in DOMAIN sts : j \in DOMAIN T /\ T[j].bp = sts[j].bp
  <2>0. {[sp |-> sp, x |-> x]} \in SUBSET [sp : 0 .. gr.nsymbol - 1, x : Nat]
    BY <1>8, <1>9, <1>4 DEF IsAutomaton
  <2>0a. got.states \in Seq(StateSet(gr))
    BY <1>8 DEF IsAutomaton
  <2>1. /\ DOMAIN T = DOMAIN got.states
        /\ \A j \in DOMAIN T : T[j].cfp = got.states[j].cfp
        /\ \A j \in DOMAIN T : T[j].bp = got.states[j].bp
        /\ \A j \in DOMAIN T : j # k => T[j].shifts = got.states[j].shifts
        /\ T[k].shifts = got.states[k].shifts \cup {[sp |-> sp, x |-> x]}
    BY <1>10, <2>0, <2>0a, ShiftAdded
  <2> HIDE DEF T
  <2>2. \A j \in DOMAIN T : got.states[j].shifts \subseteq T[j].shifts
    BY <2>1
  <2>3. ASSUME NEW j \in DOMAIN T, NEW c \in T[j].cfp, Shiftable(gr, c), ~ Due(got.calls, j, c)
        PROVE  \E s \in T[j].shifts : s.sp = SymbolAfter(gr, c)
    <3>1. j \in DOMAIN sts /\ ~ Due(ds, j, c)
      BY <1>8, <2>1, <2>3 DEF StillDue
    <3>2. sts[j].cfp = T[j].cfp /\ sts[j].shifts = got.states[j].shifts
      BY <1>8, <2>1, <3>1 DEF Keeps
    <3>3. CASE \E s \in sts[j].shifts : s.sp = SymbolAfter(gr, c)
      BY <2>2, <3>2, <3>3
    <3>4. CASE Due(cs, j, c)
      <4>1. PICK i \in DOMAIN cs : cs[i].place = j /\ c \in cs[i].todo
        BY <3>4 DEF Due
      <4>2. i = 1 /\ c \in moved
        BY <1>7, <3>1, <4>1 DEF Due, k, todo
      <4>3. j = k /\ SymbolAfter(gr, c) = sp
        BY <4>1, <4>2 DEF k, moved
      <4>4. [sp |-> sp, x |-> x] \in T[k].shifts /\ [sp |-> sp, x |-> x].sp = sp
        BY <2>1
      <4> QED
        BY <4>3, <4>4
    <3> QED
      BY <2>3, <3>1, <3>2, <3>3, <3>4 DEF NoneForgotten
  <2>4. \A j \in DOMAIN sts : j \in DOMAIN T /\ T[j].bp = sts[j].bp
    BY <1>8, <2>1 DEF Keeps
  <2> QED
    BY <2>3, <2>4 DEF NoneForgotten
<1>13. buildshifts(gr, fi, sts, cs) = [states |-> T, calls |-> got.calls]
  <2>1. buildshifts(gr, fi, sts, cs) =
          [got EXCEPT !.states[k].shifts = @ \cup {[sp |-> sp, x |-> x]}]
    BY <1>2 DEF buildshifts, got, x, T, ds, basis, back, moved, sp, todo, k
  <2> QED
    BY <1>8, <2>1 DEF WithShifts
<1> HIDE DEF T
<1> QED
  BY <1>11, <1>12, <1>13

-----------------------------------------------------------------------------
(***************************************************************************)
(* Follow sets.                                                            *)
(***************************************************************************)

\* What is known of the states of an automaton.
LEMMA PartsOfStates ==
    ASSUME NEW gr, IsGrammar(gr), NEW sts, NEW cs, IsAutomaton(gr, sts, cs)
    PROVE  /\ DOMAIN sts = 1 .. Len(sts) /\ Len(sts) \in Nat
           /\ \A k \in DOMAIN sts :
                /\ sts[k] \in StateSet(gr)
                /\ sts[k].bp \subseteq sts[k].cfp /\ sts[k].cfp \subseteq Configs(gr)
                /\ \A c \in sts[k].cfp :
                     sts[k].fplp[c] \subseteq sts[k].cfp /\ sts[k].fws[c] \subseteq Terminals(gr)
<1>1. /\ sts \in Seq(StateSet(gr))
      /\ \A k \in DOMAIN sts : IsState(gr, sts[k])
  BY DEF IsAutomaton
<1>2. DOMAIN sts = 1 .. Len(sts) /\ Len(sts) \in Nat
  BY <1>1
<1>3. ASSUME NEW k \in DOMAIN sts
      PROVE  /\ sts[k] \in StateSet(gr)
             /\ sts[k].bp \subseteq sts[k].cfp /\ sts[k].cfp \subseteq Configs(gr)
             /\ \A c \in sts[k].cfp :
                  sts[k].fplp[c] \subseteq sts[k].cfp /\ sts[k].fws[c] \subseteq Terminals(gr)
  <2>1. sts[k] \in StateSet(gr)
    BY <1>1, <1>2, ElementOfSeq
  <2>2. /\ sts[k].bp \in SUBSET Configs(gr) /\ sts[k].cfp \in SUBSET Configs(gr)
        /\ sts[k].fws \in Maps(gr, SUBSET Terminals(gr))
    BY <2>1 DEF StateSet
  <2>3. /\ sts[k].cfp = Closure(gr, sts[k].bp) /\ DOMAIN sts[k].fws = sts[k].cfp
        /\ \A c \in sts[k].cfp : sts[k].fplp[c] \subseteq sts[k].cfp
    BY <1>1 DEF IsState
  <2>4. sts[k].bp \subseteq sts[k].cfp
    BY <2>2, <2>3, ClosureCloses
  <2>5. \A c \in sts[k].cfp : sts[k].fws[c] \subseteq Terminals(gr)
    BY <2>2, <2>3 DEF Maps
  <2> QED
    BY <2>1, <2>2, <2>3, <2>4, <2>5
<1> QED
  BY <1>2, <1>3

\* A place is a state with one of its configurations.
LEMMA PlaceParts ==
    ASSUME NEW gr, IsGrammar(gr), NEW sts, NEW cs, IsAutomaton(gr, sts, cs),
           NEW at \in Places(sts)
    PROVE  /\ at[1] \in DOMAIN sts /\ at[1] \in Nat /\ at[2] \in sts[at[1]].cfp
           /\ at[2] \in Configs(gr) /\ at = <<at[1], at[2]>>
<1>1. PICK k \in DOMAIN sts : at \in {<<k, c>> : c \in sts[k].cfp}
  BY DEF Places
<1>2. k \in Nat /\ sts[k].cfp \subseteq Configs(gr)
  BY PartsOfStates
<1> QED
  BY <1>1, <1>2

\* There are finitely many places.
LEMMA PlacesFinite ==
    ASSUME NEW gr, IsGrammar(gr), NEW sts, NEW cs, IsAutomaton(gr, sts, cs)
    PROVE  IsFiniteSet(Places(sts))
<1> DEFINE D == DOMAIN sts
           E == Configs(gr)
<1>1. ASSUME NEW at \in Places(sts) PROVE at \in D \X E
  BY PlaceParts
<1>2. IsFiniteSet(D)
  BY PartsOfStates, FS_Interval
<1>3. IsFiniteSet(E)
  BY ConfigsFinite
<1> HIDE DEF D, E
<1>4. IsFiniteSet(D \X E)
  BY <1>2, <1>3, FS_Product
<1>5. Places(sts) \in SUBSET (D \X E)
  BY <1>1
<1> QED
  BY <1>4, <1>5, FS_Subset

\* Links lead from places to places.
LEMMA LinksArePlaces ==
    ASSUME NEW gr, IsGrammar(gr), NEW sts, NEW cs, IsAutomaton(gr, sts, cs)
    PROVE  FindLinks(sts) \in [Places(sts) -> SUBSET Places(sts)]
<1>1. ASSUME NEW k \in DOMAIN sts, NEW c \in sts[k].cfp PROVE <<k, c>> \in Places(sts)
  BY DEF Places
<1>2. ASSUME NEW at \in Places(sts), NEW c \in sts[at[1]].fplp[at[2]]
      PROVE  <<at[1], c>> \in Places(sts)
  BY PlaceParts, PartsOfStates, <1>1
<1>3. ASSUME NEW j \in DOMAIN sts, NEW c \in sts[j].bp PROVE <<j, c>> \in Places(sts)
  BY PartsOfStates, <1>1
<1>4. ASSUME NEW at \in Places(sts)
      PROVE  FindLinks(sts)[at] \subseteq Places(sts)
  BY <1>2, <1>3 DEF FindLinks
<1>5. FindLinks(sts) = [at \in Places(sts) |-> FindLinks(sts)[at]]
  BY DEF FindLinks
<1> QED
  BY <1>4, <1>5

\* Of places one is the first to be visited.
LEMMA LeastPlace ==
    ASSUME NEW gr, IsGrammar(gr), NEW sts, NEW cs, IsAutomaton(gr, sts, cs),
           NEW C \in SUBSET Places(sts), C # {}
    PROVE  \E a \in C : \A b \in C : a = b \/ Before(a, b)
<1>1. \A a \in C : a[1] \in Nat /\ a[2] \in Configs(gr) /\ a = <<a[1], a[2]>>
  BY PlaceParts
<1> DEFINE K == {a[1] : a \in C}
<1>2. PICK k \in K : \A l \in K : k <= l
  <2>1. K \in SUBSET Nat /\ K # {}
    BY <1>1
  <2> HIDE DEF K
  <2> QED
    BY <2>1, LeastOfNat
<1> DEFINE D == {a[2] : a \in {b \in C : b[1] = k}}
<1>3. PICK d \in D : \A e \in D : e = d \/ Configcmp(d, e)
  <2>1. D \in SUBSET Configs(gr) /\ D # {}
    BY <1>1
  <2> HIDE DEF D
  <2>2. \A e \in D : e[1] \in Nat /\ e[2] \in Nat /\ e = <<e[1], e[2]>>
    BY <2>1, ConfigParts
  <2> QED
    BY <2>1, <2>2, LeastConfig
<1>4. PICK a \in C : a[1] = k /\ a[2] = d
  OBVIOUS
<1>5. ASSUME NEW b \in C PROVE a = b \/ Before(a, b)
  BY <1>1, <1>2, <1>4, <1>3 DEF Before
<1> QED
  BY <1>5

\* Inheriting, of any states.
Heirs(sts, given) ==
    Grown([ats \in SUBSET Places(sts) |-> ats \cup UNION {FindLinks(sts)[at] : at \in ats}],
          given, Cardinality(Places(sts)))

\* Those that inherit from given places are the fewest that hold them and all they link to.
LEMMA HeirsAreClosed ==
    ASSUME NEW gr, IsGrammar(gr), NEW sts, NEW cs, IsAutomaton(gr, sts, cs),
           NEW given \in SUBSET Places(sts)
    PROVE  /\ Heirs(sts, given) \in SUBSET Places(sts)
           /\ given \subseteq Heirs(sts, given)
           /\ \A at \in Heirs(sts, given) : FindLinks(sts)[at] \subseteq Heirs(sts, given)
           /\ \A C \in SUBSET Places(sts) :
                given \subseteq C /\ (\A at \in C : FindLinks(sts)[at] \subseteq C)
                  => Heirs(sts, given) \subseteq C
<1> DEFINE U == Places(sts)
           F == [ats \in SUBSET U |-> ats \cup UNION {FindLinks(sts)[at] : at \in ats}]
           R == Grown(F, given, Cardinality(U))
<1>1. Heirs(sts, given) = R
  BY DEF Heirs
<1>2. IsGrowth(F, U)
  BY LinksArePlaces DEF IsGrowth
<1>3. IsFiniteSet(U)
  BY PlacesFinite
<1>4. /\ R \in SUBSET U /\ given \subseteq R /\ F[R] = R
      /\ \A C \in SUBSET U :
           given \subseteq C /\ (\A Y \in SUBSET C : F[Y] \subseteq C) => R \subseteq C
  <2> HIDE DEF F
  <2> QED
    BY <1>2, <1>3, Growth
<1> HIDE DEF R
<1>5. \A at \in R : FindLinks(sts)[at] \subseteq F[R]
  BY <1>4
<1>6. ASSUME NEW C \in SUBSET U, \A at \in C : FindLinks(sts)[at] \subseteq C,
             NEW Y \in SUBSET C
      PROVE  F[Y] \subseteq C
  BY <1>6
<1> HIDE DEF F
<1>7. ASSUME NEW C \in SUBSET U, given \subseteq C, \A at \in C : FindLinks(sts)[at] \subseteq C
      PROVE  R \subseteq C
  BY <1>4, <1>6, <1>7
<1> QED
  BY <1>1, <1>4, <1>5, <1>7

-----------------------------------------------------------------------------
(***************************************************************************)
(* Propagation along the links.                                            *)
(***************************************************************************)

\* Where a terminal is in the follow set from the start.
Given(sts, t) == {at \in Places(sts) : t \in sts[at[1]].fws[at[2]]}

\* Follow sets under construction: they have what they had at first, nothing
\* that does not come from there along the links, and a complete configuration
\* has given all it has.  A pass that has changed nothing has left nothing
\* incomplete behind.
IsFollow(gr, sts, f) ==
    /\ DOMAIN f = {"fws", "incomplete", "ahead", "progress"}
    /\ f.fws \in [Places(sts) -> SUBSET Terminals(gr)] /\ f.progress \in BOOLEAN
    /\ f.incomplete \in SUBSET Places(sts) /\ f.ahead \in SUBSET Places(sts)
    /\ \A at \in Places(sts) :
         /\ sts[at[1]].fws[at[2]] \subseteq f.fws[at]
         /\ \A t \in f.fws[at] : at \in Heirs(sts, Given(sts, t))
    /\ \A at \in Places(sts) \ f.incomplete :
         \A to \in FindLinks(sts)[at] : f.fws[at] \subseteq f.fws[to]
    /\ ~ f.progress => f.incomplete \subseteq f.ahead

\* At first nothing has been propagated.
LEMMA FollowStarts ==
    ASSUME NEW gr, IsGrammar(gr), NEW sts, NEW cs, IsAutomaton(gr, sts, cs)
    PROVE  IsFollow(gr, sts, FollowInit(sts))
<1> DEFINE f == FollowInit(sts)
<1>1. f = [fws |-> [at \in Places(sts) |-> sts[at[1]].fws[at[2]]],
           incomplete |-> Places(sts), ahead |-> Places(sts), progress |-> FALSE]
  BY DEF FollowInit
<1>2. f.fws \in [Places(sts) -> SUBSET Terminals(gr)]
  BY PlaceParts, PartsOfStates, <1>1
<1>3. \A at \in Places(sts) : f.fws[at] = sts[at[1]].fws[at[2]]
  BY <1>1
<1>4. /\ f.incomplete = Places(sts) /\ f.ahead = Places(sts) /\ f.progress = FALSE
      /\ DOMAIN f = {"fws", "incomplete", "ahead", "progress"}
  BY <1>1
<1> HIDE DEF f
<1>5. ASSUME NEW at \in Places(sts), NEW t \in f.fws[at]
      PROVE  at \in Heirs(sts, Given(sts, t))
  BY <1>3, HeirsAreClosed DEF Given
<1>7. IsFollow(gr, sts, f)
  BY <1>2, <1>3, <1>4, <1>5 DEF IsFollow
<1> QED
  BY <1>7 DEF f

\* Of all that follow sets could have, what they lack.
Lacks(gr, fws) == {lack \in (DOMAIN fws) \X Terminals(gr) : lack[2] \notin fws[lack[1]]}

\* A terminal can be missing from finitely many follow sets.
LEMMA LacksFinite ==
    ASSUME NEW gr, IsGrammar(gr), NEW sts, NEW cs, IsAutomaton(gr, sts, cs),
           NEW fws, DOMAIN fws = Places(sts)
    PROVE  IsFiniteSet(Lacks(gr, fws))
<1> DEFINE D == Places(sts)
           E == Terminals(gr)
<1>1. IsFiniteSet(D)
  BY PlacesFinite
<1>2. IsFiniteSet(E)
  BY PartsOfGrammar, FS_Interval DEF Terminals
<1> HIDE DEF D, E
<1>3. IsFiniteSet(D \X E)
  BY <1>1, <1>2, FS_Product
<1>4. Lacks(gr, fws) \in SUBSET (D \X E)
  BY DEF Lacks, D, E
<1> QED
  BY <1>3, <1>4, FS_Subset

\* A step of FindFollowSets leaves follow sets under construction, and either they lack less or
\* one configuration less is incomplete.
LEMMA Propagated ==
    ASSUME NEW gr, IsGrammar(gr), NEW sts, NEW cs, IsAutomaton(gr, sts, cs),
           NEW f, IsFollow(gr, sts, f), ~ PassOver(f)
    PROVE  LET h == Propagate(FindLinks(sts), f)
           IN  /\ IsFollow(gr, sts, h)
               /\ \/ Lacks(gr, h.fws) \in SUBSET Lacks(gr, f.fws) /\ Lacks(gr, h.fws) # Lacks(gr, f.fws)
                  \/ /\ Lacks(gr, h.fws) = Lacks(gr, f.fws)
                     /\ h.incomplete \in SUBSET f.incomplete /\ h.incomplete # f.incomplete
<1> DEFINE linked == FindLinks(sts)
           P == Places(sts)
           left == f.incomplete \cap f.ahead
           at == CHOOSE a \in left : \A b \in left : a = b \/ Before(a, b)
           changed == {to \in linked[at] : ~ f.fws[at] \subseteq f.fws[to]}
           h == Propagate(linked, f)
<1>1. /\ f.fws \in [P -> SUBSET Terminals(gr)]
      /\ f.incomplete \in SUBSET P /\ f.ahead \in SUBSET P /\ f.progress \in BOOLEAN
      /\ \A a \in P : /\ sts[a[1]].fws[a[2]] \subseteq f.fws[a]
                      /\ \A t \in f.fws[a] : a \in Heirs(sts, Given(sts, t))
      /\ \A a \in P \ f.incomplete :
           \A to \in linked[a] : f.fws[a] \subseteq f.fws[to]
      /\ ~ f.progress => f.incomplete \subseteq f.ahead
  BY DEF IsFollow
<1>2. linked \in [P -> SUBSET P]
  BY LinksArePlaces
<1>3. at \in left /\ \A b \in left : at = b \/ Before(at, b)
  <2>1. left \in SUBSET Places(sts) /\ left # {}
    BY <1>1 DEF PassOver
  <2>2. \E a \in left : \A b \in left : a = b \/ Before(a, b)
    BY <2>1, LeastPlace
  <2> QED
    BY <2>2
<1>4. h = [fws |-> [to \in DOMAIN f.fws |->
                     IF to \in changed THEN f.fws[to] \cup f.fws[at] ELSE f.fws[to]],
           incomplete |-> (f.incomplete \cup changed) \ {at},
           ahead |-> {to \in f.ahead : Before(at, to)},
           progress |-> f.progress \/ changed # {}]
  BY DEF Propagate, Marked
<1>5. changed \subseteq linked[at] /\ changed \subseteq P /\ at \in P /\ at \in f.incomplete
  BY <1>1, <1>2, <1>3
<1>6. \A to \in changed : ~ f.fws[at] \subseteq f.fws[to]
  OBVIOUS
<1>7. \A to \in linked[at] : to \notin changed => f.fws[at] \subseteq f.fws[to]
  OBVIOUS
<1> HIDE DEF at, changed
<1>8. /\ h.incomplete = (f.incomplete \cup changed) \ {at}
      /\ h.ahead = {to \in f.ahead : Before(at, to)}
      /\ h.progress = (f.progress \/ changed # {})
      /\ DOMAIN h.fws = P
      /\ \A to \in P : h.fws[to] = IF to \in changed THEN f.fws[to] \cup f.fws[at] ELSE f.fws[to]
      /\ DOMAIN h = {"fws", "incomplete", "ahead", "progress"}
  BY <1>1, <1>4
<1> HIDE DEF h, left, linked
<1>8a. ASSUME NEW a \in P PROVE f.fws[a] \subseteq h.fws[a] /\ h.fws[a] \in SUBSET Terminals(gr)
  <2>1. f.fws[a] \in SUBSET Terminals(gr) /\ f.fws[at] \in SUBSET Terminals(gr)
    BY <1>1, <1>5
  <2>2. CASE a \in changed
    BY <1>8, <2>2, <2>1
  <2>3. CASE a \notin changed
    BY <1>8, <2>3, <2>1
  <2> QED
    BY <2>2, <2>3
<1>9. /\ h.fws \in [P -> SUBSET Terminals(gr)] /\ h.incomplete \in SUBSET P
      /\ h.ahead \in SUBSET P /\ h.progress \in BOOLEAN
  BY <1>8a, <1>4, <1>1, <1>8, <1>5
<1>10. ASSUME NEW a \in P
       PROVE  /\ sts[a[1]].fws[a[2]] \subseteq h.fws[a]
              /\ \A t \in h.fws[a] : a \in Heirs(sts, Given(sts, t))
  <2>1. sts[a[1]].fws[a[2]] \subseteq h.fws[a]
    BY <1>1, <1>8a
  <2>2. ASSUME NEW t \in h.fws[a] PROVE a \in Heirs(sts, Given(sts, t))
    <3>1. CASE t \in f.fws[a]
      BY <1>1, <3>1
    <3>2. CASE a \in changed /\ t \in f.fws[at]
      BY <1>1, <1>5, <3>2, HeirsAreClosed DEF Given, linked
    <3> QED
      BY <1>8, <3>1, <3>2
  <2> QED
    BY <2>1, <2>2
<1>11. ASSUME NEW a \in P \ h.incomplete, NEW to \in linked[a]
       PROVE  h.fws[a] \subseteq h.fws[to]
  <2>0. to \in P
    BY <1>2
  <2>1. f.fws[to] \subseteq h.fws[to]
    BY <1>8, <2>0
  <2>2. CASE a = at
    BY <1>5, <1>6, <1>8, <2>2, <2>0, <1>7, <2>1
  <2>3. CASE a # at
    BY <1>8, <2>3, <1>1, <2>1
  <2> QED
    BY <2>2, <2>3
<1>12. ~ h.progress => h.incomplete \subseteq h.ahead
  BY <1>8, <1>1, <1>3 DEF left
<1>13. IsFollow(gr, sts, h)
  BY <1>8, <1>9, <1>10, <1>11, <1>12 DEF IsFollow, linked
<1>14. CASE changed = {}
  BY <1>1, <1>9, <1>8, <1>14, <1>5, <1>13 DEF h, linked
<1>15. CASE changed # {}
  <2>1. PICK to \in changed : TRUE
    BY <1>15
  <2>2. PICK t \in f.fws[at] : t \notin f.fws[to]
    BY <1>6, <2>1
  <2>3. to \in P /\ t \in Terminals(gr)
    BY <1>1, <1>5, <2>1, <2>2
  <2>4. <<to, t>> \in Lacks(gr, f.fws)
    BY <1>1, <2>2, <2>3 DEF Lacks
  <2>5. <<to, t>> \notin Lacks(gr, h.fws)
    BY <1>8, <2>1, <2>2, <2>3 DEF Lacks
  <2>6. \A a \in P : f.fws[a] \subseteq h.fws[a]
    BY <1>8
  <2>7. Lacks(gr, h.fws) \in SUBSET Lacks(gr, f.fws)
    BY <1>1, <1>8, <2>6 DEF Lacks
  <2> QED
    BY <1>13, <2>4, <2>5, <2>7 DEF h, linked
<1> QED
  BY <1>14, <1>15

\* A new pass changes nothing of the follow sets.
LEMMA PassStarted ==
    ASSUME NEW gr, NEW sts, NEW f, IsFollow(gr, sts, f)
    PROVE  /\ IsFollow(gr, sts, NextPass(f))
           /\ NextPass(f).fws = f.fws /\ NextPass(f).incomplete = f.incomplete
           /\ NextPass(f).progress = FALSE
<1> DEFINE h == NextPass(f)
<1>1. DOMAIN f = {"fws", "incomplete", "ahead", "progress"} /\ DOMAIN f.fws = Places(sts)
  BY DEF IsFollow
<1>2. /\ DOMAIN h = {"fws", "incomplete", "ahead", "progress"}
      /\ h.fws = f.fws /\ h.incomplete = f.incomplete /\ h.ahead = Places(sts)
      /\ h.progress = FALSE
  BY <1>1 DEF NextPass
<1> HIDE DEF h
<1>3. IsFollow(gr, sts, h)
  BY <1>2 DEF IsFollow
<1> QED
  BY <1>2, <1>3 DEF h

\* When a pass changes nothing, a terminal is exactly where it has come to.
LEMMA FollowEnds ==
    ASSUME NEW gr, IsGrammar(gr), NEW sts, NEW cs, IsAutomaton(gr, sts, cs),
           NEW f, IsFollow(gr, sts, f), PassOver(f), ~ f.progress, NEW t \in Terminals(gr)
    PROVE  {at \in Places(sts) : t \in f.fws[at]} = Heirs(sts, Given(sts, t))
<1> DEFINE C == {at \in Places(sts) : t \in f.fws[at]}
<1>1. f.incomplete = {}
  BY DEF IsFollow, PassOver
<1>2. Given(sts, t) \in SUBSET Places(sts) /\ Given(sts, t) \subseteq C
  BY DEF Given, IsFollow
<1>3. \A at \in C : FindLinks(sts)[at] \subseteq C
  BY LinksArePlaces, <1>1 DEF IsFollow
<1>4. C \subseteq Heirs(sts, Given(sts, t))
  BY DEF IsFollow
<1> HIDE DEF C
<1>5. Heirs(sts, Given(sts, t)) \subseteq C
  BY <1>2, <1>3, HeirsAreClosed DEF C
<1> QED
  BY <1>4, <1>5 DEF C

-----------------------------------------------------------------------------
(***************************************************************************)
(* The first half of a run: states and follow sets.                        *)
(***************************************************************************)

\* In a follow set are the terminals its place inherits.
FollowKnown(gr, sts, fws) ==
    \A t \in Terminals(gr) :
      {at \in Places(sts) : t \in fws[at]} = Heirs(sts, Given(sts, t))

\* The first state starts with the rules of the start symbol.
StartsFirst(gr, sts) ==
    1 \in DOMAIN sts /\ sts[1].bp = {<<r, 0>> : r \in RulesOf(gr, Start(gr))}

\* Holds after every step: up to which phase which part of it is so far.
StatesInv ==
    /\ g \in Grammars
    /\ phase # "start" =>
         /\ IsFirsts(g, ff) /\ IsAutomaton(g, states, calls)
         /\ NoneForgotten(g, states, calls) /\ StartsFirst(g, states)
    /\ phase \notin {"start", "states"} => calls = << >> /\ IsFollow(g, states, follow)
    /\ phase \notin {"start", "states", "follow"} => FollowKnown(g, states, follow.fws)

\* FindFirstSets finds terminals.
LEMMA FirstsFound ==
    ASSUME NEW gr
    PROVE  IsFirsts(gr, FindFirstSets(gr))
<1>1. \A pairs : FirstIn(gr, pairs) \in [Nonterminals(gr) -> SUBSET Terminals(gr)]
  BY DEF FirstIn
<1>2. \A lambda : FirstSets(gr, lambda) \in [Nonterminals(gr) -> SUBSET Terminals(gr)]
  BY <1>1 DEF FirstSets
<1> QED
  BY <1>2 DEF FindFirstSets, IsFirsts

\* Before FindStates there is nothing.
LEMMA NoAutomaton ==
    ASSUME NEW gr
    PROVE  IsAutomaton(gr, << >>, << >>)
<1>1. << >> \in Seq(StateSet(gr)) /\ << >> \in Seq(CallSet(gr)) /\ DOMAIN << >> = {}
  BY EmptySeq
<1> QED
  BY <1>1 DEF IsAutomaton

\* FindStates starts with the first state.
LEMMA StatesStart ==
    ASSUME NEW gr, IsGrammar(gr), NEW fi, IsFirsts(gr, fi)
    PROVE  LET found == FindStates(gr, fi)
           IN  /\ IsAutomaton(gr, found.states, found.calls)
               /\ NoneForgotten(gr, found.states, found.calls)
               /\ StartsFirst(gr, found.states)
<1> DEFINE basis == {<<r, 0>> : r \in RulesOf(gr, Start(gr))}
           back == [c \in basis |-> {}]
           got == getstate(gr, fi, << >>, << >>, basis, {0}, back)
<1>1. basis \in SUBSET Configs(gr)
  <2>1. ASSUME NEW r \in Rules(gr) PROVE <<r, 0>> \in Configs(gr)
    <3>1. gr.rules[r].rhs \in Seq(0 .. gr.nsymbol - 1)
      BY PartsOfGrammar
    <3>2. 0 \in 0 .. Len(gr.rules[r].rhs)
      BY <3>1
    <3> QED
      BY <3>2, ConfigIn
  <2> QED
    BY <2>1 DEF RulesOf
<1>2. {0} \in SUBSET Terminals(gr)
  BY PartsOfGrammar DEF Terminals
<1>3. back \in [basis -> SUBSET (Nat \X Configs(gr))]
  OBVIOUS
<1>4. IsAutomaton(gr, << >>, << >>)
  BY NoAutomaton
<1> HIDE DEF basis, back
<1>5. /\ IsAutomaton(gr, got.states, got.calls)
      /\ StillDue(gr, << >>, << >>, got.states, got.calls)
      /\ got.states = Append(<< >>, NewState(gr, fi, basis, {0}, back))
  <2>1. got.states = Append(<< >>, NewState(gr, fi, basis, {0}, back))
    BY DEF getstate
  <2>2. IsGrammar(gr) /\ IsFirsts(gr, fi)
    OBVIOUS
  <2>3. /\ IsAutomaton(gr, got.states, got.calls)
        /\ StillDue(gr, << >>, << >>, got.states, got.calls)
    BY ONLY <1>1, <1>2, <1>3, <1>4, <2>2, StateGot DEF got
  <2> QED
    BY <2>1, <2>3
<1>6. FindStates(gr, fi) = got
  BY DEF FindStates, got, basis, back
<1> HIDE DEF got
<1>7. StartsFirst(gr, got.states)
  BY <1>5 DEF NewState, StartsFirst, basis
<1>8. NoneForgotten(gr, got.states, got.calls)
  BY <1>5 DEF StillDue, NoneForgotten
<1> QED
  BY <1>5, <1>6, <1>7, <1>8

\* A call with nothing left to do returns.
LEMMA CallReturned ==
    ASSUME NEW gr, NEW sts, NEW cs, IsAutomaton(gr, sts, cs), NoneForgotten(gr, sts, cs),
           cs # << >>, cs[1].todo = {}
    PROVE  IsAutomaton(gr, sts, Tail(cs)) /\ NoneForgotten(gr, sts, Tail(cs))
<1>1. cs \in Seq(CallSet(gr)) /\ \A i \in DOMAIN cs : IsCall(gr, sts, cs[i])
  BY DEF IsAutomaton
<1>2. Len(cs) \in Nat \ {0} /\ DOMAIN cs = 1 .. Len(cs)
  BY <1>1, EmptySeq
<1>3. /\ Tail(cs) \in Seq(CallSet(gr)) /\ Len(Tail(cs)) = Len(cs) - 1
      /\ \A i \in 1 .. Len(Tail(cs)) : Tail(cs)[i] = cs[i + 1]
  BY <1>1, HeadTailProperties
<1>4. DOMAIN Tail(cs) = 1 .. Len(cs) - 1
  BY <1>3
<1>5. \A i \in DOMAIN Tail(cs) : i + 1 \in DOMAIN cs /\ Tail(cs)[i] = cs[i + 1]
  BY <1>2, <1>3, <1>4
<1>6. IsAutomaton(gr, sts, Tail(cs))
  BY <1>1, <1>5, <1>3 DEF IsAutomaton
<1>7. ASSUME NEW k, NEW c, Due(cs, k, c) PROVE Due(Tail(cs), k, c)
  <2>1. PICK i \in DOMAIN cs : cs[i].place = k /\ c \in cs[i].todo
    BY <1>7 DEF Due
  <2>2. i # 1
    BY <2>1
  <2>3. i - 1 \in DOMAIN Tail(cs) /\ (i - 1) + 1 = i
    BY <1>2, <1>4, <2>2
  <2>4. Tail(cs)[i - 1] = cs[i]
    BY <1>5, <2>3
  <2> QED
    BY <2>1, <2>3, <2>4 DEF Due
<1>8. NoneForgotten(gr, sts, Tail(cs))
  BY <1>7 DEF NoneForgotten
<1> QED
  BY <1>6, <1>8

\* Before the first step.
LEMMA StatesInvInit == Init => StatesInv
  BY DEF Init, StatesInv

\* One step for each action of Lemon.
LEMMA StatesInvNext == StatesInv /\ [Next]_vars => StatesInv'
<1> SUFFICES ASSUME StatesInv, [Next]_vars PROVE StatesInv'
  OBVIOUS
<1>1. IsGrammar(g)
  BY LemonAssumption DEF StatesInv
<1>2. CASE FirstState
  BY <1>2, FirstsFound, <1>1, StatesStart DEF FirstState, StatesInv
<1>3. CASE BuildShifts
  BY <1>3, HeadTailProperties, <1>1, BuildShiftsKeeps DEF BuildShifts, StatesInv, IsAutomaton,
     StartsFirst
<1>4. CASE ShiftsBuilt
  <2>1. phase = "states" /\ phase' = "states" /\ g' = g /\ ff' = ff /\ states' = states
    BY <1>4 DEF ShiftsBuilt
  <2>2. IsFirsts(g, ff) /\ IsAutomaton(g, states, calls) /\ NoneForgotten(g, states, calls)
    BY <2>1 DEF StatesInv
  <2>3. calls # << >> /\ calls[1].todo = {} /\ calls' = Tail(calls)
    BY <1>4, <2>2, HeadTailProperties DEF ShiftsBuilt, IsAutomaton
  <2>4. IsAutomaton(g, states, calls') /\ NoneForgotten(g, states, calls')
    BY <2>2, <2>3, CallReturned
  <2> QED
    BY <2>1, <2>2, <2>4 DEF StatesInv
<1>5. CASE StatesFound
  BY <1>5, <1>1, FollowStarts DEF StatesFound, StatesInv
<1>6. CASE Follow
  BY <1>6, <1>1, Propagated DEF Follow, links, StatesInv
<1>7. CASE FollowPass
  <2>1. /\ phase = "follow" /\ PassOver(follow)
        /\ g' = g /\ ff' = ff /\ states' = states /\ calls' = calls
    BY <1>7 DEF FollowPass
  <2>2. /\ IsFirsts(g, ff) /\ IsAutomaton(g, states, calls) /\ NoneForgotten(g, states, calls)
        /\ calls = << >> /\ IsFollow(g, states, follow)
    BY <2>1 DEF StatesInv
  <2>3. CASE follow.progress
    BY <1>7, <2>1, <2>3, <2>2, PassStarted DEF FollowPass, StatesInv
  <2>4. CASE ~ follow.progress
    BY <1>7, <2>4, <1>1, <2>1, <2>2, FollowEnds DEF FollowPass, FollowKnown, StatesInv
  <2> QED
    BY <2>3, <2>4
<1>8. CASE g' = g /\ ff' = ff /\ states' = states /\ calls' = calls /\ follow' = follow
           /\ phase \notin {"start", "states", "follow"}
  BY <1>8 DEF StatesInv
<1>9. CASE \/ FindActions \/ ResolveConflict \/ ConflictsResolved
           \/ CompressAll \/ RenameAction \/ Renamed \/ PackRow \/ Report
  BY <1>9, <1>8 DEF FindActions, ResolveConflict, ConflictsResolved, CompressAll, RenameAction,
     Renamed, PackRow, Report
<1>10. CASE UNCHANGED vars
  BY <1>10 DEF StatesInv, vars
<1> QED
  BY <1>2, <1>3, <1>4, <1>5, <1>6, <1>7, <1>9, <1>10 DEF Next

\* The first half of a run, from FindFirstSets to FindFollowSets, has built at every point an
\* automaton that is right as far as it goes: what every other theorem about lemon rests on.
THEOREM StatesInvAlways == Spec => []StatesInv
  BY StatesInvInit, StatesInvNext, PTL DEF Spec

\* FindFollowSets computes, for every grammar lemon may be given and whichever way the links
\* go, exactly the terminals that reach a configuration along them; and a configuration it has
\* marked complete has nothing left to give.
THEOREM FollowSetsAreExact == Spec => []FollowSetsExact
<1>1. StatesInv => FollowSetsExact
  BY DEF StatesInv, IsFollow, links, FollowKnown, Heirs, Given, Inheriting, FollowSetsExact
<1> QED
  BY <1>1, StatesInvAlways, PTL

\* A step of FindFollowSets brings its loop closer to the end.
LEMMA FollowComesCloser ==
    ASSUME StatesInv, Next, phase = "follow", phase' = "follow"
    PROVE  Closer
<1>1. /\ IsGrammar(g) /\ IsAutomaton(g, states, calls) /\ IsFollow(g, states, follow)
      /\ DOMAIN follow.fws = Places(states) /\ follow.incomplete \in SUBSET Places(states)
  BY LemonAssumption DEF StatesInv, IsFollow
<1>2. Lacking(follow.fws) = Cardinality(Lacks(g, follow.fws))
  BY DEF Lacking, Lacks
<1>3. Lacking(follow'.fws) = Cardinality(Lacks(g, follow'.fws))
  BY DEF Lacking, Lacks
<1>4. /\ IsFiniteSet(Lacks(g, follow.fws)) /\ IsFiniteSet(follow.incomplete)
  BY <1>1, LacksFinite, PlacesFinite, FS_Subset
<1>5. CASE Follow
  <2> DEFINE h == Propagate(FindLinks(states), follow)
  <2>1. follow' = h /\ ~ PassOver(follow)
    BY <1>5 DEF Follow, links
  <2>2. \/ Lacks(g, h.fws) \in SUBSET Lacks(g, follow.fws) /\ Lacks(g, h.fws) # Lacks(g, follow.fws)
        \/ /\ Lacks(g, h.fws) = Lacks(g, follow.fws)
           /\ h.incomplete \in SUBSET follow.incomplete /\ h.incomplete # follow.incomplete
    BY <1>1, <2>1, Propagated
  <2> HIDE DEF h
  <2>3. CASE Lacks(g, h.fws) \in SUBSET Lacks(g, follow.fws) /\ Lacks(g, h.fws) # Lacks(g, follow.fws)
    BY <1>2, <1>3, <1>4, <2>1, <2>3, FS_Subset, FS_CardinalityType DEF Closer
  <2>4. CASE /\ Lacks(g, h.fws) = Lacks(g, follow.fws)
             /\ h.incomplete \in SUBSET follow.incomplete /\ h.incomplete # follow.incomplete
    BY <1>2, <1>3, <2>1, <2>4, <1>4, FS_Subset, FS_CardinalityType DEF Closer
  <2> QED
    BY <2>2, <2>3, <2>4
<1>6. CASE FollowPass
  <2>1. follow.progress /\ follow' = NextPass(follow)
    BY <1>6 DEF FollowPass
  <2>2. /\ NextPass(follow).fws = follow.fws /\ NextPass(follow).incomplete = follow.incomplete
        /\ NextPass(follow).progress = FALSE
    BY <1>1, PassStarted
  <2>3. /\ Lacking(follow'.fws) = Lacking(follow.fws)
        /\ Cardinality(follow'.incomplete) = Cardinality(follow.incomplete)
        /\ ~ follow'.progress
    BY <2>1, <2>2
  <2> QED
    BY <2>1, <2>3 DEF Closer
<1>7. CASE \/ FirstState \/ BuildShifts \/ ShiftsBuilt \/ StatesFound
           \/ FindActions \/ ResolveConflict \/ ConflictsResolved
           \/ CompressAll \/ RenameAction \/ Renamed \/ PackRow \/ Report
  BY <1>7 DEF FirstState, BuildShifts, ShiftsBuilt, StatesFound, FindActions, ResolveConflict,
              ConflictsResolved, CompressAll, RenameAction, Renamed, PackRow, Report
<1> QED
  BY <1>5, <1>6, <1>7 DEF Next

\* The loop of FindFollowSets ends on every grammar: each step brings it closer.
THEOREM FollowSetsCloser == Spec => AlwaysCloser
<1>1. StatesInv /\ [Next]_vars => [phase = "follow" /\ phase' = "follow" => Closer]_vars
  BY FollowComesCloser
<1> QED
  BY <1>1, StatesInvAlways, PTL DEF Spec, AlwaysCloser

\* Holds when all states have been found.
AutomatonComplete ==
    phase \notin {"start", "states"} =>
      /\ StartsFirst(g, states)
      /\ \A k \in DOMAIN states : \A c \in states[k].cfp :
           Shiftable(g, c) =>
             \E s \in states[k].shifts :
               /\ s.sp = SymbolAfter(g, c)
               /\ states[s.x].bp = Goto(g, states[k].cfp, s.sp)
               /\ <<s.x, Moved(c)>> \in links[<<k, c>>]
      /\ \A k \in DOMAIN states : states[k].cfp = Closure(g, states[k].bp)
      /\ \A k, l \in DOMAIN states : states[k].bp = states[l].bp => k = l

\* FindStates and buildshifts find, for every grammar, the whole automaton: each symbol after a
\* dot is shifted, to the state its configurations move to, linked as they have to be, and no
\* basis has two states, although states are found and linked in the midst of the recursion.
THEOREM AutomatonIsComplete == Spec => []AutomatonComplete
<1>1. StatesInv => AutomatonComplete
  <2> SUFFICES ASSUME StatesInv, phase \notin {"start", "states"}
               PROVE  AutomatonComplete
    BY DEF AutomatonComplete
  <2>1. /\ IsGrammar(g) /\ IsAutomaton(g, states, calls) /\ NoneForgotten(g, states, calls)
        /\ StartsFirst(g, states) /\ calls = << >>
    BY LemonAssumption DEF StatesInv
  <2>2. /\ \A k \in DOMAIN states : states[k].cfp = Closure(g, states[k].bp) /\ Goes(g, states, k)
        /\ \A k, l \in DOMAIN states : states[k].bp = states[l].bp => k = l
    BY <2>1 DEF IsAutomaton, IsState
  <2>3. ASSUME NEW k \in DOMAIN states, NEW c \in states[k].cfp, Shiftable(g, c)
        PROVE  \E s \in states[k].shifts :
               /\ s.sp = SymbolAfter(g, c)
               /\ states[s.x].bp = Goto(g, states[k].cfp, s.sp)
               /\ <<s.x, Moved(c)>> \in links[<<k, c>>]
    <3>1. ~ Due(calls, k, c)
      BY <2>1 DEF Due
    <3>2. PICK s \in states[k].shifts : s.sp = SymbolAfter(g, c)
      BY <2>1, <2>3, <3>1 DEF NoneForgotten
    <3>3. c \in Awaiting(g, states[k].cfp, s.sp)
      BY <2>3, <3>2 DEF Awaiting
    <3>4. /\ s.x \in DOMAIN states /\ states[s.x].bp = Goto(g, states[k].cfp, s.sp)
          /\ <<k, c>> \in states[s.x].bplp[Moved(c)] /\ Moved(c) \in states[s.x].bp
      BY <2>2, <3>3 DEF Goes, Goto
    <3>5. <<k, c>> \in Places(states)
      BY <2>3 DEF Places
    <3>6. <<s.x, Moved(c)>> \in FindLinks(states)[<<k, c>>]
      BY <3>4, <3>5 DEF FindLinks, Moved
    <3> QED
      BY <3>2, <3>4, <3>6 DEF links
  <2> QED
    BY <2>1, <2>2, <2>3 DEF AutomatonComplete
<1> QED
  BY <1>1, StatesInvAlways, PTL

-----------------------------------------------------------------------------
(***************************************************************************)
(* The packed table: acttab_insert.                                        *)
(***************************************************************************)

\* A table: a slot that is not in use is empty.
IsTable(p) ==
    /\ p.nAction \in Nat /\ p.nActionAlloc \in Nat
    /\ DOMAIN p.aAction = 0 .. p.nActionAlloc - 1
    /\ \A k \in DOMAIN p.aAction :
         p.aAction[k].lookahead \in Nat \cup {-1} /\ (k >= p.nAction => p.aAction[k].lookahead < 0)

\* A row of entries for some of n symbols.
IsRow(row, n) ==
    /\ \E m \in Nat : m > 0 /\ DOMAIN row = 1 .. m
    /\ \A j \in DOMAIN row : row[j].lookahead \in 0 .. n - 1

\* Of the entries for a symbol the last one.
IsLast(row, j) == \A i \in DOMAIN row : row[i].lookahead = row[j].lookahead => i <= j

\* The row is in the table at the offset.
InTable(p, row, offset) ==
    \A j \in DOMAIN row :
      LET k == Slot(offset, row[j].lookahead)
      IN  /\ k \in DOMAIN p.aAction /\ k < p.nAction
          /\ p.aAction[k].lookahead = row[j].lookahead
          /\ IsLast(row, j) => p.aAction[k] = row[j]

\* Nothing else belongs to the offset.
Alone(p, row, offset) ==
    \A k \in DOMAIN p.aAction :
      p.aAction[k].lookahead >= 0 /\ p.aAction[k].lookahead = k - offset =>
        \E j \in DOMAIN row : Slot(offset, row[j].lookahead) = k

-----------------------------------------------------------------------------
(***************************************************************************)
(* The least and the greatest of some integers.                            *)
(***************************************************************************)

\* Of integers with a bound below one is the least.
LEMMA Least ==
    ASSUME NEW S \in SUBSET Int, S # {}, NEW b \in Int, \A n \in S : b <= n
    PROVE  \E m \in S : \A n \in S : m <= n
<1> DEFINE T == {n - b : n \in S}
<1>1. T \in SUBSET Nat /\ T # {}
  <2>1. \A n \in S : n - b \in Nat
    OBVIOUS
  <2> QED
    BY <2>1, Zenon
<1>2. PICK t \in T : \A u \in T : t <= u
  BY <1>1, LeastOfNat
<1>3. PICK m \in S : t = m - b
  OBVIOUS
<1>4. ASSUME NEW n \in S PROVE m <= n
  <2>1. n - b \in T
    OBVIOUS
  <2>2. m - b <= n - b
    BY <1>2, <1>3, <2>1
  <2>3. m \in Int /\ n \in Int
    OBVIOUS
  <2> HIDE DEF T
  <2> QED
    BY <2>2, <2>3
<1> QED
  BY <1>4

\* Of integers with a bound above one is the greatest.
LEMMA Greatest ==
    ASSUME NEW S \in SUBSET Int, S # {}, NEW b \in Int, \A n \in S : n <= b
    PROVE  \E m \in S : \A n \in S : n <= m
<1> DEFINE T == {b - n : n \in S}
<1>1. T \in SUBSET Nat /\ T # {}
  <2>1. \A n \in S : b - n \in Nat
    OBVIOUS
  <2> QED
    BY <2>1, Zenon
<1>2. PICK t \in T : \A u \in T : t <= u
  BY <1>1, LeastOfNat
<1>3. PICK m \in S : t = b - m
  OBVIOUS
<1>4. ASSUME NEW n \in S PROVE n <= m
  BY <1>2, <1>3
<1> QED
  BY <1>4

\* The least and the greatest lookahead of a row are among its lookaheads.
LEMMA LookaheadsOfRow ==
    ASSUME NEW n \in Nat, NEW row, IsRow(row, n)
    PROVE  /\ mnLookahead(row) \in 0 .. n - 1
           /\ mxLookahead(row) \in 0 .. n - 1
           /\ \A j \in DOMAIN row :
                mnLookahead(row) <= row[j].lookahead /\ row[j].lookahead <= mxLookahead(row)
<1> DEFINE S == {row[j].lookahead : j \in DOMAIN row}
<1>1. \A j \in DOMAIN row : row[j].lookahead \in 0 .. n - 1
  BY DEF IsRow
<1>2. S \in SUBSET Int /\ S # {} /\ \A m \in S : 0 <= m /\ m <= n - 1
  BY <1>1 DEF IsRow
<1> HIDE DEF S
<1>3. \E m \in S : \A k \in S : m <= k
  <2>1. 0 \in Int
    OBVIOUS
  <2> QED
    BY <1>2, <2>1, Least
<1>4. \E m \in S : \A k \in S : k <= m
  BY <1>2, Greatest
<1> USE DEF S
<1>5. /\ mnLookahead(row) \in S
      /\ \A j \in DOMAIN row : mnLookahead(row) <= row[j].lookahead
  BY <1>3 DEF mnLookahead
<1>6. /\ mxLookahead(row) \in S
      /\ \A j \in DOMAIN row : mxLookahead(row) >= row[j].lookahead
  BY <1>1, <1>2, <1>4 DEF mxLookahead
<1> QED
  BY <1>1, <1>2, <1>5, <1>6

-----------------------------------------------------------------------------
(***************************************************************************)
(* The steps of acttab_insert.                                             *)
(***************************************************************************)

\* A row has a first entry, and lookaheads that are numbers of symbols.
LEMMA EntriesOfRow ==
    ASSUME NEW n \in Nat, NEW row, IsRow(row, n)
    PROVE  1 \in DOMAIN row /\ \A j \in DOMAIN row : j \in Nat /\ row[j].lookahead \in Nat
<1>1. PICK m \in Nat : m > 0 /\ DOMAIN row = 1 .. m
  BY DEF IsRow
<1>2. \A j \in DOMAIN row : row[j].lookahead \in 0 .. n - 1
  BY DEF IsRow
<1> QED
  BY <1>1, <1>2

\* One of the entries for a symbol is the last one.
LEMMA LastOfRow ==
    ASSUME NEW n \in Nat, NEW row, IsRow(row, n), NEW js \in SUBSET DOMAIN row, js # {}
    PROVE  \E j \in js : \A i \in js : i <= j
<1>1. PICK m \in Nat : m > 0 /\ DOMAIN row = 1 .. m
  BY DEF IsRow
<1>2. js \in SUBSET Int /\ m \in Int /\ \A i \in js : i <= m
  BY <1>1
<1> QED
  BY <1>2, Greatest

\* Growing adds empty slots, and there is room for a row.
LEMMA TableGrown ==
    ASSUME NEW nsymbol \in Nat, NEW p, IsTable(p)
    PROVE  LET q == Grow(p, nsymbol)
           IN  /\ IsTable(q)
               /\ q.nAction = p.nAction /\ q.nAction + nsymbol + 2 <= q.nActionAlloc
               /\ \A k \in DOMAIN p.aAction :
                    k \in DOMAIN q.aAction /\ q.aAction[k] = p.aAction[k]
               /\ \A k \in DOMAIN q.aAction \ DOMAIN p.aAction :
                    q.aAction[k].lookahead < 0
<1> DEFINE n == p.nAction + nsymbol + 1
           alloc == IF n >= p.nActionAlloc THEN n + p.nActionAlloc + 20 ELSE p.nActionAlloc
           a == [k \in 0 .. alloc - 1 |->
                   IF k < p.nActionAlloc THEN p.aAction[k] ELSE Empty]
           q == [aAction |-> a, nAction |-> p.nAction, nActionAlloc |-> alloc]
<1>1. Grow(p, nsymbol) = q
  BY DEF Grow
<1>2. /\ p.nAction \in Nat /\ p.nActionAlloc \in Nat
      /\ DOMAIN p.aAction = 0 .. p.nActionAlloc - 1
      /\ \A k \in DOMAIN p.aAction : p.aAction[k].lookahead \in Nat \cup {-1}
      /\ \A k \in DOMAIN p.aAction : k >= p.nAction => p.aAction[k].lookahead < 0
  BY DEF IsTable
<1>3. alloc \in Nat /\ p.nActionAlloc <= alloc /\ p.nAction + nsymbol + 2 <= alloc
  <2>1. p.nAction \in Nat /\ p.nActionAlloc \in Nat
    BY <1>2
  <2> HIDE DEF a, q
  <2> QED
    BY <2>1
<1>4. Empty.lookahead = -1
  BY DEF Empty
<1> HIDE DEF alloc
<1>5. ASSUME NEW k \in 0 .. alloc - 1
      PROVE  /\ a[k].lookahead \in Nat \cup {-1}
             /\ k \in DOMAIN p.aAction => a[k] = p.aAction[k]
             /\ k \notin DOMAIN p.aAction => a[k].lookahead < 0
             /\ k >= p.nAction => a[k].lookahead < 0
  <2>1. CASE k < p.nActionAlloc
    BY <1>2, <1>3, <2>1
  <2>2. CASE ~ (k < p.nActionAlloc)
    BY <1>2, <1>3, <1>4, <2>2
  <2> QED
    BY <2>1, <2>2
<1>6. \A k \in DOMAIN p.aAction : k \in 0 .. alloc - 1
  BY <1>2, <1>3
<1>7. q.aAction = a /\ q.nAction = p.nAction /\ q.nActionAlloc = alloc
  OBVIOUS
<1>8. DOMAIN a = 0 .. alloc - 1
  OBVIOUS
<1> HIDE DEF a
<1>9. IsTable(q)
  BY <1>2, <1>3, <1>5, <1>8 DEF IsTable
<1> QED
  BY <1>1, <1>3, <1>5, <1>6, <1>7, <1>8, <1>9

\* The slots of the row take its entries, the last one of those for one symbol;
\* all others stay as they were.
IsStored(p, row, o, a) ==
    /\ DOMAIN a = DOMAIN p.aAction
    /\ \A j \in DOMAIN row :
         LET k == Slot(o, row[j].lookahead)
         IN  k \in DOMAIN p.aAction =>
               /\ a[k].lookahead = row[j].lookahead
               /\ IsLast(row, j) => a[k] = row[j]
    /\ \A k \in DOMAIN p.aAction :
         (\A j \in DOMAIN row : Slot(o, row[j].lookahead) # k) => a[k] = p.aAction[k]

\* Storing a row writes its last entry for each lookahead and touches no other slot.
LEMMA Stored ==
    ASSUME NEW n \in Nat, NEW p, IsTable(p), NEW row, IsRow(row, n), NEW o \in Int
    PROVE  IsStored(p, row, o, Store(p, row, o))
<1>1. ASSUME NEW j \in DOMAIN row,
             Slot(o, row[j].lookahead) \in DOMAIN p.aAction
      PROVE  LET k == Slot(o, row[j].lookahead)
             IN  /\ Store(p, row, o)[k].lookahead = row[j].lookahead
                 /\ IsLast(row, j) => Store(p, row, o)[k] = row[j]
  <2> DEFINE k == Slot(o, row[j].lookahead)
             js == {i \in DOMAIN row : Slot(o, row[i].lookahead) = k}
             last == CHOOSE i \in js : \A l \in js : l <= i
  <2>1. \A i \in DOMAIN row : i \in Nat /\ row[i].lookahead \in Nat
    BY EntriesOfRow
  <2>2. \A i \in js : i \in DOMAIN row /\ row[i].lookahead = row[j].lookahead
    BY <2>1 DEF Slot
  <2>3. j \in js /\ js \in SUBSET DOMAIN row
    OBVIOUS
  <2>4. Store(p, row, o)[k] = row[last]
    BY <1>1, <2>3 DEF Store
  <2> HIDE DEF js
  <2>5. last \in js /\ \A i \in js : i <= last
    BY <2>3, LastOfRow
  <2> HIDE DEF last
  <2>6. Store(p, row, o)[k].lookahead = row[j].lookahead
    BY <2>2, <2>4, <2>5
  <2>7. ASSUME IsLast(row, j) PROVE last = j
    BY <2>2, <2>3, <2>5, <2>7, <2>1 DEF IsLast
  <2> QED
    BY <2>4, <2>6, <2>7
<1>2. ASSUME NEW k \in DOMAIN p.aAction,
             \A j \in DOMAIN row : Slot(o, row[j].lookahead) # k
      PROVE  Store(p, row, o)[k] = p.aAction[k]
  BY <1>2 DEF Store
<1>3. DOMAIN Store(p, row, o) = DOMAIN p.aAction
  BY DEF Store
<1> QED
  BY <1>1, <1>2, <1>3 DEF IsStored

\* Whatever was in use is, and the row.
LEMMA Used ==
    ASSUME NEW n \in Nat, NEW p, IsTable(p), NEW row, IsRow(row, n), NEW o \in Int,
           NEW makeItSafe \in BOOLEAN, NEW nterminal \in Nat
    PROVE  LET u == Use(p, row, o, makeItSafe, nterminal)
           IN  /\ u \in Nat /\ p.nAction <= u
               /\ \A j \in DOMAIN row : Slot(o, row[j].lookahead) < u
<1>1. /\ mnLookahead(row) \in Int /\ mxLookahead(row) \in Int /\ p.nAction \in Nat
      /\ \A j \in DOMAIN row :
           row[j].lookahead \in Nat /\ row[j].lookahead <= mxLookahead(row)
  <2>1. p.nAction \in Nat
    BY DEF IsTable
  <2>2. /\ mnLookahead(row) \in 0 .. n - 1 /\ mxLookahead(row) \in 0 .. n - 1
        /\ \A j \in DOMAIN row : row[j].lookahead <= mxLookahead(row)
    BY LookaheadsOfRow
  <2>3. \A j \in DOMAIN row : row[j].lookahead \in Nat
    BY EntriesOfRow
  <2> QED
    BY <2>1, <2>2, <2>3
<1>2. /\ Use(p, row, o, makeItSafe, nterminal) \in Int
      /\ p.nAction <= Use(p, row, o, makeItSafe, nterminal)
      /\ o + mxLookahead(row) < Use(p, row, o, makeItSafe, nterminal)
  BY <1>1 DEF Use, Slot
<1>3. \A j \in DOMAIN row : o + row[j].lookahead <= o + mxLookahead(row)
  BY <1>1
<1> HIDE DEF Use
<1> QED
  BY <1>1, <1>2, <1>3 DEF Slot

-----------------------------------------------------------------------------
(***************************************************************************)
(* Storing a row at an offset where it is already or where it fits.        *)
(***************************************************************************)

\* The table acttab_insert returns, from the one that has grown.
After(p, row, o, makeItSafe, nterminal) ==
    [aAction |-> Store(p, row, o),
     nAction |-> Use(p, row, o, makeItSafe, nterminal),
     nActionAlloc |-> p.nActionAlloc]

\* Free slots for the entries of the row.
Free(p, row, o) ==
    \A j \in DOMAIN row :
      LET k == Slot(o, row[j].lookahead)
      IN  k \in DOMAIN p.aAction /\ p.aAction[k].lookahead < 0

\* Where the row is to go.
IsPlace(p, row, o) ==
    /\ o \in Int /\ p.nAction < p.nActionAlloc
    /\ IsDuplicate(p, row, o) \/ Free(p, row, o)

\* No other row has the offset.
IsOwn(p, row, o) == IsDuplicate(p, row, o) \/ Belonging(p, o) = {}

\* In an array with room for a row past those in use a row that has an entry for symbol 0 finds
\* a hole: there is one past them, and nothing belongs to its offset.
LEMMA ZeroFits ==
    ASSUME NEW n \in Nat, NEW p, IsTable(p), p.nAction + n + 2 <= p.nActionAlloc,
           NEW row, IsRow(row, n), NEW makeItSafe \in BOOLEAN, mnLookahead(row) = 0
    PROVE  Holes(p, row, makeItSafe) # {}
<1> DEFINE o == p.nAction + 1
           mx == mxLookahead(row)
<1>1. /\ p.nAction \in Nat /\ p.nActionAlloc \in Nat
      /\ DOMAIN p.aAction = 0 .. p.nActionAlloc - 1
      /\ \A k \in DOMAIN p.aAction : p.aAction[k].lookahead \in Nat \cup {-1}
      /\ \A k \in DOMAIN p.aAction : k >= p.nAction => p.aAction[k].lookahead < 0
  BY DEF IsTable
<1>2. mx \in 0 .. n - 1
  BY LookaheadsOfRow
<1>3. \A j \in DOMAIN row : row[j].lookahead \in Nat /\ row[j].lookahead <= mx
  BY LookaheadsOfRow, EntriesOfRow
<1> HIDE DEF mx
<1>4. Fits(p, row, o)
  <2>1. ASSUME NEW j \in DOMAIN row
        PROVE  LET k == Slot(o, row[j].lookahead)
               IN  k \in 0 .. p.nActionAlloc - 1 /\ p.aAction[k].lookahead < 0
    <3> DEFINE la == row[j].lookahead
               k == Slot(o, la)
    <3>1. la \in Nat /\ la <= mx
      BY <1>3
    <3>2. k = p.nAction + 1 + la
      BY DEF Slot
    <3> HIDE DEF la, k, o
    <3>3. k \in 0 .. p.nActionAlloc - 1 /\ k >= p.nAction
      <4>1. p.nAction \in Nat /\ p.nActionAlloc \in Nat
        BY <1>1
      <4> QED
        BY <1>2, <3>1, <3>2, <4>1
    <3>4. p.aAction[k].lookahead < 0
      BY <1>1, <3>3
    <3> QED
      BY <3>3, <3>4 DEF k, la
  <2>2. ASSUME NEW k \in 0 .. p.nAction - 1 PROVE p.aAction[k].lookahead # k - o
    <3>1. k \in DOMAIN p.aAction /\ k \in Int /\ k < p.nAction
      <4>1. p.nAction \in Nat /\ p.nActionAlloc \in Nat /\ DOMAIN p.aAction = 0 .. p.nActionAlloc - 1
        BY <1>1
      <4>2. p.nAction <= p.nActionAlloc
        BY <4>1
      <4> HIDE DEF o
      <4> QED
        BY <4>1, <4>2
    <3>2. p.aAction[k].lookahead \in Int /\ -1 <= p.aAction[k].lookahead
      <4> DEFINE la == p.aAction[k].lookahead
      <4>1. la \in Nat \cup {-1}
        BY <1>1, <3>1
      <4> HIDE DEF la
      <4>2. la \in Int /\ -1 <= la
        BY <4>1
      <4> QED
        BY <4>2 DEF la
    <3>3. k - o \in Int /\ k - o <= -2
      <4>1. p.nAction \in Nat
        BY <1>1
      <4> QED
        BY <3>1, <4>1
    <3> HIDE DEF o
    <3> QED
      BY <3>2, <3>3
  <2> QED
    BY <2>1, <2>2 DEF Fits
<1>5. o \in First(row, makeItSafe) .. End(p, row, makeItSafe) - 1
  <2>1. First(row, makeItSafe) = 0
    <3>1. \A m \in Int : -m \in Int /\ m + (-m) = 0
      OBVIOUS
    <3>2. mnLookahead(row) \in Int
      BY LookaheadsOfRow
    <3>3. ~ makeItSafe => /\ First(row, makeItSafe) \in Int
                          /\ mnLookahead(row) + First(row, makeItSafe) = 0
      BY <3>1, <3>2, Zenon DEF First
    <3>4. makeItSafe => First(row, makeItSafe) = 0
      BY DEF First
    <3> QED
      BY <3>3, <3>4
  <2>2. End(p, row, makeItSafe) = p.nActionAlloc - mx
    BY <1>1, <1>2, <2>1 DEF End, mx
  <2> QED
    BY <1>1, <1>2, <2>1, <2>2
<1> HIDE DEF o
<1> QED
  BY <1>4, <1>5 DEF Holes

\* Where the search for a hole ends without one, the slots are free, and none lies outside of
\* the array.
LEMMA EndIsFree ==
    ASSUME NEW n \in Nat, NEW p, IsTable(p), p.nAction + n + 2 <= p.nActionAlloc,
           NEW row, IsRow(row, n), NEW makeItSafe \in BOOLEAN,
           Holes(p, row, makeItSafe) = {}
    PROVE  End(p, row, makeItSafe) \in Int /\ Free(p, row, End(p, row, makeItSafe))
<1> DEFINE mn == mnLookahead(row)
           mx == mxLookahead(row)
           o == End(p, row, makeItSafe)
<1>1. /\ p.nAction \in Nat /\ p.nActionAlloc \in Nat
      /\ DOMAIN p.aAction = 0 .. p.nActionAlloc - 1
      /\ \A k \in DOMAIN p.aAction : k >= p.nAction => p.aAction[k].lookahead < 0
  BY DEF IsTable
<1>2. mn \in 0 .. n - 1 /\ mx \in 0 .. n - 1
  BY LookaheadsOfRow
<1>3. \A j \in DOMAIN row :
        row[j].lookahead \in Nat /\ mn <= row[j].lookahead /\ row[j].lookahead <= mx
  BY LookaheadsOfRow, EntriesOfRow
<1>4. mn # 0
  BY ZeroFits
<1>5. First(row, makeItSafe) = IF makeItSafe THEN 0 ELSE -mn
  BY DEF First
<1>6. o = LET end == p.nActionAlloc - mx - mn
          IN  IF end < First(row, makeItSafe) THEN First(row, makeItSafe) ELSE end
  BY DEF End
<1> HIDE DEF mn, mx, o
<1>7. o \in Int
  BY <1>1, <1>2, <1>5, <1>6
<1>8. ASSUME NEW j \in DOMAIN row
      PROVE  LET k == Slot(o, row[j].lookahead)
             IN  k \in DOMAIN p.aAction /\ p.aAction[k].lookahead < 0
  <2>1. CASE p.nActionAlloc - mx - mn < First(row, makeItSafe)
    <3>1. makeItSafe /\ o = 0
      BY <1>1, <1>2, <1>5, <1>6, <2>1
    <3> DEFINE la == row[j].lookahead
               k == Slot(o, la)
    <3>2. la \in Nat /\ mn <= la /\ la <= mx
      BY <1>3
    <3>3. p.nActionAlloc - mx - mn < 0
      BY <1>5, <2>1, <3>1
    <3>4. k = la
      BY <3>1, <3>2 DEF Slot
    <3> HIDE DEF la, k
    <3>5. p.nAction <= k /\ k < p.nActionAlloc /\ k \in Nat
      <4>1. p.nAction \in Nat /\ p.nActionAlloc \in Nat
        BY <1>1
      <4> QED
        BY <1>2, <3>2, <3>3, <3>4, <4>1
    <3>6. k \in DOMAIN p.aAction /\ p.aAction[k].lookahead < 0
      BY <1>1, <3>5
    <3> QED
      BY <3>6 DEF la, k
  <2>2. CASE ~ (p.nActionAlloc - mx - mn < First(row, makeItSafe))
    <3>1. o = p.nActionAlloc - mx - mn
      BY <1>6, <2>2
    <3> DEFINE la == row[j].lookahead
               k == Slot(o, la)
    <3>2. la \in Nat /\ mn <= la /\ la <= mx
      BY <1>3
    <3>3. mn \in Nat /\ mn >= 1 /\ mx \in Nat /\ mx <= n - 1
      BY <1>2, <1>4
    <3>4. k = o + la
      BY DEF Slot
    <3> HIDE DEF la, k
    <3>5. k \in Int /\ p.nAction <= k /\ k < p.nActionAlloc
      <4>1. p.nAction \in Nat /\ p.nActionAlloc \in Nat /\ p.nAction + n + 2 <= p.nActionAlloc
        BY <1>1
      <4>2. \A alloc, used \in Nat :
              used + n + 2 <= alloc =>
                used <= alloc - mx - mn + la /\ alloc - mx - mn + la < alloc
        BY <3>2, <3>3
      <4> QED
        BY <3>1, <3>2, <3>3, <3>4, <4>1, <4>2
    <3>6. k \in DOMAIN p.aAction /\ p.aAction[k].lookahead < 0
      BY <1>1, <3>5
    <3> QED
      BY <3>6 DEF la, k
  <2> QED
    BY <2>1, <2>2
<1>9. Free(p, row, o)
  BY <1>8 DEF Free
<1> QED
  BY <1>7, <1>9 DEF o

\* acttab_insert always finds the row or free slots for it, none of them outside of the array,
\* and an offset no other row has unless the flag says so.
LEMMA PlaceFound ==
    ASSUME NEW n \in Nat, NEW p, IsTable(p), p.nAction + n + 2 <= p.nActionAlloc,
           NEW row, IsRow(row, n), NEW makeItSafe \in BOOLEAN
    PROVE  LET o == OffsetOf(p, row, makeItSafe)
           IN  IsPlace(p, row, o) /\ (Shared(p, row, makeItSafe) \/ IsOwn(p, row, o))
<1> DEFINE mn == mnLookahead(row)
           same == Duplicates(p, row, makeItSafe)
           holes == Holes(p, row, makeItSafe)
           o == OffsetOf(p, row, makeItSafe)
<1>1. /\ mn \in Int /\ mxLookahead(row) \in Int /\ p.nAction \in Int
      /\ p.nActionAlloc \in Int /\ First(row, makeItSafe) \in Int
      /\ DOMAIN p.aAction = 0 .. p.nActionAlloc - 1
  <2>1. /\ p.nAction \in Int /\ p.nActionAlloc \in Int
        /\ DOMAIN p.aAction = 0 .. p.nActionAlloc - 1
    BY DEF IsTable
  <2>2. mn \in Int /\ mxLookahead(row) \in Int
    BY LookaheadsOfRow
  <2>3. First(row, makeItSafe) \in Int
    BY <2>2 DEF First
  <2> QED
    BY <2>1, <2>2, <2>3
<1>2. End(p, row, makeItSafe) \in Int
  BY <1>1 DEF End
<1>3. p.nAction < p.nActionAlloc
  BY <1>1
<1>4. CASE same # {}
  <2>1. /\ same \in SUBSET Int
        /\ \A q \in same : IsDuplicate(p, row, q) /\ q <= p.nAction - 1 - mn
    BY <1>1 DEF Duplicates
  <2>2. p.nAction - 1 - mn \in Int
    BY <1>1
  <2>3. \E m \in same : \A q \in same : q <= m
    BY <1>4, <2>1, <2>2, Greatest
  <2>4. o \in same
    BY <1>4, <2>3 DEF OffsetOf
  <2> HIDE DEF o, same
  <2>5. o \in Int /\ IsDuplicate(p, row, o)
    BY <2>1, <2>4
  <2>6. IsPlace(p, row, o) /\ IsOwn(p, row, o)
    BY <1>3, <2>5 DEF IsPlace, IsOwn
  <2> QED
    BY <2>6 DEF o
<1>5. CASE same = {} /\ holes # {}
  <2>1. /\ holes \in SUBSET Int
        /\ \A q \in holes : Fits(p, row, q) /\ First(row, makeItSafe) <= q
    BY <1>1, <1>2 DEF Holes
  <2>2. \E m \in holes : \A q \in holes : m <= q
    BY <1>1, <1>5, <2>1, Least
  <2>3. o \in holes
    BY <1>5, <2>2 DEF OffsetOf
  <2> HIDE DEF o, holes
  <2>4. o \in Int /\ Fits(p, row, o)
    BY <2>1, <2>3
  <2>5. Free(p, row, o) /\ Belonging(p, o) = {}
    BY <1>1, <2>4 DEF Fits, Free, Belonging
  <2>6. IsPlace(p, row, o) /\ IsOwn(p, row, o)
    BY <1>3, <2>4, <2>5 DEF IsPlace, IsOwn
  <2> QED
    BY <2>6 DEF o
<1>6. CASE same = {} /\ holes = {}
  BY <1>6, EndIsFree, <1>2, <1>3 DEF OffsetOf, Shared, IsPlace, IsOwn, o
<1> QED
  BY <1>4, <1>5, <1>6

\* In such a place each entry has a slot.
LEMMA SlotsOfPlace ==
    ASSUME NEW n \in Nat, NEW p, IsTable(p), NEW row, IsRow(row, n), NEW o, IsPlace(p, row, o),
           NEW j \in DOMAIN row
    PROVE  LET k == Slot(o, row[j].lookahead)
           IN  /\ k \in DOMAIN p.aAction
               /\ IsDuplicate(p, row, o) => p.aAction[k] = row[j] /\ IsLast(row, j)
               /\ Free(p, row, o) => p.aAction[k].lookahead < 0 /\ ~ IsDuplicate(p, row, o)
<1>1. /\ DOMAIN p.aAction = 0 .. p.nActionAlloc - 1
      /\ p.nAction \in Nat /\ p.nActionAlloc \in Nat /\ p.nAction < p.nActionAlloc
  BY DEF IsTable, IsPlace
<1>2. CASE IsDuplicate(p, row, o)
  <2>1. IsLast(row, j)
    BY <1>2, EntriesOfRow DEF IsDuplicate, IsLast
  <2>2. LET k == Slot(o, row[j].lookahead)
        IN  k \in 0 .. p.nAction - 1 /\ p.aAction[k] = row[j]
    BY <1>2 DEF IsDuplicate, InPlace
  <2>3. row[j].lookahead \in Nat
    BY EntriesOfRow
  <2>4. ~ Free(p, row, o)
    BY <2>2, <2>3 DEF Free
  <2> QED
    BY <1>1, <2>1, <2>2, <2>4
<1>3. CASE Free(p, row, o)
  BY <1>1, <1>3, EntriesOfRow DEF Free, IsDuplicate, InPlace
<1> QED
  BY <1>2, <1>3 DEF IsPlace

\* The table stays one, and has the row at its offset, alone there if no other row was.
LEMMA StoredExactly ==
    ASSUME NEW n \in Nat, NEW p, IsTable(p), NEW row, IsRow(row, n),
           NEW o, IsPlace(p, row, o), NEW makeItSafe \in BOOLEAN, NEW nterminal \in Nat
    PROVE  LET q == After(p, row, o, makeItSafe, nterminal)
           IN  IsTable(q) /\ InTable(q, row, o) /\ (IsOwn(p, row, o) => Alone(q, row, o))
<1> DEFINE q == After(p, row, o, makeItSafe, nterminal)
           u == Use(p, row, o, makeItSafe, nterminal)
<1>1. /\ o \in Int /\ p.nAction \in Nat /\ p.nActionAlloc \in Nat
      /\ DOMAIN p.aAction = 0 .. p.nActionAlloc - 1
      /\ \A k \in DOMAIN p.aAction :
           /\ p.aAction[k].lookahead \in Nat \cup {-1}
           /\ k >= p.nAction => p.aAction[k].lookahead < 0
  BY DEF IsTable, IsPlace
<1>2. q.aAction = Store(p, row, o) /\ q.nAction = u /\ q.nActionAlloc = p.nActionAlloc
  BY DEF After
<1>3. u \in Nat /\ p.nAction <= u /\ \A j \in DOMAIN row : Slot(o, row[j].lookahead) < u
  BY <1>1, Used
<1>4. IsStored(p, row, o, q.aAction)
  BY <1>1, <1>2, Stored
<1> HIDE DEF q, u
<1>5. \A j \in DOMAIN row :
        /\ Slot(o, row[j].lookahead) \in DOMAIN q.aAction
        /\ q.aAction[Slot(o, row[j].lookahead)].lookahead = row[j].lookahead
        /\ IsLast(row, j) => q.aAction[Slot(o, row[j].lookahead)] = row[j]
  BY SlotsOfPlace, <1>4 DEF IsStored
<1>6. ASSUME NEW k \in DOMAIN q.aAction, ~ \E j \in DOMAIN row : Slot(o, row[j].lookahead) = k
      PROVE  q.aAction[k] = p.aAction[k]
  BY <1>4, <1>6 DEF IsStored
<1>7. DOMAIN q.aAction = DOMAIN p.aAction
  BY <1>4 DEF IsStored
<1>8. IsTable(q)
  <2>1. ASSUME NEW k \in DOMAIN q.aAction
        PROVE  /\ q.aAction[k].lookahead \in Nat \cup {-1}
               /\ k >= q.nAction => q.aAction[k].lookahead < 0
    <3>1. CASE \E j \in DOMAIN row : Slot(o, row[j].lookahead) = k
      BY <3>1, <1>3, <1>5, EntriesOfRow, <1>1, <1>7, <1>2
    <3>2. CASE ~ \E j \in DOMAIN row : Slot(o, row[j].lookahead) = k
      <4>1. q.aAction[k] = p.aAction[k] /\ k \in DOMAIN p.aAction /\ k \in Int
        BY <1>1, <1>6, <1>7, <3>2
      <4> QED
        BY <1>1, <1>2, <1>3, <4>1
    <3> QED
      BY <3>1, <3>2
  <2> QED
    BY <1>1, <1>2, <1>3, <1>7, <2>1 DEF IsTable
<1>9. ASSUME IsOwn(p, row, o), NEW k \in DOMAIN q.aAction, q.aAction[k].lookahead >= 0,
             q.aAction[k].lookahead = k - o,
             ~ \E j \in DOMAIN row : Slot(o, row[j].lookahead) = k
      PROVE  FALSE
  <2>1. q.aAction[k] = p.aAction[k] /\ k \in DOMAIN p.aAction
    BY <1>6, <1>7, <1>9
  <2>2. k \in 0 .. p.nAction - 1
    <3>1. k \in Int /\ 0 <= k /\ (k >= p.nAction => p.aAction[k].lookahead < 0)
      BY <1>1, <2>1
    <3>2. ~ (p.aAction[k].lookahead < 0)
      BY <1>1, <1>9, <2>1
    <3>3. p.nAction \in Int
      BY <1>1
    <3> QED
      BY <3>1, <3>2, <3>3
  <2>3. CASE IsDuplicate(p, row, o)
    BY <1>9, <2>1, <2>2, <2>3 DEF IsDuplicate, Belonging
  <2>4. CASE Belonging(p, o) = {}
    BY <1>9, <2>1, <2>2, <2>4 DEF Belonging
  <2> QED
    BY <1>9, <2>3, <2>4 DEF IsOwn
<1>10. InTable(q, row, o)
  BY <1>2, <1>3, <1>5 DEF InTable
<1>11. IsOwn(p, row, o) => Alone(q, row, o)
  BY <1>9 DEF Alone
<1> QED
  BY <1>8, <1>10, <1>11 DEF q

\* A row stored before is not disturbed.
LEMMA OthersStay ==
    ASSUME NEW n \in Nat, NEW p, IsTable(p), NEW row, IsRow(row, n),
           NEW o, IsPlace(p, row, o), NEW makeItSafe \in BOOLEAN, NEW nterminal \in Nat,
           NEW other, IsRow(other, n), NEW o2 \in Int, InTable(p, other, o2)
    PROVE  LET q == After(p, row, o, makeItSafe, nterminal)
           IN  /\ InTable(q, other, o2)
               /\ Alone(p, other, o2) /\ IsOwn(p, row, o) => Alone(q, other, o2)
<1> DEFINE q == After(p, row, o, makeItSafe, nterminal)
           u == Use(p, row, o, makeItSafe, nterminal)
<1>1. /\ o \in Int /\ p.nAction \in Nat
      /\ DOMAIN p.aAction = 0 .. p.nActionAlloc - 1
      /\ \A k \in DOMAIN p.aAction : p.aAction[k].lookahead \in Int
  BY DEF IsTable, IsPlace
<1>2. q.aAction = Store(p, row, o) /\ q.nAction = u
  BY DEF After
<1>3. u \in Nat /\ p.nAction <= u
  BY <1>1, Used
<1>4. IsStored(p, row, o, q.aAction) /\ DOMAIN q.aAction = DOMAIN p.aAction
  <2>1. IsStored(p, row, o, q.aAction)
    BY <1>1, <1>2, Stored
  <2> QED
    BY <2>1 DEF IsStored
<1> HIDE DEF q, u
<1>5. ASSUME NEW k \in DOMAIN p.aAction
      PROVE  \/ q.aAction[k] = p.aAction[k]
             \/ /\ ~ IsDuplicate(p, row, o)
                /\ p.aAction[k].lookahead < 0
                /\ q.aAction[k].lookahead = k - o
  <2>1. CASE \E j \in DOMAIN row : Slot(o, row[j].lookahead) = k
    <3>1. PICK j \in DOMAIN row : Slot(o, row[j].lookahead) = k
      BY <2>1
    <3>2. /\ q.aAction[k].lookahead = row[j].lookahead /\ row[j].lookahead \in Nat
          /\ IsLast(row, j) => q.aAction[k] = row[j]
      BY <1>4, <3>1, EntriesOfRow DEF IsStored
    <3>3. q.aAction[k].lookahead = k - o
      BY <1>1, <3>1, <3>2 DEF Slot
    <3>4. /\ IsDuplicate(p, row, o) => p.aAction[k] = row[j] /\ IsLast(row, j)
          /\ Free(p, row, o) => p.aAction[k].lookahead < 0 /\ ~ IsDuplicate(p, row, o)
      BY <3>1, SlotsOfPlace
    <3>5. IsDuplicate(p, row, o) \/ Free(p, row, o)
      BY DEF IsPlace
    <3> QED
      BY <3>2, <3>3, <3>4, <3>5
  <2>2. CASE ~ \E j \in DOMAIN row : Slot(o, row[j].lookahead) = k
    BY <1>4, <2>2 DEF IsStored
  <2> QED
    BY <2>1, <2>2
<1>6. ASSUME NEW j \in DOMAIN other
      PROVE  LET k == Slot(o2, other[j].lookahead)
             IN  /\ k \in DOMAIN q.aAction /\ k < q.nAction
                 /\ q.aAction[k].lookahead = other[j].lookahead
                 /\ IsLast(other, j) => q.aAction[k] = other[j]
  <2> DEFINE k == Slot(o2, other[j].lookahead)
  <2>1. /\ k \in DOMAIN p.aAction /\ k < p.nAction
        /\ p.aAction[k].lookahead = other[j].lookahead
        /\ IsLast(other, j) => p.aAction[k] = other[j]
        /\ other[j].lookahead \in Nat /\ k \in Int
    BY <1>1, EntriesOfRow DEF InTable
  <2>2. q.aAction[k] = p.aAction[k]
    BY <1>5, <2>1
  <2>3. k < q.nAction
    BY <1>1, <1>2, <1>3, <2>1
  <2> QED
    BY <1>4, <2>1, <2>2, <2>3
<1>7. ASSUME Alone(p, other, o2), IsOwn(p, row, o),
             NEW k \in DOMAIN q.aAction, q.aAction[k].lookahead >= 0,
             q.aAction[k].lookahead = k - o2
      PROVE  \E j \in DOMAIN other : Slot(o2, other[j].lookahead) = k
  <2>1. k \in DOMAIN p.aAction /\ k \in Int
    BY <1>1, <1>4
  <2>2. CASE q.aAction[k] = p.aAction[k]
    BY <1>7, <2>1, <2>2 DEF Alone
  <2>3. CASE ~ IsDuplicate(p, row, o) /\ q.aAction[k].lookahead = k - o
    <3>1. o = o2
      BY <1>1, <1>7, <2>1, <2>3
    <3> DEFINE k1 == Slot(o2, other[1].lookahead)
    <3>2. /\ 1 \in DOMAIN other /\ other[1].lookahead \in Nat
          /\ k1 \in DOMAIN p.aAction /\ k1 < p.nAction
          /\ p.aAction[k1].lookahead = other[1].lookahead
      BY EntriesOfRow DEF InTable
    <3>3. /\ k1 \in 0 .. p.nAction - 1 /\ p.aAction[k1].lookahead = k1 - o
          /\ p.aAction[k1].lookahead >= 0
      BY <1>1, <3>1, <3>2 DEF Slot
    <3>4. k1 \in Belonging(p, o)
      BY <3>3 DEF Belonging
    <3> QED
      BY <1>7, <2>3, <3>4 DEF IsOwn
  <2> QED
    BY <1>5, <2>1, <2>2, <2>3
<1> QED
  BY <1>6, <1>7 DEF InTable, Alone, q

-----------------------------------------------------------------------------
(***************************************************************************)
(* What acttab_insert promises.                                            *)
(***************************************************************************)

\* A row that is in the table is what a lookup finds at its offset, and where it is alone the
\* lookup finds nothing for every other symbol.
THEOREM RowIsFound ==
    ASSUME NEW n \in Nat, NEW p, NEW row, IsRow(row, n), NEW o \in Int,
           IsTable(p), InTable(p, row, o), NEW symbol \in 0 .. n - 1
    PROVE  /\ \A j \in DOMAIN row :
                row[j].lookahead = symbol /\ IsLast(row, j) =>
                  Lookup(p, o, symbol) = row[j].action
           /\ Alone(p, row, o) /\ (\A j \in DOMAIN row : row[j].lookahead # symbol) =>
                Lookup(p, o, symbol) = -1
<1>1. ASSUME NEW j \in DOMAIN row, row[j].lookahead = symbol, IsLast(row, j)
      PROVE  Lookup(p, o, symbol) = row[j].action
  BY <1>1 DEF InTable, Lookup
<1>2. ASSUME Alone(p, row, o), \A j \in DOMAIN row : row[j].lookahead # symbol
      PROVE  Lookup(p, o, symbol) = -1
  BY <1>2, EntriesOfRow DEF Slot, Alone, Lookup
<1> QED
  BY <1>1, <1>2

\* The table starts empty.
THEOREM EmptyIsTable == IsTable(acttab_alloc)
  BY DEF IsTable, acttab_alloc

\* acttab_insert keeps to its array and to the rows that are in it: the row is found at the
\* offset returned, and every row placed before is still found where it was, although all of
\* them share one array, and also when the search has ended without a place.  Unless it has ended
\* at the offset of other rows, nothing else is found there either.
THEOREM InsertKeepsRows ==
    ASSUME NEW nsymbol \in Nat, NEW nterminal \in Nat, NEW makeItSafe \in BOOLEAN,
           NEW p, IsTable(p), NEW row, IsRow(row, nsymbol),
           NEW placed,
           \A x \in placed : /\ IsRow(x.row, nsymbol) /\ x.offset \in Int
                             /\ InTable(p, x.row, x.offset)
    PROVE  LET inserted == acttab_insert(p, row, makeItSafe, nterminal, nsymbol)
           IN  /\ IsTable(inserted.table) /\ inserted.offset \in Int
               /\ InTable(inserted.table, row, inserted.offset)
               /\ \A x \in placed : InTable(inserted.table, x.row, x.offset)
               /\ inserted.shared \in BOOLEAN
               /\ ~ inserted.shared =>
                    /\ Alone(inserted.table, row, inserted.offset)
                    /\ \A x \in placed : Alone(p, x.row, x.offset) =>
                                           Alone(inserted.table, x.row, x.offset)
<1> DEFINE q == Grow(p, nsymbol)
           o == OffsetOf(q, row, makeItSafe)
           r == After(q, row, o, makeItSafe, nterminal)
           shared == Shared(q, row, makeItSafe)
<1>1. acttab_insert(p, row, makeItSafe, nterminal, nsymbol)
        = [table |-> r, offset |-> o, shared |-> shared]
  BY DEF acttab_insert, After
<1>2. /\ IsTable(q) /\ q.nAction = p.nAction /\ q.nAction + nsymbol + 2 <= q.nActionAlloc
      /\ \A k \in DOMAIN p.aAction : k \in DOMAIN q.aAction /\ q.aAction[k] = p.aAction[k]
      /\ \A k \in DOMAIN q.aAction \ DOMAIN p.aAction : q.aAction[k].lookahead < 0
      /\ \A k \in DOMAIN q.aAction : q.aAction[k].lookahead \in Int
  <2>1. /\ IsTable(q)
        /\ q.nAction = p.nAction /\ q.nAction + nsymbol + 2 <= q.nActionAlloc
        /\ \A k \in DOMAIN p.aAction : k \in DOMAIN q.aAction /\ q.aAction[k] = p.aAction[k]
        /\ \A k \in DOMAIN q.aAction \ DOMAIN p.aAction : q.aAction[k].lookahead < 0
    BY TableGrown
  <2> HIDE DEF q
  <2>2. \A k \in DOMAIN q.aAction : q.aAction[k].lookahead \in Int
    BY <2>1 DEF IsTable
  <2> QED
    BY <2>1, <2>2
<1>3. IsPlace(q, row, o) /\ (shared \/ IsOwn(q, row, o))
  BY <1>2, PlaceFound
<1>4. shared \in BOOLEAN
  BY DEF Shared
<1>5. ASSUME NEW x \in placed
      PROVE  InTable(q, x.row, x.offset) /\ (Alone(p, x.row, x.offset) => Alone(q, x.row, x.offset))
  BY <1>2 DEF InTable, Alone
<1> HIDE DEF q, o, shared
<1>6. IsTable(r) /\ InTable(r, row, o) /\ (IsOwn(q, row, o) => Alone(r, row, o))
  BY <1>2, <1>3, StoredExactly
<1>7. ASSUME NEW x \in placed
      PROVE  /\ InTable(r, x.row, x.offset)
             /\ Alone(p, x.row, x.offset) /\ IsOwn(q, row, o) => Alone(r, x.row, x.offset)
  BY <1>2, <1>3, <1>5, OthersStay
<1>8. o \in Int
  BY <1>3 DEF IsPlace
<1> HIDE DEF r
<1> QED
  BY <1>1, <1>3, <1>4, <1>6, <1>7, <1>8

-----------------------------------------------------------------------------
(***************************************************************************)
(* The actions of the states.                                              *)
(***************************************************************************)

\* Indexed from 1.
IsListing(list) == \E n \in Nat : DOMAIN list = 1 .. n

\* A listing has finitely many indices and entries.
LEMMA ListingFinite ==
    ASSUME NEW list, IsListing(list)
    PROVE  IsFiniteSet(DOMAIN list) /\ IsFiniteSet({list[i] : i \in DOMAIN list})
<1>1. PICK n \in Nat : DOMAIN list = 1 .. n
  BY DEF IsListing
<1>2. IsFiniteSet(1 .. n)
  BY FS_Interval
<1> QED
  BY <1>1, <1>2, FiniteImage

\* A sorted set is a listing.
LEMMA SortedListing ==
    ASSUME NEW S, IsFiniteSet(S), NEW order
    PROVE  IsListing(Sorted(S, order))
  BY FS_CardinalityType DEF Sorted, IsListing

\* What the actions of a state are for, and what they are.
ActionIn(gr, sts, a) ==
    \E sp \in 0 .. gr.nsymbol - 1, type \in {"SHIFT", "REDUCE", "ACCEPT"},
       x \in DOMAIN sts \cup (Rules(gr) \cup {0}) :
      /\ a = [sp |-> sp, type |-> type, x |-> x]
      /\ type = "SHIFT" => x \in DOMAIN sts
      /\ type = "REDUCE" => x \in Rules(gr)

\* Every action FindActions collects is a shift, a reduction or the acceptance.
LEMMA ActionsIn ==
    ASSUME NEW gr, IsGrammar(gr), NEW sts, NEW cs, IsAutomaton(gr, sts, cs),
           NEW fws, NEW k \in DOMAIN sts, NEW a \in AllActions(gr, sts, fws, k)
    PROVE  ActionIn(gr, sts, a)
<1> DEFINE A == 0 .. gr.nsymbol - 1
           B == {"SHIFT", "REDUCE", "ACCEPT"}
           X == DOMAIN sts \cup (Rules(gr) \cup {0})
<1>1. Terminals(gr) \subseteq A /\ Start(gr) \in A
  <2>1. /\ gr.nterminal \in Nat \ {0} /\ gr.nsymbol \in Nat /\ gr.nterminal < gr.nsymbol
        /\ 1 \in Rules(gr)
    BY PartsOfGrammar
  <2>2. gr.rules[1].lhs \in Nonterminals(gr)
    BY <2>1, PartsOfGrammar
  <2> QED
    BY <2>1, <2>2 DEF Terminals, Nonterminals, Start
<1>2. CASE \E s \in sts[k].shifts : a = [sp |-> s.sp, type |-> "SHIFT", x |-> s.x]
  <2>1. PICK s \in sts[k].shifts : a = [sp |-> s.sp, type |-> "SHIFT", x |-> s.x]
    BY <1>2
  <2>2. sts[k].shifts \in SUBSET [sp : 0 .. gr.nsymbol - 1, x : Nat]
    BY PartsOfStates DEF StateSet
  <2>3. s.sp \in A /\ s.x \in DOMAIN sts
    BY <2>2 DEF IsAutomaton, Goes
  <2> QED
    BY <2>1, <2>3 DEF ActionIn
<1>3. CASE \E c \in sts[k].cfp : \E t \in Terminals(gr) : a = [sp |-> t, type |-> "REDUCE", x |-> c[1]]
  BY <1>3, PartsOfStates, ConfigParts, <1>1 DEF ActionIn
<1>4. CASE a = [sp |-> Start(gr), type |-> "ACCEPT", x |-> 0]
  BY <1>1, <1>4 DEF ActionIn
<1>5. \/ \E s \in sts[k].shifts : a = [sp |-> s.sp, type |-> "SHIFT", x |-> s.x]
      \/ \E c \in sts[k].cfp : \E t \in Terminals(gr) : a = [sp |-> t, type |-> "REDUCE", x |-> c[1]]
      \/ a = [sp |-> Start(gr), type |-> "ACCEPT", x |-> 0]
  BY DEF AllActions
<1> QED
  BY ONLY <1>2, <1>3, <1>4, <1>5

\* FindActions collects finitely many for a state.
LEMMA ActionsFinite ==
    ASSUME NEW gr, IsGrammar(gr), NEW sts, NEW cs, IsAutomaton(gr, sts, cs),
           NEW fws, NEW k \in DOMAIN sts
    PROVE  IsFiniteSet(AllActions(gr, sts, fws, k))
<1> DEFINE A == 0 .. gr.nsymbol - 1
           B == {"SHIFT", "REDUCE", "ACCEPT"}
           X == DOMAIN sts \cup (Rules(gr) \cup {0})
           h == [p \in A \X (B \X X) |-> [sp |-> p[1], type |-> p[2][1], x |-> p[2][2]]]
           all == AllActions(gr, sts, fws, k)
<1>1. IsFiniteSet(A) /\ IsFiniteSet(B) /\ IsFiniteSet(X)
  <2>1. IsFiniteSet(A)
    <3>1. 0 \in Int /\ gr.nsymbol - 1 \in Int
      BY PartsOfGrammar
    <3> QED
      BY ONLY <3>1, FS_Interval DEF A
  <2>2. IsFiniteSet(B)
    <3>1. IsFiniteSet({"SHIFT"}) /\ IsFiniteSet({"REDUCE"}) /\ IsFiniteSet({"ACCEPT"})
      BY ONLY FS_Singleton
    <3>2. IsFiniteSet({"SHIFT"} \cup {"REDUCE"})
      BY ONLY <3>1, FS_Union
    <3>3. IsFiniteSet(({"SHIFT"} \cup {"REDUCE"}) \cup {"ACCEPT"})
      BY ONLY <3>1, <3>2, FS_Union
    <3>4. B = ({"SHIFT"} \cup {"REDUCE"}) \cup {"ACCEPT"}
      OBVIOUS
    <3> QED
      BY ONLY <3>3, <3>4
  <2>3. DOMAIN sts = 1 .. Len(sts) /\ Len(sts) \in Int
    BY PartsOfStates
  <2>4. Rules(gr) = 1 .. Len(gr.rules) /\ Len(gr.rules) \in Int
    BY PartsOfGrammar
  <2>5. IsFiniteSet(DOMAIN sts) /\ IsFiniteSet(Rules(gr)) /\ IsFiniteSet({0})
    <3>1. IsFiniteSet(1 .. Len(sts)) /\ IsFiniteSet(1 .. Len(gr.rules))
      BY ONLY <2>3, <2>4, FS_Interval
    <3>2. IsFiniteSet({0})
      BY ONLY FS_Singleton
    <3> QED
      BY ONLY <2>3, <2>4, <3>1, <3>2
  <2>6. IsFiniteSet(Rules(gr) \cup {0})
    BY <2>5, FS_Union
  <2>7. IsFiniteSet(X)
    BY <2>5, <2>6, FS_Union
  <2> QED
    BY <2>1, <2>2, <2>7
<1>2. ASSUME NEW a \in all
      PROVE  \E s \in A, t \in B, x \in X : a = [sp |-> s, type |-> t, x |-> x]
  BY ActionsIn DEF ActionIn
<1> HIDE DEF A, B, X, all
<1>3. IsFiniteSet(B \X X)
  BY <1>1, FS_Product
<1>4. IsFiniteSet(A \X (B \X X))
  BY <1>1, <1>3, FS_Product
<1>5. IsFiniteSet({h[p] : p \in DOMAIN h})
  BY <1>4, FiniteImage
<1>6. all \subseteq {h[p] : p \in DOMAIN h}
  <2>1. ASSUME NEW a \in all PROVE \E p \in DOMAIN h : a = h[p]
    <3>1. PICK s \in A, t \in B, x \in X : a = [sp |-> s, type |-> t, x |-> x]
      BY <1>2
    <3>2. <<s, <<t, x>>>> \in DOMAIN h /\ h[<<s, <<t, x>>>>] = a
      BY <3>1
    <3> QED
      BY <3>2
  <2> HIDE DEF h
  <2> QED
    BY <2>1
<1> HIDE DEF h
<1>7. IsFiniteSet(all)
  BY <1>5, <1>6, FS_Subset
<1> QED
  BY <1>7 DEF all

\* CompressTables leaves a listing of actions for a state.
LEMMA Compressed ==
    ASSUME NEW gr, NEW ap, IsListing(ap)
    PROVE  IsListing(Compress(gr, ap).ap)
<1> DEFINE candidates == DefaultCandidates(gr, ap)
           best == CHOOSE i \in candidates : \A j \in candidates :
                  \/ Count(ap, ap[j].x) < Count(ap, ap[i].x)
                  \/ Count(ap, ap[j].x) = Count(ap, ap[i].x) /\ i <= j
           rbest == ap[best].x
           image == {ap[i] : i \in DOMAIN ap}
           others == image \ {ap[i] : i \in {j \in Reductions(ap) : ap[j].x = rbest}}
           new == [sp |-> Default(gr), type |-> "REDUCE", x |-> rbest]
           kept == others \cup {new}
<1>1. IsFiniteSet(image)
  BY ListingFinite
<1>2. others \subseteq image
  OBVIOUS
<1> HIDE DEF image, others, new
<1>3. IsFiniteSet(others) /\ IsFiniteSet({new})
  BY <1>1, <1>2, FS_Subset, FS_Singleton
<1>4. IsFiniteSet(kept)
  BY <1>3, FS_Union
<1> HIDE DEF kept
<1>5. IsListing(Sorted(kept, Actioncmp(kept)))
  BY <1>4, SortedListing
<1>6. CASE candidates = {}
  BY <1>6 DEF Compress
<1>7. CASE candidates # {}
  <2>1. Compress(gr, ap).ap = Sorted(kept, Actioncmp(kept))
    BY <1>7 DEF Compress, kept, new, others, image
  <2> QED
    BY <1>5, <2>1
<1> QED
  BY <1>6, <1>7

\* What the states do, before CompressTables and from then on.
IsParser(aps) == IsListing(aps) /\ 1 \in DOMAIN aps /\ \A k \in DOMAIN aps : IsListing(aps[k])

\* After CompressTables every state has a list of actions.
IsCompressed(cps) ==
    /\ IsListing(cps) /\ 1 \in DOMAIN cps
    /\ \A k \in DOMAIN cps : "ap" \in DOMAIN cps[k] /\ IsListing(cps[k].ap)

\* FindActions lists what each state does.
LEMMA ActionsCollected ==
    ASSUME NEW gr, IsGrammar(gr), NEW sts, NEW cs, IsAutomaton(gr, sts, cs),
           1 \in DOMAIN sts, NEW fws
    PROVE  IsParser(CollectActions(gr, sts, fws))
<1> DEFINE aps == CollectActions(gr, sts, fws)
<1>1. DOMAIN aps = DOMAIN sts
  BY DEF CollectActions
<1>2. ASSUME NEW k \in DOMAIN sts PROVE IsListing(aps[k])
  BY ActionsFinite, SortedListing DEF CollectActions
<1>3. sts \in Seq(StateSet(gr))
  BY DEF IsAutomaton
<1>4. DOMAIN sts = 1 .. Len(sts) /\ Len(sts) \in Nat
  BY <1>3
<1> HIDE DEF aps
<1>5. IsListing(aps)
  BY <1>1, <1>4 DEF IsListing
<1> QED
  BY <1>1, <1>2, <1>5 DEF IsParser, aps

\* A conflict resolved leaves the lists as long as they were.
LEMMA ConflictResolved ==
    ASSUME NEW gr, NEW aps, IsParser(aps), NEW c
    PROVE  IsParser(Resolve(gr, aps, c).aps)
<1> DEFINE T == Resolve(gr, aps, c).aps
<1>1. DOMAIN T = DOMAIN aps /\ \A k \in DOMAIN aps : DOMAIN T[k] = DOMAIN aps[k]
  BY DEF Resolve
<1> HIDE DEF T
<1> QED
  BY <1>1 DEF IsParser, IsListing, T

\* CompressTables leaves a list and a default for each state.
LEMMA AllCompressed ==
    ASSUME NEW gr, NEW aps, IsParser(aps)
    PROVE  IsCompressed(CompressTables(gr, aps))
<1> DEFINE comp == [k \in DOMAIN aps |-> Compress(gr, aps[k])]
           T == CompressTables(gr, aps)
<1>1. /\ DOMAIN T = DOMAIN aps
      /\ \A k \in DOMAIN aps : DOMAIN T[k] = {"ap", "autoReduce"}
      /\ \A k \in DOMAIN aps : T[k].ap = ShiftReduces(gr, comp, comp[k].ap)
  BY DEF CompressTables
<1>2. ASSUME NEW k \in DOMAIN aps PROVE IsListing(T[k].ap)
  <2>1. DOMAIN T[k].ap = DOMAIN Compress(gr, aps[k]).ap
    <3>1. comp[k] = Compress(gr, aps[k])
      OBVIOUS
    <3> HIDE DEF T, comp
    <3>2. T[k].ap = ShiftReduces(gr, comp, Compress(gr, aps[k]).ap)
      BY <1>1, <3>1
    <3>3. \A ap : DOMAIN ShiftReduces(gr, comp, ap) = DOMAIN ap
      BY DEF ShiftReduces
    <3> QED
      BY <3>2, <3>3
  <2>2. IsListing(aps[k])
    BY DEF IsParser
  <2>3. IsListing(Compress(gr, aps[k]).ap)
    BY <2>2, Compressed
  <2> HIDE DEF T
  <2> QED
    BY <2>1, <2>3 DEF IsListing
<1> HIDE DEF T
<1> QED
  BY <1>1, <1>2 DEF IsParser, IsCompressed, IsListing, T

\* A renamed action leaves them as they were.
LEMMA ActionRenamed ==
    ASSUME NEW gr, NEW cps, IsCompressed(cps), NEW k, NEW i
    PROVE  IsCompressed([cps EXCEPT ![k].ap = Rename(gr, cps[k].ap, i).ap])
<1> DEFINE ap == Rename(gr, cps[k].ap, i).ap
           T == [cps EXCEPT ![k].ap = ap]
<1>1. DOMAIN ap = DOMAIN cps[k].ap
  BY DEF Rename
<1> HIDE DEF ap
<1>2. /\ DOMAIN T = DOMAIN cps
      /\ \A j \in DOMAIN cps : DOMAIN T[j] = DOMAIN cps[j]
      /\ \A j \in DOMAIN cps : j # k => T[j].ap = cps[j].ap
      /\ k \in DOMAIN cps /\ "ap" \in DOMAIN cps[k] => T[k].ap = ap
  OBVIOUS
<1> HIDE DEF T
<1>3. \A j \in DOMAIN cps : DOMAIN T[j].ap = DOMAIN cps[j].ap
  BY <1>1, <1>2 DEF IsCompressed
<1>4. IsCompressed(T)
  BY <1>2, <1>3 DEF IsCompressed, IsListing
<1> QED
  BY <1>4 DEF T, ap

-----------------------------------------------------------------------------
(***************************************************************************)
(* The rows of the table.                                                  *)
(***************************************************************************)

\* Larger ones first, of two as large the one with the smaller key.
Larger(S, size, key) ==
    {p \in S \X S : \/ size[p[1]] > size[p[2]]
                    \/ size[p[1]] = size[p[2]] /\ key[p[1]] < key[p[2]]}

\* An order by size and then by a key no two share is strict.
LEMMA LargerFirst ==
    ASSUME NEW S, NEW size \in [S -> Int], NEW key \in [S -> Int],
           \A x, y \in S : key[x] = key[y] => x = y
    PROVE  IsStrictOrder(S, Larger(S, size, key))
<1> DEFINE before(x, y) == size[x] > size[y] \/ (size[x] = size[y] /\ key[x] < key[y])
           R == Larger(S, size, key)
<1>1. \A x, y \in S : <<x, y>> \in R <=> before(x, y)
  BY DEF Larger
<1>2. R \in SUBSET (S \X S)
  BY DEF Larger
<1> HIDE DEF R
<1>3. \A x \in S : size[x] \in Int /\ key[x] \in Int
  OBVIOUS
<1>4. \A x \in S : ~ before(x, x)
  BY <1>3
<1>5. \A x, y, z \in S : before(x, y) /\ before(y, z) => before(x, z)
  BY <1>3
<1>6. \A x, y \in S : x # y => before(x, y) \/ before(y, x)
  BY <1>3
<1> HIDE DEF before
<1>7. IsStrictOrder(S, R)
  BY <1>1, <1>2, <1>4, <1>5, <1>6 DEF IsStrictOrder
<1> QED
  BY <1>7 DEF R

\* A state has finitely many actions on any symbols.
LEMMA ChoicesFinite ==
    ASSUME NEW st, IsListing(st.ap), NEW symbols
    PROVE  /\ IsFiniteSet(ActionsOn(st, symbols)) /\ ActionsOn(st, symbols) \subseteq DOMAIN st.ap
           /\ Cardinality(ActionsOn(st, symbols)) \in Nat
<1>1. IsFiniteSet(DOMAIN st.ap)
  BY ListingFinite
<1>2. ActionsOn(st, symbols) \subseteq DOMAIN st.ap
  BY DEF ActionsOn
<1> QED
  BY <1>1, <1>2, FS_Subset, FS_CardinalityType

\* ResortStates orders the states it sorts strictly.
LEMMA ResortOrder ==
    ASSUME NEW gr, NEW cps, IsCompressed(cps), NEW rest, rest \subseteq DOMAIN cps
    PROVE  IsStrictOrder(rest, {p \in rest \X rest : ResortCompare(gr, cps, p[1], p[2])})
<1> DEFINE nt == [k \in rest |-> nNtAct(gr, cps[k])]
           tkn == [k \in rest |-> nTknAct(gr, cps[k])]
           before(k, l) == \/ nt[k] > nt[l]
                           \/ nt[k] = nt[l] /\ tkn[k] > tkn[l]
                           \/ nt[k] = nt[l] /\ tkn[k] = tkn[l] /\ k > l
           R == {p \in rest \X rest : ResortCompare(gr, cps, p[1], p[2])}
<1>1. \A k \in rest : k \in Int /\ nt[k] \in Int /\ tkn[k] \in Int
  BY ChoicesFinite DEF IsCompressed, IsListing, nNtAct, nTknAct
<1>2. \A k, l \in rest : ResortCompare(gr, cps, k, l) <=> before(k, l)
  BY DEF ResortCompare
<1>3. R \in SUBSET (rest \X rest) /\ \A k, l \in rest : <<k, l>> \in R <=> ResortCompare(gr, cps, k, l)
  OBVIOUS
<1> HIDE DEF nt, tkn, R
<1>4. \A k \in rest : ~ before(k, k)
  BY <1>1
<1>5. \A k, l, m \in rest : before(k, l) /\ before(l, m) => before(k, m)
  BY <1>1
<1>6. \A k, l \in rest : k # l => before(k, l) \/ before(l, k)
  BY <1>1
<1> HIDE DEF before
<1>7. IsStrictOrder(rest, R)
  BY <1>2, <1>3, <1>4, <1>5, <1>6 DEF IsStrictOrder
<1> QED
  BY <1>7 DEF R

\* Every state has a place in the order.
ListsAll(D, order) == \A k \in D : \E i \in DOMAIN order : order[i] = k

\* The states resorted are states, and the first is among them.
LEMMA StatesResorted ==
    ASSUME NEW gr, NEW cps, IsCompressed(cps)
    PROVE  /\ ResortStates(gr, cps) \in Seq(DOMAIN cps) /\ Len(ResortStates(gr, cps)) \in Nat \ {0}
           /\ Len(ResortStates(gr, cps)) = Cardinality(DOMAIN cps)
           /\ ListsAll(DOMAIN cps, ResortStates(gr, cps)) /\ ResortStates(gr, cps)[1] = 1
<1> DEFINE D == DOMAIN cps
           rest == D \ {1}
           R == {p \in rest \X rest : ResortCompare(gr, cps, p[1], p[2])}
           more == Sorted(rest, R)
<1>1. 1 \in D /\ IsFiniteSet(D)
  BY ListingFinite DEF IsCompressed
<1>2. IsFiniteSet(rest) /\ rest \subseteq D
  BY <1>1, FS_Subset
<1>3. IsStrictOrder(rest, R)
  BY <1>2, ResortOrder
<1>4. ResortStates(gr, cps) = <<1>> \o more
  BY DEF ResortStates
<1> HIDE DEF R
<1>5. /\ Cardinality(rest) \in Nat /\ more \in [1 .. Cardinality(rest) -> rest]
      /\ \A k \in rest : \E i \in 1 .. Cardinality(rest) : more[i] = k
  <2> HIDE DEF rest
  <2> QED
    BY <1>2, <1>3, SortedInOrder
<1> HIDE DEF more
<1>6. more \in Seq(D)
  <2> DEFINE c == Cardinality(rest)
  <2> HIDE DEF rest, D, c
  <2>1. c \in Nat /\ more \in [1 .. c -> D]
    BY <1>2, <1>5 DEF c
  <2> QED
    BY <2>1
<1> HIDE DEF D, rest
<1>7. <<1>> \in Seq(D) /\ Len(<<1>>) = 1
  BY <1>1
<1> DEFINE order == <<1>> \o more
<1>8. /\ order \in Seq(D) /\ Len(order) = 1 + Len(more) /\ Len(more) \in Nat
      /\ order[1] = 1 /\ \A i \in 1 .. Len(more) : order[i + 1] = more[i]
  BY <1>6, <1>7
<1>9. Len(more) = Cardinality(rest)
  BY <1>5
<1> HIDE DEF order
<1>10. Len(order) = Cardinality(D)
  <2>1. rest = D \ {1}
    BY DEF rest, D
  <2>2. Cardinality(D \ {1}) = Cardinality(D) - 1 /\ Cardinality(D) \in Nat
    BY <1>1, FS_RemoveElement, FS_CardinalityType
  <2>3. Cardinality(rest) = Cardinality(D) - 1
    BY <2>1, <2>2
  <2> QED
    BY <1>8, <1>9, <2>2, <2>3
<1>11. ASSUME NEW k \in D PROVE \E i \in DOMAIN order : order[i] = k
  <2>0. DOMAIN order = 1 .. 1 + Len(more) /\ Len(more) \in Nat
    BY <1>8
  <2>1. CASE k = 1
    BY <1>8, <2>0, <2>1
  <2>2. CASE k # 1
    <3>1. k \in rest
      BY <2>2 DEF rest, D
    <3>2. PICK i \in 1 .. Len(more) : more[i] = k
      BY <1>5, <1>9, <3>1
    <3>3. i + 1 \in DOMAIN order /\ order[i + 1] = k
      BY <1>8, <2>0, <3>2
    <3> QED
      BY <3>3
  <2> QED
    BY <2>1, <2>2
<1>12. Len(order) \in Nat \ {0}
  BY <1>8
<1>13. ResortStates(gr, cps) = order
  BY <1>4 DEF order
<1>14. ListsAll(D, order)
  BY <1>11 DEF ListsAll
<1> QED
  BY <1>8, <1>10, <1>12, <1>13, <1>14 DEF D

\* The states with an action table of their own come first.
LEMMA StatesWithTables ==
    ASSUME NEW cps, NEW S, NEW order \in Seq(S), Len(order) \in Nat \ {0}
    PROVE  LET n == nxstate(cps, order)
           IN  /\ n \in 1 .. Len(order)
               /\ \A i \in n + 1 .. Len(order) : cps[order[i]].autoReduce
<1> DEFINE L == Len(order)
           kept == {i \in 1 .. L : i = 1 \/ ~ cps[order[i]].autoReduce}
<1>1. L \in Int /\ kept \in SUBSET Int /\ kept # {} /\ \A i \in kept : i <= L
  OBVIOUS
<1> HIDE DEF kept
<1>2. PICK n \in kept : \A i \in kept : i <= n
  BY <1>1, Greatest
<1> USE DEF kept
<1>3. DOMAIN order = 1 .. L
  OBVIOUS
<1>4. ASSUME NEW i \in n + 1 .. L PROVE cps[order[i]].autoReduce
  BY <1>2
<1>5. n \in DOMAIN order /\ (n = 1 \/ ~ cps[order[n]].autoReduce)
  BY <1>2, <1>3
<1>6. /\ nxstate(cps, order) \in DOMAIN order
      /\ \A i \in nxstate(cps, order) + 1 .. L : cps[order[i]].autoReduce
  BY <1>4, <1>5 DEF nxstate
<1> QED
  BY <1>3, <1>6

\* What a row is of: a state that has a table and has actions on the symbols.
SymbolsOf(gr, x) == IF x.isTkn THEN Terminals(gr) ELSE Nonterminals(gr)

\* A row to be packed is that of a state with an action on a symbol of its kind.
IsRowOf(gr, cps, order, x) ==
    /\ x.state \in 0 .. nxstate(cps, order) - 1 /\ x.state + 1 \in DOMAIN order
    /\ x.isTkn \in BOOLEAN
    /\ Cardinality(ActionsOn(cps[order[x.state + 1]], SymbolsOf(gr, x))) > 0

\* Every state that has a table and has actions on terminals or nonterminals has a row of them.
HaveRows(gr, cps, order, rows) ==
    \A x \in [state : 0 .. nxstate(cps, order) - 1, isTkn : BOOLEAN] :
      Cardinality(ActionsOn(cps[order[x.state + 1]], SymbolsOf(gr, x))) > 0 =>
        \E i \in DOMAIN rows : rows[i] = x

\* The rows ReportTable packs are those of states, each with something in it.
LEMMA RowsInOrder ==
    ASSUME NEW gr, NEW cps, IsCompressed(cps),
           NEW order \in Seq(DOMAIN cps), Len(order) \in Nat \ {0}
    PROVE  LET rows == axset(gr, cps, order)
           IN  /\ Len(rows) \in Nat /\ DOMAIN rows = 1 .. Len(rows)
               /\ \A i \in DOMAIN rows : IsRowOf(gr, cps, order, rows[i])
               /\ HaveRows(gr, cps, order, rows)
<1> DEFINE n == nxstate(cps, order)
           count(x) == Cardinality(ActionsOn(cps[order[x.state + 1]], SymbolsOf(gr, x)))
           U == [state : 0 .. n - 1, isTkn : BOOLEAN]
           all == {x \in U : count(x) > 0}
           size == [x \in all |-> count(x)]
           key == [x \in all |-> 2 * x.state + (IF x.isTkn THEN 0 ELSE 1)]
           R == Larger(all, size, key)
<1>1. n \in 1 .. Len(order) /\ n \in Int
  BY StatesWithTables
<1> HIDE DEF n
<1>2. \A x \in U : /\ x.state \in 0 .. n - 1 /\ x.isTkn \in BOOLEAN /\ x.state + 1 \in 1 .. Len(order)
                   /\ x.state \in Nat
  BY <1>1
<1>3. \A x \in U : count(x) \in Int
  BY <1>2, ElementOfSeq, ChoicesFinite DEF IsCompressed
<1>4. IsFiniteSet(U)
  <2> DEFINE N == 0 .. n - 1
             h == [p \in N \X BOOLEAN |-> [state |-> p[1], isTkn |-> p[2]]]
  <2>1. IsFiniteSet(N)
    <3>1. 0 \in Int /\ n - 1 \in Int
      BY <1>1
    <3> QED
      BY ONLY <3>1, FS_Interval DEF N
  <2>2. IsFiniteSet(BOOLEAN)
    <3>1. IsFiniteSet({TRUE}) /\ IsFiniteSet({FALSE})
      BY ONLY FS_Singleton
    <3>2. IsFiniteSet({TRUE} \cup {FALSE})
      BY ONLY <3>1, FS_Union
    <3>3. BOOLEAN = {TRUE} \cup {FALSE}
      BY ONLY Zenon
    <3> QED
      BY ONLY <3>2, <3>3
  <2> HIDE DEF N
  <2>3. IsFiniteSet(N \X BOOLEAN)
    BY ONLY <2>1, <2>2, FS_Product
  <2>4. IsFiniteSet({h[p] : p \in DOMAIN h})
    BY <2>3, FiniteImage
  <2>5. ASSUME NEW x \in U PROVE \E p \in DOMAIN h : x = h[p]
    <3>1. x = [state |-> x.state, isTkn |-> x.isTkn] /\ x.state \in N /\ x.isTkn \in BOOLEAN
      BY DEF N
    <3>2. <<x.state, x.isTkn>> \in DOMAIN h
      BY <3>1
    <3>3. h[<<x.state, x.isTkn>>] = [state |-> x.state, isTkn |-> x.isTkn]
      BY <3>1
    <3> QED
      BY <3>1, <3>2, <3>3
  <2> HIDE DEF h, U
  <2>6. U \subseteq {h[p] : p \in DOMAIN h}
    BY <2>5
  <2> QED
    BY <2>4, <2>6, FS_Subset
<1>5. IsFiniteSet(all)
  BY <1>4, FS_Subset
<1>6. size \in [all -> Int] /\ key \in [all -> Int]
  BY <1>2, <1>3
<1>7. \A x, y \in all : key[x] = key[y] => x = y
  <2>1. ASSUME NEW x \in all, NEW y \in all, key[x] = key[y] PROVE x = y
    <3>1. /\ x.state \in Nat /\ y.state \in Nat /\ x.isTkn \in BOOLEAN /\ y.isTkn \in BOOLEAN
          /\ 2 * x.state + (IF x.isTkn THEN 0 ELSE 1) = 2 * y.state + (IF y.isTkn THEN 0 ELSE 1)
      BY <1>2, <2>1
    <3>2. x.state = y.state /\ (x.isTkn <=> y.isTkn)
      BY ONLY <3>1
    <3>3. x.isTkn = y.isTkn
      BY <3>1, <3>2
    <3>4. x = [state |-> x.state, isTkn |-> x.isTkn] /\ y = [state |-> y.state, isTkn |-> y.isTkn]
      OBVIOUS
    <3> QED
      BY <3>2, <3>3, <3>4
  <2> QED
    BY <2>1
<1>8. axset(gr, cps, order) = Sorted(all, R)
  <2> DEFINE was(x) == IF x.isTkn THEN nTknAct(gr, cps[order[x.state + 1]])
                                  ELSE nNtAct(gr, cps[order[x.state + 1]])
             iOrder(x) == 2 * x.state + (IF x.isTkn THEN 0 ELSE 1)
  <2>1. \A x : was(x) = count(x)
    BY DEF nTknAct, nNtAct, SymbolsOf
  <2>2. all = {x \in U : was(x) > 0}
    BY <2>1
  <2>3. \A x \in all : size[x] = was(x) /\ key[x] = iOrder(x)
    BY <2>1
  <2> HIDE DEF was, iOrder, size, key
  <2>4. R = {p \in all \X all : \/ was(p[1]) > was(p[2])
                                \/ was(p[1]) = was(p[2]) /\ iOrder(p[1]) < iOrder(p[2])}
    BY <2>3 DEF Larger
  <2> HIDE DEF R, all
  <2>5. axset(gr, cps, order) = Sorted({x \in U : was(x) > 0},
          {p \in {x \in U : was(x) > 0} \X {x \in U : was(x) > 0} :
             \/ was(p[1]) > was(p[2])
             \/ was(p[1]) = was(p[2]) /\ iOrder(p[1]) < iOrder(p[2])})
    BY DEF axset, n, was, iOrder
  <2> QED
    BY <2>2, <2>4, <2>5
<1> HIDE DEF size, key
<1>9. IsStrictOrder(all, R)
  BY <1>6, <1>7, LargerFirst
<1>10. /\ Cardinality(all) \in Nat /\ axset(gr, cps, order) \in [1 .. Cardinality(all) -> all]
       /\ \A x \in all : \E i \in 1 .. Cardinality(all) : axset(gr, cps, order)[i] = x
  <2> HIDE DEF all, R
  <2> QED
    BY <1>5, <1>8, <1>9, SortedInOrder
<1>11. \A x \in all : IsRowOf(gr, cps, order, x)
  BY <1>2 DEF IsRowOf, n
<1>12. ASSUME NEW x \in [state : 0 .. nxstate(cps, order) - 1, isTkn : BOOLEAN],
              Cardinality(ActionsOn(cps[order[x.state + 1]], SymbolsOf(gr, x))) > 0
       PROVE  x \in all
  BY <1>12 DEF n
<1> HIDE DEF all
<1>13. axset(gr, cps, order) \in Seq(all) /\ Len(axset(gr, cps, order)) \in Nat
  BY <1>10
<1>14. HaveRows(gr, cps, order, axset(gr, cps, order))
  BY <1>10, <1>12 DEF HaveRows
<1> QED
  BY <1>10, <1>11, <1>13, <1>14

\* What is packed for one is a row.
LEMMA RowMade ==
    ASSUME NEW gr, IsGrammar(gr), NEW cps, IsCompressed(cps), NEW order,
           NEW k \in DOMAIN cps, NEW symbols \in SUBSET (0 .. gr.nsymbol - 1),
           Cardinality(ActionsOn(cps[k], symbols)) > 0
    PROVE  IsRow(Row(gr, cps, order, k, symbols), gr.nsymbol)
<1> DEFINE on == ActionsOn(cps[k], symbols)
           R == {p \in on \X on : p[1] < p[2]}
           at == Sorted(on, R)
           row == Row(gr, cps, order, k, symbols)
<1>1. /\ IsFiniteSet(on) /\ on \subseteq DOMAIN cps[k].ap /\ Cardinality(on) \in Nat
      /\ \A i \in on : cps[k].ap[i].sp \in symbols
  BY ChoicesFinite DEF IsCompressed, ActionsOn, on
<1>2. on \subseteq Int
  BY <1>1 DEF IsCompressed, IsListing
<1>3. Cardinality(on) > 0
  OBVIOUS
<1>4. DOMAIN row = DOMAIN at /\ \A i \in DOMAIN at : row[i].lookahead = cps[k].ap[at[i]].sp
  BY DEF Row
<1> HIDE DEF on, row
<1>5. IsStrictOrder(on, R)
  BY <1>2 DEF IsStrictOrder
<1>6. at \in [1 .. Cardinality(on) -> on]
  <2> HIDE DEF R
  <2> QED
    BY <1>1, <1>5, SortedInOrder
<1> HIDE DEF at
<1>7. \A i \in DOMAIN row : row[i].lookahead \in 0 .. gr.nsymbol - 1
  BY <1>1, <1>4, <1>6
<1>8. DOMAIN row = 1 .. Cardinality(on)
  BY <1>4, <1>6
<1>9. IsRow(row, gr.nsymbol)
  BY <1>1, <1>3, <1>7, <1>8 DEF IsRow
<1> QED
  BY <1>9 DEF row

-----------------------------------------------------------------------------
(***************************************************************************)
(* The second half of a run: actions and tables.                           *)
(***************************************************************************)

\* The rows packed so far are where they have been put, and alone there as long as no row has
\* had to share an offset.
IsPacked(gr, pk) ==
    /\ IsTable(pk.table) /\ pk.shared \in BOOLEAN
    /\ pk.rows \in Seq({pk.rows[i] : i \in DOMAIN pk.rows})
    /\ \A i \in DOMAIN pk.rows :
         /\ IsRow(pk.rows[i].row, gr.nsymbol) /\ pk.rows[i].offset \in Int
         /\ pk.rows[i].isTkn \in BOOLEAN
         /\ InTable(pk.table, pk.rows[i].row, pk.rows[i].offset)
         /\ pk.shared \/ Alone(pk.table, pk.rows[i].row, pk.rows[i].offset)

\* Holds after every step, besides what StatesInv says.
TablesInv ==
    /\ phase \in {"conflicts", "compress"} => IsParser(parser)
    /\ phase \in {"renames", "pack"} => IsCompressed(parser)
    /\ IsPacked(g, pack)

\* Before the first row.
LEMMA NothingPacked == ASSUME NEW gr PROVE IsPacked(gr, PackInit)
<1>1. DOMAIN << >> = {}
  OBVIOUS
<1>2. IsTable(acttab_alloc)
  BY EmptyIsTable
<1> QED
  BY <1>1, <1>2, EmptySeq DEF IsPacked, PackInit

\* One row more leaves every row packed before where it was.
LEMMA RowPacked ==
    ASSUME NEW gr, IsGrammar(gr), NEW cps, IsCompressed(cps),
           NEW order \in Seq(DOMAIN cps), NEW x, IsRowOf(gr, cps, order, x),
           NEW pk, IsPacked(gr, pk)
    PROVE  IsPacked(gr, Pack(gr, cps, order, x, pk))
<1> DEFINE k == order[x.state + 1]
           row == Row(gr, cps, order, k, SymbolsOf(gr, x))
           put == acttab_insert(pk.table, row, x.isTkn, gr.nterminal, gr.nsymbol)
           new == [state |-> x.state, isTkn |-> x.isTkn, row |-> row, offset |-> put.offset]
           qk == Pack(gr, cps, order, x, pk)
<1>1. /\ qk.table = put.table /\ qk.rows = Append(pk.rows, new)
      /\ qk.shared = (pk.shared \/ put.shared)
  BY DEF Pack, SymbolsOf
<1>2. gr.nterminal \in Nat /\ gr.nsymbol \in Nat /\ gr.nterminal < gr.nsymbol
  BY PartsOfGrammar
<1>3. IsRow(row, gr.nsymbol)
  BY <1>2, ElementOfSeq, RowMade DEF SymbolsOf, Terminals, Nonterminals, IsRowOf
<1>4. new.row = row /\ new.offset = put.offset /\ new.isTkn = x.isTkn /\ x.isTkn \in BOOLEAN
  BY DEF IsRowOf
<1> HIDE DEF row, new, qk
<1>5. /\ IsTable(pk.table) /\ pk.shared \in BOOLEAN
      /\ pk.rows \in Seq({pk.rows[i] : i \in DOMAIN pk.rows})
      /\ \A i \in DOMAIN pk.rows :
         /\ IsRow(pk.rows[i].row, gr.nsymbol) /\ pk.rows[i].offset \in Int
         /\ pk.rows[i].isTkn \in BOOLEAN
         /\ InTable(pk.table, pk.rows[i].row, pk.rows[i].offset)
         /\ pk.shared \/ Alone(pk.table, pk.rows[i].row, pk.rows[i].offset)
  BY DEF IsPacked
<1> DEFINE placed == {pk.rows[i] : i \in DOMAIN pk.rows}
<1>6. pk.rows \in Seq(placed) /\ \A i \in DOMAIN pk.rows : pk.rows[i] \in placed
  BY <1>5
<1>7. \A y \in placed : /\ IsRow(y.row, gr.nsymbol) /\ y.offset \in Int
                        /\ InTable(pk.table, y.row, y.offset)
                        /\ pk.shared \/ Alone(pk.table, y.row, y.offset)
  BY <1>5
<1> HIDE DEF placed
<1>8. /\ IsTable(put.table) /\ put.offset \in Int /\ InTable(put.table, row, put.offset)
      /\ \A y \in placed : InTable(put.table, y.row, y.offset)
      /\ put.shared \in BOOLEAN
      /\ ~ put.shared => /\ Alone(put.table, row, put.offset)
                         /\ \A y \in placed : Alone(pk.table, y.row, y.offset) =>
                                                Alone(put.table, y.row, y.offset)
  BY <1>2, <1>3, <1>4, <1>5, <1>7, InsertKeepsRows
<1> HIDE DEF put
<1>9. qk.shared \in BOOLEAN
  BY <1>1, <1>5, <1>8
<1> DEFINE rows == Append(pk.rows, new)
           n == Len(pk.rows)
<1>10. /\ n \in Nat /\ DOMAIN pk.rows = 1 .. n /\ DOMAIN rows = 1 .. n + 1
       /\ rows[n + 1] = new /\ \A i \in 1 .. n : rows[i] = pk.rows[i]
  BY <1>6
<1> HIDE DEF rows, n
<1>11. rows \in Seq({rows[i] : i \in DOMAIN rows})
  <2> DEFINE S == {rows[i] : i \in DOMAIN rows}
             m == n + 1
  <2>1. m \in Nat /\ DOMAIN rows = 1 .. m
    BY <1>10
  <2>2. rows = [i \in 1 .. m |-> rows[i]]
    BY <1>6, <2>1 DEF rows
  <2>3. \A i \in 1 .. m : rows[i] \in S
    BY <2>1
  <2> HIDE DEF S, m
  <2>4. rows \in [1 .. m -> S]
    BY <2>2, <2>3
  <2> QED
    BY <2>1, <2>4 DEF S
<1>12. ASSUME NEW i \in DOMAIN rows
       PROVE  /\ IsRow(rows[i].row, gr.nsymbol) /\ rows[i].offset \in Int
              /\ rows[i].isTkn \in BOOLEAN
              /\ InTable(put.table, rows[i].row, rows[i].offset)
              /\ qk.shared \/ Alone(put.table, rows[i].row, rows[i].offset)
  <2>1. CASE i = n + 1
    BY <1>10, <2>1, <1>1, <1>3, <1>4, <1>8
  <2>2. CASE i # n + 1
    <3>1. i \in DOMAIN pk.rows /\ rows[i] = pk.rows[i] /\ rows[i] \in placed
      BY <1>6, <1>10, <2>2
    <3>2. InTable(put.table, rows[i].row, rows[i].offset)
      BY <1>8, <3>1
    <3>3. qk.shared \/ Alone(put.table, rows[i].row, rows[i].offset)
      BY <1>1, <1>7, <1>8, <3>1
    <3> QED
      BY <1>5, <3>1, <3>2, <3>3
  <2> QED
    BY <2>1, <2>2
<1>13. qk.table = put.table /\ qk.rows = rows
  BY <1>1 DEF rows
<1>14. IsPacked(gr, qk)
  BY <1>8, <1>9, <1>11, <1>12, <1>13 DEF IsPacked
<1> QED
  BY <1>14 DEF qk

\* One step for each action of Lemon.
LEMMA TablesInvNext == StatesInv /\ TablesInv /\ [Next]_vars => TablesInv'
<1> SUFFICES ASSUME StatesInv, TablesInv, [Next]_vars PROVE TablesInv'
  OBVIOUS
<1>1. IsGrammar(g)
  BY LemonAssumption DEF StatesInv
<1>2. CASE \/ FirstState \/ BuildShifts \/ ShiftsBuilt \/ StatesFound \/ Follow \/ FollowPass
  BY <1>2 DEF FirstState, BuildShifts, ShiftsBuilt, StatesFound, Follow, FollowPass, TablesInv
<1>3. CASE FindActions
  BY <1>3, <1>1, ActionsCollected DEF FindActions, StatesInv, StartsFirst, TablesInv
<1>4. CASE ResolveConflict
  BY <1>4, ConflictResolved DEF ResolveConflict, TablesInv
<1>5. CASE ConflictsResolved
  BY <1>5 DEF ConflictsResolved, TablesInv
<1>6. CASE CompressAll
  BY <1>6, AllCompressed DEF CompressAll, TablesInv
<1>7. CASE RenameAction
  <2> DEFINE at == FirstRenaming(Renaming(g, parser))
  <2>1. /\ phase = "renames" /\ g' = g /\ pack' = pack
        /\ parser' = [parser EXCEPT ![at[1]].ap = Rename(g, parser[at[1]].ap, at[2]).ap]
        /\ phase' \in {"renames", "aborted", "hangs"}
    BY <1>7 DEF RenameAction, Rename
  <2> HIDE DEF at
  <2>2. IsCompressed(parser')
    BY <2>1, ActionRenamed DEF TablesInv
  <2> QED
    BY <2>1, <2>2 DEF TablesInv
<1>8. CASE Renamed
  BY <1>8 DEF Renamed, TablesInv
<1>9. CASE PackRow
  <2> DEFINE rows == axset(g, parser, sorted)
             x == rows[Len(pack.rows) + 1]
  <2>1. /\ phase = "pack" /\ phase' = "pack" /\ g' = g /\ parser' = parser
        /\ Len(pack.rows) < Len(rows) /\ pack' = Pack(g, parser, sorted, x, pack)
    BY <1>9 DEF PackRow
  <2>2. IsCompressed(parser) /\ IsPacked(g, pack)
    BY <2>1 DEF TablesInv
  <2>3. sorted \in Seq(DOMAIN parser) /\ Len(sorted) \in Nat \ {0}
    BY <2>2, StatesResorted DEF sorted
  <2> HIDE DEF sorted
  <2>4. Len(pack.rows) \in Nat
    BY <2>2 DEF IsPacked
  <2>5. DOMAIN rows = 1 .. Len(rows) /\ \A i \in DOMAIN rows : IsRowOf(g, parser, sorted, rows[i])
    BY <2>2, <2>3, RowsInOrder
  <2>6. Len(rows) \in Int
    BY <2>2, <2>3, RowsInOrder
  <2> HIDE DEF rows
  <2>7. IsRowOf(g, parser, sorted, x)
    BY <2>1, <2>4, <2>5, <2>6
  <2> HIDE DEF x
  <2>8. IsPacked(g, pack')
    BY <1>1, <2>1, <2>2, <2>3, <2>7, RowPacked
  <2> QED
    BY <2>1, <2>2, <2>8 DEF TablesInv
<1>10. CASE Report
  BY <1>10 DEF Report, TablesInv
<1>11. CASE UNCHANGED vars
  BY <1>11 DEF TablesInv, vars
<1> QED
  BY <1>2, <1>3, <1>4, <1>5, <1>6, <1>7, <1>8, <1>9, <1>10, <1>11 DEF Next

\* The second half of a run, from FindActions to ReportTable, keeps lists of actions for every
\* state, never empty rows, and rows that stay where acttab_insert has put them.
THEOREM TablesInvAlways == Spec => []TablesInv
<1>1. Init => TablesInv
  BY NothingPacked DEF Init, TablesInv
<1> QED
  BY <1>1, TablesInvNext, StatesInvAlways, PTL DEF Spec

(***************************************************************************)
(* Every row packed is found again at the offset it was given, however     *)
(* many rows share the table by now, and nothing besides, unless a search  *)
(* has ended at the offset of other rows: of two entries for one symbol    *)
(* the last is found.  About acttab_insert, which overlays rows.           *)
(***************************************************************************)
RowsKeepTheirPlaces ==
    \A i \in DOMAIN pack.rows :
      LET packed == pack.rows[i]
          symbols == IF packed.isTkn THEN Terminals(g) ELSE Nonterminals(g)
      IN  \A s \in symbols :
            LET on == {j \in DOMAIN packed.row : packed.row[j].lookahead = s}
                found == Lookup(pack.table, packed.offset, s)
            IN  IF on = {} THEN pack.shared \/ found = -1
                ELSE found = packed.row[CHOOSE j \in on : \A l \in on : l <= j].action

\* ReportTable packs the rows of all states into one table, and for every grammar each is found
\* again at its offset as it was, with no entry of another row taken for its own unless the search
\* for a place has ended at the offset of other rows.
THEOREM RowsAreKept == Spec => []RowsKeepTheirPlaces
<1>1. StatesInv /\ TablesInv => RowsKeepTheirPlaces
  <2> SUFFICES ASSUME StatesInv, TablesInv, NEW i \in DOMAIN pack.rows,
                      NEW s \in IF pack.rows[i].isTkn THEN Terminals(g) ELSE Nonterminals(g)
               PROVE  LET row == pack.rows[i].row
                          on == {j \in DOMAIN row : row[j].lookahead = s}
                          found == Lookup(pack.table, pack.rows[i].offset, s)
                      IN  IF on = {} THEN pack.shared \/ found = -1
                          ELSE found = row[CHOOSE j \in on : \A l \in on : l <= j].action
    BY DEF RowsKeepTheirPlaces
  <2> DEFINE row == pack.rows[i].row
             on == {j \in DOMAIN row : row[j].lookahead = s}
             last == CHOOSE j \in on : \A l \in on : l <= j
  <2>1. /\ g.nsymbol \in Nat /\ g.nterminal \in Nat /\ g.nterminal < g.nsymbol
    BY LemonAssumption, PartsOfGrammar DEF StatesInv
  <2>2. s \in 0 .. g.nsymbol - 1
    BY <2>1 DEF Terminals, Nonterminals
  <2>3. /\ IsTable(pack.table) /\ IsRow(row, g.nsymbol) /\ pack.rows[i].offset \in Int
        /\ InTable(pack.table, row, pack.rows[i].offset)
        /\ pack.shared \/ Alone(pack.table, row, pack.rows[i].offset)
    BY DEF TablesInv, IsPacked
  <2> HIDE DEF row
  <2>4. /\ \A j \in DOMAIN row : row[j].lookahead = s /\ IsLast(row, j) =>
             Lookup(pack.table, pack.rows[i].offset, s) = row[j].action
        /\ pack.shared \/ ((\A j \in DOMAIN row : row[j].lookahead # s) =>
             Lookup(pack.table, pack.rows[i].offset, s) = -1)
    BY <2>1, <2>2, <2>3, RowIsFound
  <2>5. CASE on = {}
    BY <2>4, <2>5 DEF row
  <2>6. CASE on # {}
    <3>1. on \in SUBSET DOMAIN row /\ \A j \in on : row[j].lookahead = s
      OBVIOUS
    <3>2. \A j \in DOMAIN row : row[j].lookahead = s => j \in on
      OBVIOUS
    <3> HIDE DEF on
    <3>3. \E j \in on : \A l \in on : l <= j
      BY <2>1, <2>3, <2>6, <3>1, LastOfRow
    <3>4. last \in on /\ \A l \in on : l <= last
      BY <3>3
    <3> HIDE DEF last
    <3>5. IsLast(row, last) /\ last \in DOMAIN row /\ row[last].lookahead = s
      BY <3>1, <3>2, <3>4 DEF IsLast
    <3> QED
      BY <2>4, <2>6, <3>5 DEF row, on, last
  <2> QED
    BY <2>5, <2>6
<1> QED
  BY <1>1, StatesInvAlways, TablesInvAlways, PTL

-----------------------------------------------------------------------------
(***************************************************************************)
(* Conflicts.                                                              *)
(***************************************************************************)

\* The types there are.
Kinds == {Types[i] : i \in DOMAIN Types}

\* enum e_action has them.
LEMMA KindsOfActions ==
    {"SHIFT", "ACCEPT", "REDUCE", "ERROR", "SHIFTREDUCE"} \cup Settled \subseteq Kinds
<1>1. /\ DOMAIN Types = 1 .. 11
      /\ Types[1] = "SHIFT" /\ Types[2] = "ACCEPT" /\ Types[3] = "REDUCE" /\ Types[4] = "ERROR"
      /\ Types[5] = "SSCONFLICT" /\ Types[6] = "SRCONFLICT" /\ Types[7] = "RRCONFLICT"
      /\ Types[8] = "SH_RESOLVED" /\ Types[9] = "RD_RESOLVED" /\ Types[11] = "SHIFTREDUCE"
  BY DEF Types
<1>2. /\ 1 \in 1 .. 11 /\ 2 \in 1 .. 11 /\ 3 \in 1 .. 11 /\ 4 \in 1 .. 11 /\ 5 \in 1 .. 11
      /\ 6 \in 1 .. 11 /\ 7 \in 1 .. 11 /\ 8 \in 1 .. 11 /\ 9 \in 1 .. 11 /\ 11 \in 1 .. 11
  OBVIOUS
<1>3. \A i \in DOMAIN Types : Types[i] \in Kinds
  BY DEF Kinds
<1>4. /\ "SHIFT" \in Kinds /\ "ACCEPT" \in Kinds /\ "REDUCE" \in Kinds /\ "ERROR" \in Kinds
      /\ "SSCONFLICT" \in Kinds /\ "SRCONFLICT" \in Kinds /\ "RRCONFLICT" \in Kinds
      /\ "SH_RESOLVED" \in Kinds /\ "RD_RESOLVED" \in Kinds /\ "SHIFTREDUCE" \in Kinds
  BY ONLY <1>1, <1>2, <1>3
<1> QED
  BY <1>4 DEF Settled

\* The type of an action is known by its rank.
LEMMA Ranks ==
    \A a : a.type \in Kinds => Rank(a) \in Int /\ Types[Rank(a)] = a.type
<1> SUFFICES ASSUME NEW a, a.type \in Kinds
             PROVE  Rank(a) \in Int /\ Types[Rank(a)] = a.type
  OBVIOUS
<1>1. \A i \in DOMAIN Types : i \in Int
  BY DEF Types
<1>2. \E i \in DOMAIN Types : Types[i] = a.type
  BY DEF Kinds
<1> QED
  BY <1>1, <1>2 DEF Rank

\* actioncmp orders actions strictly.
LEMMA ActionOrder ==
    ASSUME NEW all,
           \A a \in all : /\ a = [sp |-> a.sp, type |-> a.type, x |-> a.x]
                          /\ a.sp \in Int /\ a.type \in Kinds /\ a.x \in Int
    PROVE  IsStrictOrder(all, Actioncmp(all))
<1> DEFINE R == Actioncmp(all)
           before(a, b) == \/ a.sp < b.sp
                           \/ a.sp = b.sp /\ Rank(a) < Rank(b)
                           \/ a.sp = b.sp /\ Rank(a) = Rank(b) /\ a.x < b.x
<1>1. R \in SUBSET (all \X all) /\ \A a, b \in all : <<a, b>> \in R <=> before(a, b)
  BY DEF Actioncmp, actioncmp
<1>2. \A a \in all : a.sp \in Int /\ a.x \in Int /\ Rank(a) \in Int
  BY Ranks
<1>3. \A a, b \in all : Rank(a) = Rank(b) => a.type = b.type
  BY Ranks
<1> HIDE DEF R
<1>4. \A a \in all : ~ before(a, a)
  BY <1>2
<1>5. \A a, b, c \in all : before(a, b) /\ before(b, c) => before(a, c)
  BY <1>2
<1>6. \A a, b \in all : a # b => before(a, b) \/ before(b, a)
  <2>1. ASSUME NEW a \in all, NEW b \in all, ~ before(a, b), ~ before(b, a) PROVE a = b
    <3>1. a.sp = b.sp /\ Rank(a) = Rank(b) /\ a.x = b.x
      BY <1>2, <2>1
    <3>2. a.type = b.type
      BY <1>3, <3>1
    <3>3. a = [sp |-> a.sp, type |-> a.type, x |-> a.x] /\ b = [sp |-> b.sp, type |-> b.type, x |-> b.x]
      OBVIOUS
    <3> QED
      BY ONLY <3>1, <3>2, <3>3
  <2> QED
    BY <2>1
<1> HIDE DEF before
<1> QED
  BY <1>1, <1>4, <1>5, <1>6 DEF IsStrictOrder, R

\* An action that can be changed into one of another type.
IsAction(a) == a = [sp |-> a.sp, type |-> a.type, x |-> a.x]

\* Types resolve_conflict gives to actions on which there was nothing to decide by.
Undecided == {"SSCONFLICT", "SRCONFLICT", "RRCONFLICT"}

\* An action is out.
Settle(a) == a.type \in Settled

\* Of two actions on one symbol one is out, or the first is an error.
PairSettled(aps, c) ==
    Settle(aps[c[1]][c[2]]) \/ Settle(aps[c[1]][c[3]]) \/ aps[c[1]][c[2]].type = "ERROR"

\* Types do not change any more once they are out.
Becomes(a, b) ==
    /\ IsAction(a) => IsAction(b)
    /\ b.sp = a.sp
    /\ a.type \in Settled \cup {"ERROR"} => b = a

\* resolve_conflict changes types only, leaves those that are out or errors as they are, settles
\* the pair unless it gives up, and reports it when it leaves either undecided.
LEMMA Resolving ==
    ASSUME NEW gr, NEW prec, NEW x, NEW y
    PROVE  LET r == resolve_conflict(gr, prec, x, y)
           IN  /\ Becomes(x, r.x) /\ Becomes(y, r.y) /\ r.conflict \in {0, 1}
               /\ IsAction(x) /\ IsAction(y) /\ r.ok =>
                    Settle(r.x) \/ Settle(r.y) \/ r.x.type = "ERROR"
               /\ r.conflict = 0 => /\ r.x.type \in Undecided => r.x = x
                                    /\ r.y.type \in Undecided => r.y = y
<1> USE DEF Resolution, Becomes, IsAction, Settle, Settled, Undecided
<1>1. CASE x.type = "SHIFT" /\ y.type = "REDUCE"
  BY <1>1 DEF resolve_conflict, ShiftReduce
<1>2. CASE x.type = "REDUCE" /\ y.type = "REDUCE"
  BY <1>2 DEF resolve_conflict, ReduceReduce
<1>3. CASE ~ (x.type = "SHIFT" /\ y.type = "REDUCE") /\ ~ (x.type = "REDUCE" /\ y.type = "REDUCE")
  BY <1>3 DEF resolve_conflict
<1> QED
  BY <1>1, <1>2, <1>3

-----------------------------------------------------------------------------
(***************************************************************************)
(* FindActions, conflict by conflict.                                      *)
(***************************************************************************)

\* Every action has become one that Becomes allows.
Advanced(aps, T) ==
    /\ DOMAIN T = DOMAIN aps
    /\ \A k \in DOMAIN aps :
         DOMAIN T[k] = DOMAIN aps[k] /\ \A i \in DOMAIN aps[k] : Becomes(aps[k][i], T[k][i])

\* One conflict resolved: two actions are replaced.
Replaced(aps, c, x, y) == [aps EXCEPT ![c[1]] = [@ EXCEPT ![c[2]] = x, ![c[3]] = y]]

\* What replacing two actions leaves.
LEMMA ReplacedActions ==
    ASSUME NEW aps, NEW c, NEW x, NEW y
    PROVE  LET T == Replaced(aps, c, x, y)
           IN  /\ DOMAIN T = DOMAIN aps /\ \A k \in DOMAIN aps : DOMAIN T[k] = DOMAIN aps[k]
               /\ \A k \in DOMAIN aps : \A i \in DOMAIN aps[k] :
                    T[k][i] = IF k = c[1] /\ i = c[3] THEN y
                              ELSE IF k = c[1] /\ i = c[2] THEN x ELSE aps[k][i]
  BY DEF Replaced

\* FindActions calling resolve_conflict for one pair: the lists advance, the pair is settled,
\* and unless it is counted nothing is left undecided that was not.
LEMMA ResolveAdvances ==
    ASSUME NEW gr, NEW aps, NEW c
    PROVE  LET r == Resolve(gr, aps, c)
           IN  /\ Advanced(aps, r.aps) /\ r.conflict \in {0, 1}
               /\ /\ c \in Conflicts(aps) /\ r.ok
                  /\ \A k \in DOMAIN aps : \A i \in DOMAIN aps[k] : i \in Int /\ IsAction(aps[k][i])
                  => PairSettled(r.aps, c)
               /\ /\ r.conflict = 0
                  /\ \A k \in DOMAIN aps : \A i \in DOMAIN aps[k] : aps[k][i].type \notin Undecided
                  => \A k \in DOMAIN aps : \A i \in DOMAIN aps[k] : r.aps[k][i].type \notin Undecided
<1> DEFINE x == aps[c[1]][c[2]]
           y == aps[c[1]][c[3]]
           r == resolve_conflict(gr, FindRulePrecedences(gr), x, y)
           T == Replaced(aps, c, r.x, r.y)
<1>1. Resolve(gr, aps, c) = [aps |-> T, conflict |-> r.conflict, ok |-> r.ok]
  BY DEF Resolve, Replaced
<1>2. /\ Becomes(x, r.x) /\ Becomes(y, r.y) /\ r.conflict \in {0, 1}
      /\ IsAction(x) /\ IsAction(y) /\ r.ok => Settle(r.x) \/ Settle(r.y) \/ r.x.type = "ERROR"
      /\ r.conflict = 0 => /\ r.x.type \in Undecided => r.x = x
                           /\ r.y.type \in Undecided => r.y = y
  BY Resolving
<1> HIDE DEF r
<1>3. /\ DOMAIN T = DOMAIN aps /\ \A k \in DOMAIN aps : DOMAIN T[k] = DOMAIN aps[k]
      /\ \A k \in DOMAIN aps : \A i \in DOMAIN aps[k] :
           T[k][i] = IF k = c[1] /\ i = c[3] THEN r.y
                     ELSE IF k = c[1] /\ i = c[2] THEN r.x ELSE aps[k][i]
  BY ReplacedActions
<1> HIDE DEF T
<1>4. \A a : Becomes(a, a)
  BY DEF Becomes
<1>5. Advanced(aps, T)
  BY <1>2, <1>3, <1>4 DEF Advanced
<1>6. ASSUME c \in Conflicts(aps), r.ok,
             \A k \in DOMAIN aps : \A i \in DOMAIN aps[k] : i \in Int /\ IsAction(aps[k][i])
      PROVE  PairSettled(T, c)
  BY <1>6, <1>3, <1>2 DEF Conflicts, PairSettled
<1>7. ASSUME r.conflict = 0,
             \A k \in DOMAIN aps : \A i \in DOMAIN aps[k] : aps[k][i].type \notin Undecided,
             NEW k \in DOMAIN aps, NEW i \in DOMAIN aps[k]
      PROVE  T[k][i].type \notin Undecided
  BY <1>2, <1>3, <1>7
<1> DEFINE res == Resolve(gr, aps, c)
<1>8. res.aps = T /\ res.conflict = r.conflict /\ res.ok = r.ok
  BY <1>1
<1> HIDE DEF res
<1> QED
  BY <1>2, <1>5, <1>6, <1>7, <1>8 DEF res

\* How far the conflicts are settled: cfs are those still to be seen.
ConflictsSettled(aps, cfs, n) ==
    /\ \A k \in DOMAIN aps : \A i \in DOMAIN aps[k] : i \in Int /\ IsAction(aps[k][i])
    /\ \A c \in Conflicts(aps) \ cfs : PairSettled(aps, c)
    /\ n \in Nat
    /\ n = 0 => \A k \in DOMAIN aps : \A i \in DOMAIN aps[k] : aps[k][i].type \notin Undecided

\* Lists that advance have no new pairs, and pairs that were settled stay so.
LEMMA SameConflicts ==
    ASSUME NEW aps, NEW T, Advanced(aps, T)
    PROVE  /\ Conflicts(T) \subseteq Conflicts(aps)
           /\ \A c \in Conflicts(aps) : PairSettled(aps, c) => PairSettled(T, c)
<1>1. ASSUME NEW k \in DOMAIN aps, NEW i \in DOMAIN aps[k]
      PROVE  /\ Becomes(aps[k][i], T[k][i]) /\ T[k][i].sp = aps[k][i].sp
             /\ Settle(aps[k][i]) => Settle(T[k][i])
             /\ aps[k][i].type = "ERROR" => T[k][i].type = "ERROR"
  BY DEF Advanced, Becomes, Settle
<1>2. DOMAIN T = DOMAIN aps /\ \A k \in DOMAIN aps : DOMAIN T[k] = DOMAIN aps[k]
  BY DEF Advanced
<1>3. ASSUME NEW c \in Conflicts(T) PROVE c \in Conflicts(aps)
  BY <1>3, <1>2, <1>1 DEF Conflicts
<1>4. ASSUME NEW c \in Conflicts(aps), PairSettled(aps, c) PROVE PairSettled(T, c)
  BY <1>4, <1>1 DEF Conflicts, PairSettled
<1> QED
  BY <1>3, <1>4

\* The actions FindActions collects for a state, sorted.
LEMMA CollectedSorted ==
    ASSUME NEW gr, IsGrammar(gr), NEW sts, NEW cs, IsAutomaton(gr, sts, cs), NEW fws,
           NEW k \in DOMAIN sts
    PROVE  LET all == AllActions(gr, sts, fws, k)
           IN  /\ Cardinality(all) \in Nat
               /\ CollectActions(gr, sts, fws)[k] \in [1 .. Cardinality(all) -> all]
               /\ \A a \in all : \E i \in 1 .. Cardinality(all) :
                    CollectActions(gr, sts, fws)[k][i] = a
<1> DEFINE all == AllActions(gr, sts, fws, k)
           list == CollectActions(gr, sts, fws)[k]
<1>1. list = Sorted(all, Actioncmp(all))
  BY DEF CollectActions
<1>2. IsFiniteSet(all)
  BY ActionsFinite
<1>3. ASSUME NEW a \in all
      PROVE  /\ a = [sp |-> a.sp, type |-> a.type, x |-> a.x]
             /\ a.sp \in Int /\ a.type \in Kinds /\ a.x \in Int
  BY ActionsIn, PartsOfStates, PartsOfGrammar, KindsOfActions DEF ActionIn
<1> HIDE DEF all, list
<1>4. IsStrictOrder(all, Actioncmp(all))
  BY <1>3, ActionOrder
<1>5. /\ Cardinality(all) \in Nat /\ list \in [1 .. Cardinality(all) -> all]
      /\ \A a \in all : \E i \in 1 .. Cardinality(all) : list[i] = a
  BY <1>1, <1>2, <1>4, SortedInOrder
<1> QED
  BY <1>5 DEF all, list

\* FindActions starts with all pairs to be seen and nothing counted.
LEMMA ConflictsStart ==
    ASSUME NEW gr, IsGrammar(gr), NEW sts, NEW cs, IsAutomaton(gr, sts, cs), NEW fws
    PROVE  LET aps == CollectActions(gr, sts, fws)
           IN  ConflictsSettled(aps, Conflicts(aps), 0)
<1> DEFINE aps == CollectActions(gr, sts, fws)
<1>1. DOMAIN aps = DOMAIN sts
  BY DEF CollectActions
<1>2. ASSUME NEW k \in DOMAIN aps, NEW i \in DOMAIN aps[k]
      PROVE  i \in Int /\ IsAction(aps[k][i]) /\ aps[k][i].type \in {"SHIFT", "REDUCE", "ACCEPT"}
  BY <1>1, CollectedSorted, ActionsIn DEF ActionIn, IsAction
<1> HIDE DEF aps
<1>3. \A k \in DOMAIN aps : \A i \in DOMAIN aps[k] : aps[k][i].type \notin Undecided
  BY <1>2 DEF Undecided
<1>4. ConflictsSettled(aps, Conflicts(aps), 0)
  BY <1>2, <1>3 DEF ConflictsSettled
<1> QED
  BY <1>4 DEF aps

\* One pair less to be seen.
LEMMA OneMoreSettled ==
    ASSUME NEW gr, NEW aps, NEW cfs, NEW n, ConflictsSettled(aps, cfs, n), NEW c,
           Resolve(gr, aps, c).ok
    PROVE  ConflictsSettled(Resolve(gr, aps, c).aps, cfs \ {c}, n + Resolve(gr, aps, c).conflict)
<1> DEFINE r == Resolve(gr, aps, c)
           T == r.aps
<1>1. /\ Advanced(aps, T) /\ r.conflict \in {0, 1}
      /\ /\ c \in Conflicts(aps) /\ r.ok
         /\ \A k \in DOMAIN aps : \A i \in DOMAIN aps[k] : i \in Int /\ IsAction(aps[k][i])
         => PairSettled(T, c)
      /\ /\ r.conflict = 0
         /\ \A k \in DOMAIN aps : \A i \in DOMAIN aps[k] : aps[k][i].type \notin Undecided
         => \A k \in DOMAIN aps : \A i \in DOMAIN aps[k] : T[k][i].type \notin Undecided
  BY ResolveAdvances
<1>2. r.ok
  OBVIOUS
<1> HIDE DEF r
<1>3. /\ \A k \in DOMAIN aps : \A i \in DOMAIN aps[k] : i \in Int /\ IsAction(aps[k][i])
      /\ \A d \in Conflicts(aps) \ cfs : PairSettled(aps, d)
      /\ n \in Nat
      /\ n = 0 => \A k \in DOMAIN aps : \A i \in DOMAIN aps[k] : aps[k][i].type \notin Undecided
  BY DEF ConflictsSettled
<1>4. /\ Conflicts(T) \subseteq Conflicts(aps)
      /\ \A d \in Conflicts(aps) : PairSettled(aps, d) => PairSettled(T, d)
  BY <1>1, SameConflicts
<1>5. \A d \in Conflicts(T) \ (cfs \ {c}) : PairSettled(T, d)
  BY <1>1, <1>2, <1>3, <1>4
<1>6. /\ DOMAIN T = DOMAIN aps
      /\ \A k \in DOMAIN T : \A i \in DOMAIN T[k] : i \in DOMAIN aps[k] /\ i \in Int /\ IsAction(T[k][i])
  BY <1>1, <1>3 DEF Advanced, Becomes
<1> HIDE DEF T
<1>7. n + r.conflict \in Nat /\ (n + r.conflict = 0 => n = 0 /\ r.conflict = 0)
  BY <1>1, <1>3
<1>8. ConflictsSettled(T, cfs \ {c}, n + r.conflict)
  BY <1>1, <1>3, <1>5, <1>6, <1>7 DEF ConflictsSettled
<1> QED
  BY <1>8 DEF T, r

\* Holds after every step: the conflicts seen so far are settled.
ConflictsInv ==
    /\ phase \in {"start", "states", "follow", "actions"} => nconflict = 0
    /\ phase \in {"conflicts", "compress"} => ConflictsSettled(parser, conflicts, nconflict)
    /\ phase = "compress" => conflicts = {}

\* One step for each action of Lemon.
LEMMA ConflictsInvNext == StatesInv /\ ConflictsInv /\ [Next]_vars => ConflictsInv'
<1> SUFFICES ASSUME StatesInv, ConflictsInv, [Next]_vars PROVE ConflictsInv'
  OBVIOUS
<1>1. IsGrammar(g)
  BY LemonAssumption DEF StatesInv
<1>2. CASE \/ FirstState \/ BuildShifts \/ ShiftsBuilt \/ StatesFound \/ Follow \/ FollowPass
  BY <1>2 DEF FirstState, BuildShifts, ShiftsBuilt, StatesFound, Follow, FollowPass, ConflictsInv
<1>3. CASE FindActions
  BY <1>3, <1>1, ConflictsStart DEF FindActions, StatesInv, ConflictsInv
<1>4. CASE ResolveConflict
  BY <1>4, OneMoreSettled DEF ResolveConflict, ConflictsInv
<1>5. CASE ConflictsResolved
  BY <1>5 DEF ConflictsResolved, ConflictsInv
<1>6. CASE CompressAll \/ RenameAction \/ Renamed \/ PackRow \/ Report
  <2>1. phase' \in {"renames", "pack", "done", "aborted", "hangs"}
    BY <1>6 DEF CompressAll, RenameAction, Rename, Renamed, PackRow, Report
  <2> QED
    BY <2>1 DEF ConflictsInv
<1>7. CASE UNCHANGED vars
  BY <1>7 DEF ConflictsInv, vars
<1> QED
  BY <1>2, <1>3, <1>4, <1>5, <1>6, <1>7 DEF Next

\* Of every two actions of a state on one symbol one is out when FindActions is
\* over, or the first is the error of an operator that is not associative; and
\* if no conflict has been counted, none is out for want of a precedence.
ConflictsDecided ==
    phase = "compress" =>
      /\ \A k \in DOMAIN parser : \A i, j \in DOMAIN parser[k] :
           i < j /\ parser[k][i].sp = parser[k][j].sp =>
             \/ parser[k][i].type \in Settled \/ parser[k][j].type \in Settled
             \/ parser[k][i].type = "ERROR"
      /\ nconflict = 0 =>
           \A k \in DOMAIN parser : \A i \in DOMAIN parser[k] :
             parser[k][i].type \notin {"SSCONFLICT", "SRCONFLICT", "RRCONFLICT"}

\* FindActions leaves, for every grammar, no two actions of a state on one symbol both in force
\* unless the first is an error; and a run that reports no conflict has none decided by the
\* order of the rules.
THEOREM ConflictsAreDecided == Spec => []ConflictsDecided
<1>1. Init => ConflictsInv
  BY DEF Init, ConflictsInv
<1>2. ConflictsInv => ConflictsDecided
  <2> SUFFICES ASSUME ConflictsInv, phase = "compress" PROVE ConflictsDecided
    BY DEF ConflictsDecided
  <2>1. ConflictsSettled(parser, {}, nconflict)
    BY DEF ConflictsInv
  <2>2. ASSUME NEW k \in DOMAIN parser, NEW i \in DOMAIN parser[k], NEW j \in DOMAIN parser[k],
               i < j, parser[k][i].sp = parser[k][j].sp
        PROVE  \/ parser[k][i].type \in Settled \/ parser[k][j].type \in Settled
               \/ parser[k][i].type = "ERROR"
    <3>1. <<k, i, j>> \in Conflicts(parser)
      BY <2>2 DEF Conflicts
    <3>2. PairSettled(parser, <<k, i, j>>)
      BY <2>1, <3>1 DEF ConflictsSettled
    <3> QED
      BY <3>2 DEF PairSettled, Settle
  <2> QED
    BY <2>1, <2>2 DEF ConflictsDecided, ConflictsSettled, Undecided
<1> QED
  BY <1>1, <1>2, ConflictsInvNext, StatesInvAlways, PTL DEF Spec

-----------------------------------------------------------------------------
(***************************************************************************)
(* What actions name: states and rules.                                    *)
(***************************************************************************)

\* Actions that name one of the states D or a rule, as their type says.
Acts(gr, D) ==
    {a \in [sp : 0 .. gr.nsymbol, type : Kinds, x : Nat] :
       /\ a.type = "SHIFT" => a.x \in D
       /\ a.type \in {"REDUCE", "SHIFTREDUCE"} => a.x \in Rules(gr)}

\* Before CompressTables and from then on: what states do names states and rules, and after it
\* every state shifted to gets tables.
Naming(gr, aps) == aps \in Seq(Seq(Acts(gr, DOMAIN aps)))

\* Of a state CompressTables keeps its actions, and whether it does nothing but reduce.
StateActs(gr, D) == [ap : Seq(Acts(gr, D)), autoReduce : BOOLEAN]

\* Actions name states and rules there are, and shifts go to states that do more than reduce.
NamingStates(gr, cps) ==
    /\ cps \in Seq(StateActs(gr, DOMAIN cps))
    /\ \A k \in DOMAIN cps : \A i \in DOMAIN cps[k].ap :
         cps[k].ap[i].type = "SHIFT" => ~ cps[cps[k].ap[i].x].autoReduce

\* A function on 1 .. n into a set is a sequence over it.
LEMMA SeqOfFunction ==
    ASSUME NEW n \in Nat, NEW S, NEW f \in [1 .. n -> S]
    PROVE  f \in Seq(S) /\ Len(f) = n
  OBVIOUS

\* A sequence over a set is a function on 1 .. its length.
LEMMA PartsOfSeq ==
    ASSUME NEW S, NEW s \in Seq(S)
    PROVE  /\ Len(s) \in Nat /\ DOMAIN s = 1 .. Len(s) /\ s \in [1 .. Len(s) -> S]
           /\ \A i \in DOMAIN s : s[i] \in S
  OBVIOUS

\* FindActions collects actions that name states and rules.
LEMMA ActsCollected ==
    ASSUME NEW gr, IsGrammar(gr), NEW sts, NEW cs, IsAutomaton(gr, sts, cs), NEW fws
    PROVE  Naming(gr, CollectActions(gr, sts, fws))
<1> DEFINE aps == CollectActions(gr, sts, fws)
           A == Acts(gr, DOMAIN sts)
<1>1. DOMAIN aps = DOMAIN sts /\ aps = [k \in DOMAIN sts |-> aps[k]]
  BY DEF CollectActions
<1>2. DOMAIN sts = 1 .. Len(sts) /\ Len(sts) \in Nat
  BY PartsOfStates
<1>3. ASSUME NEW k \in DOMAIN sts PROVE aps[k] \in Seq(A)
  <2> DEFINE all == AllActions(gr, sts, fws, k)
             n == Cardinality(all)
  <2>1. n \in Nat /\ aps[k] \in [1 .. n -> all]
    BY CollectedSorted
  <2>2. ASSUME NEW a \in all PROVE a \in A
    BY ActionsIn, <1>2, PartsOfGrammar, KindsOfActions DEF ActionIn, Acts
  <2> HIDE DEF aps, A, all
  <2>3. aps[k] \in [1 .. n -> A]
    BY <2>1, <2>2
  <2> HIDE DEF n
  <2> QED
    BY <2>1, <2>3, SeqOfFunction
<1> HIDE DEF aps, A
<1>4. aps \in [1 .. Len(sts) -> Seq(A)]
  BY <1>1, <1>2, <1>3
<1>5. aps \in Seq(Seq(A))
  BY <1>2, <1>4, SeqOfFunction
<1> QED
  BY <1>1, <1>5 DEF Naming, A, aps

\* resolve_conflict leaves what actions name alone.
LEMMA ActsOfConflict ==
    ASSUME NEW gr, NEW prec, NEW D, NEW x, NEW y
    PROVE  LET r == resolve_conflict(gr, prec, x, y)
           IN  /\ x \in Acts(gr, D) => r.x \in Acts(gr, D)
               /\ y \in Acts(gr, D) => r.y \in Acts(gr, D)
<1> DEFINE r == resolve_conflict(gr, prec, x, y)
           Out == {"SRCONFLICT", "RRCONFLICT", "RD_RESOLVED", "SH_RESOLVED", "ERROR"}
           Became(a, b) == b = a \/ \E type \in Out : b = [a EXCEPT !.type = type]
<1>1. ASSUME NEW a \in Acts(gr, D), NEW b, Became(a, b) PROVE b \in Acts(gr, D)
  BY KindsOfActions, <1>1 DEF Settled, Acts
<1>2. Became(x, r.x) /\ Became(y, r.y)
  BY DEF resolve_conflict, ShiftReduce, Resolution, ReduceReduce
<1> HIDE DEF r, Became
<1>3. /\ x \in Acts(gr, D) => r.x \in Acts(gr, D)
      /\ y \in Acts(gr, D) => r.y \in Acts(gr, D)
  BY <1>1, <1>2
<1> QED
  BY <1>3 DEF r

\* FindActions calling it does.
LEMMA ActsResolved ==
    ASSUME NEW gr, NEW aps, Naming(gr, aps), NEW c
    PROVE  Naming(gr, Resolve(gr, aps, c).aps)
<1> DEFINE x == aps[c[1]][c[2]]
           y == aps[c[1]][c[3]]
           r == resolve_conflict(gr, FindRulePrecedences(gr), x, y)
           T == Replaced(aps, c, r.x, r.y)
           A == Acts(gr, DOMAIN aps)
<1>1. Resolve(gr, aps, c).aps = T
  BY DEF Resolve, Replaced
<1>2. /\ x \in A => r.x \in A
      /\ y \in A => r.y \in A
  BY ActsOfConflict
<1> HIDE DEF r
<1>3. /\ DOMAIN T = DOMAIN aps /\ \A k \in DOMAIN aps : DOMAIN T[k] = DOMAIN aps[k]
      /\ \A k \in DOMAIN aps : \A i \in DOMAIN aps[k] :
           T[k][i] = IF k = c[1] /\ i = c[3] THEN r.y
                     ELSE IF k = c[1] /\ i = c[2] THEN r.x ELSE aps[k][i]
  BY ReplacedActions
<1>4. /\ Len(aps) \in Nat /\ DOMAIN aps = 1 .. Len(aps) /\ aps \in [1 .. Len(aps) -> Seq(A)]
      /\ \A k \in DOMAIN aps : aps[k] \in Seq(A)
  BY PartsOfSeq DEF Naming
<1>5. T = [k \in DOMAIN aps |-> T[k]]
  BY <1>4 DEF Replaced
<1>6. ASSUME NEW k \in DOMAIN aps PROVE T[k] \in Seq(A)
  <2>1. /\ Len(aps[k]) \in Nat /\ DOMAIN aps[k] = 1 .. Len(aps[k])
        /\ aps[k] \in [1 .. Len(aps[k]) -> A]
    BY <1>4, PartsOfSeq
  <2>2. \A i \in DOMAIN aps[k] : aps[k][i] \in A
    BY <2>1
  <2>3. T[k] = [i \in DOMAIN aps[k] |-> T[k][i]]
    BY <1>4, <2>1 DEF Replaced
  <2> HIDE DEF A, T
  <2>4. ASSUME NEW i \in DOMAIN aps[k] PROVE T[k][i] \in A
    BY <1>2, <1>3, <2>2
  <2>5. T[k] \in [1 .. Len(aps[k]) -> A]
    BY <2>1, <2>3, <2>4
  <2> QED
    BY <2>1, <2>5, SeqOfFunction
<1> HIDE DEF T, A
<1>7. T \in [1 .. Len(aps) -> Seq(A)]
  BY <1>4, <1>5, <1>6
<1>8. T \in Seq(Seq(A)) /\ DOMAIN T = DOMAIN aps
  BY <1>3, <1>4, <1>7, SeqOfFunction
<1>9. Naming(gr, T)
  BY <1>8 DEF Naming, A
<1> QED
  BY <1>1, <1>9

\* Of indices one has the most of something, and is the first of those.
LEMMA MostOften ==
    ASSUME NEW I \in SUBSET Nat, I # {}, NEW count \in [I -> Nat], NEW n \in Nat,
           \A i \in I : count[i] <= n
    PROVE  \E i \in I : \A j \in I : count[j] < count[i] \/ (count[j] = count[i] /\ i <= j)
<1> DEFINE C == {count[i] : i \in I}
<1>1. C \in SUBSET Int /\ C # {} /\ n \in Int /\ \A m \in C : m <= n
  <2>1. \A i \in I : count[i] \in Nat /\ count[i] <= n
    OBVIOUS
  <2>2. C # {}
    OBVIOUS
  <2> HIDE DEF C
  <2>3. \A m \in C : m \in Nat /\ m <= n
    BY <2>1 DEF C
  <2> QED
    BY <2>2, <2>3
<1> HIDE DEF C
<1>2. PICK m \in C : \A l \in C : l <= m
  BY <1>1, Greatest
<1> DEFINE M == {i \in I : count[i] = m}
<1>3. M \in SUBSET Nat /\ M # {}
  BY <1>2 DEF C
<1> HIDE DEF M
<1>4. PICK i \in M : \A j \in M : i <= j
  BY <1>3, LeastOfNat
<1>5. i \in I /\ count[i] = m
  BY <1>4 DEF M
<1>6. ASSUME NEW j \in I PROVE count[j] < count[i] \/ (count[j] = count[i] /\ i <= j)
  BY <1>2, <1>4, <1>5 DEF C, M
<1> QED
  BY <1>5, <1>6

\* Acts sort into a sequence of them.
LEMMA ActsSorted ==
    ASSUME NEW gr, NEW D, NEW S \in SUBSET Acts(gr, D), IsFiniteSet(S)
    PROVE  Sorted(S, Actioncmp(S)) \in Seq(Acts(gr, D))
<1>1. ASSUME NEW a \in S
      PROVE  /\ a = [sp |-> a.sp, type |-> a.type, x |-> a.x]
             /\ a.sp \in Int /\ a.type \in Kinds /\ a.x \in Int
  BY DEF Acts
<1>2. IsStrictOrder(S, Actioncmp(S))
  BY <1>1, ActionOrder
<1>3. Cardinality(S) \in Nat /\ Sorted(S, Actioncmp(S)) \in [1 .. Cardinality(S) -> S]
  BY <1>2, SortedInOrder
<1>4. Sorted(S, Actioncmp(S)) \in [1 .. Cardinality(S) -> Acts(gr, D)]
  BY <1>3
<1> QED
  BY <1>3, <1>4, SeqOfFunction

\* Of the reductions that may be defaults one is on the most symbols, and is the first of those.
LEMMA BestFound ==
    ASSUME NEW gr, NEW S, NEW ap \in Seq(S), DefaultCandidates(gr, ap) # {}
    PROVE  \E i \in DefaultCandidates(gr, ap) : \A j \in DefaultCandidates(gr, ap) :
             \/ Count(ap, ap[j].x) < Count(ap, ap[i].x)
             \/ Count(ap, ap[j].x) = Count(ap, ap[i].x) /\ i <= j
<1> DEFINE candidates == DefaultCandidates(gr, ap)
           count == [i \in candidates |-> Count(ap, ap[i].x)]
<1>1. DOMAIN ap = 1 .. Len(ap) /\ Len(ap) \in Nat
  BY PartsOfSeq
<1>2. candidates \in SUBSET Nat
  BY <1>1 DEF DefaultCandidates, Reductions
<1>3. ASSUME NEW r PROVE Count(ap, r) \in Nat /\ Count(ap, r) <= Len(ap)
  <2> DEFINE on == {i \in Reductions(ap) : ap[i].x = r}
             N == 1 .. Len(ap)
  <2>1. on \in SUBSET N /\ Count(ap, r) = Cardinality(on)
    BY <1>1 DEF Reductions, Count
  <2>2. IsFiniteSet(N) /\ Cardinality(N) = Len(ap)
    BY <1>1, FS_Interval
  <2> HIDE DEF on, N
  <2>3. IsFiniteSet(on) /\ Cardinality(on) <= Len(ap)
    BY <2>1, <2>2, FS_Subset
  <2> QED
    BY <2>1, <2>3, FS_CardinalityType
<1>4. count \in [candidates -> Nat] /\ \A i \in candidates : count[i] <= Len(ap)
  BY <1>3
<1>5. \A i \in candidates : count[i] = Count(ap, ap[i].x)
  OBVIOUS
<1> HIDE DEF count
<1>6. \E i \in candidates : \A j \in candidates :
        count[j] < count[i] \/ (count[j] = count[i] /\ i <= j)
  BY <1>1, <1>2, <1>4, MostOften DEF candidates
<1> HIDE DEF candidates
<1>7. \E i \in candidates : \A j \in candidates :
        \/ Count(ap, ap[j].x) < Count(ap, ap[i].x)
        \/ Count(ap, ap[j].x) = Count(ap, ap[i].x) /\ i <= j
  BY <1>5, <1>6
<1> QED
  BY <1>7 DEF candidates

\* The default CompressTables finds for a state is one of its reductions.
LEMMA DefaultFound ==
    ASSUME NEW gr, IsGrammar(gr), NEW D, NEW ap \in Seq(Acts(gr, D))
    PROVE  LET comp == Compress(gr, ap)
           IN  /\ comp.ap \in Seq(Acts(gr, D)) /\ comp.autoReduce \in BOOLEAN
               /\ comp.autoReduce => comp.dflt \in Rules(gr)
<1> DEFINE candidates == DefaultCandidates(gr, ap)
           best == CHOOSE i \in candidates : \A j \in candidates :
                  \/ Count(ap, ap[j].x) < Count(ap, ap[i].x)
                  \/ Count(ap, ap[j].x) = Count(ap, ap[i].x) /\ i <= j
           rbest == ap[best].x
           image == {ap[i] : i \in DOMAIN ap}
           others == image \ {ap[i] : i \in {j \in Reductions(ap) : ap[j].x = rbest}}
           new == [sp |-> Default(gr), type |-> "REDUCE", x |-> rbest]
           kept == others \cup {new}
           A == Acts(gr, D)
           auto == \A a \in others : a.type \notin {"SHIFT", "REDUCE"}
           comp == Compress(gr, ap)
<1>1. DOMAIN ap = 1 .. Len(ap) /\ Len(ap) \in Nat /\ \A i \in DOMAIN ap : ap[i] \in A
  BY PartsOfSeq
<1>2. candidates \subseteq DOMAIN ap /\ \A i \in candidates : ap[i].type = "REDUCE"
  BY DEF DefaultCandidates, Reductions
<1>3. CASE candidates = {}
  BY <1>3 DEF Compress
<1>4. CASE candidates # {}
  <2>1. best \in candidates
    BY <1>4, BestFound DEF candidates
  <2> HIDE DEF best, candidates
  <2>2. rbest \in Rules(gr) /\ rbest \in Nat
    BY <1>1, <1>2, <2>1 DEF Acts
  <2>3. new \in A
    BY PartsOfGrammar, KindsOfActions, <2>2 DEF Default, Acts
  <2> HIDE DEF rbest, new, A
  <2>4. image \in SUBSET A /\ IsFiniteSet(image)
    BY <1>1, ListingFinite DEF IsListing
  <2> HIDE DEF image
  <2>5. others \in SUBSET A /\ IsFiniteSet(others)
    BY <2>4, FS_Subset
  <2>6. comp = [ap |-> Sorted(kept, Actioncmp(kept)), autoReduce |-> auto, dflt |-> rbest]
    BY <1>4 DEF Compress, candidates, best, rbest, new, image
  <2> HIDE DEF others
  <2>7. kept \in SUBSET A /\ IsFiniteSet(kept)
    BY FS_Singleton, <2>3, <2>5, FS_Union
  <2> HIDE DEF kept
  <2>8. Sorted(kept, Actioncmp(kept)) \in Seq(A)
    BY <2>7, ActsSorted DEF A
  <2>9. auto \in BOOLEAN
    OBVIOUS
  <2> HIDE DEF auto
  <2> QED
    BY <2>2, <2>6, <2>8, <2>9 DEF A
<1> QED
  BY <1>3, <1>4

\* CompressTables leaves actions that name states with tables, or rules.
LEMMA ActsCompressed ==
    ASSUME NEW gr, IsGrammar(gr), NEW aps, Naming(gr, aps)
    PROVE  /\ NamingStates(gr, CompressTables(gr, aps))
           /\ DOMAIN CompressTables(gr, aps) = DOMAIN aps
<1> DEFINE D == DOMAIN aps
           A == Acts(gr, D)
           comp == [k \in D |-> Compress(gr, aps[k])]
           state(k) == [ap |-> ShiftReduces(gr, comp, comp[k].ap), autoReduce |-> comp[k].autoReduce]
           T == CompressTables(gr, aps)
<1>1. /\ Len(aps) \in Nat /\ D = 1 .. Len(aps)
      /\ \A k \in D : aps[k] \in Seq(A)
  BY PartsOfSeq DEF Naming
<1>2. \A k \in D : /\ comp[k].ap \in Seq(A) /\ comp[k].autoReduce \in BOOLEAN
                   /\ comp[k].autoReduce => comp[k].dflt \in Rules(gr)
  BY <1>1, DefaultFound
<1>3. T = [k \in D |-> state(k)]
  BY DEF CompressTables
<1> HIDE DEF comp, T
<1>4. ASSUME NEW k \in D, NEW i \in DOMAIN comp[k].ap
      PROVE  LET a == ShiftReduces(gr, comp, comp[k].ap)[i]
             IN  a \in A /\ (a.type = "SHIFT" => a.x \in D /\ ~ comp[a.x].autoReduce)
  <2> DEFINE b == comp[k].ap[i]
             a == ShiftReduces(gr, comp, comp[k].ap)[i]
  <2>1. b \in A
    BY <1>2, PartsOfSeq
  <2>2. a = IF b.type = "SHIFT" /\ comp[b.x].autoReduce
            THEN [b EXCEPT !.type = "SHIFTREDUCE", !.x = comp[b.x].dflt] ELSE b
    BY DEF ShiftReduces
  <2> HIDE DEF a, b, A, D
  <2>3. /\ b \in [sp : 0 .. gr.nsymbol, type : Kinds, x : Nat]
        /\ b.type = "SHIFT" => b.x \in D
    BY <2>1 DEF Acts, A
  <2>4. ASSUME b.type = "SHIFT", comp[b.x].autoReduce
        PROVE  a \in A /\ (a.type = "SHIFT" => a.x \in D /\ ~ comp[a.x].autoReduce)
    <3> DEFINE r == comp[b.x].dflt
    <3>1. r \in Rules(gr)
      BY <1>2, <2>3, <2>4
    <3>2. r \in Nat
      BY <3>1, PartsOfGrammar
    <3>3. "SHIFTREDUCE" \in Kinds
      BY KindsOfActions
    <3> HIDE DEF r
    <3>4. a = [b EXCEPT !.type = "SHIFTREDUCE", !.x = r]
      BY <2>2, <2>4 DEF r
    <3>5. /\ a \in [sp : 0 .. gr.nsymbol, type : Kinds, x : Nat]
          /\ a.type = "SHIFTREDUCE" /\ a.x = r
      BY <2>3, <3>2, <3>3, <3>4
    <3>6. a \in A
      BY <3>1, <3>5 DEF Acts, A
    <3> QED
      BY <3>5, <3>6
  <2>5. ASSUME ~ (b.type = "SHIFT" /\ comp[b.x].autoReduce)
        PROVE  a \in A /\ (a.type = "SHIFT" => a.x \in D /\ ~ comp[a.x].autoReduce)
    BY <2>2, <2>5, <2>1, <2>3
  <2>6. a \in A /\ (a.type = "SHIFT" => a.x \in D /\ ~ comp[a.x].autoReduce)
    BY <2>4, <2>5
  <2> QED
    BY <2>6 DEF a
<1>5. ASSUME NEW k \in D PROVE ShiftReduces(gr, comp, comp[k].ap) \in Seq(A)
  <2> DEFINE n == Len(comp[k].ap)
             L == ShiftReduces(gr, comp, comp[k].ap)
  <2>1. n \in Nat /\ DOMAIN comp[k].ap = 1 .. n
    BY <1>2, PartsOfSeq
  <2>2. L = [i \in DOMAIN comp[k].ap |-> L[i]]
    BY DEF ShiftReduces
  <2>3. \A i \in DOMAIN comp[k].ap : L[i] \in A
    BY <1>4
  <2> HIDE DEF L, n, A
  <2>4. L \in [1 .. n -> A]
    BY <2>1, <2>2, <2>3
  <2> QED
    BY <2>1, <2>4, SeqOfFunction DEF L
<1>6. DOMAIN T = D /\ \A k \in D : T[k] = state(k)
  BY <1>3
<1>7. \A k \in D : T[k] \in StateActs(gr, D)
  BY <1>2, <1>5, <1>6 DEF StateActs
<1>8. T \in Seq(StateActs(gr, D))
  BY <1>1, <1>3, <1>7, SeqOfFunction
<1>9. ASSUME NEW k \in D, NEW i \in DOMAIN T[k].ap, T[k].ap[i].type = "SHIFT"
      PROVE  ~ T[T[k].ap[i].x].autoReduce
  <2> DEFINE a == ShiftReduces(gr, comp, comp[k].ap)[i]
  <2>1. T[k].ap = ShiftReduces(gr, comp, comp[k].ap)
    BY <1>6
  <2>2. i \in DOMAIN comp[k].ap
    BY <1>9, <2>1 DEF ShiftReduces
  <2>3. T[k].ap[i] = a
    BY <2>1
  <2>4. a.x \in D /\ ~ comp[a.x].autoReduce
    BY <1>4, <1>9, <2>2, <2>3
  <2> HIDE DEF a
  <2> QED
    BY <1>6, <2>3, <2>4
<1> QED
  BY <1>6, <1>8, <1>9 DEF NamingStates, T

\* A renamed action becomes a copy of another one of its state.
LEMMA ActCopied ==
    ASSUME NEW gr, NEW D, NEW ap \in Seq(Acts(gr, D)), NEW i
    PROVE  LET T == Rename(gr, ap, i).ap
           IN  /\ T \in Seq(Acts(gr, D)) /\ DOMAIN T = DOMAIN ap
               /\ \A j \in DOMAIN T : \E l \in DOMAIN ap :
                    T[j].type = ap[l].type /\ T[j].x = ap[l].x
<1> DEFINE A == Acts(gr, D)
           P == DOMAIN ap
           next(j) == IF Renames(gr, ap[j]) THEN NamedBy(gr, ap, i, ap[j]) ELSE {}
           f == [js \in SUBSET P |-> js \cup UNION {next(j) : j \in js}]
           copied == Grown(f, {i}, Len(ap))
           ends == {j \in copied : ~ Renames(gr, ap[j])}
           end == CHOOSE j \in ends : TRUE
           T == Rename(gr, ap, i).ap
           new == [ap EXCEPT ![i].type = ap[end].type, ![i].x = ap[end].x]
           Copied(L) == /\ L \in Seq(A) /\ DOMAIN L = P
                        /\ \A j \in DOMAIN L : \E l \in P : L[j].type = ap[l].type /\ L[j].x = ap[l].x
<1>1. Len(ap) \in Nat /\ P = 1 .. Len(ap) /\ ap \in [1 .. Len(ap) -> A] /\ \A j \in P : ap[j] \in A
  BY PartsOfSeq
<1>2. T = IF ends # {} THEN new ELSE ap
  BY DEF Rename
<1> HIDE DEF T
<1>3. Copied(ap)
  OBVIOUS
<1>4. ASSUME i \notin P PROVE Copied(T)
  <2>1. new = ap
    BY <1>1, <1>4
  <2> QED
    BY <1>2, <1>3, <2>1
<1>5. ASSUME i \in P, ends # {} PROVE Copied(T)
  <2>1. end \in P
    <3>1. end \in copied
      BY <1>5
    <3>2. copied \in SUBSET P
      <4>1. IsFiniteSet(P) /\ Cardinality(P) = Len(ap)
        BY <1>1, FS_Interval
      <4>2. IsGrowth(f, P)
        BY DEF NamedBy, IsGrowth
      <4>3. {i} \in SUBSET P
        BY <1>5
      <4> HIDE DEF f, P
      <4>4. Grown(f, {i}, Cardinality(P)) \in SUBSET P
        BY <4>1, <4>2, <4>3, Growth
      <4> QED
        BY <4>1, <4>4
    <3> HIDE DEF end, copied
    <3> QED
      BY <3>1, <3>2
  <2> HIDE DEF end
  <2>2. T = new
    BY <1>2, <1>5
  <2>3. ap[i] \in A /\ ap[end] \in A
    BY <1>1, <1>5, <2>1
  <2> DEFINE b == [[ap[i] EXCEPT !.type = ap[end].type] EXCEPT !.x = ap[end].x]
  <2>4. b \in A /\ b.type = ap[end].type /\ b.x = ap[end].x
    BY <2>3 DEF Acts
  <2>5. new = [ap EXCEPT ![i] = b]
    BY <1>1, <1>5
  <2> HIDE DEF b, new
  <2>6. DOMAIN T = P /\ T = [j \in P |-> IF j = i THEN b ELSE ap[j]]
    BY <1>1, <2>2, <2>5
  <2> HIDE DEF A
  <2>7. T \in [1 .. Len(ap) -> A]
    BY <1>1, <2>4, <2>6
  <2>8. T \in Seq(A)
    BY <1>1, <2>7, SeqOfFunction
  <2>9. ASSUME NEW j \in P PROVE \E l \in P : T[j].type = ap[l].type /\ T[j].x = ap[l].x
    BY <2>1, <2>4, <2>6
  <2> QED
    BY <2>6, <2>8, <2>9 DEF A
<1>6. ASSUME i \in P, ends = {} PROVE Copied(T)
  BY <1>2, <1>3, <1>6
<1> HIDE DEF ends
<1> QED
  BY <1>4, <1>5, <1>6 DEF T

\* So a renaming leaves actions that name states with tables, or rules.
LEMMA ActsRenamed ==
    ASSUME NEW gr, NEW cps, NamingStates(gr, cps), NEW k, NEW i
    PROVE  NamingStates(gr, [cps EXCEPT ![k].ap = Rename(gr, cps[k].ap, i).ap])
<1> DEFINE D == DOMAIN cps
           A == Acts(gr, D)
           L == Rename(gr, cps[k].ap, i).ap
           T == [cps EXCEPT ![k].ap = L]
<1>1. /\ Len(cps) \in Nat /\ D = 1 .. Len(cps) /\ cps \in [1 .. Len(cps) -> StateActs(gr, D)]
      /\ \A j \in D : cps[j] \in StateActs(gr, D)
  BY PartsOfSeq DEF NamingStates
<1>2. CASE k \notin D
  BY <1>1, <1>2
<1>3. CASE k \in D
  <2>1. \A j \in D : cps[j].ap \in Seq(A) /\ cps[j].autoReduce \in BOOLEAN
    BY <1>1 DEF StateActs
  <2>2. /\ L \in Seq(A) /\ DOMAIN L = DOMAIN cps[k].ap
        /\ \A j \in DOMAIN L : \E l \in DOMAIN cps[k].ap :
             L[j].type = cps[k].ap[l].type /\ L[j].x = cps[k].ap[l].x
    BY <1>3, <2>1, ActCopied
  <2> HIDE DEF L
  <2> DEFINE b == [cps[k] EXCEPT !.ap = L]
  <2>3. b \in StateActs(gr, D) /\ b.ap = L /\ b.autoReduce = cps[k].autoReduce
    BY <1>1, <1>3, <2>2 DEF StateActs, A
  <2>4. T = [cps EXCEPT ![k] = b]
    BY <1>1, <1>3
  <2> HIDE DEF b, T
  <2>5. DOMAIN T = D /\ T = [j \in D |-> IF j = k THEN b ELSE cps[j]]
    BY <1>1, <2>4
  <2>6. T \in Seq(StateActs(gr, D))
    BY <1>1, <2>3, <2>5, SeqOfFunction
  <2>7. \A j \in D : T[j].autoReduce = cps[j].autoReduce
    BY <2>3, <2>5
  <2>8. \A j \in D : \A l \in DOMAIN cps[j].ap :
          /\ cps[j].ap[l].type = "SHIFT" => ~ cps[cps[j].ap[l].x].autoReduce
          /\ cps[j].ap[l].type = "SHIFT" => cps[j].ap[l].x \in D
    <3>1. ASSUME NEW j \in D, NEW l \in DOMAIN cps[j].ap PROVE cps[j].ap[l] \in A
      BY <2>1, PartsOfSeq
    <3> QED
      BY <3>1 DEF NamingStates, Acts
  <2>9. ASSUME NEW j \in D, NEW l \in DOMAIN T[j].ap, T[j].ap[l].type = "SHIFT"
        PROVE  ~ T[T[j].ap[l].x].autoReduce
    <3>1. CASE j = k
      <4>1. T[j].ap = L
        BY <2>3, <2>5, <3>1
      <4>2. PICK m \in DOMAIN cps[k].ap : L[l].type = cps[k].ap[m].type /\ L[l].x = cps[k].ap[m].x
        BY <2>2, <2>9, <4>1
      <4> QED
        BY <1>3, <2>7, <2>8, <2>9, <4>1, <4>2
    <3>2. CASE j # k
      BY <2>5, <2>7, <2>8, <2>9, <3>2
    <3> QED
      BY <3>1, <3>2
  <2>10. NamingStates(gr, T)
    BY <2>5, <2>6, <2>9 DEF NamingStates
  <2> QED
    BY <2>10 DEF T, L
<1> QED
  BY <1>2, <1>3

-----------------------------------------------------------------------------
(***************************************************************************)
(* The numbers of rules, states and actions.                               *)
(***************************************************************************)

\* A finite set is larger than what is left of it.
LEMMA ProperSubset ==
    ASSUME NEW T, IsFiniteSet(T), NEW S \in SUBSET T, NEW x \in T, x \notin S
    PROVE  Cardinality(S) \in Nat /\ Cardinality(T) \in Nat /\ Cardinality(S) < Cardinality(T)
<1>1. IsFiniteSet(T \ {x}) /\ Cardinality(T \ {x}) = Cardinality(T) - 1
  BY FS_RemoveElement
<1>2. S \in SUBSET (T \ {x})
  OBVIOUS
<1>3. IsFiniteSet(S) /\ Cardinality(S) <= Cardinality(T \ {x})
  BY <1>1, <1>2, FS_Subset
<1>4. Cardinality(S) \in Nat /\ Cardinality(T) \in Nat
  BY <1>3, FS_CardinalityType
<1> QED
  BY <1>1, <1>3, <1>4

\* main() numbers the rules from 0 on: each number is that of one rule.
LEMMA RulesNumbered ==
    ASSUME NEW gr, IsGrammar(gr)
    PROVE  /\ \A r \in Rules(gr) : iRule(gr)[r] \in 0 .. Len(gr.rules) - 1
           /\ \A q, r \in Rules(gr) : iRule(gr)[q] = iRule(gr)[r] => q = r
           /\ \A n \in 0 .. Len(gr.rules) - 1 : \E r \in Rules(gr) : iRule(gr)[r] = n
<1> DEFINE R == Rules(gr)
           L == Len(gr.rules)
           code(r) == gr.rules[r].code
           yes == TRUE
           no == FALSE
           Of(c) == {q \in R : code(q) = c}
           Below(r, c) == {q \in R : q < r /\ code(q) = c}
           f == [r \in R |-> IF code(r) THEN Cardinality(Below(r, yes))
                             ELSE Cardinality(Of(yes)) + Cardinality(Below(r, no))]
<1>1. /\ L \in Nat \ {0} /\ R = 1 .. L
      /\ \A r \in R : code(r) \in {yes, no}
      /\ yes # no
  <2>1. L \in Nat \ {0} /\ R = 1 .. L
    BY PartsOfGrammar
  <2>2. gr.rules \in Seq([lhs : Nonterminals(gr), rhs : Seq(0 .. gr.nsymbol - 1), code : BOOLEAN])
    BY DEF IsGrammar
  <2>3. \A r \in R : gr.rules[r] \in [lhs : Nonterminals(gr), rhs : Seq(0 .. gr.nsymbol - 1), code : BOOLEAN]
    BY <2>2, PartsOfSeq DEF Rules
  <2> QED
    BY <2>1, <2>3
<1>2. iRule(gr) = f
  BY <1>1 DEF iRule
<1>3. IsFiniteSet(R) /\ Cardinality(R) = L
  BY <1>1, FS_Interval
<1>4. ASSUME NEW r \in R, code(r) = yes PROVE f[r] = Cardinality(Below(r, yes))
  BY <1>4
<1>5. ASSUME NEW r \in R, code(r) = no PROVE f[r] = Cardinality(Of(yes)) + Cardinality(Below(r, no))
  BY <1>5
<1> HIDE DEF R, L, code, yes, no, f
<1>6. \A c : IsFiniteSet(Of(c)) /\ Cardinality(Of(c)) \in Nat
  BY <1>3, FS_Subset, FS_CardinalityType
<1>7. Cardinality(Of(yes)) + Cardinality(Of(no)) = L
  <2>1. Of(yes) \cup Of(no) = R /\ Of(yes) \cap Of(no) = {}
    BY <1>1
  <2> HIDE DEF Of
  <2>2. Cardinality(Of(yes) \cup Of(no))
          = Cardinality(Of(yes)) + Cardinality(Of(no)) - Cardinality(Of(yes) \cap Of(no))
    BY <1>6, FS_Union
  <2>3. Cardinality(Of(yes) \cap Of(no)) = 0
    BY <2>1, FS_EmptySet
  <2>4. Cardinality(Of(yes) \cup Of(no)) = L
    BY <1>3, <2>1
  <2>5. /\ Cardinality(Of(yes)) \in Nat /\ Cardinality(Of(no)) \in Nat
        /\ L = Cardinality(Of(yes)) + Cardinality(Of(no)) - 0
    BY <1>6, <2>2, <2>3, <2>4
  <2> QED
    BY <2>5
<1>8. ASSUME NEW r \in R, NEW c, code(r) = c
      PROVE  /\ Cardinality(Below(r, c)) \in Nat /\ Cardinality(Below(r, c)) < Cardinality(Of(c))
  <2>1. Below(r, c) \in SUBSET Of(c) /\ r \in Of(c) /\ r \notin Below(r, c)
    BY <1>1, <1>8
  <2> HIDE DEF Below, Of
  <2> QED
    BY <1>6, <2>1, ProperSubset
<1>9. ASSUME NEW q \in R, NEW r \in R, NEW c, code(q) = c, q < r
      PROVE  Cardinality(Below(q, c)) < Cardinality(Below(r, c))
  <2>1. Below(q, c) \in SUBSET Below(r, c) /\ q \in Below(r, c) /\ q \notin Below(q, c)
    BY <1>1, <1>9
  <2>2. Below(r, c) \in SUBSET R
    OBVIOUS
  <2> HIDE DEF Below, Of
  <2>3. IsFiniteSet(Below(r, c))
    BY <1>3, <2>2, FS_Subset
  <2> QED
    BY <2>1, <2>3, ProperSubset
<1> HIDE DEF Below, Of
<1> DEFINE A == Cardinality(Of(yes))
           B == Cardinality(Of(no))
<1>10. A \in Nat /\ B \in Nat /\ A + B = L
  BY <1>6, <1>7
<1>11. ASSUME NEW r \in R, code(r) = yes
       PROVE  f[r] = Cardinality(Below(r, yes)) /\ f[r] \in 0 .. A - 1
  BY <1>4, <1>11, <1>8, <1>10
<1>12. ASSUME NEW r \in R, code(r) = no
       PROVE  f[r] = A + Cardinality(Below(r, no)) /\ f[r] \in A .. L - 1
  BY <1>5, <1>12, <1>8, <1>10
<1>13. ASSUME NEW q \in R, NEW r \in R, q < r PROVE f[q] # f[r]
  <2>1. CASE code(q) = yes /\ code(r) = yes
    BY <1>9, <1>13, <2>1, <1>8, <1>11
  <2>2. CASE code(q) = no /\ code(r) = no
    BY <1>9, <1>13, <2>2, <1>8, <1>12, <1>10
  <2>3. CASE code(q) # code(r)
    BY <1>1, <1>11, <1>12, <2>3, <1>10
  <2> QED
    BY <1>1, <2>1, <2>2, <2>3
<1> HIDE DEF A, B
<1>14. \A r \in R : f[r] \in 0 .. L - 1
  BY <1>1, <1>11, <1>12, <1>10
<1>15. \A q, r \in R : f[q] = f[r] => q = r
  BY <1>1, <1>13
<1>16. \A n \in 0 .. L - 1 : \E r \in R : f[r] = n
  <2> DEFINE N == 0 .. L - 1
  <2>1. IsFiniteSet(N) /\ Cardinality(N) = L
    BY <1>1, FS_Interval
  <2>2. f = [r \in R |-> f[r]]
    BY DEF f
  <2>3. f \in [R -> N]
    BY <1>14, <2>2
  <2> HIDE DEF N
  <2>4. f \in Injection(R, N)
    BY <1>15, <2>3 DEF Injection, IsInjective
  <2>5. f \in Surjection(R, N)
    BY <1>3, <2>1, <2>4, FS_Injection
  <2> QED
    BY <2>5 DEF Surjection, N
<1> QED
  BY <1>2, <1>14, <1>15, <1>16 DEF R, L

\* A state has a number, and one that does not reduce by itself one below that of the states
\* without tables.
LEMMA StatesNumbered ==
    ASSUME NEW cps, NEW order \in Seq(DOMAIN cps), Len(order) \in Nat \ {0},
           NEW k \in DOMAIN cps, \E i \in DOMAIN order : order[i] = k
    PROVE  LET n == Number(order, k)
           IN  /\ n \in 0 .. Len(order) - 1 /\ order[n + 1] = k
               /\ ~ cps[k].autoReduce => n < nxstate(cps, order)
<1> DEFINE i == CHOOSE i \in DOMAIN order : order[i] = k
           n == Number(order, k)
           nx == nxstate(cps, order)
<1>1. i \in DOMAIN order /\ order[i] = k
  OBVIOUS
<1>2. n = i - 1
  BY DEF Number
<1>3. DOMAIN order = 1 .. Len(order) /\ Len(order) \in Nat
  OBVIOUS
<1>4. /\ nx \in 1 .. Len(order)
      /\ \A l \in nx + 1 .. Len(order) : cps[order[l]].autoReduce
  BY StatesWithTables
<1> HIDE DEF i, nx, n
<1>5. i \in 1 .. Len(order) /\ n + 1 = i /\ n \in 0 .. Len(order) - 1
  BY <1>1, <1>2, <1>3
<1>6. ASSUME ~ cps[k].autoReduce PROVE n < nx
  BY <1>1, <1>4, <1>6, <1>3, <1>5
<1>7. n \in 0 .. Len(order) - 1 /\ order[n + 1] = k /\ (~ cps[k].autoReduce => n < nx)
  BY <1>1, <1>5, <1>6
<1> QED
  BY <1>7 DEF n, nx

\* All the states in some order.
IsOrder(cps, order) ==
    /\ order \in Seq(DOMAIN cps) /\ Len(order) \in Nat \ {0} /\ Len(order) = Len(cps)
    /\ ListsAll(DOMAIN cps, order)

\* ResortStates places every state.
LEMMA OrderOfStates ==
    ASSUME NEW gr, NEW cps, IsCompressed(cps), NamingStates(gr, cps)
    PROVE  IsOrder(cps, ResortStates(gr, cps))
<1>1. /\ ResortStates(gr, cps) \in Seq(DOMAIN cps) /\ Len(ResortStates(gr, cps)) \in Nat \ {0}
      /\ Len(ResortStates(gr, cps)) = Cardinality(DOMAIN cps)
  BY StatesResorted
<1>2. ListsAll(DOMAIN cps, ResortStates(gr, cps))
  BY StatesResorted
<1>3. Len(cps) \in Nat /\ DOMAIN cps = 1 .. Len(cps)
  BY PartsOfSeq DEF NamingStates
<1>4. Cardinality(1 .. Len(cps)) = Len(cps)
  <2> DEFINE n == Len(cps)
  <2>1. n \in Nat
    BY <1>3
  <2> HIDE DEF n
  <2>2. Cardinality(1 .. n) = n
    BY <2>1, FS_Interval
  <2> QED
    BY <2>2 DEF n
<1> QED
  BY <1>1, <1>2, <1>3, <1>4 DEF IsOrder

\* What the number of an action is.
Numbered(gr, cps, order, a, n) ==
    LET shifted == a.type = "SHIFTREDUCE" /\ a.sp \in Terminals(gr)
    IN  /\ n \in 0 .. minReduce(gr, cps) + Len(gr.rules) - 1
        /\ a.type = "SHIFT" => n \in 0 .. nxstate(cps, order) - 1 /\ order[n + 1] = a.x
        /\ shifted => a.x \in Rules(gr) /\ n = minShiftReduce(cps) + iRule(gr)[a.x]
        /\ a.type \in {"REDUCE", "SHIFTREDUCE"} /\ ~ shifted =>
             a.x \in Rules(gr) /\ n = minReduce(gr, cps) + iRule(gr)[a.x]
        /\ a.type = "ERROR" => n = errAction(gr, cps)
        /\ a.type = "ACCEPT" => n = accAction(gr, cps)

\* compute_action gives every action a number of its range.
LEMMA ActionNumbered ==
    ASSUME NEW gr, IsGrammar(gr), NEW cps, NEW order, IsOrder(cps, order),
           NEW a \in Acts(gr, DOMAIN cps), Emitted(a),
           a.type = "SHIFT" => ~ cps[a.x].autoReduce
    PROVE  Numbered(gr, cps, order, a, compute_action(gr, cps, order, a))
<1> DEFINE n == compute_action(gr, cps, order, a)
           L == Len(gr.rules)
           S == Len(cps)
           nx == nxstate(cps, order)
           shifted == a.type = "SHIFTREDUCE" /\ a.sp \in Terminals(gr)
           Of(type) == a.type = type
<1>1. L \in Nat \ {0} /\ \A r \in Rules(gr) : iRule(gr)[r] \in 0 .. L - 1
  BY PartsOfGrammar, RulesNumbered
<1>2. S \in Nat \ {0} /\ Len(order) = S /\ order \in Seq(DOMAIN cps) /\ DOMAIN order = 1 .. S
  BY PartsOfSeq DEF IsOrder
<1>3. nx \in 1 .. S
  BY <1>2, StatesWithTables
<1>4. /\ minShiftReduce(cps) = S /\ errAction(gr, cps) = S + L /\ accAction(gr, cps) = S + L + 1
      /\ noAction(gr, cps) = S + L + 1 + 1 /\ minReduce(gr, cps) = S + L + 1 + 1 + 1
  BY DEF minShiftReduce, errAction, accAction, noAction, minReduce
<1> HIDE DEF L, S, nx
<1>5. /\ a.type = "SHIFT" => a.x \in DOMAIN cps
      /\ a.type \in {"REDUCE", "SHIFTREDUCE"} => a.x \in Rules(gr)
  BY DEF Acts
<1>6. ASSUME a.type = "SHIFT" PROVE Numbered(gr, cps, order, a, n)
  <2>1. n = Number(order, a.x)
    BY <1>6 DEF compute_action
  <2>2. /\ Number(order, a.x) \in 0 .. S - 1 /\ order[Number(order, a.x) + 1] = a.x
        /\ Number(order, a.x) < nx
    BY <1>5, <1>6, <1>2, StatesNumbered DEF IsOrder, ListsAll, nx
  <2> HIDE DEF n
  <2>3. n \in 0 .. nx - 1 /\ order[n + 1] = a.x /\ n \in 0 .. minReduce(gr, cps) + L - 1
    BY <1>1, <1>2, <1>3, <1>4, <2>1, <2>2
  <2> QED
    BY <1>6, <2>3 DEF Numbered, nx, L
<1>7. ASSUME shifted PROVE Numbered(gr, cps, order, a, n)
  <2>1. n = minShiftReduce(cps) + iRule(gr)[a.x]
    BY <1>7 DEF compute_action
  <2>2. a.x \in Rules(gr)
    BY <1>5, <1>7
  <2> HIDE DEF n
  <2>3. n \in 0 .. minReduce(gr, cps) + L - 1
    BY <1>1, <1>2, <1>4, <2>1, <2>2
  <2> QED
    BY <1>7, <2>1, <2>2, <2>3 DEF Numbered, L
<1>8. ASSUME a.type \in {"REDUCE", "SHIFTREDUCE"}, ~ shifted PROVE Numbered(gr, cps, order, a, n)
  <2>1. n = minReduce(gr, cps) + iRule(gr)[a.x]
    BY <1>8 DEF compute_action
  <2>2. a.x \in Rules(gr)
    BY <1>5, <1>8
  <2> HIDE DEF n
  <2>3. n \in 0 .. minReduce(gr, cps) + L - 1
    BY <1>1, <1>2, <1>4, <2>1, <2>2
  <2> QED
    BY <1>8, <2>1, <2>2, <2>3 DEF Numbered, L
<1>9. ASSUME a.type = "ERROR" PROVE Numbered(gr, cps, order, a, n)
  <2>1. n = errAction(gr, cps)
    BY <1>9 DEF compute_action
  <2> HIDE DEF n
  <2>2. n \in 0 .. minReduce(gr, cps) + L - 1
    BY <1>1, <1>2, <1>4, <2>1
  <2> QED
    BY <1>9, <2>1, <2>2 DEF Numbered, L
<1>10. ASSUME a.type = "ACCEPT" PROVE Numbered(gr, cps, order, a, n)
  <2>1. n = accAction(gr, cps)
    BY <1>10 DEF compute_action
  <2> HIDE DEF n
  <2>2. n \in 0 .. minReduce(gr, cps) + L - 1
    BY <1>1, <1>2, <1>4, <2>1
  <2> QED
    BY <1>10, <2>1, <2>2 DEF Numbered, L
<1>11. a.type \in {"SHIFT", "SHIFTREDUCE", "REDUCE", "ERROR", "ACCEPT"}
  BY DEF Emitted
<1> HIDE DEF n
<1>12. Numbered(gr, cps, order, a, n)
  BY <1>6, <1>7, <1>8, <1>9, <1>10, <1>11
<1> QED
  BY <1>12 DEF n

\* A row says what the actions on the symbols are: the last entry for a symbol is the last of the
\* actions on it.
RowSays(gr, cps, order, ap, symbols, row) ==
    /\ \A j \in DOMAIN row : row[j].action \in 0 .. minReduce(gr, cps) + Len(gr.rules) - 1
    /\ \A s \in symbols :
         /\ OnSymbol(ap, s) = {} => \A j \in DOMAIN row : row[j].lookahead # s
         /\ OnSymbol(ap, s) # {} =>
              \E j \in DOMAIN row, i \in OnSymbol(ap, s) :
                /\ row[j].lookahead = s /\ IsLast(row, j)
                /\ \A l \in OnSymbol(ap, s) : l <= i
                /\ Numbered(gr, cps, order, ap[i], row[j].action)

\* The row of a state says what its actions on the symbols are.
LEMMA RowOfState ==
    ASSUME NEW gr, IsGrammar(gr), NEW cps, IsCompressed(cps), NamingStates(gr, cps),
           NEW order, IsOrder(cps, order), NEW k \in DOMAIN cps,
           NEW symbols \in SUBSET (0 .. gr.nsymbol - 1)
    PROVE  RowSays(gr, cps, order, cps[k].ap, symbols, Row(gr, cps, order, k, symbols))
<1> DEFINE ap == cps[k].ap
           on == ActionsOn(cps[k], symbols)
           R == {p \in on \X on : p[1] < p[2]}
           at == Sorted(on, R)
           m == Cardinality(on)
           row == Row(gr, cps, order, k, symbols)
           number(a) == compute_action(gr, cps, order, a)
           On(s) == OnSymbol(ap, s)
<1>1. /\ IsFiniteSet(on) /\ on \subseteq DOMAIN ap /\ m \in Nat
      /\ \A i \in on : Emitted(ap[i]) /\ ap[i].sp \in symbols
  BY ChoicesFinite DEF IsCompressed, ActionsOn
<1>2. \A s \in symbols : On(s) = {i \in on : ap[i].sp = s}
  BY DEF OnSymbol, ActionsOn
<1>3. /\ Len(ap) \in Nat /\ DOMAIN ap = 1 .. Len(ap)
      /\ \A i \in DOMAIN ap : ap[i] \in Acts(gr, DOMAIN cps)
  <2>1. cps[k] \in StateActs(gr, DOMAIN cps)
    BY PartsOfSeq DEF NamingStates
  <2>2. ap \in Seq(Acts(gr, DOMAIN cps))
    BY <2>1 DEF StateActs
  <2> QED
    BY <2>2, PartsOfSeq
<1>4. \A i \in on : Numbered(gr, cps, order, ap[i], number(ap[i]))
  BY <1>1, <1>3, ActionNumbered DEF NamingStates
<1>5. /\ DOMAIN row = DOMAIN at
      /\ \A j \in DOMAIN at :
           row[j].lookahead = ap[at[j]].sp /\ row[j].action = number(ap[at[j]])
  BY DEF Row
<1> HIDE DEF row, On, number
<1>6. on \subseteq Int
  BY <1>1, <1>3
<1> HIDE DEF on, ap
<1>7. IsStrictOrder(on, R)
  BY <1>6 DEF IsStrictOrder
<1>8. /\ at \in [1 .. m -> on]
      /\ \A i \in on : \E j \in 1 .. m : at[j] = i
      /\ \A i, j \in 1 .. m : i < j => <<at[i], at[j]>> \in R
  <2> HIDE DEF R
  <2> QED
    BY <1>1, <1>7, SortedInOrder
<1>9. \A i, j \in 1 .. m : i < j => at[i] < at[j]
  BY <1>8
<1> HIDE DEF at, m, R
<1>10. \A j \in DOMAIN row : row[j].action \in 0 .. minReduce(gr, cps) + Len(gr.rules) - 1
  BY <1>4, <1>5, <1>8 DEF Numbered
<1>11. ASSUME NEW s \in symbols, On(s) = {}, NEW j \in DOMAIN row PROVE row[j].lookahead # s
  BY <1>2, <1>5, <1>8, <1>11
<1>12. ASSUME NEW s \in symbols, On(s) # {}
       PROVE  \E j \in DOMAIN row, i \in On(s) :
                /\ row[j].lookahead = s /\ IsLast(row, j)
                /\ \A l \in On(s) : l <= i
                /\ Numbered(gr, cps, order, ap[i], row[j].action)
  <2> DEFINE J == {j \in 1 .. m : at[j] \in On(s)}
  <2>1. DOMAIN row = 1 .. m /\ \A j \in 1 .. m : row[j].lookahead = s <=> j \in J
    BY <1>2, <1>5, <1>8
  <2>2. J # {}
    BY <1>12, <1>2, <1>8
  <2>3. J \in SUBSET (1 .. m)
    OBVIOUS
  <2>4. \A j \in J : j \in 1 .. m /\ at[j] \in On(s) /\ at[j] \in on
    BY <1>2
  <2>5. \A l \in On(s) : \E j \in J : at[j] = l
    BY <1>2, <1>8
  <2> HIDE DEF J
  <2>6. PICK j \in J : \A i \in J : i <= j
    <3>1. J \in SUBSET Int /\ m \in Int
      BY <1>1, <2>3
    <3>2. \A i \in J : i <= m
      BY <1>1, <2>3
    <3> QED
      BY <2>2, <3>1, <3>2, Greatest
  <2>7. j \in DOMAIN row /\ at[j] \in On(s) /\ row[j].lookahead = s /\ at[j] \in on
    BY <2>1, <2>4
  <2>8. IsLast(row, j)
    BY <2>1, <2>6, <2>7 DEF IsLast
  <2>9. ASSUME NEW l \in On(s) PROVE l <= at[j]
    <3>1. PICK i \in J : at[i] = l
      BY <2>5
    <3>2. i <= j /\ i \in 1 .. m /\ j \in 1 .. m /\ at[i] \in Int /\ at[j] \in Int
      BY <1>6, <2>4, <2>6
    <3>3. CASE i = j
      BY <3>1, <3>2, <3>3
    <3>4. CASE i # j
      BY <1>1, <3>2, <3>4, <1>9, <3>1
    <3> QED
      BY <3>3, <3>4
  <2>10. Numbered(gr, cps, order, ap[at[j]], row[j].action)
    BY <1>4, <1>5, <2>7
  <2> QED
    BY <2>7, <2>8, <2>9, <2>10
<1>13. RowSays(gr, cps, order, ap, symbols, row)
  BY <1>10, <1>11, <1>12 DEF RowSays, On
<1> QED
  BY <1>13 DEF ap, row

-----------------------------------------------------------------------------
(***************************************************************************)
(* What the table holds, and where a safe row may be.                      *)
(***************************************************************************)

\* The slots hold actions of a range, or none.
SlotsHold(p, top) == \A k \in DOMAIN p.aAction : p.aAction[k].action \in -1 .. top

\* A row of such actions leaves slots that hold them.
LEMMA SlotsStillHold ==
    ASSUME NEW nsymbol \in Nat, NEW nterminal \in Nat, NEW makeItSafe \in BOOLEAN,
           NEW p, IsTable(p), NEW row, IsRow(row, nsymbol), NEW top \in Int, SlotsHold(p, top),
           \A j \in DOMAIN row : row[j].action \in 0 .. top
    PROVE  SlotsHold(acttab_insert(p, row, makeItSafe, nterminal, nsymbol).table, top)
<1> DEFINE q == Grow(p, nsymbol)
           o == OffsetOf(q, row, makeItSafe)
           js(k) == {j \in DOMAIN row : Slot(o, row[j].lookahead) = k}
           last(k) == CHOOSE j \in js(k) : \A i \in js(k) : i <= j
           T == acttab_insert(p, row, makeItSafe, nterminal, nsymbol).table
<1>1. T.aAction = Store(q, row, o)
  BY DEF acttab_insert
<1>2. /\ DOMAIN Store(q, row, o) = DOMAIN q.aAction
      /\ \A k \in DOMAIN q.aAction :
           Store(q, row, o)[k] = IF js(k) = {} THEN q.aAction[k] ELSE row[last(k)]
  BY DEF Store
<1>3. ASSUME NEW k \in DOMAIN q.aAction PROVE q.aAction[k].action \in -1 .. top
  <2>1. 0 \in Int /\ -1 \in -1 .. top
    BY EntriesOfRow
  <2>2. Empty.action = -1
    BY DEF Empty
  <2>3. DOMAIN p.aAction = 0 .. p.nActionAlloc - 1 /\ p.nActionAlloc \in Nat /\ p.nAction \in Nat
    BY DEF IsTable
  <2> DEFINE n == p.nAction + nsymbol + 1
             alloc == IF n >= p.nActionAlloc THEN n + p.nActionAlloc + 20 ELSE p.nActionAlloc
             a == [l \in 0 .. alloc - 1 |-> IF l < p.nActionAlloc THEN p.aAction[l] ELSE Empty]
  <2>4. q.aAction = a
    BY DEF Grow
  <2>5. k \in 0 .. alloc - 1 /\ q.aAction[k] = IF k < p.nActionAlloc THEN p.aAction[k] ELSE Empty
    BY <2>4
  <2>6. alloc \in Int
    BY <2>3
  <2> HIDE DEF q, alloc
  <2>7. k < p.nActionAlloc => k \in DOMAIN p.aAction
    BY <2>3, <2>5, <2>6
  <2> QED
    BY <2>1, <2>2, <2>5, <2>7 DEF SlotsHold
<1>4. ASSUME NEW k, js(k) # {} PROVE last(k) \in DOMAIN row
  BY <1>4, LastOfRow
<1>5. \A i \in 0 .. top : i \in -1 .. top
  OBVIOUS
<1> HIDE DEF q, o, js, last, T
<1>6. SlotsHold(T, top)
  BY <1>1, <1>2, <1>3, <1>4, <1>5 DEF SlotsHold
<1> QED
  BY <1>6 DEF T

\* A safe row does not begin before the array.
LEMMA SafeOffset ==
    ASSUME NEW nsymbol \in Nat, NEW nterminal \in Nat,
           NEW p, IsTable(p), NEW row, IsRow(row, nsymbol)
    PROVE  acttab_insert(p, row, TRUE, nterminal, nsymbol).offset \in Nat
<1> DEFINE q == Grow(p, nsymbol)
           same == Duplicates(q, row, TRUE)
           holes == Holes(q, row, TRUE)
           end == End(q, row, TRUE)
           o == OffsetOf(q, row, TRUE)
<1>1. acttab_insert(p, row, TRUE, nterminal, nsymbol).offset = o
  BY DEF acttab_insert
<1>2. q.nAction \in Int /\ q.nActionAlloc \in Int
  <2>1. IsTable(q)
    BY TableGrown
  <2> HIDE DEF q
  <2> QED
    BY <2>1 DEF IsTable
<1>3. mnLookahead(row) \in Int /\ mxLookahead(row) \in Int
  BY LookaheadsOfRow
<1>4. o = IF same # {} THEN CHOOSE x \in same : \A y \in same : y <= x
          ELSE IF holes # {} THEN CHOOSE x \in holes : \A y \in holes : x <= y ELSE end
  BY DEF OffsetOf
<1>5. /\ same \in SUBSET (0 .. q.nAction - 1 - mnLookahead(row))
      /\ holes \in SUBSET (0 .. end - 1)
      /\ end = LET e == q.nActionAlloc - mxLookahead(row) - mnLookahead(row)
               IN  IF e < 0 THEN 0 ELSE e
  BY DEF Duplicates, Holes, First, End
<1> HIDE DEF q, same, holes, end, o
<1>6. end \in Nat
  BY <1>2, <1>3, <1>5
<1>7. CASE same # {}
  <2> DEFINE b == q.nAction - 1 - mnLookahead(row)
  <2>1. b \in Int
    BY <1>2, <1>3
  <2>2. same \in SUBSET (0 .. b)
    BY <1>5
  <2> HIDE DEF b
  <2>3. same \in SUBSET Nat /\ same \in SUBSET Int /\ \A y \in same : y <= b
    BY <2>1, <2>2
  <2>4. \E x \in same : \A y \in same : y <= x
    BY <1>7, <2>1, <2>3, Greatest
  <2>5. o \in same
    BY <1>4, <1>7, <2>4
  <2> QED
    BY <1>1, <2>3, <2>5
<1>8. CASE same = {} /\ holes # {}
  <2>1. holes \in SUBSET Nat
    BY <1>5, <1>6
  <2>2. \E x \in holes : \A y \in holes : x <= y
    BY <1>8, <2>1, LeastOfNat
  <2>3. o \in holes
    BY <1>4, <1>8, <2>2
  <2> QED
    BY <1>1, <2>1, <2>3
<1>9. CASE same = {} /\ holes = {}
  BY <1>1, <1>4, <1>6, <1>9
<1> QED
  BY <1>7, <1>8, <1>9

-----------------------------------------------------------------------------
(***************************************************************************)
(* What has been written when a run ends.                                  *)
(***************************************************************************)

\* The greatest number of an action.
Top(gr, cps) == minReduce(gr, cps) + Len(gr.rules) - 1

\* A row packed is that of a state on its terminals or its nonterminals.
IsRowFor(gr, cps, order, x, packed) ==
    /\ packed.state = x.state /\ packed.isTkn = x.isTkn
    /\ packed.row = Row(gr, cps, order, order[x.state + 1], SymbolsOf(gr, x))
    /\ x.isTkn => packed.offset \in Nat

\* So far the rows have been packed in their order.
RowsWritten(gr, cps, order, pk) ==
    /\ Len(pk.rows) <= Len(axset(gr, cps, order))
    /\ \A i \in DOMAIN pk.rows : IsRowFor(gr, cps, order, axset(gr, cps, order)[i], pk.rows[i])
    /\ SlotsHold(pk.table, Top(gr, cps))

\* Before the first row nothing is written.
LEMMA NothingWritten ==
    ASSUME NEW gr, NEW cps, IsCompressed(cps), NEW order \in Seq(DOMAIN cps), Len(order) \in Nat \ {0}
    PROVE  RowsWritten(gr, cps, order, PackInit)
<1>1. Len(axset(gr, cps, order)) \in Nat
  BY RowsInOrder
<1>2. Len(<< >>) = 0 /\ DOMAIN << >> = {}
  OBVIOUS
<1> QED
  BY <1>1, <1>2 DEF RowsWritten, PackInit, SlotsHold, acttab_alloc

\* A row more is written as ReportTable goes on.
LEMMA RowWritten ==
    ASSUME NEW gr, IsGrammar(gr), NEW cps, IsCompressed(cps), NamingStates(gr, cps),
           NEW order, IsOrder(cps, order), NEW pk, IsPacked(gr, pk),
           RowsWritten(gr, cps, order, pk), Len(pk.rows) < Len(axset(gr, cps, order))
    PROVE  RowsWritten(gr, cps, order,
             Pack(gr, cps, order, axset(gr, cps, order)[Len(pk.rows) + 1], pk))
<1> DEFINE rows == axset(gr, cps, order)
           n == Len(pk.rows)
           x == rows[n + 1]
           row == Row(gr, cps, order, order[x.state + 1], SymbolsOf(gr, x))
           put == acttab_insert(pk.table, row, x.isTkn, gr.nterminal, gr.nsymbol)
           new == [state |-> x.state, isTkn |-> x.isTkn, row |-> row, offset |-> put.offset]
           qk == Pack(gr, cps, order, x, pk)
<1>1. qk.table = put.table /\ qk.rows = Append(pk.rows, new)
  BY DEF Pack, SymbolsOf
<1>2. gr.nterminal \in Nat /\ gr.nsymbol \in Nat /\ gr.nterminal < gr.nsymbol
  BY PartsOfGrammar
<1>3. order \in Seq(DOMAIN cps) /\ Len(order) \in Nat \ {0}
  BY DEF IsOrder
<1>4. Len(rows) \in Nat /\ DOMAIN rows = 1 .. Len(rows)
      /\ \A i \in DOMAIN rows : IsRowOf(gr, cps, order, rows[i])
  BY <1>3, RowsInOrder
<1>5. IsTable(pk.table) /\ pk.rows \in Seq({pk.rows[i] : i \in DOMAIN pk.rows})
  BY DEF IsPacked
<1>6. n \in Nat /\ n < Len(rows) /\ DOMAIN pk.rows = 1 .. n
  BY <1>5
<1>7. IsRowOf(gr, cps, order, x)
  BY <1>4, <1>6
<1> HIDE DEF x
<1>8. SymbolsOf(gr, x) \in SUBSET (0 .. gr.nsymbol - 1)
  BY <1>2 DEF SymbolsOf, Terminals, Nonterminals
<1>9. order[x.state + 1] \in DOMAIN cps /\ x.isTkn \in BOOLEAN
      /\ Cardinality(ActionsOn(cps[order[x.state + 1]], SymbolsOf(gr, x))) > 0
  BY <1>3, <1>7, ElementOfSeq DEF IsRowOf
<1> DEFINE k == order[x.state + 1]
           symbols == SymbolsOf(gr, x)
<1> HIDE DEF k, symbols
<1>10. IsRow(Row(gr, cps, order, k, symbols), gr.nsymbol)
  BY <1>8, <1>9, RowMade DEF k, symbols
<1>11. RowSays(gr, cps, order, cps[k].ap, symbols, Row(gr, cps, order, k, symbols))
  BY <1>8, <1>9, RowOfState DEF k, symbols
<1>12. row = Row(gr, cps, order, k, symbols)
  BY DEF k, symbols
<1> HIDE DEF row
<1>13. IsRow(row, gr.nsymbol) /\ \A j \in DOMAIN row : row[j].action \in 0 .. Top(gr, cps)
  BY <1>10, <1>11, <1>12 DEF RowSays, Top
<1>14. Top(gr, cps) \in Int
  BY PartsOfGrammar, PartsOfSeq DEF NamingStates, Top, minReduce, noAction, accAction, errAction,
     minShiftReduce
<1>15. SlotsHold(pk.table, Top(gr, cps))
  BY DEF RowsWritten
<1>16. SlotsHold(put.table, Top(gr, cps))
  BY <1>2, <1>5, <1>9, <1>13, <1>14, <1>15, SlotsStillHold
<1>17. x.isTkn => put.offset \in Nat
  BY <1>9, <1>2, <1>5, <1>13, SafeOffset
<1> HIDE DEF put
<1>18. IsRowFor(gr, cps, order, x, new)
  BY <1>12, <1>17 DEF IsRowFor, k, symbols
<1> HIDE DEF new, qk
<1>19. /\ Len(qk.rows) = n + 1 /\ DOMAIN qk.rows = 1 .. n + 1 /\ qk.rows[n + 1] = new
       /\ \A i \in 1 .. n : qk.rows[i] = pk.rows[i]
  BY <1>1, <1>5
<1>20. \A i \in 1 .. n : IsRowFor(gr, cps, order, rows[i], pk.rows[i])
  BY <1>6 DEF RowsWritten
<1>21. ASSUME NEW i \in DOMAIN qk.rows PROVE IsRowFor(gr, cps, order, rows[i], qk.rows[i])
  <2>1. CASE i = n + 1
    BY <1>18, <1>19, <2>1 DEF x
  <2>2. CASE i # n + 1
    <3>1. i \in 1 .. n
      BY <1>6, <1>19, <2>2
    <3> QED
      BY <1>19, <1>20, <3>1
  <2> QED
    BY <2>1, <2>2
<1> HIDE DEF n
<1>22. Len(qk.rows) <= Len(rows)
  BY <1>4, <1>6, <1>19
<1>23. RowsWritten(gr, cps, order, qk)
  BY <1>1, <1>16, <1>21, <1>22 DEF RowsWritten
<1> QED
  BY <1>23 DEF qk, x, n

\* Holds after every step, besides what StatesInv and TablesInv say.
WrittenInv ==
    /\ phase \in {"conflicts", "compress"} => Naming(g, parser)
    /\ phase \in {"renames", "pack", "done"} => IsCompressed(parser) /\ NamingStates(g, parser)
    /\ phase \in {"pack", "done"} => RowsWritten(g, parser, sorted, pack)
    /\ phase \notin {"pack", "done"} => pack = PackInit
    /\ phase = "done" => /\ Len(pack.rows) = Len(axset(g, parser, sorted))
                         /\ tables = ReportTable(g, parser, sorted, pack)

\* One step for each action of Lemon.
LEMMA WrittenInvNext == StatesInv /\ TablesInv /\ WrittenInv /\ [Next]_vars => WrittenInv'
<1> SUFFICES ASSUME StatesInv, TablesInv, WrittenInv, [Next]_vars PROVE WrittenInv'
  OBVIOUS
<1>1. IsGrammar(g)
  BY LemonAssumption DEF StatesInv
<1>2. CASE \/ FirstState \/ BuildShifts \/ ShiftsBuilt \/ StatesFound \/ Follow \/ FollowPass
  BY <1>2 DEF FirstState, BuildShifts, ShiftsBuilt, StatesFound, Follow, FollowPass, WrittenInv
<1>3. CASE FindActions
  BY <1>3, <1>1, ActsCollected DEF FindActions, StatesInv, WrittenInv
<1>4. CASE ResolveConflict
  BY <1>4, ActsResolved DEF ResolveConflict, WrittenInv
<1>5. CASE ConflictsResolved
  BY <1>5 DEF ConflictsResolved, WrittenInv
<1>6. CASE CompressAll
  BY <1>6, <1>1, AllCompressed, ActsCompressed DEF CompressAll, TablesInv, WrittenInv
<1>7. CASE RenameAction
  <2> DEFINE at == FirstRenaming(Renaming(g, parser))
  <2>1. /\ phase = "renames" /\ g' = g /\ pack' = pack
        /\ parser' = [parser EXCEPT ![at[1]].ap = Rename(g, parser[at[1]].ap, at[2]).ap]
        /\ phase' \in {"renames", "aborted", "hangs"}
    BY <1>7 DEF RenameAction, Rename
  <2> HIDE DEF at
  <2>2. IsCompressed(parser') /\ NamingStates(g, parser')
    BY <2>1, ActionRenamed, ActsRenamed DEF WrittenInv
  <2> QED
    BY <2>1, <2>2 DEF WrittenInv
<1>8. CASE Renamed
  BY <1>8, OrderOfStates, NothingWritten DEF Renamed, WrittenInv, sorted, IsOrder
<1>9. CASE PackRow
  BY <1>9, OrderOfStates, <1>1, RowWritten DEF PackRow, WrittenInv, TablesInv, sorted
<1>10. CASE Report
  BY <1>10 DEF Report, sorted, WrittenInv
<1>11. CASE UNCHANGED vars
  BY <1>11 DEF WrittenInv, vars, sorted
<1> QED
  BY <1>2, <1>3, <1>4, <1>5, <1>6, <1>7, <1>8, <1>9, <1>10, <1>11 DEF Next

\* Actions name states and rules there are from FindActions to the end, the rows are packed in
\* the order of axset, the table holds no other numbers than theirs, and what is reported is made of
\* them.
THEOREM WrittenInvAlways == Spec => []WrittenInv
<1>1. Init => WrittenInv
  BY DEF Init, WrittenInv
<1> QED
  BY <1>1, WrittenInvNext, StatesInvAlways, TablesInvAlways, PTL DEF Spec

-----------------------------------------------------------------------------
(***************************************************************************)
(* What the rows written are.                                              *)
(***************************************************************************)

\* What is written when all rows are packed, and none of the slots in use is past the array.
AllWritten(gr, cps, order, pk) ==
    /\ IsGrammar(gr) /\ IsCompressed(cps) /\ NamingStates(gr, cps) /\ IsOrder(cps, order)
    /\ IsPacked(gr, pk) /\ RowsWritten(gr, cps, order, pk)
    /\ Len(pk.rows) = Len(axset(gr, cps, order))
    /\ pk.table.nAction <= pk.table.nActionAlloc

\* acttab_action_size: no slot from there on is taken.
LEMMA TableSize ==
    ASSUME NEW p, IsTable(p), p.nAction <= p.nActionAlloc
    PROVE  /\ acttab_action_size(p) \in 0 .. p.nAction
           /\ \A k \in DOMAIN p.aAction : p.aAction[k].lookahead >= 0 => k < acttab_action_size(p)
<1> DEFINE used == {k \in 0 .. p.nAction - 1 : p.aAction[k].lookahead >= 0}
           ends == {0} \cup {k + 1 : k \in used}
           size == acttab_action_size(p)
           ok(n) == /\ n > 0 => p.aAction[n - 1].lookahead >= 0
                    /\ \A k \in n .. p.nAction - 1 : p.aAction[k].lookahead < 0
<1>1. /\ p.nAction \in Nat /\ p.nActionAlloc \in Nat /\ DOMAIN p.aAction = 0 .. p.nActionAlloc - 1
      /\ \A k \in DOMAIN p.aAction :
           p.aAction[k].lookahead \in Int /\ (k >= p.nAction => p.aAction[k].lookahead < 0)
  BY DEF IsTable
<1>2. ends \in SUBSET Int /\ ends # {} /\ \A n \in ends : 0 <= n /\ n <= p.nAction
  BY <1>1
<1>3. \A n \in ends : n > 0 => p.aAction[n - 1].lookahead >= 0
  OBVIOUS
<1>4. \A k \in used : k + 1 \in ends
  OBVIOUS
<1> HIDE DEF ends
<1>5. PICK n \in ends : \A m \in ends : m <= n
  <2>1. p.nAction \in Int /\ \A n \in ends : n <= p.nAction
    BY <1>1, <1>2
  <2> QED
    BY <1>2, <2>1, Greatest
<1>6. ASSUME NEW k \in n .. p.nAction - 1 PROVE p.aAction[k].lookahead < 0
  <2>1. k \in DOMAIN p.aAction /\ k \in Int /\ n \in Int /\ n <= k
    BY <1>1, <1>2, <1>5
  <2>2. k \notin used
    BY <1>4, <1>5, <2>1
  <2>3. ~ (p.aAction[k].lookahead >= 0)
    BY <1>1, <1>2, <2>1, <2>2
  <2> QED
    BY <1>1, <2>1, <2>3
<1>7. n \in 0 .. p.nAction /\ ok(n)
  BY <1>1, <1>2, <1>3, <1>5, <1>6
<1>8. size = CHOOSE m \in 0 .. p.nAction : ok(m)
  BY DEF acttab_action_size
<1> HIDE DEF ok, size
<1>9. size \in 0 .. p.nAction /\ ok(size)
  BY <1>7, <1>8
<1>10. ASSUME NEW k \in DOMAIN p.aAction, p.aAction[k].lookahead >= 0 PROVE k < size
  <2>1. k < p.nAction /\ k \in Int /\ k >= 0
    BY <1>1, <1>10
  <2>2. k \notin size .. p.nAction - 1
    BY <1>1, <1>9, <1>10 DEF ok
  <2> QED
    BY <1>1, <1>9, <2>1, <2>2
<1>11. size \in 0 .. p.nAction /\ \A k \in DOMAIN p.aAction : p.aAction[k].lookahead >= 0 => k < size
  BY <1>9, <1>10
<1> QED
  BY <1>11 DEF size

\* A row is in the table, says what the actions of its state are, and begins among the slots in use.
IsPlaced(gr, cps, order, pk, r) ==
    /\ r.state \in 0 .. nxstate(cps, order) - 1 /\ r.isTkn \in BOOLEAN
    /\ IsRow(r.row, gr.nsymbol) /\ r.offset \in Int /\ (r.isTkn => r.offset \in Nat)
    /\ InTable(pk.table, r.row, r.offset)
    /\ pk.shared \/ Alone(pk.table, r.row, r.offset)
    /\ RowSays(gr, cps, order, cps[order[r.state + 1]].ap, SymbolsOf(gr, r), r.row)

\* So is every row that is packed.
LEMMA RowsPlaced ==
    ASSUME NEW gr, NEW cps, NEW order, NEW pk, AllWritten(gr, cps, order, pk),
           NEW i \in DOMAIN pk.rows
    PROVE  IsPlaced(gr, cps, order, pk, pk.rows[i])
<1> DEFINE rows == axset(gr, cps, order)
           x == rows[i]
           r == pk.rows[i]
<1>1. /\ IsGrammar(gr) /\ IsCompressed(cps) /\ NamingStates(gr, cps) /\ IsOrder(cps, order)
      /\ IsPacked(gr, pk) /\ RowsWritten(gr, cps, order, pk) /\ Len(pk.rows) = Len(rows)
  BY DEF AllWritten
<1>2. order \in Seq(DOMAIN cps) /\ Len(order) \in Nat \ {0}
  BY <1>1 DEF IsOrder
<1>3. DOMAIN rows = 1 .. Len(rows) /\ \A j \in DOMAIN rows : IsRowOf(gr, cps, order, rows[j])
  BY <1>1, <1>2, RowsInOrder
<1>4. i \in DOMAIN rows
  BY <1>1, <1>3 DEF IsPacked
<1>5. IsRowOf(gr, cps, order, x) /\ IsRowFor(gr, cps, order, x, r)
  BY <1>1, <1>3, <1>4 DEF RowsWritten
<1>6. /\ IsRow(r.row, gr.nsymbol) /\ r.offset \in Int /\ r.isTkn \in BOOLEAN
      /\ InTable(pk.table, r.row, r.offset)
      /\ pk.shared \/ Alone(pk.table, r.row, r.offset)
  BY <1>1 DEF IsPacked
<1> HIDE DEF rows, x, r
<1>7. /\ r.state = x.state /\ r.isTkn = x.isTkn /\ (r.isTkn => r.offset \in Nat)
      /\ r.row = Row(gr, cps, order, order[x.state + 1], SymbolsOf(gr, x))
      /\ x.state \in 0 .. nxstate(cps, order) - 1
  BY <1>5 DEF IsRowFor, IsRowOf
<1>8. SymbolsOf(gr, r) = SymbolsOf(gr, x)
  BY <1>7 DEF SymbolsOf
<1>9. order[x.state + 1] \in DOMAIN cps
  BY <1>2, <1>5, ElementOfSeq DEF IsRowOf
<1>10. SymbolsOf(gr, x) \in SUBSET (0 .. gr.nsymbol - 1)
  BY <1>1, PartsOfGrammar DEF SymbolsOf, Terminals, Nonterminals
<1> DEFINE k == order[x.state + 1]
           symbols == SymbolsOf(gr, x)
<1> HIDE DEF k, symbols
<1>11. RowSays(gr, cps, order, cps[k].ap, symbols, Row(gr, cps, order, k, symbols))
  BY <1>1, <1>9, <1>10, RowOfState DEF k, symbols
<1>12. RowSays(gr, cps, order, cps[order[r.state + 1]].ap, SymbolsOf(gr, r), r.row)
  BY <1>7, <1>8, <1>11 DEF k, symbols
<1> QED
  BY <1>6, <1>7, <1>12 DEF IsPlaced, r

\* A state that has actions on terminals, or on nonterminals, has a row of them.
LEMMA RowPresent ==
    ASSUME NEW gr, NEW cps, NEW order, NEW pk, AllWritten(gr, cps, order, pk),
           NEW n \in 0 .. nxstate(cps, order) - 1, NEW isTkn \in BOOLEAN,
           NEW s \in IF isTkn THEN Terminals(gr) ELSE Nonterminals(gr),
           OnSymbol(cps[order[n + 1]].ap, s) # {}
    PROVE  HasRow(pk, isTkn, n)
<1> DEFINE x == [state |-> n, isTkn |-> isTkn]
           rows == axset(gr, cps, order)
           on == ActionsOn(cps[order[n + 1]], SymbolsOf(gr, x))
<1>1. /\ IsCompressed(cps) /\ IsOrder(cps, order)
      /\ IsPacked(gr, pk) /\ RowsWritten(gr, cps, order, pk) /\ Len(pk.rows) = Len(rows)
  BY DEF AllWritten
<1>2. order \in Seq(DOMAIN cps) /\ Len(order) \in Nat \ {0}
  BY <1>1 DEF IsOrder
<1>3. nxstate(cps, order) \in 1 .. Len(order)
  BY <1>2, StatesWithTables
<1>4. order[n + 1] \in DOMAIN cps
  BY <1>2, <1>3, ElementOfSeq
<1>5. IsFiniteSet(on) /\ Cardinality(on) \in Nat
  BY <1>1, <1>4, ChoicesFinite DEF IsCompressed
<1>6. on # {}
  BY DEF SymbolsOf, OnSymbol, ActionsOn
<1>7. Cardinality(on) > 0
  BY <1>5, <1>6, FS_EmptySet
<1>8. /\ x \in [state : 0 .. nxstate(cps, order) - 1, isTkn : BOOLEAN]
      /\ x.state = n /\ x.isTkn = isTkn
  OBVIOUS
<1>9. HaveRows(gr, cps, order, rows) /\ DOMAIN rows = 1 .. Len(rows)
  BY <1>1, <1>2, RowsInOrder
<1>10. Cardinality(ActionsOn(cps[order[x.state + 1]], SymbolsOf(gr, x))) > 0
  BY <1>7, <1>8
<1> HIDE DEF x, on
<1>11. PICK i \in DOMAIN rows : rows[i] = x
  BY <1>8, <1>9, <1>10 DEF HaveRows
<1>12. DOMAIN pk.rows = 1 .. Len(pk.rows)
  BY <1>1 DEF IsPacked
<1>13. i \in DOMAIN pk.rows
  BY <1>1, <1>9, <1>11, <1>12
<1>14. IsRowFor(gr, cps, order, rows[i], pk.rows[i])
  BY <1>1, <1>13 DEF RowsWritten
<1>15. pk.rows[i].state = n /\ pk.rows[i].isTkn = isTkn
  BY <1>8, <1>11, <1>14 DEF IsRowFor
<1> QED
  BY <1>13, <1>15 DEF HasRow, OffsetsOf

\* The number is that of the last of the actions on the symbol.
FoundFor(gr, cps, order, ap, s, n) ==
    \E i \in OnSymbol(ap, s) :
      (\A l \in OnSymbol(ap, s) : l <= i) /\ Numbered(gr, cps, order, ap[i], n)

\* A symbol looked up at the offset of a row: the last action on it, if there is one, and else
\* no slot with the symbol, unless the row has the offset of others.
LEMMA RowLookedUp ==
    ASSUME NEW gr, NEW cps, NEW order, NEW pk, AllWritten(gr, cps, order, pk),
           NEW r, IsPlaced(gr, cps, order, pk, r), NEW s \in SymbolsOf(gr, r)
    PROVE  LET p == pk.table
               k == r.offset + s
               ap == cps[order[r.state + 1]].ap
           IN  /\ OnSymbol(ap, s) # {} =>
                    /\ k \in DOMAIN p.aAction /\ k \in 0 .. acttab_action_size(p) - 1
                    /\ p.aAction[k].lookahead = s
                    /\ FoundFor(gr, cps, order, ap, s, p.aAction[k].action)
               /\ OnSymbol(ap, s) = {} /\ k \in DOMAIN p.aAction =>
                    pk.shared \/ p.aAction[k].lookahead # s
<1> DEFINE p == pk.table
           k == r.offset + s
           ap == cps[order[r.state + 1]].ap
           On == OnSymbol(ap, s)
           size == acttab_action_size(p)
           row == r.row
<1>1. /\ IsGrammar(gr) /\ IsTable(p) /\ p.nAction <= p.nActionAlloc
  BY DEF AllWritten, IsPacked
<1>2. /\ IsRow(row, gr.nsymbol) /\ r.offset \in Int /\ InTable(p, row, r.offset)
      /\ pk.shared \/ Alone(p, row, r.offset)
      /\ RowSays(gr, cps, order, ap, SymbolsOf(gr, r), row)
  BY DEF IsPlaced
<1>3. s \in Nat
  BY <1>1, PartsOfGrammar DEF SymbolsOf, Terminals, Nonterminals
<1>4. /\ On = {} => \A j \in DOMAIN row : row[j].lookahead # s
      /\ On # {} => \E j \in DOMAIN row, i \in On :
                      /\ row[j].lookahead = s /\ IsLast(row, j)
                      /\ \A l \in On : l <= i
                      /\ Numbered(gr, cps, order, ap[i], row[j].action)
  BY <1>2 DEF RowSays
<1>5. /\ DOMAIN p.aAction = 0 .. p.nActionAlloc - 1 /\ p.nActionAlloc \in Nat
      /\ \A l \in DOMAIN p.aAction : p.aAction[l].lookahead \in Int
  BY <1>1 DEF IsTable
<1>6. size \in Nat /\ \A l \in DOMAIN p.aAction : p.aAction[l].lookahead >= 0 => l < size
  BY <1>1, TableSize
<1> HIDE DEF p, row, On, size, ap
<1>7. ASSUME On # {}
      PROVE  /\ k \in DOMAIN p.aAction /\ k \in 0 .. size - 1 /\ p.aAction[k].lookahead = s
             /\ FoundFor(gr, cps, order, ap, s, p.aAction[k].action)
  <2>1. PICK j \in DOMAIN row, i \in On :
                      /\ row[j].lookahead = s /\ IsLast(row, j)
                      /\ \A l \in On : l <= i
                      /\ Numbered(gr, cps, order, ap[i], row[j].action)
    BY <1>4, <1>7
  <2>2. k \in DOMAIN p.aAction /\ p.aAction[k].lookahead = s /\ p.aAction[k] = row[j]
    BY <1>2, <2>1 DEF InTable, Slot
  <2>3. FoundFor(gr, cps, order, ap, s, p.aAction[k].action)
    BY <2>1, <2>2 DEF FoundFor, On
  <2>4. k \in Int /\ k >= 0
    BY <1>5, <2>2
  <2>5. k < size
    BY <1>3, <1>6, <2>2
  <2> HIDE DEF k
  <2>6. k \in 0 .. size - 1
    BY <1>6, <2>4, <2>5
  <2> QED
    BY <2>2, <2>3, <2>6
<1>8. ASSUME On = {}, k \in DOMAIN p.aAction, ~ pk.shared PROVE p.aAction[k].lookahead # s
  <2>1. SUFFICES ASSUME p.aAction[k].lookahead = s PROVE FALSE
    OBVIOUS
  <2>2. s >= 0 /\ s = k - r.offset
    BY <1>2, <1>3
  <2>3. PICK j \in DOMAIN row : r.offset + row[j].lookahead = k
    BY <1>2, <1>8, <2>1, <2>2 DEF Alone, Slot
  <2>4. row[j].lookahead \in Int
    BY <1>2, <2>3 DEF IsRow
  <2>5. row[j].lookahead = s
    BY <1>2, <1>3, <2>3, <2>4
  <2> QED
    BY <1>4, <1>8, <2>3, <2>5
<1> QED
  BY <1>7, <1>8 DEF p, On, size, ap

\* A row of terminals begins among the slots in use.
LEMMA RowBegins ==
    ASSUME NEW gr, NEW cps, NEW order, NEW pk, AllWritten(gr, cps, order, pk),
           NEW r, IsPlaced(gr, cps, order, pk, r), r.isTkn
    PROVE  r.offset \in 0 .. acttab_action_size(pk.table)
<1> DEFINE p == pk.table
           size == acttab_action_size(p)
           row == r.row
           k == r.offset + row[1].lookahead
<1>1. /\ IsGrammar(gr) /\ IsTable(p) /\ p.nAction <= p.nActionAlloc
  BY DEF AllWritten, IsPacked
<1>2. IsRow(row, gr.nsymbol) /\ InTable(p, row, r.offset) /\ r.offset \in Nat
  BY DEF IsPlaced
<1>3. size \in Nat /\ \A l \in DOMAIN p.aAction : p.aAction[l].lookahead >= 0 => l < size
  BY <1>1, TableSize
<1>4. 1 \in DOMAIN row /\ row[1].lookahead \in Nat
  BY <1>2 DEF IsRow
<1>5. k \in DOMAIN p.aAction /\ p.aAction[k].lookahead = row[1].lookahead
  BY <1>2, <1>4 DEF InTable, Slot
<1>6. k < size
  BY <1>4, <1>5, <1>3
<1> HIDE DEF size, row
<1> QED
  BY <1>2, <1>3, <1>4, <1>6 DEF size

\* Every row is among the offsets of its kind, and OffsetAt is the offset of a row of the state.
LEMMA RowsOfKind ==
    ASSUME NEW gr, NEW cps, NEW order, NEW pk, AllWritten(gr, cps, order, pk),
           NEW isTkn \in BOOLEAN
    PROVE  /\ \A r \in OffsetsOf(pk, isTkn) : IsPlaced(gr, cps, order, pk, r) /\ r.isTkn = isTkn
           /\ \A n : HasRow(pk, isTkn, n) =>
                \E r \in OffsetsOf(pk, isTkn) : r.state = n /\ OffsetAt(pk, isTkn, n) = r.offset
<1>1. ASSUME NEW r \in OffsetsOf(pk, isTkn) PROVE IsPlaced(gr, cps, order, pk, r) /\ r.isTkn = isTkn
  BY RowsPlaced DEF OffsetsOf
<1>2. ASSUME NEW n, HasRow(pk, isTkn, n)
      PROVE  \E r \in OffsetsOf(pk, isTkn) : r.state = n /\ OffsetAt(pk, isTkn, n) = r.offset
  BY <1>2 DEF HasRow, OffsetAt
<1> QED
  BY <1>1, <1>2

\* Offsets are listed for every state that has a row, and for no state beyond the tables.
LEMMA LastRowIsLast ==
    ASSUME NEW gr, NEW cps, NEW order, NEW pk, AllWritten(gr, cps, order, pk),
           NEW isTkn \in BOOLEAN
    PROVE  /\ LastRow(pk, isTkn) \in -1 .. nxstate(cps, order) - 1
           /\ \A n \in Nat : HasRow(pk, isTkn, n) => n <= LastRow(pk, isTkn)
<1> DEFINE O == OffsetsOf(pk, isTkn)
           S == {-1 * r.state : r \in O} \cup {1}
           nx == nxstate(cps, order)
<1>1. nx \in Nat \ {0}
  BY StatesWithTables DEF AllWritten, IsOrder
<1>2. \A r \in O : r.state \in 0 .. nx - 1
  BY RowsOfKind DEF IsPlaced
<1>3. LastRow(pk, isTkn) = -LeastOf(S)
  BY DEF LastRow
<1> HIDE DEF O, nx
<1>4. S \in SUBSET Int /\ 1 \in S /\ \A m \in S : m \in 1 - nx .. 0 \/ m = 1
  BY <1>1, <1>2
<1>5. \A r \in O : -1 * r.state \in S
  OBVIOUS
<1> HIDE DEF S
<1>6. \E m \in S : \A n \in S : m <= n
  <2>1. 1 - nx \in Int /\ \A n \in S : 1 - nx <= n
    BY <1>1, <1>4
  <2> QED
    BY <1>4, <2>1, Least
<1>7. LeastOf(S) \in S /\ \A n \in S : LeastOf(S) <= n
  BY <1>6 DEF LeastOf
<1>8. LastRow(pk, isTkn) \in -1 .. nx - 1
  <2> DEFINE m == LeastOf(S)
  <2>1. /\ m \in 1 - nx .. 0 \/ m = 1
        /\ m <= 1
        /\ LastRow(pk, isTkn) = -m
    BY <1>3, <1>4, <1>7
  <2> HIDE DEF m
  <2>2. -m \in -1 .. nx - 1
    BY <1>1, <2>1
  <2> QED
    BY <2>1, <2>2
<1>9. ASSUME NEW n \in Nat, HasRow(pk, isTkn, n) PROVE n <= LastRow(pk, isTkn)
  <2>1. PICK r \in O : r.state = n
    BY <1>9 DEF HasRow, O
  <2>2. LeastOf(S) <= -1 * n /\ LeastOf(S) \in Int
    BY <1>4, <1>5, <1>7, <2>1
  <2> QED
    BY <1>3, <2>2
<1> QED
  BY <1>8, <1>9 DEF nx

-----------------------------------------------------------------------------
(***************************************************************************)
(* What lempar.c finds in the tables written.                              *)
(***************************************************************************)

\* The numbers of the tables.
LEMMA NumbersInTables ==
    ASSUME NEW gr, NEW cps, NEW order, NEW pk
    PROVE  /\ ReportTable(gr, cps, order, pk).YYNSTATE = nxstate(cps, order)
           /\ ReportTable(gr, cps, order, pk).YYNRULE = Len(gr.rules)
           /\ ReportTable(gr, cps, order, pk).YYNTOKEN = gr.nterminal
           /\ ReportTable(gr, cps, order, pk).YY_MIN_SHIFTREDUCE = minShiftReduce(cps)
           /\ ReportTable(gr, cps, order, pk).YY_ERROR_ACTION = errAction(gr, cps)
           /\ ReportTable(gr, cps, order, pk).YY_ACCEPT_ACTION = accAction(gr, cps)
           /\ ReportTable(gr, cps, order, pk).YY_MIN_REDUCE = minReduce(gr, cps)
           /\ ReportTable(gr, cps, order, pk).YY_ACTTAB_COUNT = acttab_action_size(pk.table)
  BY DEF ReportTable

\* The two arrays of the action table.
LEMMA ActionsInTables ==
    ASSUME NEW gr, NEW cps, NEW order, NEW pk
    PROVE  LET T == ReportTable(gr, cps, order, pk)
               p == pk.table
               size == acttab_action_size(p)
           IN  /\ T.yy_action =
                    [i \in 0 .. size - 1 |->
                       IF p.aAction[i].action < 0 THEN noAction(gr, cps) ELSE p.aAction[i].action]
               /\ T.yy_lookahead =
                    [i \in 0 .. NLookahead(gr, p) - 1 |->
                       IF i >= p.nAction THEN gr.nterminal
                       ELSE IF p.aAction[i].lookahead < 0 THEN gr.nsymbol
                       ELSE p.aAction[i].lookahead]
  BY DEF ReportTable

\* Names for the truth values, which the provers take better as predicates.
IsYes(b) == b = TRUE
IsNo(b) == b = FALSE

\* What is one or the other is a truth value.
LEMMA YesOrNo ==
    ASSUME NEW b, IsYes(b) \/ IsNo(b)
    PROVE  b \in BOOLEAN /\ (b <=> IsYes(b))
  BY DEF IsYes, IsNo

\* Where the states look tokens up; isTkn is a name for the truth value.
LEMMA ShiftOffsets ==
    ASSUME NEW gr, NEW cps, NEW order, NEW pk, NEW isTkn, IsYes(isTkn), NEW s
    PROVE  LET T == ReportTable(gr, cps, order, pk)
           IN  /\ DOMAIN T.yy_shift_ofst = 0 .. LastRow(pk, isTkn)
               /\ s \in 0 .. LastRow(pk, isTkn) =>
                    T.yy_shift_ofst[s] = IF HasRow(pk, isTkn, s) THEN OffsetAt(pk, isTkn, s)
                                         ELSE NoShiftOffset(acttab_action_size(pk.table))
<1> DEFINE T == ReportTable(gr, cps, order, pk)
           none == NoShiftOffset(acttab_action_size(pk.table))
<1>1. T.yy_shift_ofst =
        [q \in 0 .. LastRow(pk, TRUE) |->
           IF HasRow(pk, TRUE, q) THEN OffsetAt(pk, TRUE, q) ELSE none]
  BY DEF ReportTable
<1> HIDE DEF T, none
<1>2. T.yy_shift_ofst =
        [q \in 0 .. LastRow(pk, isTkn) |->
           IF HasRow(pk, isTkn, q) THEN OffsetAt(pk, isTkn, q) ELSE none]
  BY <1>1, Zenon DEF IsYes
<1> QED
  BY <1>2 DEF T, none

\* The same of the offsets for nonterminals.
LEMMA ReduceOffsets ==
    ASSUME NEW gr, NEW cps, NEW order, NEW pk, NEW isTkn, IsNo(isTkn), NEW s
    PROVE  LET T == ReportTable(gr, cps, order, pk)
           IN  /\ DOMAIN T.yy_reduce_ofst = 0 .. LastRow(pk, isTkn)
               /\ s \in 0 .. LastRow(pk, isTkn) /\ HasRow(pk, isTkn, s) =>
                    T.yy_reduce_ofst[s] = OffsetAt(pk, isTkn, s)
<1> DEFINE T == ReportTable(gr, cps, order, pk)
           other == LeastOf({0} \cup {r.offset : r \in OffsetsOf(pk, FALSE)}) - 1
<1>1. T.yy_reduce_ofst =
        [q \in 0 .. LastRow(pk, FALSE) |->
           IF HasRow(pk, FALSE, q) THEN OffsetAt(pk, FALSE, q) ELSE other]
  BY DEF ReportTable
<1> HIDE DEF T, other
<1>2. T.yy_reduce_ofst =
        [q \in 0 .. LastRow(pk, isTkn) |->
           IF HasRow(pk, isTkn, q) THEN OffsetAt(pk, isTkn, q) ELSE other]
  BY <1>1, Zenon DEF IsNo
<1> QED
  BY <1>2 DEF T

\* The arrays: of the slots that are taken there are the actions, and where a lookup may end there
\* is the symbol of the slot, or one that no state has actions on.
LEMMA SlotsInTables ==
    ASSUME NEW gr, NEW cps, NEW order, NEW pk, AllWritten(gr, cps, order, pk)
    PROVE  LET T == ReportTable(gr, cps, order, pk)
               p == pk.table
               size == acttab_action_size(p)
           IN  /\ DOMAIN T.yy_action = 0 .. size - 1
               /\ \A k \in 0 .. size - 1 : p.aAction[k].action >= 0 =>
                                             T.yy_action[k] = p.aAction[k].action
               /\ \A k \in 0 .. gr.nterminal + size - 1 : k \in DOMAIN T.yy_lookahead
               /\ \A k \in DOMAIN T.yy_lookahead, s \in 0 .. gr.nterminal - 1 :
                    T.yy_lookahead[k] = s => k \in DOMAIN p.aAction /\ p.aAction[k].lookahead = s
               /\ \A k \in 0 .. size - 1 : p.aAction[k].lookahead >= 0 =>
                    k \in DOMAIN T.yy_lookahead /\ T.yy_lookahead[k] = p.aAction[k].lookahead
<1> DEFINE T == ReportTable(gr, cps, order, pk)
           p == pk.table
           size == acttab_action_size(p)
           nl == NLookahead(gr, p)
<1>1. IsGrammar(gr) /\ IsTable(p) /\ p.nAction <= p.nActionAlloc
  BY DEF AllWritten, IsPacked
<1>2. gr.nterminal \in Nat /\ gr.nsymbol \in Nat /\ gr.nterminal < gr.nsymbol
  BY <1>1, PartsOfGrammar
<1>3. /\ p.nAction \in Nat /\ p.nActionAlloc \in Nat /\ DOMAIN p.aAction = 0 .. p.nActionAlloc - 1
      /\ \A k \in DOMAIN p.aAction : p.aAction[k].lookahead \in Int
  BY <1>1 DEF IsTable
<1>4. size \in 0 .. p.nAction
  BY <1>1, TableSize
<1>5. nl = IF p.nAction < gr.nterminal + size THEN gr.nterminal + size ELSE p.nAction
  BY DEF NLookahead
<1>6. /\ T.yy_action =
           [i \in 0 .. size - 1 |->
              IF p.aAction[i].action < 0 THEN noAction(gr, cps) ELSE p.aAction[i].action]
      /\ T.yy_lookahead =
           [i \in 0 .. nl - 1 |->
              IF i >= p.nAction THEN gr.nterminal
              ELSE IF p.aAction[i].lookahead < 0 THEN gr.nsymbol ELSE p.aAction[i].lookahead]
  BY ActionsInTables
<1> HIDE DEF T, size, nl
<1>7. nl \in Nat /\ p.nAction <= nl /\ gr.nterminal + size <= nl
  BY <1>2, <1>3, <1>4, <1>5
<1>8. \A k \in 0 .. gr.nterminal + size - 1 : k \in DOMAIN T.yy_lookahead
  BY <1>2, <1>4, <1>6, <1>7
<1>9. \A k \in 0 .. size - 1 : p.aAction[k].action >= 0 => T.yy_action[k] = p.aAction[k].action
  <2>1. ASSUME NEW k \in 0 .. size - 1, p.aAction[k].action >= 0
        PROVE  T.yy_action[k] = p.aAction[k].action
    <3>1. CASE p.aAction[k].action < 0
      <4> DEFINE a == p.aAction[k].action
      <4>1. a \in {-1} \cup Nat
        <5>1. SlotsHold(p, Top(gr, cps))
          BY DEF AllWritten, RowsWritten
        <5>2. k \in DOMAIN p.aAction
          BY <1>1, <1>3, <1>4
        <5> QED
          BY <5>1, <5>2 DEF SlotsHold
      <4> HIDE DEF a
      <4>2. FALSE
        BY <2>1, <3>1, <4>1 DEF a
      <4> QED
        BY <4>2
    <3>2. CASE ~ (p.aAction[k].action < 0)
      BY <1>6, <3>2
    <3> QED
      BY <3>1, <3>2
  <2> QED
    BY <2>1
<1>10. ASSUME NEW k \in DOMAIN T.yy_lookahead, NEW s \in 0 .. gr.nterminal - 1, T.yy_lookahead[k] = s
       PROVE  k \in DOMAIN p.aAction /\ p.aAction[k].lookahead = s
  <2>1. k \in 0 .. nl - 1 /\ s \in Int /\ s # gr.nterminal /\ s # gr.nsymbol
    BY <1>2, <1>6
  <2>2. ~ (k >= p.nAction) /\ ~ (p.aAction[k].lookahead < 0) /\ p.aAction[k].lookahead = s
    BY <1>6, <1>10, <2>1
  <2>3. k \in 0 .. p.nActionAlloc - 1
    BY <1>1, <1>3, <1>7, <2>1, <2>2
  <2> QED
    BY <1>3, <2>2, <2>3
<1>11. ASSUME NEW k \in 0 .. size - 1, p.aAction[k].lookahead >= 0
       PROVE  k \in DOMAIN T.yy_lookahead /\ T.yy_lookahead[k] = p.aAction[k].lookahead
  <2>1. k \in 0 .. nl - 1 /\ ~ (k >= p.nAction) /\ k \in DOMAIN p.aAction
    BY <1>1, <1>3, <1>4, <1>7
  <2>2. ~ (p.aAction[k].lookahead < 0)
    BY <1>3, <1>11, <2>1
  <2> QED
    BY <1>6, <2>1, <2>2
<1>12. DOMAIN T.yy_action = 0 .. size - 1
  BY <1>6
<1> QED
  BY <1>8, <1>9, <1>10, <1>11, <1>12 DEF T, size

\* The numbers of actions are natural.
LEMMA NumbersOfFound ==
    ASSUME NEW gr, NEW cps, NEW order, NEW ap, NEW s, NEW n, FoundFor(gr, cps, order, ap, s, n)
    PROVE  n >= 0
<1>1. n \in 0 .. minReduce(gr, cps) + Len(gr.rules) - 1
  BY DEF FoundFor, Numbered
<1> QED
  BY <1>1

\* Where a state looks tokens up: at its row, or past all actions.
LEMMA ShiftOffset ==
    ASSUME NEW gr, NEW cps, NEW order, NEW pk, AllWritten(gr, cps, order, pk), NEW n \in Nat,
           NEW isTkn, IsYes(isTkn)
    PROVE  LET T == ReportTable(gr, cps, order, pk)
               size == acttab_action_size(pk.table)
           IN  /\ HasRow(pk, isTkn, n) => n \in DOMAIN T.yy_shift_ofst
               /\ n \in DOMAIN T.yy_shift_ofst =>
                    /\ T.yy_shift_ofst[n] \in 0 .. size
                    /\ \/ T.yy_shift_ofst[n] = size
                       \/ \E r : /\ IsPlaced(gr, cps, order, pk, r) /\ r.isTkn = isTkn
                                 /\ r.state = n /\ r.offset = T.yy_shift_ofst[n]
                    /\ HasRow(pk, isTkn, n) =>
                         \E r : /\ IsPlaced(gr, cps, order, pk, r) /\ r.isTkn = isTkn
                                /\ r.state = n /\ r.offset = T.yy_shift_ofst[n]
<1> DEFINE T == ReportTable(gr, cps, order, pk)
           size == acttab_action_size(pk.table)
           last == LastRow(pk, isTkn)
           Has == HasRow(pk, isTkn, n)
           at == OffsetAt(pk, isTkn, n)
<1>1. /\ DOMAIN T.yy_shift_ofst = 0 .. last
      /\ n \in 0 .. last => T.yy_shift_ofst[n] = IF Has THEN at ELSE size
  BY ShiftOffsets DEF T, NoShiftOffset
<1>2. /\ last \in Int /\ (Has => n <= last)
      /\ Has => \E r : /\ IsPlaced(gr, cps, order, pk, r) /\ r.isTkn = isTkn
                       /\ r.state = n /\ r.offset = at
  BY YesOrNo, LastRowIsLast, RowsOfKind
<1>3. size \in Nat
  BY TableSize DEF AllWritten, IsPacked
<1>4. ASSUME Has PROVE at \in 0 .. size
  BY <1>2, <1>4, RowBegins, YesOrNo
<1> HIDE DEF T, size, last, at, Has
<1>5. n \in 0 .. last => n \in DOMAIN T.yy_shift_ofst
  BY <1>1
<1>6. Has => n \in DOMAIN T.yy_shift_ofst
  BY <1>2, <1>5
<1>7. n \in DOMAIN T.yy_shift_ofst => T.yy_shift_ofst[n] = IF Has THEN at ELSE size
  BY <1>1
<1>8. CASE Has
  BY <1>2, <1>4, <1>6, <1>7, <1>8 DEF T, size, Has
<1>9. CASE ~ Has
  BY <1>3, <1>6, <1>7, <1>9 DEF T, size, Has
<1> QED
  BY <1>8, <1>9

\* What the parser finds for a state and a terminal.
LEMMA ShiftLooked ==
    ASSUME NEW gr, NEW cps, NEW order, NEW pk, AllWritten(gr, cps, order, pk),
           NEW n \in 0 .. nxstate(cps, order) - 1, NEW t \in Terminals(gr)
    PROVE  LET T == ReportTable(gr, cps, order, pk)
               ap == cps[order[n + 1]].ap
               found == yy_find_shift_action(T, t, n)
           IN  /\ OnSymbol(ap, t) # {} =>
                    ShiftAsserts(T, t, n) /\ FoundFor(gr, cps, order, ap, t, found)
               /\ OnSymbol(ap, t) = {} /\ n \in DOMAIN T.yy_shift_ofst =>
                    ShiftAsserts(T, t, n) /\ (pk.shared \/ found = T.yy_default[n])
<1> DEFINE isTkn == TRUE
           T == ReportTable(gr, cps, order, pk)
           ap == cps[order[n + 1]].ap
           p == pk.table
           size == acttab_action_size(p)
           off == T.yy_shift_ofst[n]
           k == off + t
           found == yy_find_shift_action(T, t, n)
<1>0. IsYes(isTkn)
  BY DEF IsYes
<1> HIDE DEF isTkn
<1>1. IsGrammar(gr) /\ IsTable(p) /\ p.nAction <= p.nActionAlloc
  BY DEF AllWritten, IsPacked
<1>2. gr.nterminal \in Nat \ {0} /\ gr.nsymbol \in Nat /\ t \in 0 .. gr.nterminal - 1
  BY <1>1, PartsOfGrammar DEF Terminals
<1>3. T.YYNSTATE = nxstate(cps, order) /\ T.YYNTOKEN = gr.nterminal /\ T.YY_ACTTAB_COUNT = size
  BY NumbersInTables
<1>4. size \in Nat /\ \A l \in DOMAIN p.aAction : p.aAction[l].lookahead >= 0 => l < size
  <2>1. p.nAction \in Nat
    BY <1>1 DEF IsTable
  <2>2. /\ size \in 0 .. p.nAction
        /\ \A l \in DOMAIN p.aAction : p.aAction[l].lookahead >= 0 => l < size
    BY <1>1, TableSize
  <2> QED
    BY <2>1, <2>2
<1>5. /\ DOMAIN T.yy_action = 0 .. size - 1
      /\ \A l \in 0 .. size - 1 : p.aAction[l].action >= 0 => T.yy_action[l] = p.aAction[l].action
      /\ \A l \in 0 .. gr.nterminal + size - 1 : l \in DOMAIN T.yy_lookahead
      /\ \A l \in DOMAIN T.yy_lookahead, s \in 0 .. gr.nterminal - 1 :
           T.yy_lookahead[l] = s => l \in DOMAIN p.aAction /\ p.aAction[l].lookahead = s
      /\ \A l \in 0 .. size - 1 : p.aAction[l].lookahead >= 0 =>
           l \in DOMAIN T.yy_lookahead /\ T.yy_lookahead[l] = p.aAction[l].lookahead
  BY SlotsInTables
<1>6. nxstate(cps, order) \in Int
  BY StatesWithTables DEF AllWritten, IsOrder
<1>7. n \in Nat
  BY <1>6
<1>8. /\ HasRow(pk, isTkn, n) => n \in DOMAIN T.yy_shift_ofst
      /\ n \in DOMAIN T.yy_shift_ofst =>
           /\ off \in 0 .. size
           /\ \/ off = size
              \/ \E r : /\ IsPlaced(gr, cps, order, pk, r) /\ r.isTkn = isTkn
                        /\ r.state = n /\ r.offset = off
           /\ HasRow(pk, isTkn, n) =>
                \E r : /\ IsPlaced(gr, cps, order, pk, r) /\ r.isTkn = isTkn
                       /\ r.state = n /\ r.offset = off
  BY <1>0, <1>7, ShiftOffset
<1>9. ~ (n > YY_MAX_SHIFT(T))
  BY <1>3, <1>6 DEF YY_MAX_SHIFT
<1>10. found = IF T.yy_lookahead[k] # t THEN T.yy_default[n] ELSE T.yy_action[k]
  BY <1>9 DEF yy_find_shift_action
<1> HIDE DEF T, size, p, ap, found
<1>11. ASSUME n \in DOMAIN T.yy_shift_ofst PROVE ShiftAsserts(T, t, n)
  <2>1. off \in 0 .. size
    BY <1>8, <1>11
  <2>2. off + gr.nterminal - 1 \in DOMAIN T.yy_lookahead /\ k \in DOMAIN T.yy_lookahead
    <3> HIDE DEF off
    <3>1. /\ off + gr.nterminal - 1 \in 0 .. gr.nterminal + size - 1
          /\ k \in 0 .. gr.nterminal + size - 1
      BY <1>2, <1>4, <2>1
    <3> QED
      BY <1>5, <3>1
  <2>3. T.yy_lookahead[k] = t => k \in DOMAIN T.yy_action
    <3> SUFFICES ASSUME T.yy_lookahead[k] = t PROVE k \in DOMAIN T.yy_action
      OBVIOUS
    <3>1. k \in DOMAIN p.aAction /\ p.aAction[k].lookahead = t
      BY <1>2, <1>5, <2>2
    <3>2. k < size
      BY <1>2, <3>1, <1>4
    <3>3. k \in 0 .. size - 1
      BY <1>2, <1>4, <2>1, <3>2
    <3> QED
      BY <1>5, <3>3
  <2>4. t < gr.nterminal
    BY <1>2
  <2> QED
    BY <1>3, <1>11, <2>1, <2>2, <2>3, <2>4 DEF ShiftAsserts
<1>12. ASSUME NEW r, IsPlaced(gr, cps, order, pk, r), r.isTkn = isTkn, r.state = n, r.offset = off
       PROVE  /\ OnSymbol(ap, t) # {} =>
                   /\ k \in DOMAIN p.aAction /\ k \in 0 .. size - 1
                   /\ p.aAction[k].lookahead = t
                   /\ FoundFor(gr, cps, order, ap, t, p.aAction[k].action)
              /\ OnSymbol(ap, t) = {} /\ k \in DOMAIN p.aAction =>
                   pk.shared \/ p.aAction[k].lookahead # t
  BY <1>0, <1>12, YesOrNo, RowLookedUp DEF SymbolsOf, p, ap, size
<1>13. ASSUME OnSymbol(ap, t) # {}
       PROVE  n \in DOMAIN T.yy_shift_ofst /\ FoundFor(gr, cps, order, ap, t, found)
  <2>1. HasRow(pk, isTkn, n)
    BY <1>0, YesOrNo, <1>13, RowPresent DEF ap
  <2>2. n \in DOMAIN T.yy_shift_ofst
    BY <1>8, <2>1
  <2>3. /\ k \in DOMAIN p.aAction /\ k \in 0 .. size - 1
        /\ p.aAction[k].lookahead = t
        /\ FoundFor(gr, cps, order, ap, t, p.aAction[k].action)
    BY <1>8, <1>12, <1>13, <2>1, <2>2
  <2> HIDE DEF k
  <2>4. T.yy_lookahead[k] = t
    BY <1>2, <1>5, <2>3
  <2>5. T.yy_action[k] = p.aAction[k].action
    BY <1>5, <2>3, NumbersOfFound
  <2> QED
    BY <1>10, <2>2, <2>3, <2>4, <2>5
<1>14. ASSUME OnSymbol(ap, t) = {}, n \in DOMAIN T.yy_shift_ofst, ~ pk.shared
       PROVE  found = T.yy_default[n]
  <2> SUFFICES ASSUME T.yy_lookahead[k] = t PROVE FALSE
    BY <1>10
  <2>1. off \in 0 .. size
    BY <1>8, <1>14
  <2>2. k \in DOMAIN T.yy_lookahead
    <3> HIDE DEF off
    <3>1. k \in 0 .. gr.nterminal + size - 1
      BY <1>2, <1>4, <2>1
    <3> QED
      BY <1>5, <3>1
  <2>3. k \in DOMAIN p.aAction /\ p.aAction[k].lookahead = t
    BY <1>2, <1>5, <2>2
  <2>4. CASE off = size
    BY <1>2, <2>3, <1>4, <2>4
  <2>5. CASE off # size
    BY <1>8, <1>12, <1>14, <2>3, <2>5
  <2> QED
    BY <2>4, <2>5
<1> QED
  BY <1>11, <1>13, <1>14 DEF T, ap, found

\* A state with an action on the terminal.
LEMMA ShiftFound ==
    ASSUME NEW gr, NEW cps, NEW order, NEW pk, AllWritten(gr, cps, order, pk),
           NEW n \in 0 .. nxstate(cps, order) - 1, NEW t \in Terminals(gr),
           OnSymbol(cps[order[n + 1]].ap, t) # {}
    PROVE  LET T == ReportTable(gr, cps, order, pk)
           IN  /\ ShiftAsserts(T, t, n)
               /\ FoundFor(gr, cps, order, cps[order[n + 1]].ap, t, yy_find_shift_action(T, t, n))
  BY ShiftLooked

\* A state without one.
LEMMA ShiftMissed ==
    ASSUME NEW gr, NEW cps, NEW order, NEW pk, AllWritten(gr, cps, order, pk),
           NEW n \in 0 .. nxstate(cps, order) - 1, NEW t \in Terminals(gr),
           OnSymbol(cps[order[n + 1]].ap, t) = {},
           n \in DOMAIN ReportTable(gr, cps, order, pk).yy_shift_ofst
    PROVE  LET T == ReportTable(gr, cps, order, pk)
           IN  /\ ShiftAsserts(T, t, n)
               /\ pk.shared \/ yy_find_shift_action(T, t, n) = T.yy_default[n]
  BY ShiftLooked

\* What the parser finds for a state and a nonterminal it has an action on.
LEMMA ReduceLooked ==
    ASSUME NEW gr, NEW cps, NEW order, NEW pk, AllWritten(gr, cps, order, pk),
           NEW n \in 0 .. nxstate(cps, order) - 1, NEW s \in Nonterminals(gr),
           OnSymbol(cps[order[n + 1]].ap, s) # {}
    PROVE  LET T == ReportTable(gr, cps, order, pk)
           IN  /\ ReduceAsserts(T, n, s)
               /\ FoundFor(gr, cps, order, cps[order[n + 1]].ap, s, yy_find_reduce_action(T, n, s))
<1> DEFINE isTkn == FALSE
           T == ReportTable(gr, cps, order, pk)
           ap == cps[order[n + 1]].ap
           p == pk.table
           size == acttab_action_size(p)
           last == LastRow(pk, isTkn)
           at == OffsetAt(pk, isTkn, n)
           k == at + s
<1>0. IsNo(isTkn)
  BY DEF IsNo
<1> HIDE DEF isTkn
<1>1. isTkn \in BOOLEAN /\ s \in IF isTkn THEN Terminals(gr) ELSE Nonterminals(gr)
  BY <1>0, YesOrNo DEF IsYes, IsNo
<1>2. HasRow(pk, isTkn, n)
  BY <1>1, RowPresent
<1>3. nxstate(cps, order) \in Int /\ n \in Nat
  BY StatesWithTables DEF AllWritten, IsOrder
<1>4. last \in Int /\ n <= last
  BY <1>1, LastRowIsLast, <1>2, <1>3
<1>5. PICK r : IsPlaced(gr, cps, order, pk, r) /\ r.isTkn = isTkn /\ r.state = n /\ r.offset = at
  BY <1>1, <1>2, RowsOfKind
<1>6. n \in DOMAIN T.yy_reduce_ofst /\ T.yy_reduce_ofst[n] = at
  BY <1>0, ReduceOffsets, <1>3, <1>4, <1>2 DEF T
<1>7. s \in SymbolsOf(gr, r)
  BY <1>0, <1>5 DEF SymbolsOf, IsNo
<1>8. /\ k \in DOMAIN p.aAction /\ k \in 0 .. size - 1
      /\ p.aAction[k].lookahead = s
      /\ FoundFor(gr, cps, order, ap, s, p.aAction[k].action)
  BY <1>5, <1>7, RowLookedUp
<1>9. s >= 0
  BY PartsOfGrammar DEF AllWritten, Nonterminals
<1>10. /\ DOMAIN T.yy_action = 0 .. size - 1
       /\ \A l \in 0 .. size - 1 : p.aAction[l].action >= 0 => T.yy_action[l] = p.aAction[l].action
       /\ \A l \in 0 .. size - 1 : p.aAction[l].lookahead >= 0 =>
            l \in DOMAIN T.yy_lookahead /\ T.yy_lookahead[l] = p.aAction[l].lookahead
  BY SlotsInTables
<1> HIDE DEF T, p, size, ap, k
<1>11. T.yy_action[k] = p.aAction[k].action /\ T.yy_lookahead[k] = s /\ k \in DOMAIN T.yy_action
  BY <1>8, <1>9, <1>10, NumbersOfFound
<1>12. ReduceAsserts(T, n, s)
  BY <1>6, <1>11 DEF ReduceAsserts, k
<1>13. FoundFor(gr, cps, order, ap, s, yy_find_reduce_action(T, n, s))
  BY <1>6, <1>8, <1>11 DEF yy_find_reduce_action, k
<1> QED
  BY <1>12, <1>13 DEF T, ap

\* The number of a rule leads to its left-hand side and to its size.
LEMMA RuleInTables ==
    ASSUME NEW gr, IsGrammar(gr), NEW cps, NEW order, NEW pk, NEW r \in Rules(gr)
    PROVE  LET T == ReportTable(gr, cps, order, pk)
           IN  /\ iRule(gr)[r] \in 0 .. Len(gr.rules) - 1
               /\ T.yyRuleInfoLhs[iRule(gr)[r]] = gr.rules[r].lhs
               /\ T.yyRuleInfoNRhs[iRule(gr)[r]] = -Len(gr.rules[r].rhs)
<1> DEFINE T == ReportTable(gr, cps, order, pk)
           at(i) == CHOOSE q \in Rules(gr) : iRule(gr)[q] = i
           n == iRule(gr)[r]
<1>1. n \in 0 .. Len(gr.rules) - 1
  BY RulesNumbered
<1>2. at(n) = r
  BY RulesNumbered
<1>3. /\ T.yyRuleInfoLhs = [i \in 0 .. Len(gr.rules) - 1 |-> gr.rules[at(i)].lhs]
      /\ T.yyRuleInfoNRhs = [i \in 0 .. Len(gr.rules) - 1 |-> -Len(gr.rules[at(i)].rhs)]
  BY DEF ReportTable
<1> HIDE DEF T, at, n
<1>4. n \in 0 .. Len(gr.rules) - 1 /\ T.yyRuleInfoLhs[n] = gr.rules[r].lhs
      /\ T.yyRuleInfoNRhs[n] = -Len(gr.rules[r].rhs)
  BY <1>1, <1>2, <1>3
<1> QED
  BY <1>4 DEF T, n

\* The sizes of all rules are negated.
LEMMA SizesInTables ==
    ASSUME NEW gr, IsGrammar(gr), NEW cps, NEW order, NEW pk, NEW n \in 0 .. Len(gr.rules) - 1
    PROVE  -ReportTable(gr, cps, order, pk).yyRuleInfoNRhs[n] \in Nat
<1> DEFINE T == ReportTable(gr, cps, order, pk)
<1>1. PICK r \in Rules(gr) : iRule(gr)[r] = n
  BY RulesNumbered
<1>2. T.yyRuleInfoNRhs[n] = -Len(gr.rules[r].rhs)
  BY <1>1, RuleInTables
<1>3. Len(gr.rules[r].rhs) \in Nat
  BY <1>1, PartsOfGrammar
<1> HIDE DEF T
<1>4. -T.yyRuleInfoNRhs[n] \in Nat
  BY <1>2, <1>3
<1> QED
  BY <1>4 DEF T

\* The default of a state: its action on the symbol of defaults, or the error.
LEMMA DefaultInTables ==
    ASSUME NEW gr, NEW cps, NEW order, NEW pk, AllWritten(gr, cps, order, pk),
           NEW n \in 0 .. nxstate(cps, order) - 1
    PROVE  LET T == ReportTable(gr, cps, order, pk)
               ap == cps[order[n + 1]].ap
               dflt == OnSymbol(ap, Default(gr))
           IN  /\ dflt = {} => T.yy_default[n] = errAction(gr, cps)
               /\ dflt # {} => \E i \in dflt : Numbered(gr, cps, order, ap[i], T.yy_default[n])
<1> DEFINE T == ReportTable(gr, cps, order, pk)
           k == order[n + 1]
           dflt(q) == OnSymbol(cps[q].ap, Default(gr))
           number(q) == compute_action(gr, cps, order, cps[q].ap[CHOOSE i \in dflt(q) : TRUE])
<1>1. /\ IsGrammar(gr) /\ IsCompressed(cps) /\ NamingStates(gr, cps) /\ IsOrder(cps, order)
      /\ order \in Seq(DOMAIN cps) /\ Len(order) \in Nat \ {0}
  BY DEF AllWritten, IsOrder
<1>2. T.yy_default =
        [s \in 0 .. nxstate(cps, order) - 1 |->
           IF dflt(order[s + 1]) = {} THEN errAction(gr, cps) ELSE number(order[s + 1])]
  BY DEF ReportTable
<1>3. k \in DOMAIN cps
  BY <1>1, StatesWithTables, ElementOfSeq
<1>4. ASSUME NEW i \in dflt(k)
      PROVE  Numbered(gr, cps, order, cps[k].ap[i], compute_action(gr, cps, order, cps[k].ap[i]))
  <2> DEFINE ap == cps[k].ap
  <2>1. i \in DOMAIN ap /\ Emitted(ap[i])
    BY <1>4 DEF OnSymbol
  <2>2. ap[i].type = "SHIFT" => ~ cps[ap[i].x].autoReduce
    BY <1>1, <1>3, <2>1 DEF NamingStates
  <2>3. ap[i] \in Acts(gr, DOMAIN cps)
    <3>1. cps \in [1 .. Len(cps) -> StateActs(gr, DOMAIN cps)] /\ DOMAIN cps = 1 .. Len(cps)
      BY <1>1, PartsOfSeq DEF NamingStates
    <3>2. ap \in Seq(Acts(gr, DOMAIN cps))
      BY <1>3, <3>1 DEF StateActs
    <3>3. ap \in [1 .. Len(ap) -> Acts(gr, DOMAIN cps)] /\ DOMAIN ap = 1 .. Len(ap)
      BY <3>2, PartsOfSeq
    <3> QED
      BY <2>1, <3>3
  <2> QED
    BY <1>1, <2>1, <2>2, <2>3, ActionNumbered
<1>5. dflt(k) # {} => (CHOOSE i \in dflt(k) : TRUE) \in dflt(k)
  OBVIOUS
<1>6. dflt(k) # {} => \E i \in dflt(k) : Numbered(gr, cps, order, cps[k].ap[i], number(k))
  BY <1>4, <1>5
<1> HIDE DEF T, dflt, number
<1>7. T.yy_default[n] = IF dflt(k) = {} THEN errAction(gr, cps) ELSE number(k)
  BY <1>2
<1>8. /\ dflt(k) = {} => T.yy_default[n] = errAction(gr, cps)
      /\ dflt(k) # {} => \E i \in dflt(k) : Numbered(gr, cps, order, cps[k].ap[i], T.yy_default[n])
  BY <1>6, <1>7
<1> QED
  BY <1>8 DEF T, dflt

\* The tables are what lempar.c takes for granted.
LEMMA TablesWellFormed ==
    ASSUME NEW gr, NEW cps, NEW order, NEW pk, AllWritten(gr, cps, order, pk)
    PROVE  WellFormed(ReportTable(gr, cps, order, pk))
<1> DEFINE T == ReportTable(gr, cps, order, pk)
           p == pk.table
           size == acttab_action_size(p)
           top == Top(gr, cps)
           nx == nxstate(cps, order)
<1>1. /\ IsGrammar(gr) /\ NamingStates(gr, cps) /\ IsOrder(cps, order)
      /\ IsTable(p) /\ p.nAction <= p.nActionAlloc /\ SlotsHold(p, top)
  BY DEF AllWritten, IsPacked, RowsWritten
<1>2. Len(gr.rules) \in Nat /\ Len(cps) \in Nat
  BY <1>1, PartsOfGrammar, PartsOfSeq DEF NamingStates
<1>3. nx \in 1 .. Len(cps)
  BY <1>1, StatesWithTables DEF IsOrder
<1>4. /\ T.YYNSTATE = nx /\ T.YYNRULE = Len(gr.rules)
      /\ T.YY_MIN_SHIFTREDUCE = Len(cps) /\ T.YY_MIN_REDUCE = minReduce(gr, cps)
  BY NumbersInTables DEF minShiftReduce
<1>5. /\ minReduce(gr, cps) = Len(cps) + Len(gr.rules) + 3
      /\ noAction(gr, cps) = Len(cps) + Len(gr.rules) + 2
      /\ errAction(gr, cps) = Len(cps) + Len(gr.rules)
  BY <1>2 DEF minReduce, noAction, accAction, errAction, minShiftReduce
<1>6. top = minReduce(gr, cps) + Len(gr.rules) - 1
  BY DEF Top
<1>7. \A k \in 0 .. size - 1 : k \in DOMAIN p.aAction
  <2>1. size \in 0 .. p.nAction
    BY <1>1, TableSize
  <2>2. p.nAction \in Nat /\ p.nActionAlloc \in Nat /\ DOMAIN p.aAction = 0 .. p.nActionAlloc - 1
    BY <1>1 DEF IsTable
  <2> HIDE DEF size
  <2> QED
    BY <1>1, <2>1, <2>2
<1>8. T.yy_action =
        [i \in 0 .. size - 1 |->
           IF p.aAction[i].action < 0 THEN noAction(gr, cps) ELSE p.aAction[i].action]
  BY DEF ReportTable
<1>9. \A n \in 0 .. Len(gr.rules) - 1 : -T.yyRuleInfoNRhs[n] \in Nat
  BY <1>1, SizesInTables
<1>10. ASSUME NEW n \in 0 .. nx - 1 PROVE T.yy_default[n] \in 0 .. top
  <2> DEFINE ap == cps[order[n + 1]].ap
             dflt == OnSymbol(ap, Default(gr))
  <2>1. CASE dflt = {}
    BY <2>1, DefaultInTables, <1>2, <1>5, <1>6
  <2>2. CASE dflt # {}
    <3>1. \E i \in dflt : Numbered(gr, cps, order, ap[i], T.yy_default[n])
      BY <2>2, DefaultInTables
    <3> QED
      BY <1>6, <3>1 DEF Numbered
  <2> QED
    BY <2>1, <2>2
<1> HIDE DEF T, p, size, top, nx
<1>11. ASSUME NEW i \in 0 .. size - 1 PROVE T.yy_action[i] \in 0 .. top
  BY <1>8, <1>1, <1>7, <1>2, <1>5, <1>6 DEF SlotsHold
<1>12. DOMAIN T.yy_action = 0 .. size - 1
  BY <1>8
<1>13. 0 .. top = 0 .. T.YY_MIN_REDUCE + T.YYNRULE - 1
  BY <1>4, <1>6
<1>14. /\ T.YYNSTATE \in Nat \ {0} /\ T.YYNRULE \in Nat
       /\ T.YY_MIN_SHIFTREDUCE \in Nat /\ T.YY_MIN_REDUCE \in Nat
       /\ T.YYNSTATE <= T.YY_MIN_SHIFTREDUCE
       /\ T.YY_MIN_SHIFTREDUCE <= T.YY_MIN_REDUCE
  BY <1>2, <1>3, <1>4, <1>5
<1>15. WellFormed(T)
  BY <1>4, <1>9, <1>10, <1>11, <1>12, <1>13, <1>14 DEF WellFormed
<1> QED
  BY <1>15 DEF T

\* At the end the rows have all been packed and the tables written.
LEMMA EndWritten ==
    ASSUME StatesInv, TablesInv, WrittenInv, phase = "done",
           pack.table.nAction <= pack.table.nActionAlloc
    PROVE  AllWritten(g, parser, sorted, pack) /\ tables = ReportTable(g, parser, sorted, pack)
<1>1. IsGrammar(g)
  BY LemonAssumption DEF StatesInv
<1>2. IsPacked(g, pack)
  BY DEF TablesInv
<1>3. /\ IsCompressed(parser) /\ NamingStates(g, parser) /\ RowsWritten(g, parser, sorted, pack)
      /\ Len(pack.rows) = Len(axset(g, parser, sorted))
      /\ tables = ReportTable(g, parser, sorted, pack)
  BY DEF WrittenInv
<1>4. IsOrder(parser, sorted)
  BY <1>3, OrderOfStates DEF sorted
<1> QED
  BY <1>1, <1>2, <1>3, <1>4 DEF AllWritten

\* The number of an action says what it is.
LEMMA NumberSays ==
    ASSUME AllWritten(g, parser, sorted, pack), tables = ReportTable(g, parser, sorted, pack),
           NEW a, NEW n, Numbered(g, parser, sorted, a, n)
    PROVE  Says(n, a)
<1> DEFINE nx == nxstate(parser, sorted)
           L == Len(g.rules)
           shifted == a.type = "SHIFTREDUCE" /\ a.sp \in Terminals(g)
           reduced == a.type \in {"REDUCE", "SHIFTREDUCE"} /\ ~ shifted
<1>1. IsGrammar(g) /\ NamingStates(g, parser) /\ IsOrder(parser, sorted)
  BY DEF AllWritten
<1>2. L \in Nat /\ Len(parser) \in Nat
  BY <1>1, PartsOfGrammar, PartsOfSeq DEF NamingStates
<1>3. nx \in 1 .. Len(parser)
  BY <1>1, StatesWithTables DEF IsOrder
<1>4. /\ tables.YYNSTATE = nx /\ tables.YYNRULE = L
      /\ tables.YY_MIN_SHIFTREDUCE = Len(parser)
      /\ tables.YY_ERROR_ACTION = errAction(g, parser)
      /\ tables.YY_ACCEPT_ACTION = accAction(g, parser)
      /\ tables.YY_MIN_REDUCE = minReduce(g, parser)
  BY NumbersInTables DEF minShiftReduce
<1>5. ASSUME NEW r \in Rules(g)
      PROVE  iRule(g)[r] \in 0 .. L - 1 /\ IsRuleNumber(iRule(g)[r], r)
  <2> HIDE DEF sorted
  <2> DEFINE i == iRule(g)[r]
  <2>1. /\ i \in 0 .. L - 1
        /\ tables.yyRuleInfoLhs[i] = g.rules[r].lhs
        /\ tables.yyRuleInfoNRhs[i] = -Len(g.rules[r].rhs)
    BY <1>1, RuleInTables
  <2> HIDE DEF i, L
  <2>2. IsRuleNumber(i, r)
    BY <1>4, <2>1 DEF IsRuleNumber, i
  <2> QED
    BY <2>1, <2>2 DEF i
<1>6. /\ a.type = "SHIFT" => n \in 0 .. nx - 1 /\ sorted[n + 1] = a.x
      /\ shifted => a.x \in Rules(g) /\ n = Len(parser) + iRule(g)[a.x]
      /\ reduced => a.x \in Rules(g) /\ n = minReduce(g, parser) + iRule(g)[a.x]
      /\ a.type = "ERROR" => n = errAction(g, parser)
      /\ a.type = "ACCEPT" => n = accAction(g, parser)
  BY DEF Numbered, minShiftReduce
<1>7. minReduce(g, parser) \in Int
  BY <1>2 DEF minReduce, noAction, accAction, errAction, minShiftReduce
<1> HIDE DEF nx, L, shifted, reduced, sorted
<1>8. a.type = "SHIFT" => n \in 0 .. YY_MAX_SHIFT(tables) /\ sorted[n + 1] = a.x
  BY <1>4, <1>6 DEF YY_MAX_SHIFT
<1>9. ASSUME shifted
      PROVE  /\ n > YY_MAX_SHIFT(tables) /\ n <= YY_MAX_SHIFTREDUCE(tables)
             /\ IsRuleNumber(n - tables.YY_MIN_SHIFTREDUCE, a.x)
  BY <1>5, <1>6, <1>9, <1>2, <1>3, <1>4 DEF YY_MAX_SHIFT, YY_MAX_SHIFTREDUCE
<1>10. ASSUME reduced PROVE IsRuleNumber(n - tables.YY_MIN_REDUCE, a.x)
  BY <1>5, <1>6, <1>10, <1>7, <1>4
<1> QED
  BY <1>4, <1>6, <1>8, <1>9, <1>10 DEF Says, shifted, reduced

\* What is found for a state says what the last of its actions is.
LEMMA FoundSays ==
    ASSUME AllWritten(g, parser, sorted, pack), tables = ReportTable(g, parser, sorted, pack),
           NEW ap, NEW s, NEW n, FoundFor(g, parser, sorted, ap, s, n)
    PROVE  SaysLast(n, ap, s)
  BY NumberSays DEF FoundFor, SaysLast

\* With the tables written the parser finds for a state what it does.
LEMMA StateSays ==
    ASSUME AllWritten(g, parser, sorted, pack), tables = ReportTable(g, parser, sorted, pack),
           NEW n \in 0 .. YY_MAX_SHIFT(tables)
    PROVE  LET ap == parser[sorted[n + 1]].ap
               dflt == OnSymbol(ap, Default(g))
           IN  /\ \A t \in Terminals(g) :
                    LET found == yy_find_shift_action(tables, t, n)
                    IN  IF OnSymbol(ap, t) # {}
                        THEN ShiftAsserts(tables, t, n) /\ SaysLast(found, ap, t)
                        ELSE n \in DOMAIN tables.yy_shift_ofst =>
                               /\ ShiftAsserts(tables, t, n)
                               /\ pack.shared \/ found = tables.yy_default[n]
               /\ \A s \in Nonterminals(g) : OnSymbol(ap, s) # {} =>
                    /\ ReduceAsserts(tables, n, s)
                    /\ SaysLast(yy_find_reduce_action(tables, n, s), ap, s)
               /\ IF dflt = {} THEN tables.yy_default[n] = tables.YY_ERROR_ACTION
                  ELSE \E i \in dflt : Says(tables.yy_default[n], ap[i])
<1> DEFINE ap == parser[sorted[n + 1]].ap
           dflt == OnSymbol(ap, Default(g))
           found(t) == yy_find_shift_action(tables, t, n)
<1>1. n \in 0 .. nxstate(parser, sorted) - 1 /\ tables.YY_ERROR_ACTION = errAction(g, parser)
  BY NumbersInTables DEF YY_MAX_SHIFT
<1> HIDE DEF sorted
<1>2. ASSUME NEW t \in Terminals(g)
      PROVE  IF OnSymbol(ap, t) # {}
             THEN ShiftAsserts(tables, t, n) /\ SaysLast(found(t), ap, t)
             ELSE n \in DOMAIN tables.yy_shift_ofst =>
                    /\ ShiftAsserts(tables, t, n)
                    /\ pack.shared \/ found(t) = tables.yy_default[n]
  BY <1>1, ShiftFound, FoundSays, ShiftMissed
<1>3. ASSUME NEW s \in Nonterminals(g), OnSymbol(ap, s) # {}
      PROVE  /\ ReduceAsserts(tables, n, s)
             /\ SaysLast(yy_find_reduce_action(tables, n, s), ap, s)
  BY <1>1, <1>3, ReduceLooked, FoundSays
<1>4. IF dflt = {} THEN tables.yy_default[n] = tables.YY_ERROR_ACTION
      ELSE \E i \in dflt : Says(tables.yy_default[n], ap[i])
  BY <1>1, DefaultInTables, NumberSays
<1> QED
  BY <1>2, <1>3, <1>4

(***************************************************************************)
(* For every grammar: the tables written at last are those lempar.c takes  *)
(* for granted, and make it do what the states were decided to do, on      *)
(* every symbol and by default.                                            *)
(***************************************************************************)
THEOREM TablesSayTheActions == Spec => []TablesSayActions
<1>1. StatesInv /\ TablesInv /\ WrittenInv => TablesSayActions
  BY EndWritten, TablesWellFormed, StateSays DEF TablesSayActions
<1> QED
  BY <1>1, StatesInvAlways, TablesInvAlways, WrittenInvAlways, PTL

-----------------------------------------------------------------------------
(***************************************************************************)
(* What CompressTables does to the actions of a state.                     *)
(***************************************************************************)

\* CompressTables keeps a state's actions but for reductions, which a default may stand for; a
\* state that reduces by itself reduces by one of them.
LEMMA ActsKept ==
    ASSUME NEW gr, IsGrammar(gr), NEW D, NEW ap \in Seq(Acts(gr, D))
    PROVE  LET comp == Compress(gr, ap)
           IN  /\ \A i \in DOMAIN comp.ap :
                    \/ \E j \in DOMAIN ap : comp.ap[i] = ap[j]
                    \/ \E j \in DefaultCandidates(gr, ap) :
                         comp.ap[i] = [sp |-> Default(gr), type |-> "REDUCE", x |-> ap[j].x]
               /\ \A j \in DOMAIN ap : ap[j].type # "REDUCE" =>
                    \E i \in DOMAIN comp.ap : comp.ap[i] = ap[j]
               /\ comp.autoReduce =>
                    /\ \E j \in DefaultCandidates(gr, ap) : comp.dflt = ap[j].x
                    /\ \A j \in DOMAIN ap : ap[j].type # "SHIFT"
<1> DEFINE candidates == DefaultCandidates(gr, ap)
           best == CHOOSE i \in candidates : \A j \in candidates :
                  \/ Count(ap, ap[j].x) < Count(ap, ap[i].x)
                  \/ Count(ap, ap[j].x) = Count(ap, ap[i].x) /\ i <= j
           rbest == ap[best].x
           image == {ap[i] : i \in DOMAIN ap}
           others == image \ {ap[i] : i \in {j \in Reductions(ap) : ap[j].x = rbest}}
           new == [sp |-> Default(gr), type |-> "REDUCE", x |-> rbest]
           kept == others \cup {new}
           A == Acts(gr, D)
           auto == \A a \in others : a.type \notin {"SHIFT", "REDUCE"}
           comp == Compress(gr, ap)
<1>1. DOMAIN ap = 1 .. Len(ap) /\ Len(ap) \in Nat /\ \A i \in DOMAIN ap : ap[i] \in A
  BY PartsOfSeq
<1>2. CASE candidates = {}
  BY <1>2 DEF Compress
<1>3. CASE candidates # {}
  <2>1. best \in candidates
    BY <1>3, BestFound DEF candidates
  <2>2. comp = [ap |-> Sorted(kept, Actioncmp(kept)), autoReduce |-> auto, dflt |-> rbest]
    BY <1>3 DEF Compress
  <2>3. best \in DOMAIN ap /\ ap[best].type = "REDUCE"
    BY <2>1 DEF DefaultCandidates, Reductions
  <2> HIDE DEF best, candidates, auto, comp
  <2>4. ASSUME NEW a \in kept
        PROVE  /\ a = [sp |-> a.sp, type |-> a.type, x |-> a.x]
               /\ a.sp \in Int /\ a.type \in Kinds /\ a.x \in Int
    <3>1. a = new \/ a \in A
      BY <1>1
    <3>2. CASE a \in A
      BY <3>2 DEF Acts
    <3>3. CASE a = new
      BY <1>1, <2>3, PartsOfGrammar, <3>3, KindsOfActions DEF Acts, Default
    <3> QED
      BY <3>1, <3>2, <3>3
  <2>5. IsFiniteSet(kept)
    <3>1. IsListing(ap)
      BY <1>1 DEF IsListing
    <3>2. IsFiniteSet(image)
      BY <3>1, ListingFinite
    <3>3. others \in SUBSET image
      OBVIOUS
    <3> HIDE DEF image, others, new
    <3>4. IsFiniteSet(others) /\ IsFiniteSet({new})
      BY <3>2, <3>3, FS_Subset, FS_Singleton
    <3> QED
      BY <3>4, FS_Union
  <2> HIDE DEF kept
  <2>6. IsStrictOrder(kept, Actioncmp(kept))
    BY <2>4, ActionOrder
  <2>7. /\ Cardinality(kept) \in Nat
        /\ comp.ap \in [1 .. Cardinality(kept) -> kept]
        /\ \A a \in kept : \E i \in 1 .. Cardinality(kept) : comp.ap[i] = a
    BY <2>2, <2>5, <2>6, SortedInOrder
  <2>8. \A i \in DOMAIN comp.ap : comp.ap[i] \in kept
    BY <2>7
  <2>9. \A a \in kept : \E i \in DOMAIN comp.ap : comp.ap[i] = a
    BY <2>7
  <2>10. \A j \in DOMAIN ap : ap[j].type # "REDUCE" => ap[j] \in kept
    BY DEF kept, Reductions
  <2>11. \A a \in kept : a = new \/ \E j \in DOMAIN ap : a = ap[j]
    BY DEF kept
  <2> HIDE DEF new
  <2>12. \A i \in DOMAIN comp.ap : comp.ap[i] = new \/ \E j \in DOMAIN ap : comp.ap[i] = ap[j]
    BY <2>8, <2>11
  <2>13. comp.dflt = ap[best].x
    BY <2>2
  <2>14. comp.autoReduce => \A j \in DOMAIN ap : ap[j].type # "SHIFT"
    BY <2>2 DEF auto, Reductions
  <2> QED
    BY <2>1, <2>9, <2>10, <2>12, <2>13, <2>14 DEF new, candidates, comp
<1> QED
  BY <1>2, <1>3

-----------------------------------------------------------------------------
(***************************************************************************)
(* What actions mean for the grammar.                                      *)
(***************************************************************************)

\* A rule that renames one of the symbols S gives a symbol of S.
IsUnitClosed(gr, S) ==
    \A r \in Rules(gr) :
      Len(gr.rules[r].rhs) = 1 /\ gr.rules[r].rhs[1] \in S => gr.rules[r].lhs \in S

Symbols(gr) == 0 .. gr.nsymbol - 1

\* Rules that rename make name of sp.
IsNameOf(gr, sp, name) ==
    /\ sp \in Symbols(gr) /\ name \in Symbols(gr)
    /\ \A S \in SUBSET Symbols(gr) : sp \in S /\ IsUnitClosed(gr, S) => name \in S

\* The state l is where the state k goes on a name of sp.
Leads(gr, sts, k, sp, l) ==
    \E name \in Symbols(gr) : IsNameOf(gr, sp, name) /\ [sp |-> name, x |-> l] \in sts[k].shifts

\* In the state the whole right-hand side of the rule has been read.
Ends(gr, sts, k, r) ==
    k \in DOMAIN sts /\ r \in Rules(gr) /\ <<r, Len(gr.rules[r].rhs)>> \in sts[k].cfp

\* The start symbol is on no right-hand side.
StartOnce(gr) ==
    \A r \in Rules(gr) : \A i \in DOMAIN gr.rules[r].rhs : gr.rules[r].rhs[i] # Start(gr)

\* An action of the state k that the configurations of the states account for.
IsSound(gr, sts, k, a) ==
    /\ a.type = "SHIFT" => Leads(gr, sts, k, a.sp, a.x)
    /\ a.type = "REDUCE" =>
         /\ a.sp \in Terminals(gr) \cup {Default(gr)} /\ Ends(gr, sts, k, a.x)
         /\ lhsStart(gr, a.x) /\ StartOnce(gr) => a.sp = 0
    /\ a.type = "SHIFTREDUCE" =>
         /\ ~ lhsStart(gr, a.x) /\ gr.rules[a.x].rhs # << >>
         /\ \E l \in DOMAIN sts : Leads(gr, sts, k, a.sp, l) /\ Ends(gr, sts, l, a.x)
    /\ a.type = "ACCEPT" => k = 1 /\ a.sp = Start(gr)
    /\ a.sp \in Nonterminals(gr) => a.type \in {"SHIFT", "SHIFTREDUCE", "ACCEPT"}

\* A nonterminal that may be read in the state: one after a dot, or all of the program.
IsDue(gr, sts, k, symbol) ==
    /\ symbol \in Nonterminals(gr)
    /\ Awaiting(gr, sts[k].cfp, symbol) # {} \/ (k = 1 /\ symbol = Start(gr))

\* Actions of the state k are all accounted for, and there is one on each nonterminal that may
\* be read.
IsSoundState(gr, sts, k, ap) ==
    /\ \A i \in DOMAIN ap : IsSound(gr, sts, k, ap[i])
    /\ \A symbol : IsDue(gr, sts, k, symbol) => \E i \in DOMAIN ap : ap[i].sp = symbol

\* A symbol is a name of itself.
LEMMA NameOfItself ==
    ASSUME NEW gr, NEW sp \in Symbols(gr)
    PROVE  IsNameOf(gr, sp, sp)
  BY DEF IsNameOf

\* A name of a name is a name.
LEMMA NameOfName ==
    ASSUME NEW gr, NEW sp, NEW name, IsNameOf(gr, sp, name), NEW other, IsNameOf(gr, name, other)
    PROVE  IsNameOf(gr, sp, other)
  BY DEF IsNameOf

\* A rule that renames a name gives another one.
LEMMA NameByRule ==
    ASSUME NEW gr, IsGrammar(gr), NEW sp, NEW name, IsNameOf(gr, sp, name),
           NEW r \in Rules(gr), Len(gr.rules[r].rhs) = 1, gr.rules[r].rhs[1] = name
    PROVE  IsNameOf(gr, sp, gr.rules[r].lhs)
<1>1. gr.rules[r].lhs \in Nonterminals(gr)
  BY PartsOfGrammar
<1>2. gr.rules[r].lhs \in Symbols(gr)
  BY <1>1, PartsOfGrammar DEF Nonterminals, Symbols
<1> QED
  BY <1>2 DEF IsNameOf, IsUnitClosed

-----------------------------------------------------------------------------
(***************************************************************************)
(* What follows the start symbol.                                          *)
(***************************************************************************)

\* A state made by NewState hands what follows a configuration on to those it brings in; the
\* rules of the start symbol are not among them, and the end of the input follows those.
KnowsStart(gr, st) ==
    /\ DOMAIN st = {"bp", "cfp", "shifts", "bplp", "fws", "fplp"}
    /\ \A c \in st.cfp : c \in Configs(gr) /\ st.fplp[c] \subseteq Brought(gr, c)
    /\ StartOnce(gr) => \A c \in st.cfp : lhsStart(gr, c[1]) => st.fws[c] \subseteq {0}

\* Nothing brings in the rules of a start symbol that is on no right-hand side.
LEMMA StartNotBrought ==
    ASSUME NEW gr, IsGrammar(gr), StartOnce(gr), NEW c \in Configs(gr), NEW d \in Brought(gr, c)
    PROVE  ~ lhsStart(gr, d[1])
<1>1. Shiftable(gr, c) /\ \E r \in RulesOf(gr, SymbolAfter(gr, c)) : d = <<r, 0>>
  BY DEF Brought
<1>2. gr.rules[d[1]].lhs = SymbolAfter(gr, c)
  BY <1>1 DEF RulesOf
<1>3. c[1] \in Rules(gr) /\ c[2] + 1 \in DOMAIN gr.rules[c[1]].rhs
  BY ConfigParts, <1>1 DEF Shiftable
<1>4. SymbolAfter(gr, c) # Start(gr)
  BY <1>3 DEF StartOnce, SymbolAfter
<1> QED
  BY <1>2, <1>4 DEF lhsStart

\* A new state.
LEMMA NewKnowsStart ==
    ASSUME NEW gr, IsGrammar(gr), NEW fi, NEW basis \in SUBSET Configs(gr),
           NEW fws \in SUBSET {0}, NEW bplp
    PROVE  KnowsStart(gr, NewState(gr, fi, basis, fws, bplp))
<1> DEFINE st == NewState(gr, fi, basis, fws, bplp)
           cfp == Closure(gr, basis)
           By(d) == {c \in cfp : d \in Brought(gr, c)}
           more(d) == UNION {FirstOf(gr, fi.lambda, fi.first, RestAfter(gr, c)) : c \in By(d)}
<1>1. cfp \in SUBSET Configs(gr)
  BY ClosureCloses
<1>2. /\ DOMAIN st = {"bp", "cfp", "shifts", "bplp", "fws", "fplp"} /\ st.cfp = cfp
      /\ \A d \in cfp : st.fws[d] = (IF d \in basis THEN fws ELSE {}) \cup more(d)
      /\ \A c \in cfp : st.fplp[c] \subseteq Brought(gr, c)
  BY DEF NewState
<1> HIDE DEF cfp, st
<1>3. ASSUME StartOnce(gr), NEW d \in cfp, lhsStart(gr, d[1]) PROVE st.fws[d] \subseteq {0}
  <2>1. By(d) = {}
    BY <1>1, <1>3, StartNotBrought
  <2>2. more(d) = {}
    BY <2>1
  <2> HIDE DEF more
  <2> QED
    BY <1>2, <2>2
<1> QED
  BY <1>1, <1>2, <1>3 DEF KnowsStart, st

\* New links and shifts change nothing of it.
LEMMA StillKnowsStart ==
    ASSUME NEW gr, NEW st, KnowsStart(gr, st), NEW v, NEW new,
           new = [st EXCEPT !.bplp = v] \/ new = [st EXCEPT !.shifts = v]
    PROVE  KnowsStart(gr, new)
  BY DEF KnowsStart

\* getstate.
LEMMA GotKnowStart ==
    ASSUME NEW gr, IsGrammar(gr), NEW fi, NEW sts, NEW cs, IsAutomaton(gr, sts, cs),
           \A k \in DOMAIN sts : KnowsStart(gr, sts[k]),
           NEW ds, NEW basis \in SUBSET Configs(gr), NEW fws \in SUBSET {0}, NEW bplp
    PROVE  LET got == getstate(gr, fi, sts, ds, basis, fws, bplp)
           IN  /\ got = [states |-> got.states, calls |-> got.calls]
               /\ \A k \in DOMAIN got.states : KnowsStart(gr, got.states[k])
<1> DEFINE got == getstate(gr, fi, sts, ds, basis, fws, bplp)
           new == NewState(gr, fi, basis, fws, bplp)
           same == {k \in DOMAIN sts : sts[k].bp = basis}
           l == CHOOSE k \in same : TRUE
           Known == /\ got = [states |-> got.states, calls |-> got.calls]
                    /\ \A k \in DOMAIN got.states : KnowsStart(gr, got.states[k])
<1>1. ASSUME same # {} PROVE Known
  <2>1. /\ got = [states |-> got.states, calls |-> got.calls]
        /\ got.states = CopyLinks(sts, l, bplp)
    BY <1>1 DEF getstate
  <2> HIDE DEF got, l
  <2>2. DOMAIN got.states = DOMAIN sts
    BY <2>1 DEF CopyLinks
  <2>3. ASSUME NEW k \in DOMAIN sts PROVE KnowsStart(gr, got.states[k])
    <3>1. KnowsStart(gr, sts[k])
      OBVIOUS
    <3>2. CASE k = l
      <4> DEFINE v == [c \in DOMAIN bplp |-> sts[l].bplp[c] \cup bplp[c]]
      <4>1. got.states[k] = [sts[k] EXCEPT !.bplp = v]
        BY <2>1, <3>2 DEF CopyLinks
      <4> HIDE DEF v
      <4> QED
        BY <3>1, <4>1, StillKnowsStart
    <3>3. CASE k # l
      BY <2>1, <3>1, <3>3 DEF CopyLinks
    <3> QED
      BY <3>2, <3>3
  <2> QED
    BY <2>1, <2>2, <2>3
<1>2. ASSUME same = {} PROVE Known
  <2>1. /\ got = [states |-> got.states, calls |-> got.calls]
        /\ got.states = Append(sts, new)
    BY <1>2 DEF getstate
  <2>2. KnowsStart(gr, new)
    BY NewKnowsStart
  <2> HIDE DEF got, new
  <2>3. sts \in Seq(StateSet(gr))
    BY DEF IsAutomaton
  <2>4. /\ DOMAIN got.states = DOMAIN sts \cup {Len(sts) + 1}
        /\ got.states[Len(sts) + 1] = new
        /\ \A k \in DOMAIN sts : got.states[k] = sts[k]
    BY <2>1, <2>3
  <2> QED
    BY <2>1, <2>2, <2>4
<1> QED
  BY <1>1, <1>2

\* buildshifts.
LEMMA BuiltKnowStart ==
    ASSUME NEW gr, IsGrammar(gr), NEW fi, NEW sts, NEW cs, IsAutomaton(gr, sts, cs),
           \A k \in DOMAIN sts : KnowsStart(gr, sts[k]), cs # << >>
    PROVE  LET T == buildshifts(gr, fi, sts, cs).states
           IN  \A k \in DOMAIN T : KnowsStart(gr, T[k])
<1> DEFINE k == cs[1].place
           todo == cs[1].todo
           sp == SymbolAfter(gr, FirstConfig(todo))
           moved == {c \in todo : SymbolAfter(gr, c) = sp}
           basis == {<<c[1], c[2] + 1>> : c \in moved}
           back == [c \in basis |-> {<<k, <<c[1], c[2] - 1>>>>}]
           ds == [cs EXCEPT ![1].todo = @ \ moved]
           got == getstate(gr, fi, sts, ds, basis, {}, back)
           T == buildshifts(gr, fi, sts, cs).states
<1>1. Head(cs) = cs[1] /\ 1 \in DOMAIN cs /\ cs \in Seq(CallSet(gr))
  BY EmptySeq, HeadTailProperties DEF IsAutomaton
<1>2. basis \in SUBSET Configs(gr)
  <2>1. cs[1] \in CallSet(gr)
    BY <1>1, ElementOfSeq
  <2>2. IsCall(gr, sts, cs[1])
    BY <1>1 DEF IsAutomaton
  <2>3. \A c \in todo : c \in Configs(gr) /\ Shiftable(gr, c)
    BY <2>1, <2>2 DEF CallSet, IsCall
  <2>4. \A c \in todo : <<c[1], c[2] + 1>> \in Configs(gr)
    BY <2>3, SymbolAfterDot
  <2> QED
    BY <2>4
<1>3. /\ got = [states |-> got.states, calls |-> got.calls]
      /\ \A j \in DOMAIN got.states : KnowsStart(gr, got.states[j])
  BY <1>2, GotKnowStart
<1> DEFINE v == got.states[k].shifts \cup {[sp |-> sp, x |-> PlaceOf(got.states, basis)]}
<1>4. T = [got EXCEPT !.states[k].shifts = v].states
  BY <1>1 DEF buildshifts
<1> HIDE DEF got, T, v, k
<1>5. T = [got.states EXCEPT ![k].shifts = v]
  BY <1>3, <1>4
<1>6. DOMAIN T = DOMAIN got.states
  BY <1>5
<1>7. ASSUME NEW j \in DOMAIN got.states PROVE KnowsStart(gr, T[j])
  BY <1>5, <1>3, StillKnowsStart
<1> QED
  BY <1>6, <1>7 DEF T

\* Every state knows it, from the first one on.
StartInv == phase # "start" => \A k \in DOMAIN states : KnowsStart(g, states[k])

\* One step for each action of Lemon.
LEMMA StartInvNext == StatesInv /\ StartInv /\ [Next]_vars => StartInv'
<1> SUFFICES ASSUME StatesInv, StartInv, [Next]_vars PROVE StartInv'
  OBVIOUS
<1>1. IsGrammar(g)
  BY LemonAssumption DEF StatesInv
<1>2. CASE FirstState
  <2> DEFINE basis == {<<r, 0>> : r \in RulesOf(g, Start(g))}
             back == [c \in basis |-> {}]
  <2>1. g' = g /\ states' = getstate(g, ff', << >>, << >>, basis, {0}, back).states
    BY <1>2 DEF FirstState, FindStates
  <2>2. basis \in SUBSET Configs(g)
    BY <1>1, PartsOfGrammar, ConfigIn DEF RulesOf
  <2>3. IsAutomaton(g, << >>, << >>)
    BY NoAutomaton
  <2>4. \A k \in DOMAIN << >> : KnowsStart(g, << >>[k])
    OBVIOUS
  <2> HIDE DEF basis, back
  <2>5. \A k \in DOMAIN states' : KnowsStart(g, states'[k])
    BY <1>1, <2>1, <2>2, <2>3, <2>4, GotKnowStart
  <2> QED
    BY <2>1, <2>5 DEF StartInv
<1>3. CASE BuildShifts
  BY <1>3, <1>1, BuiltKnowStart DEF BuildShifts, StatesInv, StartInv
<1>4. CASE ~ FirstState /\ ~ BuildShifts
  <2>1. g' = g /\ states' = states /\ (phase = "start" => phase' = "start")
    BY <1>4 DEF Next, vars, ShiftsBuilt, StatesFound, Follow, FollowPass, FindActions,
                ResolveConflict, ConflictsResolved, CompressAll, RenameAction, Renamed, PackRow,
                Report
  <2> QED
    BY <2>1 DEF StartInv
<1> QED
  BY <1>2, <1>3, <1>4

\* So nothing but the end of the input follows a rule of the start symbol.
LEMMA EndFollowsStart ==
    ASSUME NEW gr, IsGrammar(gr), StartOnce(gr), NEW sts, NEW cs, IsAutomaton(gr, sts, cs),
           \A k \in DOMAIN sts : KnowsStart(gr, sts[k]), NEW fws, FollowKnown(gr, sts, fws),
           NEW at \in Places(sts), lhsStart(gr, at[2][1]), NEW t \in Terminals(gr), t \in fws[at]
    PROVE  t = 0
<1> SUFFICES ASSUME t # 0 PROVE FALSE
  OBVIOUS
<1> DEFINE C == {a \in Places(sts) : ~ lhsStart(gr, a[2][1])}
           given == Given(sts, t)
<1>1. at \in Heirs(sts, given)
  BY DEF FollowKnown
<1>2. given \in SUBSET Places(sts) /\ given \subseteq C
  BY PlaceParts DEF Given, KnowsStart
<1>3. ASSUME NEW a \in C PROVE FindLinks(sts)[a] \subseteq C
  BY PlaceParts, LinksArePlaces, StartNotBrought DEF FindLinks, KnowsStart
<1>4. C \in SUBSET Places(sts)
  OBVIOUS
<1> HIDE DEF C, given
<1>5. Heirs(sts, given) \subseteq C
  BY <1>2, <1>3, <1>4, HeirsAreClosed
<1> QED
  BY <1>1, <1>5 DEF C

-----------------------------------------------------------------------------
(***************************************************************************)
(* Sound actions, from FindActions to the end.                             *)
(***************************************************************************)

\* A nonterminal is not a terminal, and neither of them is {default}.
LEMMA KindsOfSymbols ==
    ASSUME NEW gr, IsGrammar(gr)
    PROVE  /\ \A t \in Terminals(gr) : t \notin Nonterminals(gr) /\ t \in Symbols(gr)
           /\ \A s \in Nonterminals(gr) : s \in Symbols(gr)
           /\ Default(gr) \notin Symbols(gr)
           /\ Start(gr) \in Nonterminals(gr)
           /\ 0 \in Terminals(gr)
           /\ \A s \in Symbols(gr) : s \in Terminals(gr) \/ s \in Nonterminals(gr)
<1>1. gr.nterminal \in Nat \ {0} /\ gr.nsymbol \in Nat /\ gr.nterminal < gr.nsymbol
  BY PartsOfGrammar
<1>2. 1 \in Rules(gr)
  BY PartsOfGrammar
<1>3. gr.rules[1].lhs \in Nonterminals(gr)
  BY <1>2, PartsOfGrammar
<1> QED
  BY <1>1, <1>3 DEF Terminals, Nonterminals, Symbols, Default, Start

\* No shift reduces at once yet.
NoneAtOnce(ap) == \A i \in DOMAIN ap : ap[i].type # "SHIFTREDUCE"

\* The actions FindActions collects for a state are sound.
LEMMA SoundCollected ==
    ASSUME NEW gr, IsGrammar(gr), NEW sts, IsAutomaton(gr, sts, << >>),
           NoneForgotten(gr, sts, << >>), \A k \in DOMAIN sts : KnowsStart(gr, sts[k]),
           NEW fws, FollowKnown(gr, sts, fws), NEW k \in DOMAIN sts
    PROVE  /\ IsSoundState(gr, sts, k, CollectActions(gr, sts, fws)[k])
           /\ NoneAtOnce(CollectActions(gr, sts, fws)[k])
<1> DEFINE all == AllActions(gr, sts, fws, k)
           ap == CollectActions(gr, sts, fws)[k]
<1>1. /\ Cardinality(all) \in Nat /\ ap \in [1 .. Cardinality(all) -> all]
      /\ \A a \in all : \E i \in 1 .. Cardinality(all) : ap[i] = a
  BY CollectedSorted
<1>2. ASSUME NEW s \in sts[k].shifts, NEW a, a = [sp |-> s.sp, type |-> "SHIFT", x |-> s.x]
      PROVE  IsSound(gr, sts, k, a) /\ a.type # "SHIFTREDUCE"
  <2>1. s \in [sp : Symbols(gr), x : Nat]
    BY PartsOfStates DEF StateSet, Symbols
  <2>2. [sp |-> s.sp, x |-> s.x] = s
    BY <2>1
  <2>3. s.sp \in Symbols(gr) /\ IsNameOf(gr, s.sp, s.sp)
    BY <2>1, NameOfItself
  <2>4. Leads(gr, sts, k, s.sp, s.x)
    BY <2>2, <2>3 DEF Leads
  <2>5. a.type = "SHIFT" /\ a.sp = s.sp /\ a.x = s.x
    BY <1>2
  <2> QED
    BY <2>4, <2>5 DEF IsSound
<1>3. ASSUME NEW c \in sts[k].cfp, Complete(gr, c), NEW t \in Terminals(gr), t \in fws[<<k, c>>],
             NEW a, a = [sp |-> t, type |-> "REDUCE", x |-> c[1]]
      PROVE  IsSound(gr, sts, k, a) /\ a.type # "SHIFTREDUCE"
  <2>1. c = <<c[1], c[2]>> /\ c[1] \in Rules(gr)
    BY PartsOfStates, ConfigParts
  <2>2. Ends(gr, sts, k, c[1])
    BY <1>3, <2>1 DEF Ends, Complete
  <2>3. lhsStart(gr, c[1]) /\ StartOnce(gr) => t = 0
    BY <1>3, EndFollowsStart DEF Places
  <2>4. a.type = "REDUCE" /\ a.sp = t /\ a.x = c[1]
    BY <1>3
  <2>5. t \notin Nonterminals(gr)
    BY KindsOfSymbols
  <2> QED
    BY <2>2, <2>3, <2>4, <2>5 DEF IsSound
<1>4. ASSUME k = 1, NEW a, a = [sp |-> Start(gr), type |-> "ACCEPT", x |-> 0]
      PROVE  IsSound(gr, sts, k, a) /\ a.type # "SHIFTREDUCE"
  BY <1>4 DEF IsSound
<1>5. ASSUME NEW a \in all PROVE IsSound(gr, sts, k, a) /\ a.type # "SHIFTREDUCE"
  BY <1>2, <1>3, <1>4 DEF AllActions
<1>6. ASSUME NEW symbol, IsDue(gr, sts, k, symbol) PROVE \E a \in all : a.sp = symbol
  <2>1. CASE Awaiting(gr, sts[k].cfp, symbol) # {}
    <3>1. PICK c \in sts[k].cfp : Shiftable(gr, c) /\ SymbolAfter(gr, c) = symbol
      BY <2>1 DEF Awaiting
    <3>2. PICK s \in sts[k].shifts : s.sp = symbol
      BY <3>1 DEF NoneForgotten, Due
    <3> DEFINE a == [sp |-> s.sp, type |-> "SHIFT", x |-> s.x]
    <3>3. a \in all
      BY DEF AllActions
    <3>4. a.sp = symbol
      BY <3>2
    <3> QED
      BY <3>3, <3>4
  <2>2. CASE k = 1 /\ symbol = Start(gr)
    <3> DEFINE a == [sp |-> Start(gr), type |-> "ACCEPT", x |-> 0]
    <3>1. a \in all
      BY <2>2 DEF AllActions
    <3>2. a.sp = symbol
      BY <2>2
    <3> QED
      BY <3>1, <3>2
  <2> QED
    BY <1>6, <2>1, <2>2 DEF IsDue
<1> HIDE DEF all, ap
<1>7. \A i \in DOMAIN ap : IsSound(gr, sts, k, ap[i]) /\ ap[i].type # "SHIFTREDUCE"
  BY <1>1, <1>5
<1>8. \A symbol : IsDue(gr, sts, k, symbol) => \E i \in DOMAIN ap : ap[i].sp = symbol
  BY <1>1, <1>6
<1> QED
  BY <1>7, <1>8 DEF IsSoundState, NoneAtOnce, ap

\* An action whose type becomes one that is not put into the tables, or ERROR, is sound but
\* on a nonterminal.
LEMMA SoundSettled ==
    ASSUME NEW gr, IsGrammar(gr), NEW sts, NEW k, NEW a, a = [sp |-> a.sp, type |-> a.type, x |-> a.x],
           a.sp \notin Nonterminals(gr),
           NEW type \in {"SRCONFLICT", "RRCONFLICT", "RD_RESOLVED", "SH_RESOLVED", "ERROR"},
           NEW b, b = [a EXCEPT !.type = type]
    PROVE  IsSound(gr, sts, k, b) /\ b.type # "SHIFTREDUCE"
<1>1. b.sp = a.sp /\ b.type = type
  OBVIOUS
<1> QED
  BY <1>1 DEF IsSound

\* resolve_conflict leaves sound actions on their symbols.
LEMMA SoundPair ==
    ASSUME NEW gr, IsGrammar(gr), NEW sts, NEW k, NEW prec, NEW D,
           NEW x \in Acts(gr, D), NEW y \in Acts(gr, D), x.sp = y.sp,
           IsSound(gr, sts, k, x), IsSound(gr, sts, k, y),
           x.type # "SHIFTREDUCE", y.type # "SHIFTREDUCE"
    PROVE  LET r == resolve_conflict(gr, prec, x, y)
           IN  /\ IsSound(gr, sts, k, r.x) /\ r.x.sp = x.sp /\ r.x.type # "SHIFTREDUCE"
               /\ IsSound(gr, sts, k, r.y) /\ r.y.sp = y.sp /\ r.y.type # "SHIFTREDUCE"
<1> DEFINE r == resolve_conflict(gr, prec, x, y)
           Out == {"SRCONFLICT", "RRCONFLICT", "RD_RESOLVED", "SH_RESOLVED", "ERROR"}
           Became(a, b) == b = a \/ \E type \in Out : b = [a EXCEPT !.type = type]
<1>1. /\ x = [sp |-> x.sp, type |-> x.type, x |-> x.x]
      /\ y = [sp |-> y.sp, type |-> y.type, x |-> y.x]
  BY DEF Acts
<1>2. CASE ~ (x.type = "SHIFT" /\ y.type = "REDUCE") /\ ~ (x.type = "REDUCE" /\ y.type = "REDUCE")
  BY <1>2 DEF resolve_conflict, Resolution
<1>3. CASE \/ x.type = "SHIFT" /\ y.type = "REDUCE"
           \/ x.type = "REDUCE" /\ y.type = "REDUCE"
  <2>1. Became(x, r.x) /\ Became(y, r.y)
    BY <1>3 DEF resolve_conflict, ShiftReduce, Resolution, ReduceReduce
  <2>2. y.sp \notin Nonterminals(gr)
    BY <1>3, KindsOfSymbols DEF IsSound
  <2> HIDE DEF r
  <2>3. IsSound(gr, sts, k, r.x) /\ r.x.sp = x.sp /\ r.x.type # "SHIFTREDUCE"
    BY <1>1, <2>2, SoundSettled, <2>1
  <2>4. IsSound(gr, sts, k, r.y) /\ r.y.sp = y.sp /\ r.y.type # "SHIFTREDUCE"
    BY <1>1, <2>2, SoundSettled, <2>1
  <2> QED
    BY <2>3, <2>4 DEF r
<1> QED
  BY <1>2, <1>3

\* The actions of all states are sound, in a parser before and after CompressTables.
AllSound(gr, sts, aps) ==
    /\ DOMAIN aps = DOMAIN sts
    /\ \A k \in DOMAIN sts : IsSoundState(gr, sts, k, aps[k]) /\ NoneAtOnce(aps[k])
AllSoundStates(gr, sts, cps) ==
    DOMAIN cps = DOMAIN sts /\ \A k \in DOMAIN sts : IsSoundState(gr, sts, k, cps[k].ap)

\* A conflict resolved leaves them sound.
LEMMA SoundResolved ==
    ASSUME NEW gr, IsGrammar(gr), NEW sts, NEW aps, Naming(gr, aps), AllSound(gr, sts, aps),
           NEW c \in Conflicts(aps)
    PROVE  AllSound(gr, sts, Resolve(gr, aps, c).aps)
<1> DEFINE prec == FindRulePrecedences(gr)
           x == aps[c[1]][c[2]]
           y == aps[c[1]][c[3]]
           r == resolve_conflict(gr, prec, x, y)
           T == Resolve(gr, aps, c).aps
           D == DOMAIN aps
<1>1. /\ c[1] \in D /\ c[2] \in DOMAIN aps[c[1]] /\ c[3] \in DOMAIN aps[c[1]]
      /\ x.sp = y.sp
  BY DEF Conflicts
<1>2. x \in Acts(gr, D) /\ y \in Acts(gr, D)
  BY <1>1, ElementOfSeq DEF Naming
<1>3. /\ IsSound(gr, sts, c[1], x) /\ x.type # "SHIFTREDUCE"
      /\ IsSound(gr, sts, c[1], y) /\ y.type # "SHIFTREDUCE"
  BY <1>1 DEF AllSound, IsSoundState, NoneAtOnce
<1>4. /\ IsSound(gr, sts, c[1], r.x) /\ r.x.sp = x.sp /\ r.x.type # "SHIFTREDUCE"
      /\ IsSound(gr, sts, c[1], r.y) /\ r.y.sp = y.sp /\ r.y.type # "SHIFTREDUCE"
  BY <1>1, <1>2, <1>3, SoundPair
<1>5. T = Replaced(aps, c, r.x, r.y)
  BY DEF Resolve, Replaced
<1> HIDE DEF r, T
<1>6. /\ DOMAIN T = D /\ \A k \in D : DOMAIN T[k] = DOMAIN aps[k]
      /\ \A k \in D : \A i \in DOMAIN aps[k] :
           T[k][i] = IF k = c[1] /\ i = c[3] THEN r.y
                     ELSE IF k = c[1] /\ i = c[2] THEN r.x ELSE aps[k][i]
  BY <1>5, ReplacedActions
<1>7. ASSUME NEW k \in D PROVE IsSoundState(gr, sts, k, T[k]) /\ NoneAtOnce(T[k])
  BY <1>6, <1>4 DEF AllSound, IsSoundState, NoneAtOnce
<1> QED
  BY <1>6, <1>7 DEF AllSound, T

\* What is not in the basis of a state has been brought in by one of its configurations.
LEMMA ClosureBrought ==
    ASSUME NEW gr, IsGrammar(gr), NEW basis \in SUBSET Configs(gr), NEW c \in Closure(gr, basis)
    PROVE  c \in basis \/ \E d \in Closure(gr, basis) : c \in Brought(gr, d)
<1> DEFINE U == Configs(gr)
           f == [cfp \in SUBSET U |-> cfp \cup UNION {Brought(gr, d) : d \in cfp}]
           R == Closure(gr, basis)
           C == {a \in R : a \in basis \/ \E d \in R : a \in Brought(gr, d)}
<1>1. IsFiniteSet(U) /\ \A d : Brought(gr, d) \subseteq U
  BY ConfigsFinite, BroughtAreConfigs
<1>2. R \in SUBSET U /\ basis \subseteq R /\ \A d \in R : Brought(gr, d) \subseteq R
  BY ClosureCloses
<1>3. R = Grown(f, basis, Cardinality(U))
  BY DEF Closure
<1> HIDE DEF R, U
<1>4. IsGrowth(f, U)
  BY <1>1 DEF IsGrowth
<1>5. C \in SUBSET U /\ basis \subseteq C /\ basis \in SUBSET U
  BY <1>2 DEF U
<1>6. \A d \in C : Brought(gr, d) \subseteq C
  BY <1>2
<1> HIDE DEF C
<1>7. \A Y \in SUBSET C : f[Y] \subseteq C
  BY <1>5, <1>6
<1> HIDE DEF f
<1>8. Grown(f, basis, Cardinality(U)) \subseteq C
  BY <1>1, <1>4, <1>5, <1>7, Growth
<1> QED
  BY <1>3, <1>8 DEF C, R

\* The basis of a state that is shifted to has been moved.
LEMMA DotsMoved ==
    ASSUME NEW gr, IsGrammar(gr), NEW sts, NEW cs, IsAutomaton(gr, sts, cs), NEW k \in DOMAIN sts,
           NEW s \in sts[k].shifts, NEW d \in sts[s.x].bp
    PROVE  d[2] # 0
<1>1. sts[s.x].bp = Goto(gr, sts[k].cfp, s.sp) /\ sts[k].cfp \subseteq Configs(gr)
  BY PartsOfStates DEF IsAutomaton, Goes
<1>2. PICK a \in sts[k].cfp : d = <<a[1], a[2] + 1>>
  BY <1>1 DEF Goto, Awaiting, Moved
<1>3. a[2] \in Nat
  BY <1>1, ConfigParts
<1> QED
  BY <1>2, <1>3

\* A state in which an empty rule ends shifts its left-hand side: it does not reduce by itself.
LEMMA EmptyNotAtOnce ==
    ASSUME NEW gr, IsGrammar(gr), NEW sts, NEW cs, IsAutomaton(gr, sts, cs), NEW k \in DOMAIN sts,
           NEW s \in sts[k].shifts, NEW ap, IsSoundState(gr, sts, s.x, ap), NoneAtOnce(ap),
           \A j \in DOMAIN ap : ap[j].type # "SHIFT",
           NEW r, Ends(gr, sts, s.x, r), ~ lhsStart(gr, r)
    PROVE  gr.rules[r].rhs # << >>
<1> SUFFICES ASSUME gr.rules[r].rhs = << >> PROVE FALSE
  OBVIOUS
<1> DEFINE l == s.x
           c == <<r, 0>>
           lhs == gr.rules[r].lhs
<1>1. c \in sts[l].cfp /\ r \in Rules(gr) /\ l \in DOMAIN sts /\ c[1] = r /\ c[2] = 0
  BY DEF Ends
<1>2. sts[l].cfp = Closure(gr, sts[l].bp) /\ sts[l].bp \in SUBSET Configs(gr)
  BY <1>1, PartsOfStates DEF IsAutomaton, IsState
<1>3. c \notin sts[l].bp
  BY <1>1, DotsMoved
<1>4. PICK d \in sts[l].cfp : c \in Brought(gr, d)
  BY <1>1, <1>2, <1>3, ClosureBrought
<1>5. Shiftable(gr, d) /\ SymbolAfter(gr, d) = lhs
  BY <1>1, <1>4 DEF Brought, RulesOf
<1>6. lhs \in Nonterminals(gr)
  BY <1>1, PartsOfGrammar
<1>7. IsDue(gr, sts, l, lhs)
  BY <1>4, <1>5, <1>6 DEF IsDue, Awaiting
<1>8. PICK j \in DOMAIN ap : ap[j].sp = lhs
  BY <1>7 DEF IsSoundState
<1>9. ap[j].type = "ACCEPT"
  BY <1>6, <1>8 DEF IsSoundState, IsSound, NoneAtOnce
<1> QED
  BY <1>8, <1>9 DEF IsSoundState, IsSound, lhsStart

\* CompressTables leaves them sound.
LEMMA SoundCompressed ==
    ASSUME NEW gr, IsGrammar(gr), NEW sts, NEW cs, IsAutomaton(gr, sts, cs),
           NEW aps, Naming(gr, aps), AllSound(gr, sts, aps)
    PROVE  AllSoundStates(gr, sts, CompressTables(gr, aps))
<1> DEFINE D == DOMAIN aps
           comp == [k \in D |-> Compress(gr, aps[k])]
           T == CompressTables(gr, aps)
<1>1. DOMAIN T = D /\ \A k \in D : T[k].ap = ShiftReduces(gr, comp, comp[k].ap)
  BY DEF CompressTables
<1>2. ASSUME NEW k \in D
      PROVE  /\ aps[k] \in Seq(Acts(gr, D)) /\ IsSoundState(gr, sts, k, aps[k])
             /\ comp[k] = Compress(gr, aps[k])
  BY ElementOfSeq DEF Naming, AllSound
<1>3. ASSUME NEW k \in D, NEW j \in DefaultCandidates(gr, aps[k])
      PROVE  /\ aps[k][j].x \in Rules(gr) /\ ~ lhsStart(gr, aps[k][j].x)
             /\ Ends(gr, sts, k, aps[k][j].x)
  BY <1>2 DEF DefaultCandidates, Reductions, IsSoundState, IsSound, Ends
<1>4. ASSUME NEW k \in D, NEW i \in DOMAIN comp[k].ap
      PROVE  IsSound(gr, sts, k, comp[k].ap[i])
  <2>1. \/ \E j \in DOMAIN aps[k] : comp[k].ap[i] = aps[k][j]
        \/ \E j \in DefaultCandidates(gr, aps[k]) :
             comp[k].ap[i] = [sp |-> Default(gr), type |-> "REDUCE", x |-> aps[k][j].x]
    BY <1>2, ActsKept
  <2>2. ASSUME NEW j \in DOMAIN aps[k], comp[k].ap[i] = aps[k][j]
        PROVE  IsSound(gr, sts, k, comp[k].ap[i])
    BY <1>2, <2>2 DEF IsSoundState
  <2>3. ASSUME NEW j \in DefaultCandidates(gr, aps[k]), NEW a,
               a = [sp |-> Default(gr), type |-> "REDUCE", x |-> aps[k][j].x]
        PROVE  IsSound(gr, sts, k, a)
    BY <2>3, KindsOfSymbols, <1>3 DEF IsSound
  <2> QED
    BY <2>1, <2>2, <2>3
<1>5. ASSUME NEW k \in D, comp[k].autoReduce
      PROVE  /\ ~ lhsStart(gr, comp[k].dflt) /\ Ends(gr, sts, k, comp[k].dflt)
             /\ \A j \in DOMAIN aps[k] : aps[k][j].type # "SHIFT"
  BY <1>2, <1>5, ActsKept, <1>3
<1>6. ASSUME NEW k \in D, NEW j \in DOMAIN aps[k], aps[k][j].type # "REDUCE"
      PROVE  \E i \in DOMAIN comp[k].ap : comp[k].ap[i] = aps[k][j]
  BY <1>2, <1>6, ActsKept
<1> HIDE DEF comp, T
<1>7. ASSUME NEW k \in D, NEW i \in DOMAIN comp[k].ap
      PROVE  IsSound(gr, sts, k, T[k].ap[i]) /\ T[k].ap[i].sp = comp[k].ap[i].sp
  <2> DEFINE a == comp[k].ap[i]
  <2>1. IsSound(gr, sts, k, a)
    BY <1>4
  <2>2. CASE a.type = "SHIFT" /\ comp[a.x].autoReduce
    <3>1. T[k].ap[i] = [a EXCEPT !.type = "SHIFTREDUCE", !.x = comp[a.x].dflt]
      BY <1>1, <2>2 DEF ShiftReduces
    <3>2. Leads(gr, sts, k, a.sp, a.x) /\ a.x \in D
      <4>1. comp[k].ap \in Seq(Acts(gr, D))
        BY <1>2, DefaultFound
      <4>2. a \in Acts(gr, D)
        BY <4>1, ElementOfSeq
      <4> QED
        BY <2>1, <2>2, <4>2 DEF IsSound, Acts
    <3>3. /\ ~ lhsStart(gr, comp[a.x].dflt)
          /\ Ends(gr, sts, a.x, comp[a.x].dflt)
          /\ \A j \in DOMAIN aps[a.x] : aps[a.x][j].type # "SHIFT"
      BY <1>5, <2>2, <3>2
    <3>4. a = [sp |-> a.sp, type |-> a.type, x |-> a.x]
      <4>1. comp[k].ap \in Seq(Acts(gr, D))
        BY <1>2, DefaultFound
      <4>2. a \in Acts(gr, D)
        BY <4>1, ElementOfSeq
      <4> HIDE DEF a
      <4> QED
        BY <4>2 DEF Acts
    <3>5. a.x \in DOMAIN sts
      BY <3>2 DEF AllSound
    <3> DEFINE b == T[k].ap[i]
               l == a.x
               rule == comp[a.x].dflt
    <3>6. b.type = "SHIFTREDUCE" /\ b.sp = a.sp /\ b.x = rule
      BY <3>1, <3>4 DEF rule
    <3>7. /\ l \in DOMAIN sts /\ Leads(gr, sts, k, b.sp, l) /\ Ends(gr, sts, l, b.x)
          /\ ~ lhsStart(gr, b.x) /\ \A j \in DOMAIN aps[l] : aps[l][j].type # "SHIFT"
      BY <3>2, <3>3, <3>5, <3>6
    <3> HIDE DEF b, l, rule, a
    <3>8. gr.rules[b.x].rhs # << >>
      <4>1. PICK s \in sts[k].shifts : s.x = l
        BY <3>7 DEF Leads
      <4>2. IsSoundState(gr, sts, l, aps[l]) /\ NoneAtOnce(aps[l]) /\ k \in DOMAIN sts
        BY <3>7 DEF AllSound
      <4> QED
        BY <3>7, <4>1, <4>2, EmptyNotAtOnce
    <3>9. IsSound(gr, sts, k, b)
      BY <3>6, <3>7, <3>8 DEF IsSound
    <3> QED
      BY <3>6, <3>9 DEF a, b
  <2>3. CASE ~ (a.type = "SHIFT" /\ comp[a.x].autoReduce)
    <3>1. T[k].ap[i] = a
      <4>1. ShiftReduces(gr, comp, comp[k].ap)[i] = a
        BY <2>3 DEF ShiftReduces
      <4> QED
        BY <1>1, <4>1
    <3> QED
      BY <2>1, <3>1
  <2> QED
    BY <2>2, <2>3
<1>8. ASSUME NEW k \in D PROVE DOMAIN T[k].ap = DOMAIN comp[k].ap
  BY <1>1 DEF ShiftReduces
<1>9. ASSUME NEW k \in D, NEW symbol, IsDue(gr, sts, k, symbol)
      PROVE  \E i \in DOMAIN T[k].ap : T[k].ap[i].sp = symbol
  <2>1. symbol \in Nonterminals(gr)
    BY <1>9 DEF IsDue
  <2>2. PICK j \in DOMAIN aps[k] : aps[k][j].sp = symbol
    BY <1>2, <1>9 DEF IsSoundState
  <2>3. aps[k][j].type # "REDUCE"
    BY <1>2, <2>1, <2>2 DEF IsSoundState, IsSound
  <2>4. PICK i \in DOMAIN comp[k].ap : comp[k].ap[i] = aps[k][j]
    BY <1>6, <2>3
  <2> QED
    BY <1>7, <1>8, <2>2, <2>4
<1>10. ASSUME NEW k \in D PROVE IsSoundState(gr, sts, k, T[k].ap)
  BY <1>7, <1>8, <1>9 DEF IsSoundState
<1> QED
  BY <1>1, <1>10 DEF AllSound, AllSoundStates, T

\* What a closure brings in has its dot in front.
LEMMA ClosureDots ==
    ASSUME NEW gr, IsGrammar(gr), NEW basis \in SUBSET Configs(gr), NEW c \in Closure(gr, basis)
    PROVE  c \in basis \/ (c[2] = 0 /\ c[1] \in Rules(gr))
<1> DEFINE U == Configs(gr)
           f == [cfp \in SUBSET U |-> cfp \cup UNION {Brought(gr, d) : d \in cfp}]
           C == basis \cup {d \in U : d[2] = 0 /\ d[1] \in Rules(gr)}
<1>1. IsFiniteSet(U)
  BY ConfigsFinite
<1>2. \A d : Brought(gr, d) \subseteq U
  BY BroughtAreConfigs
<1>3. \A d : Brought(gr, d) \subseteq C
  BY <1>2 DEF Brought, RulesOf
<1>4. C \in SUBSET U
  OBVIOUS
<1> HIDE DEF C, U
<1>5. IsGrowth(f, U)
  BY <1>2 DEF IsGrowth
<1>6. \A Y \in SUBSET C : f[Y] \subseteq C
  BY <1>3, <1>4
<1>7. basis \subseteq C /\ basis \in SUBSET U
  BY DEF C, U
<1>8. Closure(gr, basis) = Grown(f, basis, Cardinality(U))
  BY DEF Closure, U
<1> HIDE DEF f
<1>9. Grown(f, basis, Cardinality(U)) \subseteq C
  BY <1>1, <1>4, <1>5, <1>6, <1>7, Growth
<1> QED
  BY <1>8, <1>9 DEF C

\* A configuration of a state that has read a symbol is one of the state before, where the
\* symbol is what comes next.
LEMMA DotRead ==
    ASSUME NEW gr, IsGrammar(gr), NEW sts, NEW cs, IsAutomaton(gr, sts, cs), NEW k \in DOMAIN sts,
           NEW s \in sts[k].shifts, NEW c \in sts[s.x].cfp, c[2] # 0
    PROVE  /\ <<c[1], c[2] - 1>> \in sts[k].cfp /\ c[1] \in Rules(gr) /\ c[2] - 1 \in Nat
           /\ gr.rules[c[1]].rhs[c[2]] = s.sp /\ c[2] <= Len(gr.rules[c[1]].rhs)
<1>1. s.x \in DOMAIN sts /\ sts[s.x].bp = Goto(gr, sts[k].cfp, s.sp)
  BY DEF IsAutomaton, Goes
<1>2. /\ sts[s.x].bp \in SUBSET Configs(gr) /\ sts[s.x].cfp = Closure(gr, sts[s.x].bp)
      /\ sts[k].cfp \subseteq Configs(gr)
  BY <1>1, PartsOfStates DEF IsAutomaton, IsState
<1>3. c \in sts[s.x].bp
  BY <1>2, ClosureDots
<1>4. PICK d \in Awaiting(gr, sts[k].cfp, s.sp) : c = Moved(d)
  BY <1>1, <1>3 DEF Goto
<1>5. /\ d \in sts[k].cfp /\ Shiftable(gr, d) /\ SymbolAfter(gr, d) = s.sp
      /\ c = <<d[1], d[2] + 1>>
  BY <1>4 DEF Awaiting, Moved
<1>6. /\ d = <<d[1], d[2]>> /\ d[1] \in Rules(gr) /\ d[2] \in Nat
      /\ Len(gr.rules[d[1]].rhs) \in Nat
  BY <1>2, <1>5, ConfigParts
<1>7. c[1] = d[1] /\ c[2] = d[2] + 1 /\ c[2] - 1 = d[2]
  BY <1>5, <1>6
<1> QED
  BY <1>5, <1>6, <1>7 DEF Shiftable, SymbolAfter

\* RenameAction leaves the actions sound.
LEMMA SoundRenamed ==
    ASSUME NEW gr, IsGrammar(gr), NEW sts, NEW cs, IsAutomaton(gr, sts, cs), NEW k \in DOMAIN sts,
           NEW D, NEW ap \in Seq(Acts(gr, D)), IsSoundState(gr, sts, k, ap),
           NEW i \in DOMAIN ap, Renames(gr, ap[i])
    PROVE  IsSoundState(gr, sts, k, Rename(gr, ap, i).ap)
<1> DEFINE P == DOMAIN ap
           next(j) == IF Renames(gr, ap[j]) THEN NamedBy(gr, ap, i, ap[j]) ELSE {}
           f == [js \in SUBSET P |-> js \cup UNION {next(j) : j \in js}]
           copied == Grown(f, {i}, Len(ap))
           ends == {j \in copied : ~ Renames(gr, ap[j])}
           end == CHOOSE j \in ends : TRUE
           T == Rename(gr, ap, i).ap
           new == [ap EXCEPT ![i].type = ap[end].type, ![i].x = ap[end].x]
           sp == ap[i].sp
           C == {j \in P : /\ ap[j].sp \in Nonterminals(gr) /\ IsNameOf(gr, sp, ap[j].sp)
                           /\ j = i \/ ap[j].sp # Start(gr)}
<1>1. Len(ap) \in Nat /\ P = 1 .. Len(ap) /\ \A j \in P : ap[j] \in Acts(gr, D)
  BY PartsOfSeq
<1>2. T = IF ends # {} THEN new ELSE ap
  BY DEF Rename
<1>3. \A j \in P : IsSound(gr, sts, k, ap[j])
  BY DEF IsSoundState
<1>4. i \in C
  BY KindsOfSymbols, NameOfItself DEF Renames
<1>5. ASSUME NEW j \in C, NEW l \in next(j) PROVE l \in C
  <2>1. Renames(gr, ap[j]) /\ l \in NamedBy(gr, ap, i, ap[j])
    BY <1>5
  <2> DEFINE r == ap[j].x
  <2>2. l \in P /\ ap[l].sp = gr.rules[r].lhs
    BY <2>1 DEF NamedBy
  <2>3. ap[j].type = "SHIFTREDUCE" /\ Len(gr.rules[r].rhs) = 1
    BY <2>1 DEF Renames
  <2>4. /\ ~ lhsStart(gr, r)
        /\ \E m \in DOMAIN sts : Leads(gr, sts, k, ap[j].sp, m) /\ Ends(gr, sts, m, r)
    BY <1>3, <2>3 DEF IsSound
  <2>5. PICK m \in DOMAIN sts : Leads(gr, sts, k, ap[j].sp, m) /\ Ends(gr, sts, m, r)
    BY <2>4
  <2> HIDE DEF r
  <2>6. PICK name \in Symbols(gr) :
          IsNameOf(gr, ap[j].sp, name) /\ [sp |-> name, x |-> m] \in sts[k].shifts
    BY <2>5 DEF Leads
  <2>7. r \in Rules(gr) /\ <<r, 1>> \in sts[m].cfp
    BY <2>3, <2>5 DEF Ends
  <2>8. gr.rules[r].rhs[1] = name
    <3> DEFINE s == [sp |-> name, x |-> m]
               c == <<r, 1>>
    <3>1. s \in sts[k].shifts /\ c \in sts[s.x].cfp /\ c[2] # 0
      BY <2>6, <2>7
    <3>2. s.sp = name /\ c[1] = r /\ c[2] = 1
      OBVIOUS
    <3> HIDE DEF s, c
    <3>3. /\ <<c[1], c[2] - 1>> \in sts[k].cfp /\ c[1] \in Rules(gr) /\ c[2] - 1 \in Nat
          /\ gr.rules[c[1]].rhs[c[2]] = s.sp /\ c[2] <= Len(gr.rules[c[1]].rhs)
      BY <3>1, DotRead
    <3> QED
      BY <3>2, <3>3
  <2>9. IsNameOf(gr, sp, ap[j].sp)
    BY <1>5
  <2> HIDE DEF sp
  <2>10. IsNameOf(gr, sp, name)
    BY <2>6, <2>9, NameOfName
  <2>11. IsNameOf(gr, sp, gr.rules[r].lhs)
    BY <2>3, <2>7, <2>8, <2>10, NameByRule
  <2>12. gr.rules[r].lhs \in Nonterminals(gr) /\ gr.rules[r].lhs # Start(gr)
    BY <2>4, <2>7, PartsOfGrammar DEF lhsStart
  <2> QED
    BY <2>2, <2>11, <2>12
<1>6. copied \subseteq C
  <2> HIDE DEF C
  <2>1. IsFiniteSet(P) /\ Cardinality(P) = Len(ap)
    <3> DEFINE n == Len(ap)
    <3>1. P = 1 .. n /\ n \in Nat
      BY <1>1
    <3> HIDE DEF n
    <3>2. /\ IsFiniteSet(1 .. n)
          /\ Cardinality(1 .. n) = IF 1 > n THEN 0 ELSE n - 1 + 1
      BY <3>1, FS_Interval
    <3>3. Cardinality(1 .. n) = n
      BY <3>1, <3>2
    <3> QED
      BY <3>1, <3>2, <3>3 DEF n
  <2>2. IsGrowth(f, P)
    BY DEF NamedBy, IsGrowth
  <2>3. C \in SUBSET P /\ {i} \subseteq C /\ {i} \in SUBSET P
    BY <1>4 DEF C
  <2> HIDE DEF C, next, P
  <2>4. \A Y \in SUBSET C : f[Y] \subseteq C
    BY <1>5, <2>3
  <2> HIDE DEF f
  <2>5. Grown(f, {i}, Cardinality(P)) \subseteq C
    BY <2>1, <2>2, <2>3, <2>4, Growth
  <2> QED
    BY <2>1, <2>5
<1> HIDE DEF T, copied
<1>7. CASE ends = {}
  BY <1>2, <1>7 DEF T
<1>8. CASE ends # {}
  <2>1. end \in ends
    BY <1>8
  <2> HIDE DEF end
  <2>2. end \in C /\ ~ Renames(gr, ap[end]) /\ end # i
    BY <1>6, <2>1
  <2> DEFINE e == ap[end]
             b == [ap[i] EXCEPT !.type = e.type, !.x = e.x]
  <2>3. end \in P /\ e.sp \in Nonterminals(gr) /\ IsNameOf(gr, sp, e.sp) /\ e.sp # Start(gr)
    BY <2>2
  <2>4. IsSound(gr, sts, k, e)
    BY <1>3, <2>3
  <2>5. b.sp = sp /\ b.type = e.type /\ b.x = e.x
    BY <1>1 DEF Acts
  <2>6. T = [ap EXCEPT ![i] = b]
    BY <1>2, <1>8
  <2> HIDE DEF e, b, sp, ends
  <2>7. \A l : Leads(gr, sts, k, e.sp, l) => Leads(gr, sts, k, sp, l)
    BY <2>3, NameOfName DEF Leads
  <2>8. e.type \in {"SHIFT", "SHIFTREDUCE", "ACCEPT"} /\ e.type # "ACCEPT"
    BY <2>3, <2>4 DEF IsSound
  <2>9. IsSound(gr, sts, k, b)
    BY <2>4, <2>5, <2>7, <2>8 DEF IsSound
  <2>10. DOMAIN T = P /\ \A j \in P : T[j] = IF j = i THEN b ELSE ap[j]
    BY <2>6
  <2>11. \A j \in P : T[j].sp = ap[j].sp
    BY <2>5, <2>10 DEF sp
  <2>12. \A j \in DOMAIN T : IsSound(gr, sts, k, T[j])
    BY <1>3, <2>9, <2>10
  <2> HIDE DEF P
  <2>13. \A symbol : IsDue(gr, sts, k, symbol) => \E j \in DOMAIN T : T[j].sp = symbol
    BY <2>10, <2>11 DEF IsSoundState, P
  <2> QED
    BY <2>12, <2>13 DEF IsSoundState, T
<1> QED
  BY <1>7, <1>8

\* Conflicts are resolved one by one, each of them a conflict.
LEMMA FirstConflictIn ==
    ASSUME NEW gr, NEW aps, Naming(gr, aps), NEW C \in SUBSET Conflicts(aps), C # {}
    PROVE  FirstConflict(C) \in C
<1>1. ASSUME NEW c \in C
      PROVE  c[1] \in Nat /\ c[2] \in Nat /\ c[3] \in Nat /\ c = <<c[1], c[2], c[3]>>
  <2>1. /\ c = <<c[1], c[2], c[3]>> /\ c[1] \in DOMAIN aps
        /\ c[2] \in DOMAIN aps[c[1]] /\ c[3] \in DOMAIN aps[c[1]]
    BY DEF Conflicts
  <2>2. DOMAIN aps = 1 .. Len(aps) /\ Len(aps) \in Nat /\ aps[c[1]] \in Seq(Acts(gr, DOMAIN aps))
    BY <2>1, PartsOfSeq DEF Naming
  <2>3. DOMAIN aps[c[1]] = 1 .. Len(aps[c[1]]) /\ Len(aps[c[1]]) \in Nat
    BY <2>2, PartsOfSeq
  <2> QED
    BY <2>1, <2>2, <2>3
<1> DEFINE firsts == {c[1] : c \in C}
<1>2. PICK k \in firsts : \A l \in firsts : k <= l
  <2>1. firsts \in SUBSET Nat /\ firsts # {}
    BY <1>1
  <2> HIDE DEF firsts
  <2> QED
    BY <2>1, LeastOfNat
<1> DEFINE here == {c \in C : c[1] = k}
           pairs == {<<c[2], c[3]>> : c \in here}
<1>3. PICK p \in pairs : \A q \in pairs : q = p \/ Configcmp(p, q)
  <2>1. pairs # {}
    BY <1>2
  <2>2. ASSUME NEW q \in pairs PROVE q[1] \in Nat /\ q[2] \in Nat /\ q = <<q[1], q[2]>>
    BY <1>1
  <2> HIDE DEF pairs
  <2> QED
    BY <2>1, <2>2, LeastConfig
<1>4. PICK c \in here : p = <<c[2], c[3]>>
  OBVIOUS
<1> DEFINE Ahead(e, d) == \/ e = d \/ e[1] < d[1]
                          \/ e[1] = d[1] /\ Configcmp(<<e[2], e[3]>>, <<d[2], d[3]>>)
<1>5. ASSUME NEW d \in C PROVE Ahead(c, d)
  BY <1>2, <1>4, <1>3, <1>1
<1>6. c \in C
  BY <1>4
<1>7. FirstConflict(C) = CHOOSE e \in C : \A d \in C : Ahead(e, d)
  BY DEF FirstConflict
<1> HIDE DEF here, pairs, firsts, Ahead
<1> QED
  BY <1>5, <1>6, <1>7

\* Actions are renamed one by one.
LEMMA FirstRenamingIn ==
    ASSUME NEW gr, NEW cps, NamingStates(gr, cps), Renaming(gr, cps) # {}
    PROVE  LET at == FirstRenaming(Renaming(gr, cps))
           IN  /\ at[1] \in DOMAIN cps /\ at[2] \in DOMAIN cps[at[1]].ap
               /\ Renames(gr, cps[at[1]].ap[at[2]])
<1> DEFINE R == Renaming(gr, cps)
<1>1. ASSUME NEW p \in R
      PROVE  /\ p = <<p[1], p[2]>> /\ p[1] \in DOMAIN cps /\ p[2] \in DOMAIN cps[p[1]].ap
             /\ Renames(gr, cps[p[1]].ap[p[2]])
  BY DEF Renaming
<1>2. ASSUME NEW p \in R PROVE p[1] \in Nat /\ p[2] \in Nat /\ p = <<p[1], p[2]>>
  <2>1. DOMAIN cps = 1 .. Len(cps) /\ Len(cps) \in Nat /\ cps[p[1]] \in StateActs(gr, DOMAIN cps)
    BY <1>1, PartsOfSeq DEF NamingStates
  <2>2. cps[p[1]].ap \in Seq(Acts(gr, DOMAIN cps))
    BY <2>1 DEF StateActs
  <2>3. DOMAIN cps[p[1]].ap = 1 .. Len(cps[p[1]].ap) /\ Len(cps[p[1]].ap) \in Nat
    BY <2>2, PartsOfSeq
  <2> QED
    BY <1>1, <2>1, <2>3
<1> HIDE DEF R
<1>3. \E p \in R : \A q \in R : q = p \/ Configcmp(p, q)
  BY <1>2, LeastConfig DEF R
<1>4. FirstRenaming(R) \in R
  BY <1>3 DEF FirstRenaming
<1> QED
  BY <1>1, <1>4 DEF R

\* In each phase the actions found so far are sound.
SoundInv ==
    /\ phase \in {"conflicts", "compress"} =>
         AllSound(g, states, parser) /\ conflicts \subseteq Conflicts(parser)
    /\ phase \in {"renames", "pack", "done"} => AllSoundStates(g, states, parser)

\* One step for each action of Lemon.
LEMMA SoundInvNext ==
    StatesInv /\ StartInv /\ WrittenInv /\ SoundInv /\ [Next]_vars => SoundInv'
<1> SUFFICES ASSUME StatesInv, StartInv, WrittenInv, SoundInv, [Next]_vars PROVE SoundInv'
  OBVIOUS
<1>1. IsGrammar(g)
  BY LemonAssumption DEF StatesInv
<1>2. CASE UNCHANGED vars
  BY <1>2 DEF SoundInv, vars, AllSound, AllSoundStates
<1>3. CASE FindActions
  BY <1>3, <1>1, SoundCollected DEF FindActions, StatesInv, StartInv, CollectActions, SoundInv,
     AllSound
<1>4. CASE ResolveConflict
  <2> DEFINE c == FirstConflict(conflicts)
  <2>1. /\ phase = "conflicts" /\ phase' \in {phase, "aborted"} /\ g' = g /\ states' = states
        /\ conflicts # {} /\ conflicts' = conflicts \ {c}
        /\ parser' = Resolve(g, parser, c).aps
    BY <1>4 DEF ResolveConflict
  <2>2. /\ Naming(g, parser) /\ AllSound(g, states, parser) /\ conflicts \subseteq Conflicts(parser)
    BY <2>1 DEF WrittenInv, SoundInv
  <2>3. c \in Conflicts(parser)
    BY <2>1, <2>2, FirstConflictIn
  <2> HIDE DEF c
  <2>4. AllSound(g, states, parser')
    BY <1>1, <2>1, <2>2, <2>3, SoundResolved
  <2>5. Advanced(parser, parser')
    BY <2>1, ResolveAdvances
  <2>6. Conflicts(parser) \subseteq Conflicts(parser')
    BY <2>5 DEF Conflicts, Advanced, Becomes
  <2>7. AllSound(g', states', parser') /\ conflicts' \subseteq Conflicts(parser')
    BY <2>1, <2>2, <2>4, <2>6
  <2>8. phase' \notin {"renames", "pack", "done"}
    BY <2>1
  <2> QED
    BY <2>7, <2>8 DEF SoundInv
<1>5. CASE ConflictsResolved
  BY <1>5 DEF ConflictsResolved, SoundInv
<1>6. CASE CompressAll
  BY <1>6, <1>1, SoundCompressed DEF CompressAll, WrittenInv, SoundInv, StatesInv
<1>7. CASE RenameAction
  <2> DEFINE at == FirstRenaming(Renaming(g, parser))
             k == at[1]
             L == Rename(g, parser[k].ap, at[2]).ap
  <2>1. /\ phase = "renames" /\ g' = g /\ states' = states /\ Renaming(g, parser) # {}
        /\ parser' = [parser EXCEPT ![k].ap = L]
    BY <1>7 DEF RenameAction
  <2>2. NamingStates(g, parser) /\ AllSoundStates(g, states, parser) /\ IsAutomaton(g, states, calls)
    BY <2>1 DEF WrittenInv, SoundInv, StatesInv
  <2>3. /\ k \in DOMAIN parser /\ at[2] \in DOMAIN parser[k].ap
        /\ Renames(g, parser[k].ap[at[2]])
    BY <2>1, <2>2, FirstRenamingIn
  <2>4. IsSoundState(g, states, k, parser[k].ap) /\ k \in DOMAIN states
    BY <2>2, <2>3 DEF AllSoundStates
  <2>5. parser[k] \in StateActs(g, DOMAIN parser)
    BY <2>2, <2>3, ElementOfSeq DEF NamingStates
  <2>6. parser[k].ap \in Seq(Acts(g, DOMAIN parser)) /\ "ap" \in DOMAIN parser[k]
    BY <2>5 DEF StateActs
  <2> HIDE DEF at
  <2>7. IsSoundState(g, states, k, L)
    BY <1>1, <2>2, <2>3, <2>4, <2>6, SoundRenamed
  <2> HIDE DEF k, L
  <2>8. DOMAIN parser' = DOMAIN parser
    BY <2>1
  <2>9. ASSUME NEW j \in DOMAIN states PROVE IsSoundState(g, states, j, parser'[j].ap)
    BY <2>2, <2>1, <2>6, <2>7 DEF AllSoundStates
  <2>10. phase' \notin {"conflicts", "compress"}
    <3>1. phase' = IF Rename(g, parser[k].ap, at[2]).outcome = "ok" THEN phase
                   ELSE Rename(g, parser[k].ap, at[2]).outcome
      BY <1>7 DEF RenameAction, k, at
    <3>2. Rename(g, parser[k].ap, at[2]).outcome \in {"ok", "aborted", "hangs"}
      BY DEF Rename
    <3> QED
      BY <2>1, <3>1, <3>2
  <2> QED
    BY <2>1, <2>2, <2>8, <2>9, <2>10 DEF SoundInv, AllSoundStates
<1>8. CASE Renamed \/ PackRow \/ Report
  BY <1>8 DEF Renamed, PackRow, Report, SoundInv
<1>9. CASE FirstState \/ BuildShifts \/ ShiftsBuilt \/ StatesFound \/ Follow \/ FollowPass
  BY <1>9 DEF FirstState, BuildShifts, ShiftsBuilt, StatesFound, Follow, FollowPass, SoundInv
<1> QED
  BY <1>2, <1>3, <1>4, <1>5, <1>6, <1>7, <1>8, <1>9 DEF Next

-----------------------------------------------------------------------------
(***************************************************************************)
(* Sequences whose elements have no type.                                  *)
(***************************************************************************)

IsSeq(s) == Len(s) \in Nat /\ DOMAIN s = 1 .. Len(s) /\ s \in Seq({s[i] : i \in DOMAIN s})

\* A sequence of anything.
LEMMA SeqIsSeq ==
    ASSUME NEW S, NEW s \in Seq(S)
    PROVE  IsSeq(s)
<1> DEFINE R == {s[i] : i \in DOMAIN s}
<1>1. Len(s) \in Nat /\ DOMAIN s = 1 .. Len(s) /\ s \in [1 .. Len(s) -> S]
  BY PartsOfSeq
<1>2. s \in [1 .. Len(s) -> R]
  BY <1>1
<1> HIDE DEF R
<1>3. s \in Seq(R)
  BY <1>1, <1>2, SeqOfFunction
<1> QED
  BY <1>1, <1>3 DEF IsSeq, R

\* Append.
LEMMA Pushed ==
    ASSUME NEW s, IsSeq(s), NEW e
    PROVE  /\ IsSeq(Append(s, e)) /\ Len(Append(s, e)) = Len(s) + 1
           /\ Append(s, e)[Len(s) + 1] = e
           /\ \A i \in 1 .. Len(s) : Append(s, e)[i] = s[i]
<1> DEFINE S == {s[i] : i \in DOMAIN s} \cup {e}
<1>1. s \in Seq(S) /\ e \in S /\ Len(s) \in Nat
  BY PartsOfSeq, SeqOfFunction DEF IsSeq, S
<1> HIDE DEF S
<1>2. /\ Append(s, e) \in Seq(S) /\ Len(Append(s, e)) = Len(s) + 1
      /\ Append(s, e)[Len(s) + 1] = e
      /\ \A i \in 1 .. Len(s) : Append(s, e)[i] = s[i]
  BY <1>1, AppendProperties
<1>3. IsSeq(Append(s, e))
  BY <1>2, SeqIsSeq
<1> QED
  BY <1>2, <1>3

\* The beginning of a sequence.
LEMMA CutOff ==
    ASSUME NEW s, IsSeq(s), NEW n \in 0 .. Len(s), NEW u, u = SubSeq(s, 1, n)
    PROVE  IsSeq(u) /\ Len(u) = n /\ \A i \in 1 .. n : u[i] = s[i]
<1> DEFINE S == {s[i] : i \in DOMAIN s}
<1>1. s \in Seq(S) /\ Len(s) \in Nat
  BY DEF IsSeq
<1> HIDE DEF S
<1>2. n \in Nat /\ n <= Len(s)
  BY <1>1
<1>3. u \in Seq(S) /\ Len(u) = n /\ \A i \in 1 .. n : u[i] = s[i]
  BY <1>1, <1>2
<1> QED
  BY <1>3, SeqIsSeq

-----------------------------------------------------------------------------
(***************************************************************************)
(* What the tokens read can be, for any grammar and word.                  *)
(***************************************************************************)

\* They are the operators of Parsing, of a grammar and a word.
ReadAs(gr, word, known, symbol, from, to) ==
    IF symbol \in Terminals(gr) THEN to = from + 1 /\ word[to] = symbol
    ELSE \E r \in RulesOf(gr, symbol) : <<<<r, Len(gr.rules[r].rhs)>>, from, to>> \in known

PartsOf(gr, word) == Configs(gr) \X (0 .. Len(word)) \X (0 .. Len(word))

More(gr, word, known, part) ==
    IF ~ Shiftable(gr, part[1]) THEN {}
    ELSE {<<<<part[1][1], part[1][2] + 1>>, part[2], to>> :
            to \in {next \in 0 .. Len(word) :
                      ReadAs(gr, word, known, SymbolAfter(gr, part[1]), part[3], next)}}

Seeds(gr, word) == {<<<<r, 0>>, at, at>> : r \in Rules(gr), at \in 0 .. Len(word)}

Chart(gr, word) ==
    Grown([known \in SUBSET PartsOf(gr, word) |->
             known \cup UNION {More(gr, word, known, part) : part \in known}],
          Seeds(gr, word), Cardinality(PartsOf(gr, word)))

\* A symbol can be what is read from one place to another.  Of no word at all, not even $, it
\* always can: what is then known of a parser holds whatever the tokens are.
Reading(gr, word, symbol, from, to) ==
    /\ from \in 0 .. Len(word) /\ to \in 0 .. Len(word)
    /\ word # << >> => ReadAs(gr, word, Chart(gr, word), symbol, from, to)

LEMMA ReadingsAreChart == Readings = Chart(g, input)
  BY DEF Readings, Chart, Parts, PartsOf, Further, More, ReadsAs, ReadAs, Seeds

LEMMA ReadsAsReads ==
    ASSUME NEW symbol, NEW from, NEW to
    PROVE  ReadsAs(Readings, symbol, from, to) <=>
             ReadAs(g, input, Chart(g, input), symbol, from, to)
  BY ReadingsAreChart DEF ReadsAs, ReadAs

\* The parts are known from the first of them on, symbol by symbol.
LEMMA ChartCloses ==
    ASSUME NEW gr, IsGrammar(gr), NEW word, Len(word) \in Nat
    PROVE  LET R == Chart(gr, word)
           IN  /\ R \in SUBSET PartsOf(gr, word) /\ Seeds(gr, word) \subseteq R
               /\ \A part \in R : More(gr, word, R, part) \subseteq R
<1> DEFINE U == PartsOf(gr, word)
           f == [known \in SUBSET U |-> known \cup UNION {More(gr, word, known, part) : part \in known}]
           X == Seeds(gr, word)
           R == Chart(gr, word)
<1>1. IsFiniteSet(U)
  <2>1. IsFiniteSet(Configs(gr)) /\ IsFiniteSet(0 .. Len(word))
    BY ConfigsFinite, FS_Interval
  <2>2. IsFiniteSet((0 .. Len(word)) \X (0 .. Len(word)))
    BY <2>1, FS_Product
  <2> DEFINE h == [p \in Configs(gr) \X ((0 .. Len(word)) \X (0 .. Len(word))) |->
                     <<p[1], p[2][1], p[2][2]>>]
  <2>3. IsFiniteSet(DOMAIN h)
    BY <2>1, <2>2, FS_Product
  <2>4. U \subseteq {h[p] : p \in DOMAIN h}
    <3>1. ASSUME NEW part \in U PROVE part \in {h[p] : p \in DOMAIN h}
      <4>1. /\ part = <<part[1], part[2], part[3]>> /\ part[1] \in Configs(gr)
            /\ part[2] \in 0 .. Len(word) /\ part[3] \in 0 .. Len(word)
        BY DEF PartsOf
      <4> DEFINE p == <<part[1], <<part[2], part[3]>>>>
      <4>2. p \in DOMAIN h /\ h[p] = <<part[1], part[2], part[3]>>
        BY <4>1
      <4> QED
        BY <4>1, <4>2
    <3> QED
      BY <3>1
  <2> HIDE DEF h
  <2>5. IsFiniteSet({h[p] : p \in DOMAIN h})
    BY <2>3, FiniteImage
  <2> QED
    BY <2>4, <2>5, FS_Subset
<1>2. ASSUME NEW known, NEW part \in U PROVE More(gr, word, known, part) \subseteq U
  BY SymbolAfterDot DEF PartsOf, More
<1>3. X \in SUBSET U
  <2>1. ASSUME NEW r \in Rules(gr) PROVE <<r, 0>> \in Configs(gr)
    <3>1. 0 \in 0 .. Len(gr.rules[r].rhs)
      BY PartsOfGrammar
    <3> QED
      BY <3>1, ConfigIn
  <2> QED
    BY <2>1 DEF Seeds, PartsOf
<1>4. R = Grown(f, X, Cardinality(U))
  BY DEF Chart
<1> HIDE DEF U, X, R
<1>5. IsGrowth(f, U)
  BY <1>2 DEF IsGrowth
<1>6. f[R] = f[R] /\ (R \in SUBSET U => f[R] = R \cup UNION {More(gr, word, R, part) : part \in R})
  OBVIOUS
<1> HIDE DEF f
<1>7. R \in SUBSET U /\ X \subseteq R /\ f[R] = R
  BY <1>1, <1>3, <1>4, <1>5, Growth
<1>8. R = R \cup UNION {More(gr, word, R, part) : part \in R}
  BY <1>6, <1>7
<1>9. \A part \in R : More(gr, word, R, part) \subseteq R
  BY <1>8
<1> QED
  BY <1>7, <1>9 DEF R, X, U

\* One symbol more of a rule.
LEMMA OneMoreRead ==
    ASSUME NEW gr, IsGrammar(gr), NEW word, word # << >>, Len(word) \in Nat, NEW r \in Rules(gr), NEW d \in Nat,
           d < Len(gr.rules[r].rhs), NEW i, NEW j, <<<<r, d>>, i, j>> \in Chart(gr, word),
           NEW l, Reading(gr, word, gr.rules[r].rhs[d + 1], j, l)
    PROVE  <<<<r, d + 1>>, i, l>> \in Chart(gr, word)
<1> DEFINE part == <<<<r, d>>, i, j>>
<1>1. More(gr, word, Chart(gr, word), part) \subseteq Chart(gr, word)
  BY ChartCloses
<1>2. /\ Shiftable(gr, part[1]) /\ SymbolAfter(gr, part[1]) = gr.rules[r].rhs[d + 1]
      /\ part[1] = <<r, d>> /\ part[1][1] = r /\ part[1][2] = d /\ part[2] = i /\ part[3] = j
  BY DEF Shiftable, SymbolAfter
<1> HIDE DEF part
<1>3. <<<<r, d + 1>>, i, l>> \in More(gr, word, Chart(gr, word), part)
  BY <1>2 DEF More, Reading
<1> QED
  BY <1>1, <1>3

\* All of them.
LEMMA RuleRead ==
    ASSUME NEW gr, IsGrammar(gr), NEW word, NEW r \in Rules(gr),
           NEW i \in 0 .. Len(word), NEW j \in 0 .. Len(word),
           word # << >> => <<<<r, Len(gr.rules[r].rhs)>>, i, j>> \in Chart(gr, word)
    PROVE  Reading(gr, word, gr.rules[r].lhs, i, j)
<1>1. gr.rules[r].lhs \in Nonterminals(gr)
  BY PartsOfGrammar
<1>2. gr.rules[r].lhs \notin Terminals(gr)
  BY <1>1, KindsOfSymbols
<1> QED
  BY <1>2 DEF Reading, ReadAs, RulesOf

\* What can be a symbol can be any of its names.
LEMMA NameRead ==
    ASSUME NEW gr, IsGrammar(gr), NEW word, Len(word) \in Nat, NEW symbol, NEW i, NEW j,
           Reading(gr, word, symbol, i, j), NEW name, IsNameOf(gr, symbol, name)
    PROVE  Reading(gr, word, name, i, j)
<1> DEFINE S == {s \in Symbols(gr) : Reading(gr, word, s, i, j)}
<1>1. symbol \in S
  BY DEF IsNameOf
<1>2. ASSUME NEW r \in Rules(gr), Len(gr.rules[r].rhs) = 1, gr.rules[r].rhs[1] \in S
      PROVE  gr.rules[r].lhs \in S
  <2>1. i \in 0 .. Len(word) /\ j \in 0 .. Len(word)
    BY DEF Reading
  <2>2. <<<<r, 0>>, i, i>> \in Chart(gr, word)
    BY <2>1, ChartCloses DEF Seeds
  <2>3. Reading(gr, word, gr.rules[r].rhs[0 + 1], i, j) /\ 0 < Len(gr.rules[r].rhs) /\ 0 \in Nat
    BY <1>2
  <2>4. word # << >> => <<<<r, 0 + 1>>, i, j>> \in Chart(gr, word)
    BY <2>2, <2>3, OneMoreRead
  <2>5. word # << >> => <<<<r, Len(gr.rules[r].rhs)>>, i, j>> \in Chart(gr, word)
    BY <1>2, <2>4
  <2>6. Reading(gr, word, gr.rules[r].lhs, i, j)
    BY <2>1, <2>5, RuleRead
  <2>7. gr.rules[r].lhs \in Symbols(gr)
    BY PartsOfGrammar, KindsOfSymbols
  <2> QED
    BY <2>6, <2>7
<1>3. S \in SUBSET Symbols(gr) /\ IsUnitClosed(gr, S)
  BY <1>2 DEF IsUnitClosed
<1> HIDE DEF S
<1>4. name \in S
  BY <1>1, <1>3 DEF IsNameOf
<1> QED
  BY <1>4 DEF S

-----------------------------------------------------------------------------
(***************************************************************************)
(* A parser generated for a grammar, and a word.                           *)
(***************************************************************************)

\* Tables written for states whose actions are sound, and a word with $ at its end.
IsSetting(gr, sts, cps, order, pk, word) ==
    /\ AllWritten(gr, cps, order, pk) /\ ~ pk.shared
    /\ IsAutomaton(gr, sts, << >>) /\ StartsFirst(gr, sts) /\ AllSoundStates(gr, sts, cps)
    /\ Len(word) \in Nat
    /\ \A i \in 1 .. Len(word) : word[i] \in Terminals(gr) /\ (word[i] = 0 => i = Len(word))

\* Where the ranges of action numbers begin and end.
LEMMA RangesOfNumbers ==
    ASSUME NEW gr, NEW cps, NEW order, NEW pk, AllWritten(gr, cps, order, pk),
           NEW T, T = ReportTable(gr, cps, order, pk)
    PROVE  /\ Len(cps) \in Nat /\ Len(gr.rules) \in Nat /\ nxstate(cps, order) \in 1 .. Len(cps)
           /\ YY_MAX_SHIFT(T) = nxstate(cps, order) - 1 /\ T.YY_MIN_SHIFTREDUCE = Len(cps)
           /\ YY_MAX_SHIFTREDUCE(T) = Len(cps) + Len(gr.rules) - 1
           /\ T.YY_ERROR_ACTION = Len(cps) + Len(gr.rules)
           /\ T.YY_ACCEPT_ACTION = Len(cps) + Len(gr.rules) + 1
           /\ T.YY_MIN_REDUCE = Len(cps) + Len(gr.rules) + 3
           /\ errAction(gr, cps) = T.YY_ERROR_ACTION /\ accAction(gr, cps) = T.YY_ACCEPT_ACTION
           /\ minReduce(gr, cps) = T.YY_MIN_REDUCE /\ minShiftReduce(cps) = Len(cps)
           /\ \A r \in Rules(gr) : iRule(gr)[r] \in 0 .. Len(gr.rules) - 1
<1>1. IsGrammar(gr) /\ NamingStates(gr, cps) /\ IsOrder(cps, order)
  BY DEF AllWritten
<1>2. Len(gr.rules) \in Nat /\ Len(cps) \in Nat
  BY <1>1, PartsOfGrammar, PartsOfSeq DEF NamingStates
<1>3. nxstate(cps, order) \in 1 .. Len(cps)
  BY <1>1, StatesWithTables DEF IsOrder
<1>4. /\ T.YYNSTATE = nxstate(cps, order) /\ T.YYNRULE = Len(gr.rules)
      /\ T.YY_MIN_SHIFTREDUCE = minShiftReduce(cps)
      /\ T.YY_ERROR_ACTION = errAction(gr, cps) /\ T.YY_ACCEPT_ACTION = accAction(gr, cps)
      /\ T.YY_MIN_REDUCE = minReduce(gr, cps)
  BY NumbersInTables
<1>5. /\ minShiftReduce(cps) = Len(cps) /\ errAction(gr, cps) = Len(cps) + Len(gr.rules)
      /\ accAction(gr, cps) = Len(cps) + Len(gr.rules) + 1
      /\ minReduce(gr, cps) = Len(cps) + Len(gr.rules) + 3
  BY <1>2 DEF minShiftReduce, errAction, accAction, noAction, minReduce
<1>6. /\ YY_MAX_SHIFT(T) = nxstate(cps, order) - 1
      /\ YY_MAX_SHIFTREDUCE(T) = Len(cps) + Len(gr.rules) - 1
  BY <1>4, <1>5 DEF YY_MAX_SHIFT, YY_MAX_SHIFTREDUCE
<1> QED
  BY <1>1, <1>2, <1>3, <1>4, <1>5, <1>6, RulesNumbered

\* What is found for a token is an action on it or on {default}, or an error.
LEMMA TokenFound ==
    ASSUME NEW gr, NEW cps, NEW order, NEW pk, AllWritten(gr, cps, order, pk), ~ pk.shared,
           NEW T, T = ReportTable(gr, cps, order, pk), NEW n \in 0 .. nxstate(cps, order) - 1,
           NEW t \in Terminals(gr), ShiftAsserts(T, t, n)
    PROVE  LET ap == cps[order[n + 1]].ap
               found == yy_find_shift_action(T, t, n)
           IN  \/ found = T.YY_ERROR_ACTION
               \/ \E i \in DOMAIN ap : /\ Emitted(ap[i]) /\ ap[i].sp \in {t, Default(gr)}
                                       /\ Numbered(gr, cps, order, ap[i], found)
<1> DEFINE ap == cps[order[n + 1]].ap
           found == yy_find_shift_action(T, t, n)
<1>1. ASSUME OnSymbol(ap, t) # {}
      PROVE  \E i \in OnSymbol(ap, t) : Numbered(gr, cps, order, ap[i], found)
  BY <1>1, ShiftFound DEF FoundFor
<1>2. ASSUME OnSymbol(ap, t) = {}
      PROVE  \/ found = T.YY_ERROR_ACTION
             \/ \E i \in OnSymbol(ap, Default(gr)) : Numbered(gr, cps, order, ap[i], found)
  <2>1. n \in DOMAIN T.yy_shift_ofst
    BY RangesOfNumbers DEF ShiftAsserts
  <2>2. found = T.yy_default[n]
    BY <1>2, <2>1, ShiftMissed
  <2>3. errAction(gr, cps) = T.YY_ERROR_ACTION
    BY RangesOfNumbers
  <2> QED
    BY <2>2, <2>3, DefaultInTables
<1> HIDE DEF found
<1> QED
  BY <1>1, <1>2 DEF OnSymbol, found

\* The states the stack has come through: where each is, the symbol read before it, and how
\* much of the word has been read by then.
IsWay(gr, sts, word, way, m) ==
    /\ way[1].at = 1 /\ way[1].upto = 0
    /\ \A i \in 1 .. m : way[i].at \in DOMAIN sts /\ way[i].upto \in 0 .. Len(word)
    /\ \A i \in 2 .. m :
         /\ [sp |-> way[i].sp, x |-> way[i].at] \in sts[way[i - 1].at].shifts
         /\ Reading(gr, word, way[i].sp, way[i - 1].upto, way[i].upto)

\* A way up to its entry b, and from there to state l.
Extends(gr, sts, word, way, b, l, upto, new) ==
    /\ IsWay(gr, sts, word, new, b + 1) /\ new[b + 1].at = l /\ new[b + 1].upto = upto
    /\ \A i \in 1 .. b : new[i].at = way[i].at

\* One state more.
LEMMA WayExtended ==
    ASSUME NEW gr, NEW sts, NEW word, NEW way, NEW m \in Nat, IsWay(gr, sts, word, way, m),
           NEW b \in 1 .. m, NEW sp, NEW l \in DOMAIN sts,
           NEW s \in sts[way[b].at].shifts, s = [sp |-> sp, x |-> l],
           NEW upto, Reading(gr, word, sp, way[b].upto, upto)
    PROVE  \E new : Extends(gr, sts, word, way, b, l, upto, new)
<1> DEFINE new == [i \in 1 .. b + 1 |-> IF i = b + 1 THEN [at |-> l, sp |-> sp, upto |-> upto]
                                        ELSE way[i]]
<1>1. /\ new[b + 1].at = l /\ new[b + 1].sp = sp /\ new[b + 1].upto = upto
      /\ \A i \in 1 .. b : new[i] = way[i]
  OBVIOUS
<1> HIDE DEF new
<1>2. upto \in 0 .. Len(word)
  BY DEF Reading
<1>3. ASSUME NEW i \in 1 .. b + 1
      PROVE  new[i].at \in DOMAIN sts /\ new[i].upto \in 0 .. Len(word)
  <2>1. i = b + 1 \/ (i \in 1 .. b /\ i \in 1 .. m)
    OBVIOUS
  <2> QED
    BY <1>1, <1>2, <2>1 DEF IsWay
<1>4. ASSUME NEW i \in 2 .. b + 1
      PROVE  /\ [sp |-> new[i].sp, x |-> new[i].at] \in sts[new[i - 1].at].shifts
             /\ Reading(gr, word, new[i].sp, new[i - 1].upto, new[i].upto)
  <2>1. \/ i = b + 1 /\ i - 1 = b /\ b \in 1 .. b
        \/ i \in 1 .. b /\ i - 1 \in 1 .. b /\ i \in 2 .. m
    OBVIOUS
  <2>2. CASE i = b + 1 /\ i - 1 = b /\ b \in 1 .. b
    BY <1>1, <2>2
  <2>3. CASE i \in 1 .. b /\ i - 1 \in 1 .. b /\ i \in 2 .. m
    BY <1>1, <2>3 DEF IsWay
  <2> QED
    BY <2>1, <2>2, <2>3
<1>5. 1 \in 1 .. b
  OBVIOUS
<1>6. new[1].at = 1 /\ new[1].upto = 0
  BY <1>1, <1>5 DEF IsWay
<1>7. IsWay(gr, sts, word, new, b + 1)
  BY <1>3, <1>4, <1>6 DEF IsWay
<1> QED
  BY <1>1, <1>7 DEF Extends

\* What a rule that has been read leaves: the state where it began, and its symbols are what
\* has been read since.
LEMMA WayBack ==
    ASSUME NEW gr, IsGrammar(gr), NEW sts, IsAutomaton(gr, sts, << >>), NEW word, Len(word) \in Nat,
           NEW way, NEW m \in Nat, IsWay(gr, sts, word, way, m),
           NEW r, Ends(gr, sts, way[m].at, r), NEW size \in Nat, size = Len(gr.rules[r].rhs),
           size < m
    PROVE  /\ m - size \in 1 .. m /\ <<r, 0>> \in sts[way[m - size].at].cfp
           /\ Reading(gr, word, gr.rules[r].lhs, way[m - size].upto, way[m].upto)
<1> DEFINE b == m - size
           From(d) == <<r, d>> \in sts[way[b + d].at].cfp
           Read(d) == gr.rules[r].rhs[d + 1] = way[b + (d + 1)].sp
           Done(e) == From(size - e) /\ \A d \in size - e .. size - 1 : Read(d)
           down == {e \in Nat : e <= size => Done(e)}
           Known(d) == <<<<r, d>>, way[b].upto, way[b + d].upto>> \in Chart(gr, word)
           up == {d \in Nat : d <= size /\ word # << >> => Known(d)}
<1>1. b \in 1 .. m /\ b + size = m /\ b + 0 = b
  OBVIOUS
<1> HIDE DEF b
<1>2. 0 \in down
  <2>1. From(size)
    BY <1>1 DEF Ends
  <2>2. size - 0 = size /\ size - 0 .. size - 1 = {}
    OBVIOUS
  <2> HIDE DEF From, Read
  <2> QED
    BY <2>1, <2>2
<1>3. ASSUME NEW e \in down PROVE e + 1 \in down
  <2> HIDE DEF Done
  <2> SUFFICES ASSUME e + 1 <= size PROVE Done(e + 1)
    OBVIOUS
  <2> DEFINE d == size - (e + 1)
             i == b + (d + 1)
             s == [sp |-> way[i].sp, x |-> way[i].at]
             c == <<r, d + 1>>
  <2>1. d \in Nat /\ d + 1 = size - e /\ i \in 2 .. m /\ i - 1 = b + d /\ i - 1 \in 1 .. m
    <3>1. e \in Nat /\ b \in Nat /\ b >= 1
      BY <1>1
    <3> HIDE DEF down
    <3> QED
      BY <1>1, <3>1
  <2>2. From(d + 1) /\ \A a \in d + 1 .. size - 1 : Read(a)
    <3>1. e \in Nat /\ Done(e)
      OBVIOUS
    <3> HIDE DEF From, Read, d, down
    <3> QED
      BY <2>1, <3>1 DEF Done
  <2>3. way[b + d].at \in DOMAIN sts /\ s \in sts[way[b + d].at].shifts
    <3> HIDE DEF d
    <3> QED
      BY <2>1 DEF IsWay
  <2>4. s.sp = way[i].sp /\ c \in sts[s.x].cfp /\ c[1] = r /\ c[2] = d + 1 /\ c[2] - 1 = d /\ c[2] # 0
    <3> HIDE DEF d
    <3>1. s.sp = way[i].sp /\ s.x = way[i].at
      OBVIOUS
    <3>2. c[1] = r /\ c[2] = d + 1
      OBVIOUS
    <3>3. c \in sts[way[i].at].cfp
      BY <2>2
    <3> HIDE DEF s, c, i
    <3> QED
      BY <2>1, <3>1, <3>2, <3>3
  <2> HIDE DEF s, c, d
  <2>5. /\ <<c[1], c[2] - 1>> \in sts[way[b + d].at].cfp /\ c[1] \in Rules(gr) /\ c[2] - 1 \in Nat
        /\ gr.rules[c[1]].rhs[c[2]] = s.sp /\ c[2] <= Len(gr.rules[c[1]].rhs)
    BY <2>3, <2>4, DotRead
  <2>6. From(d) /\ Read(d)
    BY <2>4, <2>5
  <2>7. \A a \in d .. size - 1 : a = d \/ a \in d + 1 .. size - 1
    BY <2>1
  <2> HIDE DEF From, Read
  <2>8. From(d) /\ \A a \in d .. size - 1 : Read(a)
    BY <2>2, <2>6, <2>7
  <2> QED
    BY <2>8 DEF d, Done
<1>4. size \in down
  <2>1. down \in SUBSET Nat
    OBVIOUS
  <2> HIDE DEF down
  <2> QED
    BY <1>2, <1>3, <2>1, Induction
<1>5. From(0) /\ \A d \in 0 .. size - 1 : Read(d)
  <2>1. Done(size)
    <3> HIDE DEF Done
    <3> QED
      BY <1>4
  <2>2. size - size = 0
    OBVIOUS
  <2> HIDE DEF From, Read
  <2> QED
    BY <2>1, <2>2
<1>6. r \in Rules(gr) /\ \A i \in 1 .. m : way[i].upto \in 0 .. Len(word)
  BY DEF Ends, IsWay
<1>7. 0 \in up
  BY <1>1, <1>6, ChartCloses DEF Seeds
<1>8. ASSUME NEW d \in up PROVE d + 1 \in up
  <2> SUFFICES ASSUME d + 1 <= size, word # << >> PROVE Known(d + 1)
    OBVIOUS
  <2> DEFINE i == b + (d + 1)
  <2>1. d \in Nat /\ d < size /\ d \in 0 .. size - 1 /\ i \in 2 .. m /\ i - 1 = b + d
    BY <1>1
  <2>2. <<<<r, d>>, way[b].upto, way[b + d].upto>> \in Chart(gr, word)
    BY <2>1
  <2>3. Reading(gr, word, way[i].sp, way[b + d].upto, way[i].upto)
    BY <2>1 DEF IsWay
  <2>4. gr.rules[r].rhs[d + 1] = way[i].sp
    BY <1>5, <2>1
  <2> HIDE DEF i
  <2>5. <<<<r, d + 1>>, way[b].upto, way[i].upto>> \in Chart(gr, word)
    BY <1>6, <2>1, <2>2, <2>3, <2>4, OneMoreRead
  <2> QED
    BY <2>5 DEF i
<1>9. size \in up
  BY <1>7, <1>8, Induction
<1>10. word # << >> =>
         <<<<r, Len(gr.rules[r].rhs)>>, way[b].upto, way[m].upto>> \in Chart(gr, word)
  <2>1. word # << >> => Known(size)
    <3> HIDE DEF Known
    <3> QED
      BY <1>9
  <2> QED
    BY <1>1, <2>1
<1>11. Reading(gr, word, gr.rules[r].lhs, way[b].upto, way[m].upto)
  BY <1>1, <1>6, <1>10, RuleRead
<1> QED
  BY <1>1, <1>5, <1>11 DEF b

\* The stack is always deep enough for it: in the first state nothing has been moved.
LEMMA EnoughOnWay ==
    ASSUME NEW gr, IsGrammar(gr), NEW sts, IsAutomaton(gr, sts, << >>), StartsFirst(gr, sts),
           NEW word, NEW way, NEW m \in Nat, m >= 1, IsWay(gr, sts, word, way, m),
           NEW r, Ends(gr, sts, way[m].at, r)
    PROVE  Len(gr.rules[r].rhs) < m
<1> DEFINE size == Len(gr.rules[r].rhs)
           Back(e) == <<r, size - e>> \in sts[way[m - e].at].cfp
           back == {e \in Nat : e < m /\ e <= size => Back(e)}
<1>1. r \in Rules(gr) /\ size \in Nat
  BY PartsOfGrammar DEF Ends
<1>2. 0 \in back
  <2>1. size - 0 = size /\ m - 0 = m
    BY <1>1
  <2> QED
    BY <2>1 DEF Ends
<1>3. ASSUME NEW e \in back PROVE e + 1 \in back
  <2> HIDE DEF Back
  <2> SUFFICES ASSUME e + 1 < m, e + 1 <= size PROVE Back(e + 1)
    OBVIOUS
  <2> DEFINE i == m - e
             j == m - (e + 1)
             s == [sp |-> way[i].sp, x |-> way[i].at]
             c == <<r, size - e>>
  <2>1. /\ e \in Nat /\ Back(e) /\ i \in 2 .. m /\ i - 1 = j /\ j \in 1 .. m
        /\ size - e # 0 /\ size - e - 1 = size - (e + 1)
    <3> HIDE DEF size
    <3> QED
      BY <1>1
  <2>2. s \in sts[way[j].at].shifts /\ way[j].at \in DOMAIN sts
    <3> HIDE DEF j, i
    <3> QED
      BY <2>1 DEF IsWay, i, j
  <2>3. c \in sts[s.x].cfp /\ c[1] = r /\ c[2] = size - e
    BY <2>1 DEF Back
  <2> HIDE DEF s, c, j, i, size
  <2>4. <<c[1], c[2] - 1>> \in sts[way[j].at].cfp
    BY <2>1, <2>2, <2>3, DotRead
  <2> QED
    BY <2>1, <2>3, <2>4 DEF j, Back
<1>4. m - 1 \in back
  <2>1. back \in SUBSET Nat
    OBVIOUS
  <2> HIDE DEF back
  <2> QED
    BY <1>2, <1>3, <2>1, Induction
<1> SUFFICES ASSUME size >= m PROVE FALSE
  BY <1>1
<1> DEFINE c == <<r, size - (m - 1)>>
<1>5. c \in sts[1].cfp /\ c[2] # 0
  <2>1. m - (m - 1) = 1 /\ m - 1 < m /\ m - 1 <= size /\ size - (m - 1) # 0
    BY <1>1
  <2> QED
    BY <1>4, <2>1 DEF IsWay
<1> HIDE DEF c
<1>6. sts[1].cfp = Closure(gr, sts[1].bp) /\ sts[1].bp \in SUBSET Configs(gr)
  BY PartsOfStates DEF StartsFirst, IsAutomaton, IsState
<1>7. c \in sts[1].bp
  BY <1>5, <1>6, ClosureDots
<1> QED
  BY <1>5, <1>7 DEF StartsFirst

\* Where a rule begins its symbol may be read; and the way never comes back to the first state.
LEMMA DueOnWay ==
    ASSUME NEW gr, IsGrammar(gr), NEW sts, IsAutomaton(gr, sts, << >>), StartsFirst(gr, sts),
           NEW word, NEW way, NEW m \in Nat, IsWay(gr, sts, word, way, m), NEW b \in 1 .. m,
           NEW r \in Rules(gr), <<r, 0>> \in sts[way[b].at].cfp
    PROVE  IsDue(gr, sts, way[b].at, gr.rules[r].lhs) /\ (way[b].at = 1 => b = 1)
<1> DEFINE k == way[b].at
           lhs == gr.rules[r].lhs
           c == <<r, 0>>
<1>1. k \in DOMAIN sts
  BY DEF IsWay
<1>2. ASSUME b # 1, NEW d \in sts[k].bp PROVE d[2] # 0
  <2> DEFINE s == [sp |-> way[b].sp, x |-> k]
             j == way[b - 1].at
  <2>1. b \in 2 .. m /\ b - 1 \in 1 .. m
    BY <1>2
  <2>2. s \in sts[j].shifts /\ s.x = k /\ j \in DOMAIN sts
    BY <2>1 DEF IsWay
  <2> HIDE DEF s, k, j
  <2> QED
    BY <1>2, <2>2, DotsMoved
<1>3. k = 1 => b = 1
  <2> SUFFICES ASSUME k = 1, b # 1 PROVE FALSE
    OBVIOUS
  <2>1. 1 \in RulesOf(gr, Start(gr))
    BY PartsOfGrammar DEF RulesOf, Start
  <2>2. <<1, 0>> \in sts[k].bp
    BY <2>1 DEF StartsFirst
  <2> QED
    BY <1>2, <2>2
<1>4. lhs \in Nonterminals(gr)
  BY PartsOfGrammar
<1>5. sts[k].cfp = Closure(gr, sts[k].bp) /\ sts[k].bp \in SUBSET Configs(gr)
  BY <1>1, PartsOfStates DEF IsAutomaton, IsState
<1>6. CASE c \in sts[k].bp
  BY <1>2, <1>6, <1>3, <1>4 DEF IsWay, StartsFirst, RulesOf, IsDue
<1>7. CASE c \notin sts[k].bp
  BY <1>5, <1>7, ClosureBrought, <1>3, <1>4 DEF Brought, RulesOf, Awaiting, IsDue
<1> QED
  BY <1>6, <1>7

\* An entry of the stack is the number of the state k, or of a reduction pending in it.
IsAt(cps, order, stateno, k) ==
    stateno \in 0 .. nxstate(cps, order) - 1 /\ order[stateno + 1] = k
Pending(gr, sts, cps, stateno, k) ==
    \E r \in Rules(gr) : /\ stateno = minReduce(gr, cps) + iRule(gr)[r]
                         /\ Ends(gr, sts, k, r) /\ ~ lhsStart(gr, r) /\ gr.rules[r].rhs # << >>

IsStack(stack) == IsSeq(stack) /\ Len(stack) >= 1

\* The stack has come this way, and n tokens of the word are what its symbols can be.
Follows(gr, sts, cps, order, word, stack, n, way) ==
    LET m == Len(stack)
    IN  /\ IsWay(gr, sts, word, way, m) /\ way[m].upto = n
        /\ \A i \in 1 .. m - 1 : IsAt(cps, order, stack[i].stateno, way[i].at)
        /\ \/ IsAt(cps, order, stack[m].stateno, way[m].at)
           \/ Pending(gr, sts, cps, stack[m].stateno, way[m].at)

\* They are all of it but $, if there is a word.
AtEnd(word, n) == word # << >> => n + 1 = Len(word)

\* They are the start symbol, which is on the stack alone.
Accepting(gr, cps, word, stack, n) ==
    /\ Len(stack) = 2 /\ stack[2].stateno = accAction(gr, cps)
    /\ Reading(gr, word, Start(gr), 0, n) /\ (StartOnce(gr) => AtEnd(word, n))

Going(gr, sts, cps, order, word, stack, n) ==
    /\ IsStack(stack) /\ IsAt(cps, order, stack[1].stateno, 1)
    /\ \/ \E way : Follows(gr, sts, cps, order, word, stack, n, way)
       \/ Accepting(gr, cps, word, stack, n)

\* A state is entered on a symbol that has been read, by an action that shifts it.
LEMMA Entered ==
    ASSUME NEW gr, NEW sts, NEW cps, NEW order, NEW pk, NEW word,
           IsSetting(gr, sts, cps, order, pk, word),
           NEW way, NEW m \in Nat, IsWay(gr, sts, word, way, m), NEW b \in 1 .. m,
           NEW a, IsSound(gr, sts, way[b].at, a), a.type \in {"SHIFT", "SHIFTREDUCE"},
           NEW n, Reading(gr, word, a.sp, way[b].upto, n),
           NEW stack, IsStack(stack), Len(stack) = b + 1,
           \A i \in 1 .. b : IsAt(cps, order, stack[i].stateno, way[i].at),
           a.type = "SHIFT" => IsAt(cps, order, stack[b + 1].stateno, a.x),
           a.type = "SHIFTREDUCE" => stack[b + 1].stateno = minReduce(gr, cps) + iRule(gr)[a.x]
    PROVE  Going(gr, sts, cps, order, word, stack, n)
<1> DEFINE k == way[b].at
           e == stack[b + 1].stateno
<1>1. IsGrammar(gr) /\ IsAutomaton(gr, sts, << >>) /\ Len(word) \in Nat
  BY DEF IsSetting, AllWritten
<1>2. \E l : /\ Leads(gr, sts, k, a.sp, l)
             /\ IsAt(cps, order, e, l) \/ Pending(gr, sts, cps, e, l)
  BY DEF IsSound, Ends, Pending
<1>3. PICK l : /\ Leads(gr, sts, k, a.sp, l)
               /\ IsAt(cps, order, e, l) \/ Pending(gr, sts, cps, e, l)
  BY <1>2
<1>4. PICK name \in Symbols(gr) : /\ IsNameOf(gr, a.sp, name)
                                  /\ [sp |-> name, x |-> l] \in sts[k].shifts
  BY <1>3 DEF Leads
<1>5. l \in DOMAIN sts
  BY <1>4, <1>1 DEF IsWay, IsAutomaton, Goes
<1>6. Reading(gr, word, name, way[b].upto, n)
  BY <1>1, <1>4, NameRead
<1>7. PICK new : Extends(gr, sts, word, way, b, l, n, new)
  BY <1>4, <1>5, <1>6, WayExtended
<1> HIDE DEF k
<1>8. b + 1 - 1 = b
  OBVIOUS
<1>9. Follows(gr, sts, cps, order, word, stack, n, new)
  BY <1>3, <1>7, <1>8 DEF Follows, Extends
<1>10. IsAt(cps, order, stack[1].stateno, 1)
  BY DEF IsWay
<1> QED
  BY <1>9, <1>10 DEF Going

\* Above the entry b the symbols of a right-hand side have given way to the left-hand side.
Reduced(T, p, b, lhs, q) ==
    LET yyact == yy_find_reduce_action(T, p.stack[b].stateno, lhs)
    IN  /\ Len(q.stack) = b + 1 /\ IsStack(q.stack)
        /\ \A i \in 1 .. b : q.stack[i] = p.stack[i]
        /\ q.stack[b + 1].stateno = yyact
        /\ /\ yyact # T.YY_ERROR_ACTION
           /\ ~ (yyact > YY_MAX_SHIFT(T) /\ yyact <= YY_MAX_SHIFTREDUCE(T))
           => (p.ok => q.ok)

\* The stack has overflowed: only its bottom is left.
Emptied(p, q) == q.stack = <<p.stack[1]>> /\ q.ok = p.ok

\* An entry in the place of the last ones.
Topped(s, b, below, e, new) ==
    /\ below[Len(below)] = s[b] /\ IsStack(new) /\ Len(new) = b + 1 /\ new[b + 1] = e
    /\ \A i \in 1 .. b : new[i] = s[i]

LEMMA PutInPlace ==
    ASSUME NEW s, IsStack(s), NEW b \in 1 .. Len(s), NEW below, below = SubSeq(s, 1, b), NEW e,
           NEW new, new = Append(below, e)
    PROVE  Topped(s, b, below, e, new)
<1>1. IsSeq(s) /\ b \in 0 .. Len(s) /\ b \in Nat /\ b \in 1 .. b
  BY DEF IsStack, IsSeq
<1>2. IsSeq(below) /\ Len(below) = b /\ \A i \in 1 .. b : below[i] = s[i]
  BY <1>1, CutOff
<1>3. /\ IsSeq(new) /\ Len(new) = Len(below) + 1 /\ new[Len(below) + 1] = e
      /\ \A i \in 1 .. Len(below) : new[i] = below[i]
  BY <1>2, Pushed
<1> QED
  BY <1>1, <1>2, <1>3 DEF IsStack, Topped

\* What yy_reduce does when its assertions hold.
LEMMA ReduceMade ==
    ASSUME NEW gr, NEW cps, NEW order, NEW pk, AllWritten(gr, cps, order, pk),
           NEW T, T = ReportTable(gr, cps, order, pk),
           NEW p, {"stack", "arg", "ok"} \subseteq DOMAIN p, IsStack(p.stack), NEW r \in Rules(gr),
           NEW b, b = Len(p.stack) - Len(gr.rules[r].rhs), b >= 1,
           ReduceAsserts(T, p.stack[b].stateno, gr.rules[r].lhs),
           NEW q, q = yy_reduce(T, p, iRule(gr)[r])
    PROVE  Emptied(p, q) \/ Reduced(T, p, b, gr.rules[r].lhs, q)
<1> DEFINE m == Len(p.stack)
           size == -T.yyRuleInfoNRhs[iRule(gr)[r]]
           lhs == T.yyRuleInfoLhs[iRule(gr)[r]]
           rhs == SubSeq(p.stack, m - size + 1, m)
           ran == RuleCode(iRule(gr)[r], p.arg, [i \in DOMAIN rhs |-> rhs[i].minor])
           below == SubSeq(p.stack, 1, m - size)
           top == below[Len(below)].stateno
           yyact == yy_find_reduce_action(T, top, lhs)
           e == [stateno |-> yyact, major |-> lhs, minor |-> ran.minor]
           Asserts == size < m /\ ReduceAsserts(T, top, lhs)
           full == size = 0 /\ Full(p)
           goes == ~(yyact > YY_MAX_SHIFT(T) /\ yyact <= YY_MAX_SHIFTREDUCE(T)) /\ yyact # T.YY_ERROR_ACTION
           new == Append(below, e)
<1>1. q = IF full THEN PopAll(p) ELSE IF ~ Asserts THEN Asserting(p, FALSE)
          ELSE Asserting([p EXCEPT !.arg = ran.arg, !.stack = new], goes)
  BY DEF yy_reduce
<1>2. IsGrammar(gr)
  BY DEF AllWritten
<1>3. lhs = gr.rules[r].lhs /\ size = Len(gr.rules[r].rhs) /\ size \in Nat
  <2>1. /\ T.yyRuleInfoLhs[iRule(gr)[r]] = gr.rules[r].lhs
        /\ T.yyRuleInfoNRhs[iRule(gr)[r]] = -Len(gr.rules[r].rhs)
    BY <1>2, RuleInTables
  <2>2. Len(gr.rules[r].rhs) \in Nat
    BY <1>2, PartsOfGrammar
  <2> QED
    BY <2>1, <2>2
<1> HIDE DEF size, lhs
<1>4. m \in Nat /\ b = m - size /\ b \in 1 .. m /\ size < m
  <2>1. m \in Nat
    BY DEF IsStack, IsSeq
  <2>2. b = m - size
    BY <1>3
  <2> HIDE DEF m
  <2> QED
    BY <1>3, <2>1, <2>2
<1>5. below = SubSeq(p.stack, 1, b)
  BY <1>4
<1>6. e.stateno = yyact
  OBVIOUS
<1> HIDE DEF full, rhs, ran, e, goes, below, yyact
<1>7. Topped(p.stack, b, below, e, new)
  <2>1. b \in 1 .. Len(p.stack) /\ IsStack(p.stack)
    BY <1>4
  <2>2. new = Append(below, e)
    OBVIOUS
  <2> HIDE DEF new
  <2> QED
    BY <1>5, <2>1, <2>2, PutInPlace
<1>8. top = p.stack[b].stateno
  BY <1>7 DEF Topped
<1> HIDE DEF new, top
<1>9. Asserts
  BY <1>3, <1>4, <1>8
<1> HIDE DEF m, Asserts
<1>10. CASE full
  BY <1>1, <1>10 DEF PopAll, Emptied
<1>11. CASE ~ full
  <2>1. q.stack = new /\ q.ok = (p.ok /\ goes)
    BY <1>1, <1>9, <1>11 DEF Asserting
  <2>2. yyact = yy_find_reduce_action(T, p.stack[b].stateno, gr.rules[r].lhs)
    BY <1>3, <1>8 DEF yyact
  <2> QED
    BY <1>6, <1>7, <2>1, <2>2 DEF goes, Reduced, Topped
<1> QED
  BY <1>10, <1>11

\* A number found for a nonterminal is no error and no reduction to come with a token.
LEMMA GotoNumbers ==
    ASSUME NEW gr, NEW cps, NEW order, NEW pk, AllWritten(gr, cps, order, pk),
           NEW T, T = ReportTable(gr, cps, order, pk), NEW a, NEW yyact,
           Numbered(gr, cps, order, a, yyact), a.type \in {"SHIFT", "SHIFTREDUCE", "ACCEPT"},
           a.sp \notin Terminals(gr)
    PROVE  /\ yyact # T.YY_ERROR_ACTION
           /\ ~ (yyact > YY_MAX_SHIFT(T) /\ yyact <= YY_MAX_SHIFTREDUCE(T))
<1> DEFINE c == Len(cps)
           l == Len(gr.rules)
           s == nxstate(cps, order)
           i == iRule(gr)
<1>1. /\ c \in Nat /\ l \in Nat /\ s \in 1 .. c /\ YY_MAX_SHIFT(T) = s - 1
      /\ YY_MAX_SHIFTREDUCE(T) = c + l - 1 /\ T.YY_ERROR_ACTION = c + l
      /\ accAction(gr, cps) = c + l + 1 /\ minReduce(gr, cps) = c + l + 3
      /\ \A r \in Rules(gr) : i[r] \in 0 .. l - 1
  BY RangesOfNumbers
<1>2. \/ yyact \in 0 .. s - 1
      \/ \E r \in Rules(gr) : yyact = minReduce(gr, cps) + i[r]
      \/ yyact = accAction(gr, cps)
  BY DEF Numbered
<1> HIDE DEF c, l, s, i
<1> QED
  BY <1>1, <1>2

\* The parser q goes on where p was, or its stack has overflowed.
GoesOn(gr, sts, cps, order, word, p, q, n) ==
    \/ Emptied(p, q)
    \/ Going(gr, sts, cps, order, word, q.stack, n) /\ ~ AtBottom(q) /\ (p.ok => q.ok)

\* A reduction by a rule that has been read goes on, and the assertions on the way hold.
LEMMA ReduceGoes ==
    ASSUME NEW gr, NEW sts, NEW cps, NEW order, NEW pk, NEW word,
           IsSetting(gr, sts, cps, order, pk, word), NEW T, T = ReportTable(gr, cps, order, pk),
           NEW p, {"stack", "arg", "ok"} \subseteq DOMAIN p, IsStack(p.stack),
           NEW n, NEW way, Follows(gr, sts, cps, order, word, p.stack, n, way),
           NEW r, Ends(gr, sts, way[Len(p.stack)].at, r),
           \/ IsAt(cps, order, p.stack[Len(p.stack)].stateno, way[Len(p.stack)].at)
           \/ gr.rules[r].rhs # << >>,
           lhsStart(gr, r) /\ StartOnce(gr) => AtEnd(word, n),
           NEW q, q = yy_reduce(T, p, iRule(gr)[r])
    PROVE  GoesOn(gr, sts, cps, order, word, p, q, n)
<1> DEFINE m == Len(p.stack)
           size == Len(gr.rules[r].rhs)
           b == m - size
           lhs == gr.rules[r].lhs
           stateno == p.stack[b].stateno
           yyact == yy_find_reduce_action(T, stateno, lhs)
           k == way[b].at
           ap == cps[k].ap
<1>1. /\ AllWritten(gr, cps, order, pk) /\ IsAutomaton(gr, sts, << >>) /\ StartsFirst(gr, sts)
      /\ AllSoundStates(gr, sts, cps) /\ Len(word) \in Nat /\ IsGrammar(gr)
  BY DEF IsSetting, AllWritten
<1>2. r \in Rules(gr) /\ size \in Nat /\ m \in Nat /\ m >= 1 /\ (size = 0 => gr.rules[r].rhs = << >>)
  <2>1. gr.rules[r].rhs \in Seq(Symbols(gr)) /\ r \in Rules(gr)
    BY <1>1, PartsOfGrammar DEF Ends, Symbols
  <2> QED
    BY <2>1 DEF IsStack, IsSeq
<1>4. IsWay(gr, sts, word, way, m) /\ way[m].upto = n
  BY DEF Follows
<1>3. size < m /\ b \in 1 .. m
  <2>1. size < m
    <3> HIDE DEF m
    <3> QED
      BY <1>1, <1>2, <1>4, EnoughOnWay DEF m
  <2> QED
    BY <1>2, <2>1
<1>5. <<r, 0>> \in sts[k].cfp /\ Reading(gr, word, lhs, way[b].upto, n)
  BY <1>1, <1>2, <1>3, <1>4, WayBack
<1>6. IsDue(gr, sts, k, lhs) /\ (k = 1 => b = 1) /\ k \in DOMAIN sts
  <2>1. k \in DOMAIN sts
    BY <1>3, <1>4 DEF IsWay
  <2> HIDE DEF b
  <2> QED
    BY <1>1, <1>2, <1>3, <1>4, <1>5, <2>1, DueOnWay
<1>7. \A j \in 1 .. b : IsAt(cps, order, p.stack[j].stateno, way[j].at)
  <2>1. \A j \in 1 .. m - 1 : IsAt(cps, order, p.stack[j].stateno, way[j].at)
    BY DEF Follows
  <2>2. \A j \in 1 .. b : j \in 1 .. m - 1 \/ (j = m /\ size = 0)
    <3> HIDE DEF m, size
    <3> QED
      BY <1>2, <1>3
  <2> HIDE DEF b
  <2> QED
    BY <1>2, <2>1, <2>2
<1> HIDE DEF b, k, lhs
<1>8. /\ IsSoundState(gr, sts, k, ap) /\ stateno \in 0 .. nxstate(cps, order) - 1
      /\ order[stateno + 1] = k
  <2>1. IsAt(cps, order, stateno, k)
    BY <1>3, <1>7 DEF k
  <2> HIDE DEF stateno
  <2> QED
    BY <1>1, <1>6, <2>1 DEF AllSoundStates, IsAt
<1> HIDE DEF stateno
<1>9. lhs \in Nonterminals(gr) /\ lhs \notin Terminals(gr)
  BY <1>1, <1>6, KindsOfSymbols DEF IsDue
<1>10. OnSymbol(ap, lhs) # {}
  BY <1>6, <1>8, <1>9 DEF IsSoundState, IsSound, OnSymbol, Emitted
<1>11. FoundFor(gr, cps, order, ap, lhs, yyact) /\ ReduceAsserts(T, stateno, lhs)
  BY <1>8, <1>10, <1>1, <1>9, ReduceLooked
<1>12. PICK i \in DOMAIN ap : ap[i].sp = lhs /\ Numbered(gr, cps, order, ap[i], yyact)
  BY <1>11 DEF FoundFor, OnSymbol
<1> DEFINE a == ap[i]
<1>13. /\ IsSound(gr, sts, k, a) /\ a.sp = lhs /\ Numbered(gr, cps, order, a, yyact)
       /\ a.type \in {"SHIFT", "SHIFTREDUCE", "ACCEPT"}
  BY <1>8, <1>9, <1>12 DEF IsSoundState, IsSound
<1> HIDE DEF a
<1>14. Emptied(p, q) \/ Reduced(T, p, b, lhs, q)
  <2>1. b = Len(p.stack) - Len(gr.rules[r].rhs) /\ b >= 1
    BY <1>3 DEF b
  <2>2. ReduceAsserts(T, p.stack[b].stateno, gr.rules[r].lhs)
    BY <1>11 DEF stateno, lhs
  <2> QED
    BY <1>1, <1>2, <2>1, <2>2, ReduceMade DEF lhs
<1> SUFFICES ASSUME Reduced(T, p, b, lhs, q)
             PROVE  /\ Going(gr, sts, cps, order, word, q.stack, n) /\ ~ AtBottom(q)
                    /\ p.ok => q.ok
  BY <1>14 DEF GoesOn
<1>15. /\ Len(q.stack) = b + 1 /\ IsStack(q.stack) /\ q.stack[b + 1].stateno = yyact
       /\ \A j \in 1 .. b : q.stack[j] = p.stack[j]
  BY DEF Reduced, stateno
<1>16. p.ok => q.ok
  <2>1. /\ yyact # T.YY_ERROR_ACTION
        /\ ~ (yyact > YY_MAX_SHIFT(T) /\ yyact <= YY_MAX_SHIFTREDUCE(T))
    BY <1>1, <1>9, <1>13, GotoNumbers
  <2> QED
    BY <2>1 DEF Reduced, stateno
<1>17. ~ AtBottom(q)
  BY <1>3, <1>15 DEF AtBottom
<1> HIDE DEF yyact
<1>18. \A j \in 1 .. b : IsAt(cps, order, q.stack[j].stateno, way[j].at)
  BY <1>7, <1>15
<1>19. CASE a.type \in {"SHIFT", "SHIFTREDUCE"}
  <2>1. a.type = "SHIFT" => IsAt(cps, order, q.stack[b + 1].stateno, a.x)
    BY <1>15, <1>13 DEF Numbered, IsAt
  <2>2. a.type = "SHIFTREDUCE" => q.stack[b + 1].stateno = minReduce(gr, cps) + iRule(gr)[a.x]
    BY <1>15, <1>9, <1>13 DEF Numbered
  <2>3. IsSound(gr, sts, way[b].at, a) /\ Reading(gr, word, a.sp, way[b].upto, n)
    BY <1>5, <1>13 DEF k
  <2>4. Going(gr, sts, cps, order, word, q.stack, n)
    BY <1>2, <1>3, <1>4, <1>15, <1>18, <1>19, <2>1, <2>2, <2>3, Entered
  <2> QED
    BY <1>16, <1>17, <2>4
<1>20. CASE a.type = "ACCEPT"
  <2>1. k = 1 /\ lhs = Start(gr) /\ yyact = accAction(gr, cps) /\ b = 1 /\ way[1].upto = 0
    BY <1>13, <1>20, <1>4, <1>6 DEF IsSound, IsWay, Numbered
  <2>2. IsAt(cps, order, q.stack[1].stateno, 1)
    BY <1>18, <2>1 DEF k
  <2>3. lhsStart(gr, r)
    BY <2>1 DEF lhsStart, lhs
  <2>4. Accepting(gr, cps, word, q.stack, n)
    BY <1>5, <1>15, <2>1, <2>3 DEF Accepting
  <2> QED
    BY <1>15, <1>16, <1>17, <2>2, <2>4 DEF Going
<1> QED
  BY <1>13, <1>19, <1>20

\* A token shifted is read.
LEMMA ShiftGoes ==
    ASSUME NEW gr, NEW sts, NEW cps, NEW order, NEW pk, NEW word,
           IsSetting(gr, sts, cps, order, pk, word), NEW T, T = ReportTable(gr, cps, order, pk),
           NEW p, "stack" \in DOMAIN p, "ok" \in DOMAIN p, IsStack(p.stack),
           NEW n, NEW way, Follows(gr, sts, cps, order, word, p.stack, n, way),
           IsAt(cps, order, p.stack[Len(p.stack)].stateno, way[Len(p.stack)].at),
           NEW a, IsSound(gr, sts, way[Len(p.stack)].at, a), a.type \in {"SHIFT", "SHIFTREDUCE"},
           a.sp \in Terminals(gr), NEW yyact, Numbered(gr, cps, order, a, yyact),
           NEW upto, Reading(gr, word, a.sp, n, upto),
           NEW major, NEW minor, NEW q, q = yy_shift(T, p, yyact, major, minor)
    PROVE  GoesOn(gr, sts, cps, order, word, p, q, upto)
<1> DEFINE m == Len(p.stack)
           e == [stateno |-> IF yyact > YY_MAX_SHIFT(T)
                             THEN yyact + T.YY_MIN_REDUCE - T.YY_MIN_SHIFTREDUCE ELSE yyact,
                 major |-> major, minor |-> minor]
           new == Append(p.stack, e)
<1>1. m \in Nat /\ m >= 1 /\ m \in 1 .. m /\ IsSeq(p.stack)
  BY DEF IsStack, IsSeq
<1>2. Emptied(p, q) \/ (q.stack = new /\ q.ok = p.ok)
  BY DEF yy_shift, PopAll, Emptied
<1> SUFFICES ASSUME q.stack = new, q.ok = p.ok
             PROVE  Going(gr, sts, cps, order, word, q.stack, upto) /\ ~ AtBottom(q)
  BY <1>2 DEF GoesOn
<1>3. /\ IsSeq(new) /\ Len(new) = m + 1 /\ new[m + 1] = e
      /\ \A i \in 1 .. m : new[i] = p.stack[i]
  <2> HIDE DEF e
  <2> QED
    BY <1>1, Pushed
<1>4. e.stateno = IF yyact > YY_MAX_SHIFT(T)
                  THEN yyact + T.YY_MIN_REDUCE - T.YY_MIN_SHIFTREDUCE ELSE yyact
  OBVIOUS
<1> HIDE DEF e, new
<1>5. IsStack(q.stack)
  BY <1>1, <1>3 DEF IsStack
<1>6. AllWritten(gr, cps, order, pk)
  BY DEF IsSetting
<1>7. /\ Len(cps) \in Nat /\ nxstate(cps, order) \in 1 .. Len(cps) /\ Len(gr.rules) \in Nat
      /\ YY_MAX_SHIFT(T) = nxstate(cps, order) - 1 /\ T.YY_MIN_SHIFTREDUCE = Len(cps)
      /\ T.YY_MIN_REDUCE = Len(cps) + Len(gr.rules) + 3
      /\ minReduce(gr, cps) = T.YY_MIN_REDUCE /\ minShiftReduce(cps) = Len(cps)
      /\ \A r \in Rules(gr) : iRule(gr)[r] \in 0 .. Len(gr.rules) - 1
  BY <1>6, RangesOfNumbers
<1>8. a.type = "SHIFT" => IsAt(cps, order, e.stateno, a.x)
  BY <1>4, <1>7 DEF Numbered, IsAt
<1>9. a.type = "SHIFTREDUCE" => e.stateno = minReduce(gr, cps) + iRule(gr)[a.x]
  <2> SUFFICES ASSUME a.type = "SHIFTREDUCE" PROVE e.stateno = minReduce(gr, cps) + iRule(gr)[a.x]
    OBVIOUS
  <2>1. a.x \in Rules(gr) /\ yyact = minShiftReduce(cps) + iRule(gr)[a.x]
    BY DEF Numbered
  <2> DEFINE i == iRule(gr)[a.x]
             nstates == nxstate(cps, order)
  <2>2. i \in 0 .. Len(gr.rules) - 1 /\ yyact = Len(cps) + i
    BY <1>7, <2>1
  <2> HIDE DEF i, nstates
  <2>3. nstates \in 1 .. Len(cps) /\ YY_MAX_SHIFT(T) = nstates - 1
    BY <1>7 DEF nstates
  <2>4. yyact > YY_MAX_SHIFT(T)
    BY <1>7, <2>2, <2>3
  <2>5. e.stateno = yyact + T.YY_MIN_REDUCE - T.YY_MIN_SHIFTREDUCE
    BY <1>4, <2>4
  <2>6. e.stateno = T.YY_MIN_REDUCE + i
    <3>1. /\ T.YY_MIN_SHIFTREDUCE = Len(cps) /\ Len(cps) \in Int /\ T.YY_MIN_REDUCE \in Int
          /\ i \in Int /\ yyact = Len(cps) + i
      BY <1>7, <2>2
    <3> DEFINE c == Len(cps)
               min == T.YY_MIN_REDUCE
               number == e.stateno
    <3>2. number = yyact + min - c /\ c \in Int /\ min \in Int /\ i \in Int /\ yyact = c + i
      BY <2>5, <3>1
    <3> HIDE DEF c, min, number
    <3>3. number = min + i
      BY <3>2
    <3> QED
      BY <3>3 DEF min, number
  <2> QED
    BY <1>7, <2>6 DEF i
<1>10. IsWay(gr, sts, word, way, m) /\ way[m].upto = n
  BY DEF Follows
<1>11. \A i \in 1 .. m : IsAt(cps, order, q.stack[i].stateno, way[i].at)
  BY <1>1, <1>3 DEF Follows
<1>12. Reading(gr, word, a.sp, way[m].upto, upto)
  BY <1>10
<1>13. q.stack[m + 1].stateno = e.stateno /\ Len(q.stack) = m + 1
  BY <1>3
<1> HIDE DEF m
<1>14. IsSound(gr, sts, way[m].at, a)
  BY DEF m
<1>15. a.type = "SHIFT" => IsAt(cps, order, q.stack[m + 1].stateno, a.x)
  BY <1>8, <1>13
<1>16. a.type = "SHIFTREDUCE" => q.stack[m + 1].stateno = minReduce(gr, cps) + iRule(gr)[a.x]
  BY <1>9, <1>13
<1> QED
  <2>1. Going(gr, sts, cps, order, word, q.stack, upto)
    BY <1>1, <1>5, <1>10, <1>11, <1>12, <1>13, <1>14, <1>15, <1>16, Entered
  <2>2. ~ AtBottom(q)
    BY <1>1, <1>13 DEF AtBottom
  <2> QED
    BY <2>1, <2>2

\* Reducing keeps the fields of the parser.
LEMMA ReduceFields ==
    ASSUME NEW T, NEW p, NEW yyruleno
    PROVE  DOMAIN yy_reduce(T, p, yyruleno) = DOMAIN p
  BY DEF yy_reduce, PopAll, Asserting

\* How much of the word is read after a round: a token more if Parse returns.
NextPlace(word, n, q) == IF q.busy \/ word = << >> THEN n ELSE n + 1

\* What a round of Parse with the token t makes of p, with n tokens read before it.
Gone(gr, sts, cps, order, T, word, n, t, found, p, q) ==
    /\ p.ok /\ ShiftAsserts(T, t, yytos(p).stateno) => q.ok
    /\ q.ok /\ found = T.YY_ACCEPT_ACTION =>
         ~ q.busy /\ Reading(gr, word, Start(gr), 0, n) /\ (StartOnce(gr) => AtEnd(word, n))
    /\ q.ok /\ found # T.YY_ACCEPT_ACTION =>
         \/ q.stack = <<p.stack[1]>>
         \/ found = T.YY_ERROR_ACTION /\ q.stack = p.stack
         \/ Going(gr, sts, cps, order, word, q.stack, NextPlace(word, n, q))

\* The fields of a parser.
Fields == {"stack", "yyerrcnt", "arg", "busy", "ok"}

\* A round that reduces.
LEMMA RoundReduces ==
    ASSUME NEW gr, NEW sts, NEW cps, NEW order, NEW pk, NEW word,
           IsSetting(gr, sts, cps, order, pk, word), NEW T, T = ReportTable(gr, cps, order, pk),
           NEW p, DOMAIN p = Fields, IsStack(p.stack),
           NEW n, NEW way, Follows(gr, sts, cps, order, word, p.stack, n, way),
           NEW r, Ends(gr, sts, way[Len(p.stack)].at, r),
           \/ IsAt(cps, order, p.stack[Len(p.stack)].stateno, way[Len(p.stack)].at)
           \/ gr.rules[r].rhs # << >>,
           lhsStart(gr, r) /\ StartOnce(gr) => AtEnd(word, n),
           NEW t, NEW minor, NEW q, q = Once(T, p, t, minor), NEW found,
           found = yy_find_shift_action(T, t, yytos(p).stateno),
           ShiftAsserts(T, t, yytos(p).stateno), found = minReduce(gr, cps) + iRule(gr)[r]
    PROVE  Gone(gr, sts, cps, order, T, word, n, t, found, p, q)
<1> DEFINE made == yy_reduce(T, p, iRule(gr)[r])
<1>1. AllWritten(gr, cps, order, pk) /\ r \in Rules(gr)
  BY DEF IsSetting, Ends
<1>2. /\ Len(cps) \in Nat /\ Len(gr.rules) \in Nat
      /\ T.YY_ERROR_ACTION = Len(cps) + Len(gr.rules)
      /\ T.YY_ACCEPT_ACTION = Len(cps) + Len(gr.rules) + 1
      /\ T.YY_MIN_REDUCE = Len(cps) + Len(gr.rules) + 3
      /\ minReduce(gr, cps) = T.YY_MIN_REDUCE
      /\ iRule(gr)[r] \in 0 .. Len(gr.rules) - 1
  BY <1>1, RangesOfNumbers
<1>3. /\ found >= T.YY_MIN_REDUCE /\ found - T.YY_MIN_REDUCE = iRule(gr)[r]
      /\ found # T.YY_ACCEPT_ACTION
  <2> DEFINE i == iRule(gr)[r]
  <2>1. found = minReduce(gr, cps) + i /\ i \in 0 .. Len(gr.rules) - 1
    BY <1>2
  <2> HIDE DEF i
  <2>2. found >= T.YY_MIN_REDUCE /\ found - T.YY_MIN_REDUCE = i /\ found # T.YY_ACCEPT_ACTION
    BY <1>2, <2>1
  <2> QED
    BY <2>2 DEF i
<1>4. q = [made EXCEPT !.busy = made.ok /\ ~ AtBottom(made)]
  BY <1>3 DEF Once
<1>5. DOMAIN made = Fields
  BY ReduceFields
<1>6. GoesOn(gr, sts, cps, order, word, p, made, n)
  BY ReduceGoes DEF Fields
<1> HIDE DEF made
<1>7. /\ q.stack = made.stack /\ q.ok = made.ok
      /\ q.busy = (made.ok /\ ~ AtBottom(made)) /\ AtBottom(q) = AtBottom(made)
  BY <1>4, <1>5 DEF Fields, AtBottom
<1> QED
  BY <1>3, <1>6, <1>7 DEF Gone, GoesOn, Emptied, NextPlace

\* A round of Parse keeps the fields of the parser.
LEMMA RoundFields ==
    ASSUME NEW T, NEW p, NEW t, NEW minor
    PROVE  DOMAIN Once(T, p, t, minor) = DOMAIN p
  BY ReduceFields DEF Once, yy_shift, yy_accept, Error, PopAll, Asserting

\* The numbers of shifts are below those of reductions.
LEMMA BelowReductions ==
    ASSUME NEW gr, NEW cps, NEW order, NEW pk, AllWritten(gr, cps, order, pk), IsGrammar(gr),
           NEW T, T = ReportTable(gr, cps, order, pk), NEW found,
           \/ found \in 0 .. nxstate(cps, order) - 1
           \/ \E r \in Rules(gr) : found = Len(cps) + iRule(gr)[r]
    PROVE  found <= YY_MAX_SHIFTREDUCE(T) /\ ~ (found >= T.YY_MIN_REDUCE)
<1> DEFINE c == Len(cps)
           l == Len(gr.rules)
           s == nxstate(cps, order)
           i == iRule(gr)
<1>1. /\ c \in Nat /\ l \in Nat /\ s \in 1 .. c
      /\ YY_MAX_SHIFTREDUCE(T) = c + l - 1 /\ T.YY_MIN_REDUCE = c + l + 3
      /\ \A r \in Rules(gr) : i[r] \in 0 .. l - 1
  BY RangesOfNumbers
<1>2. \/ found \in 0 .. s - 1
      \/ \E r \in Rules(gr) : found = c + i[r]
  OBVIOUS
<1> HIDE DEF c, l, s, i
<1> QED
  BY <1>1, <1>2

\* The numbers of reductions and of accepting are above those of states.
LEMMA AboveStates ==
    ASSUME NEW gr, NEW cps, NEW order, NEW pk, AllWritten(gr, cps, order, pk),
           NEW T, T = ReportTable(gr, cps, order, pk), NEW stateno,
           \/ \E r \in Rules(gr) : stateno = minReduce(gr, cps) + iRule(gr)[r]
           \/ stateno = accAction(gr, cps)
    PROVE  stateno > YY_MAX_SHIFT(T)
<1> DEFINE c == Len(cps)
           l == Len(gr.rules)
           s == nxstate(cps, order)
           i == iRule(gr)
<1>1. /\ c \in Nat /\ l \in Nat /\ s \in 1 .. c /\ YY_MAX_SHIFT(T) = s - 1
      /\ minReduce(gr, cps) = c + l + 3 /\ accAction(gr, cps) = c + l + 1
      /\ \A r \in Rules(gr) : i[r] \in 0 .. l - 1
  BY RangesOfNumbers
<1>2. (\E r \in Rules(gr) : stateno = minReduce(gr, cps) + i[r]) \/ stateno = accAction(gr, cps)
  OBVIOUS
<1> HIDE DEF c, l, s, i
<1> QED
  BY <1>1, <1>2

\* A round of Parse goes on, accepts what is a sentence, or fails.
LEMMA RoundMade ==
    ASSUME NEW gr, NEW sts, NEW cps, NEW order, NEW pk, NEW word,
           IsSetting(gr, sts, cps, order, pk, word), NEW T, T = ReportTable(gr, cps, order, pk),
           NEW p, DOMAIN p = Fields, NEW n \in Nat, NEW t \in Terminals(gr),
           word # << >> => n < Len(word) /\ t = word[n + 1],
           Going(gr, sts, cps, order, word, p.stack, n),
           NEW minor, NEW q, q = Once(T, p, t, minor),
           NEW found, found = yy_find_shift_action(T, t, yytos(p).stateno)
    PROVE  Gone(gr, sts, cps, order, T, word, n, t, found, p, q)
<1> DEFINE m == Len(p.stack)
           stateno == p.stack[m].stateno
<1>1. /\ AllWritten(gr, cps, order, pk) /\ ~ pk.shared /\ AllSoundStates(gr, sts, cps)
      /\ IsGrammar(gr) /\ Len(word) \in Nat
      /\ (t = 0 => AtEnd(word, n)) /\ (word # << >> => n + 1 \in 1 .. Len(word))
  BY DEF IsSetting, AllWritten, AtEnd
<1>2. yytos(p).stateno = stateno /\ m \in Nat /\ m >= 1 /\ IsStack(p.stack)
  BY DEF yytos, Going, IsStack, IsSeq
<1>3. /\ Len(cps) \in Nat /\ Len(gr.rules) \in Nat /\ nxstate(cps, order) \in 1 .. Len(cps)
      /\ YY_MAX_SHIFT(T) = nxstate(cps, order) - 1
      /\ YY_MAX_SHIFTREDUCE(T) = Len(cps) + Len(gr.rules) - 1
      /\ T.YY_ERROR_ACTION = Len(cps) + Len(gr.rules)
      /\ T.YY_ACCEPT_ACTION = Len(cps) + Len(gr.rules) + 1
      /\ T.YY_MIN_REDUCE = Len(cps) + Len(gr.rules) + 3
      /\ errAction(gr, cps) = T.YY_ERROR_ACTION /\ accAction(gr, cps) = T.YY_ACCEPT_ACTION
      /\ minReduce(gr, cps) = T.YY_MIN_REDUCE /\ minShiftReduce(cps) = Len(cps)
      /\ \A r \in Rules(gr) : iRule(gr)[r] \in 0 .. Len(gr.rules) - 1
  BY <1>1, RangesOfNumbers
<1> DEFINE Result == Gone(gr, sts, cps, order, T, word, n, t, found, p, q)
<1>4. CASE ~ ShiftAsserts(T, t, stateno)
  BY <1>2, <1>4 DEF Once, Asserting, Fields, Gone
<1>5. CASE ShiftAsserts(T, t, stateno) /\ Accepting(gr, cps, word, p.stack, n)
  <2>1. stateno = T.YY_ACCEPT_ACTION
    BY <1>3, <1>5 DEF Accepting
  <2>2. stateno > YY_MAX_SHIFT(T)
    BY <1>3, <2>1
  <2>3. found = T.YY_ACCEPT_ACTION
    BY <1>2, <2>1, <2>2 DEF yy_find_shift_action
  <2>4. ~ (found >= T.YY_MIN_REDUCE) /\ ~ (found <= YY_MAX_SHIFTREDUCE(T)) /\ found # T.YY_ERROR_ACTION
    BY <1>3, <2>3
  <2>5. q = yy_accept(p)
    BY <1>2, <1>5, <2>3, <2>4 DEF Once
  <2>6. ~ q.busy
    BY <2>5 DEF yy_accept, Asserting, Fields
  <2>7. p.ok => q.ok
    <3> DEFINE rest == SubSeq(p.stack, 1, m - 1)
    <3>1. Len(rest) = 1
      <4>1. IsSeq(p.stack) /\ 1 \in 0 .. Len(p.stack) /\ rest = SubSeq(p.stack, 1, 1)
        BY <1>2, <1>5 DEF Accepting, IsStack
      <4> HIDE DEF rest
      <4> QED
        BY <4>1, CutOff
    <3> HIDE DEF rest
    <3> QED
      BY <2>5, <3>1 DEF yy_accept, Asserting, Fields, AtBottom, rest
  <2> QED
    BY <1>5, <2>3, <2>6, <2>7 DEF Gone, Accepting
<1>6. ASSUME ShiftAsserts(T, t, stateno), NEW way,
             Follows(gr, sts, cps, order, word, p.stack, n, way)
      PROVE  Result
  <2> DEFINE k == way[m].at
  <2>1. ASSUME NEW r, Ends(gr, sts, k, r), lhsStart(gr, r) /\ StartOnce(gr) => AtEnd(word, n),
               IsAt(cps, order, stateno, k) \/ gr.rules[r].rhs # << >>,
               found = minReduce(gr, cps) + iRule(gr)[r]
        PROVE  Result
    BY <1>2, <1>6, <2>1, RoundReduces
  <2>2. CASE Pending(gr, sts, cps, stateno, k)
    <3>1. PICK r \in Rules(gr) : /\ stateno = minReduce(gr, cps) + iRule(gr)[r]
                                 /\ Ends(gr, sts, k, r) /\ ~ lhsStart(gr, r)
                                 /\ gr.rules[r].rhs # << >>
      BY <2>2 DEF Pending
    <3>2. stateno > YY_MAX_SHIFT(T)
      <4> HIDE DEF stateno
      <4>1. \E s \in Rules(gr) : stateno = minReduce(gr, cps) + iRule(gr)[s]
        BY <3>1
      <4> QED
        BY <1>1, <4>1, AboveStates
    <3>3. found = stateno
      BY <1>2, <3>2 DEF yy_find_shift_action
    <3> HIDE DEF k, stateno, Result
    <3> QED
      BY <2>1, <3>1, <3>3
  <2>3. CASE IsAt(cps, order, stateno, k)
    <3> DEFINE ap == cps[k].ap
    <3>1. stateno \in 0 .. nxstate(cps, order) - 1 /\ order[stateno + 1] = k /\ k \in DOMAIN sts
      <4>1. IsWay(gr, sts, word, way, m)
        BY <1>6 DEF Follows
      <4> HIDE DEF m
      <4>2. k \in DOMAIN sts
        BY <1>2, <4>1 DEF IsWay
      <4> HIDE DEF k, stateno
      <4> QED
        BY <2>3, <4>2 DEF IsAt
    <3>2. \/ found = T.YY_ERROR_ACTION
          \/ \E i \in DOMAIN ap : /\ Emitted(ap[i]) /\ ap[i].sp \in {t, Default(gr)}
                                  /\ Numbered(gr, cps, order, ap[i], found)
      <4> DEFINE at == order[stateno + 1]
                 on == yy_find_shift_action(T, t, stateno)
                 Known == \/ on = T.YY_ERROR_ACTION
                          \/ \E i \in DOMAIN cps[at].ap :
                               /\ Emitted(cps[at].ap[i]) /\ cps[at].ap[i].sp \in {t, Default(gr)}
                               /\ Numbered(gr, cps, order, cps[at].ap[i], on)
      <4>1. Known
        <5> HIDE DEF stateno
        <5> QED
          BY <1>1, <1>6, <3>1, TokenFound
      <4>2. on = found /\ at = k
        <5> HIDE DEF k, stateno
        <5> QED
          BY <1>2, <3>1
      <4> HIDE DEF on, at, k
      <4> QED
        BY <4>1, <4>2
    <3>3. ASSUME NEW i \in DOMAIN ap, Emitted(ap[i]), ap[i].sp \in {t, Default(gr)},
                 Numbered(gr, cps, order, ap[i], found), found # T.YY_ERROR_ACTION
          PROVE  Result
      <4> DEFINE a == ap[i]
      <4>1. IsSound(gr, sts, k, a) /\ Emitted(a) /\ a.sp \in {t, Default(gr)}
            /\ Numbered(gr, cps, order, a, found)
        BY <1>1, <3>1, <3>3 DEF AllSoundStates, IsSoundState
      <4> HIDE DEF a
      <4>2. CASE a.type = "REDUCE"
        <5>1. found = minReduce(gr, cps) + iRule(gr)[a.x]
          BY <4>1, <4>2 DEF Numbered
        <5>2. Ends(gr, sts, k, a.x) /\ (lhsStart(gr, a.x) /\ StartOnce(gr) => a.sp = 0)
          BY <4>1, <4>2 DEF IsSound
        <5>3. Default(gr) # 0
          BY <1>1, PartsOfGrammar DEF Default
        <5>4. lhsStart(gr, a.x) /\ StartOnce(gr) => AtEnd(word, n)
          BY <1>1, <4>1, <5>2, <5>3
        <5> HIDE DEF k, stateno, Result
        <5> QED
          BY <2>1, <2>3, <5>1, <5>2, <5>4
      <4>3. CASE a.type \in {"SHIFT", "SHIFTREDUCE"}
        <5> DEFINE made == yy_shift(T, p, found, t, minor)
                   upto == IF word = << >> THEN n ELSE n + 1
        <5>1. a.sp \in Symbols(gr)
          BY <4>1, <4>3 DEF IsSound, Leads, IsNameOf
        <5>2. a.sp = t
          BY <1>1, <4>1, <5>1, KindsOfSymbols
        <5>3. Reading(gr, word, a.sp, n, upto)
          <6>1. n \in 0 .. Len(word)
            BY <1>2, <1>6 DEF Follows, IsWay
          <6> QED
            BY <1>1, <5>2, <6>1 DEF Reading, ReadAs
        <5>4. found <= YY_MAX_SHIFTREDUCE(T) /\ ~ (found >= T.YY_MIN_REDUCE)
          <6>1. \/ found \in 0 .. nxstate(cps, order) - 1
                \/ \E r \in Rules(gr) : found = minShiftReduce(cps) + iRule(gr)[r]
            BY <1>1, <4>1, <4>3, <5>2 DEF Numbered
          <6>2. minShiftReduce(cps) = Len(cps)
            BY <1>3
          <6> QED
            BY <1>1, <6>1, <6>2, BelowReductions
        <5>5. q = [made EXCEPT !.yyerrcnt = @ - 1, !.busy = FALSE]
          BY <1>2, <1>6, <5>4 DEF Once
        <5>6. DOMAIN made = Fields
          BY DEF yy_shift, PopAll, Fields
        <5>7. GoesOn(gr, sts, cps, order, word, p, made, upto)
          <6>1. made = yy_shift(T, p, found, t, minor)
            OBVIOUS
          <6>2. IsAt(cps, order, p.stack[Len(p.stack)].stateno, way[Len(p.stack)].at)
            BY <2>3
          <6>3. /\ IsSound(gr, sts, way[Len(p.stack)].at, a)
                /\ "stack" \in DOMAIN p /\ "ok" \in DOMAIN p /\ a.sp \in Terminals(gr)
            BY <1>1, <4>1, <5>2 DEF Fields
          <6>4. Follows(gr, sts, cps, order, word, p.stack, n, way) /\ IsStack(p.stack)
            BY <1>2, <1>6
          <6>5. Numbered(gr, cps, order, a, found) /\ a.type \in {"SHIFT", "SHIFTREDUCE"}
            BY <4>1, <4>3
          <6> HIDE DEF made, upto, m, k, stateno
          <6> QED
            BY <5>3, <6>1, <6>2, <6>3, <6>4, <6>5, ShiftGoes
        <5> HIDE DEF made
        <5>8. q.stack = made.stack /\ ~ q.busy /\ q.ok = made.ok
          BY <5>5, <5>6 DEF Fields
        <5>9. found # T.YY_ACCEPT_ACTION
          BY <1>3, <5>4
        <5>10. NextPlace(word, n, q) = upto
          BY <5>8 DEF NextPlace
        <5> HIDE DEF upto
        <5> QED
          BY <5>7, <5>8, <5>9, <5>10 DEF Gone, GoesOn, Emptied
      <4>4. CASE a.type = "ACCEPT"
        BY <4>1, <4>4, <1>1, KindsOfSymbols DEF IsSound
      <4>5. a.type # "ERROR"
        BY <1>3, <3>3, <4>1 DEF Numbered
      <4> QED
        BY <4>1, <4>2, <4>3, <4>4, <4>5 DEF Emitted
    <3>4. CASE found = T.YY_ERROR_ACTION
      <4>1. /\ ~ (found >= T.YY_MIN_REDUCE) /\ ~ (found <= YY_MAX_SHIFTREDUCE(T))
            /\ found # T.YY_ACCEPT_ACTION
        BY <1>3, <3>4
      <4>2. q = Asserting(Error(p, t), found = T.YY_ERROR_ACTION)
        BY <1>2, <1>6, <4>1 DEF Once
      <4>3. (p.ok => q.ok) /\ q.stack \in {p.stack, <<p.stack[1]>>}
        BY <3>4, <4>2 DEF Asserting, Error, PopAll, Fields
      <4> QED
        BY <3>4, <4>1, <4>3 DEF Gone
    <3> QED
      BY <3>2, <3>3, <3>4
  <2> QED
    BY <1>6, <2>2, <2>3 DEF Follows
<1> QED
  BY <1>4, <1>5, <1>6 DEF Going

\* Where every state has an offset the assertions of yy_find_shift_action hold.
LEMMA LookedUp ==
    ASSUME NEW gr, NEW sts, NEW cps, NEW order, NEW pk, NEW word,
           IsSetting(gr, sts, cps, order, pk, word), NEW T, T = ReportTable(gr, cps, order, pk),
           DOMAIN T.yy_shift_ofst = 0 .. YY_MAX_SHIFT(T), NEW t \in Terminals(gr),
           NEW p, NEW n, Going(gr, sts, cps, order, word, p.stack, n)
    PROVE  ShiftAsserts(T, t, yytos(p).stateno)
<1> DEFINE m == Len(p.stack)
           stateno == p.stack[m].stateno
<1>1. AllWritten(gr, cps, order, pk) /\ yytos(p).stateno = stateno
  BY DEF IsSetting, yytos
<1>2. YY_MAX_SHIFT(T) = nxstate(cps, order) - 1
  BY <1>1, RangesOfNumbers
<1>3. CASE stateno \in 0 .. nxstate(cps, order) - 1
  <2>1. stateno \in DOMAIN T.yy_shift_ofst
    BY <1>2, <1>3
  <2> HIDE DEF stateno
  <2>2. ShiftAsserts(T, t, stateno)
    BY <1>1, <1>3, <2>1, ShiftFound, ShiftMissed
  <2> QED
    BY <1>1, <2>2
<1>4. CASE stateno > YY_MAX_SHIFT(T)
  BY <1>1, <1>4 DEF ShiftAsserts
<1>5. \/ stateno \in 0 .. nxstate(cps, order) - 1
      \/ \E r \in Rules(gr) : stateno = minReduce(gr, cps) + iRule(gr)[r]
      \/ stateno = accAction(gr, cps)
  <2>1. CASE Accepting(gr, cps, word, p.stack, n)
    BY <2>1 DEF Accepting
  <2>2. ASSUME NEW way, Follows(gr, sts, cps, order, word, p.stack, n, way)
        PROVE  \/ stateno \in 0 .. nxstate(cps, order) - 1
               \/ \E r \in Rules(gr) : stateno = minReduce(gr, cps) + iRule(gr)[r]
    BY <2>2 DEF Follows, IsAt, Pending
  <2> HIDE DEF stateno
  <2> QED
    BY <2>1, <2>2 DEF Going
<1> QED
  BY <1>1, <1>3, <1>4, <1>5, AboveStates

\* Any parser goes on from the bottom of its stack.
LEMMA BottomGoes ==
    ASSUME NEW gr, NEW sts, NEW cps, NEW order, NEW pk, NEW word,
           IsSetting(gr, sts, cps, order, pk, word),
           NEW e, IsAt(cps, order, e.stateno, 1)
    PROVE  Going(gr, sts, cps, order, word, <<e>>, 0)
<1> DEFINE stack == <<e>>
           way == <<[at |-> 1, upto |-> 0, sp |-> 0]>>
<1>1. IsStack(stack) /\ Len(stack) = 1 /\ stack[1] = e
  BY DEF IsStack, IsSeq
<1>2. IsWay(gr, sts, word, way, 1) /\ way[1].upto = 0 /\ way[1].at = 1
  BY DEF IsWay, StartsFirst, IsSetting
<1> HIDE DEF stack, way
<1>3. Follows(gr, sts, cps, order, word, stack, 0, way)
  BY <1>1, <1>2 DEF Follows
<1> QED
  BY <1>1, <1>3 DEF Going, stack

\* What is known of lemon while it runs; no parser has been used yet.
LemonKnown ==
    /\ StatesInv /\ TablesInv /\ StartInv /\ WrittenInv /\ SoundInv
    /\ phase # "start" => errors \/ StartOnce(g)
    /\ nread = 0 /\ ~ accepted /\ ~ failed

\* What is known of a parser with tables that can be trusted.  Without failure it has read the
\* tokens before nread; with offsets for all states its assertions hold, whatever it has read.
ParserKnown ==
    /\ IsSetting(g, states, parser, sorted, pack, input) /\ input # << >>
    /\ tables = ReportTable(g, parser, sorted, pack)
    /\ errors \/ StartOnce(g)
    /\ DOMAIN yyp = Fields /\ nread \in Nat /\ (yyp.busy => nread < Len(input))
    /\ ~ failed =>
         IF accepted
         THEN /\ ~ yyp.busy /\ Reading(g, input, Start(g), 0, nread)
              /\ StartOnce(g) => nread + 1 = Len(input)
         ELSE Going(g, states, parser, sorted, input, yyp.stack, nread)
    /\ EveryStateHasOffset =>
         /\ yyp.ok
         /\ IF accepted THEN ~ yyp.busy ELSE Going(g, states, parser, sorted, << >>, yyp.stack, 0)

Trusted == ~ pack.shared /\ pack.table.nAction <= pack.table.nActionAlloc

ParsingInv ==
    /\ phase # "parsing" => LemonKnown
    /\ phase = "parsing" /\ Trusted => ParserKnown

\* A step of lemon.
LEMMA GenerateKnows ==
    ASSUME ParsingInv, Generate
    PROVE  ParsingInv'
<1>1. Next /\ UNCHANGED parsingVars
  BY DEF Generate
<1>2. phase # "parsing"
  BY <1>1 DEF Next, FirstState, BuildShifts, ShiftsBuilt, StatesFound, Follow, FollowPass,
              FindActions, ResolveConflict, ConflictsResolved, CompressAll, RenameAction, Renamed,
              PackRow, Report
<1>3. LemonKnown
  BY <1>2 DEF ParsingInv
<1>4. (StatesInv /\ TablesInv /\ StartInv /\ WrittenInv /\ SoundInv)'
  BY <1>1, <1>3, StatesInvNext, TablesInvNext, StartInvNext, WrittenInvNext, SoundInvNext
     DEF LemonKnown
<1>5. phase' # "start" => errors' \/ StartOnce(g)'
  <2>1. CASE FirstState
    BY <2>1 DEF FirstState, GrammarErrors, StartOnce, Range
  <2>2. CASE ~ FirstState
    <3>1. phase # "start"
      BY <1>1, <2>2 DEF Next, BuildShifts, ShiftsBuilt, StatesFound, Follow, FollowPass,
              FindActions, ResolveConflict, ConflictsResolved, CompressAll, RenameAction, Renamed,
              PackRow, Report
    <3>2. g' = g
      BY <1>1, <2>2 DEF Next, BuildShifts, ShiftsBuilt, StatesFound, Follow, FollowPass,
              FindActions, ResolveConflict, ConflictsResolved, CompressAll, RenameAction, Renamed,
              PackRow, Report
    <3>3. errors => errors'
      BY <1>1, <2>2 DEF Next, BuildShifts, ShiftsBuilt, StatesFound, Follow, FollowPass,
              FindActions, ResolveConflict, ConflictsResolved, CompressAll, RenameAction, Renamed,
              PackRow, Report
    <3> QED
      BY <1>3, <3>1, <3>2, <3>3 DEF LemonKnown, StartOnce
  <2> QED
    BY <2>1, <2>2
<1>6. phase' # "parsing"
  <2>1. CASE RenameAction
    <3> DEFINE at == FirstRenaming(Renaming(g, parser))
    <3>1. phase' = IF Rename(g, parser[at[1]].ap, at[2]).outcome = "ok" THEN phase
                   ELSE Rename(g, parser[at[1]].ap, at[2]).outcome
      BY <2>1 DEF RenameAction
    <3>2. Rename(g, parser[at[1]].ap, at[2]).outcome \in {"ok", "aborted", "hangs"}
      BY DEF Rename
    <3> QED
      BY <1>2, <3>1, <3>2
  <2>2. CASE ~ RenameAction
    BY <1>1, <1>2, <2>2 DEF Next, FirstState, BuildShifts, ShiftsBuilt, StatesFound, Follow,
              FollowPass, FindActions, ResolveConflict, ConflictsResolved, CompressAll, Renamed,
              PackRow, Report
  <2> QED
    BY <2>1, <2>2
<1>7. (nread = 0 /\ ~ accepted /\ ~ failed)'
  BY <1>1, <1>3 DEF LemonKnown, parsingVars
<1> QED
  BY <1>4, <1>5, <1>6, <1>7 DEF ParsingInv, LemonKnown

\* The parser is used on a word.
LEMMA AllocKnows ==
    ASSUME ParsingInv, ParseAlloc
    PROVE  ParsingInv'
<1>1. /\ phase = "done" /\ phase' = "parsing" /\ g' = g /\ states' = states /\ parser' = parser
      /\ pack' = pack /\ tables' = tables /\ errors' = errors /\ nread' = nread
      /\ accepted' = accepted /\ failed' = failed /\ yyp' = ParseInit(Argument)
  BY DEF ParseAlloc
<1>2. LemonKnown
  BY <1>1 DEF ParsingInv
<1> SUFFICES ASSUME Trusted' PROVE ParserKnown'
  BY <1>1 DEF ParsingInv
<1>3. Trusted /\ sorted' = sorted
  BY <1>1 DEF Trusted, sorted
<1>4. AllWritten(g, parser, sorted, pack) /\ tables = ReportTable(g, parser, sorted, pack)
  BY <1>1, <1>2, <1>3, EndWritten DEF LemonKnown, Trusted
<1>5. /\ IsAutomaton(g, states, << >>) /\ StartsFirst(g, states) /\ AllSoundStates(g, states, parser)
      /\ errors \/ StartOnce(g)
  BY <1>1, <1>2 DEF LemonKnown, StatesInv, SoundInv
<1>6. /\ Len(input') \in Nat
      /\ \A i \in 1 .. Len(input') : input'[i] \in Terminals(g) /\ (input'[i] = 0 => i = Len(input'))
  BY ParsingAssumption, <1>4, KindsOfSymbols, AppendProperties DEF ParseAlloc, Range, AllWritten
<1>7. IsSetting(g, states, parser, sorted, pack, input')
  BY <1>3, <1>4, <1>5, <1>6 DEF IsSetting, Trusted
<1>8. ASSUME NEW word, IsSetting(g, states, parser, sorted, pack, word)
      PROVE  Going(g, states, parser, sorted, word, ParseInit(Argument).stack, 0)
  <2> DEFINE e == [stateno |-> 0, major |-> 0, minor |-> NoMinor]
  <2>1. IsAt(parser, sorted, 0, 1)
    BY <1>4, StatesResorted, RangesOfNumbers DEF AllWritten, sorted, IsAt
  <2>2. ParseInit(Argument).stack = <<e>> /\ e.stateno = 0
    BY DEF ParseInit
  <2> HIDE DEF e
  <2> QED
    BY <1>8, <2>1, <2>2, BottomGoes
<1>9. /\ DOMAIN ParseInit(Argument) = Fields /\ ~ ParseInit(Argument).busy
      /\ ParseInit(Argument).ok
  BY DEF ParseInit, Fields
<1>10. nread = 0 /\ ~ accepted /\ ~ failed
  BY <1>2 DEF LemonKnown
<1>11. IsSetting(g, states, parser, sorted, pack, << >>)
  BY <1>7 DEF IsSetting
<1>12. input' # << >>
  BY ParsingAssumption, AppendProperties DEF ParseAlloc
<1> QED
  BY <1>1, <1>3, <1>4, <1>5, <1>7, <1>8, <1>9, <1>10, <1>11, <1>12 DEF ParserKnown

\* Parse is called.
LEMMA ParseKnows ==
    ASSUME ParsingInv, Parse
    PROVE  ParsingInv'
<1>1. phase = "parsing" /\ UNCHANGED <<vars, input, nread, accepted, failed>> /\ ~ accepted
  BY DEF Parse
<1>2. nread < Len(input) /\ yyp' = [yyp EXCEPT !.busy = TRUE]
  BY DEF Parse, Offer
<1>3. sorted' = sorted /\ Trusted' = Trusted /\ phase' = "parsing"
  BY <1>1 DEF vars, sorted, Trusted
<1> SUFFICES ASSUME Trusted PROVE ParserKnown'
  BY <1>3 DEF ParsingInv
<1>4. ParserKnown
  BY <1>1 DEF ParsingInv
<1>5. DOMAIN yyp' = Fields /\ yyp'.stack = yyp.stack /\ yyp'.ok = yyp.ok
  BY <1>2, <1>4 DEF ParserKnown, Fields
<1>6. EveryStateHasOffset' = EveryStateHasOffset
  BY <1>1 DEF vars, EveryStateHasOffset
<1> QED
  BY <1>1, <1>2, <1>3, <1>4, <1>5, <1>6 DEF ParserKnown, vars

\* It goes round its loop.
LEMMA RoundKnows ==
    ASSUME ParsingInv, Round
    PROVE  ParsingInv'
<1>1. phase = "parsing" /\ UNCHANGED <<vars, input>> /\ yyp.busy
  BY DEF Round
<1>2. sorted' = sorted /\ Trusted' = Trusted /\ phase' = "parsing"
  BY <1>1 DEF vars, sorted, Trusted
<1> SUFFICES ASSUME Trusted PROVE ParserKnown'
  BY <1>2 DEF ParsingInv
<1>3. ParserKnown
  BY <1>1 DEF ParsingInv
<1>4. PICK yyminor \in Minors : yyp' = Once(tables, yyp, Token, yyminor)
  BY DEF Round
<1>5. /\ accepted' = (yyp'.ok /\ Found = tables.YY_ACCEPT_ACTION)
      /\ failed' = \/ failed
                    \/ /\ ~ accepted'
                       /\ ~ yyp'.ok \/ AtBottom(yyp') \/ Found = tables.YY_ERROR_ACTION
      /\ nread' = IF yyp'.ok /\ ~ yyp'.busy /\ ~ accepted' THEN nread + 1 ELSE nread
  BY DEF Round
<1>6. DOMAIN yyp' = Fields
  BY <1>3, <1>4, RoundFields DEF ParserKnown
<1>7. nread \in Nat /\ nread < Len(input) /\ Len(input) \in Nat
  BY <1>1, <1>3 DEF ParserKnown, IsSetting
<1>8. nread' \in Nat /\ (yyp'.busy => nread' < Len(input))
  BY <1>5, <1>7
<1>9. Token \in Terminals(g)
  BY <1>3, <1>7 DEF ParserKnown, IsSetting, Token
<1>10. ASSUME ~ failed'
      PROVE  IF accepted'
             THEN /\ ~ yyp'.busy /\ Reading(g, input, Start(g), 0, nread')
                  /\ StartOnce(g) => nread' + 1 = Len(input)
             ELSE Going(g, states, parser, sorted, input, yyp'.stack, nread')
  <2>1. ~ failed /\ ~ accepted
    BY <1>1, <1>3, <1>5, <1>10 DEF ParserKnown
  <2>2. Going(g, states, parser, sorted, input, yyp.stack, nread)
    BY <1>3, <2>1 DEF ParserKnown
  <2>3. /\ IsSetting(g, states, parser, sorted, pack, input)
        /\ tables = ReportTable(g, parser, sorted, pack) /\ DOMAIN yyp = Fields
    BY <1>3 DEF ParserKnown
  <2>4. Gone(g, states, parser, sorted, tables, input, nread, Token, Found, yyp, yyp')
    BY <1>4, <1>7, <1>9, <2>2, <2>3, RoundMade DEF Token, Found
  <2>5. input # << >>
    BY <1>3 DEF ParserKnown
  <2>6. CASE accepted'
    BY <1>5, <2>4, <2>5, <2>6 DEF Gone, AtEnd
  <2>7. CASE ~ accepted'
    <3>1. yyp'.ok /\ ~ AtBottom(yyp') /\ Found # tables.YY_ERROR_ACTION /\ Found # tables.YY_ACCEPT_ACTION
      BY <1>5, <1>10, <2>7
    <3>2. yyp'.stack # <<yyp.stack[1]>>
      BY <3>1 DEF AtBottom
    <3>3. nread' = NextPlace(input, nread, yyp')
      BY <1>5, <2>5, <2>7, <3>1 DEF NextPlace
    <3> QED
      BY <2>4, <2>7, <3>1, <3>2, <3>3 DEF Gone
  <2> QED
    BY <2>6, <2>7
<1>11. ASSUME EveryStateHasOffset
       PROVE  /\ yyp'.ok
              /\ IF accepted' THEN ~ yyp'.busy
                 ELSE Going(g, states, parser, sorted, << >>, yyp'.stack, 0)
  <2>1. yyp.ok /\ Going(g, states, parser, sorted, << >>, yyp.stack, 0)
    BY <1>1, <1>3, <1>11 DEF ParserKnown
  <2>2. /\ IsSetting(g, states, parser, sorted, pack, << >>)
        /\ tables = ReportTable(g, parser, sorted, pack) /\ DOMAIN yyp = Fields
    BY <1>3 DEF ParserKnown, IsSetting
  <2>3. ShiftAsserts(tables, Token, yytos(yyp).stateno)
    BY <1>9, <1>11, <2>1, <2>2, LookedUp DEF EveryStateHasOffset
  <2>4. Gone(g, states, parser, sorted, tables, << >>, 0, Token, Found, yyp, yyp')
    BY <1>4, <1>9, <2>1, <2>2, RoundMade DEF Found
  <2>5. yyp'.ok
    BY <2>1, <2>3, <2>4 DEF Gone
  <2>6. CASE accepted'
    BY <1>5, <2>4, <2>5, <2>6 DEF Gone
  <2>7. CASE ~ accepted'
    <3>1. \/ yyp'.stack = <<yyp.stack[1]>> \/ yyp'.stack = yyp.stack
          \/ Going(g, states, parser, sorted, << >>, yyp'.stack, 0)
      BY <1>5, <2>4, <2>5, <2>7 DEF Gone, NextPlace
    <3>2. Going(g, states, parser, sorted, << >>, <<yyp.stack[1]>>, 0)
      BY <2>1, <2>2, BottomGoes DEF Going
    <3> QED
      BY <2>1, <2>5, <2>7, <3>1, <3>2
  <2> QED
    BY <2>5, <2>6, <2>7
<1>12. EveryStateHasOffset' = EveryStateHasOffset
  BY <1>1 DEF vars, EveryStateHasOffset
<1> QED
  BY <1>1, <1>2, <1>3, <1>6, <1>8, <1>10, <1>11, <1>12 DEF ParserKnown, vars

\* So everything known holds at every point, of lemon and of the parser after it.
LEMMA ParsingInvAlways == ParsingSpec => []ParsingInv
<1>1. ParsingInit => ParsingInv
  BY StatesInvInit, NothingPacked DEF ParsingInit, Init, TablesInv, StartInv, WrittenInv, SoundInv,
     ParsingInv, LemonKnown
<1>2. ParsingInv /\ [ParsingNext]_<<vars, parsingVars>> => ParsingInv'
  <2>1. ASSUME ParsingInv, UNCHANGED <<vars, parsingVars>> PROVE ParsingInv'
    BY <2>1, StatesInvNext, TablesInvNext, StartInvNext, WrittenInvNext, SoundInvNext DEF vars,
       sorted, Trusted, LemonKnown, parsingVars, StartOnce, EveryStateHasOffset, ParserKnown,
       ParsingInv
  <2> QED
    BY <2>1, GenerateKnows, AllocKnows, ParseKnows, RoundKnows DEF ParsingNext
<1> QED
  BY <1>1, <1>2, PTL DEF ParsingSpec

(***************************************************************************)
(* For every grammar and every word: what a parser generated for the       *)
(* grammar accepts without complaint is a sentence of it, and the whole    *)
(* word unless the start symbol is on a right-hand side.                   *)
(***************************************************************************)
THEOREM AcceptedAreSentences == ParsingSpec => []AcceptsSentences
<1>1. ParsingInv => AcceptsSentences
  BY ReadsAsReads DEF AcceptsSentences, Trusted, ParsingInv, LemonKnown, ParserKnown, IsSetting,
     Reading
<1> QED
  BY <1>1, ParsingInvAlways, PTL

(***************************************************************************)
(* For every grammar and whatever tokens come: the assertions of lempar.c  *)
(* hold in a parser generated for the grammar, whether or not conflicts    *)
(* have been settled and also after syntax errors and overflows, if every  *)
(* state with tables has an offset, no rows share one that may not, and    *)
(* the tables have not grown past their array.                             *)
(***************************************************************************)
THEOREM AssertionsOfEngine == ParsingSpec => []EngineAsserts
<1>1. ParsingInv => EngineAsserts
  BY DEF EngineAsserts, Trusted, ParsingInv, ParserKnown
<1> QED
  BY <1>1, ParsingInvAlways, PTL

(***************************************************************************)
(* What lemon alone is proved to do it does as well when its parser is     *)
(* used afterwards: follow sets are exact and come to an end, and the      *)
(* tables say what the states do.                                          *)
(***************************************************************************)
THEOREM GeneratorInParsing ==
    ParsingSpec => []FollowSetsExact /\ []TablesSayActions /\ AlwaysCloser
<1>1. ParsingInv => FollowSetsExact
  BY DEF ParsingInv, LemonKnown, StatesInv, IsFollow, links, FollowKnown, Heirs, Given, Inheriting,
     FollowSetsExact
<1>2. ParsingInv => TablesSayActions
  BY EndWritten, TablesWellFormed, StateSays DEF ParsingInv, LemonKnown, TablesSayActions
<1>3. ParsingInv /\ [ParsingNext]_<<vars, parsingVars>>
      => [phase = "follow" /\ phase' = "follow" => Closer]_vars
  <2> SUFFICES ASSUME ParsingInv, ParsingNext, phase = "follow", phase' = "follow"
               PROVE  Closer \/ UNCHANGED vars
    BY DEF vars
  <2>1. CASE Generate
    BY <2>1, FollowComesCloser DEF Generate, ParsingInv, LemonKnown
  <2>2. CASE ParseAlloc \/ Parse \/ Round
    BY <2>2 DEF ParseAlloc, Parse, Round
  <2> QED
    BY <2>1, <2>2 DEF ParsingNext
<1> QED
  BY <1>1, <1>2, <1>3, ParsingInvAlways, PTL DEF ParsingSpec, AlwaysCloser

=============================================================================
