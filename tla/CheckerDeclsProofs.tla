------------------------- MODULE CheckerDeclsProofs -------------------------
(***************************************************************************)
(* What the declarations of an accepted program mean at run time: every    *)
(* class keeps the fields and the slots of the class it extends, so that a *)
(* name, wherever it is looked up, is what the checker took it for.        *)
(***************************************************************************)
EXTENDS CheckerDecls, FiniteSetTheorems, WellFoundedInduction, NaturalsInduction, TLAPS

(***************************************************************************)
(* Numbers                                                                 *)
(***************************************************************************)
\* A set of natural numbers has a least one, and Min is it.
LEMMA Least == ASSUME NEW S, S \subseteq Nat, S # {} PROVE Min(S) \in S /\ \A k \in S : Min(S) <= k
  <1>. DEFINE R == OpToRel(<, Nat)
  <1>1. IsWellFoundedOn(R, Nat) /\ \A j, k \in Nat : j < k => <<j, k>> \in R
    BY NatLessThanWellFounded DEF OpToRel
  <1>. HIDE DEF R
  <1>2. PICK k \in S : \A j \in S : ~(<<j, k>> \in R)
    <2>1. IsWellFoundedOn(R, Nat) /\ S \subseteq Nat /\ S # {}
      BY <1>1
    <2>. QED
      BY <2>1, WFMin, Zenon
  <1>3. \A j \in S : ~(j < k)
    BY <1>1, <1>2
  <1>4. \A j \in S : k <= j
    BY <1>3
  <1>. QED
    BY <1>4 DEF Min

\* A set of natural numbers below a bound has a greatest, and Max is it.
LEMMA Greatest ==
    ASSUME NEW S, S \subseteq Nat, S # {}, NEW b \in Nat, \A k \in S : k <= b
    PROVE  Max(S) \in S /\ \A k \in S : k <= Max(S)
  <1>. DEFINE T == {n \in Nat : \A k \in S : k <= n}
  <1>1. T \subseteq Nat /\ b \in T
    OBVIOUS
  <1>2. Min(T) \in T /\ \A n \in T : Min(T) <= n
    <2>. HIDE DEF T
    <2>. QED
      BY <1>1, Least
  <1>3. Min(T) \in S
    <2>1. ASSUME Min(T) \notin S PROVE FALSE
      <3>1. PICK k \in S : TRUE
        OBVIOUS
      <3>2. \A j \in S : j <= Min(T) - 1
        BY <1>2, <2>1
      <3>3. Min(T) - 1 \in T
        BY <1>2, <3>1, <3>2
      <3>. QED
        BY <1>2, <3>3
    <2>. QED
      BY <2>1
  <1>. QED
    BY <1>2, <1>3 DEF Max

(***************************************************************************)
(* Lists                                                                   *)
(***************************************************************************)
LEMMA ListLength ==
    ASSUME NEW s, IsList(s)
    PROVE  Len(s) \in Nat /\ DOMAIN s = 1..Len(s) /\ s = [i \in 1..Len(s) |-> s[i]]
  BY DEF IsList

LEMMA FunctionIsList ==
    ASSUME NEW s, NEW n \in Nat, s = [i \in 1..n |-> s[i]]
    PROVE  IsList(s) /\ Len(s) = n /\ DOMAIN s = 1..n
  <1>1. DOMAIN s = 1..n /\ s \in [1..n -> {s[i] : i \in DOMAIN s}]
    OBVIOUS
  <1>2. s \in Seq({s[i] : i \in DOMAIN s})
    BY <1>1
  <1>. QED
    BY <1>1, <1>2 DEF IsList

LEMMA EmptyIsList == IsList(<<>>) /\ Len(<<>>) = 0 /\ DOMAIN <<>> = {}
  BY DEF IsList

LEMMA AppendIsList ==
    ASSUME NEW s, IsList(s), NEW x
    PROVE  /\ IsList(Append(s, x)) /\ Len(Append(s, x)) = Len(s) + 1
           /\ DOMAIN Append(s, x) = 1..(Len(s) + 1)
           /\ Append(s, x)[Len(s) + 1] = x /\ \A i \in 1..Len(s) : Append(s, x)[i] = s[i]
  <1>. DEFINE S == {s[i] : i \in DOMAIN s} \cup {x}
  <1>1. s \in Seq(S) /\ x \in S
    BY ListLength DEF IsList
  <1>. HIDE DEF S
  <1>2. /\ Append(s, x) \in Seq(S) /\ Len(Append(s, x)) = Len(s) + 1
        /\ Append(s, x)[Len(s) + 1] = x /\ \A i \in 1..Len(s) : Append(s, x)[i] = s[i]
    BY <1>1
  <1>3. Append(s, x) = [i \in 1..(Len(s) + 1) |-> Append(s, x)[i]]
    <2>. DEFINE t == Append(s, x)
    <2>1. t \in Seq(S) /\ Len(t) = Len(s) + 1
      BY <1>2
    <2>. HIDE DEF t
    <2>2. t = [i \in 1..(Len(s) + 1) |-> t[i]]
      BY <2>1
    <2>. QED
      BY <2>2 DEF t
  <1>4. Len(s) + 1 \in Nat
    BY ListLength
  <1>. QED
    BY <1>2, <1>3, <1>4, FunctionIsList

LEMMA ChangedIsList ==
    ASSUME NEW s, IsList(s), NEW k \in DOMAIN s, NEW x
    PROVE  LET t == [s EXCEPT ![k] = x] IN
           IsList(t) /\ Len(t) = Len(s) /\ DOMAIN t = DOMAIN s /\ t[k] = x /\ \A i \in DOMAIN s \ {k} : t[i] = s[i]
  <1>. DEFINE t == [s EXCEPT ![k] = x]
  <1>1. t = [i \in 1..Len(s) |-> t[i]] /\ Len(s) \in Nat
    BY ListLength
  <1>2. t[k] = x /\ \A i \in DOMAIN s \ {k} : t[i] = s[i]
    OBVIOUS
  <1>3. IsList(t) /\ Len(t) = Len(s) /\ DOMAIN t = 1..Len(s)
    <2>. HIDE DEF t
    <2>. QED
      BY <1>1, FunctionIsList
  <1>. QED
    BY <1>2, <1>3, ListLength

LEMMA FirstOf ==
    ASSUME NEW s, IsList(s), NEW name, Has(s, name)
    PROVE  /\ FirstAt(s, name) \in DOMAIN s /\ s[FirstAt(s, name)].name = name
           /\ \A i \in DOMAIN s : s[i].name = name => FirstAt(s, name) <= i
  <1>. DEFINE S == {i \in DOMAIN s : s[i].name = name}
  <1>1. S \subseteq Nat /\ S # {}
    BY ListLength DEF Has
  <1>2. Min(S) \in S /\ \A i \in S : Min(S) <= i
    <2>. HIDE DEF S
    <2>. QED
      BY <1>1, Least
  <1>. QED
    BY <1>2 DEF FirstAt

\* The list of the elements of lists, one list after the other.
LEMMA ConcatIsList ==
    ASSUME NEW s, IsList(s), NEW t, IsList(t)
    PROVE  /\ IsList(s \o t)
           /\ \A j \in DOMAIN s : j \in DOMAIN (s \o t) /\ (s \o t)[j] = s[j]
           /\ \A j \in DOMAIN t : Len(s) + j \in DOMAIN (s \o t) /\ (s \o t)[Len(s) + j] = t[j]
  <1>. DEFINE S == {s[i] : i \in DOMAIN s} \cup {t[i] : i \in DOMAIN t}
  <1>1. s \in Seq(S) /\ t \in Seq(S)
    BY ListLength DEF IsList
  <1>. HIDE DEF S
  <1>. DEFINE u == s \o t
  <1>2. u \in Seq(S) /\ Len(u) = Len(s) + Len(t)
    BY <1>1
  <1>3. Len(s) \in Nat /\ Len(t) \in Nat /\ DOMAIN s = 1..Len(s) /\ DOMAIN t = 1..Len(t)
    BY ListLength
  <1>4. \A j \in 1..Len(s) : u[j] = s[j]
    BY <1>1
  <1>5. \A j \in 1..Len(t) : u[Len(s) + j] = t[j]
    BY <1>1
  <1>. HIDE DEF u
  <1>6. Len(u) \in Nat /\ u = [i \in 1..Len(u) |-> u[i]]
    BY <1>2, <1>3
  <1>7. IsList(u) /\ DOMAIN u = 1..Len(u)
    BY <1>6, FunctionIsList
  <1>8. \A j \in DOMAIN s : j \in DOMAIN u
    BY <1>2, <1>3, <1>7
  <1>9. \A j \in DOMAIN t : Len(s) + j \in DOMAIN u
    BY <1>2, <1>3, <1>7
  <1>. QED
    BY <1>3, <1>4, <1>5, <1>7, <1>8, <1>9 DEF u

(***************************************************************************)
(* A function applied again and again                                      *)
(***************************************************************************)
\* what the first j turns are
Turns(f, next, x, j) ==
    DOMAIN f = 0..j /\ f[0] = x /\ \A n \in 1..j : f[n] = next[f[n - 1]]

LEMMA TurnsExist == ASSUME NEW next, NEW x, NEW j \in Nat PROVE \E f : Turns(f, next, x, j)
  <1>. DEFINE Bad == {l \in Nat : ~\E f : Turns(f, next, x, l)}
  <1>. SUFFICES ASSUME Bad # {} PROVE FALSE
    OBVIOUS
  <1>. DEFINE l == Min(Bad)
  <1>1. l \in Bad /\ \A m \in Bad : l <= m
    <2>1. Bad \subseteq Nat
      OBVIOUS
    <2>. HIDE DEF Bad
    <2>. QED
      BY <2>1, Least
  <1>. HIDE DEF l
  <1>2. CASE l = 0
    <2>1. Turns([n \in 0..0 |-> x], next, x, 0)
      BY DEF Turns
    <2>. QED
      BY <1>1, <1>2, <2>1
  <1>3. CASE l # 0
    <2>1. l \in Nat /\ l - 1 \in Nat /\ ~(l <= l - 1)
      BY <1>1, <1>3
    <2>2. PICK f : Turns(f, next, x, l - 1)
      BY <1>1, <2>1
    <2>. DEFINE g == [n \in 0..l |-> IF n = l THEN next[f[l - 1]] ELSE f[n]]
    <2>3. ASSUME NEW n \in 1..l PROVE g[n] = next[g[n - 1]]
      <3>1. \A k \in 0..(l - 1) : k \in 0..l /\ k # l
        BY <2>1
      <3>2. \A k \in 0..(l - 1) : g[k] = f[k]
        BY <3>1
      <3>3. n - 1 \in 0..(l - 1) /\ l \in 0..l
        BY <2>1
      <3>4. CASE n = l
        BY <2>1, <3>2, <3>3, <3>4
      <3>5. CASE n # l
        <4>1. n \in 0..(l - 1) /\ n \in 1..(l - 1)
          BY <2>1, <3>5
        <4>2. f[n] = next[f[n - 1]]
          BY <2>2, <4>1 DEF Turns
        <4>. QED
          BY <3>2, <3>3, <4>1, <4>2
      <3>. QED
        BY <3>4, <3>5
    <2>4. DOMAIN g = 0..l /\ g[0] = x
      BY <1>3, <2>1, <2>2 DEF Turns
    <2>. HIDE DEF g
    <2>. QED
      BY <1>1, <2>3, <2>4 DEF Turns
  <1>. QED
    BY <1>2, <1>3

LEMMA TurnsAgree ==
    ASSUME NEW next, NEW x, NEW j \in Nat, NEW k \in Nat, NEW f, NEW g,
           Turns(f, next, x, j), Turns(g, next, x, k)
    PROVE  \A n \in Nat : n <= j /\ n <= k => f[n] = g[n]
  <1>. DEFINE Bad == {n \in Nat : n <= j /\ n <= k /\ f[n] # g[n]}
  <1>. SUFFICES ASSUME Bad # {} PROVE FALSE
    OBVIOUS
  <1>. DEFINE l == Min(Bad)
  <1>1. l \in Bad /\ \A m \in Bad : l <= m
    <2>1. Bad \subseteq Nat
      OBVIOUS
    <2>. HIDE DEF Bad
    <2>. QED
      BY <2>1, Least
  <1>. HIDE DEF l
  <1>2. l # 0
    BY <1>1 DEF Turns
  <1>3. l - 1 \in Nat /\ l - 1 <= j /\ l - 1 <= k /\ ~(l <= l - 1) /\ l \in 1..j /\ l \in 1..k
    BY <1>1, <1>2
  <1>4. f[l - 1] = g[l - 1]
    BY <1>1, <1>3
  <1>5. f[l] = next[f[l - 1]] /\ g[l] = next[g[l - 1]]
    BY <1>3 DEF Turns
  <1>. QED
    BY <1>1, <1>4, <1>5

LEMMA Iterated ==
    ASSUME NEW next, NEW x
    PROVE  Iterate(next, x)[0] = x /\ \A n \in Nat : Iterate(next, x)[n + 1] = next[Iterate(next, x)[n]]
  <1>. DEFINE F(j) == CHOOSE f : Turns(f, next, x, j)
              turn == [n \in Nat |-> F(n)[n]]
  <1>1. \A j \in Nat : Turns(F(j), next, x, j)
    BY TurnsExist
  <1>. HIDE DEF F
  <1>2. turn[0] = x
    BY <1>1 DEF Turns
  <1>3. ASSUME NEW n \in Nat PROVE turn[n + 1] = next[turn[n]]
    <2>1. Turns(F(n + 1), next, x, n + 1) /\ Turns(F(n), next, x, n)
      BY <1>1
    <2>2. F(n + 1)[n] = F(n)[n]
      BY <2>1, TurnsAgree
    <2>3. F(n + 1)[n + 1] = next[F(n + 1)[n]]
      <3>1. n + 1 \in 1..(n + 1) /\ (n + 1) - 1 = n
        OBVIOUS
      <3>. QED
        BY <2>1, <3>1 DEF Turns
    <2>. QED
      BY <2>2, <2>3
  <1>. DEFINE Is(t) == t = [n \in Nat |-> IF n = 0 THEN x ELSE next[t[n - 1]]]
  <1>4. Is(turn)
    <2>1. \A n \in Nat : turn[n] = IF n = 0 THEN x ELSE next[turn[n - 1]]
      <3>. SUFFICES ASSUME NEW n \in Nat, n # 0 PROVE turn[n] = next[turn[n - 1]]
        BY <1>2
      <3>1. n - 1 \in Nat /\ (n - 1) + 1 = n
        OBVIOUS
      <3>. QED
        BY <1>3, <3>1
    <2>2. turn = [n \in Nat |-> turn[n]]
      OBVIOUS
    <2>. HIDE DEF turn
    <2>. QED
      BY <2>1, <2>2
  <1>. DEFINE i == Iterate(next, x)
  <1>5. i = CHOOSE t : Is(t)
    BY DEF Iterate
  <1>6. Is(i)
    <2>. HIDE DEF turn, i, Is
    <2>. QED
      BY <1>4, <1>5
  <1>7. i[0] = x
    <2>. HIDE DEF i
    <2>. QED
      BY <1>6
  <1>8. ASSUME NEW n \in Nat PROVE i[n + 1] = next[i[n]]
    <2>1. n + 1 \in Nat /\ n + 1 # 0 /\ (n + 1) - 1 = n
      OBVIOUS
    <2>. HIDE DEF i
    <2>. QED
      BY <1>6, <2>1
  <1>. QED
    BY <1>7, <1>8

\* Going on from where some turns have led.
LEMMA IteratedFrom ==
    ASSUME NEW next, NEW x, NEW m \in Nat, NEW n \in Nat
    PROVE  Iterate(next, Iterate(next, x)[m])[n] = Iterate(next, x)[m + n]
  <1>. DEFINE f == Iterate(next, x)
              g == Iterate(next, f[m])
              Bad == {k \in Nat : g[k] # f[m + k]}
  <1>1. f[0] = x /\ \A k \in Nat : f[k + 1] = next[f[k]]
    BY Iterated
  <1>2. g[0] = f[m] /\ \A k \in Nat : g[k + 1] = next[g[k]]
    BY Iterated
  <1>. HIDE DEF f, g
  <1>3. ASSUME Bad # {} PROVE FALSE
    <2>. DEFINE l == Min(Bad)
    <2>1. l \in Bad /\ \A k \in Bad : l <= k
      <3>1. Bad \subseteq Nat
        OBVIOUS
      <3>. HIDE DEF Bad
      <3>. QED
        BY <1>3, <3>1, Least
    <2>. HIDE DEF l
    <2>2. l # 0
      BY <1>2, <2>1
    <2>3. l - 1 \in Nat /\ ~(l <= l - 1) /\ (l - 1) + 1 = l /\ m + (l - 1) \in Nat /\ (m + (l - 1)) + 1 = m + l
      BY <2>1, <2>2
    <2>4. g[l - 1] = f[m + (l - 1)]
      BY <2>1, <2>3
    <2>5. g[l] = next[g[l - 1]] /\ f[m + l] = next[f[m + (l - 1)]]
      BY <1>1, <1>2, <2>3
    <2>. QED
      BY <2>1, <2>4, <2>5
  <1>. QED
    BY <1>3 DEF f, g

(***************************************************************************)
(* Lists of lists                                                          *)
(***************************************************************************)
\* what the first j of them are, one after the other
Joined(f, ss, j) ==
    f = [n \in 1..j |-> f[n]] /\ f[1] = ss[1] /\ \A n \in 2..j : f[n] = f[n - 1] \o ss[n]

LEMMA JoinedExist == ASSUME NEW ss, NEW j \in Nat \ {0} PROVE \E f : Joined(f, ss, j)
  <1>. DEFINE Bad == {l \in Nat \ {0} : ~\E f : Joined(f, ss, l)}
  <1>. SUFFICES ASSUME Bad # {} PROVE FALSE
    OBVIOUS
  <1>. DEFINE l == Min(Bad)
  <1>1. l \in Bad /\ \A m \in Bad : l <= m
    <2>1. Bad \subseteq Nat
      OBVIOUS
    <2>. HIDE DEF Bad
    <2>. QED
      BY <2>1, Least
  <1>. HIDE DEF l
  <1>2. CASE l = 1
    <2>1. Joined([n \in 1..1 |-> ss[1]], ss, 1)
      BY DEF Joined
    <2>. QED
      BY <1>1, <1>2, <2>1
  <1>3. CASE l # 1
    <2>1. l \in Nat /\ l - 1 \in Nat \ {0} /\ ~(l <= l - 1)
      BY <1>1, <1>3
    <2>2. PICK f : Joined(f, ss, l - 1)
      BY <1>1, <2>1
    <2>. DEFINE g == [n \in 1..l |-> IF n = l THEN f[l - 1] \o ss[l] ELSE f[n]]
    <2>3. \A k \in 1..(l - 1) : k \in 1..l /\ k # l
      BY <2>1
    <2>4. \A k \in 1..(l - 1) : g[k] = f[k]
      BY <2>3
    <2>5. g[l] = f[l - 1] \o ss[l]
      <3>1. l \in 1..l
        BY <2>1
      <3>. QED
        BY <3>1
    <2>6. g = [n \in 1..l |-> g[n]]
      OBVIOUS
    <2>. HIDE DEF g
    <2>7. ASSUME NEW n \in 2..l PROVE g[n] = g[n - 1] \o ss[n]
      <3>1. n - 1 \in 1..(l - 1)
        BY <2>1
      <3>2. CASE n = l
        BY <2>4, <2>5, <3>1, <3>2
      <3>3. CASE n # l
        <4>1. n \in 1..(l - 1) /\ n \in 2..(l - 1)
          BY <2>1, <3>3
        <4>2. f[n] = f[n - 1] \o ss[n]
          BY <2>2, <4>1 DEF Joined
        <4>. QED
          BY <2>4, <3>1, <4>1, <4>2
      <3>. QED
        BY <3>2, <3>3
    <2>8. g[1] = ss[1]
      <3>1. 1 \in 1..(l - 1)
        BY <2>1
      <3>. QED
        BY <2>2, <2>4, <3>1 DEF Joined
    <2>. QED
      BY <1>1, <2>6, <2>7, <2>8 DEF Joined
  <1>. QED
    BY <1>2, <1>3

LEMMA Flattened ==
    ASSUME NEW ss, IsList(ss), \A i \in DOMAIN ss : IsList(ss[i])
    PROVE  /\ IsList(FlattenSeq(ss))
           /\ \A i \in DOMAIN ss : \A j \in DOMAIN ss[i] : \E k \in DOMAIN FlattenSeq(ss) : FlattenSeq(ss)[k] = ss[i][j]
  <1>1. Len(ss) \in Nat /\ DOMAIN ss = 1..Len(ss)
    BY ListLength
  <1>2. CASE Len(ss) = 0
    BY <1>1, <1>2 DEF FlattenSeq
  <1>3. CASE Len(ss) # 0
    <2>. DEFINE N == Len(ss)
                Is(f) == f = [i \in 1..N |-> IF i = 1 THEN ss[i] ELSE f[i - 1] \o ss[i]]
                flat == CHOOSE f : Is(f)
    <2>1. PICK f : Joined(f, ss, N)
      BY <1>1, <1>3, JoinedExist
    <2>2. Is(f)
      <3>1. \A i \in 1..N : f[i] = IF i = 1 THEN ss[i] ELSE f[i - 1] \o ss[i]
        <4>. SUFFICES ASSUME NEW i \in 1..N, i # 1 PROVE f[i] = f[i - 1] \o ss[i]
          BY <2>1 DEF Joined
        <4>1. i \in 2..N
          BY <1>1
        <4>. QED
          BY <2>1, <4>1 DEF Joined
      <3>2. f = [i \in 1..N |-> f[i]]
        BY <2>1 DEF Joined
      <3>. QED
        BY <3>1, <3>2
    <2>3. Is(flat)
      <3>. HIDE DEF Is
      <3>. QED
        BY <2>2
    <2>4. FlattenSeq(ss) = flat[N]
      BY <1>3 DEF FlattenSeq
    <2>. HIDE DEF flat
    <2>5. flat[1] = ss[1] /\ \A n \in 2..N : flat[n] = flat[n - 1] \o ss[n]
      <3>1. 1 \in 1..N /\ \A n \in 2..N : n \in 1..N /\ n # 1
        BY <1>1, <1>3
      <3>. QED
        BY <2>3, <3>1
    <2>. HIDE DEF Is
    <2>. DEFINE Holds(n, i) == \A j \in DOMAIN ss[i] : \E k \in DOMAIN flat[n] : flat[n][k] = ss[i][j]
                Good(n) == IsList(flat[n]) /\ \A i \in 1..n : Holds(n, i)
                Bad == {n \in 1..N : ~Good(n)}
    <2>6. ASSUME Bad # {} PROVE FALSE
      <3>. DEFINE l == Min(Bad)
      <3>1. l \in Bad /\ \A k \in Bad : l <= k
        <4>1. Bad \subseteq Nat
          OBVIOUS
        <4>. HIDE DEF Bad
        <4>. QED
          BY <2>6, <4>1, Least
      <3>. HIDE DEF l
      <3>2. l \in 1..N /\ ~Good(l)
        BY <3>1
      <3>3. l # 1
        <4>1. IsList(ss[1])
          BY <1>1, <1>3
        <4>2. Holds(1, 1)
          BY <2>5
        <4>. HIDE DEF Holds
        <4>3. Good(1)
          BY <2>5, <4>1, <4>2
        <4>. QED
          BY <3>2, <4>3
      <3>4. l - 1 \in 1..N /\ ~(l <= l - 1) /\ l \in 2..N
        BY <1>1, <3>2, <3>3
      <3>5. Good(l - 1) /\ IsList(ss[l])
        BY <1>1, <3>1, <3>4
      <3>6. flat[l] = flat[l - 1] \o ss[l]
        BY <2>5, <3>4
      <3>7. /\ IsList(flat[l])
            /\ \A j \in DOMAIN flat[l - 1] : j \in DOMAIN flat[l] /\ flat[l][j] = flat[l - 1][j]
            /\ \A j \in DOMAIN ss[l] : Len(flat[l - 1]) + j \in DOMAIN flat[l] /\ flat[l][Len(flat[l - 1]) + j] = ss[l][j]
        <4>. DEFINE s == flat[l - 1]  t == ss[l]
        <4>1. IsList(s) /\ IsList(t)
          BY <3>5
        <4>. HIDE DEF s, t
        <4>2. /\ IsList(s \o t)
              /\ \A j \in DOMAIN s : j \in DOMAIN (s \o t) /\ (s \o t)[j] = s[j]
              /\ \A j \in DOMAIN t : Len(s) + j \in DOMAIN (s \o t) /\ (s \o t)[Len(s) + j] = t[j]
          BY <4>1, ConcatIsList
        <4>. QED
          BY <3>6, <4>2 DEF s, t
      <3>8. ASSUME NEW i \in 1..l PROVE Holds(l, i)
        <4>1. CASE i = l
          BY <3>7, <4>1
        <4>2. CASE i # l
          <5>1. i \in 1..(l - 1)
            BY <3>4, <4>2
          <5>2. Holds(l - 1, i)
            BY <3>5, <5>1
          <5>. QED
            BY <3>7, <5>2
        <4>. QED
          BY <4>1, <4>2
      <3>. HIDE DEF Holds
      <3>. QED
        BY <3>2, <3>7, <3>8
    <2>7. Good(N)
      <3>1. N \in 1..N
        BY <1>1, <1>3
      <3>. HIDE DEF Good
      <3>. QED
        BY <2>6, <3>1
    <2>. QED
      BY <1>1, <2>4, <2>7
  <1>. QED
    BY <1>2, <1>3

(***************************************************************************)
(* The class table's entries                                               *)
(***************************************************************************)
IsDef(def) ==
    /\ def = [fields |-> def.fields, methods |-> def.methods, ctor |-> def.ctor, parent |-> def.parent,
              params |-> def.params]
    /\ IsList(def.fields) /\ Len(def.fields) <= MaxFields
    /\ IsList(def.methods) /\ Len(def.methods) <= MaxMethods

InstanceField(fields, f) == [name |-> f.name, type |-> f.type, static |-> f.static, slot |-> L!Slot(fields, f)]

LEMMA FieldAdded ==
    ASSUME NEW def, IsDef(def), NEW f, ~L!FullOfFields(def)
    PROVE  /\ IsDef(L!AddField(def, f))
           /\ L!AddField(def, f).methods = def.methods /\ L!AddField(def, f).parent = def.parent
           /\ L!AddField(def, f).fields = Append(def.fields, InstanceField(def.fields, f))
  <1>. DEFINE fs == Append(def.fields, InstanceField(def.fields, f))
  <1>1. IsList(fs) /\ Len(fs) = Len(def.fields) + 1
    BY AppendIsList DEF IsDef
  <1>2. Len(def.fields) + 1 <= MaxFields
    BY LimitsAssumption, ListLength DEF IsDef, L!FullOfFields
  <1>3. L!AddField(def, f) = [def EXCEPT !.fields = fs]
    BY DEF L!AddField, InstanceField
  <1>4. L!AddField(def, f) = [fields |-> fs, methods |-> def.methods, ctor |-> def.ctor, parent |-> def.parent,
                            params |-> def.params]
    <2>. HIDE DEF fs
    <2>. QED
      BY <1>3 DEF IsDef
  <1>. HIDE DEF fs
  <1>5. IsDef(L!AddField(def, f))
    BY <1>1, <1>2, <1>4 DEF IsDef
  <1>. QED
    BY <1>4, <1>5 DEF fs

\* An own method in the place of the one of its name, or after all others.
LEMMA MethodAdded ==
    ASSUME NEW def, IsDef(def), NEW cls, NEW m, ~L!FullOfMethods(def, m)
    PROVE  /\ IsDef(L!AddMethod(cls, def, m))
           /\ L!AddMethod(cls, def, m).fields = def.fields /\ L!AddMethod(cls, def, m).parent = def.parent
           /\ L!AddMethod(cls, def, m).methods =
                IF Has(def.methods, m.name) THEN [def.methods EXCEPT ![FirstAt(def.methods, m.name)] = L!Entry(cls, m)]
                ELSE Append(def.methods, L!Entry(cls, m))
  <1>1. L!Has(def.methods, m.name) = Has(def.methods, m.name) /\ L!FirstAt(def.methods, m.name) = FirstAt(def.methods, m.name)
    BY DEF L!Has, Has, L!FirstAt, FirstAt, L!Min, Min
  <1>. DEFINE ms == IF Has(def.methods, m.name) THEN [def.methods EXCEPT ![FirstAt(def.methods, m.name)] = L!Entry(cls, m)]
                    ELSE Append(def.methods, L!Entry(cls, m))
  <1>2. IsList(ms) /\ Len(ms) <= MaxMethods
    <2>1. CASE Has(def.methods, m.name)
      <3>1. FirstAt(def.methods, m.name) \in DOMAIN def.methods
        BY <2>1, FirstOf DEF IsDef
      <3>. QED
        BY <2>1, <3>1, ChangedIsList DEF IsDef
    <2>2. CASE ~Has(def.methods, m.name)
      <3>1. IsList(Append(def.methods, L!Entry(cls, m))) /\ Len(Append(def.methods, L!Entry(cls, m))) = Len(def.methods) + 1
        BY AppendIsList DEF IsDef
      <3>2. Len(def.methods) + 1 <= MaxMethods
        BY <1>1, <2>2, LimitsAssumption, ListLength DEF IsDef, L!FullOfMethods
      <3>. QED
        BY <2>2, <3>1, <3>2
    <2>. QED
      BY <2>1, <2>2
  <1>3. L!AddMethod(cls, def, m) = [def EXCEPT !.methods = ms]
    <2>1. CASE Has(def.methods, m.name)
      BY <1>1, <2>1 DEF L!AddMethod, IsDef
    <2>2. CASE ~Has(def.methods, m.name)
      BY <1>1, <2>2 DEF L!AddMethod, IsDef
    <2>. QED
      BY <2>1, <2>2
  <1>. HIDE DEF ms
  <1>4. L!AddMethod(cls, def, m) = [fields |-> def.fields, methods |-> ms, ctor |-> def.ctor, parent |-> def.parent,
                            params |-> def.params]
    BY <1>3 DEF IsDef
  <1>5. IsDef(L!AddMethod(cls, def, m))
    BY <1>2, <1>4 DEF IsDef
  <1>. QED
    BY <1>4, <1>5 DEF ms

\* A class begins with the members of its parent, if that has been compiled.
LEMMA Inherited ==
    ASSUME NEW class, class.parent \in DOMAIN defs => IsDef(defs[class.parent])
    PROVE  /\ IsDef(L!Inherit(defs, class))
           /\ class.parent \notin DOMAIN defs =>
                /\ L!Inherit(defs, class).parent = ""
                /\ L!Inherit(defs, class).fields = <<>> /\ L!Inherit(defs, class).methods = <<>>
           /\ class.parent \in DOMAIN defs =>
                /\ L!Inherit(defs, class).parent = class.parent
                /\ L!Inherit(defs, class).fields = L!CopyFields(defs[class.parent], class.pargs)
                /\ L!Inherit(defs, class).methods = L!CopyMethods(defs[class.parent], class.pargs)
                /\ Len(L!Inherit(defs, class).fields) = Len(defs[class.parent].fields)
                /\ Len(L!Inherit(defs, class).methods) = Len(defs[class.parent].methods)
  <1>. DEFINE def == L!Inherit(defs, class)  above == defs[class.parent]
  <1>1. CASE class.parent \notin DOMAIN defs
    <2>1. def = [fields |-> <<>>, methods |-> <<>>, ctor |-> "", parent |-> "", params |-> class.tparams]
      BY <1>1 DEF L!Inherit, L!NoClass
    <2>. HIDE DEF def
    <2>2. 0 <= MaxFields /\ 0 <= MaxMethods
      BY LimitsAssumption
    <2>3. def.fields = <<>> /\ def.methods = <<>> /\ def.parent = ""
      BY <2>1
    <2>4. IsDef(def)
      BY <2>1, <2>2, EmptyIsList DEF IsDef
    <2>. QED
      BY <1>1, <2>3, <2>4 DEF def
  <1>2. CASE class.parent \in DOMAIN defs
    <2>. DEFINE fs == L!CopyFields(above, class.pargs)  ms == L!CopyMethods(above, class.pargs)
    <2>1. def = [fields |-> fs, methods |-> ms, ctor |-> above.ctor, parent |-> class.parent, params |-> class.tparams]
      BY <1>2 DEF L!Inherit, L!NoClass
    <2>2. Len(above.fields) \in Nat /\ DOMAIN above.fields = 1..Len(above.fields)
      BY <1>2, ListLength DEF IsDef
    <2>3. Len(above.methods) \in Nat /\ DOMAIN above.methods = 1..Len(above.methods)
      BY <1>2, ListLength DEF IsDef
    <2>4. fs = [i \in 1..Len(above.fields) |-> fs[i]]
      BY <2>2 DEF L!CopyFields
    <2>5. ms = [i \in 1..Len(above.methods) |-> ms[i]]
      BY <2>3 DEF L!CopyMethods
    <2>6. Len(above.fields) <= MaxFields /\ Len(above.methods) <= MaxMethods
      BY <1>2 DEF IsDef
    <2>. HIDE DEF fs, ms, def
    <2>7. IsList(fs) /\ Len(fs) = Len(above.fields)
      BY <2>2, <2>4, FunctionIsList
    <2>8. IsList(ms) /\ Len(ms) = Len(above.methods)
      BY <2>3, <2>5, FunctionIsList
    <2>9. IsDef(def)
      BY <2>1, <2>6, <2>7, <2>8 DEF IsDef
    <2>10. def.parent = class.parent /\ def.fields = fs /\ def.methods = ms
      BY <2>1
    <2>. QED
      BY <1>2, <2>7, <2>8, <2>9, <2>10 DEF fs, ms, def
  <1>. QED
    BY <1>1, <1>2

(***************************************************************************)
(* Types                                                                   *)
(***************************************************************************)
\* what the program given is known to be
LEMMA Given ==
    ASSUME program \in Programs
    PROVE  /\ IsList(Decls) /\ Len(Decls) \in Nat /\ DOMAIN Decls = 1..Len(Decls)
           /\ "" \notin DOMAIN program.seeded
           /\ \A i \in DOMAIN program.ifaces : IsList(program.ifaces[i])
           /\ \A k \in DOMAIN Decls :
                /\ Decls[k].name # ""
                /\ IsList(Decls[k].bases) /\ IsList(Decls[k].fields) /\ IsList(Decls[k].methods)
                /\ \A i \in DOMAIN Decls[k].fields :
                     Decls[k].fields[i].static \in BOOLEAN /\ Decls[k].fields[i].type.k # "param"
                /\ \A i \in DOMAIN Decls[k].methods : Decls[k].methods[i].static \in BOOLEAN
  <1>1. IsList(Decls)
    BY ProgramsAssumption DEF Decls
  <1>. QED
    BY <1>1, ListLength, ProgramsAssumption DEF Decls

\* Classes are compiled into entries of the class table.
Typed ==
    /\ TypeOK
    /\ program \in Programs
    /\ phase \in {"fields", "methods"} =>
         at \in DOMAIN Decls /\ Compiles(Decls[at]) /\ Decls[at].name \in DOMAIN defs
    /\ phase \in {"register", "interfaces", "compliance", "checked"} => DOMAIN defs = {}
    /\ \A c \in DOMAIN defs : IsDef(defs[c])

LEMMA TypedStep == Typed /\ [Next]_vars => Typed'
  <1>. SUFFICES ASSUME Typed, [Next]_vars PROVE Typed'
    OBVIOUS
  <1>. USE DEF Typed
  <1>1. Len(Decls) \in Nat /\ DOMAIN Decls = 1..Len(Decls)
    BY Given
  <1>2. CASE Register
    <2>1. at' = at + 1 /\ at \in 1..Len(Decls) /\ phase = "register"
      BY <1>1, <1>2 DEF Register
    <2>2. \A n \in DOMAIN symbols' : symbols'[n].decl \in 0..Len(Decls)
      <3>. DEFINE d == Decls[at]
      <3>1. symbols' = symbols \/ symbols' = Declared(d.name, [kind |-> d.kind, decl |-> at])
        BY <1>2 DEF Register
      <3>2. CASE symbols' = Declared(d.name, [kind |-> d.kind, decl |-> at])
        <4>1. \A n \in DOMAIN symbols' : symbols'[n] = IF n = d.name THEN [kind |-> d.kind, decl |-> at] ELSE symbols[n]
          BY <3>2 DEF Declared
        <4>2. \A n \in DOMAIN symbols' : n # d.name => n \in DOMAIN symbols
          BY <3>2 DEF Declared
        <4>. QED
          BY <1>1, <2>1, <4>1, <4>2 DEF TypeOK
      <3>. QED
        BY <3>1, <3>2 DEF TypeOK
    <2>3. UNCHANGED <<program, phase, parents, owed, defs>> /\ Decls' = Decls
      BY <1>2 DEF Register, Decls
    <2>4. at' \in 1..(Len(Decls) + 1)
      BY <1>1, <2>1
    <2>. QED
      BY <2>1, <2>2, <2>3, <2>4 DEF TypeOK
  <1>3. CASE ResolveParents
    <2>1. \A k \in DOMAIN parents' : Len(parents'[k]) <= 1
      <3>. SUFFICES ASSUME NEW k \in Indices("class") PROVE Len(ParentAmong(Decls[k].bases)) <= 1
        BY <1>3 DEF ResolveParents
      <3>. QED
        BY DEF ParentAmong
    <2>. QED
      BY <1>3, <2>1 DEF ResolveParents, TypeOK, Decls, Pass
  <1>4. CASE StartCompliance
    BY <1>4 DEF StartCompliance, TypeOK, Decls, Pass
  <1>5. CASE Search
    BY <1>5 DEF Search, TypeOK, Decls
  <1>6. CASE CheckMembers
    BY <1>6 DEF CheckMembers, TypeOK, Decls, Pass
  <1>7. CASE StartCompile
    BY <1>1, <1>7 DEF StartCompile, TypeOK, Decls, Pass
  <1>8. CASE SkipDecl
    BY <1>1, <1>8 DEF SkipDecl, TypeOK, Decls
  <1>16. CASE PlaceInterface
    <2>1. /\ phase = "classes" /\ at \in DOMAIN Decls /\ at' = at + 1
          /\ UNCHANGED <<program, phase, member, symbols, parents, owed, search, complaints>>
      BY <1>16 DEF PlaceInterface
    <2>2. DOMAIN defs' \subseteq DOMAIN defs /\ \A c \in DOMAIN defs' : defs'[c] = defs[c]
      BY <1>16 DEF PlaceInterface
    <2>. QED
      BY <1>1, <2>1, <2>2 DEF TypeOK, Decls
  <1>17. CASE RefuseClass
    <2>1. /\ phase = "classes" /\ at' = Len(Decls) + 1
          /\ UNCHANGED <<program, phase, member, symbols, parents, owed, search, defs>>
      BY <1>17 DEF RefuseClass
    <2>2. at' \in 1..(Len(Decls) + 1)
      BY <1>1, <2>1
    <2>. QED
      BY <2>1, <2>2 DEF TypeOK, Decls
  <1>9. CASE OpenClass
    <2>. DEFINE def == L!Inherit(defs, ClassOf(at))
    <2>1. IsDef(def)
      <3>. DEFINE class == ClassOf(at)
      <3>1. class.parent \in DOMAIN defs => IsDef(defs[class.parent])
        OBVIOUS
      <3>. HIDE DEF class
      <3>2. IsDef(L!Inherit(defs, class))
        BY <3>1, Inherited
      <3>. QED
        BY <3>2 DEF class
    <2>. HIDE DEF def
    <2>2. DOMAIN defs' = DOMAIN defs \cup {Decls[at].name} /\ \A c \in DOMAIN defs' : IsDef(defs'[c])
      BY <1>9, <2>1 DEF OpenClass, Becomes, def
    <2>3. \A c \in DOMAIN defs' : Len(defs'[c].fields) <= MaxFields /\ Len(defs'[c].methods) <= MaxMethods
      BY <2>2 DEF IsDef
    <2>. QED
      BY <1>9, <2>2, <2>3 DEF OpenClass, TypeOK, Decls, Pass, Compiles, IsKind
  <1>10. CASE PlaceField
    <2>. DEFINE cls == Decls[at].name  f == Decls[at].fields[member]
    <2>1. CASE UNCHANGED defs
      BY <1>10, <2>1 DEF PlaceField, TypeOK, Decls, Compiles, IsKind
    <2>2. CASE ~L!FullOfFields(defs[cls]) /\ Becomes(cls, L!AddField(defs[cls], f))
      <3>1. cls \in DOMAIN defs
        BY <1>10 DEF PlaceField
      <3>2. IsDef(L!AddField(defs[cls], f))
        BY <2>2, <3>1, FieldAdded
      <3>3. DOMAIN defs' = DOMAIN defs /\ \A c \in DOMAIN defs' : IsDef(defs'[c])
        BY <2>2, <3>1, <3>2 DEF Becomes
      <3>4. \A c \in DOMAIN defs' : Len(defs'[c].fields) <= MaxFields /\ Len(defs'[c].methods) <= MaxMethods
        BY <3>3 DEF IsDef
      <3>. QED
        BY <1>10, <3>3, <3>4 DEF PlaceField, TypeOK, Decls, Compiles, IsKind
    <2>. QED
      BY <1>10, <2>1, <2>2 DEF PlaceField
  <1>11. CASE FieldsPlaced
    BY <1>11 DEF FieldsPlaced, TypeOK, Decls, Pass, Compiles, IsKind
  <1>12. CASE PlaceMethod
    <2>. DEFINE cls == Decls[at].name  m == Decls[at].methods[member]
    <2>1. CASE UNCHANGED defs
      BY <1>12, <2>1 DEF PlaceMethod, TypeOK, Decls, Compiles, IsKind
    <2>2. CASE ~L!FullOfMethods(defs[cls], m) /\ Becomes(cls, L!AddMethod(cls, defs[cls], m))
      <3>1. cls \in DOMAIN defs
        BY <1>12 DEF PlaceMethod
      <3>2. IsDef(L!AddMethod(cls, defs[cls], m))
        BY <2>2, <3>1, MethodAdded
      <3>3. DOMAIN defs' = DOMAIN defs /\ \A c \in DOMAIN defs' : IsDef(defs'[c])
        BY <2>2, <3>1, <3>2 DEF Becomes
      <3>4. \A c \in DOMAIN defs' : Len(defs'[c].fields) <= MaxFields /\ Len(defs'[c].methods) <= MaxMethods
        BY <3>3 DEF IsDef
      <3>. QED
        BY <1>12, <3>3, <3>4 DEF PlaceMethod, TypeOK, Decls, Compiles, IsKind
    <2>. QED
      BY <1>12, <2>1, <2>2 DEF PlaceMethod
  <1>13. CASE CloseClass
    BY <1>1, <1>13 DEF CloseClass, TypeOK, Decls, Pass
  <1>14. CASE EndCompile
    BY <1>14 DEF EndCompile, TypeOK, Decls, Pass
  <1>15. CASE UNCHANGED vars
    BY <1>15 DEF vars, TypeOK, Decls, Compiles, IsKind
  <1>. QED
    BY <1>2, <1>3, <1>4, <1>5, <1>6, <1>7, <1>8, <1>9, <1>10, <1>11, <1>12, <1>13, <1>14, <1>15, <1>16, <1>17
       DEF Next

LEMMA TypedInit == Init => Typed
  <1>. SUFFICES ASSUME Init PROVE Typed
    OBVIOUS
  <1>1. program \in Programs
    BY DEF Init
  <1>2. Len(Decls) \in Nat
    BY <1>1, Given
  <1>3. 1 \in 1..(Len(Decls) + 1) /\ 0 \in 0..Len(Decls)
    BY <1>2
  <1>4. \A n \in DOMAIN symbols : symbols[n].decl = 0
    BY DEF Init
  <1>5. DOMAIN defs = {} /\ DOMAIN parents = {} /\ owed = <<>> /\ phase = "register" /\ at = 1
    <2>1. DOMAIN defs = {}
      BY DEF Init
    <2>2. parents = <<>> /\ owed = <<>> /\ phase = "register" /\ at = 1
      BY DEF Init
    <2>. QED
      BY <2>1, <2>2, EmptyIsList
  <1>. QED
    BY <1>1, <1>3, <1>4, <1>5 DEF Typed, TypeOK

LEMMA AlwaysTyped == Spec => []Typed
  BY TypedInit, TypedStep, PTL DEF Spec

\* TypeOK: every pass is where it can be; a class has at most one parent, no more fields
\* and no more methods than the ClassDef has room for.
THEOREM DeclarationTypes == Spec => []TypeOK
  <1>1. Typed => TypeOK
    BY DEF Typed
  <1>. QED
    BY <1>1, AlwaysTyped, PTL

(***************************************************************************)
(* Names                                                                   *)
(***************************************************************************)
\* What a declaration's name stands for once it has been registered: the declaration,
\* but for a class that found another kind there, or that an interface took over.
Keeps(j) ==
    LET d == Decls[j]  s == symbols[d.name] IN
    /\ d.name \in DOMAIN symbols
    /\ IF d.kind # "class" THEN s.kind = d.kind /\ s.decl = j
       ELSE \/ s.kind = "class" /\ s.decl = j
            \/ s.kind \notin {"class", "interface"}
            \/ s.kind = "interface" /\ s.decl > j

\* when two declarations may have one name
MayShare(j, k) ==
    \/ Decls[k].kind = "class" /\ symbols[Decls[k].name].kind \notin {"class", "interface"}
    \/ Decls[j].kind = "class" /\ Decls[k].kind = "interface"
    \/ Decls[j].kind = "class" /\ Decls[k].kind = "fn" /\ Decls[k].name \in DOMAIN program.seeded

Registered == IF phase = "register" THEN 1..(at - 1) ELSE DOMAIN Decls

Named ==
    complaints = {} =>
      /\ \A n \in DOMAIN symbols :
           IF symbols[n].decl = 0 THEN n \in DOMAIN program.seeded
           ELSE Decls[symbols[n].decl].name = n /\ Decls[symbols[n].decl].kind = symbols[n].kind
      /\ \A j \in Registered : Keeps(j)
      /\ \A j, k \in Registered : j < k /\ Decls[j].name = Decls[k].name => MayShare(j, k)

\* After the registration a program's names stay what they are.
LEMMA RegisteredOnce ==
    ASSUME Typed, [Next]_vars, ~Register
    PROVE  /\ UNCHANGED <<program, symbols>> /\ complaints \subseteq complaints'
           /\ \/ phase' = "register" /\ phase = "register" /\ at' = at
              \/ phase' # "register" /\ (phase = "register" => at > Len(Decls))
  <1>. USE DEF Fail, Pass
  <1>1. CASE ResolveParents
    BY <1>1 DEF ResolveParents
  <1>2. CASE StartCompliance \/ CheckMembers
    BY <1>2 DEF StartCompliance, CheckMembers
  <1>3. CASE Search
    BY <1>3 DEF Search
  <1>4. CASE \/ StartCompile \/ SkipDecl \/ PlaceInterface \/ RefuseClass
             \/ OpenClass \/ FieldsPlaced \/ CloseClass \/ EndCompile
    BY <1>4 DEF StartCompile, SkipDecl, PlaceInterface, RefuseClass, OpenClass, FieldsPlaced, CloseClass, EndCompile
  <1>5. CASE PlaceField
    BY <1>5 DEF PlaceField
  <1>6. CASE PlaceMethod
    BY <1>6 DEF PlaceMethod
  <1>7. CASE UNCHANGED vars
    BY <1>7 DEF vars
  <1>. QED
    BY <1>1, <1>2, <1>3, <1>4, <1>5, <1>6, <1>7 DEF Next

LEMMA NamedStep == Typed /\ Named /\ [Next]_vars => Named'
  <1>. SUFFICES ASSUME Typed, Named, [Next]_vars, complaints' = {} PROVE Named'
    BY DEF Named
  <1>1. Len(Decls) \in Nat /\ DOMAIN Decls = 1..Len(Decls) /\ program \in Programs
    BY Given DEF Typed
  <1>2. CASE ~Register
    <2>1. /\ UNCHANGED <<program, symbols>> /\ complaints = {} /\ Registered' \subseteq Registered
          /\ Decls' = Decls
      BY <1>1, <1>2, RegisteredOnce DEF Registered, Decls, Typed, TypeOK
    <2>2. /\ \A j : Keeps(j)' = Keeps(j) 
          /\ \A j, k : MayShare(j, k)' = MayShare(j, k)
      BY <2>1 DEF Keeps, MayShare
    <2>. QED
      BY <2>1, <2>2 DEF Named
  <1>3. CASE Register
    <2>. DEFINE d == Decls[at]
                taken == d.name \in DOMAIN symbols
                old == symbols[d.name]
    <2>1. /\ at' = at + 1 /\ at \in 1..Len(Decls) /\ phase = "register" /\ phase' = "register"
          /\ program' = program /\ Decls' = Decls /\ complaints = {}
      BY <1>1, <1>3 DEF Register, Decls, Fail
    <2>2. /\ taken => ~Refused(old, d)
          /\ symbols' = IF taken /\ ~Takes(old, d) THEN symbols ELSE Declared(d.name, [kind |-> d.kind, decl |-> at])
      BY <1>3 DEF Register, Fail
    <2>3. Registered = 1..(at - 1) /\ Registered' = Registered \cup {at} /\ at \notin Registered
      BY <2>1 DEF Registered
    <2>4. /\ \A n \in DOMAIN symbols :
               IF symbols[n].decl = 0 THEN n \in DOMAIN program.seeded
               ELSE Decls[symbols[n].decl].name = n /\ Decls[symbols[n].decl].kind = symbols[n].kind
          /\ \A j \in Registered : Keeps(j)
          /\ \A j, k \in Registered : j < k /\ Decls[j].name = Decls[k].name => MayShare(j, k)
      BY <2>1 DEF Named
    <2>5. DOMAIN symbols' = DOMAIN symbols \cup {d.name} /\ \A n \in DOMAIN symbols : n # d.name => symbols'[n] = symbols[n]
      BY <2>2 DEF Declared
    <2>6. symbols'[d.name] = IF taken /\ ~Takes(old, d) THEN old ELSE [kind |-> d.kind, decl |-> at]
      BY <2>2 DEF Declared
    <2>7. ASSUME NEW n \in DOMAIN symbols'
          PROVE  IF symbols'[n].decl = 0 THEN n \in DOMAIN program.seeded
                 ELSE Decls[symbols'[n].decl].name = n /\ Decls[symbols'[n].decl].kind = symbols'[n].kind
      <3>1. CASE n # d.name
        BY <2>4, <2>5, <3>1
      <3>2. CASE n = d.name
        BY <2>1, <2>4, <2>6, <3>2
      <3>. QED
        BY <3>1, <3>2
    <2>8. ASSUME NEW j \in Registered, Decls[j].name = d.name
          PROVE  /\ taken
                 /\ Decls[j].kind # "class" => old.kind = Decls[j].kind /\ old.decl = j
                 /\ Decls[j].kind = "class" => \/ old.kind = "class" /\ old.decl = j
                                               \/ old.kind \notin {"class", "interface"}
                                               \/ old.kind = "interface" /\ old.decl > j
                 /\ j \in 1..(at - 1) /\ old.decl \in 0..Len(Decls)
      <3>1. Keeps(j) /\ j \in 1..(at - 1)
        BY <2>3, <2>4
      <3>2. taken
        BY <2>8, <3>1 DEF Keeps
      <3>3. old.decl \in 0..Len(Decls)
        BY <3>2 DEF Typed, TypeOK
      <3>4. Decls[j].kind # "class" => old.kind = Decls[j].kind /\ old.decl = j
        BY <2>8, <3>1 DEF Keeps
      <3>5. Decls[j].kind = "class" => \/ old.kind = "class" /\ old.decl = j
                                       \/ old.kind \notin {"class", "interface"}
                                       \/ old.kind = "interface" /\ old.decl > j
        BY <2>8, <3>1 DEF Keeps
      <3>. QED
        BY <3>1, <3>2, <3>3, <3>4, <3>5
    <2>9. ASSUME NEW j \in Registered' PROVE Keeps(j)'
      <3>1. CASE j # at /\ Decls[j].name # d.name
        <4>1. Keeps(j)
          BY <2>3, <2>4, <3>1
        <4>. QED
          BY <2>1, <2>5, <3>1, <4>1 DEF Keeps
      <3>2. CASE j # at /\ Decls[j].name = d.name
        <4>1. j \in Registered
          BY <2>3, <3>2
        <4>2. j < at /\ at \in Nat
          BY <2>1, <2>3, <4>1
        <4>3. CASE Decls[j].kind # "class"
          BY <2>1, <2>2, <2>5, <2>6, <2>8, <3>2, <4>1, <4>2, <4>3 DEF Keeps, Refused, Takes
        <4>4. CASE Decls[j].kind = "class"
          BY <2>1, <2>2, <2>5, <2>6, <2>8, <3>2, <4>1, <4>2, <4>4 DEF Keeps, Refused, Takes
        <4>. QED
          BY <4>3, <4>4
      <3>3. CASE j = at
        BY <2>1, <2>2, <2>5, <2>6, <3>3 DEF Keeps, Refused, Takes
      <3>. QED
        BY <3>1, <3>2, <3>3
    <2>10. ASSUME NEW j \in Registered', NEW k \in Registered', j < k, Decls[j].name = Decls[k].name
           PROVE  MayShare(j, k)'
      <3>1. j \in Registered
        BY <2>1, <2>3, <2>10
      <3>2. CASE k # at
        <4>1. MayShare(j, k) /\ k \in Registered
          BY <2>3, <2>4, <2>10, <3>1, <3>2
        <4>2. CASE Decls[k].name # d.name
          <5>1. Decls[k].name \in DOMAIN symbols
            BY <2>4, <4>1 DEF Keeps
          <5>. QED
            BY <2>1, <2>5, <4>1, <4>2, <5>1 DEF MayShare
        <4>3. CASE Decls[k].name = d.name
          <5>1. taken
            BY <2>8, <4>1, <4>3
          <5>. QED
            BY <2>1, <2>2, <2>6, <4>1, <4>3, <5>1 DEF MayShare, Refused, Takes
        <4>. QED
          BY <4>2, <4>3
      <3>3. CASE k = at
        <4>1. Decls[j].name = d.name
          BY <2>10, <3>3
        <4>2. taken /\ (old.decl = 0 => d.name \in DOMAIN program.seeded)
          BY <2>4, <2>8, <3>1, <4>1
        <4>3. CASE Decls[j].kind # "class"
          BY <2>1, <2>2, <2>3, <2>6, <2>8, <3>1, <3>3, <4>1, <4>2, <4>3 DEF MayShare, Refused, Takes
        <4>4. CASE Decls[j].kind = "class"
          BY <2>1, <2>2, <2>3, <2>6, <2>8, <3>1, <3>3, <4>1, <4>2, <4>4 DEF MayShare, Refused, Takes
        <4>. QED
          BY <4>3, <4>4
      <3>. QED
        BY <3>2, <3>3
    <2>. QED
      BY <2>1, <2>7, <2>9, <2>10 DEF Named
  <1>. QED
    BY <1>2, <1>3

LEMMA AlwaysNamed == Spec => []Named
  <1>1. Init => Named
    <2>. SUFFICES ASSUME Init PROVE Named
      OBVIOUS
    <2>1. Registered = {}
      <3>1. phase = "register" /\ at = 1
        BY DEF Init
      <3>2. 1..(1 - 1) = {}
        OBVIOUS
      <3>. QED
        BY <3>1, <3>2 DEF Registered
    <2>2. \A n \in DOMAIN symbols : symbols[n].decl = 0 /\ n \in DOMAIN program.seeded
      BY DEF Init
    <2>. QED
      BY <2>1, <2>2 DEF Named
  <1>. QED
    BY <1>1, NamedStep, AlwaysTyped, PTL DEF Spec

\* DeclaredOnce: of what pass 1 lets pass, no two declarations have one name but for the
\* three pairs MayShare names.
THEOREM NamesDeclaredOnce == Spec => []DeclaredOnce
  <1>1. Named => DeclaredOnce
    BY DEF Named, DeclaredOnce, AcceptedDecls, Registered, MayShare
  <1>. QED
    BY <1>1, AlwaysNamed, PTL

(***************************************************************************)
(* The classes that can be named                                           *)
(***************************************************************************)
Settled == phase # "register" => parents = [k \in Indices("class") |-> ParentAmong(Decls[k].bases)]

LEMMA SettledStep == Typed /\ Settled /\ [Next]_vars => Settled'
  <1>. SUFFICES ASSUME Typed, Settled, [Next]_vars PROVE Settled'
    OBVIOUS
  <1>1. CASE Register
    BY <1>1 DEF Register, Settled
  <1>2. CASE ResolveParents
    BY <1>2 DEF ResolveParents, Settled, Indices, Decls, ParentAmong, IsKind
  <1>3. CASE ~Register /\ ~ResolveParents
    <2>1. UNCHANGED <<program, symbols>>
      BY <1>3, RegisteredOnce
    <2>2. phase # "register" \/ UNCHANGED phase
      BY <1>3 DEF Next, vars, Pass, StartCompliance, Search, CheckMembers, StartCompile, SkipDecl, PlaceInterface, RefuseClass, OpenClass,
           PlaceField, FieldsPlaced, PlaceMethod, CloseClass, EndCompile
    <2>3. UNCHANGED parents
      BY <1>3 DEF Next, vars, StartCompliance, Search, CheckMembers, StartCompile, SkipDecl, PlaceInterface, RefuseClass, OpenClass,
           PlaceField, FieldsPlaced, PlaceMethod, CloseClass, EndCompile
    <2>. QED
      BY <2>1, <2>2, <2>3 DEF Settled, Indices, Decls, ParentAmong, IsKind
  <1>. QED
    BY <1>1, <1>2, <1>3

LEMMA AlwaysSettled == Spec => []Settled
  <1>1. Init => Settled
    BY DEF Init, Settled
  <1>. QED
    BY <1>1, SettledStep, AlwaysTyped, PTL DEF Spec

\* where a class is declared
At(c) == symbols[c].decl

\* after the registration, in a program not yet complained of
Sound_ == Typed /\ Named /\ Settled /\ phase # "register" /\ complaints = {}

LEMMA Declaration ==
    ASSUME Sound_, NEW c \in DOMAIN Table
    PROVE  /\ At(c) \in DOMAIN Decls /\ Decls[At(c)].name = c /\ Compiles(Decls[At(c)]) /\ c # ""
           /\ Table[c].fields = Decls[At(c)].fields /\ Table[c].methods = Decls[At(c)].methods
           /\ Table[c].parent = ParentName(At(c)) /\ ~Table[c].lib /\ Table[c] = ClassOf(At(c))
  <1>1. Known(c, "class") /\ Table[c] = ClassOf(At(c))
    BY DEF Table, At
  <1>2. c \in DOMAIN symbols /\ symbols[c].kind = "class" /\ At(c) # 0
    BY <1>1 DEF Known, IsKind, At
  <1>3. Decls[At(c)].name = c /\ Decls[At(c)].kind = "class"
    BY <1>2 DEF Sound_, Named, At
  <1>4. At(c) \in DOMAIN Decls
    <2>1. Len(Decls) \in Nat /\ DOMAIN Decls = 1..Len(Decls)
      BY Given DEF Sound_, Typed
    <2>2. At(c) \in 0..Len(Decls)
      BY <1>2 DEF Sound_, Typed, TypeOK, At
    <2>. QED
      BY <1>2, <2>1, <2>2
  <1>5. c # ""
    BY <1>3, <1>4, Given DEF Sound_, Typed
  <1>6. /\ Table[c].fields = Decls[At(c)].fields /\ Table[c].methods = Decls[At(c)].methods
        /\ Table[c].parent = ParentName(At(c)) /\ ~Table[c].lib
    BY <1>1 DEF ClassOf
  <1>7. Compiles(Decls[At(c)])
    BY <1>2, <1>3 DEF Compiles, IsKind
  <1>. QED
    BY <1>1, <1>3, <1>4, <1>5, <1>6, <1>7

LEMMA DeclNumbers ==
    ASSUME Sound_
    PROVE  Len(Decls) \in Nat /\ DOMAIN Decls = 1..Len(Decls) /\ \A k \in DOMAIN Decls : k \in Nat /\ k # 0
  <1>1. Len(Decls) \in Nat /\ DOMAIN Decls = 1..Len(Decls)
    BY Given DEF Sound_, Typed
  <1>. QED
    BY <1>1

\* a class declaration is that of its name
LEMMA OneDeclaration ==
    ASSUME Sound_, NEW j \in DOMAIN Decls, Decls[j].kind = "class", IsKind(Decls[j].name, "class")
    PROVE  Decls[j].name \in DOMAIN Table /\ At(Decls[j].name) = j
  <1>1. Keeps(j)
    BY DEF Sound_, Named, Registered
  <1>2. symbols[Decls[j].name].decl = j
    BY <1>1 DEF Keeps, IsKind
  <1>3. j # 0
    <2>1. Len(Decls) \in Nat /\ DOMAIN Decls = 1..Len(Decls)
      BY Given DEF Sound_, Typed
    <2>. QED
      BY <2>1
  <1>4. Known(Decls[j].name, "class") /\ Decls[j].name \in DOMAIN symbols
    BY <1>2, <1>3 DEF Known, IsKind
  <1>. QED
    BY <1>2, <1>4 DEF Table, At

\* no declaration has the name of a parent that no declaration gives
LEMMA NoParent ==
    ASSUME Sound_, NEW c \in DOMAIN Table, Table[c].parent \notin DOMAIN Table, NEW j \in DOMAIN Decls,
           Compiles(Decls[j])
    PROVE  Decls[j].name # Table[c].parent
  <1>. DEFINE k == At(c)  bases == Decls[k].bases
              classes == {i \in DOMAIN bases : IsKind(bases[i].name, "class")}
  <1>1. k \in Indices("class") /\ Table[c].parent = ParentName(k) /\ IsList(bases) /\ k \in DOMAIN Decls
    BY Declaration, Given DEF Indices, Compiles, Sound_, Typed
  <1>2. parents[k] = ParentAmong(bases)
    BY <1>1 DEF Sound_, Settled
  <1>3. Decls[j].name # ""
    BY Given DEF Sound_, Typed
  <1>4. CASE classes = {}
    BY <1>1, <1>2, <1>3, <1>4 DEF ParentAmong, ParentName
  <1>5. CASE classes # {}
    <2>1. classes \subseteq Nat
      BY <1>1, ListLength
    <2>2. Min(classes) \in classes
      <3>. HIDE DEF classes
      <3>. QED
        BY <1>5, <2>1, Least
    <2>3. parents[k] = <<bases[Min(classes)]>>
      BY <1>2, <1>5 DEF ParentAmong
    <2>4. Table[c].parent = bases[Min(classes)].name
      <3>. HIDE DEF classes
      <3>. QED
        BY <1>1, <2>3 DEF ParentName
    <2>5. IsKind(Table[c].parent, "class")
      BY <2>2, <2>4
    <2>. QED
      BY <2>5, OneDeclaration DEF Compiles
  <1>. QED
    BY <1>4, <1>5

(***************************************************************************)
(* The fields of one class                                                 *)
(***************************************************************************)
IsField(f) ==
    /\ f = [name |-> f.name, type |-> f.type, static |-> f.static, slot |-> f.slot]
    /\ f.type.k # "param" /\ f.static \in BOOLEAN /\ f.slot \in Int /\ (f.static <=> f.slot < 0)

\* the slots of instance fields grow as the fields are listed
SlotsGrow(fs) ==
    /\ \A i \in DOMAIN fs : IsField(fs[i])
    /\ \A i, j \in DOMAIN fs : i < j /\ ~fs[i].static /\ ~fs[j].static => fs[i].slot < fs[j].slot

\* the fields of the class above, and then n of a class's own
FieldsLaid(fs, above, own, n) ==
    /\ Len(fs) = Len(above) + n
    /\ \A i \in DOMAIN above : fs[i] = above[i]
    /\ \A i \in 1..n : LET f == fs[Len(above) + i] IN
         f.name = own[i].name /\ f.type = own[i].type /\ f.static = own[i].static
    /\ SlotsGrow(fs)

LEMMA FieldsCopied ==
    ASSUME NEW parent, IsList(parent.fields), SlotsGrow(parent.fields), NEW args
    PROVE  L!CopyFields(parent, args) = parent.fields
  <1>. DEFINE fs == parent.fields
  <1>1. ASSUME NEW i \in DOMAIN fs PROVE [fs[i] EXCEPT !.type = L!Concrete(@, parent.params, args)] = fs[i]
    <2>. DEFINE f == fs[i]  type == L!Concrete(f.type, parent.params, args)
    <2>1. IsField(f)
      BY DEF SlotsGrow
    <2>2. type = f.type
      BY <2>1 DEF IsField, L!Concrete
    <2>. HIDE DEF f, type
    <2>3. [f EXCEPT !.type = type] = f
      BY <2>1, <2>2 DEF IsField
    <2>. QED
      BY <2>3 DEF f, type
  <1>2. L!CopyFields(parent, args) = [i \in DOMAIN fs |-> fs[i]]
    BY <1>1 DEF L!CopyFields
  <1>. QED
    BY <1>2, ListLength

LEMMA NextSlotIsNew ==
    ASSUME NEW fs, IsList(fs), SlotsGrow(fs)
    PROVE  L!NextSlot(fs) \in Nat /\ \A i \in DOMAIN fs : ~fs[i].static => fs[i].slot < L!NextSlot(fs)
  <1>. DEFINE S == {i \in DOMAIN fs : fs[i].slot >= 0}
  <1>1. \A i \in DOMAIN fs : IsField(fs[i])
    BY DEF SlotsGrow
  <1>2. \A i \in DOMAIN fs : fs[i].slot \in Int /\ (fs[i].static <=> fs[i].slot < 0)
    BY <1>1 DEF IsField
  <1>3. Len(fs) \in Nat /\ DOMAIN fs = 1..Len(fs)
    BY ListLength
  <1>4. CASE S = {}
    BY <1>2, <1>4 DEF L!NextSlot
  <1>5. CASE S # {}
    <2>1. S \subseteq Nat /\ \A k \in S : k <= Len(fs)
      BY <1>3
    <2>2. Max(S) \in S /\ \A k \in S : k <= Max(S)
      <3>. HIDE DEF S
      <3>. QED
        BY <1>3, <1>5, <2>1, Greatest
    <2>3. L!NextSlot(fs) = fs[Max(S)].slot + 1
      BY <1>5 DEF L!NextSlot, L!Max, Max
    <2>. DEFINE m == Max(S)
    <2>4. m \in DOMAIN fs /\ fs[m].slot >= 0 /\ \A k \in DOMAIN fs : fs[k].slot >= 0 => k <= m
      BY <2>2
    <2>. HIDE DEF m
    <2>5. ASSUME NEW i \in DOMAIN fs, ~fs[i].static PROVE fs[i].slot < fs[m].slot + 1
      <3>1. fs[i].slot >= 0 /\ i <= m /\ fs[i].slot \in Int /\ fs[m].slot \in Int /\ ~fs[m].static
        BY <1>2, <2>4, <2>5
      <3>2. CASE i = m
        BY <3>1, <3>2
      <3>3. CASE i # m
        <4>1. i < m
          BY <1>3, <2>4, <3>1, <3>3
        <4>. QED
          BY <2>4, <2>5, <3>1, <4>1 DEF SlotsGrow
      <3>. QED
        BY <3>2, <3>3
    <2>6. fs[m].slot + 1 \in Nat
      BY <1>2, <2>4
    <2>. QED
      BY <2>3, <2>5, <2>6 DEF m
  <1>. QED
    BY <1>4, <1>5

LEMMA FieldsBegin ==
    ASSUME NEW above, IsList(above), SlotsGrow(above), NEW own
    PROVE  FieldsLaid(above, above, own, 0)
  BY ListLength DEF FieldsLaid

LEMMA NoFields == ASSUME NEW own PROVE FieldsLaid(<<>>, <<>>, own, 0)
  BY EmptyIsList DEF FieldsLaid, SlotsGrow

LEMMA FieldsGoOn ==
    ASSUME NEW fs, IsList(fs), NEW above, IsList(above), NEW own, NEW n \in Nat, FieldsLaid(fs, above, own, n),
           NEW f, f = own[n + 1], f.static \in BOOLEAN, f.type.k # "param"
    PROVE  FieldsLaid(Append(fs, InstanceField(fs, f)), above, own, n + 1)
  <1>. DEFINE last == InstanceField(fs, f)
              gs == Append(fs, last)
  <1>1. Len(fs) \in Nat /\ DOMAIN fs = 1..Len(fs) /\ Len(above) \in Nat /\ DOMAIN above = 1..Len(above)
    BY ListLength
  <1>2. IsList(gs) /\ Len(gs) = Len(fs) + 1 /\ DOMAIN gs = 1..(Len(fs) + 1) /\ gs[Len(fs) + 1] = last
        /\ \A i \in 1..Len(fs) : gs[i] = fs[i]
    BY AppendIsList
  <1>3. SlotsGrow(fs) /\ Len(fs) = Len(above) + n /\ \A i \in DOMAIN above : fs[i] = above[i]
    BY DEF FieldsLaid
  <1>4. L!NextSlot(fs) \in Nat /\ \A i \in DOMAIN fs : ~fs[i].static => fs[i].slot < L!NextSlot(fs)
    BY <1>3, NextSlotIsNew
  <1>5. /\ last = [name |-> f.name, type |-> f.type, static |-> f.static, slot |-> L!Slot(fs, f)]
        /\ L!Slot(fs, f) = IF f.static THEN -1 ELSE L!NextSlot(fs)
    BY DEF InstanceField, L!Slot
  <1>. HIDE DEF last, gs
  <1>6. /\ last.name = f.name /\ last.type = f.type /\ last.static = f.static
        /\ last.slot = IF f.static THEN -1 ELSE L!NextSlot(fs)
    BY <1>5
  <1>7. IsField(last)
    <2>1. last = [name |-> last.name, type |-> last.type, static |-> last.static, slot |-> last.slot]
      BY <1>5
    <2>. QED
      BY <1>4, <1>6, <2>1 DEF IsField
  <1>8. SlotsGrow(gs)
    <2>1. ASSUME NEW i \in DOMAIN gs PROVE IsField(gs[i])
      <3>1. i \in DOMAIN fs \/ i = Len(fs) + 1
        BY <1>1, <1>2
      <3>. QED
        BY <1>1, <1>2, <1>3, <1>7, <3>1 DEF SlotsGrow
    <2>2. ASSUME NEW i \in DOMAIN gs, NEW j \in DOMAIN gs, i < j, ~gs[i].static, ~gs[j].static
          PROVE  gs[i].slot < gs[j].slot
      <3>1. i \in DOMAIN fs /\ gs[i] = fs[i]
        BY <1>1, <1>2, <2>2
      <3>2. CASE j \in DOMAIN fs
        <4>1. gs[j] = fs[j]
          BY <1>1, <1>2, <3>2
        <4>. QED
          BY <1>3, <2>2, <3>1, <3>2, <4>1 DEF SlotsGrow
      <3>3. CASE j \notin DOMAIN fs
        <4>1. gs[j] = last
          BY <1>1, <1>2, <3>3
        <4>. QED
          BY <1>4, <1>6, <2>2, <3>1, <4>1
      <3>. QED
        BY <3>2, <3>3
    <2>. QED
      BY <2>1, <2>2 DEF SlotsGrow
  <1>9. ASSUME NEW i \in 1..(n + 1)
        PROVE  LET g == gs[Len(above) + i] IN
               g.name = own[i].name /\ g.type = own[i].type /\ g.static = own[i].static
    <2>1. CASE i = n + 1
      BY <1>1, <1>2, <1>3, <1>6, <2>1
    <2>2. CASE i # n + 1
      <3>1. i \in 1..n /\ Len(above) + i \in 1..Len(fs)
        BY <1>1, <1>3, <2>2
      <3>. QED
        BY <1>2, <3>1 DEF FieldsLaid
    <2>. QED
      BY <2>1, <2>2
  <1>10. \A i \in DOMAIN above : gs[i] = above[i]
    BY <1>1, <1>2, <1>3
  <1>11. Len(gs) = Len(above) + (n + 1)
    BY <1>1, <1>2, <1>3
  <1>12. FieldsLaid(gs, above, own, n + 1)
    BY <1>8, <1>9, <1>10, <1>11 DEF FieldsLaid
  <1>. QED
    BY <1>12 DEF gs, last

(***************************************************************************)
(* The methods of one class                                                *)
(***************************************************************************)
IsMethod(m) == m = [name |-> m.name, owner |-> m.owner, static |-> m.static, ret |-> m.ret]

NamesDiffer(ms) ==
    /\ \A i \in DOMAIN ms : IsMethod(ms[i])
    /\ \A i, j \in DOMAIN ms : ms[i].name = ms[j].name => i = j

Owns(own, n, name) == \E k \in 1..n : own[k].name = name

\* an entry is of one of the first n of a class's own methods, or of the class above it
EntryLaid(cls, e, i, above, own, n) ==
    IF Owns(own, n, e.name)
    THEN e.owner = cls /\ \E k \in 1..n : own[k].name = e.name /\ e.static = own[k].static
    ELSE i \in DOMAIN above /\ e.owner = above[i].owner /\ e.static = above[i].static

MethodsLaid(cls, ms, above, own, n) ==
    /\ NamesDiffer(ms)
    /\ \A i \in DOMAIN above : i \in DOMAIN ms /\ ms[i].name = above[i].name
    /\ \A k \in 1..n : Has(ms, own[k].name)
    /\ \A i \in DOMAIN ms : EntryLaid(cls, ms[i], i, above, own, n)

LEMMA MethodsBegin ==
    ASSUME NEW parent, IsList(parent.methods), NamesDiffer(parent.methods), NEW args, NEW cls, NEW own
    PROVE  MethodsLaid(cls, L!CopyMethods(parent, args), parent.methods, own, 0)
  <1>. DEFINE above == parent.methods
              ms == L!CopyMethods(parent, args)
  <1>1. DOMAIN ms = DOMAIN above
    BY DEF L!CopyMethods
  <1>2. ASSUME NEW i \in DOMAIN above
        PROVE  ms[i].name = above[i].name /\ ms[i].owner = above[i].owner /\ ms[i].static = above[i].static
               /\ IsMethod(ms[i])
    <2>. DEFINE e == above[i]  ret == L!Concrete(e.ret, parent.params, args)
    <2>1. ms[i] = [e EXCEPT !.ret = ret]
      BY DEF L!CopyMethods
    <2>2. IsMethod(e)
      BY DEF NamesDiffer
    <2>. HIDE DEF e, ret, ms
    <2>3. ms[i] = [name |-> e.name, owner |-> e.owner, static |-> e.static, ret |-> ret]
      BY <2>1, <2>2 DEF IsMethod
    <2>4. IsMethod(ms[i])
      BY <2>3 DEF IsMethod
    <2>. QED
      BY <2>3, <2>4 DEF e
  <1>. HIDE DEF ms
  <1>3. NamesDiffer(ms)
    BY <1>1, <1>2 DEF NamesDiffer
  <1>4. \A name : ~Owns(own, 0, name)
    BY DEF Owns
  <1>5. \A i \in DOMAIN ms : EntryLaid(cls, ms[i], i, above, own, 0)
    BY <1>1, <1>2, <1>4 DEF EntryLaid
  <1>6. MethodsLaid(cls, ms, above, own, 0)
    BY <1>1, <1>2, <1>3, <1>5 DEF MethodsLaid
  <1>. QED
    BY <1>6 DEF ms

LEMMA NoMethods == ASSUME NEW cls, NEW own PROVE MethodsLaid(cls, <<>>, <<>>, own, 0)
  BY EmptyIsList DEF MethodsLaid, NamesDiffer

LEMMA MethodsGoOn ==
    ASSUME NEW ms, IsList(ms), NEW above, NEW cls, NEW own, NEW n \in Nat,
           MethodsLaid(cls, ms, above, own, n), NEW m, m = own[n + 1],
           NEW new, new = IF Has(ms, m.name) THEN [ms EXCEPT ![FirstAt(ms, m.name)] = L!Entry(cls, m)]
                          ELSE Append(ms, L!Entry(cls, m))
    PROVE  MethodsLaid(cls, new, above, own, n + 1)
  <1>. DEFINE e == L!Entry(cls, m)
  <1>1. e.name = m.name /\ e.owner = cls /\ e.static = m.static /\ IsMethod(e)
    BY DEF L!Entry, IsMethod
  <1>. HIDE DEF e
  <1>2. Len(ms) \in Nat /\ DOMAIN ms = 1..Len(ms)
    BY ListLength
  <1>3. /\ \A name : Owns(own, n + 1, name) <=> Owns(own, n, name) \/ name = m.name
        /\ \A k \in 1..n : k \in 1..(n + 1) 
        /\ n + 1 \in 1..(n + 1) /\ \A k \in 1..(n + 1) : k \in 1..n \/ k = n + 1
    <2>1. /\ \A k \in 1..n : k \in 1..(n + 1) 
          /\ n + 1 \in 1..(n + 1) /\ \A k \in 1..(n + 1) : k \in 1..n \/ k = n + 1
      OBVIOUS
    <2>. QED
      BY <2>1 DEF Owns
  <1>4. \E at_ \in DOMAIN new :
          /\ new[at_] = e /\ DOMAIN ms \subseteq DOMAIN new
          /\ \A i \in DOMAIN new : i # at_ => i \in DOMAIN ms /\ new[i] = ms[i] /\ ms[i].name # m.name
          /\ at_ \in DOMAIN ms => ms[at_].name = m.name
    <2>1. CASE Has(ms, m.name)
      <3>. DEFINE f == FirstAt(ms, m.name)
      <3>1. f \in DOMAIN ms /\ ms[f].name = m.name
        BY <2>1, FirstOf
      <3>. HIDE DEF f
      <3>2. new = [ms EXCEPT ![f] = e]
        BY <2>1 DEF f, e
      <3>3. DOMAIN new = DOMAIN ms /\ new[f] = e /\ \A i \in DOMAIN ms \ {f} : new[i] = ms[i]
        BY <3>1, <3>2, ChangedIsList
      <3>4. \A i \in DOMAIN ms : i # f => ms[i].name # m.name
        BY <3>1 DEF MethodsLaid, NamesDiffer
      <3>. QED
        BY <3>1, <3>3, <3>4
    <2>2. CASE ~Has(ms, m.name)
      <3>1. new = Append(ms, e)
        BY <2>2 DEF e
      <3>2. DOMAIN new = 1..(Len(ms) + 1) /\ new[Len(ms) + 1] = e /\ \A i \in 1..Len(ms) : new[i] = ms[i]
        BY <3>1, AppendIsList
      <3>3. \A i \in DOMAIN ms : ms[i].name # m.name
        BY <2>2 DEF Has
      <3>4. Len(ms) + 1 \in DOMAIN new /\ \A i \in DOMAIN new : i # Len(ms) + 1 => i \in DOMAIN ms
        BY <1>2, <3>2
      <3>5. DOMAIN ms \subseteq DOMAIN new /\ Len(ms) + 1 \notin DOMAIN ms
        BY <1>2, <3>2
      <3>. QED
        BY <1>2, <3>2, <3>3, <3>4, <3>5
    <2>. QED
      BY <2>1, <2>2
  <1>5. PICK p \in DOMAIN new :
          /\ new[p] = e /\ DOMAIN ms \subseteq DOMAIN new
          /\ \A i \in DOMAIN new : i # p => i \in DOMAIN ms /\ new[i] = ms[i] /\ ms[i].name # m.name
          /\ p \in DOMAIN ms => ms[p].name = m.name
    BY <1>4
  <1>6. NamesDiffer(new)
    BY <1>1, <1>5 DEF MethodsLaid, NamesDiffer
  <1>7. \A i \in DOMAIN above : i \in DOMAIN new /\ new[i].name = above[i].name
    BY <1>1, <1>5 DEF MethodsLaid
  <1>8. ASSUME NEW k \in 1..(n + 1) PROVE Has(new, own[k].name)
    <2>1. CASE k = n + 1
      BY <1>1, <1>5, <2>1 DEF Has
    <2>2. CASE k # n + 1
      <3>1. Has(ms, own[k].name)
        BY <1>3, <2>2 DEF MethodsLaid
      <3>. QED
        BY <1>1, <1>5, <3>1 DEF Has
    <2>. QED
      BY <2>1, <2>2
  <1>9. ASSUME NEW i \in DOMAIN new PROVE EntryLaid(cls, new[i], i, above, own, n + 1)
    <2>1. CASE i = p
      BY <1>1, <1>3, <1>5, <2>1 DEF EntryLaid
    <2>2. CASE i # p
      <3>1. EntryLaid(cls, ms[i], i, above, own, n) /\ new[i] = ms[i] /\ ms[i].name # m.name
        BY <1>5, <2>2 DEF MethodsLaid
      <3>. QED
        BY <1>3, <3>1 DEF EntryLaid
    <2>. QED
      BY <2>1, <2>2
  <1>. QED
    BY <1>6, <1>7, <1>8, <1>9 DEF MethodsLaid

(***************************************************************************)
(* The class table                                                         *)
(***************************************************************************)
NoName == ""

\* the parent a class has in the class table, if it is declared before the class
Kept(c) ==
    IF Table[c].parent \in DOMAIN Table /\ At(Table[c].parent) < At(c) THEN Table[c].parent ELSE NoName

\* what is in the table ds of a class with f fields and m methods of its own
ClassLaid(ds, c, f, m) ==
    LET p == Kept(c) IN
    /\ ds[c].parent = p
    /\ FieldsLaid(ds[c].fields, IF p = NoName THEN <<>> ELSE ds[p].fields, Table[c].fields, f)
    /\ MethodsLaid(c, ds[c].methods, IF p = NoName THEN <<>> ELSE ds[p].methods, Table[c].methods, m)

Opened(c) == At(c) < at \/ (At(c) = at /\ phase \in {"fields", "methods"})
FieldsOf(c) == IF At(c) = at /\ phase = "fields" THEN member - 1 ELSE Len(Table[c].fields)
MethodsOf(c) ==
    IF At(c) = at /\ phase = "fields" THEN 0
    ELSE IF At(c) = at /\ phase = "methods" THEN member - 1 ELSE Len(Table[c].methods)

Compiling == phase \in {"classes", "fields", "methods", "compiled"}

Laid ==
    complaints = {} =>
      /\ phase = "classes" => member = 1
      /\ phase = "fields" => member \in 1..(Len(Decls[at].fields) + 1)
      /\ phase = "methods" => member \in 1..(Len(Decls[at].methods) + 1)
      /\ phase = "compiled" => at > Len(Decls)
      /\ Compiling =>
           /\ \A c \in DOMAIN defs : \E j \in DOMAIN Decls : Compiles(Decls[j]) /\ Decls[j].name = c
           /\ \A c \in DOMAIN Table : c \in DOMAIN defs <=> Opened(c)
           /\ \A c \in DOMAIN Table : Opened(c) => ClassLaid(defs, c, FieldsOf(c), MethodsOf(c))

LEMMA SameTable ==
    ASSUME UNCHANGED <<program, symbols, parents>>
    PROVE  /\ Decls' = Decls /\ Table' = Table
           /\ \A d : Compiles(d)' = Compiles(d)
           /\ \A c : At(c)' = At(c) /\ Kept(c)' = Kept(c)
           /\ \A ds, c, f, m : ClassLaid(ds, c, f, m)' <=> ClassLaid(ds, c, f, m)
  <1>1. Decls' = Decls
    BY DEF Decls
  <1>2. Table' = Table
    BY <1>1 DEF Table, ClassOf, ParentName, Known, IsKind
  <1>3. \A c : At(c)' = At(c)
    BY DEF At
  <1>4. \A c : Kept(c)' = Kept(c)
    BY <1>2, <1>3 DEF Kept
  <1>5. \A d : Compiles(d)' = Compiles(d)
    BY DEF Compiles, IsKind
  <1>6. ASSUME NEW ds, NEW c, NEW f, NEW m PROVE ClassLaid(ds, c, f, m)' <=> ClassLaid(ds, c, f, m)
    <2>1. Kept(c)' = Kept(c) /\ Table[c]' = Table[c]
      BY <1>2, <1>4
    <2>. QED
      BY <2>1 DEF ClassLaid
  <1>. QED
    BY <1>1, <1>2, <1>3, <1>4, <1>5, <1>6

LEMMA KeptFacts ==
    ASSUME Sound_, NEW c \in DOMAIN Table
    PROVE  /\ At(c) \in Nat
           /\ Kept(c) # NoName => /\ Kept(c) \in DOMAIN Table /\ Kept(c) = Table[c].parent
                             /\ At(Kept(c)) < At(c) /\ At(Kept(c)) \in Nat
  <1>1. \A b \in DOMAIN Table : At(b) \in Nat
    <2>1. Len(Decls) \in Nat /\ DOMAIN Decls = 1..Len(Decls)
      BY Given DEF Sound_, Typed
    <2>2. \A b \in DOMAIN Table : At(b) \in DOMAIN Decls
      BY Declaration
    <2>. QED
      BY <2>1, <2>2
  <1>. QED
    BY <1>1 DEF Kept

LEMMA LaidElsewhere ==
    ASSUME NEW ds, NEW es, NEW c, NEW f, NEW m, ClassLaid(ds, c, f, m), es[c] = ds[c],
           Kept(c) # NoName => es[Kept(c)] = ds[Kept(c)]
    PROVE  ClassLaid(es, c, f, m)
  BY DEF ClassLaid

\* what a class is given when it is opened
LEMMA LaidFirst ==
    ASSUME Sound_, Laid, OpenClass, Decls[at].name \in DOMAIN Table
    PROVE  ClassLaid(defs', Decls[at].name, 0, 0)
  <1>. DEFINE cls == Decls[at].name  class == ClassOf(at)  q == Table[cls].parent
  <1>1. phase = "classes" /\ at \in DOMAIN Decls /\ Compiles(Decls[at]) /\ Compiling
    BY DEF OpenClass, Pass, Compiling
  <1>2. At(cls) = at /\ Table[cls] = class /\ class.parent = q
    <2>1. IsKind(cls, "class")
      BY DEF Table, Known
    <2>. QED
      BY <1>1, <2>1, OneDeclaration, Declaration DEF Compiles
  <1>3. DOMAIN Decls = 1..Len(Decls) /\ Len(Decls) \in Nat
    BY Given DEF Sound_, Typed
  <1>4. q \in DOMAIN defs <=> Kept(cls) # NoName
    <2>1. CASE q \in DOMAIN Table
      <3>1. q \in DOMAIN defs <=> At(q) < at
        BY <1>1, <2>1 DEF Laid, Sound_, Opened
      <3>2. q # NoName
        BY <2>1, Declaration, Zenon DEF NoName
      <3>. QED
        BY <1>2, <2>1, <3>1, <3>2 DEF Kept
    <2>2. CASE q \notin DOMAIN Table
      <3>1. \A j \in DOMAIN Decls : Compiles(Decls[j]) => Decls[j].name # q
        BY <2>2, NoParent
      <3>2. q \notin DOMAIN defs
        BY <1>1, <3>1 DEF Laid, Sound_
      <3>. QED
        BY <2>2, <3>2 DEF Kept
    <2>. QED
      BY <2>1, <2>2
  <1>. DEFINE def == L!Inherit(defs, class)
  <1>5. defs'[cls] = def /\ \A c \in DOMAIN defs : c # cls => defs'[c] = defs[c]
    BY DEF OpenClass, Becomes
  <1>6. /\ q \notin DOMAIN defs => def.parent = NoName /\ def.fields = <<>> /\ def.methods = <<>>
        /\ q \in DOMAIN defs =>
             /\ def.parent = q /\ def.fields = L!CopyFields(defs[q], class.pargs)
             /\ def.methods = L!CopyMethods(defs[q], class.pargs)
    <2>1. class.parent \in DOMAIN defs => IsDef(defs[class.parent])
      BY DEF Sound_, Typed
    <2>. HIDE DEF class
    <2>. QED
      BY <1>2, <2>1, Inherited, Zenon DEF NoName
  <1>7. CASE Kept(cls) = NoName
    BY <1>4, <1>5, <1>6, <1>7, NoFields, NoMethods DEF ClassLaid
  <1>8. CASE Kept(cls) # NoName
    <2>1. q \in DOMAIN defs /\ q \in DOMAIN Table /\ Kept(cls) = q /\ At(q) < at
      BY <1>2, <1>4, <1>8, KeptFacts
    <2>2. q # cls /\ Opened(q)
      BY <1>1, <1>2, <1>3, <2>1 DEF Opened
    <2>3. ClassLaid(defs, q, FieldsOf(q), MethodsOf(q)) /\ IsDef(defs[q])
      BY <1>1, <2>1, <2>2 DEF Laid, Sound_, Typed
    <2>4. SlotsGrow(defs[q].fields) /\ NamesDiffer(defs[q].methods) /\ IsList(defs[q].fields) /\ IsList(defs[q].methods)
      BY <2>3 DEF ClassLaid, FieldsLaid, MethodsLaid, IsDef
    <2>5. def.fields = defs[q].fields
      BY <1>6, <2>1, <2>4, FieldsCopied
    <2>6. FieldsLaid(def.fields, defs[q].fields, Table[cls].fields, 0)
      BY <2>4, <2>5, FieldsBegin
    <2>7. MethodsLaid(cls, def.methods, defs[q].methods, Table[cls].methods, 0)
      BY <1>6, <2>1, <2>4, MethodsBegin
    <2>8. defs'[q] = defs[q]
      BY <1>5, <2>1, <2>2
    <2>. QED
      BY <1>5, <1>6, <1>8, <2>1, <2>6, <2>7, <2>8 DEF ClassLaid
  <1>. QED
    BY <1>7, <1>8

LEMMA LaidNextField ==
    ASSUME Sound_, Laid, PlaceField, complaints' = {}, Decls[at].name \in DOMAIN Table
    PROVE  ClassLaid(defs', Decls[at].name, member, 0)
  <1>. DEFINE cls == Decls[at].name  f == Decls[at].fields[member]  p == Kept(cls)
              fs == defs[cls].fields  above == IF p = NoName THEN <<>> ELSE defs[p].fields
  <1>1. phase = "fields" /\ at \in DOMAIN Decls /\ Compiles(Decls[at]) /\ Compiling /\ cls \in DOMAIN defs
    BY DEF PlaceField, Compiling, Sound_, Typed
  <1>2. At(cls) = at /\ Table[cls].fields = Decls[at].fields
    <2>1. IsKind(cls, "class")
      BY DEF Table, Known
    <2>. QED
      BY <1>1, <2>1, OneDeclaration, Declaration DEF Compiles
  <1>3. member \in DOMAIN Decls[at].fields /\ member \in Nat /\ member - 1 \in Nat /\ (member - 1) + 1 = member
    <2>1. member \in DOMAIN Decls[at].fields
      BY DEF PlaceField
    <2>2. IsList(Decls[at].fields)
      BY <1>1, Given DEF Sound_, Typed
    <2>3. DOMAIN Decls[at].fields = 1..Len(Decls[at].fields) /\ Len(Decls[at].fields) \in Nat
      BY <2>2, ListLength
    <2>. QED
      BY <2>1, <2>3
  <1>4. ~L!FullOfFields(defs[cls]) /\ defs' = [c \in DOMAIN defs \cup {cls} |-> IF c = cls THEN L!AddField(defs[cls], f) ELSE defs[c]]
    BY DEF PlaceField, Becomes, Fail
  <1>5. ClassLaid(defs, cls, member - 1, 0)
    <2>1. Opened(cls) /\ FieldsOf(cls) = member - 1 /\ MethodsOf(cls) = 0
      BY <1>1, <1>2 DEF Opened, FieldsOf, MethodsOf
    <2>. QED
      BY <1>1, <2>1 DEF Laid, Sound_
  <1>6. ~(at < at)
    <2>1. at \in Nat
      BY <1>1, DeclNumbers
    <2>. QED
      BY <2>1
  <1>11. p # NoName => p \in DOMAIN defs /\ p # cls
    <2>. SUFFICES ASSUME p # NoName PROVE p \in DOMAIN defs /\ p # cls
      OBVIOUS
    <2>1. p \in DOMAIN Table /\ At(p) < at /\ At(p) \in Nat /\ At(cls) \in Nat
      BY <1>2, KeptFacts
    <2>2. Opened(p)
      BY <2>1 DEF Opened
    <2>3. p # cls
      BY <1>2, <1>6, <2>1, Zenon
    <2>. QED
      BY <1>1, <2>1, <2>2, <2>3 DEF Laid, Sound_
  <1>7. IsList(above) /\ IsList(fs) /\ IsDef(defs[cls])
    BY <1>1, <1>11, EmptyIsList DEF Sound_, Typed, IsDef
  <1>8. FieldsLaid(Append(fs, InstanceField(fs, f)), above, Table[cls].fields, member)
    <2>1. FieldsLaid(fs, above, Table[cls].fields, member - 1)
      BY <1>5 DEF ClassLaid
    <2>2. f = Table[cls].fields[(member - 1) + 1]
      BY <1>2, <1>3
    <2>3. f.static \in BOOLEAN /\ f.type.k # "param"
      BY <1>1, <1>3, Given DEF Sound_, Typed
    <2>. HIDE DEF fs, above, f
    <2>4. FieldsLaid(Append(fs, InstanceField(fs, f)), above, Table[cls].fields, (member - 1) + 1)
      BY <1>3, <1>7, <2>1, <2>2, <2>3, FieldsGoOn
    <2>. QED
      BY <1>3, <2>4
  <1>9. /\ defs'[cls].methods = defs[cls].methods /\ defs'[cls].parent = defs[cls].parent
        /\ defs'[cls].fields = Append(fs, InstanceField(fs, f))
    BY <1>1, <1>4, <1>7, FieldAdded
  <1>10. p # NoName => defs'[p] = defs[p]
    BY <1>4, <1>11
  <1>. QED
    BY <1>5, <1>8, <1>9, <1>10 DEF ClassLaid

LEMMA LaidNextMethod ==
    ASSUME Sound_, Laid, PlaceMethod, complaints' = {}, Decls[at].name \in DOMAIN Table
    PROVE  ClassLaid(defs', Decls[at].name, Len(Decls[at].fields), member)
  <1>. DEFINE cls == Decls[at].name  m == Decls[at].methods[member]  p == Kept(cls)
              ms == defs[cls].methods  above == IF p = NoName THEN <<>> ELSE defs[p].methods
              nf == Len(Decls[at].fields)
  <1>1. phase = "methods" /\ at \in DOMAIN Decls /\ Compiles(Decls[at]) /\ Compiling /\ cls \in DOMAIN defs
    BY DEF PlaceMethod, Compiling, Sound_, Typed
  <1>2. At(cls) = at /\ Table[cls].methods = Decls[at].methods /\ Table[cls].fields = Decls[at].fields
    <2>1. IsKind(cls, "class")
      BY DEF Table, Known
    <2>. QED
      BY <1>1, <2>1, OneDeclaration, Declaration DEF Compiles
  <1>3. member \in Nat /\ member - 1 \in Nat /\ (member - 1) + 1 = member
    <2>1. member \in DOMAIN Decls[at].methods
      BY DEF PlaceMethod
    <2>2. IsList(Decls[at].methods)
      BY <1>1, Given DEF Sound_, Typed
    <2>3. DOMAIN Decls[at].methods = 1..Len(Decls[at].methods) /\ Len(Decls[at].methods) \in Nat
      BY <2>2, ListLength
    <2>. QED
      BY <2>1, <2>3
  <1>4. ~L!FullOfMethods(defs[cls], m) /\ defs' = [c \in DOMAIN defs \cup {cls} |-> IF c = cls THEN L!AddMethod(cls, defs[cls], m) ELSE defs[c]]
    BY DEF PlaceMethod, Becomes, Fail
  <1>5. ClassLaid(defs, cls, nf, member - 1)
    <2>1. Opened(cls) /\ FieldsOf(cls) = nf /\ MethodsOf(cls) = member - 1
      BY <1>1, <1>2 DEF Opened, FieldsOf, MethodsOf
    <2>. QED
      BY <1>1, <2>1 DEF Laid, Sound_
  <1>6. ~(at < at)
    <2>1. at \in Nat
      BY <1>1, DeclNumbers
    <2>. QED
      BY <2>1
  <1>11. p # NoName => p \in DOMAIN defs /\ p # cls
    <2>. SUFFICES ASSUME p # NoName PROVE p \in DOMAIN defs /\ p # cls
      OBVIOUS
    <2>1. p \in DOMAIN Table /\ At(p) < at /\ At(p) \in Nat /\ At(cls) \in Nat
      BY <1>2, KeptFacts
    <2>2. Opened(p)
      BY <2>1 DEF Opened
    <2>3. p # cls
      BY <1>2, <1>6, <2>1, Zenon
    <2>. QED
      BY <1>1, <2>1, <2>2, <2>3 DEF Laid, Sound_
  <1>7. IsList(ms) /\ IsDef(defs[cls])
    BY <1>1 DEF Sound_, Typed, IsDef
  <1>. DEFINE new == IF Has(ms, m.name) THEN [ms EXCEPT ![FirstAt(ms, m.name)] = L!Entry(cls, m)]
                     ELSE Append(ms, L!Entry(cls, m))
  <1>8. MethodsLaid(cls, new, above, Table[cls].methods, member)
    <2>1. MethodsLaid(cls, ms, above, Table[cls].methods, member - 1)
      BY <1>5 DEF ClassLaid
    <2>2. m = Table[cls].methods[(member - 1) + 1]
      BY <1>2, <1>3
    <2>. HIDE DEF ms, above, m, cls
    <2>4. MethodsLaid(cls, new, above, Table[cls].methods, (member - 1) + 1)
      BY <1>3, <1>7, <2>1, <2>2, MethodsGoOn
    <2>. QED
      BY <1>3, <2>4
  <1>9. /\ defs'[cls].fields = defs[cls].fields /\ defs'[cls].parent = defs[cls].parent
        /\ defs'[cls].methods = new
    <2>. DEFINE def == L!AddMethod(cls, defs[cls], m)
    <2>1. /\ def.fields = defs[cls].fields /\ def.parent = defs[cls].parent
          /\ def.methods = new
      <3>. HIDE DEF m, cls
      <3>. QED
        BY <1>4, <1>7, MethodAdded
    <2>2. defs'[cls] = def
      BY <1>4
    <2>. HIDE DEF def
    <2>. QED
      BY <2>1, <2>2
  <1>10. p # NoName => defs'[p] = defs[p]
    BY <1>4, <1>11
  <1>. QED
    BY <1>5, <1>8, <1>9, <1>10 DEF ClassLaid

\* Nothing but the class that is compiled changes.
LEMMA LaidOthers ==
    ASSUME Sound_, Laid, Compiling, at \in Nat, NEW cls, cls \in DOMAIN Table => At(cls) = at,
           NEW es, \A c \in DOMAIN defs : c # cls => es[c] = defs[c],
           NEW c \in DOMAIN Table, c # cls, Opened(c)
    PROVE  ClassLaid(es, c, FieldsOf(c), MethodsOf(c))
  <1>1. ClassLaid(defs, c, FieldsOf(c), MethodsOf(c)) /\ c \in DOMAIN defs
    BY DEF Laid, Sound_
  <1>2. Kept(c) # NoName => Kept(c) # cls /\ Kept(c) \in DOMAIN defs
    <2>. SUFFICES ASSUME Kept(c) # NoName PROVE Kept(c) # cls /\ Kept(c) \in DOMAIN defs
      OBVIOUS
    <2>1. Kept(c) \in DOMAIN Table /\ At(Kept(c)) < At(c) /\ At(Kept(c)) \in Nat /\ At(c) \in Nat
      BY KeptFacts
    <2>2. At(Kept(c)) < at
      BY <2>1 DEF Opened
    <2>3. ~(at < at)
      OBVIOUS
    <2>4. Opened(Kept(c)) /\ Kept(c) # cls
      BY <2>1, <2>2, <2>3 DEF Opened
    <2>. QED
      BY <2>1, <2>4 DEF Laid, Sound_
  <1>. QED
    BY <1>1, <1>2, LaidElsewhere

LEMMA LaidStep == Typed /\ Named /\ Settled /\ Laid /\ [Next]_vars => Laid'
  <1>. SUFFICES ASSUME Typed, Named, Settled, Laid, [Next]_vars, complaints' = {}, phase' # "register", Compiling'
                PROVE  Laid'
    BY DEF Laid, Compiling
  <1>1. ~Register
    BY DEF Register
  <1>2. complaints = {} /\ UNCHANGED <<program, symbols>>
    BY <1>1, RegisteredOnce
  <1>3. /\ StartCompile \/ SkipDecl \/ PlaceInterface \/ OpenClass \/ PlaceField \/ FieldsPlaced \/ PlaceMethod \/ CloseClass
             \/ EndCompile \/ UNCHANGED vars
        /\ UNCHANGED parents
    <2>1. ~ResolveParents /\ ~StartCompliance /\ ~CheckMembers
      BY DEF ResolveParents, StartCompliance, CheckMembers, Compiling, Pass
    <2>2. ~Search
      BY DEF Search, Compiling
    <2>3. ~RefuseClass
      BY DEF RefuseClass, Fail
    <2>. QED
      BY <1>1, <2>1, <2>2, <2>3 DEF Next, vars, StartCompile, SkipDecl, PlaceInterface, OpenClass, PlaceField, FieldsPlaced, PlaceMethod,
           CloseClass, EndCompile
  <1>4. Sound_
    <2>1. phase # "register"
      BY <1>3 DEF StartCompile, SkipDecl, PlaceInterface, OpenClass, PlaceField, FieldsPlaced, PlaceMethod,
           CloseClass, EndCompile, vars, Pass
    <2>. QED
      BY <1>2, <2>1 DEF Sound_
  <1>5. /\ Decls' = Decls /\ Table' = Table
        /\ \A d : Compiles(d)' = Compiles(d)
        /\ \A c : At(c)' = At(c)
        /\ \A ds, c, f, m : ClassLaid(ds, c, f, m)' <=> ClassLaid(ds, c, f, m)
    BY <1>2, <1>3, SameTable
  <1>6. /\ \A k \in DOMAIN Decls : k \in Nat /\ k # 0
        /\ \A c \in DOMAIN Table : At(c) \in DOMAIN Decls /\ At(c) \in Nat /\ Decls[At(c)].name = c
                                 /\ Compiles(Decls[At(c)])
    BY <1>4, DeclNumbers, Declaration
  <1>7. at \in Nat /\ DOMAIN Decls = 1..Len(Decls) /\ Len(Decls) \in Nat
    BY <1>4, DeclNumbers DEF Sound_, Typed, TypeOK
  <1>8. \A j \in DOMAIN Decls : Compiles(Decls[j]) /\ Decls[j].name \in DOMAIN Table => At(Decls[j].name) = j
    <2>. SUFFICES ASSUME NEW j \in DOMAIN Decls, Compiles(Decls[j]), Decls[j].name \in DOMAIN Table
                  PROVE  At(Decls[j].name) = j
      OBVIOUS
    <2>1. IsKind(Decls[j].name, "class")
      BY DEF Table, Known
    <2>. QED
      BY <1>4, <2>1, OneDeclaration DEF Compiles
  <1>9. CASE StartCompile
    <2>1. phase' = "classes" /\ at' = 1 /\ member' = 1 /\ DOMAIN defs' = {}
      BY <1>9 DEF StartCompile, Pass, Typed
    <2>2. \A c \in DOMAIN Table : ~Opened(c)'
      BY <1>5, <1>6, <2>1 DEF Opened
    <2>. QED
      BY <1>5, <2>1, <2>2 DEF Laid
  <1>10. CASE SkipDecl
    <2>1. phase = "classes" /\ phase' = "classes" /\ at' = at + 1 /\ member' = member /\ defs' = defs
          /\ at \in DOMAIN Decls /\ Decls[at].kind # "class" /\ Compiling
      BY <1>10 DEF SkipDecl, Compiling
    <2>2. \A c \in DOMAIN Table : /\ Opened(c)' <=> Opened(c)
                                  /\ Opened(c) => At(c) # at /\ At(c) # at'
      BY <1>5, <1>6, <1>7, <2>1 DEF Opened, Compiles
    <2>3. \A c \in DOMAIN Table : Opened(c) => FieldsOf(c)' = FieldsOf(c) /\ MethodsOf(c)' = MethodsOf(c)
      BY <1>5, <2>1, <2>2 DEF FieldsOf, MethodsOf
    <2>. QED
      BY <1>2, <1>5, <2>1, <2>2, <2>3 DEF Laid
  <1>18. CASE PlaceInterface
    <2>1. phase = "classes" /\ phase' = "classes" /\ at' = at + 1 /\ member' = member
          /\ at \in DOMAIN Decls /\ Decls[at].kind = "interface" /\ Compiling
      BY <1>18 DEF PlaceInterface, Compiling
    <2>2. \A c \in DOMAIN Table : /\ Opened(c)' <=> Opened(c)
                                  /\ Opened(c) => At(c) # at /\ At(c) # at'
      BY <1>5, <1>6, <1>7, <2>1 DEF Opened, Compiles
    <2>4. PICK name : name = Decls[at].name /\ name \notin DOMAIN Table
      <3>1. Keeps(at)
        BY <1>4, <2>1 DEF Sound_, Named, Registered
      <3>. QED
        BY <2>1, <3>1 DEF Keeps, Table, Known, IsKind
    <2>5. /\ DOMAIN defs' = DOMAIN defs \ {name} /\ \A c \in DOMAIN defs : c # name => defs'[c] = defs[c]
      BY <1>18, <2>4 DEF PlaceInterface
    <2>6. \A c \in DOMAIN Table : c \in DOMAIN defs' <=> Opened(c)'
      BY <1>2, <2>1, <2>2, <2>4, <2>5 DEF Laid
    <2>7. \A c \in DOMAIN defs' : \E j \in DOMAIN Decls : Compiles(Decls[j]) /\ Decls[j].name = c
      BY <1>2, <2>1, <2>5 DEF Laid
    <2>8. ASSUME NEW c \in DOMAIN Table, Opened(c) PROVE ClassLaid(defs', c, FieldsOf(c), MethodsOf(c))
      BY <1>4, <1>7, <2>1, <2>4, <2>5, <2>8, LaidOthers
    <2>3. \A c \in DOMAIN Table : Opened(c) => FieldsOf(c)' = FieldsOf(c) /\ MethodsOf(c)' = MethodsOf(c)
      BY <1>5, <2>1, <2>2 DEF FieldsOf, MethodsOf
    <2>. QED
      BY <1>2, <1>5, <2>1, <2>2, <2>3, <2>6, <2>7, <2>8 DEF Laid
  <1>11. CASE OpenClass
    <2>0. PICK cls : cls = Decls[at].name
      OBVIOUS
    <2>1. phase = "classes" /\ phase' = "fields" /\ at' = at /\ member' = member /\ member = 1
          /\ at \in DOMAIN Decls /\ Compiles(Decls[at]) /\ Compiling
      BY <1>2, <1>11 DEF OpenClass, Compiling, Pass, Laid
    <2>2. DOMAIN defs' = DOMAIN defs \cup {cls} /\ \A c \in DOMAIN defs : c # cls => defs'[c] = defs[c]
      BY <1>11, <2>0 DEF OpenClass, Becomes
    <2>3. cls \in DOMAIN Table => At(cls) = at
      BY <1>8, <2>0, <2>1
    <2>4. \A c \in DOMAIN Table : c # cls => At(c) # at
      BY <1>6, <2>0
    <2>5. ASSUME NEW c \in DOMAIN Table, c # cls, Opened(c)'
          PROVE  ClassLaid(defs', c, FieldsOf(c)', MethodsOf(c)')
      <3>1. At(c) # at /\ Opened(c) /\ FieldsOf(c)' = FieldsOf(c) /\ MethodsOf(c)' = MethodsOf(c)
        BY <1>5, <2>1, <2>4, <2>5 DEF Opened, FieldsOf, MethodsOf
      <3>. QED
        BY <1>4, <1>7, <2>1, <2>2, <2>3, <2>5, <3>1, LaidOthers
    <2>6. ASSUME cls \in DOMAIN Table PROVE ClassLaid(defs', cls, FieldsOf(cls)', MethodsOf(cls)')
      <3>1. ClassLaid(defs', cls, 0, 0)
        BY <1>2, <1>4, <1>11, <2>6, <2>0, LaidFirst
      <3>2. FieldsOf(cls)' = 0 /\ MethodsOf(cls)' = 0
        <4>1. At(cls)' = at' /\ phase' = "fields" /\ member' = 1
          BY <1>5, <2>1, <2>3, <2>6
        <4>. QED
          BY <4>1 DEF FieldsOf, MethodsOf
      <3>. QED
        BY <3>1, <3>2
    <2>7. \A c \in DOMAIN Table : c \in DOMAIN defs' <=> Opened(c)'
      <3>1. \A c \in DOMAIN Table : c # cls => (Opened(c)' <=> Opened(c))
        BY <1>5, <2>1, <2>4 DEF Opened
      <3>2. cls \in DOMAIN Table => Opened(cls)'
        BY <1>5, <2>1, <2>3 DEF Opened
      <3>. QED
        BY <1>2, <2>1, <2>2, <3>1, <3>2 DEF Laid
    <2>8. \A c \in DOMAIN defs' : \E j \in DOMAIN Decls : Compiles(Decls[j]) /\ Decls[j].name = c
      BY <1>2, <2>0, <2>1, <2>2 DEF Laid
    <2>9. member' \in 1..(Len(Decls[at].fields) + 1)
      <3>1. Len(Decls[at].fields) \in Nat
        BY <1>4, <2>1, Given, ListLength DEF Sound_, Typed
      <3>. QED
        BY <2>1, <3>1
    <2>10. ASSUME NEW c \in DOMAIN Table, Opened(c)' PROVE ClassLaid(defs', c, FieldsOf(c)', MethodsOf(c)')
      BY <2>5, <2>6, <2>10
    <2>. QED
      BY <1>5, <2>1, <2>7, <2>8, <2>9, <2>10 DEF Laid
  <1>12. CASE PlaceField
    <2>0. PICK cls : cls = Decls[at].name
      OBVIOUS
    <2>1. /\ phase = "fields" /\ phase' = "fields" /\ at' = at /\ member' = member + 1 /\ Compiling
          /\ at \in DOMAIN Decls /\ Compiles(Decls[at]) /\ member \in DOMAIN Decls[at].fields
          /\ cls \in DOMAIN defs
      BY <1>4, <1>12, <2>0 DEF PlaceField, Compiling, Fail, Sound_, Typed
    <2>2. DOMAIN defs' = DOMAIN defs /\ \A c \in DOMAIN defs : c # cls => defs'[c] = defs[c]
      BY <1>12, <2>0, <2>1 DEF PlaceField, Becomes, Fail
    <2>3. cls \in DOMAIN Table => At(cls) = at
      BY <1>8, <2>0, <2>1
    <2>4. \A c \in DOMAIN Table : c # cls => At(c) # at
      BY <1>6, <2>0
    <2>5. \A c \in DOMAIN Table : Opened(c)' <=> Opened(c)
      BY <1>5, <2>1 DEF Opened
    <2>6. member \in Nat /\ member' \in 1..(Len(Decls[at].fields) + 1) /\ member' - 1 = member
      <3>1. IsList(Decls[at].fields)
        BY <1>4, <2>1, Given DEF Sound_, Typed
      <3>2. DOMAIN Decls[at].fields = 1..Len(Decls[at].fields) /\ Len(Decls[at].fields) \in Nat
        BY <3>1, ListLength
      <3>. QED
        BY <2>1, <3>2
    <2>7. ASSUME NEW c \in DOMAIN Table, Opened(c) PROVE ClassLaid(defs', c, FieldsOf(c)', MethodsOf(c)')
      <3>1. CASE c # cls
        <4>1. FieldsOf(c)' = FieldsOf(c) /\ MethodsOf(c)' = MethodsOf(c)
          BY <1>5, <2>1, <2>4, <3>1 DEF FieldsOf, MethodsOf
        <4>. QED
          BY <1>4, <1>7, <2>1, <2>2, <2>3, <2>7, <3>1, <4>1, LaidOthers
      <3>2. CASE c = cls
        <4>1. ClassLaid(defs', cls, member, 0)
          BY <1>4, <1>12, <2>0, <2>7, <3>2, LaidNextField DEF Sound_
        <4>2. At(cls)' = at' /\ phase' = "fields" /\ member' - 1 = member
          BY <1>5, <2>1, <2>3, <2>6, <2>7, <3>2
        <4>3. FieldsOf(cls)' = member /\ MethodsOf(cls)' = 0
          BY <4>2 DEF FieldsOf, MethodsOf
        <4>. QED
          BY <3>2, <4>1, <4>3
      <3>. QED
        BY <3>1, <3>2
    <2>. QED
      BY <1>2, <1>5, <2>1, <2>2, <2>5, <2>6, <2>7 DEF Laid
  <1>13. CASE FieldsPlaced
    <2>1. /\ phase = "fields" /\ phase' = "methods" /\ at' = at /\ member' = 1 /\ defs' = defs /\ Compiling
          /\ at \in DOMAIN Decls /\ member \notin DOMAIN Decls[at].fields
      BY <1>4, <1>13 DEF FieldsPlaced, Compiling, Pass, Sound_, Typed
    <2>2. /\ DOMAIN Decls[at].fields = 1..Len(Decls[at].fields) /\ Len(Decls[at].fields) \in Nat
          /\ Len(Decls[at].methods) \in Nat
      <3>1. IsList(Decls[at].fields) /\ IsList(Decls[at].methods)
        BY <1>4, <2>1, Given DEF Sound_, Typed
      <3>. QED
        BY <3>1, ListLength
    <2>3. member - 1 = Len(Decls[at].fields) /\ member' \in 1..(Len(Decls[at].methods) + 1)
      BY <1>2, <2>1, <2>2 DEF Laid
    <2>4. \A c \in DOMAIN Table : Opened(c)' <=> Opened(c)
      BY <1>5, <2>1 DEF Opened
    <2>5. ASSUME NEW c \in DOMAIN Table PROVE FieldsOf(c)' = FieldsOf(c) /\ MethodsOf(c)' = MethodsOf(c)
      <3>1. Table[c].fields = Decls[At(c)].fields
        BY <1>4, Declaration
      <3>. QED
        BY <1>5, <2>1, <2>3, <3>1 DEF FieldsOf, MethodsOf
    <2>. QED
      BY <1>2, <1>5, <2>1, <2>3, <2>4, <2>5 DEF Laid
  <1>14. CASE PlaceMethod
    <2>0. PICK cls : cls = Decls[at].name
      OBVIOUS
    <2>1. /\ phase = "methods" /\ phase' = "methods" /\ at' = at /\ member' = member + 1 /\ Compiling
          /\ at \in DOMAIN Decls /\ Compiles(Decls[at]) /\ member \in DOMAIN Decls[at].methods
          /\ cls \in DOMAIN defs
      BY <1>4, <1>14, <2>0 DEF PlaceMethod, Compiling, Fail, Sound_, Typed
    <2>2. DOMAIN defs' = DOMAIN defs /\ \A c \in DOMAIN defs : c # cls => defs'[c] = defs[c]
      BY <1>14, <2>0, <2>1 DEF PlaceMethod, Becomes, Fail
    <2>3. cls \in DOMAIN Table => At(cls) = at
      BY <1>8, <2>0, <2>1
    <2>4. \A c \in DOMAIN Table : c # cls => At(c) # at
      BY <1>6, <2>0
    <2>5. \A c \in DOMAIN Table : Opened(c)' <=> Opened(c)
      BY <1>5, <2>1 DEF Opened
    <2>6. member \in Nat /\ member' \in 1..(Len(Decls[at].methods) + 1) /\ member' - 1 = member
      <3>1. IsList(Decls[at].methods)
        BY <1>4, <2>1, Given DEF Sound_, Typed
      <3>2. DOMAIN Decls[at].methods = 1..Len(Decls[at].methods) /\ Len(Decls[at].methods) \in Nat
        BY <3>1, ListLength
      <3>. QED
        BY <2>1, <3>2
    <2>7. ASSUME NEW c \in DOMAIN Table, Opened(c) PROVE ClassLaid(defs', c, FieldsOf(c)', MethodsOf(c)')
      <3>1. CASE c # cls
        <4>1. FieldsOf(c)' = FieldsOf(c) /\ MethodsOf(c)' = MethodsOf(c)
          BY <1>5, <2>1, <2>4, <3>1 DEF FieldsOf, MethodsOf
        <4>. QED
          BY <1>4, <1>7, <2>1, <2>2, <2>3, <2>7, <3>1, <4>1, LaidOthers
      <3>2. CASE c = cls
        <4>1. ClassLaid(defs', cls, Len(Decls[at].fields), member)
          BY <1>4, <1>14, <2>0, <2>7, <3>2, LaidNextMethod DEF Sound_
        <4>2. At(cls)' = at' /\ At(cls) = at /\ phase' = "methods" /\ member' - 1 = member
          BY <1>5, <2>1, <2>3, <2>6, <2>7, <3>2
        <4>3. Table'[cls].fields = Decls[at].fields
          BY <1>4, <1>5, <2>7, <3>2, <4>2, Declaration
        <4>4. FieldsOf(cls)' = Len(Decls[at].fields) /\ MethodsOf(cls)' = member
          BY <4>2, <4>3 DEF FieldsOf, MethodsOf
        <4>. QED
          BY <3>2, <4>1, <4>4
      <3>. QED
        BY <3>1, <3>2
    <2>. QED
      BY <1>2, <1>5, <2>1, <2>2, <2>5, <2>6, <2>7 DEF Laid
  <1>15. CASE CloseClass
    <2>1. /\ phase = "methods" /\ phase' = "classes" /\ at' = at + 1 /\ member' = 1 /\ defs' = defs /\ Compiling
          /\ at \in DOMAIN Decls /\ member \notin DOMAIN Decls[at].methods
      BY <1>4, <1>15 DEF CloseClass, Compiling, Pass, Sound_, Typed
    <2>2. DOMAIN Decls[at].methods = 1..Len(Decls[at].methods) /\ Len(Decls[at].methods) \in Nat
      <3>1. IsList(Decls[at].methods)
        BY <1>4, <2>1, Given DEF Sound_, Typed
      <3>. QED
        BY <3>1, ListLength
    <2>3. member - 1 = Len(Decls[at].methods)
      BY <1>2, <2>1, <2>2 DEF Laid
    <2>4. \A c \in DOMAIN Table : Opened(c)' <=> Opened(c)
      BY <1>5, <1>6, <1>7, <2>1 DEF Opened
    <2>5. ASSUME NEW c \in DOMAIN Table, Opened(c) PROVE FieldsOf(c)' = FieldsOf(c) /\ MethodsOf(c)' = MethodsOf(c)
      <3>1. Table[c].methods = Decls[At(c)].methods
        BY <1>4, Declaration
      <3>. QED
        BY <1>5, <2>1, <2>3, <3>1 DEF FieldsOf, MethodsOf
    <2>. QED
      BY <1>2, <1>5, <2>1, <2>4, <2>5 DEF Laid
  <1>16. CASE EndCompile
    <2>1. /\ phase = "classes" /\ phase' = "compiled" /\ at' = at /\ member' = member /\ defs' = defs /\ Compiling
          /\ at > Len(Decls)
      BY <1>16 DEF EndCompile, Compiling, Pass
    <2>2. \A c \in DOMAIN Table : Opened(c)' <=> Opened(c)
      BY <1>5, <2>1 DEF Opened
    <2>3. \A c \in DOMAIN Table : FieldsOf(c)' = FieldsOf(c) /\ MethodsOf(c)' = MethodsOf(c)
      BY <1>5, <2>1 DEF FieldsOf, MethodsOf
    <2>. QED
      BY <1>2, <1>5, <2>1, <2>2, <2>3 DEF Laid
  <1>17. CASE UNCHANGED vars
    <2>1. phase' = phase /\ at' = at /\ member' = member /\ defs' = defs /\ complaints' = complaints /\ Compiling
      BY <1>17 DEF vars, Compiling
    <2>2. \A c \in DOMAIN Table : Opened(c)' <=> Opened(c)
      BY <1>5, <2>1 DEF Opened
    <2>3. \A c \in DOMAIN Table : FieldsOf(c)' = FieldsOf(c) /\ MethodsOf(c)' = MethodsOf(c)
      BY <1>5, <2>1 DEF FieldsOf, MethodsOf
    <2>. QED
      BY <1>2, <1>5, <2>1, <2>2, <2>3 DEF Laid
  <1>. QED
    BY <1>3, <1>9, <1>10, <1>11, <1>12, <1>13, <1>14, <1>15, <1>16, <1>17, <1>18

LEMMA AlwaysLaid == Spec => []Laid
  <1>1. Init => Laid
    BY DEF Init, Laid, Compiling
  <1>. QED
    BY <1>1, LaidStep, AlwaysTyped, AlwaysNamed, AlwaysSettled, PTL DEF Spec

(***************************************************************************)
(* The way up from a class                                                 *)
(***************************************************************************)
LEMMA UpwardsSteps ==
    ASSUME NEW c \in DOMAIN Table
    PROVE  /\ Upwards(c)[0] = c
           /\ \A n \in Nat : LET u == Upwards(c)[n] IN
                /\ u \in DOMAIN Table
                /\ Upwards(c)[n + 1] = IF Table[u].parent \in DOMAIN Table THEN Table[u].parent ELSE u
  <1>. DEFINE next == [x \in DOMAIN Table |-> IF Table[x].parent \in DOMAIN Table THEN Table[x].parent ELSE x]
              u == Upwards(c)
  <1>1. u[0] = c /\ \A n \in Nat : u[n + 1] = next[u[n]]
    <2>1. u = Iterate(next, c)
      BY DEF Upwards
    <2>. HIDE DEF next, u
    <2>2. Iterate(next, c)[0] = c /\ \A n \in Nat : Iterate(next, c)[n + 1] = next[Iterate(next, c)[n]]
      BY Iterated
    <2>. QED
      BY <2>1, <2>2
  <1>2. \A x \in DOMAIN Table : next[x] = (IF Table[x].parent \in DOMAIN Table THEN Table[x].parent ELSE x)
                                /\ next[x] \in DOMAIN Table
    OBVIOUS
  <1>. HIDE DEF next, u
  <1>. DEFINE Bad == {n \in Nat : u[n] \notin DOMAIN Table}
  <1>3. ASSUME Bad # {} PROVE FALSE
    <2>. DEFINE l == Min(Bad)
    <2>1. l \in Bad /\ \A k \in Bad : l <= k
      <3>1. Bad \subseteq Nat
        OBVIOUS
      <3>. HIDE DEF Bad
      <3>. QED
        BY <1>3, <3>1, Least
    <2>. HIDE DEF l
    <2>2. l # 0
      BY <1>1, <2>1
    <2>3. l - 1 \in Nat /\ ~(l <= l - 1) /\ (l - 1) + 1 = l
      BY <2>1, <2>2
    <2>4. u[l - 1] \in DOMAIN Table
      BY <2>1, <2>3
    <2>5. u[l] = next[u[l - 1]]
      BY <1>1, <2>3
    <2>. QED
      BY <1>2, <2>1, <2>4, <2>5
  <1>4. \A n \in Nat : u[n] \in DOMAIN Table
    BY <1>3
  <1>5. ASSUME NEW n \in Nat
        PROVE  u[n + 1] = IF Table[u[n]].parent \in DOMAIN Table THEN Table[u[n]].parent ELSE u[n]
    BY <1>1, <1>2, <1>4
  <1>. QED
    BY <1>1, <1>4, <1>5 DEF u

LEMMA UpwardsFrom ==
    ASSUME NEW c, NEW m \in Nat, NEW n \in Nat
    PROVE  Upwards(Upwards(c)[m])[n] = Upwards(c)[m + n]
  BY IteratedFrom DEF Upwards

\* the classes above one that has no parent, or has one
LEMMA UpwardsRoot ==
    ASSUME NEW c \in DOMAIN Table, Table[c].parent \notin DOMAIN Table
    PROVE  \A n \in Nat : Upwards(c)[n] = c
  <1>. DEFINE u == Upwards(c)
              Bad == {n \in Nat : u[n] # c}
  <1>1. u[0] = c /\ \A n \in Nat : u[n] = c => u[n + 1] = c
    BY UpwardsSteps
  <1>. HIDE DEF u
  <1>2. ASSUME Bad # {} PROVE FALSE
    <2>. DEFINE l == Min(Bad)
    <2>1. l \in Bad /\ \A k \in Bad : l <= k
      <3>1. Bad \subseteq Nat
        OBVIOUS
      <3>. HIDE DEF Bad
      <3>. QED
        BY <1>2, <3>1, Least
    <2>. HIDE DEF l
    <2>2. l # 0
      BY <1>1, <2>1
    <2>3. l - 1 \in Nat /\ ~(l <= l - 1) /\ (l - 1) + 1 = l
      BY <2>1, <2>2
    <2>4. u[l - 1] = c
      BY <2>1, <2>3
    <2>. QED
      BY <1>1, <2>1, <2>3, <2>4
  <1>. QED
    BY <1>2 DEF u

LEMMA UpwardsParent ==
    ASSUME NEW c \in DOMAIN Table, NEW q \in DOMAIN Table, q = Table[c].parent, NEW n \in Nat
    PROVE  Upwards(c)[n + 1] = Upwards(q)[n]
  <1>1. Upwards(c)[1] = q
    <2>1. ASSUME NEW k \in Nat, Upwards(c)[k] = c PROVE Upwards(c)[k + 1] = q
      <3>. DEFINE u == Upwards(c)
      <3>1. u[k + 1] = IF Table[u[k]].parent \in DOMAIN Table THEN Table[u[k]].parent ELSE u[k]
        BY UpwardsSteps
      <3>. HIDE DEF u
      <3>. QED
        BY <2>1, <3>1 DEF u
    <2>2. Upwards(c)[0] = c
      BY UpwardsSteps
    <2>. QED
      BY <2>1, <2>2
  <1>2. Upwards(Upwards(c)[1])[n] = Upwards(c)[1 + n]
    <2>1. ASSUME NEW k \in Nat PROVE Upwards(Upwards(c)[k])[n] = Upwards(c)[k + n]
      BY UpwardsFrom
    <2>2. 1 \in Nat
      OBVIOUS
    <2>. QED
      BY <2>1, <2>2
  <1>3. 1 + n = n + 1
    OBVIOUS
  <1>. QED
    BY <1>1, <1>2, <1>3

\* a class all of whose ancestors are declared before those that extend them
Straight(c) ==
    \A n \in Nat : LET u == Upwards(c)[n] IN
      Table[u].parent \in DOMAIN Table => At(Table[u].parent) < At(u)

LEMMA StraightUp ==
    ASSUME Sound_, NEW c \in DOMAIN Table, ~Orphaned(c)
    PROVE  /\ Straight(c)
           /\ \A n \in Nat : \E m \in 0..Len(Decls) : m <= n /\ Upwards(c)[n] = Upwards(c)[m]
  <1>. DEFINE u == Upwards(c)
              N == Len(Decls)
              Root(x) == Table[x].parent \notin DOMAIN Table
              Low(n) == Root(u[n]) \/ At(u[n]) <= N - n
  <1>1. N \in Nat /\ \A x \in DOMAIN Table : At(x) \in 1..N
    BY DeclNumbers, Declaration
  <1>2. /\ u[0] = c /\ \A n \in Nat : u[n] \in DOMAIN Table
        /\ \A n \in Nat : Root(u[n]) => u[n + 1] = u[n]
        /\ \A n \in Nat : ~Root(u[n]) => u[n + 1] = Table[u[n]].parent
    BY UpwardsSteps
  <1>3. \A n \in 0..N : ~Root(u[n]) => At(Table[u[n]].parent) < At(u[n])
    <2>. SUFFICES ASSUME NEW n \in 0..N, ~Root(u[n]) PROVE At(Table[u[n]].parent) < At(u[n])
      OBVIOUS
    <2>1. u[n] \in DOMAIN Table /\ Table[u[n]].parent \in DOMAIN Table
      BY <1>1, <1>2
    <2>2. ~(At(Table[u[n]].parent) >= At(u[n]))
      BY <2>1 DEF Orphaned, Lineage, At
    <2>. QED
      BY <1>1, <2>1, <2>2
  <1>. HIDE DEF u, N, Root
  <1>4. ASSUME NEW n \in 0..N PROVE Low(n)
    <2>. DEFINE Bad == {k \in 0..N : ~Low(k)}
    <2>1. ASSUME Bad # {} PROVE FALSE
      <3>. DEFINE l == Min(Bad)
      <3>1. l \in Bad /\ \A k \in Bad : l <= k
        <4>1. Bad \subseteq Nat
          BY <1>1
        <4>. HIDE DEF Bad
        <4>. QED
          BY <2>1, <4>1, Least
      <3>. HIDE DEF l
      <3>2. l # 0
        <4>1. Low(0)
          BY <1>1, <1>2
        <4>. HIDE DEF Low
        <4>. QED
          BY <3>1, <4>1
      <3>3. l - 1 \in 0..N /\ l - 1 \in Nat /\ ~(l <= l - 1) /\ (l - 1) + 1 = l /\ l \in Nat
        BY <1>1, <3>1, <3>2
      <3>4. Low(l - 1)
        <4>. HIDE DEF Low
        <4>. QED
          BY <3>1, <3>3
      <3>5. CASE Root(u[l - 1])
        <4>1. u[l] = u[l - 1]
          BY <1>2, <3>3, <3>5
        <4>. QED
          BY <3>1, <3>5, <4>1
      <3>6. CASE ~Root(u[l - 1])
        <4>1. u[l] = Table[u[l - 1]].parent
          BY <1>2, <3>3, <3>6
        <4>2. At(u[l]) < At(u[l - 1])
          BY <1>3, <3>3, <3>6, <4>1
        <4>3. At(u[l - 1]) <= N - (l - 1)
          BY <3>4, <3>6
        <4>4. At(u[l]) \in Nat /\ At(u[l - 1]) \in Nat
          BY <1>1, <1>2, <3>3
        <4>5. At(u[l]) <= N - l
          BY <1>1, <3>3, <4>2, <4>3, <4>4
        <4>. QED
          BY <3>1, <4>5
      <3>. QED
        BY <3>5, <3>6
    <2>. HIDE DEF Low
    <2>. QED
      BY <2>1
  <1>5. Root(u[N])
    <2>1. N \in 0..N /\ N \in Nat
      BY <1>1
    <2>2. Low(N)
      BY <1>4, <2>1
    <2>3. At(u[N]) \in 1..N
      BY <1>1, <1>2, <2>1
    <2>. QED
      BY <1>1, <2>2, <2>3
  <1>6. \A n \in Nat : n > N => u[n] = u[N]
    <2>. SUFFICES ASSUME NEW n \in Nat, n > N PROVE u[n] = u[N]
      OBVIOUS
    <2>1. n - N \in Nat /\ N + (n - N) = n
      BY <1>1
    <2>2. Upwards(u[N])[n - N] = u[N + (n - N)]
      BY <1>1, <2>1, UpwardsFrom DEF u
    <2>3. u[N] \in DOMAIN Table
      BY <1>1, <1>2
    <2>4. Upwards(u[N])[n - N] = u[N]
      BY <1>5, <2>1, <2>3, UpwardsRoot DEF Root
    <2>. QED
      BY <2>1, <2>2, <2>4
  <1>7. ASSUME NEW n \in Nat PROVE \E m \in 0..N : m <= n /\ u[n] = u[m]
    <2>1. CASE n > N
      BY <1>1, <1>6, <2>1
    <2>2. CASE ~(n > N)
      BY <1>1, <2>2
    <2>. QED
      BY <2>1, <2>2
  <1>8. Straight(c)
    BY <1>3, <1>7 DEF Straight, u, Root
  <1>. QED
    BY <1>7, <1>8 DEF u, N

(***************************************************************************)
(* What the class table of a compiled program says                         *)
(***************************************************************************)
Built == Sound_ /\ Laid /\ phase = "compiled"

FieldsAbove(c) == IF Table[c].parent \in DOMAIN Table THEN defs[Table[c].parent].fields ELSE <<>>
MethodsAbove(c) == IF Table[c].parent \in DOMAIN Table THEN defs[Table[c].parent].methods ELSE <<>>

LEMMA AllLaid ==
    ASSUME Built, NEW c \in DOMAIN Table
    PROVE  /\ c \in DOMAIN defs /\ IsList(defs[c].fields) /\ IsList(defs[c].methods)
           /\ IsList(Table[c].fields) /\ IsList(Table[c].methods) /\ At(c) \in 1..Len(Decls)
           /\ ClassLaid(defs, c, Len(Table[c].fields), Len(Table[c].methods))
  <1>1. Sound_ /\ Laid /\ phase = "compiled" /\ complaints = {} /\ Compiling
    BY DEF Built, Sound_, Compiling
  <1>2. At(c) \in DOMAIN Decls /\ Table[c].fields = Decls[At(c)].fields /\ Table[c].methods = Decls[At(c)].methods
    BY <1>1, Declaration
  <1>3. Len(Decls) \in Nat /\ DOMAIN Decls = 1..Len(Decls)
    BY <1>1, DeclNumbers
  <1>4. at \in Nat
    <2>1. at \in 1..(Len(Decls) + 1)
      BY <1>1 DEF Sound_, Typed, TypeOK
    <2>. QED
      BY <1>3, <2>1
  <1>5. At(c) < at /\ At(c) # at
    <2>1. at > Len(Decls)
      BY <1>1 DEF Laid
    <2>. QED
      BY <1>2, <1>3, <1>4, <2>1
  <1>6. FieldsOf(c) = Len(Table[c].fields) /\ MethodsOf(c) = Len(Table[c].methods) /\ Opened(c)
    BY <1>5 DEF FieldsOf, MethodsOf, Opened
  <1>7. c \in DOMAIN defs /\ ClassLaid(defs, c, Len(Table[c].fields), Len(Table[c].methods))
    <2>1. c \in DOMAIN defs /\ ClassLaid(defs, c, FieldsOf(c), MethodsOf(c))
      BY <1>1, <1>6 DEF Laid
    <2>. QED
      BY <1>6, <2>1
  <1>8. IsDef(defs[c])
    BY <1>1, <1>7 DEF Sound_, Typed
  <1>9. IsList(Table[c].fields) /\ IsList(Table[c].methods)
    <2>1. IsList(Decls[At(c)].fields) /\ IsList(Decls[At(c)].methods)
      BY <1>1, <1>2, Given DEF Sound_, Typed
    <2>. QED
      BY <1>2, <2>1
  <1>. QED
    BY <1>2, <1>3, <1>7, <1>8, <1>9 DEF IsDef

\* A class all of whose ancestors come before it has the members of its parent, then its own.
LEMMA LaidOver ==
    ASSUME Built, NEW c \in DOMAIN Table, Straight(c)
    PROVE  /\ FieldsLaid(defs[c].fields, FieldsAbove(c), Table[c].fields, Len(Table[c].fields))
           /\ MethodsLaid(c, defs[c].methods, MethodsAbove(c), Table[c].methods, Len(Table[c].methods))
           /\ IsList(FieldsAbove(c)) /\ IsList(MethodsAbove(c))
           /\ defs[c].parent = IF Table[c].parent \in DOMAIN Table THEN Table[c].parent ELSE NoName
  <1>1. ClassLaid(defs, c, Len(Table[c].fields), Len(Table[c].methods))
    BY AllLaid
  <1>2. CASE Table[c].parent \in DOMAIN Table
    <2>. DEFINE p == Table[c].parent
    <2>1. p # NoName
      BY <1>2, Declaration, Zenon DEF NoName, Built
    <2>2. At(p) < At(c)
      <3>1. Upwards(c)[0] = c /\ 0 \in Nat
        BY UpwardsSteps
      <3>. QED
        BY <1>2, <3>1 DEF Straight
    <2>3. Kept(c) = p
      BY <1>2, <2>2 DEF Kept
    <2>4. IsList(defs[p].fields) /\ IsList(defs[p].methods)
      BY <1>2, AllLaid
    <2>5. FieldsAbove(c) = defs[p].fields /\ MethodsAbove(c) = defs[p].methods
      BY <1>2 DEF FieldsAbove, MethodsAbove
    <2>. QED
      BY <1>1, <1>2, <2>1, <2>3, <2>4, <2>5 DEF ClassLaid
  <1>3. CASE Table[c].parent \notin DOMAIN Table
    <2>1. Kept(c) = NoName
      BY <1>3 DEF Kept
    <2>2. FieldsAbove(c) = <<>> /\ MethodsAbove(c) = <<>>
      BY <1>3 DEF FieldsAbove, MethodsAbove
    <2>. QED
      BY <1>1, <1>3, <2>1, <2>2, EmptyIsList DEF ClassLaid
  <1>. QED
    BY <1>2, <1>3

\* the parent of such a class is one
LEMMA StraightParent ==
    ASSUME Built, NEW c \in DOMAIN Table, Straight(c), Table[c].parent \in DOMAIN Table
    PROVE  Straight(Table[c].parent) /\ At(Table[c].parent) < At(c)
  <1>. DEFINE q == Table[c].parent
  <1>1. \A n \in Nat : n + 1 \in Nat /\ Upwards(c)[n + 1] = Upwards(q)[n]
    BY UpwardsParent
  <1>2. Straight(q)
    <2>. HIDE DEF q
    <2>. QED
      BY <1>1 DEF Straight
  <1>3. Upwards(c)[0] = c /\ 0 \in Nat
    BY UpwardsSteps
  <1>. QED
    BY <1>2, <1>3 DEF Straight

(***************************************************************************)
(* What a class has of those above it                                      *)
(***************************************************************************)
SlotsKept(c) ==
    \A n \in Nat : LET u == Upwards(c)[n] IN
      /\ \A i \in DOMAIN defs[u].fields : i \in DOMAIN defs[c].fields /\ defs[c].fields[i] = defs[u].fields[i]
      /\ \A i \in DOMAIN defs[u].methods :
           i \in DOMAIN defs[c].methods /\ defs[c].methods[i].name = defs[u].methods[i].name

NoneMissing(c) ==
    \A n \in Nat : LET methods == Table[Upwards(c)[n]].methods IN
      \A k \in DOMAIN methods : Has(defs[c].methods, methods[k].name)

\* every field has been declared by the class or above it
FieldsFrom(c) ==
    \A i \in DOMAIN defs[c].fields : \E n \in Nat : Has(Table[Upwards(c)[n]].fields, defs[c].fields[i].name)

\* entry e is of the nearest class that declares a method of its name
OwnedAt(c, e, m) ==
    LET u == Upwards(c)[m] IN
    /\ e.owner = u
    /\ \E k \in DOMAIN Table[u].methods : Table[u].methods[k].name = e.name /\ Table[u].methods[k].static = e.static
    /\ \A l \in Nat : l < m => ~Has(Table[Upwards(c)[l]].methods, e.name)
OwnersNearest(c) == \A i \in DOMAIN defs[c].methods : \E m \in Nat : OwnedAt(c, defs[c].methods[i], m)

Meant(c) == SlotsKept(c) /\ NoneMissing(c) /\ FieldsFrom(c) /\ OwnersNearest(c)

\* the same of a class without a parent, or of one whose parent has it
LEMMA AboveOrAt ==
    ASSUME Built, NEW c \in DOMAIN Table, Straight(c), Table[c].parent \in DOMAIN Table, NEW n \in Nat
    PROVE  \/ n = 0 /\ Upwards(c)[n] = c
           \/ \E k \in Nat : n = k + 1 /\ Upwards(c)[n] = Upwards(Table[c].parent)[k]
  <1>1. CASE n = 0
    BY <1>1, UpwardsSteps
  <1>2. CASE n # 0
    <2>. DEFINE q == Table[c].parent
    <2>1. n - 1 \in Nat /\ n = (n - 1) + 1
      BY <1>2
    <2>2. ASSUME NEW k \in Nat PROVE Upwards(c)[k + 1] = Upwards(q)[k]
      BY UpwardsParent
    <2>. QED
      BY <2>1, <2>2
  <1>. QED
    BY <1>1, <1>2

LEMMA LongerList ==
    ASSUME NEW s, IsList(s), NEW t, IsList(t), NEW n \in Nat, Len(t) = Len(s) + n
    PROVE  \A i \in DOMAIN s : i \in DOMAIN t
  <1>1. Len(s) \in Nat /\ DOMAIN s = 1..Len(s) /\ DOMAIN t = 1..Len(t)
    BY ListLength
  <1>. QED
    BY <1>1

LEMMA SlotsKeptStep ==
    ASSUME Built, NEW c \in DOMAIN Table, Straight(c), Table[c].parent \in DOMAIN Table => SlotsKept(Table[c].parent)
    PROVE  SlotsKept(c)
  <1>1. CASE Table[c].parent \notin DOMAIN Table
    <2>1. \A n \in Nat : Upwards(c)[n] = c
      BY <1>1, UpwardsRoot
    <2>. QED
      BY <2>1 DEF SlotsKept
  <1>2. CASE Table[c].parent \in DOMAIN Table
    <2>. DEFINE q == Table[c].parent
    <2>1. /\ \A i \in DOMAIN defs[q].fields : defs[c].fields[i] = defs[q].fields[i]
          /\ Len(defs[c].fields) = Len(defs[q].fields) + Len(Table[c].fields)
          /\ \A i \in DOMAIN defs[q].methods :
               i \in DOMAIN defs[c].methods /\ defs[c].methods[i].name = defs[q].methods[i].name
      BY <1>2, LaidOver DEF FieldsLaid, MethodsLaid, FieldsAbove, MethodsAbove
    <2>2. \A i \in DOMAIN defs[q].fields : i \in DOMAIN defs[c].fields
      <3>1. IsList(defs[c].fields) /\ IsList(defs[q].fields) /\ Len(Table[c].fields) \in Nat
        BY <1>2, AllLaid, ListLength
      <3>2. Len(defs[c].fields) = Len(defs[q].fields) + Len(Table[c].fields)
        BY <2>1
      <3>3. \A s, t : IsList(s) /\ IsList(t) /\ Len(t) = Len(s) + Len(Table[c].fields) =>
                     \A i \in DOMAIN s : i \in DOMAIN t
        BY <3>1, LongerList
      <3>. QED
        BY <3>1, <3>2, <3>3, Zenon
    <2>. SUFFICES ASSUME NEW n \in Nat
                  PROVE  LET u == Upwards(c)[n] IN
                         /\ \A i \in DOMAIN defs[u].fields :
                              i \in DOMAIN defs[c].fields /\ defs[c].fields[i] = defs[u].fields[i]
                         /\ \A i \in DOMAIN defs[u].methods :
                              i \in DOMAIN defs[c].methods /\ defs[c].methods[i].name = defs[u].methods[i].name
      BY DEF SlotsKept
    <2>3. CASE n = 0 /\ Upwards(c)[n] = c
      BY <2>3
    <2>4. CASE \E k \in Nat : n = k + 1 /\ Upwards(c)[n] = Upwards(q)[k]
      <3>1. PICK k \in Nat : Upwards(c)[n] = Upwards(q)[k]
        BY <2>4
      <3>2. PICK u : u = Upwards(c)[n] /\ u = Upwards(q)[k]
        BY <3>1
      <3>. HIDE DEF q
      <3>3. /\ \A i \in DOMAIN defs[u].fields : i \in DOMAIN defs[q].fields /\ defs[q].fields[i] = defs[u].fields[i]
            /\ \A i \in DOMAIN defs[u].methods :
                 i \in DOMAIN defs[q].methods /\ defs[q].methods[i].name = defs[u].methods[i].name
        BY <1>2, <3>2 DEF SlotsKept, q
      <3>. QED
        BY <2>1, <2>2, <3>2, <3>3
    <2>. QED
      BY <1>2, <2>3, <2>4, AboveOrAt
  <1>. QED
    BY <1>1, <1>2

LEMMA NoneMissingStep ==
    ASSUME Built, NEW c \in DOMAIN Table, Straight(c),
           Table[c].parent \in DOMAIN Table => NoneMissing(Table[c].parent)
    PROVE  NoneMissing(c)
  <1>1. \A k \in DOMAIN Table[c].methods : Has(defs[c].methods, Table[c].methods[k].name)
    <2>1. MethodsLaid(c, defs[c].methods, MethodsAbove(c), Table[c].methods, Len(Table[c].methods))
          /\ DOMAIN Table[c].methods = 1..Len(Table[c].methods)
      BY LaidOver, AllLaid, ListLength
    <2>. QED
      BY <2>1 DEF MethodsLaid
  <1>2. CASE Table[c].parent \notin DOMAIN Table
    <2>1. \A n \in Nat : Upwards(c)[n] = c
      BY <1>2, UpwardsRoot
    <2>. QED
      BY <1>1, <2>1 DEF NoneMissing
  <1>3. CASE Table[c].parent \in DOMAIN Table
    <2>. DEFINE q == Table[c].parent
    <2>1. \A i \in DOMAIN defs[q].methods :
            i \in DOMAIN defs[c].methods /\ defs[c].methods[i].name = defs[q].methods[i].name
      BY <1>3, LaidOver DEF MethodsLaid, MethodsAbove
    <2>2. \A name : Has(defs[q].methods, name) => Has(defs[c].methods, name)
      BY <2>1 DEF Has
    <2>. SUFFICES ASSUME NEW n \in Nat
                  PROVE  LET methods == Table[Upwards(c)[n]].methods IN
                         \A k \in DOMAIN methods : Has(defs[c].methods, methods[k].name)
      BY DEF NoneMissing
    <2>3. CASE n = 0 /\ Upwards(c)[n] = c
      BY <1>1, <2>3
    <2>4. CASE \E k \in Nat : n = k + 1 /\ Upwards(c)[n] = Upwards(q)[k]
      <3>1. PICK k \in Nat : Upwards(c)[n] = Upwards(q)[k]
        BY <2>4
      <3>. HIDE DEF q
      <3>. QED
        BY <1>3, <2>2, <3>1 DEF NoneMissing, q
    <2>. QED
      BY <1>3, <2>3, <2>4, AboveOrAt
  <1>. QED
    BY <1>2, <1>3

LEMMA FieldsFromStep ==
    ASSUME Built, NEW c \in DOMAIN Table, Straight(c),
           Table[c].parent \in DOMAIN Table => FieldsFrom(Table[c].parent)
    PROVE  FieldsFrom(c)
  <1>. DEFINE fields == defs[c].fields
              above == FieldsAbove(c)
              own == Table[c].fields
  <1>1. FieldsLaid(fields, above, own, Len(own)) /\ IsList(fields) /\ IsList(above) /\ IsList(own)
    BY LaidOver, AllLaid
  <1>2. Upwards(c)[0] = c /\ 0 \in Nat
    BY UpwardsSteps
  <1>. SUFFICES ASSUME NEW i \in DOMAIN defs[c].fields
                PROVE  \E n \in Nat : Has(Table[Upwards(c)[n]].fields, defs[c].fields[i].name)
    BY DEF FieldsFrom
  <1>3. CASE i \in DOMAIN above
    <2>1. Table[c].parent \in DOMAIN Table
      BY <1>3, EmptyIsList DEF FieldsAbove
    <2>2. PICK q \in DOMAIN Table : q = Table[c].parent
      BY <2>1
    <2>3. above = defs[q].fields
      BY <2>2 DEF FieldsAbove
    <2>4. PICK n \in Nat : Has(Table[Upwards(q)[n]].fields, above[i].name)
      BY <1>3, <2>2, <2>3 DEF FieldsFrom
    <2>5. n + 1 \in Nat /\ Upwards(c)[n + 1] = Upwards(q)[n]
      BY <2>2, UpwardsParent
    <2>6. fields[i] = above[i]
      BY <1>1, <1>3 DEF FieldsLaid
    <2>. QED
      BY <2>4, <2>5, <2>6
  <1>4. CASE i \notin DOMAIN above
    <2>. HIDE DEF fields, above, own
    <2>1. PICK k \in DOMAIN own : i = Len(above) + k
      <3>1. Len(fields) = Len(above) + Len(own) /\ Len(above) \in Nat /\ Len(own) \in Nat
            /\ DOMAIN own = 1..Len(own) /\ DOMAIN above = 1..Len(above) /\ DOMAIN fields = 1..Len(fields)
        BY <1>1, ListLength DEF FieldsLaid
      <3>2. i \in DOMAIN fields
        BY DEF fields
      <3>3. i - Len(above) \in DOMAIN own /\ i = Len(above) + (i - Len(above))
        BY <1>4, <3>1, <3>2
      <3>. QED
        BY <3>3
    <2>2. fields[i].name = own[k].name
      <3>1. DOMAIN own = 1..Len(own)
        BY <1>1, ListLength
      <3>. QED
        BY <1>1, <2>1, <3>1 DEF FieldsLaid
    <2>3. Has(own, fields[i].name)
      BY <2>2 DEF Has
    <2>. QED
      BY <1>2, <2>3 DEF fields, own
  <1>. QED
    BY <1>3, <1>4

LEMMA OwnersNearestStep ==
    ASSUME Built, NEW c \in DOMAIN Table, Straight(c),
           Table[c].parent \in DOMAIN Table => OwnersNearest(Table[c].parent)
    PROVE  OwnersNearest(c)
  <1>. DEFINE own == Table[c].methods
  <1>1. MethodsLaid(c, defs[c].methods, MethodsAbove(c), own, Len(own)) /\ DOMAIN own = 1..Len(own)
    BY LaidOver, AllLaid, ListLength
  <1>2. Upwards(c)[0] = c
    BY UpwardsSteps
  <1>. SUFFICES ASSUME NEW i \in DOMAIN defs[c].methods
                PROVE  \E m \in Nat : OwnedAt(c, defs[c].methods[i], m)
    BY DEF OwnersNearest
  <1>3. PICK e : e = defs[c].methods[i]
    OBVIOUS
  <1>4. EntryLaid(c, e, i, MethodsAbove(c), own, Len(own))
    BY <1>1, <1>3 DEF MethodsLaid
  <1>5. CASE Owns(own, Len(own), e.name)
    <2>1. e.owner = c /\ \E k \in DOMAIN own : own[k].name = e.name /\ own[k].static = e.static
      BY <1>1, <1>4, <1>5 DEF EntryLaid
    <2>2. ASSUME NEW z, z = 0 PROVE OwnedAt(c, e, z)
      <3>1. Upwards(c)[z] = c /\ \A l \in Nat : ~(l < z)
        BY <1>2, <2>2
      <3>. QED
        BY <2>1, <3>1 DEF OwnedAt
    <2>. QED
      BY <1>3, <2>2
  <1>6. CASE ~Owns(own, Len(own), e.name)
    <2>1. i \in DOMAIN MethodsAbove(c) /\ e.owner = MethodsAbove(c)[i].owner
          /\ e.static = MethodsAbove(c)[i].static
      BY <1>4, <1>6 DEF EntryLaid
    <2>2. MethodsAbove(c)[i].name = e.name
      BY <1>1, <1>3, <2>1 DEF MethodsLaid
    <2>3. Table[c].parent \in DOMAIN Table
      BY <2>1, EmptyIsList DEF MethodsAbove
    <2>4. PICK q \in DOMAIN Table : q = Table[c].parent
      BY <2>3
    <2>5. PICK d : d = defs[q].methods[i] /\ i \in DOMAIN defs[q].methods /\ d.owner = e.owner
                   /\ d.static = e.static /\ d.name = e.name
      BY <2>1, <2>2, <2>4 DEF MethodsAbove
    <2>6. PICK m \in Nat : OwnedAt(q, d, m)
      BY <2>4, <2>5 DEF OwnersNearest
    <2>7. ~Has(own, e.name)
      BY <1>1, <1>6 DEF Has, Owns
    <2>8. \A n \in Nat : Upwards(c)[n + 1] = Upwards(q)[n]
      BY <2>4, UpwardsParent
    <2>9. ASSUME NEW l \in Nat, l < m + 1 PROVE ~Has(Table[Upwards(c)[l]].methods, e.name)
      <3>1. CASE l = 0
        BY <1>2, <2>7, <3>1
      <3>2. CASE l # 0
        <4>1. l - 1 \in Nat /\ l - 1 < m /\ (l - 1) + 1 = l
          BY <2>9, <3>2
        <4>2. Upwards(c)[l] = Upwards(q)[l - 1]
          BY <2>8, <4>1
        <4>. QED
          BY <2>5, <2>6, <4>1, <4>2 DEF OwnedAt
      <3>. QED
        BY <3>1, <3>2
    <2>10. m + 1 \in Nat /\ Upwards(c)[m + 1] = Upwards(q)[m]
      BY <2>8
    <2>11. OwnedAt(c, e, m + 1)
      BY <2>5, <2>6, <2>9, <2>10 DEF OwnedAt
    <2>. QED
      BY <1>3, <2>10, <2>11
  <1>. QED
    BY <1>5, <1>6

\* A class all of whose ancestors are declared before those that extend them keeps what
\* they have.
LEMMA AllMeant == ASSUME Built, NEW c \in DOMAIN Table, Straight(c) PROVE Meant(c)
  <1>. DEFINE Bad == {x \in DOMAIN Table : Straight(x) /\ ~Meant(x)}
              Places == {At(x) : x \in Bad}
  <1>1. ASSUME Bad # {} PROVE FALSE
    <2>1. Places \subseteq Nat /\ Places # {}
      <3>1. Len(Decls) \in Nat /\ \A x \in DOMAIN Table : At(x) \in 1..Len(Decls)
        BY AllLaid, DeclNumbers DEF Built
      <3>. QED
        BY <1>1, <3>1
    <2>2. PICK l \in Places : \A k \in Places : l <= k
      <3>. HIDE DEF Places
      <3>. QED
        BY <2>1, Least
    <2>3. PICK x \in Bad : l = At(x)
      OBVIOUS
    <2>4. Table[x].parent \in DOMAIN Table => Meant(Table[x].parent)
      <3>. SUFFICES ASSUME Table[x].parent \in DOMAIN Table PROVE Meant(Table[x].parent)
        OBVIOUS
      <3>1. PICK q \in DOMAIN Table : q = Table[x].parent
        OBVIOUS
      <3>2. Straight(q) /\ At(q) < At(x)
        BY <3>1, StraightParent
      <3>3. q \notin Bad
        <4>1. ASSUME q \in Bad PROVE FALSE
          <5>1. At(q) \in Nat /\ At(x) \in Nat /\ At(x) <= At(q)
            BY <2>1, <2>2, <2>3, <4>1
          <5>. QED
            BY <3>2, <5>1
        <4>. QED
          BY <4>1
      <3>. QED
        BY <3>1, <3>2, <3>3
    <2>5. Meant(x)
      BY <2>4, SlotsKeptStep, NoneMissingStep, FieldsFromStep, OwnersNearestStep DEF Meant
    <2>. QED
      BY <2>5
  <1>. QED
    BY <1>1

(***************************************************************************)
(* What the checker finds                                                  *)
(***************************************************************************)
LEMMA ClassesFinite == ASSUME Sound_ PROVE Cardinality(DOMAIN Table) \in Nat
  <1>. DEFINE place == [c \in DOMAIN Table |-> At(c)]
  <1>1. Len(Decls) \in Nat /\ DOMAIN Decls = 1..Len(Decls)
    BY DeclNumbers
  <1>2. \A c \in DOMAIN Table : At(c) \in DOMAIN Decls /\ Decls[At(c)].name = c
    BY Declaration
  <1>3. PICK N \in Nat : DOMAIN Decls = 1..N
    BY <1>1
  <1>4. place \in Injection(DOMAIN Table, 1..N)
    BY <1>2, <1>3 DEF Injection, IsInjective
  <1>5. IsFiniteSet(1..N)
    BY FS_Interval
  <1>6. IsFiniteSet(DOMAIN Table)
    BY <1>4, <1>5, FS_Injection
  <1>. QED
    BY <1>6, FS_CardinalityType

LEMMA WalkedUp ==
    ASSUME Sound_, NEW list, NEW name, NEW c \in DOMAIN Table
    PROVE  \A n \in Nat : \E m \in Nat : M!Walked(list, name, c)[n] = Upwards(c)[m]
  <1>. DEFINE next == [x \in DOMAIN Table |->
                        IF M!Has(Table[x][list], name) \/ M!Highest(x) THEN x ELSE Table[x].parent]
              w == M!Walked(list, name, c)
              u == Upwards(c)
  <1>1. w = Iterate(next, c)
    BY DEF M!Walked, M!Iterate, Iterate
  <1>2. \A x \in DOMAIN Table : next[x] = x \/ (next[x] = Table[x].parent /\ Table[x].parent \in DOMAIN Table)
    <2>1. \A x \in DOMAIN Table : ~M!Highest(x) => Table[x].parent \in DOMAIN Table
      BY DEF M!Highest
    <2>. QED
      BY <2>1
  <1>3. /\ u[0] = c /\ \A n \in Nat : u[n] \in DOMAIN Table
        /\ \A n \in Nat : Table[u[n]].parent \in DOMAIN Table => u[n + 1] = Table[u[n]].parent
    BY UpwardsSteps
  <1>. HIDE DEF next, u
  <1>4. w[0] = c /\ \A n \in Nat : w[n + 1] = next[w[n]]
    <2>1. Iterate(next, c)[0] = c /\ \A n \in Nat : Iterate(next, c)[n + 1] = next[Iterate(next, c)[n]]
      BY Iterated
    <2>. QED
      BY <1>1, <2>1
  <1>. HIDE DEF w
  <1>. DEFINE Bad == {n \in Nat : ~\E m \in Nat : w[n] = u[m]}
  <1>5. ASSUME Bad # {} PROVE FALSE
    <2>. DEFINE l == Min(Bad)
    <2>1. l \in Bad /\ \A k \in Bad : l <= k
      <3>1. Bad \subseteq Nat
        OBVIOUS
      <3>. HIDE DEF Bad
      <3>. QED
        BY <1>5, <3>1, Least
    <2>. HIDE DEF l
    <2>2. l # 0
      BY <1>3, <1>4, <2>1
    <2>3. l - 1 \in Nat /\ ~(l <= l - 1) /\ (l - 1) + 1 = l
      BY <2>1, <2>2
    <2>4. PICK m \in Nat : w[l - 1] = u[m]
      BY <2>1, <2>3
    <2>5. w[l] = next[u[m]]
      BY <1>4, <2>3, <2>4
    <2>6. w[l] = u[m] \/ w[l] = u[m + 1]
      BY <1>2, <1>3, <2>5
    <2>7. m + 1 \in Nat
      OBVIOUS
    <2>. QED
      BY <2>1, <2>4, <2>6, <2>7
  <1>. QED
    BY <1>5 DEF w, u

\* What a walk ends at is above the class it starts from, and what it finds there the
\* first of that name.
LEMMA WalkFinds ==
    ASSUME Sound_, NEW list, NEW name, NEW c \in DOMAIN Table, NEW binding,
           M!Walk(list, c, name, binding).how = "here"
    PROVE  LET found == M!Walk(list, c, name, binding) IN
           /\ \E m \in Nat : found.owner = Upwards(c)[m]
           /\ Has(Table[found.owner][list], name)
           /\ found.member = Get(Table[found.owner][list], name)
  <1>. DEFINE found == M!Walk(list, c, name, binding)
              walked == M!Walked(list, name, c)
              steps == M!Cardinality(DOMAIN Table)
              o == walked[steps]
              parent == Table[o].parent
              given == {n \in 0..(steps - 1) : walked[n] # o /\ Table[walked[n]].pargs # <<>>}
              entered == IF given = {} THEN binding ELSE M!ParentBinding(walked[M!Max(given)])
  <1>1. found = IF M!Has(Table[o][list], name) THEN M!Found("here", o, Table[o][list], name, entered)
                ELSE IF Table[o].lib \/ parent \notin DOMAIN Table
                     THEN M!Found("none", NoName, <<>>, name, M!NoBinding)
                ELSE M!Found("library", parent, Table[parent][list], name, M!NoBinding)
    BY Zenon DEF M!Walk, NoName
  <1>2. \E m \in Nat : o = Upwards(c)[m]
    <2>1. steps = Cardinality(DOMAIN Table)
      BY DEF M!Cardinality, Cardinality
    <2>. QED
      BY <2>1, ClassesFinite, WalkedUp
  <1>3. found.how = "here"
    OBVIOUS
  <1>. HIDE DEF found, o, parent, entered
  <1>4. \A how, owner, ms, b : /\ M!Found(how, owner, ms, name, b).how = how
                              /\ M!Found(how, owner, ms, name, b).owner = owner
    BY Zenon DEF M!Found
  <1>5. \A how, owner, ms, b : M!Has(ms, name) => M!Found(how, owner, ms, name, b).member = M!Get(ms, name)
    BY Zenon DEF M!Found
  <1>6. M!Has(Table[o][list], name)
    <2>1. ASSUME ~M!Has(Table[o][list], name) PROVE FALSE
      <3>1. found.how \in {"none", "library"}
        BY <1>1, <1>4, <2>1
      <3>. QED
        BY <1>3, <3>1
    <2>. QED
      BY <2>1
  <1>7. found.owner = o /\ found.member = M!Get(Table[o][list], name)
    BY <1>1, <1>4, <1>5, <1>6
  <1>8. Has(Table[o][list], name) /\ found.member = Get(Table[o][list], name)
    BY <1>6, <1>7 DEF M!Has, Has, M!Get, Get, M!FirstAt, FirstAt, M!Min, Min
  <1>. QED
    BY <1>2, <1>7, <1>8 DEF found

LEMMA FieldFinds ==
    ASSUME Sound_, NEW name, NEW c \in DOMAIN Table, M!FieldOf(OfClass(c), name).how = "here"
    PROVE  LET found == M!FieldOf(OfClass(c), name) IN
           /\ \E m \in Nat : found.owner = Upwards(c)[m]
           /\ Has(Table[found.owner].fields, name) /\ found.member = Get(Table[found.owner].fields, name)
  <1>. DEFINE walk == M!Walk("fields", c, name, M!Binding(OfClass(c)))
  <1>1. OfClass(c).n = c
    BY DEF OfClass
  <1>2. M!FieldOf(OfClass(c), name) = IF walk.how = "library" /\ walk.member.name = NoName
                                      THEN [walk EXCEPT !.how = "none"] ELSE walk
    BY <1>1, Zenon DEF M!FieldOf, NoName
  <1>. HIDE DEF walk
  <1>3. DOMAIN walk # {} /\ "how" \in DOMAIN walk
    <2>1. \A how, owner, ms, b : "how" \in DOMAIN M!Found(how, owner, ms, name, b)
      BY Zenon DEF M!Found
    <2>2. \E how, owner, ms, b : walk = M!Found(how, owner, ms, name, b)
      BY Zenon DEF walk, M!Walk
    <2>. QED
      BY <2>1, <2>2
  <1>4. [walk EXCEPT !.how = "none"].how = "none"
    BY <1>3
  <1>5. M!FieldOf(OfClass(c), name) = walk
    <2>1. M!FieldOf(OfClass(c), name) # [walk EXCEPT !.how = "none"]
      <3>1. "none" # "here"
        OBVIOUS
      <3>. QED
        BY <1>4, <3>1
    <2>. QED
      BY <1>2, <2>1
  <1>6. walk.how = "here"
    BY <1>5
  <1>7. /\ \E m \in Nat : walk.owner = Upwards(c)[m]
        /\ Has(Table[walk.owner]["fields"], name) /\ walk.member = Get(Table[walk.owner]["fields"], name)
    BY <1>6, WalkFinds DEF walk
  <1>. QED
    BY <1>5, <1>7

LEMMA MethodFinds ==
    ASSUME Sound_, NEW name, NEW c \in DOMAIN Table, M!MethodOf(OfClass(c), name).how = "here"
    PROVE  \E m \in Nat : Has(Table[Upwards(c)[m]].methods, name)
  <1>. DEFINE walk == M!Walk("methods", c, name, M!Binding(OfClass(c)))
  <1>1. OfClass(c).n = c
    BY DEF OfClass
  <1>2. M!MethodOf(OfClass(c), name) = walk
    BY <1>1, Zenon DEF M!MethodOf
  <1>3. walk.how = "here"
    BY <1>2
  <1>4. (\E m \in Nat : walk.owner = Upwards(c)[m]) /\ Has(Table[walk.owner]["methods"], name)
    BY <1>3, WalkFinds
  <1>. QED
    BY <1>4

(***************************************************************************)
(* Names mean at run time what the checker takes them for                  *)
(***************************************************************************)
\* A class above a straight one is straight, and comes no later.
LEMMA StraightAbove ==
    ASSUME Built, NEW c \in DOMAIN Table, Straight(c), NEW n \in Nat
    PROVE  Upwards(c)[n] \in DOMAIN Table /\ Straight(Upwards(c)[n]) /\ At(Upwards(c)[n]) <= At(c)
  <1>. DEFINE u == Upwards(c)
  <1>1. u[0] = c /\ \A k \in Nat : u[k] \in DOMAIN Table
    BY UpwardsSteps
  <1>2. \A k \in Nat : u[k + 1] = IF Table[u[k]].parent \in DOMAIN Table THEN Table[u[k]].parent ELSE u[k]
    BY UpwardsSteps
  <1>3. \A k \in Nat : Table[u[k]].parent \in DOMAIN Table => At(Table[u[k]].parent) < At(u[k])
    BY DEF Straight
  <1>4. \A x \in DOMAIN Table : At(x) \in Nat
    BY KeptFacts DEF Built
  <1>5. Straight(u[n])
    <2>1. ASSUME NEW k \in Nat PROVE n + k \in Nat /\ Upwards(Upwards(c)[n])[k] = Upwards(c)[n + k]
      BY UpwardsFrom
    <2>. QED
      BY <1>3, <2>1 DEF Straight
  <1>. HIDE DEF u
  <1>. DEFINE Bad == {k \in Nat : ~(At(u[k]) <= At(c))}
  <1>6. ASSUME Bad # {} PROVE FALSE
    <2>. DEFINE l == Min(Bad)
    <2>1. l \in Bad /\ \A k \in Bad : l <= k
      <3>1. Bad \subseteq Nat
        OBVIOUS
      <3>. HIDE DEF Bad
      <3>. QED
        BY <1>6, <3>1, Least
    <2>. HIDE DEF l
    <2>2. l # 0
      BY <1>1, <1>4, <2>1
    <2>3. l - 1 \in Nat /\ ~(l <= l - 1) /\ (l - 1) + 1 = l
      BY <2>1, <2>2
    <2>4. At(u[l - 1]) <= At(c)
      BY <2>1, <2>3
    <2>5. u[l] = u[l - 1] \/ At(u[l]) < At(u[l - 1])
      BY <1>2, <1>3, <2>3
    <2>6. At(u[l]) \in Nat /\ At(u[l - 1]) \in Nat /\ At(c) \in Nat
      BY <1>1, <1>4, <2>1, <2>3
    <2>7. At(u[l]) <= At(c)
      BY <2>4, <2>5, <2>6
    <2>. QED
      BY <2>1, <2>7
  <1>. QED
    BY <1>1, <1>5, <1>6 DEF u

LEMMA LineageUp ==
    ASSUME Built, NEW obj \in DOMAIN Table, ~Orphaned(obj)
    PROVE  /\ Straight(obj)
           /\ \A c \in Lineage(obj) : c \in DOMAIN Table /\ Straight(c) /\ \E n \in Nat : c = Upwards(obj)[n]
           /\ \A c \in Lineage(obj) : \A n \in Nat : Upwards(c)[n] \in Lineage(obj)
  <1>1. Straight(obj) /\ \A n \in Nat : \E m \in 0..Len(Decls) : m <= n /\ Upwards(obj)[n] = Upwards(obj)[m]
    BY StraightUp DEF Built
  <1>2. Len(Decls) \in Nat
    BY DeclNumbers DEF Built
  <1>3. \A n \in Nat : Upwards(obj)[n] \in DOMAIN Table /\ Straight(Upwards(obj)[n])
    BY <1>1, StraightAbove
  <1>4. \A c \in Lineage(obj) : \E n \in Nat : c = Upwards(obj)[n]
    BY <1>2 DEF Lineage
  <1>5. \A n \in Nat : Upwards(obj)[n] \in Lineage(obj)
    BY <1>1 DEF Lineage
  <1>6. ASSUME NEW c \in Lineage(obj), NEW n \in Nat PROVE Upwards(c)[n] \in Lineage(obj)
    <2>1. PICK k \in Nat : c = Upwards(obj)[k]
      BY <1>4
    <2>2. k + n \in Nat /\ Upwards(c)[n] = Upwards(obj)[k + n]
      BY <2>1, UpwardsFrom
    <2>. QED
      BY <1>5, <2>2
  <1>. QED
    BY <1>1, <1>3, <1>4, <1>6

\* Where a class that no class above declares a field of its name again has it: after
\* those above, as it was declared.
LEMMA FieldAt ==
    ASSUME Built, NEW o \in DOMAIN Table, Straight(o), NEW name, Has(Table[o].fields, name),
           \A n \in Nat : Has(Table[Upwards(o)[n]].fields, name) => Upwards(o)[n] = o
    PROVE  \E j \in DOMAIN defs[o].fields :
             LET field == defs[o].fields[j]  f == Get(Table[o].fields, name) IN
             /\ field.name = name /\ field.type = f.type /\ field.static = f.static /\ IsField(field)
             /\ \A i \in DOMAIN defs[o].fields : defs[o].fields[i].name = name => j <= i
  <1>. DEFINE fields == defs[o].fields
              above == FieldsAbove(o)
              own == Table[o].fields
              k == FirstAt(own, name)
              j == Len(above) + k
  <1>1. FieldsLaid(fields, above, own, Len(own)) /\ IsList(fields) /\ IsList(above) /\ IsList(own)
    BY LaidOver, AllLaid
  <1>2. /\ Len(fields) = Len(above) + Len(own) /\ Len(above) \in Nat /\ Len(own) \in Nat
        /\ DOMAIN own = 1..Len(own) /\ DOMAIN above = 1..Len(above) /\ DOMAIN fields = 1..Len(fields)
    BY <1>1, ListLength DEF FieldsLaid
  <1>3. k \in DOMAIN own /\ own[k] = Get(own, name) /\ \A i \in DOMAIN own : own[i].name = name => k <= i
    BY <1>1, FirstOf DEF Get
  <1>4. own[k].name = name
    BY <1>1, FirstOf
  <1>5. ASSUME NEW i \in DOMAIN above, above[i].name = name PROVE FALSE
    <2>1. Table[o].parent \in DOMAIN Table
      BY <1>5, EmptyIsList DEF FieldsAbove
    <2>2. PICK q \in DOMAIN Table : q = Table[o].parent
      BY <2>1
    <2>3. above = defs[q].fields
      BY <2>2 DEF FieldsAbove
    <2>4. Straight(q) /\ At(q) < At(o)
      BY <2>2, StraightParent
    <2>5. FieldsFrom(q)
      BY <2>4, AllMeant DEF Meant
    <2>6. PICK n \in Nat : Has(Table[Upwards(q)[n]].fields, name)
      BY <1>5, <2>3, <2>5 DEF FieldsFrom
    <2>7. n + 1 \in Nat /\ Upwards(o)[n + 1] = Upwards(q)[n]
      BY <2>2, UpwardsParent
    <2>8. Upwards(q)[n] = o
      BY <2>6, <2>7
    <2>9. At(o) <= At(q)
      BY <2>4, <2>8, StraightAbove
    <2>10. At(o) \in Nat /\ At(q) \in Nat
      BY KeptFacts DEF Built
    <2>. QED
      BY <2>4, <2>9, <2>10
  <1>. HIDE DEF fields, above, own, k
  <1>6. j \in DOMAIN fields
    BY <1>2, <1>3
  <1>7. fields[j].name = name /\ fields[j].type = own[k].type /\ fields[j].static = own[k].static
    BY <1>1, <1>2, <1>3, <1>4 DEF FieldsLaid
  <1>8. IsField(fields[j])
    BY <1>1, <1>6 DEF FieldsLaid, SlotsGrow
  <1>9. ASSUME NEW i \in DOMAIN fields, fields[i].name = name PROVE j <= i
    <2>1. CASE i \in DOMAIN above
      <3>1. fields[i] = above[i]
        BY <1>1, <2>1 DEF FieldsLaid
      <3>. QED
        BY <1>5, <1>9, <2>1, <3>1
    <2>2. CASE i \notin DOMAIN above
      <3>. DEFINE l == i - Len(above)
      <3>1. l \in 1..Len(own) /\ i = Len(above) + l
        BY <1>2, <2>2
      <3>. HIDE DEF l
      <3>2. own[l].name = name
        BY <1>1, <1>9, <3>1 DEF FieldsLaid
      <3>3. k <= l
        BY <1>2, <1>3, <3>1, <3>2
      <3>. QED
        BY <1>2, <1>3, <3>1, <3>3
    <2>. QED
      BY <2>1, <2>2
  <1>10. own[k] = Get(own, name)
    BY <1>3
  <1>. QED
    BY <1>6, <1>7, <1>8, <1>9, <1>10 DEF fields, own

\* A field is where the class that declares it has it, in every class below.
LEMMA FieldKept ==
    ASSUME Built, NEW obj \in DOMAIN Table, ~Orphaned(obj), NEW static \in Lineage(obj), NEW name,
           NEW o, \E m \in Nat : o = Upwards(static)[m], Has(Table[o].fields, name),
           {c \in Lineage(obj) : Has(Table[c].fields, name)} = {o},
           ~Get(Table[o].fields, name).static
    PROVE  \E i \in InstanceFields(obj) :
             LET field == defs[obj].fields[i] IN
             /\ field.slot = L!InstanceSlot(static, name) /\ field.name = name
             /\ field.type = Get(Table[o].fields, name).type
  <1>1. /\ Straight(obj) /\ static \in DOMAIN Table /\ Straight(static)
        /\ \E n \in Nat : static = Upwards(obj)[n]
        /\ \A n \in Nat : Upwards(static)[n] \in Lineage(obj)
    BY LineageUp
  <1>2. PICK m \in Nat : o = Upwards(static)[m]
    OBVIOUS
  <1>3. o \in Lineage(obj) /\ o \in DOMAIN Table /\ Straight(o) /\ \A n \in Nat : Upwards(o)[n] \in Lineage(obj)
    <2>1. o \in Lineage(obj)
      BY <1>1, <1>2
    <2>. QED
      BY <2>1, LineageUp
  <1>4. \A n \in Nat : Has(Table[Upwards(o)[n]].fields, name) => Upwards(o)[n] = o
    BY <1>3
  <1>5. PICK f : f = Get(Table[o].fields, name)
    OBVIOUS
  <1>6. PICK j \in DOMAIN defs[o].fields :
          /\ defs[o].fields[j].name = name /\ defs[o].fields[j].type = f.type
          /\ defs[o].fields[j].static = f.static
          /\ \A i \in DOMAIN defs[o].fields : defs[o].fields[i].name = name => j <= i
    BY <1>3, <1>4, <1>5, FieldAt
  <1>7. j \in DOMAIN defs[static].fields /\ defs[static].fields[j] = defs[o].fields[j]
        /\ \A i \in DOMAIN defs[o].fields : defs[static].fields[i] = defs[o].fields[i]
    <2>1. SlotsKept(static)
      BY <1>1, AllMeant DEF Meant
    <2>. QED
      BY <1>2, <2>1 DEF SlotsKept
  <1>8. j \in DOMAIN defs[obj].fields /\ defs[obj].fields[j] = defs[static].fields[j]
    <2>1. SlotsKept(obj)
      BY <1>1, AllMeant DEF Meant
    <2>2. PICK n \in Nat : static = Upwards(obj)[n]
      BY <1>1
    <2>. QED
      BY <1>7, <2>1, <2>2 DEF SlotsKept
  <1>9. FirstAt(defs[static].fields, name) = j /\ Has(defs[static].fields, name)
    <2>1. Has(defs[static].fields, name)
      BY <1>6, <1>7 DEF Has
    <2>. DEFINE k == FirstAt(defs[static].fields, name)
    <2>2. IsList(defs[static].fields) /\ IsList(defs[o].fields)
      BY <1>1, <1>3, AllLaid
    <2>3. k \in DOMAIN defs[static].fields /\ defs[static].fields[k].name = name
          /\ \A i \in DOMAIN defs[static].fields : defs[static].fields[i].name = name => k <= i
      BY <2>1, <2>2, FirstOf
    <2>. HIDE DEF k
    <2>4. k <= j
      BY <1>6, <1>7, <2>3
    <2>5. DOMAIN defs[o].fields = 1..Len(defs[o].fields) /\ Len(defs[o].fields) \in Nat
          /\ DOMAIN defs[static].fields = 1..Len(defs[static].fields) /\ Len(defs[static].fields) \in Nat
      BY <2>2, ListLength
    <2>6. k \in DOMAIN defs[o].fields
      BY <1>6, <2>3, <2>4, <2>5
    <2>7. j <= k
      BY <1>6, <1>7, <2>3, <2>6
    <2>8. k = j
      BY <1>6, <2>3, <2>4, <2>5, <2>7
    <2>. QED
      BY <2>1, <2>8 DEF k
  <1>10. L!InstanceSlot(static, name) = defs[static].fields[j].slot
    <2>1. static \in DOMAIN defs
      BY <1>1, AllLaid
    <2>2. L!FieldIndex(static, name) = j - 1
      BY <1>9, <2>1 DEF L!FieldIndex, L!Has, Has, L!FirstAt, FirstAt, L!Min, Min
    <2>3. ~(j - 1 < 0)
      <3>1. IsList(defs[o].fields)
        BY <1>3, AllLaid
      <3>. QED
        BY <1>6, <3>1, ListLength
    <2>4. L!InstanceSlot(static, name) = L!Get(defs[static].fields, name).slot
      BY <2>2, <2>3 DEF L!InstanceSlot
    <2>5. L!Get(defs[static].fields, name) = defs[static].fields[j]
      BY <1>9 DEF L!Get, L!FirstAt, FirstAt, L!Min, Min
    <2>. QED
      BY <2>4, <2>5
  <1>11. j \in InstanceFields(obj)
    BY <1>5, <1>6, <1>7, <1>8 DEF InstanceFields
  <1>. QED
    BY <1>5, <1>6, <1>7, <1>8, <1>10, <1>11

\* The slots of a class's fields differ.
LEMMA SlotsDiffer ==
    ASSUME Built, NEW obj \in DOMAIN Table, Straight(obj),
           NEW i \in InstanceFields(obj), NEW j \in InstanceFields(obj), i # j
    PROVE  defs[obj].fields[i].slot # defs[obj].fields[j].slot
  <1>. DEFINE fields == defs[obj].fields
  <1>1. SlotsGrow(fields) /\ IsList(fields)
    BY LaidOver, AllLaid DEF FieldsLaid
  <1>2. i \in DOMAIN fields /\ j \in DOMAIN fields /\ ~fields[i].static /\ ~fields[j].static
    BY DEF InstanceFields
  <1>. HIDE DEF fields
  <1>3. fields[i].slot \in Int /\ fields[j].slot \in Int
    BY <1>1, <1>2 DEF SlotsGrow, IsField
  <1>4. i \in Nat /\ j \in Nat
    BY <1>1, <1>2, ListLength
  <1>5. CASE i < j
    <2>1. fields[i].slot < fields[j].slot
      BY <1>1, <1>2, <1>5, Zenon DEF SlotsGrow
    <2>. QED
      BY <1>3, <2>1 DEF fields
  <1>6. CASE j < i
    <2>1. fields[j].slot < fields[i].slot
      BY <1>1, <1>2, <1>6, Zenon DEF SlotsGrow
    <2>. QED
      BY <1>3, <2>1 DEF fields
  <1>. QED
    BY <1>4, <1>5, <1>6 DEF fields

\* FieldsMeanTheField: the slot of a field is one of its own in every class below the one
\* that declares it, of the type that the checker found (pass 1 of compile_staged).
THEOREM FieldsKeepTheirSlots == Spec => []FieldsMeanTheField
  <1>1. ASSUME Typed, Named, Settled, Laid PROVE FieldsMeanTheField
    <2>. SUFFICES ASSUME Compiled, NEW obj \in DOMAIN Table, ~Orphaned(obj)
                  PROVE  /\ \A i, j \in InstanceFields(obj) : i # j => defs[obj].fields[i].slot # defs[obj].fields[j].slot
                         /\ \A static \in Lineage(obj) : \A name \in NamesAbove("fields", static) :
                              LET found == M!FieldOf(OfClass(static), name)
                                  again == {c \in Lineage(obj) : Has(Table[c].fields, name)}
                              IN found.how = "here" /\ ~found.member.static /\ again = {found.owner} =>
                                   \E i \in InstanceFields(obj) :
                                     LET field == defs[obj].fields[i] IN
                                     /\ field.slot = L!InstanceSlot(static, name) /\ field.name = name
                                     /\ field.type = found.member.type
      BY Zenon DEF FieldsMeanTheField
    <2>1. Built
      BY <1>1 DEF Built, Sound_, Compiled
    <2>2. Straight(obj)
      BY <2>1, LineageUp
    <2>3. ASSUME NEW static \in Lineage(obj), NEW name, NEW found, found = M!FieldOf(OfClass(static), name),
                 found.how = "here", ~found.member.static,
                 {c \in Lineage(obj) : Has(Table[c].fields, name)} = {found.owner}
          PROVE  \E i \in InstanceFields(obj) :
                   LET field == defs[obj].fields[i] IN
                   /\ field.slot = L!InstanceSlot(static, name) /\ field.name = name
                   /\ field.type = found.member.type
      <3>1. static \in DOMAIN Table
        BY <2>1, LineageUp
      <3>2. /\ \E m \in Nat : found.owner = Upwards(static)[m]
            /\ Has(Table[found.owner].fields, name) /\ found.member = Get(Table[found.owner].fields, name)
        BY <2>1, <2>3, <3>1, FieldFinds DEF Built
      <3>3. PICK o : o = found.owner
        OBVIOUS
      <3>4. ~Get(Table[o].fields, name).static
        BY <2>3, <3>2, <3>3
      <3>5. \E i \in InstanceFields(obj) :
              LET field == defs[obj].fields[i] IN
              /\ field.slot = L!InstanceSlot(static, name) /\ field.name = name
              /\ field.type = Get(Table[o].fields, name).type
        BY <2>1, <2>3, <3>2, <3>3, <3>4, FieldKept
      <3>. QED
        BY <3>2, <3>3, <3>5
    <2>4. \A i, j \in InstanceFields(obj) : i # j => defs[obj].fields[i].slot # defs[obj].fields[j].slot
      BY <2>1, <2>2, SlotsDiffer
    <2>5. ASSUME NEW static \in Lineage(obj), NEW name,
                 M!FieldOf(OfClass(static), name).how = "here",
                 ~M!FieldOf(OfClass(static), name).member.static,
                 {c \in Lineage(obj) : Has(Table[c].fields, name)} = {M!FieldOf(OfClass(static), name).owner}
          PROVE  \E i \in InstanceFields(obj) :
                   LET field == defs[obj].fields[i] IN
                   /\ field.slot = L!InstanceSlot(static, name) /\ field.name = name
                   /\ field.type = M!FieldOf(OfClass(static), name).member.type
      <3>. DEFINE found == M!FieldOf(OfClass(static), name)
      <3>1. /\ found.how = "here" /\ ~found.member.static
            /\ {c \in Lineage(obj) : Has(Table[c].fields, name)} = {found.owner}
        BY <2>5
      <3>2. found = M!FieldOf(OfClass(static), name)
        OBVIOUS
      <3>. HIDE DEF found
      <3>3. \E i \in InstanceFields(obj) :
              LET field == defs[obj].fields[i] IN
              /\ field.slot = L!InstanceSlot(static, name) /\ field.name = name
              /\ field.type = found.member.type
        BY <2>3, <3>1, <3>2
      <3>. QED
        BY <3>3 DEF found
    <2>6. ASSUME NEW static \in Lineage(obj), NEW name \in NamesAbove("fields", static)
          PROVE  LET found == M!FieldOf(OfClass(static), name)
                     again == {c \in Lineage(obj) : Has(Table[c].fields, name)}
                 IN found.how = "here" /\ ~found.member.static /\ again = {found.owner} =>
                      \E i \in InstanceFields(obj) :
                        LET field == defs[obj].fields[i] IN
                        /\ field.slot = L!InstanceSlot(static, name) /\ field.name = name
                        /\ field.type = found.member.type
      BY <2>5
    <2>. QED
      BY <2>4, <2>6, Zenon
  <1>. QED
    BY <1>1, AlwaysTyped, AlwaysNamed, AlwaysSettled, AlwaysLaid, PTL

\* The method a class has in a slot is that of the nearest class that declares one.
LEMMA MethodKept ==
    ASSUME Built, NEW obj \in DOMAIN Table, ~Orphaned(obj), NEW static \in Lineage(obj), NEW name,
           \E m \in Nat : Has(Table[Upwards(static)[m]].methods, name)
    PROVE  LET slot == L!MethodSlot(static, name) + 1
               entry == defs[obj].methods[slot]
           IN slot \in DOMAIN defs[obj].methods /\ entry.name = name /\ entry.owner = Nearest("methods", obj, name)
  <1>. DEFINE u == Upwards(obj)
              N == Len(Decls)
  <1>1. /\ Straight(obj) /\ static \in DOMAIN Table /\ Straight(static) /\ \E n \in Nat : static = u[n]
    BY LineageUp
  <1>2. N \in Nat /\ \A n \in Nat : \E m \in 0..N : m <= n /\ u[n] = u[m]
    BY StraightUp, DeclNumbers DEF Built
  <1>3. Has(defs[static].methods, name)
    <2>1. NoneMissing(static)
      BY <1>1, AllMeant DEF Meant
    <2>2. PICK m \in Nat : Has(Table[Upwards(static)[m]].methods, name)
      OBVIOUS
    <2>3. PICK k \in DOMAIN Table[Upwards(static)[m]].methods : Table[Upwards(static)[m]].methods[k].name = name
      BY <2>2 DEF Has
    <2>. QED
      BY <2>1, <2>3 DEF NoneMissing
  <1>4. PICK k : /\ k = FirstAt(defs[static].methods, name)
                 /\ k \in DOMAIN defs[static].methods /\ defs[static].methods[k].name = name /\ k \in Nat
    <2>1. IsList(defs[static].methods)
      BY <1>1, AllLaid
    <2>. QED
      BY <1>3, <2>1, FirstOf, ListLength
  <1>5. L!MethodSlot(static, name) = k - 1
    <2>1. static \in DOMAIN defs
      BY <1>1, AllLaid
    <2>. QED
      BY <1>3, <1>4, <2>1 DEF L!MethodSlot, L!Has, Has, L!FirstAt, FirstAt, L!Min, Min
  <1>6. L!MethodSlot(static, name) + 1 = k
    BY <1>4, <1>5
  <1>7. PICK e : e = defs[obj].methods[k] /\ k \in DOMAIN defs[obj].methods /\ e.name = name
    <2>1. SlotsKept(obj)
      BY <1>1, AllMeant DEF Meant
    <2>2. PICK n \in Nat : static = Upwards(obj)[n]
      BY <1>1
    <2>. QED
      BY <1>4, <2>1, <2>2 DEF SlotsKept
  <1>8. PICK m \in Nat : OwnedAt(obj, e, m)
    <2>1. OwnersNearest(obj)
      BY <1>1, AllMeant DEF Meant
    <2>. QED
      BY <1>7, <2>1 DEF OwnersNearest
  <1>9. e.owner = u[m] /\ Has(Table[u[m]].methods, name) /\ \A l \in Nat : l < m => ~Has(Table[u[l]].methods, name)
    BY <1>7, <1>8 DEF OwnedAt, Has
  <1>. DEFINE S == {n \in 0..N : Has(Table[u[n]].methods, name)}
  <1>. HIDE DEF u, N
  <1>10. m \in S
    <2>1. PICK l \in 0..N : l <= m /\ u[m] = u[l]
      BY <1>2
    <2>2. ~(l < m)
      BY <1>2, <1>9, <2>1
    <2>3. l = m
      BY <1>2, <2>1, <2>2
    <2>. QED
      BY <1>9, <2>1, <2>3
  <1>11. Min(S) = m
    <2>1. S \subseteq Nat /\ S # {}
      BY <1>2, <1>10
    <2>2. Min(S) \in S /\ Min(S) <= m
      <3>. HIDE DEF S
      <3>. QED
        BY <1>10, <2>1, Least
    <2>. DEFINE l == Min(S)
    <2>3. l \in Nat /\ Has(Table[u[l]].methods, name) /\ l <= m
      BY <1>2, <2>2
    <2>. HIDE DEF l
    <2>4. l = m
      BY <1>9, <2>3
    <2>. QED
      BY <2>4 DEF l
  <1>12. Nearest("methods", obj, name) = u[m]
    <2>1. Nearest("methods", obj, name) = u[Min({n \in 0..N : Has(Table[u[n]]["methods"], name)})]
      BY DEF Nearest, u, N
    <2>2. S = {n \in 0..N : Has(Table[u[n]]["methods"], name)}
      OBVIOUS
    <2>. HIDE DEF S
    <2>. QED
      BY <1>11, <2>1, <2>2
  <1>. QED
    BY <1>6, <1>7, <1>9, <1>12

\* MethodsMeanTheMethod: the slot in which any class above an object's has a method is, in
\* the object's class, that of the nearest declaration (AddMethod, check_expr's walk).
THEOREM MethodsAreTheNearest == Spec => []MethodsMeanTheMethod
  <1>1. ASSUME Typed, Named, Settled, Laid PROVE MethodsMeanTheMethod
    <2>. SUFFICES ASSUME Compiled, NEW obj \in DOMAIN Table, ~Orphaned(obj), NEW static \in Lineage(obj),
                         NEW name \in NamesAbove("methods", static), M!MethodOf(OfClass(static), name).how = "here"
                  PROVE  LET slot == L!MethodSlot(static, name) + 1
                             entry == defs[obj].methods[slot]
                         IN /\ slot \in DOMAIN defs[obj].methods
                            /\ entry.name = name /\ entry.owner = Nearest("methods", obj, name)
      BY Zenon DEF MethodsMeanTheMethod
    <2>1. Built
      BY <1>1 DEF Built, Sound_, Compiled
    <2>2. static \in DOMAIN Table
      BY <2>1, LineageUp
    <2>3. \E m \in Nat : Has(Table[Upwards(static)[m]].methods, name)
      BY <2>1, <2>2, MethodFinds DEF Built
    <2>. QED
      BY <2>1, <2>3, MethodKept
  <1>. QED
    BY <1>1, AlwaysTyped, AlwaysNamed, AlwaysSettled, AlwaysLaid, PTL

(***************************************************************************)
(* What a class owes to the interfaces it lists                            *)
(***************************************************************************)
LEMMA SameOwed == ASSUME UNCHANGED <<program, symbols>> PROVE Owed' = Owed
  <1>1. Decls' = Decls
    BY DEF Decls
  <1>2. \A name : DeclOf(name)' = DeclOf(name)
    BY <1>1 DEF DeclOf
  <1>3. \A name : IfacesFrom(name)' = IfacesFrom(name)
    BY Zenon DEF IfacesFrom, Known, DeclOf, IsKind, Decls
  <1>4. ASSUME NEW cls, NEW base, NEW iface PROVE Required(cls, base, iface)' = Required(cls, base, iface)
    <2>1. DeclOf(iface)' = DeclOf(iface)
      BY <1>2
    <2>. QED
      BY <2>1, Zenon DEF Required
  <1>7. \A cls, base : LibraryRequired(cls, base)' = LibraryRequired(cls, base)
    <2>. SUFFICES ASSUME NEW cls, NEW base PROVE LibraryRequired(cls, base)' = LibraryRequired(cls, base)
      OBVIOUS
    <2>1. PICK ifaces : ifaces = IfacesFrom(base.name) /\ IfacesFrom(base.name)' = ifaces
      BY <1>3
    <2>2. PICK above : above = DeclOf(ifaces[Len(ifaces)]).parent /\ DeclOf(ifaces[Len(ifaces)])'.parent = above
      BY <1>2
    <2>. QED
      BY <2>1, <2>2 DEF LibraryRequired, IsKind
  <1>5. \A cls, base : RequiredBy(cls, base)' = RequiredBy(cls, base)
    BY <1>3, <1>4, <1>7 DEF RequiredBy, Asked
  <1>6. \A d : OwedBy(d)' = OwedBy(d)
    BY <1>5 DEF OwedBy
  <1>. QED
    BY <1>1, <1>6 DEF Owed

\* a set of natural numbers with no gap before its last
LEMMA NoGaps ==
    ASSUME NEW b \in Nat, NEW S, S \subseteq 0..b, \A n \in Nat : n + 1 \in S => n \in S
    PROVE  Cardinality(S) \in Nat /\ \A i \in 1..Cardinality(S) : i - 1 \in S
  <1>0. S \subseteq Nat
    OBVIOUS
  <1>1. IsFiniteSet(S)
    <2>1. IsFiniteSet(0..b)
      BY FS_Interval
    <2>. QED
      BY <2>1, FS_Subset
  <1>2. Cardinality(S) \in Nat
    BY <1>1, FS_CardinalityType
  <1>3. ASSUME NEW i \in 1..Cardinality(S), i - 1 \notin S PROVE FALSE
    <2>. DEFINE k == i - 1
                T == {n \in S : n > k}
    <2>1. k \in Nat /\ k + 1 = i /\ k \notin S
      BY <1>2, <1>3
    <2>. HIDE DEF k
    <2>2. T = {}
      <3>1. ASSUME T # {} PROVE FALSE
        <4>. DEFINE l == Min(T)
        <4>1. l \in T /\ \A n \in T : l <= n
          <5>1. T \subseteq Nat
            BY <1>0, Zenon
          <5>. HIDE DEF T
          <5>. QED
            BY <3>1, <5>1, Least
        <4>. HIDE DEF l
        <4>2. l \in Nat /\ l > k /\ l \in S
          BY <4>1
        <4>3. l - 1 \in Nat /\ (l - 1) + 1 = l /\ ~(l <= l - 1)
          BY <2>1, <4>2
        <4>4. l - 1 \in S
          BY <4>2, <4>3
        <4>5. l - 1 # k
          BY <2>1, <4>4
        <4>6. l - 1 > k
          BY <2>1, <4>2, <4>3, <4>5
        <4>. QED
          BY <4>1, <4>3, <4>4, <4>6
      <3>. QED
        BY <3>1
    <2>3. S \subseteq 0..(k - 1)
      <3>1. ASSUME NEW n \in S PROVE n \in 0..(k - 1)
        <4>1. n \in Nat /\ ~(n > k) /\ n # k
          BY <2>1, <2>2
        <4>. QED
          BY <2>1, <4>1
      <3>. QED
        BY <3>1
    <2>4. IsFiniteSet(0..(k - 1)) /\ Cardinality(0..(k - 1)) = k
      <3>1. 0 \in Int /\ k - 1 \in Int
        BY <2>1
      <3>2. IsFiniteSet(0..(k - 1)) /\ Cardinality(0..(k - 1)) = IF 0 > k - 1 THEN 0 ELSE (k - 1) - 0 + 1
        BY <3>1, FS_Interval
      <3>. QED
        BY <2>1, <3>2
    <2>5. Cardinality(S) <= k
      <3>1. S \in SUBSET (0..(k - 1))
        BY <2>3
      <3>2. Cardinality(S) <= Cardinality(0..(k - 1))
        BY <2>4, <3>1, FS_Subset, Zenon
      <3>. QED
        BY <2>4, <3>2
    <2>. QED
      BY <1>2, <1>3, <2>1, <2>5
  <1>. QED
    BY <1>2, <1>3

\* The interfaces above one are declared.
LEMMA IfacesKnown ==
    ASSUME Sound_, NEW name
    PROVE  /\ IsList(IfacesFrom(name))
           /\ \A i \in DOMAIN IfacesFrom(name) : Known(IfacesFrom(name)[i], "interface")
  <1>. DEFINE Up(n) == IF Known(n, "interface") /\ DeclOf(n).parent \in DOMAIN symbols THEN DeclOf(n).parent ELSE NoName
              next == [i \in DOMAIN symbols \cup {NoName} |-> Up(i)]
              up == Iterate(next, name)
              S == {n \in 0..31 : Known(up[n], "interface")}
  <1>1. NoName \notin DOMAIN symbols
    <2>1. NoName \notin DOMAIN program.seeded /\ \A k \in DOMAIN Decls : Decls[k].name # NoName
      BY Given, Zenon DEF Sound_, Typed, NoName
    <2>2. \A n \in DOMAIN symbols : IF symbols[n].decl = 0 THEN n \in DOMAIN program.seeded
                                    ELSE Decls[symbols[n].decl].name = n
      BY DEF Sound_, Named
    <2>3. \A n \in DOMAIN symbols : symbols[n].decl \in 0..Len(Decls)
      BY DEF Sound_, Typed, TypeOK
    <2>4. Len(Decls) \in Nat /\ DOMAIN Decls = 1..Len(Decls)
      BY DeclNumbers
    <2>5. \A n \in DOMAIN symbols : symbols[n].decl = 0 \/ symbols[n].decl \in DOMAIN Decls
      BY <2>3, <2>4
    <2>. QED
      BY <2>1, <2>2, <2>5
  <1>2. IfacesFrom(name) = IF name \notin DOMAIN symbols THEN <<>> ELSE [i \in 1..Cardinality(S) |-> up[i - 1]]
    BY Zenon DEF IfacesFrom, NoName
  <1>3. CASE name \notin DOMAIN symbols
    BY <1>2, <1>3, EmptyIsList
  <1>4. CASE name \in DOMAIN symbols
    <2>1. up[0] = name /\ \A n \in Nat : up[n + 1] = next[up[n]]
      <3>. HIDE DEF next
      <3>. QED
        BY Iterated
    <2>2. \A x \in DOMAIN symbols \cup {NoName} : next[x] = Up(x) /\ Up(x) \in DOMAIN symbols \cup {NoName}
      OBVIOUS
    <2>. HIDE DEF next, up
    <2>3. \A n \in Nat : up[n] \in DOMAIN symbols \cup {NoName}
      <3>. DEFINE Bad == {n \in Nat : up[n] \notin DOMAIN symbols \cup {NoName}}
      <3>1. ASSUME Bad # {} PROVE FALSE
        <4>. DEFINE l == Min(Bad)
        <4>1. l \in Bad /\ \A k \in Bad : l <= k
          <5>1. Bad \subseteq Nat
            OBVIOUS
          <5>. HIDE DEF Bad
          <5>. QED
            BY <3>1, <5>1, Least
        <4>. HIDE DEF l
        <4>2. l # 0
          BY <1>4, <2>1, <4>1
        <4>3. l - 1 \in Nat /\ ~(l <= l - 1) /\ (l - 1) + 1 = l
          BY <4>1, <4>2
        <4>4. up[l - 1] \in DOMAIN symbols \cup {NoName}
          BY <4>1, <4>3
        <4>5. up[l] = next[up[l - 1]]
          BY <2>1, <4>3
        <4>. HIDE DEF Up
        <4>. QED
          BY <2>2, <4>1, <4>4, <4>5
      <3>. QED
        BY <3>1
    <2>4. ASSUME NEW n \in Nat, Known(up[n + 1], "interface") PROVE Known(up[n], "interface")
      <3>1. up[n + 1] # NoName
        BY <1>1, <2>4 DEF Known, IsKind
      <3>2. up[n + 1] = Up(up[n])
        BY <2>1, <2>2, <2>3
      <3>. QED
        BY <3>1, <3>2
    <2>. HIDE DEF Up
    <2>5. \A n \in Nat : n + 1 \in S => n \in S
      BY <2>4
    <2>6. S \subseteq 0..31
      OBVIOUS
    <2>7. Cardinality(S) \in Nat /\ \A i \in 1..Cardinality(S) : i - 1 \in S
      <3>. HIDE DEF S
      <3>1. 31 \in Nat
        OBVIOUS
      <3>. QED
        BY <2>5, <2>6, <3>1, NoGaps
    <2>8. PICK N \in Nat : N = Cardinality(S)
      BY <2>7
    <2>9. IfacesFrom(name) = [i \in 1..N |-> up[i - 1]]
      BY <1>2, <1>4, <2>8
    <2>10. \A i \in 1..N : Known(up[i - 1], "interface")
      BY <2>7, <2>8
    <2>. HIDE DEF S
    <2>11. IsList(IfacesFrom(name)) /\ DOMAIN IfacesFrom(name) = 1..N
      <3>1. IfacesFrom(name) = [i \in 1..N |-> IfacesFrom(name)[i]]
        BY <2>9
      <3>. QED
        BY <3>1, FunctionIsList
    <2>. QED
      BY <2>9, <2>10, <2>11
  <1>. QED
    BY <1>3, <1>4

LEMMA RequiredIsList ==
    ASSUME Sound_, NEW cls, NEW base, NEW iface, Known(iface, "interface")
    PROVE  IsList(Required(cls, base, iface))
  <1>1. \A n \in DOMAIN symbols : symbols[n].decl \in 0..Len(Decls)
    BY DEF Sound_, Typed, TypeOK
  <1>2. symbols[iface].decl \in DOMAIN Decls
    <2>1. Len(Decls) \in Nat /\ DOMAIN Decls = 1..Len(Decls)
      BY DeclNumbers
    <2>2. iface \in DOMAIN symbols /\ symbols[iface].decl # 0
      BY DEF Known, IsKind
    <2>. QED
      BY <1>1, <2>1, <2>2
  <1>3. IsList(DeclOf(iface).methods)
    BY <1>2, Given DEF Sound_, Typed, DeclOf
  <1>4. PICK n \in Nat : DOMAIN DeclOf(iface).methods = 1..n
    BY <1>3, ListLength
  <1>5. DOMAIN Required(cls, base, iface) = 1..n
        /\ Required(cls, base, iface) = [i \in 1..n |-> Required(cls, base, iface)[i]]
    BY <1>4, Zenon DEF Required
  <1>. QED
    BY <1>5, FunctionIsList

LEMMA LibraryRequiredIsList ==
    ASSUME Sound_, NEW cls, NEW base
    PROVE  /\ IsList(LibraryRequired(cls, base))
           /\ \A r \in DOMAIN LibraryRequired(cls, base) : LibraryRequired(cls, base)[r].cls = cls
  <1>. DEFINE ifaces == IfacesFrom(base.name)
  <1>1. PICK last : last = IF ifaces = <<>> THEN base.name ELSE DeclOf(ifaces[Len(ifaces)]).parent
    OBVIOUS
  <1>2. CASE LibraryRequired(cls, base) = <<>>
    BY <1>2, EmptyIsList
  <1>3. CASE LibraryRequired(cls, base) # <<>>
    <2>1. /\ last \in DOMAIN program.ifaces
          /\ LibraryRequired(cls, base) =
               [i \in DOMAIN program.ifaces[last] |-> [cls |-> cls, name |-> program.ifaces[last][i], lib |-> TRUE]]
      BY <1>1, <1>3 DEF LibraryRequired
    <2>2. PICK names : names = program.ifaces[last] /\ IsList(names)
      BY <2>1, Given DEF Sound_, Typed
    <2>3. PICK n \in Nat : DOMAIN names = 1..n
      BY <2>2, ListLength
    <2>4. LibraryRequired(cls, base) = [i \in 1..n |-> [cls |-> cls, name |-> names[i], lib |-> TRUE]]
      BY <2>1, <2>2, <2>3
    <2>5. LibraryRequired(cls, base) = [i \in 1..n |-> LibraryRequired(cls, base)[i]]
      BY <2>4
    <2>. QED
      BY <2>4, <2>5, FunctionIsList
  <1>. QED
    BY <1>2, <1>3

\* What a base asks of a class is asked of that class.
LEMMA AskedIsList ==
    ASSUME Sound_, NEW cls, NEW base
    PROVE  LET asked == Asked(cls, base) IN
           /\ IsList(asked)
           /\ \A i \in DOMAIN asked : IsList(asked[i]) /\ \A r \in DOMAIN asked[i] : asked[i][r].cls = cls
  <1>. DEFINE ifaces == IfacesFrom(base.name)
              lists == [i \in DOMAIN ifaces |-> Required(cls, base, ifaces[i])]
              lib == LibraryRequired(cls, base)
  <1>1. IsList(ifaces) /\ \A i \in DOMAIN ifaces : Known(ifaces[i], "interface")
    BY IfacesKnown
  <1>2. \A i \in DOMAIN lists : IsList(lists[i]) /\ \A r \in DOMAIN lists[i] : lists[i][r].cls = cls
    <2>1. ASSUME NEW iface, NEW r \in DOMAIN Required(cls, base, iface) PROVE Required(cls, base, iface)[r].cls = cls
      BY <2>1 DEF Required
    <2>. QED
      BY <1>1, <2>1, RequiredIsList
  <1>3. Asked(cls, base) = Append(lists, lib)
    BY DEF Asked
  <1>4. IsList(lists)
    <2>1. PICK n \in Nat : DOMAIN ifaces = 1..n
      BY <1>1, ListLength
    <2>2. lists = [i \in 1..n |-> lists[i]]
      BY <2>1
    <2>. HIDE DEF lists
    <2>. QED
      BY <2>2, FunctionIsList
  <1>5. IsList(lib) /\ \A r \in DOMAIN lib : lib[r].cls = cls
    BY LibraryRequiredIsList
  <1>. HIDE DEF lists, ifaces, lib
  <1>6. PICK n \in Nat : n = Len(lists) /\ DOMAIN lists = 1..n
    BY <1>4, ListLength
  <1>7. /\ IsList(Append(lists, lib)) /\ DOMAIN Append(lists, lib) = 1..(n + 1)
        /\ Append(lists, lib)[n + 1] = lib /\ \A i \in 1..n : Append(lists, lib)[i] = lists[i]
    BY <1>4, <1>6, AppendIsList
  <1>8. \A i \in 1..(n + 1) : i \in 1..n \/ i = n + 1
    OBVIOUS
  <1>. QED
    BY <1>2, <1>3, <1>5, <1>6, <1>7, <1>8

LEMMA RequiredByIsList ==
    ASSUME Sound_, NEW cls, NEW base
    PROVE  LET asked == Asked(cls, base) IN
           /\ IsList(RequiredBy(cls, base))
           /\ \A i \in DOMAIN asked : \A r \in DOMAIN asked[i] :
                \E x \in DOMAIN RequiredBy(cls, base) : RequiredBy(cls, base)[x] = asked[i][r]
  <1>1. PICK asked : asked = Asked(cls, base)
    OBVIOUS
  <1>2. IsList(asked) /\ \A i \in DOMAIN asked : IsList(asked[i])
    BY <1>1, AskedIsList
  <1>3. RequiredBy(cls, base) = FlattenSeq(asked)
    BY <1>1 DEF RequiredBy
  <1>. QED
    BY <1>1, <1>2, <1>3, Flattened

LEMMA OwedByIsList ==
    ASSUME Sound_, NEW k \in DOMAIN Decls
    PROVE  /\ IsList(OwedBy(Decls[k]))
           /\ Decls[k].kind = "class" =>
                \A b \in DOMAIN Decls[k].bases : \A r \in DOMAIN RequiredBy(Decls[k].name, Decls[k].bases[b]) :
                  \E x \in DOMAIN OwedBy(Decls[k]) :
                    OwedBy(Decls[k])[x] = RequiredBy(Decls[k].name, Decls[k].bases[b])[r]
  <1>1. CASE Decls[k].kind # "class"
    BY <1>1, EmptyIsList DEF OwedBy
  <1>2. CASE Decls[k].kind = "class"
    <2>1. PICK d : d = Decls[k]
      OBVIOUS
    <2>. DEFINE lists == [i \in DOMAIN d.bases |-> RequiredBy(d.name, d.bases[i])]
    <2>2. OwedBy(d) = FlattenSeq(lists)
      BY <1>2, <2>1 DEF OwedBy
    <2>3. IsList(d.bases)
      BY <2>1, Given DEF Sound_, Typed
    <2>4. \A i \in DOMAIN d.bases : IsList(RequiredBy(d.name, d.bases[i]))
      BY RequiredByIsList
    <2>5. DOMAIN lists = DOMAIN d.bases /\ \A i \in DOMAIN lists : lists[i] = RequiredBy(d.name, d.bases[i])
      OBVIOUS
    <2>6. IsList(lists)
      <3>1. PICK n \in Nat : DOMAIN d.bases = 1..n
        BY <2>3, ListLength
      <3>2. lists = [i \in 1..n |-> lists[i]]
        BY <3>1
      <3>. HIDE DEF lists
      <3>. QED
        BY <3>2, FunctionIsList
    <2>. HIDE DEF lists
    <2>7. /\ IsList(FlattenSeq(lists))
          /\ \A i \in DOMAIN lists : \A j \in DOMAIN lists[i] :
               \E x \in DOMAIN FlattenSeq(lists) : FlattenSeq(lists)[x] = lists[i][j]
      BY <2>4, <2>5, <2>6, Flattened
    <2>8. ASSUME NEW b \in DOMAIN d.bases, NEW r \in DOMAIN RequiredBy(d.name, d.bases[b])
          PROVE  \E x \in DOMAIN OwedBy(d) : OwedBy(d)[x] = RequiredBy(d.name, d.bases[b])[r]
      BY <2>2, <2>5, <2>7, <2>8
    <2>. QED
      BY <2>1, <2>2, <2>7, <2>8
  <1>. QED
    BY <1>1, <1>2

\* Every method of every interface that a class lists, and of those above it, is owed.
LEMMA AllOwed ==
    ASSUME Sound_
    PROVE  /\ IsList(Owed)
           /\ \A cls \in DOMAIN Table : \A b \in DOMAIN DeclOf(cls).bases :
                LET asked == Asked(cls, DeclOf(cls).bases[b]) IN
                \A i \in DOMAIN asked : \A r \in DOMAIN asked[i] : \E x \in DOMAIN Owed : Owed[x] = asked[i][r]
  <1>. DEFINE lists == [k \in DOMAIN Decls |-> OwedBy(Decls[k])]
  <1>1. Owed = FlattenSeq(lists)
    BY DEF Owed
  <1>2. DOMAIN lists = DOMAIN Decls /\ \A k \in DOMAIN lists : lists[k] = OwedBy(Decls[k]) /\ IsList(lists[k])
    BY OwedByIsList
  <1>3. IsList(lists)
    <2>1. PICK n \in Nat : DOMAIN Decls = 1..n
      BY DeclNumbers
    <2>2. lists = [i \in 1..n |-> lists[i]]
      BY <2>1
    <2>. HIDE DEF lists
    <2>. QED
      BY <2>2, FunctionIsList
  <1>. HIDE DEF lists
  <1>4. /\ IsList(FlattenSeq(lists))
        /\ \A i \in DOMAIN lists : \A j \in DOMAIN lists[i] :
             \E x \in DOMAIN FlattenSeq(lists) : FlattenSeq(lists)[x] = lists[i][j]
    BY <1>2, <1>3, Flattened
  <1>5. ASSUME NEW cls \in DOMAIN Table, NEW b \in DOMAIN DeclOf(cls).bases, NEW asked,
               asked = Asked(cls, DeclOf(cls).bases[b]), NEW i \in DOMAIN asked, NEW r \in DOMAIN asked[i]
        PROVE  \E x \in DOMAIN Owed : Owed[x] = asked[i][r]
    <2>1. PICK k \in DOMAIN Decls : k = At(cls) /\ Decls[k].name = cls /\ Decls[k].kind = "class"
                                    /\ Decls[k] = DeclOf(cls)
      BY Declaration DEF Compiles, At, DeclOf
    <2>2. PICK base : base = DeclOf(cls).bases[b]
      OBVIOUS
    <2>3. PICK y \in DOMAIN RequiredBy(cls, base) : RequiredBy(cls, base)[y] = asked[i][r]
      BY <1>5, <2>2, RequiredByIsList
    <2>4. PICK z \in DOMAIN OwedBy(Decls[k]) : OwedBy(Decls[k])[z] = RequiredBy(cls, base)[y]
      BY <1>5, <2>1, <2>2, <2>3, OwedByIsList
    <2>. QED
      BY <1>1, <1>2, <1>4, <2>1, <2>3, <2>4
  <1>6. ASSUME NEW cls \in DOMAIN Table, NEW b \in DOMAIN DeclOf(cls).bases
        PROVE  LET asked == Asked(cls, DeclOf(cls).bases[b]) IN
               \A i \in DOMAIN asked : \A r \in DOMAIN asked[i] : \E x \in DOMAIN Owed : Owed[x] = asked[i][r]
    BY <1>5, <1>6
  <1>7. IsList(Owed)
    BY <1>1, <1>4
  <1>. QED
    BY <1>6, <1>7, Zenon

(***************************************************************************)
(* What pass 1b2 has found                                                 *)
(***************************************************************************)
\* none of the first m classes from cls upwards has an instance method of that name
Lacks(cls, name, m) == \A l \in Nat : l < m => Instances(Table[Upwards(cls)[l]].methods, name) = {}

\* the first class that has one has the signature required
Satisfied(req) ==
    \E m \in Nat : LET methods == Table[Upwards(req.cls)[m]].methods IN
      /\ Lacks(req.cls, req.name, m)
      /\ Instances(methods, req.name) # {} /\ Mismatch(Instance_(methods, req.name), req) = {}

\* the search for req has come to the class c
SoughtIn(req, c) ==
    c \in DOMAIN Table =>
      req.cls \in DOMAIN Table /\ \E m \in Nat : c = Upwards(req.cls)[m] /\ Lacks(req.cls, req.name, m)

AfterSearch == phase = "checked" \/ Compiling
Searched ==
    complaints = {} =>
      /\ phase = "compliance" =>
           /\ IsList(owed) /\ (owed # <<>> => SoughtIn(Head(owed), search))
           /\ \A r \in DOMAIN Owed : Satisfied(Owed[r]) \/ \E s \in DOMAIN owed : owed[s] = Owed[r]
      /\ AfterSearch => \A r \in DOMAIN Owed : Satisfied(Owed[r])

LEMMA SameSearch ==
    ASSUME UNCHANGED <<program, symbols, parents>>
    PROVE  /\ Owed' = Owed /\ Table' = Table /\ Decls' = Decls
           /\ \A cls : Upwards(cls)' = Upwards(cls)
           /\ \A cls, name, m : Lacks(cls, name, m)' <=> Lacks(cls, name, m)
           /\ \A req : Satisfied(req)' <=> Satisfied(req)
           /\ \A req, c : SoughtIn(req, c)' <=> SoughtIn(req, c)
  <1>1. Owed' = Owed
    BY SameOwed
  <1>2. Table' = Table /\ Decls' = Decls
    BY SameTable
  <1>3. \A cls : Upwards(cls)' = Upwards(cls)
    BY <1>2 DEF Upwards
  <1>4. ASSUME NEW cls, NEW name, NEW m PROVE Lacks(cls, name, m)' <=> Lacks(cls, name, m)
    <2>1. \A l : Table'[Upwards(cls)'[l]] = Table[Upwards(cls)[l]]
      BY <1>2, <1>3
    <2>. QED
      BY <2>1, Zenon DEF Lacks
  <1>5. \A m, req : Mismatch(m, req)' = Mismatch(m, req)
    BY DEF Mismatch, SameIface, IsKind
  <1>6. ASSUME NEW req PROVE Satisfied(req)' <=> Satisfied(req)
    <2>1. \A l : Table'[Upwards(req.cls)'[l]] = Table[Upwards(req.cls)[l]]
      BY <1>2, <1>3
    <2>. QED
      BY <1>4, <1>5, <2>1, Zenon DEF Satisfied
  <1>7. ASSUME NEW req, NEW c PROVE SoughtIn(req, c)' <=> SoughtIn(req, c)
    BY <1>2, <1>3, <1>4, Zenon DEF SoughtIn
  <1>. QED
    BY <1>1, <1>2, <1>3, <1>4, <1>6, <1>7

\* the classes whose names are known
LEMMA KnownClass ==
    ASSUME Sound_, NEW c
    PROVE  /\ Known(c, "class") <=> c \in DOMAIN Table
           /\ c \in DOMAIN Table => DeclOf(c).methods = Table[c].methods /\ Climb(c) = Table[c].parent
  <1>1. Known(c, "class") <=> c \in DOMAIN Table
    BY DEF Table, Known, IsKind
  <1>2. ASSUME c \in DOMAIN Table PROVE DeclOf(c).methods = Table[c].methods /\ Climb(c) = Table[c].parent
    BY <1>2, Declaration DEF DeclOf, Climb, At
  <1>. QED
    BY <1>1, <1>2

LEMMA TailOf ==
    ASSUME NEW s, IsList(s), s # <<>>
    PROVE  /\ IsList(Tail(s)) /\ Head(s) = s[1]
           /\ \A i \in DOMAIN s : i = 1 \/ (i - 1 \in DOMAIN Tail(s) /\ Tail(s)[i - 1] = s[i])
           /\ Len(s) = 1 => Tail(s) = <<>>
           /\ Len(s) # 1 => Head(Tail(s)) = s[2]
  <1>. DEFINE S == {s[i] : i \in DOMAIN s}
              t == Tail(s)
  <1>1. s \in Seq(S)
    BY DEF IsList
  <1>. HIDE DEF S
  <1>2. Head(s) = s[1] /\ t \in Seq(S) /\ Len(t) = Len(s) - 1 /\ \A i \in 1..Len(t) : t[i] = s[i + 1]
    BY <1>1
  <1>. HIDE DEF t
  <1>3. Len(s) \in Nat /\ DOMAIN s = 1..Len(s)
    BY <1>1
  <1>4. Len(t) \in Nat /\ DOMAIN t = 1..Len(t) /\ t = [i \in 1..Len(t) |-> t[i]]
    BY <1>2
  <1>5. IsList(t)
    BY <1>4, FunctionIsList
  <1>6. ASSUME NEW i \in DOMAIN s, i # 1 PROVE i - 1 \in DOMAIN t /\ t[i - 1] = s[i]
    <2>1. i - 1 \in 1..Len(t) /\ (i - 1) + 1 = i
      BY <1>2, <1>3, <1>4, <1>6
    <2>. QED
      BY <1>2, <1>4, <2>1
  <1>7. ASSUME Len(s) = 1 PROVE t = <<>>
    <2>1. Len(t) = 0
      BY <1>2, <1>7
    <2>. QED
      BY <1>2, <2>1
  <1>8. ASSUME Len(s) # 1 PROVE Head(t) = s[2]
    <2>1. t # <<>> /\ 1 \in 1..Len(t) /\ 1 + 1 = 2
      BY <1>2, <1>3, <1>4, <1>8
    <2>2. Head(t) = t[1]
      BY <1>2, <2>1
    <2>3. t[1] = s[1 + 1]
      BY <1>2, <2>1
    <2>. QED
      BY <2>1, <2>2, <2>3
  <1>. QED
    BY <1>2, <1>5, <1>6, <1>7, <1>8 DEF t

\* The search begins in the class that owes.
LEMMA SoughtFirst == ASSUME NEW req PROVE SoughtIn(req, req.cls)
  <1>1. ASSUME NEW c \in DOMAIN Table, NEW m \in Nat, m = 0, NEW name
        PROVE  c = Upwards(c)[m] /\ Lacks(c, name, m)
    <2>1. \A l \in Nat : ~(l < m)
      BY <1>1
    <2>. QED
      BY <1>1, <2>1, UpwardsSteps DEF Lacks
  <1>2. 0 \in Nat
    OBVIOUS
  <1>. QED
    BY <1>1, <1>2 DEF SoughtIn

\* A class without the method passes the search on to its parent.
LEMMA SoughtNext ==
    ASSUME NEW req, NEW c \in DOMAIN Table, SoughtIn(req, c), Instances(Table[c].methods, req.name) = {}
    PROVE  SoughtIn(req, Table[c].parent)
  <1>1. PICK m \in Nat : c = Upwards(req.cls)[m] /\ Lacks(req.cls, req.name, m) /\ req.cls \in DOMAIN Table
    BY DEF SoughtIn
  <1>2. PICK d : d = Table[c].parent
    OBVIOUS
  <1>3. CASE d \in DOMAIN Table
    <2>1. m + 1 \in Nat /\ Upwards(req.cls)[m + 1] = d
      BY <1>1, <1>2, <1>3, UpwardsSteps
    <2>2. \A l \in Nat : l < m + 1 => l < m \/ l = m
      OBVIOUS
    <2>3. Lacks(req.cls, req.name, m + 1)
      BY <1>1, <2>2 DEF Lacks
    <2>. QED
      BY <1>1, <1>2, <2>1, <2>3 DEF SoughtIn
  <1>. QED
    BY <1>2, <1>3 DEF SoughtIn

LEMMA SearchStep ==
    ASSUME Sound_, Searched, Search, complaints' = {}
    PROVE  Searched'
  <1>. DEFINE req == Head(owed)
              methods == DeclOf(search).methods
              next == /\ owed' = Tail(owed)
                      /\ search' = IF Len(owed) = 1 THEN NoName ELSE owed[2].cls
  <1>1. /\ phase = "compliance" /\ owed # <<>> /\ UNCHANGED <<program, phase, at, member, symbols, parents, defs>>
        /\ \/ ~Known(search, "class") /\ Fail({"missing method"}) /\ next
           \/ /\ Known(search, "class") /\ Instances(methods, req.name) # {}
              /\ Fail(Mismatch(Instance_(methods, req.name), req)) /\ next
           \/ /\ Known(search, "class") /\ Instances(methods, req.name) = {}
              /\ search' = Climb(search) /\ UNCHANGED <<owed, complaints>>
    BY Zenon DEF Search, NoName
  <1>2. complaints = {} /\ phase' = "compliance"
    BY <1>1 DEF Sound_
  <1>3. /\ Owed' = Owed /\ Table' = Table /\ \A cls : Upwards(cls)' = Upwards(cls)
        /\ \A cls, name, m : Lacks(cls, name, m)' <=> Lacks(cls, name, m)
        /\ \A r : Satisfied(r)' <=> Satisfied(r)
        /\ \A r, c : SoughtIn(r, c)' <=> SoughtIn(r, c)
    BY <1>1, SameSearch
  <1>4. /\ IsList(owed) /\ SoughtIn(Head(owed), search)
        /\ \A r \in DOMAIN Owed : Satisfied(Owed[r]) \/ \E s \in DOMAIN owed : owed[s] = Owed[r]
    BY <1>1, <1>2 DEF Searched
  <1>5. PICK q : q = Head(owed)
    OBVIOUS
  <1>6. ~AfterSearch'
    BY <1>2 DEF AfterSearch, Compiling
  <1>7. Known(search, "class")
    <2>1. ASSUME ~Known(search, "class") PROVE FALSE
      BY <1>1, <2>1 DEF Fail
    <2>. QED
      BY <2>1
  <1>8. search \in DOMAIN Table /\ methods = Table[search].methods /\ Climb(search) = Table[search].parent
    BY <1>7, KnownClass
  <1>9. PICK m \in Nat : search = Upwards(q.cls)[m] /\ Lacks(q.cls, q.name, m)
    BY <1>4, <1>5, <1>8 DEF SoughtIn
  <1>. HIDE DEF methods
  <1>10. CASE Instances(methods, q.name) # {}
    <2>1. Fail(Mismatch(Instance_(methods, q.name), q)) /\ owed' = Tail(owed)
          /\ search' = IF Len(owed) = 1 THEN NoName ELSE owed[2].cls
      BY <1>1, <1>5, <1>7, <1>10
    <2>2. Mismatch(Instance_(methods, q.name), q) = {}
      BY <2>1 DEF Fail
    <2>3. Satisfied(q)
      <3>1. PICK c : c = Upwards(q.cls)[m] /\ methods = Table[c].methods
        BY <1>8, <1>9
      <3>. QED
        BY <1>9, <1>10, <2>2, <3>1 DEF Satisfied
    <2>4. /\ IsList(Tail(owed)) /\ Head(owed) = owed[1]
          /\ \A i \in DOMAIN owed : i = 1 \/ (i - 1 \in DOMAIN Tail(owed) /\ Tail(owed)[i - 1] = owed[i])
          /\ Len(owed) = 1 => Tail(owed) = <<>>
          /\ Len(owed) # 1 => Head(Tail(owed)) = owed[2]
      BY <1>1, <1>4, TailOf
    <2>5. ASSUME NEW r \in DOMAIN Owed PROVE Satisfied(Owed[r]) \/ \E s \in DOMAIN owed' : owed'[s] = Owed[r]
      <3>1. ASSUME NEW s \in DOMAIN owed, owed[s] = Owed[r]
            PROVE  Satisfied(Owed[r]) \/ \E x \in DOMAIN owed' : owed'[x] = Owed[r]
        <4>1. CASE s = 1
          <5>1. Owed[r] = q
            BY <1>5, <2>4, <3>1, <4>1
          <5>. QED
            BY <2>3, <5>1
        <4>2. CASE s # 1
          BY <2>1, <2>4, <3>1, <4>2
        <4>. QED
          BY <4>1, <4>2
      <3>. QED
        BY <1>4, <3>1
    <2>6. ASSUME owed' # <<>> PROVE SoughtIn(Head(owed), search)'
      <3>1. Head(owed') = owed[2] /\ search' = owed[2].cls
        BY <2>1, <2>4, <2>6
      <3>2. PICK o : o = Head(owed')
        OBVIOUS
      <3>3. PICK c : c = o.cls
        OBVIOUS
      <3>4. SoughtIn(o, c)
        BY <3>3, SoughtFirst
      <3>5. SoughtIn(o, c)'
        BY <1>3, <3>4
      <3>6. search' = c /\ Head(owed') = o
        BY <3>1, <3>2, <3>3
      <3>. QED
        BY <3>5, <3>6 DEF SoughtIn
    <2>7. IsList(owed')
      BY <2>1, <2>4
    <2>8. \A r \in DOMAIN Owed' : Satisfied(Owed[r])' \/ \E s \in DOMAIN owed' : owed'[s] = Owed'[r]
      BY <1>3, <2>5
    <2>. QED
      BY <1>2, <1>6, <2>6, <2>7, <2>8 DEF Searched
  <1>11. CASE Instances(methods, q.name) = {}
    <2>1. search' = Table[search].parent /\ owed' = owed
      BY <1>1, <1>5, <1>7, <1>8, <1>11
    <2>2. SoughtIn(Head(owed), search)'
      <3>1. PICK c : c = search /\ c \in DOMAIN Table /\ methods = Table[c].methods
        BY <1>8
      <3>2. PICK d : d = Table[c].parent
        OBVIOUS
      <3>3. SoughtIn(q, d)
        BY <1>4, <1>5, <1>11, <3>1, <3>2, SoughtNext
      <3>4. SoughtIn(q, d)'
        BY <1>3, <3>3
      <3>5. search' = d /\ Head(owed') = q
        BY <1>5, <2>1, <3>1, <3>2
      <3>. QED
        BY <3>4, <3>5 DEF SoughtIn
    <2>3. \A r \in DOMAIN Owed' : Satisfied(Owed[r])' \/ \E s \in DOMAIN owed' : owed'[s] = Owed'[r]
      BY <1>3, <1>4, <2>1
    <2>4. IsList(owed')
      BY <1>4, <2>1
    <2>. QED
      BY <1>2, <1>6, <2>2, <2>3, <2>4 DEF Searched
  <1>. QED
    BY <1>5, <1>10, <1>11

LEMMA SearchedStep == Typed /\ Named /\ Settled /\ Searched /\ [Next]_vars => Searched'
  <1>. SUFFICES ASSUME Typed, Named, Settled, Searched, [Next]_vars, complaints' = {},
                       phase' = "compliance" \/ AfterSearch'
                PROVE  Searched'
    BY DEF Searched
  <1>1. phase' # "register" /\ phase' # "interfaces"
    BY DEF AfterSearch, Compiling
  <1>2. ~Register /\ ~ResolveParents
    BY <1>1 DEF Register, ResolveParents, Pass
  <1>3. UNCHANGED <<program, symbols, parents>> /\ complaints = {} /\ phase # "register"
    <2>1. UNCHANGED <<program, symbols>> /\ complaints \subseteq complaints'
      BY <1>2, RegisteredOnce
    <2>2. UNCHANGED parents /\ phase # "register"
      <3>1. CASE UNCHANGED vars
        BY <1>1, <3>1 DEF vars
      <3>2. CASE Next
        BY <1>2, <3>2 DEF Next, StartCompliance, Search, CheckMembers, StartCompile, SkipDecl, PlaceInterface, RefuseClass, OpenClass, PlaceField,
                          FieldsPlaced, PlaceMethod, CloseClass, EndCompile, Pass
      <3>. QED
        BY <3>1, <3>2
    <2>. QED
      BY <2>1, <2>2
  <1>4. Sound_
    BY <1>3 DEF Sound_
  <1>5. /\ Owed' = Owed /\ Table' = Table /\ \A r : Satisfied(r)' <=> Satisfied(r)
        /\ \A r, c : SoughtIn(r, c)' <=> SoughtIn(r, c)
    BY <1>3, SameSearch
  <1>6. CASE StartCompliance
    <2>1. phase' = "compliance" /\ owed' = Owed /\ search' = IF owed' = <<>> THEN NoName ELSE Head(owed').cls
      BY <1>6, Zenon DEF StartCompliance, Pass, NoName
    <2>2. IsList(owed')
      BY <1>4, <2>1, AllOwed
    <2>3. ASSUME owed' # <<>> PROVE SoughtIn(Head(owed), search)'
      <3>1. PICK o : o = Head(owed')
        OBVIOUS
      <3>2. PICK c : c = o.cls
        OBVIOUS
      <3>3. SoughtIn(o, c)'
        BY <1>5, <3>2, SoughtFirst
      <3>4. search' = c /\ Head(owed') = o
        BY <2>1, <2>3, <3>1, <3>2
      <3>. QED
        BY <3>3, <3>4 DEF SoughtIn
    <2>4. \A r \in DOMAIN Owed' : \E s \in DOMAIN owed' : owed'[s] = Owed'[r]
      BY <1>5, <2>1
    <2>5. ~AfterSearch'
      BY <2>1 DEF AfterSearch, Compiling
    <2>. QED
      BY <2>2, <2>3, <2>4, <2>5 DEF Searched
  <1>7. CASE Search
    BY <1>4, <1>7, SearchStep
  <1>8. CASE CheckMembers
    <2>1. owed = <<>> /\ phase = "compliance" /\ phase' = "checked"
      BY <1>8 DEF CheckMembers, Pass
    <2>2. DOMAIN owed = {}
      BY <2>1
    <2>3. \A r \in DOMAIN Owed : Satisfied(Owed[r])
      BY <1>3, <2>1, <2>2 DEF Searched
    <2>4. \A r \in DOMAIN Owed' : Satisfied(Owed[r])'
      BY <1>5, <2>3
    <2>. QED
      BY <2>1, <2>4 DEF Searched
  <1>9. CASE UNCHANGED vars
    <2>1. phase' = phase /\ owed' = owed /\ search' = search
      BY <1>9 DEF vars
    <2>2. AfterSearch' <=> AfterSearch
      BY <2>1 DEF AfterSearch, Compiling
    <2>3. \A r \in DOMAIN Owed' : Satisfied(Owed[r])' <=> Satisfied(Owed[r])
      BY <1>5
    <2>4. SoughtIn(Head(owed), search)' <=> SoughtIn(Head(owed), search)
      <3>1. PICK o, c : o = Head(owed) /\ c = search
        OBVIOUS
      <3>2. Head(owed') = o /\ search' = c
        BY <2>1, <3>1
      <3>. QED
        BY <1>5, <3>1, <3>2 DEF SoughtIn
    <2>. QED
      BY <1>3, <1>5, <2>1, <2>2, <2>3, <2>4 DEF Searched
  <1>10. CASE StartCompile \/ SkipDecl \/ PlaceInterface \/ RefuseClass \/ OpenClass \/ PlaceField \/ FieldsPlaced \/ PlaceMethod \/ CloseClass
              \/ EndCompile
    <2>1. AfterSearch /\ phase' # "compliance"
      BY <1>10 DEF AfterSearch, Compiling, StartCompile, SkipDecl, PlaceInterface, RefuseClass, OpenClass, PlaceField, FieldsPlaced, PlaceMethod,
                   CloseClass, EndCompile, Pass
    <2>2. \A r \in DOMAIN Owed : Satisfied(Owed[r])
      BY <1>3, <2>1 DEF Searched
    <2>3. \A r \in DOMAIN Owed' : Satisfied(Owed[r])'
      BY <1>5, <2>2
    <2>. QED
      BY <2>1, <2>3 DEF Searched
  <1>. QED
    BY <1>2, <1>6, <1>7, <1>8, <1>9, <1>10 DEF Next

LEMMA AlwaysSearched == Spec => []Searched
  <1>1. Init => Searched
    BY DEF Init, Searched, AfterSearch, Compiling
  <1>. QED
    BY <1>1, SearchedStep, AlwaysTyped, AlwaysNamed, AlwaysSettled, PTL DEF Spec

(***************************************************************************)
(* What an object of a class answers                                       *)
(***************************************************************************)
LEMMA ClassTableFinite == ASSUME Built PROVE Cardinality(DOMAIN defs) \in Nat
  <1>1. \A c \in DOMAIN defs : \E j \in DOMAIN Decls : Decls[j].name = c
    BY DEF Built, Sound_, Laid, Compiling
  <1>2. PICK N \in Nat : DOMAIN Decls = 1..N
    BY DeclNumbers DEF Built
  <1>. DEFINE names == {Decls[k].name : k \in 1..N}
              name == [k \in 1..N |-> Decls[k].name]
  <1>3. name \in Surjection(1..N, names)
    BY DEF Surjection
  <1>4. IsFiniteSet(1..N)
    BY FS_Interval
  <1>5. IsFiniteSet(names)
    BY <1>3, <1>4, FS_Surjection
  <1>6. DOMAIN defs \in SUBSET names
    BY <1>1, <1>2
  <1>7. IsFiniteSet(DOMAIN defs)
    BY <1>5, <1>6, FS_Subset
  <1>. QED
    BY <1>7, FS_CardinalityType

\* where no method of a name is static, the first of them is the first instance method
LEMMA NoStatics ==
    ASSUME NEW methods, IsList(methods), NEW name, Has(methods, name),
           \A i \in DOMAIN methods : methods[i].name = name => ~methods[i].static
    PROVE  /\ Instances(methods, name) # {} /\ Instance_(methods, name) = Get(methods, name)
           /\ \E i \in DOMAIN methods : methods[i].name = name /\ Instance_(methods, name) = methods[i]
  <1>1. Instances(methods, name) = {i \in DOMAIN methods : methods[i].name = name}
    BY DEF Instances
  <1>2. Min(Instances(methods, name)) = FirstAt(methods, name)
    BY <1>1 DEF FirstAt
  <1>3. FirstAt(methods, name) \in DOMAIN methods /\ methods[FirstAt(methods, name)].name = name
    BY FirstOf
  <1>. QED
    BY <1>1, <1>2, <1>3 DEF Instance_, Get

\* A method that the search found answers as it was found.
LEMMA Answered ==
    ASSUME Built, NEW cls \in DOMAIN Table, ~Orphaned(cls), NEW req, req.cls = cls, Satisfied(req),
           \A c \in Lineage(cls) : \A i \in DOMAIN Table[c].methods :
             Table[c].methods[i].name = req.name => ~Table[c].methods[i].static
    PROVE  /\ Answering(cls, req.name) # {}
           /\ req.lib \/ Answers(Get(Table[Answer(cls, req.name).owner].methods, req.name), req)
  <1>. DEFINE u == Upwards(cls)
              name == req.name
              has(n) == Has(Table[u[n]].methods, name)
  <1>1. Straight(cls) /\ \A n \in Nat : u[n] \in Lineage(cls) /\ u[n] \in DOMAIN Table
    <2>1. Upwards(cls)[0] = cls
      BY UpwardsSteps
    <2>2. cls \in Lineage(cls)
      <3>1. Len(Decls) \in Nat
        BY DeclNumbers DEF Built
      <3>2. 0 \in 0..Len(Decls)
        BY <3>1
      <3>. QED
        BY <2>1, <3>2 DEF Lineage
    <2>. QED
      BY <2>2, LineageUp
  <1>2. \A n \in Nat : \A i \in DOMAIN Table[u[n]].methods :
          Table[u[n]].methods[i].name = name => ~Table[u[n]].methods[i].static
    BY <1>1
  <1>3. \A n \in Nat : IsList(Table[u[n]].methods)
    BY <1>1, AllLaid
  <1>4. \A n \in Nat : has(n) => /\ Instances(Table[u[n]].methods, name) # {}
                                 /\ Instance_(Table[u[n]].methods, name) = Get(Table[u[n]].methods, name)
    BY <1>2, <1>3, NoStatics
  <1>5. PICK m \in Nat : /\ Lacks(cls, name, m) /\ Instances(Table[u[m]].methods, name) # {}
                         /\ Mismatch(Instance_(Table[u[m]].methods, name), req) = {}
    BY DEF Satisfied
  <1>6. has(m) /\ \A l \in Nat : l < m => ~has(l)
    <2>1. has(m)
      BY <1>5 DEF Instances, Has
    <2>2. \A l \in Nat : l < m => ~has(l)
      BY <1>4, <1>5 DEF Lacks
    <2>. QED
      BY <2>1, <2>2
  <1>7. Mismatch(Get(Table[u[m]].methods, name), req) = {}
    BY <1>4, <1>5, <1>6
  <1>8. \A i \in DOMAIN defs[cls].methods : defs[cls].methods[i].name = name =>
          defs[cls].methods[i].owner = u[m] /\ ~defs[cls].methods[i].static
    <2>. SUFFICES ASSUME NEW i \in DOMAIN defs[cls].methods, defs[cls].methods[i].name = name
                  PROVE  defs[cls].methods[i].owner = u[m] /\ ~defs[cls].methods[i].static
      OBVIOUS
    <2>1. PICK e : e = defs[cls].methods[i] /\ e.name = name
      OBVIOUS
    <2>2. OwnersNearest(cls)
      BY <1>1, AllMeant DEF Meant
    <2>3. PICK k \in Nat : OwnedAt(cls, e, k)
      BY <2>1, <2>2 DEF OwnersNearest
    <2>4. /\ e.owner = u[k] /\ has(k) /\ \A l \in Nat : l < k => ~has(l)
          /\ \E j \in DOMAIN Table[u[k]].methods :
               Table[u[k]].methods[j].name = name /\ Table[u[k]].methods[j].static = e.static
      BY <2>1, <2>3 DEF OwnedAt, Has
    <2>. HIDE DEF u, name
    <2>5. ~(k < m) /\ ~(m < k)
      BY <1>6, <2>4
    <2>6. k = m
      BY <2>5
    <2>. QED
      BY <1>2, <2>1, <2>4, <2>6
  <1>9. Has(defs[cls].methods, name) /\ IsList(defs[cls].methods)
    <2>1. NoneMissing(cls)
      BY <1>1, AllMeant DEF Meant
    <2>2. PICK j \in DOMAIN Table[u[m]].methods : Table[u[m]].methods[j].name = name
      BY <1>6 DEF Has
    <2>. QED
      BY <2>1, <2>2, AllLaid DEF NoneMissing
  <1>10. /\ Instances(defs[cls].methods, name) # {}
         /\ \E i \in DOMAIN defs[cls].methods :
              defs[cls].methods[i].name = name /\ Instance_(defs[cls].methods, name) = defs[cls].methods[i]
    BY <1>8, <1>9, NoStatics
  <1>11. AtRunTime(cls)[0] = cls
    BY Iterated DEF AtRunTime
  <1>12. Answering(cls, name) # {} /\ Min(Answering(cls, name)) = 0
    <2>. DEFINE S == Answering(cls, name)
    <2>1. S \subseteq Nat /\ 0 \in S
      BY <1>10, <1>11, ClassTableFinite DEF Answering
    <2>. HIDE DEF S
    <2>2. Min(S) \in S /\ Min(S) <= 0
      BY <2>1, Least
    <2>3. Min(S) = 0
      BY <2>1, <2>2
    <2>. QED
      BY <2>1, <2>3 DEF S
  <1>13. Answer(cls, name) = Instance_(defs[cls].methods, name)
    BY <1>11, <1>12 DEF Answer
  <1>14. Answer(cls, name).owner = u[m]
    BY <1>8, <1>10, <1>13
  <1>15. \A g : ~req.lib /\ Mismatch(g, req) = {} => Answers(g, req)
    <2>. SUFFICES ASSUME NEW g, ~req.lib, Mismatch(g, req) = {} PROVE Answers(g, req)
      OBVIOUS
    <2>1. SameType(g.ret, req.ret) \/ SameIface(g.ret, req.ret)
      BY DEF Mismatch
    <2>2. Len(g.params) = Len(req.params)
      BY DEF Mismatch
    <2>3. \A i \in DOMAIN g.params : SameType(g.params[i].type, req.params[i])
      BY <2>2 DEF Mismatch
    <2>. QED
      BY <2>1, <2>2, <2>3 DEF Answers, SameIface
  <1>. QED
    BY <1>7, <1>12, <1>14, <1>15

\* InterfaceKept: what CALL_IFACE finds for a method of an interface the class lists has
\* the interface's signature (checker_check, pass 1b2; AddMethod).
THEOREM InterfacesAreKept == Spec => []InterfaceKept
  <1>1. ASSUME Typed, Named, Settled, Laid, Searched PROVE InterfaceKept
    <2>. SUFFICES ASSUME Compiled, NEW cls \in DOMAIN Table, ~Orphaned(cls), NEW b \in DOMAIN DeclOf(cls).bases
                  PROVE  LET asked == Asked(cls, DeclOf(cls).bases[b]) IN
                         \A i \in DOMAIN asked : \A r \in DOMAIN asked[i] :
                           LET req == asked[i][r]  answer == Answer(cls, req.name) IN
                           \/ \E c \in Lineage(cls) : \E m \in DOMAIN Table[c].methods :
                                Table[c].methods[m].name = req.name /\ Table[c].methods[m].static
                           \/ /\ Answering(cls, req.name) # {}
                              /\ req.lib \/ Answers(Get(Table[answer.owner].methods, req.name), req)
      BY Zenon DEF InterfaceKept
    <2>1. Built
      BY <1>1 DEF Built, Sound_, Compiled
    <2>2. PICK asked : asked = Asked(cls, DeclOf(cls).bases[b])
      OBVIOUS
    <2>3. ASSUME NEW i \in DOMAIN asked, NEW r \in DOMAIN asked[i], NEW req, req = asked[i][r]
          PROVE  \/ \E c \in Lineage(cls) : \E m \in DOMAIN Table[c].methods :
                      Table[c].methods[m].name = req.name /\ Table[c].methods[m].static
                 \/ /\ Answering(cls, req.name) # {}
                    /\ req.lib \/ Answers(Get(Table[Answer(cls, req.name).owner].methods, req.name), req)
      <3>1. PICK x \in DOMAIN Owed : Owed[x] = req
        BY <2>1, <2>2, <2>3, AllOwed DEF Built
      <3>2. Satisfied(req)
        <4>1. Satisfied(Owed[x])
          BY <1>1 DEF Searched, Compiled, AfterSearch, Compiling
        <4>. QED
          BY <3>1, <4>1
      <3>3. req.cls = cls
        BY <2>1, <2>2, <2>3, AskedIsList DEF Built
      <3>. QED
        BY <2>1, <3>2, <3>3, Answered
    <2>. QED
      BY <2>2, <2>3
  <1>. QED
    BY <1>1, AlwaysTyped, AlwaysNamed, AlwaysSettled, AlwaysLaid, AlwaysSearched, PTL
=============================================================================
