------------------------- MODULE SeedRepairProofs -------------------------
(***************************************************************************)
(* Theorems about SeedRepair, for any number of messages and of ledger     *)
(* events. The ledger is replayed from its first splice, so what holds of  *)
(* every replay is shown by a least counterexample.                        *)
(***************************************************************************)
EXTENDS SeedRepair, SequenceTheorems, FiniteSetTheorems, WellFoundedInduction, TLAPS

-----------------------------------------------------------------------------
(* Sets of naturals. *)

\* Finitely many naturals have a sorted enumeration.
Enumerates(f, S) ==
  /\ f \in [1..Cardinality(S) -> S]
  /\ \A i, j \in 1..Cardinality(S) : i < j => f[i] < f[j]
  /\ \A x \in S : \E i \in 1..Cardinality(S) : f[i] = x

LEMMA Smallest ==
  ASSUME NEW S \in SUBSET Nat, S # {}
  PROVE  \E m \in S : \A x \in S : m <= x
  <1>1. \E m \in S : \A k \in S : ~(<<k, m>> \in OpToRel(<, Nat))
    BY NatLessThanWellFounded, WFMin
  <1>2. PICK m \in S : \A k \in S : ~(k < m)
    BY <1>1 DEF OpToRel
  <1> QED
    BY <1>2

LEMMA SmallestFirst ==
  ASSUME NEW S \in SUBSET Nat, IsFiniteSet(S), NEW m \in S, \A x \in S : m <= x,
         NEW g, Enumerates(g, S \ {m})
  PROVE  \E f : Enumerates(f, S)
  <1> DEFINE n == Cardinality(S)
             R == S \ {m}
             f == [i \in 1..n |-> IF i = 1 THEN m ELSE g[i - 1]]
  <1>1. n \in Nat /\ n > 0 /\ Cardinality(R) = n - 1
    <2>1. n \in Nat /\ Cardinality(R) = n - 1 /\ Cardinality(R) \in Nat
      BY FS_RemoveElement, FS_CardinalityType
    <2> QED
      BY <2>1
  <1> HIDE DEF n
  <1>2. /\ g \in [1..(n - 1) -> R]
        /\ \A i, j \in 1..(n - 1) : i < j => g[i] < g[j]
        /\ \A x \in R : \E i \in 1..(n - 1) : g[i] = x
    BY <1>1 DEF Enumerates
  <1>3. \A i \in 1..n : i # 1 => i - 1 \in 1..(n - 1)
    BY <1>1
  <1>4. f \in [1..n -> S]
    BY <1>2, <1>3
  <1>5. \A i \in 1..(n - 1) : i + 1 \in 1..n /\ f[i + 1] = g[i]
    BY <1>1
  <1>6. f[1] = m /\ 1 \in 1..n
    BY <1>1
  <1>7. \A x \in S : \E i \in 1..n : f[i] = x
    BY <1>2, <1>5, <1>6
  <1>8. \A j \in 1..n : j # 1 => f[j] = g[j - 1] /\ f[j] \in R
    BY <1>2, <1>3
  <1>9. ASSUME NEW i \in 1..n, NEW j \in 1..n, i < j PROVE f[i] < f[j]
    <2>1. CASE i = 1
      <3>1. j # 1
        BY <1>9, <2>1
      <3>2. f[j] \in R /\ f[i] = m
        BY <1>6, <1>8, <2>1, <3>1
      <3> HIDE DEF f
      <3>3. f[j] \in S /\ f[j] # m /\ m \in Nat /\ f[j] \in Nat
        BY <3>2
      <3>4. m <= f[j]
        BY <3>3
      <3> QED
        BY <3>2, <3>3, <3>4
    <2>2. CASE i # 1
      <3>1. i - 1 \in 1..(n - 1) /\ j - 1 \in 1..(n - 1) /\ j # 1 /\ i - 1 < j - 1
        BY <1>9, <1>1, <2>2
      <3> QED
        BY <1>2, <1>8, <2>2, <3>1
    <2> QED
      BY <2>1, <2>2
  <1> HIDE DEF f
  <1>10. Enumerates(f, S)
    BY <1>4, <1>7, <1>9 DEF Enumerates, n
  <1> QED
    BY <1>10

LEMMA SortedExists ==
  ASSUME NEW S \in SUBSET Nat, IsFiniteSet(S)
  PROVE  \E f : Enumerates(f, S)
  <1> DEFINE Bad == {n \in Nat : \E Q \in SUBSET Nat :
                       IsFiniteSet(Q) /\ Cardinality(Q) = n /\ ~\E f : Enumerates(f, Q)}
  <1> SUFFICES ASSUME ~\E f : Enumerates(f, S) PROVE FALSE
    OBVIOUS
  <1>1. Cardinality(S) \in Bad
    BY FS_CardinalityType
  <1>2. PICK n \in Bad : \A k \in Bad : n <= k
    BY <1>1, Smallest
  <1>3. PICK Q \in SUBSET Nat :
          IsFiniteSet(Q) /\ Cardinality(Q) = n /\ ~\E f : Enumerates(f, Q)
    BY <1>2
  <1>4. Q # {}
    <2> SUFFICES ASSUME Q = {} PROVE FALSE
      OBVIOUS
    <2>1. Cardinality(Q) = 0
      BY FS_EmptySet
    <2>2. 1..Cardinality(Q) = {}
      BY <2>1
    <2>3. Enumerates(<<>>, Q)
      BY <2>2 DEF Enumerates
    <2> QED
      BY <1>3, <2>3
  <1>5. PICK m \in Q : \A x \in Q : m <= x
    BY <1>4, Smallest
  <1>6. /\ IsFiniteSet(Q \ {m}) /\ Cardinality(Q \ {m}) = n - 1 /\ n \in Nat
        /\ Cardinality(Q \ {m}) \in Nat
    BY <1>3, <1>5, FS_RemoveElement, FS_CardinalityType
  <1>7. ~\E g : Enumerates(g, Q \ {m})
    BY <1>3, <1>5, SmallestFirst
  <1>8. n - 1 \in Bad
    BY <1>6, <1>7
  <1> HIDE DEF Bad
  <1> QED
    BY <1>2, <1>6, <1>8

-----------------------------------------------------------------------------
(* Replaying a ledger, one splice after the other.                          *)

Steps(log, n, f) ==
  f = [k \in 0..n |-> IF k = 0 THEN emptyLedger ELSE foldSplice(f[k - 1], log[k])]

LEMMA StepsAre ==
  ASSUME NEW log, NEW n \in Nat, NEW f, Steps(log, n, f)
  PROVE  f[0] = emptyLedger /\ \A k \in 1..n : f[k] = foldSplice(f[k - 1], log[k])
  <1> DEFINE e(k) == IF k = 0 THEN emptyLedger ELSE foldSplice(f[k - 1], log[k])
  <1>1. f = [k \in 0..n |-> e(k)]
    BY DEF Steps
  <1>2. \A k \in 0..n : f[k] = e(k)
    <2> HIDE DEF e
    <2> QED
      BY <1>1
  <1>3. 0 \in 0..n /\ \A k \in 1..n : k \in 0..n /\ k # 0
    OBVIOUS
  <1> QED
    BY <1>2, <1>3

LEMMA StepsExist ==
  ASSUME NEW log, NEW n \in Nat
  PROVE  \E f : Steps(log, n, f)
  <1> DEFINE Bad == {m \in Nat : ~\E f : Steps(log, m, f)}
  <1> SUFFICES ASSUME n \in Bad PROVE FALSE
    OBVIOUS
  <1>1. PICK m \in Bad : \A k \in Bad : m <= k
    BY Smallest
  <1>2. m \in Nat /\ ~\E f : Steps(log, m, f)
    BY <1>1
  <1>3. CASE m = 0
    <2> DEFINE g == [k \in 0..0 |-> emptyLedger]
    <2>1. \A k \in 0..0 : k = 0
      OBVIOUS
    <2>2. Steps(log, 0, g)
      BY <2>1 DEF Steps
    <2> QED
      BY <1>2, <1>3, <2>2
  <1>4. CASE m # 0
    <2>1. m - 1 \in Nat /\ m - 1 \notin Bad
      <3>1. m - 1 \in Nat /\ ~(m <= m - 1)
        BY <1>2, <1>4
      <3> HIDE DEF Bad
      <3> QED
        BY <1>1, <3>1
    <2>2. PICK f : Steps(log, m - 1, f)
      BY <2>1
    <2>3. f[0] = emptyLedger /\ \A k \in 1..(m - 1) : f[k] = foldSplice(f[k - 1], log[k])
      BY <2>1, <2>2, StepsAre
    <2> DEFINE g == [k \in 0..m |-> IF k = m THEN foldSplice(f[m - 1], log[m]) ELSE f[k]]
               e(k) == IF k = 0 THEN emptyLedger ELSE foldSplice(g[k - 1], log[k])
    <2>4. ASSUME NEW k \in 0..m PROVE g[k] = e(k)
      <3>1. CASE k = 0
        BY <1>2, <1>4, <2>3, <3>1
      <3>2. CASE k # 0 /\ k # m
        <4>1. k \in 1..(m - 1) /\ k - 1 \in 0..m /\ k - 1 # m
          BY <1>2, <3>2
        <4>2. g[k] = f[k] /\ g[k - 1] = f[k - 1]
          BY <3>2, <4>1
        <4> HIDE DEF g
        <4> QED
          BY <2>3, <3>2, <4>1, <4>2
      <3>3. CASE k = m
        <4>1. m - 1 \in 0..m /\ m - 1 # m /\ m \in 0..m
          BY <1>2, <2>1
        <4>2. g[m] = foldSplice(f[m - 1], log[m]) /\ g[m - 1] = f[m - 1]
          BY <4>1
        <4> HIDE DEF g
        <4> QED
          BY <1>4, <3>3, <4>2
      <3> QED
        BY <3>1, <3>2, <3>3
    <2>5. g = [k \in 0..m |-> g[k]]
      OBVIOUS
    <2>6. [k \in 0..m |-> g[k]] = [k \in 0..m |-> e(k)]
      <3> HIDE DEF g, e
      <3> QED
        BY <2>4
    <2>7. Steps(log, m, g)
      <3> HIDE DEF g
      <3> QED
        BY <2>5, <2>6 DEF Steps
    <2> QED
      BY <1>2, <2>7
  <1> QED
    BY <1>3, <1>4

LEMMA StepsAgree ==
  ASSUME NEW log, NEW more, NEW n \in Nat, NEW m \in Nat, n <= m,
         \A k \in 1..n : log[k] = more[k],
         NEW f, Steps(log, n, f), NEW g, Steps(more, m, g)
  PROVE  f[n] = g[n]
  <1> DEFINE Bad == {k \in 0..n : f[k] # g[k]}
  <1> SUFFICES ASSUME n \in Bad PROVE FALSE
    BY DEF Bad
  <1>1. Bad \in SUBSET Nat
    OBVIOUS
  <1>2. PICK k \in Bad : \A j \in Bad : k <= j
    BY <1>1, Smallest
  <1>3. k \in 0..n /\ f[k] # g[k]
    BY <1>2
  <1>4. /\ f[0] = emptyLedger /\ \A j \in 1..n : f[j] = foldSplice(f[j - 1], log[j])
        /\ g[0] = emptyLedger /\ \A j \in 1..m : g[j] = foldSplice(g[j - 1], more[j])
    BY StepsAre
  <1>5. k # 0
    BY <1>3, <1>4
  <1>6. k \in 1..n /\ k \in 1..m /\ k - 1 \in 0..n /\ ~(k <= k - 1)
    BY <1>3, <1>5
  <1>7. f[k - 1] = g[k - 1]
    <2>1. k - 1 \notin Bad
      <3> HIDE DEF Bad
      <3> QED
        BY <1>2, <1>6
    <2> QED
      BY <1>6, <2>1
  <1> HIDE DEF Bad
  <1> QED
    BY <1>3, <1>4, <1>6, <1>7

LEMMA ReplayIs ==
  ASSUME NEW log, Len(log) \in Nat, NEW f, Steps(log, Len(log), f)
  PROVE  Replay(log) = f[Len(log)]
  <1>1. PICK g : Steps(log, Len(log), g) /\ Replay(log) = g[Len(log)]
    BY DEF Replay, Steps
  <1>2. g[Len(log)] = f[Len(log)]
    BY <1>1, StepsAgree
  <1> QED
    BY <1>1, <1>2

LEMMA ReplayEmpty == Replay(<<>>) = emptyLedger
  <1>1. PICK f : Steps(<<>>, 0, f)
    BY StepsExist
  <1>2. f[0] = emptyLedger
    BY <1>1, StepsAre
  <1>3. Len(<<>>) = 0
    OBVIOUS
  <1> QED
    BY <1>1, <1>2, <1>3, ReplayIs

LEMMA ReplayAppend ==
  ASSUME NEW S, NEW log \in Seq(S), NEW e \in S
  PROVE  Replay(Append(log, e)) = foldSplice(Replay(log), e)
  <1> DEFINE n == Len(log)
             longer == Append(log, e)
  <1>1. /\ n \in Nat /\ n + 1 \in Nat /\ Len(longer) = n + 1 /\ longer[n + 1] = e
        /\ \A k \in 1..n : log[k] = longer[k]
    OBVIOUS
  <1> HIDE DEF longer
  <1>2. PICK f : Steps(log, n, f)
    BY <1>1, StepsExist
  <1>3. PICK g : Steps(longer, n + 1, g)
    BY <1>1, StepsExist
  <1>4. Replay(log) = f[n] /\ Replay(longer) = g[n + 1]
    BY <1>1, <1>2, <1>3, ReplayIs
  <1>5. n <= n + 1
    BY <1>1
  <1>6. f[n] = g[n]
    <2> HIDE DEF n
    <2> QED
      BY <1>1, <1>2, <1>3, <1>5, StepsAgree
  <1>7. g[n + 1] = foldSplice(g[(n + 1) - 1], longer[n + 1])
    BY <1>1, <1>3, StepsAre
  <1>8. (n + 1) - 1 = n
    BY <1>1
  <1> QED
    BY <1>1, <1>4, <1>6, <1>7, <1>8 DEF longer

-----------------------------------------------------------------------------
(* What one splice does to the ledger's lists.                              *)

Edited(s, start, removed, ins) ==
  SubSeq(s, 1, start) \o ins \o SubSeq(s, start + removed + 1, Len(s))

\* What r is when it is s with removed elements after start replaced by ins.
IsEdited(r, T, s, start, removed, ins) ==
  /\ r \in Seq(T) /\ Len(r) = Len(s) - removed + Len(ins)
  /\ \A j \in 1..start : r[j] = s[j]
  /\ \A j \in 1..Len(ins) : r[start + j] = ins[j]
  /\ \A j \in 1..(Len(s) - start - removed) :
       r[start + Len(ins) + j] = s[start + removed + j]

LEMMA Spliced ==
  ASSUME NEW T, NEW s \in Seq(T), NEW start \in Nat, NEW removed \in Nat,
         start + removed <= Len(s), NEW ins \in Seq(T)
  PROVE  IsEdited(Edited(s, start, removed, ins), T, s, start, removed, ins)
  <1> SUFFICES ASSUME NEW r, r = Edited(s, start, removed, ins)
               PROVE  IsEdited(r, T, s, start, removed, ins)
    BY Zenon
  <1> DEFINE a == SubSeq(s, 1, start)
             b == SubSeq(s, start + removed + 1, Len(s))
  <1>1. Len(s) \in Nat /\ Len(ins) \in Nat /\ \A j \in 1..Len(s) : s[j] \in T
    BY LenProperties
  <1>2. a \in Seq(T) /\ Len(a) = start /\ \A j \in 1..start : a[j] = s[j]
    BY <1>1, SubSeqProperties
  <1>3. /\ b \in Seq(T) /\ Len(b) = Len(s) - start - removed
        /\ \A j \in 1..(Len(s) - start - removed) : b[j] = s[start + removed + j]
    BY <1>1, SubSeqProperties
  <1> HIDE DEF a, b
  <1>4. PICK ab : ab = a \o ins /\ r = ab \o b
    BY DEF Edited, a, b
  <1>5. /\ ab \in Seq(T) /\ Len(ab) = start + Len(ins)
        /\ \A j \in 1..(start + Len(ins)) :
             ab[j] = IF j <= start THEN a[j] ELSE ins[j - start]
    BY <1>1, <1>2, <1>4, ConcatProperties
  <1>6. /\ r \in Seq(T) /\ Len(r) = start + Len(ins) + (Len(s) - start - removed)
        /\ \A j \in 1..(start + Len(ins) + (Len(s) - start - removed)) :
             r[j] = IF j <= start + Len(ins) THEN ab[j] ELSE b[j - (start + Len(ins))]
    <2>1. /\ r \in Seq(T) /\ Len(r) = Len(ab) + Len(b)
          /\ \A j \in 1..(Len(ab) + Len(b)) :
               r[j] = IF j <= Len(ab) THEN ab[j] ELSE b[j - Len(ab)]
      <3>1. /\ ab \o b \in Seq(T) /\ Len(ab \o b) = Len(ab) + Len(b)
            /\ \A j \in 1..(Len(ab) + Len(b)) :
                 (ab \o b)[j] = IF j <= Len(ab) THEN ab[j] ELSE b[j - Len(ab)]
        <4>1. ab \in Seq(T) /\ b \in Seq(T)
          BY <1>3, <1>5
        <4> QED
          BY <4>1, ConcatProperties
      <3> QED
        BY <1>4, <3>1, Zenon
    <2>2. Len(ab) = start + Len(ins) /\ Len(b) = Len(s) - start - removed
      BY <1>3, <1>5
    <2> QED
      BY <2>1, <2>2, Zenon
  <1>7. Len(r) = Len(s) - removed + Len(ins)
    BY <1>1, <1>6
  <1>8. ASSUME NEW j \in 1..start PROVE r[j] = s[j]
    <2>1. /\ j \in 1..(start + Len(ins)) /\ j <= start + Len(ins) /\ j <= start
          /\ j \in 1..(start + Len(ins) + (Len(s) - start - removed))
      BY <1>1
    <2> QED
      BY <1>2, <1>5, <1>6, <2>1
  <1>9. ASSUME NEW j \in 1..Len(ins) PROVE r[start + j] = ins[j]
    <2>1. /\ start + j \in 1..(start + Len(ins)) /\ start + j <= start + Len(ins)
          /\ ~(start + j <= start) /\ (start + j) - start = j
          /\ start + j \in 1..(start + Len(ins) + (Len(s) - start - removed))
      BY <1>1
    <2> QED
      BY <1>5, <1>6, <2>1
  <1>10. ASSUME NEW j \in 1..(Len(s) - start - removed)
         PROVE  r[start + Len(ins) + j] = s[start + removed + j]
    <2>1. /\ ~(start + Len(ins) + j <= start + Len(ins))
          /\ (start + Len(ins) + j) - (start + Len(ins)) = j
          /\ start + Len(ins) + j \in 1..(start + Len(ins) + (Len(s) - start - removed))
      BY <1>1
    <2> QED
      BY <1>3, <1>6, <2>1
  <1> QED
    BY <1>6, <1>7, <1>8, <1>9, <1>10 DEF IsEdited

\* The lists hold minted messages, each at one place.
Sane(state, n) ==
  /\ state \in [Lists -> Seq(1..n)]
  /\ \A l1, l2 \in Lists : \A i \in DOMAIN state[l1], j \in DOMAIN state[l2] :
       state[l1][i] = state[l2][j] => l1 = l2 /\ i = j

Held(state) == UNION {ToSet(state[list]) : list \in Lists}

LEMMA HeldIs ==
  ASSUME NEW state, NEW x
  PROVE  x \in Held(state) <=> \E l \in Lists : \E i \in DOMAIN state[l] : x = state[l][i]
  BY DEF Held, ToSet

\* What the lists t are when a range of list l of state is taken out.
IsTaken(t, state, l, start, removed) ==
  /\ \A other \in Lists \ {l} : t[other] = state[other]
  /\ Len(t[l]) = Len(state[l]) - removed
  /\ \A j \in 1..start : t[l][j] = state[l][j]
  /\ \A x : x \in Held(t) <=>
       /\ x \in Held(state)
       /\ \A j \in (start + 1)..(start + removed) : x # state[l][j]

LEMMA TakenOut ==
  ASSUME NEW n \in Nat, NEW state, Sane(state, n), NEW l \in Lists,
         NEW start \in Nat, NEW removed \in Nat, start + removed <= Len(state[l]),
         NEW t, t = foldSplice(state, Splice(l, start, removed, <<>>))
  PROVE  Sane(t, n) /\ IsTaken(t, state, l, start, removed)
  <1> DEFINE r == Edited(state[l], start, removed, <<>>)
             m == Len(state[l])
  <1>1. state \in [Lists -> Seq(1..n)] /\ state[l] \in Seq(1..n) /\ m \in Nat
    BY DEF Sane
  <1>2. t = [state EXCEPT ![l] = r]
    BY DEF foldSplice, Splice, Edited
  <1>3. /\ r \in Seq(1..n) /\ Len(r) = m - removed
        /\ \A j \in 1..start : r[j] = state[l][j]
        /\ \A j \in 1..(m - start - removed) : r[start + j] = state[l][start + removed + j]
    <2>1. PICK empty \in Seq(1..n) : empty = <<>> /\ Len(empty) = 0
      <3>1. <<>> \in Seq(1..n) /\ Len(<<>>) = 0
        OBVIOUS
      <3> QED
        BY <3>1, Zenon
    <2>2. PICK q \in Seq(1..n) : q = state[l]
      BY <1>1
    <2>3. r = Edited(q, start, removed, empty)
      BY <2>1, <2>2
    <2>4. start + removed <= Len(q)
      BY <2>2
    <2> HIDE DEF r
    <2>5. /\ r \in Seq(1..n) /\ Len(r) = Len(q) - removed + Len(empty)
          /\ \A j \in 1..start : r[j] = q[j]
          /\ \A j \in 1..(Len(q) - start - removed) :
               r[start + Len(empty) + j] = q[start + removed + j]
      <3>1. IsEdited(r, 1..n, q, start, removed, empty)
        BY <2>3, <2>4, Spliced
      <3> QED
        BY <3>1 DEF IsEdited
    <2>6. Len(r) = m - removed
      BY <1>1, <2>1, <2>2, <2>5
    <2>7. ASSUME NEW j \in 1..(m - start - removed)
          PROVE  r[start + j] = state[l][start + removed + j]
      <3>1. start + Len(empty) + j = start + j
        BY <1>1, <2>1
      <3> QED
        BY <2>2, <2>5, <3>1
    <2> QED
      BY <2>2, <2>5, <2>6, <2>7
  <1> HIDE DEF r, m
  <1>4. t[l] = r /\ \A other \in Lists \ {l} : t[other] = state[other]
    BY <1>1, <1>2
  <1>5. t \in [Lists -> Seq(1..n)]
    BY <1>1, <1>2, <1>3
  <1>6. m = Len(state[l]) /\ start + removed <= m
    BY DEF m
  \* Where an element of the shortened list was.
  <1> DEFINE was(j) == IF j <= start THEN j ELSE j + removed
  <1>7. /\ DOMAIN t[l] = 1..(m - removed) /\ DOMAIN state[l] = 1..m
        /\ \A other \in Lists \ {l} : DOMAIN t[other] = DOMAIN state[other]
    BY <1>1, <1>3, <1>4, <1>6
  <1>8. \A j \in 1..(m - removed) :
          /\ was(j) \in 1..m /\ t[l][j] = state[l][was(j)]
          /\ ~(was(j) \in (start + 1)..(start + removed))
    <2> SUFFICES ASSUME NEW j \in 1..(m - removed)
                 PROVE  /\ was(j) \in 1..m /\ t[l][j] = state[l][was(j)]
                        /\ ~(was(j) \in (start + 1)..(start + removed))
      OBVIOUS
    <2>1. CASE j <= start
      BY <1>1, <1>3, <1>4, <1>6, <2>1
    <2>2. CASE ~(j <= start)
      <3>1. j - start \in 1..(m - start - removed) /\ start + (j - start) = j
            /\ start + removed + (j - start) = j + removed
        BY <1>1, <1>6, <2>2
      <3>2. r[start + (j - start)] = state[l][start + removed + (j - start)]
        BY <1>3, <3>1
      <3>3. r[j] = state[l][j + removed]
        BY <3>1, <3>2
      <3> QED
        BY <1>1, <1>4, <1>6, <2>2, <3>3
    <2> QED
      BY <2>1, <2>2
  <1>9. \A i, j \in 1..(m - removed) : was(i) = was(j) => i = j
    BY <1>1, <1>6
  <1>10. \A k \in 1..m : k \notin (start + 1)..(start + removed) =>
           \E j \in 1..(m - removed) : was(j) = k
    <2> SUFFICES ASSUME NEW k \in 1..m, k \notin (start + 1)..(start + removed)
                 PROVE  \E j \in 1..(m - removed) : was(j) = k
      OBVIOUS
    <2>1. CASE k <= start
      <3>1. k \in 1..(m - removed) /\ was(k) = k
        BY <1>1, <1>6, <2>1
      <3> QED
        BY <3>1
    <2>2. CASE ~(k <= start)
      <3>1. k - removed \in 1..(m - removed) /\ was(k - removed) = k
        BY <1>1, <1>6, <2>2
      <3> QED
        BY <3>1
    <2> QED
      BY <2>1, <2>2
  <1> HIDE DEF was
  <1>11. \A l1, l2 \in Lists : \A i \in DOMAIN state[l1], j \in DOMAIN state[l2] :
           state[l1][i] = state[l2][j] => l1 = l2 /\ i = j
    BY DEF Sane
  <1>12. ASSUME NEW l1 \in Lists, NEW l2 \in Lists, NEW i \in DOMAIN t[l1],
                NEW j \in DOMAIN t[l2], t[l1][i] = t[l2][j]
         PROVE  l1 = l2 /\ i = j
    <2>1. CASE l1 = l /\ l2 = l
      <3>1. i \in 1..(m - removed) /\ j \in 1..(m - removed)
        BY <1>7, <1>12, <2>1
      <3>2. /\ was(i) \in DOMAIN state[l] /\ was(j) \in DOMAIN state[l]
            /\ state[l][was(i)] = state[l][was(j)]
        BY <1>7, <1>8, <1>12, <2>1, <3>1
      <3>3. was(i) = was(j)
        BY <1>11, <3>2
      <3> QED
        BY <1>9, <2>1, <3>1, <3>3
    <2>2. CASE l1 = l /\ l2 # l
      <3>1. /\ was(i) \in DOMAIN state[l] /\ j \in DOMAIN state[l2]
            /\ state[l][was(i)] = state[l2][j]
        BY <1>4, <1>7, <1>8, <1>12, <2>2
      <3> QED
        BY <1>11, <2>2, <3>1
    <2>3. CASE l1 # l /\ l2 = l
      <3>1. /\ i \in DOMAIN state[l1] /\ was(j) \in DOMAIN state[l]
            /\ state[l1][i] = state[l][was(j)]
        BY <1>4, <1>7, <1>8, <1>12, <2>3
      <3> QED
        BY <1>11, <2>3, <3>1
    <2>4. CASE l1 # l /\ l2 # l
      BY <1>4, <1>7, <1>11, <1>12, <2>4
    <2> QED
      BY <2>1, <2>2, <2>3, <2>4
  <1>13. Sane(t, n)
    BY <1>5, <1>12 DEF Sane
  <1>14. ASSUME NEW x
         PROVE  x \in Held(t) <=> /\ x \in Held(state)
                                  /\ \A j \in (start + 1)..(start + removed) : x # state[l][j]
    <2>1. ASSUME x \in Held(t)
          PROVE  /\ x \in Held(state)
                 /\ \A j \in (start + 1)..(start + removed) : x # state[l][j]
      <3>0. PICK l1 \in Lists : \E i \in DOMAIN t[l1] : x = t[l1][i]
        BY <2>1, HeldIs
      <3>1. PICK i \in DOMAIN t[l1] : x = t[l1][i]
        BY <3>0
      <3>2. \A j \in (start + 1)..(start + removed) : j \in DOMAIN state[l]
        BY <1>1, <1>6, <1>7
      <3>3. CASE l1 = l
        <4>1. was(i) \in DOMAIN state[l] /\ x = state[l][was(i)]
              /\ ~(was(i) \in (start + 1)..(start + removed))
          BY <1>7, <1>8, <3>1, <3>3
        <4>2. x \in Held(state)
          BY <4>1, HeldIs
        <4> QED
          BY <1>11, <3>2, <4>1, <4>2
      <3>4. CASE l1 # l
        <4>1. i \in DOMAIN state[l1] /\ x = state[l1][i]
          BY <1>4, <1>7, <3>1, <3>4
        <4>2. x \in Held(state)
          BY <4>1, HeldIs
        <4> QED
          BY <1>11, <3>2, <3>4, <4>1, <4>2
      <3> QED
        BY <3>3, <3>4
    <2>2. ASSUME x \in Held(state),
                 \A j \in (start + 1)..(start + removed) : x # state[l][j]
          PROVE  x \in Held(t)
      <3>0. PICK l1 \in Lists : \E i \in DOMAIN state[l1] : x = state[l1][i]
        BY <2>2, HeldIs
      <3>1. PICK i \in DOMAIN state[l1] : x = state[l1][i]
        BY <3>0
      <3>2. CASE l1 = l
        <4>1. i \in 1..m /\ i \notin (start + 1)..(start + removed)
          BY <1>7, <2>2, <3>1, <3>2
        <4>2. PICK j \in 1..(m - removed) : was(j) = i
          BY <1>10, <4>1
        <4> QED
          BY <1>7, <1>8, <3>1, <3>2, <4>2, HeldIs
      <3>3. CASE l1 # l
        BY <1>4, <3>1, <3>3, HeldIs
      <3> QED
        BY <3>2, <3>3
    <2> QED
      BY <2>1, <2>2
  <1> QED
    BY <1>3, <1>4, <1>6, <1>13, <1>14 DEF IsTaken

\* What they are when message x is put at the end of list l.
IsPut(t, state, l, x) ==
  /\ \A other \in Lists \ {l} : t[other] = state[other]
  /\ Len(t[l]) = Len(state[l]) + 1
  /\ \A j \in 1..Len(state[l]) : t[l][j] = state[l][j]
  /\ \A y : y \in Held(t) <=> y \in Held(state) \/ y = x

LEMMA PutLast ==
  ASSUME NEW n \in Nat, NEW state, Sane(state, n), NEW l \in Lists,
         NEW t, t = foldSplice(state, Splice(l, Len(state[l]), 0, <<n + 1>>))
  PROVE  Sane(t, n + 1) /\ IsPut(t, state, l, n + 1)
  <1> DEFINE s == state[l]
             m == Len(state[l])
             r == Edited(s, m, 0, <<n + 1>>)
  <1>1. /\ state \in [Lists -> Seq(1..n)] /\ s \in Seq(1..n) /\ m \in Nat
        /\ \A k \in Lists : state[k] \in Seq(1..(n + 1)) /\ state[k] \in Seq(1..n)
    BY DEF Sane
  <1>2. t = [state EXCEPT ![l] = r]
    BY DEF foldSplice, Splice, Edited
  <1>3. /\ r \in Seq(1..(n + 1)) /\ Len(r) = m + 1
        /\ \A j \in 1..m : r[j] = s[j]
        /\ r[m + 1] = n + 1
    <2>1. PICK one \in Seq(1..(n + 1)) : one = <<n + 1>> /\ Len(one) = 1 /\ one[1] = n + 1
      <3>1. /\ <<n + 1>> \in Seq(1..(n + 1)) /\ Len(<<n + 1>>) = 1
            /\ <<n + 1>>[1] = n + 1
        OBVIOUS
      <3> QED
        BY <3>1, Zenon
    <2>2. PICK q \in Seq(1..(n + 1)) : q = s
      BY <1>1
    <2>3. r = Edited(q, m, 0, one)
      BY <2>1, <2>2
    <2>4. m + 0 <= Len(q) /\ 0 \in Nat /\ m \in Nat /\ m = Len(q)
      BY <1>1, <2>2
    <2>5. n + 1 \in Nat
      OBVIOUS
    <2> HIDE DEF r, m, s
    <2>6. /\ r \in Seq(1..(n + 1)) /\ Len(r) = Len(q) - 0 + Len(one)
          /\ \A j \in 1..m : r[j] = q[j]
          /\ \A j \in 1..Len(one) : r[m + j] = one[j]
      <3>1. IsEdited(r, 1..(n + 1), q, m, 0, one)
        BY <2>3, <2>4, Spliced
      <3> QED
        BY <3>1 DEF IsEdited
    <2>7. Len(r) = m + 1 /\ r[m + 1] = n + 1
      BY <2>1, <2>4, <2>6
    <2> QED
      BY <2>2, <2>6, <2>7
  <1> HIDE DEF r
  <1>4. t[l] = r /\ \A other \in Lists \ {l} : t[other] = state[other]
    BY <1>1, <1>2
  <1>5. t \in [Lists -> Seq(1..(n + 1))]
    BY <1>1, <1>2, <1>3
  <1>6. /\ DOMAIN t[l] = 1..(m + 1) /\ DOMAIN s = 1..m
        /\ \A j \in DOMAIN t[l] : (j \in DOMAIN s /\ t[l][j] = s[j]) \/ (j = m + 1 /\ t[l][j] = n + 1)
        /\ \A other \in Lists \ {l} : DOMAIN t[other] = DOMAIN state[other]
    <2>1. DOMAIN s = 1..m /\ DOMAIN t[l] = 1..(m + 1)
      BY <1>1, <1>3, <1>4
    <2>2. \A j \in 1..(m + 1) : j \in 1..m \/ j = m + 1
      BY <1>1
    <2> HIDE DEF s, m
    <2> QED
      BY <1>3, <1>4, <2>1, <2>2
  <1>7. \A k \in Lists : \A i \in DOMAIN state[k] : state[k][i] # n + 1
    <2> SUFFICES ASSUME NEW k \in Lists, NEW i \in DOMAIN state[k]
                 PROVE  state[k][i] # n + 1
      OBVIOUS
    <2>1. state[k][i] \in 1..n
      BY <1>1
    <2> QED
      BY <2>1
  <1>8. \A l1, l2 \in Lists : \A i \in DOMAIN state[l1], j \in DOMAIN state[l2] :
           state[l1][i] = state[l2][j] => l1 = l2 /\ i = j
    BY DEF Sane
  <1>9. ASSUME NEW l1 \in Lists, NEW l2 \in Lists, NEW i \in DOMAIN t[l1],
                NEW j \in DOMAIN t[l2], t[l1][i] = t[l2][j]
         PROVE  l1 = l2 /\ i = j
    <2>1. CASE l1 = l /\ l2 = l
      BY <1>6, <1>7, <1>8, <1>9, <2>1
    <2>2. CASE l1 = l /\ l2 # l
      BY <1>4, <1>6, <1>7, <1>8, <1>9, <2>2
    <2>3. CASE l1 # l /\ l2 = l
      BY <1>4, <1>6, <1>7, <1>8, <1>9, <2>3
    <2>4. CASE l1 # l /\ l2 # l
      BY <1>4, <1>6, <1>8, <1>9, <2>4
    <2> QED
      BY <2>1, <2>2, <2>3, <2>4
  <1>10. Sane(t, n + 1)
    BY <1>5, <1>9 DEF Sane
  <1>11. ASSUME NEW x PROVE x \in Held(t) <=> x \in Held(state) \/ x = n + 1
    <2>1. ASSUME x \in Held(t) PROVE x \in Held(state) \/ x = n + 1
      <3>0. PICK l1 \in Lists : \E i \in DOMAIN t[l1] : x = t[l1][i]
        BY <2>1, HeldIs
      <3>1. PICK i \in DOMAIN t[l1] : x = t[l1][i]
        BY <3>0
      <3> QED
        BY <1>4, <1>6, <3>1, HeldIs
    <2>2. ASSUME x \in Held(state) PROVE x \in Held(t)
      <3>0. PICK l1 \in Lists : \E i \in DOMAIN state[l1] : x = state[l1][i]
        BY <2>2, HeldIs
      <3>1. PICK i \in DOMAIN state[l1] : x = state[l1][i]
        BY <3>0
      <3>2. CASE l1 = l
        <4>1. i \in DOMAIN t[l] /\ t[l][i] = s[i]
          BY <1>1, <1>3, <1>4, <1>6, <3>1, <3>2
        <4> QED
          BY <3>1, <3>2, <4>1, HeldIs
      <3>3. CASE l1 # l
        BY <1>4, <3>1, <3>3, HeldIs
      <3> QED
        BY <3>2, <3>3
    <2>3. n + 1 \in Held(t)
      <3>1. m + 1 \in DOMAIN t[l] /\ t[l][m + 1] = n + 1
        BY <1>1, <1>3, <1>4, <1>6
      <3> QED
        BY <3>1, HeldIs
    <2> QED
      BY <2>1, <2>2, <2>3
  <1> QED
    BY <1>3, <1>4, <1>10, <1>11 DEF IsPut

-----------------------------------------------------------------------------
(* Ledgers a replay accepts, event after event.                             *)

Sound(log, n) ==
  /\ log \in Seq(Splices)
  /\ \A k \in 0..Len(log) : Sane(Replay(SubSeq(log, 1, k)), n)
  /\ \A k \in 1..Len(log) : Accepts(Replay(SubSeq(log, 1, k - 1)), log[k])

LEMMA SoundEmpty ==
  ASSUME NEW n \in Nat
  PROVE  Sound(<<>>, n)
  <1>1. emptyLedger \in [Lists -> Seq(1..n)] /\ \A l \in Lists : emptyLedger[l] = <<>>
    BY DEF emptyLedger
  <1>2. DOMAIN <<>> = {} /\ Len(<<>>) = 0
    OBVIOUS
  <1>3. Sane(emptyLedger, n)
    BY <1>1, <1>2 DEF Sane
  <1>4. SubSeq(<<>>, 1, 0) = <<>> /\ <<>> \in Seq(Splices)
    OBVIOUS
  <1>5. 0..0 = {0} /\ 1..0 = {}
    OBVIOUS
  <1> QED
    BY <1>2, <1>3, <1>4, <1>5, ReplayEmpty DEF Sound

LEMMA SaneMore ==
  ASSUME NEW n \in Nat, NEW m \in Nat, n <= m, NEW state, Sane(state, n)
  PROVE  Sane(state, m)
  <1>1. \A q : q \in Seq(1..n) => q \in Seq(1..m)
    <2>1. 1..n \subseteq 1..m
      OBVIOUS
    <2> QED
      BY <2>1
  <1> QED
    BY <1>1 DEF Sane

LEMMA SoundMore ==
  ASSUME NEW n \in Nat, NEW m \in Nat, n <= m, NEW log, Sound(log, n)
  PROVE  Sound(log, m)
  BY SaneMore DEF Sound

LEMMA SoundPrefix ==
  ASSUME NEW n \in Nat, NEW log, Sound(log, n), NEW cut \in 0..Len(log)
  PROVE  /\ Sound(SubSeq(log, 1, cut), n) /\ Len(SubSeq(log, 1, cut)) = cut
         /\ SubSeq(SubSeq(log, 1, cut), 1, cut) = SubSeq(log, 1, cut)
  <1> DEFINE short == SubSeq(log, 1, cut)
  <1>1. log \in Seq(Splices) /\ Len(log) \in Nat
    BY DEF Sound
  <1>2. /\ short \in Seq(Splices) /\ Len(short) = cut
        /\ \A i \in 1..cut : short[i] = log[i]
    BY <1>1, SubSeqProperties
  <1>3. \A k \in 0..cut : SubSeq(short, 1, k) = SubSeq(log, 1, k)
    <2> SUFFICES ASSUME NEW k \in 0..cut PROVE SubSeq(short, 1, k) = SubSeq(log, 1, k)
      OBVIOUS
    <2>1. SubSeq(short, 1, k) \in Seq(Splices) /\ SubSeq(log, 1, k) \in Seq(Splices)
          /\ Len(SubSeq(short, 1, k)) = k /\ Len(SubSeq(log, 1, k)) = k
          /\ \A i \in 1..k : SubSeq(short, 1, k)[i] = SubSeq(log, 1, k)[i]
      BY <1>1, <1>2, SubSeqProperties
    <2> QED
      BY <2>1, SeqEqual
  <1> HIDE DEF short
  <1>4. \A k \in 0..cut : k \in 0..Len(log)
    BY <1>1
  <1>5. \A k \in 1..cut : k - 1 \in 0..cut /\ k \in 1..Len(log)
    BY <1>1
  <1>6. Sound(short, n)
    BY <1>2, <1>3, <1>4, <1>5 DEF Sound
  <1>7. SubSeq(short, 1, cut) = short
    BY <1>3 DEF short
  <1> QED
    BY <1>2, <1>6, <1>7 DEF short

LEMMA SoundNow ==
  ASSUME NEW n \in Nat, NEW log, Sound(log, n)
  PROVE  Sane(Replay(log), n)
  <1>1. log \in Seq(Splices) /\ Len(log) \in 0..Len(log)
    BY DEF Sound
  <1>2. SubSeq(log, 1, Len(log)) = log
    BY <1>1, SubSeqFull
  <1> QED
    BY <1>1, <1>2 DEF Sound

LEMMA SoundAppend ==
  ASSUME NEW n \in Nat, NEW log, Sound(log, n), NEW e \in Splices,
         Accepts(Replay(log), e), Sane(foldSplice(Replay(log), e), n)
  PROVE  /\ Sound(Append(log, e), n) /\ Replay(Append(log, e)) = foldSplice(Replay(log), e)
         /\ Len(Append(log, e)) = Len(log) + 1
         /\ \A k \in 0..Len(log) : SubSeq(Append(log, e), 1, k) = SubSeq(log, 1, k)
  <1> DEFINE longer == Append(log, e)
             m == Len(log)
  <1>1. log \in Seq(Splices) /\ m \in Nat
    BY DEF Sound
  <1>2. /\ longer \in Seq(Splices) /\ Len(longer) = m + 1 /\ longer[m + 1] = e
        /\ \A k \in 1..m : longer[k] = log[k]
    BY <1>1
  <1>3. Replay(longer) = foldSplice(Replay(log), e)
    BY <1>1, ReplayAppend
  <1>4. \A k \in 0..m : SubSeq(longer, 1, k) = SubSeq(log, 1, k)
    <2> SUFFICES ASSUME NEW k \in 0..m PROVE SubSeq(longer, 1, k) = SubSeq(log, 1, k)
      OBVIOUS
    <2> HIDE DEF longer
    <2>1. SubSeq(longer, 1, k) \in Seq(Splices) /\ SubSeq(log, 1, k) \in Seq(Splices)
          /\ Len(SubSeq(longer, 1, k)) = k /\ Len(SubSeq(log, 1, k)) = k
          /\ \A i \in 1..k : SubSeq(longer, 1, k)[i] = SubSeq(log, 1, k)[i]
      BY <1>1, <1>2, SubSeqProperties
    <2> QED
      BY <2>1, SeqEqual
  <1>5. SubSeq(longer, 1, m + 1) = longer /\ SubSeq(log, 1, m) = log
    BY <1>1, <1>2, SubSeqFull
  <1>6. \A k \in 0..(m + 1) : k \in 0..m \/ k = m + 1
    BY <1>1
  <1>7. \A k \in 1..(m + 1) : (k \in 1..m /\ k - 1 \in 0..m) \/ (k = m + 1 /\ k - 1 = m)
    BY <1>1
  <1>8. m \in 0..m
    BY <1>1
  <1> HIDE DEF longer, m
  <1>9. \A k \in 0..m : Sane(Replay(SubSeq(log, 1, k)), n)
    BY DEF Sound, m
  <1>10. \A k \in 1..m : Accepts(Replay(SubSeq(log, 1, k - 1)), log[k])
    BY DEF Sound, m
  <1>11. \A k \in 0..(m + 1) : Sane(Replay(SubSeq(longer, 1, k)), n)
    BY <1>3, <1>4, <1>5, <1>6, <1>9
  <1>12. ASSUME NEW k \in 1..(m + 1) PROVE Accepts(Replay(SubSeq(longer, 1, k - 1)), longer[k])
    <2>1. CASE k \in 1..m /\ k - 1 \in 0..m
      BY <1>2, <1>4, <1>10, <2>1
    <2>2. CASE k = m + 1 /\ k - 1 = m
      BY <1>2, <1>4, <1>5, <1>8, <2>2
    <2> QED
      BY <1>7, <2>1, <2>2
  <1>13. Sound(longer, n)
    BY <1>2, <1>11, <1>12 DEF Sound
  <1> QED
    BY <1>2, <1>3, <1>4, <1>13 DEF longer, m

\* longer is log with one more splice, which takes a range out of list l.
Shortens(longer, log, n, l, start, removed) ==
  /\ Sound(longer, n) /\ Len(longer) = Len(log) + 1
  /\ \A k \in 0..Len(log) : SubSeq(longer, 1, k) = SubSeq(log, 1, k)
  /\ IsTaken(Replay(longer), Replay(log), l, start, removed)

LEMMA SoundTake ==
  ASSUME NEW n \in Nat, NEW log, Sound(log, n), NEW l \in Lists,
         NEW start \in Nat, NEW removed \in Nat, start + removed <= Len(Replay(log)[l]),
         NEW longer, longer = Append(log, Splice(l, start, removed, <<>>))
  PROVE  Shortens(longer, log, n, l, start, removed)
  <1> DEFINE e == Splice(l, start, removed, <<>>)
  <1>1. Sane(Replay(log), n)
    BY SoundNow
  <1>2. e \in Splices /\ Accepts(Replay(log), e)
    <2>1. <<>> \in Seq(Messages)
      OBVIOUS
    <2> QED
      BY <2>1 DEF Splice, Splices, Accepts
  <1>3. PICK t : t = foldSplice(Replay(log), e)
    OBVIOUS
  <1>4. Sane(t, n) /\ IsTaken(t, Replay(log), l, start, removed)
    BY <1>1, <1>3, TakenOut
  <1> HIDE DEF e
  <1>5. /\ Sound(longer, n) /\ Replay(longer) = t /\ Len(longer) = Len(log) + 1
        /\ \A k \in 0..Len(log) : SubSeq(longer, 1, k) = SubSeq(log, 1, k)
    BY <1>2, <1>3, <1>4, SoundAppend DEF e
  <1> QED
    BY <1>4, <1>5 DEF Shortens

\* longer is log with one more splice, which delivers message n.
Lengthens(longer, log, n) ==
  /\ Sound(longer, n) /\ Len(longer) = Len(log) + 1
  /\ \A k \in 0..Len(log) : SubSeq(longer, 1, k) = SubSeq(log, 1, k)
  /\ \A l \in Lists : /\ Len(Replay(log)[l]) <= Len(Replay(longer)[l])
                      /\ \A j \in 1..Len(Replay(log)[l]) :
                           Replay(longer)[l][j] = Replay(log)[l][j]
  /\ \A x : x \in Pending(longer) <=> x \in Pending(log) \/ x = n

LEMMA SoundPut ==
  ASSUME RepairAssumption, NEW n \in Nat, n < MaxMessages, NEW log, Sound(log, n),
         NEW l \in Lists,
         NEW longer, longer = Append(log, Splice(l, Len(Replay(log)[l]), 0, <<n + 1>>))
  PROVE  Lengthens(longer, log, n + 1)
  <1> DEFINE e == Splice(l, Len(Replay(log)[l]), 0, <<n + 1>>)
  <1>1. Sane(Replay(log), n)
    BY SoundNow
  <1>2. \A k \in Lists : Len(Replay(log)[k]) \in Nat
    BY <1>1 DEF Sane
  <1>3. e \in Splices /\ Accepts(Replay(log), e)
    <2>1. n + 1 \in Messages
      BY DEF Messages, RepairAssumption
    <2>2. <<n + 1>> \in Seq(Messages)
      BY <2>1
    <2> QED
      BY <1>2, <2>2 DEF Splice, Splices, Accepts
  <1>4. PICK t : t = foldSplice(Replay(log), e)
    OBVIOUS
  <1>5. /\ Sane(t, n + 1) /\ \A other \in Lists \ {l} : t[other] = Replay(log)[other]
        /\ Len(t[l]) = Len(Replay(log)[l]) + 1
        /\ \A j \in 1..Len(Replay(log)[l]) : t[l][j] = Replay(log)[l][j]
        /\ \A x : x \in Held(t) <=> x \in Held(Replay(log)) \/ x = n + 1
    <2>1. Sane(t, n + 1) /\ IsPut(t, Replay(log), l, n + 1)
      BY <1>1, <1>4, PutLast
    <2> QED
      BY <2>1 DEF IsPut
  <1> HIDE DEF e
  <1>6. Sound(log, n + 1) /\ n + 1 \in Nat
    <2>1. n + 1 \in Nat /\ n <= n + 1
      OBVIOUS
    <2> QED
      BY <2>1, SoundMore
  <1>7. /\ Sound(longer, n + 1) /\ Replay(longer) = t /\ Len(longer) = Len(log) + 1
        /\ \A k \in 0..Len(log) : SubSeq(longer, 1, k) = SubSeq(log, 1, k)
    BY <1>3, <1>4, <1>5, <1>6, SoundAppend DEF e
  <1>8. Pending(longer) = Held(t) /\ Pending(log) = Held(Replay(log))
    BY <1>7 DEF Pending, Held
  <1>9. \A k \in Lists : /\ Len(Replay(log)[k]) <= Len(t[k])
                        /\ \A j \in 1..Len(Replay(log)[k]) : t[k][j] = Replay(log)[k][j]
    <2> SUFFICES ASSUME NEW k \in Lists
                 PROVE  /\ Len(Replay(log)[k]) <= Len(t[k])
                        /\ \A j \in 1..Len(Replay(log)[k]) : t[k][j] = Replay(log)[k][j]
      OBVIOUS
    <2>1. CASE k = l
      BY <1>2, <1>5, <2>1
    <2>2. CASE k # l
      BY <1>2, <1>5, <2>2
    <2> QED
      BY <2>1, <2>2
  <1> QED
    BY <1>5, <1>7, <1>8, <1>9 DEF Lengthens

-----------------------------------------------------------------------------
(* A list's removals, from the back.                                        *)

LEMMA DescendingIs ==
  ASSUME NEW S \in SUBSET Nat, IsFiniteSet(S), NEW d, d = Descending(S)
  PROVE  /\ d \in Seq(S) /\ \A i, j \in DOMAIN d : i < j => d[i] > d[j]
         /\ \A x \in S : \E i \in DOMAIN d : d[i] = x
  <1> DEFINE n == Cardinality(S)
  <1>1. PICK f : Enumerates(f, S)
    BY SortedExists
  <1>2. n \in Nat
    BY FS_CardinalityType
  <1>3. /\ f \in [1..n -> S] /\ \A i \in 1..n : f[i] \in Nat
        /\ \A i, j \in 1..n : i < j => f[i] < f[j]
    BY <1>1 DEF Enumerates
  <1> HIDE DEF n
  <1> DEFINE g == [i \in 1..n |-> f[n + 1 - i]]
  <1>4. \A i \in 1..n : n + 1 - i \in 1..n
    BY <1>2
  <1>5. g \in [1..n -> S]
    BY <1>3, <1>4
  <1>6. ASSUME NEW i \in 1..n, NEW j \in 1..n, i < j PROVE g[i] > g[j] /\ g[i] # g[j]
    <2>1. n + 1 - i \in 1..n /\ n + 1 - j \in 1..n /\ n + 1 - j < n + 1 - i
      BY <1>2, <1>6
    <2>2. /\ f[n + 1 - j] < f[n + 1 - i]
          /\ f[n + 1 - j] \in Nat /\ f[n + 1 - i] \in Nat
      BY <1>3, <2>1
    <2>3. g[i] = f[n + 1 - i] /\ g[j] = f[n + 1 - j]
      OBVIOUS
    <2> QED
      BY <2>2, <2>3
  <1>7. \A i, j \in 1..n : i # j => g[i] # g[j]
    <2> SUFFICES ASSUME NEW i \in 1..n, NEW j \in 1..n, i # j PROVE g[i] # g[j]
      OBVIOUS
    <2>1. i < j \/ j < i
      BY <1>2
    <2> HIDE DEF g
    <2> QED
      BY <1>6, <2>1
  <1> HIDE DEF g
  <1>8. g \in SetToSeqs(S) /\ \A i, j \in DOMAIN g : i < j => g[i] > g[j]
    BY <1>5, <1>6, <1>7 DEF SetToSeqs, n
  <1>9. d \in SetToSeqs(S) /\ \A i, j \in DOMAIN d : i < j => d[i] > d[j]
    BY <1>8 DEF Descending
  <1>10. d \in [1..n -> S] /\ \A i, j \in 1..n : i # j => d[i] # d[j]
    BY <1>9 DEF SetToSeqs, n
  <1>11. d \in Seq(S)
    BY <1>2, <1>10
  <1>12. d \in Injection(1..n, S)
    BY <1>10 DEF Injection, IsInjective
  <1>13. IsFiniteSet(1..n) /\ Cardinality(1..n) = n
    BY <1>2, FS_Interval
  <1>14. d \in Surjection(1..n, S)
    BY <1>12, <1>13, FS_Injection DEF n
  <1>15. \A x \in S : \E i \in 1..n : d[i] = x
    BY <1>14 DEF Surjection
  <1> QED
    BY <1>9, <1>10, <1>11, <1>15

CutsAt(l, d) == [k \in DOMAIN d |-> Removal(l, d[k])]

\* How the lists stand after the first k removals of list l at the places d.
Cleared(before, after, l, d, k) ==
  LET kept == IF k = 0 THEN Len(Replay(before)[l]) ELSE d[k] IN
  /\ Len(after) = Len(before) + k
  /\ \A other \in Lists \ {l} : Replay(after)[other] = Replay(before)[other]
  /\ kept <= Len(Replay(after)[l])
  /\ \A j \in 1..kept : Replay(after)[l][j] = Replay(before)[l][j]
  /\ \A x : x \in Pending(after) <=>
       /\ x \in Pending(before)
       /\ \A i \in 1..k : x # Replay(before)[l][d[i] + 1]

LEMMA ClearedOne ==
  ASSUME NEW n \in Nat, NEW before, Sound(before, n), NEW l \in Lists, NEW d \in Seq(Nat),
         \A i, j \in 1..Len(d) : i < j => d[i] > d[j],
         \A i \in 1..Len(d) : d[i] < Len(Replay(before)[l]),
         NEW k \in 0..(Len(d) - 1), NEW after, Sound(after, n), Cleared(before, after, l, d, k),
         NEW next, next = Append(after, Removal(l, d[k + 1]))
  PROVE  Sound(next, n) /\ Cleared(before, next, l, d, k + 1)
  <1> DEFINE kept == IF k = 0 THEN Len(Replay(before)[l]) ELSE d[k]
             place == d[k + 1]
  <1>1. /\ k \in Nat /\ k + 1 \in Nat /\ k + 1 # 0 /\ k + 1 \in 1..Len(d)
        /\ place \in Nat /\ (k # 0 => k \in 1..Len(d) /\ k < k + 1)
    OBVIOUS
  <1>2. Len(Replay(before)[l]) \in Nat /\ Len(Replay(after)[l]) \in Nat
    BY SoundNow DEF Sane
  <1>3. kept \in Nat /\ place < kept
    BY <1>1, <1>2
  <1>4. /\ Len(after) = Len(before) + k
        /\ \A other \in Lists \ {l} : Replay(after)[other] = Replay(before)[other]
        /\ kept <= Len(Replay(after)[l])
        /\ \A j \in 1..kept : Replay(after)[l][j] = Replay(before)[l][j]
        /\ \A x : x \in Pending(after) <=>
             /\ x \in Pending(before)
             /\ \A i \in 1..k : x # Replay(before)[l][d[i] + 1]
    BY DEF Cleared
  <1> HIDE DEF kept, place
  <1>5. place + 1 <= Len(Replay(after)[l]) /\ place + 1 \in 1..kept
    BY <1>1, <1>2, <1>3, <1>4
  <1>6. next = Append(after, Splice(l, place, 1, <<>>))
    BY DEF Removal, place
  <1>7. /\ Sound(next, n) /\ Len(next) = Len(after) + 1
        /\ \A other \in Lists \ {l} : Replay(next)[other] = Replay(after)[other]
        /\ Len(Replay(next)[l]) = Len(Replay(after)[l]) - 1
        /\ \A j \in 1..place : Replay(next)[l][j] = Replay(after)[l][j]
        /\ \A x : x \in Pending(next) <=>
             /\ x \in Pending(after)
             /\ \A j \in (place + 1)..(place + 1) : x # Replay(after)[l][j]
    <2>1. PICK one \in Nat : one = 1
      OBVIOUS
    <2>2. next = Append(after, Splice(l, place, one, <<>>)) /\ place + one <= Len(Replay(after)[l])
      BY <1>5, <1>6, <2>1
    <2>3. Shortens(next, after, n, l, place, one)
      BY <1>1, <2>2, SoundTake
    <2>4. Pending(next) = Held(Replay(next)) /\ Pending(after) = Held(Replay(after))
      BY DEF Pending, Held
    <2> QED
      BY <2>1, <2>3, <2>4 DEF IsTaken, Shortens
  <1>8. Len(next) = Len(before) + (k + 1)
    <2>1. Len(before) \in Nat
      BY DEF Sound
    <2> QED
      BY <1>1, <1>4, <1>7, <2>1
  <1>9. place <= Len(Replay(next)[l])
    BY <1>1, <1>2, <1>5, <1>7
  <1>10. \A j \in 1..place : Replay(next)[l][j] = Replay(before)[l][j]
    <2>1. \A j \in 1..place : j \in 1..kept
      BY <1>1, <1>3
    <2> QED
      BY <1>4, <1>7, <2>1
  <1>11. \A x : x \in Pending(next) <=>
           /\ x \in Pending(before)
           /\ \A i \in 1..(k + 1) : x # Replay(before)[l][d[i] + 1]
    <2>1. \A j : j \in (place + 1)..(place + 1) <=> j = place + 1
      BY <1>1
    <2>2. \A x : x \in Pending(next) <=> x \in Pending(after) /\ x # Replay(after)[l][place + 1]
      BY <1>7, <2>1
    <2>3. Replay(after)[l][place + 1] = Replay(before)[l][d[k + 1] + 1]
      BY <1>4, <1>5 DEF place
    <2>4. \A i : i \in 1..(k + 1) <=> i \in 1..k \/ i = k + 1
      BY <1>1
    <2> QED
      BY <1>4, <2>2, <2>3, <2>4
  <1>12. Cleared(before, next, l, d, k + 1)
    BY <1>1, <1>4, <1>7, <1>8, <1>9, <1>10, <1>11 DEF Cleared, place
  <1> QED
    BY <1>7, <1>12

LEMMA ClearedAll ==
  ASSUME NEW n \in Nat, NEW before, Sound(before, n), NEW l \in Lists, NEW d \in Seq(Nat),
         \A i, j \in 1..Len(d) : i < j => d[i] > d[j],
         \A i \in 1..Len(d) : d[i] < Len(Replay(before)[l]),
         NEW after, after = before \o CutsAt(l, d)
  PROVE  Sound(after, n) /\ Cleared(before, after, l, d, Len(d))
  <1> DEFINE m == Len(d)
             c == CutsAt(l, d)
             log(k) == before \o SubSeq(c, 1, k)
             Bad == {k \in 0..m : ~(Sound(log(k), n) /\ Cleared(before, log(k), l, d, k))}
  <1>1. /\ before \in Seq(Splices) /\ m \in Nat /\ DOMAIN d = 1..m
        /\ \A k \in 1..m : d[k] \in Nat
    BY DEF Sound
  <1>2. c \in Seq(Splices) /\ Len(c) = m /\ \A k \in 1..m : c[k] = Removal(l, d[k])
    <2>1. <<>> \in Seq(Messages)
      OBVIOUS
    <2>2. \A k \in 1..m : Removal(l, d[k]) \in Splices
      BY <1>1, <2>1 DEF Removal, Splice, Splices
    <2>3. c \in [1..m -> Splices] /\ \A k \in 1..m : c[k] = Removal(l, d[k])
      BY <1>1, <2>2 DEF CutsAt
    <2> HIDE DEF c, m
    <2> QED
      BY <1>1, <2>3
  <1> HIDE DEF c
  <1>3. log(0) = before
    <2>1. SubSeq(c, 1, 0) = <<>>
      BY <1>2, SubSeqEmpty
    <2> QED
      BY <1>1, <2>1, ConcatEmptySeq
  <1>4. ASSUME NEW k \in 0..(m - 1) PROVE log(k + 1) = Append(log(k), Removal(l, d[k + 1]))
    <2>1. k + 1 \in 1..m /\ (k + 1) - 1 = k /\ 1 \in 1..Len(c) + 1 /\ k + 1 \in 1..Len(c)
          /\ k \in 0..Len(c) /\ 1 <= k + 1
      BY <1>1, <1>2
    <2>2. SubSeq(c, 1, k + 1) = SubSeq(c, 1, k) \o <<c[k + 1]>>
      BY <1>2, <2>1, SubSeqRecursiveSecond
    <2>3. SubSeq(c, 1, k) \in Seq(Splices) /\ c[k + 1] \in Splices /\ <<c[k + 1]>> \in Seq(Splices)
      BY <1>2, <2>1, SubSeqProperties
    <2>4. before \o (SubSeq(c, 1, k) \o <<c[k + 1]>>) = (before \o SubSeq(c, 1, k)) \o <<c[k + 1]>>
      BY <1>1, <2>3, ConcatAssociative
    <2>5. before \o SubSeq(c, 1, k) \in Seq(Splices)
      BY <1>1, <2>3, ConcatProperties
    <2>6. (before \o SubSeq(c, 1, k)) \o <<c[k + 1]>> = Append(before \o SubSeq(c, 1, k), c[k + 1])
      BY <2>3, <2>5, AppendIsConcat
    <2> QED
      BY <1>2, <2>1, <2>2, <2>4, <2>6
  <1>5. log(m) = after
    BY <1>1, <1>2, SubSeqFull DEF c
  <1> HIDE DEF log, m
  <1>6. 0 \in 0..m /\ 0 \notin Bad
    <2>1. Cleared(before, before, l, d, 0)
      <3>1. Len(before) \in Nat /\ Len(Replay(before)[l]) \in Nat /\ 1..0 = {}
        BY SoundNow DEF Sound, Sane
      <3> QED
        BY <3>1 DEF Cleared
    <2> QED
      BY <1>1, <1>3, <2>1
  <1>7. ASSUME NEW k \in 0..(m - 1), k \notin Bad PROVE k + 1 \notin Bad
    <2>1. k \in 0..m
      BY <1>1
    <2>2. Sound(log(k), n) /\ Cleared(before, log(k), l, d, k)
      BY <1>7, <2>1
    <2>3. PICK old, new : old = log(k) /\ new = log(k + 1)
      OBVIOUS
    <2>4. new = Append(old, Removal(l, d[k + 1]))
      BY <1>4, <2>3
    <2>5. Sound(new, n) /\ Cleared(before, new, l, d, k + 1)
      BY <2>2, <2>3, <2>4, ClearedOne DEF m
    <2> QED
      BY <2>3, <2>5
  <1>8. m \notin Bad
    <2> SUFFICES ASSUME m \in Bad PROVE FALSE
      OBVIOUS
    <2>1. Bad \in SUBSET Nat
      BY <1>1
    <2>2. PICK k \in Bad : \A j \in Bad : k <= j
      BY <2>1, Smallest
    <2>3. k \in 0..m
      BY <2>2
    <2> HIDE DEF Bad
    <2>4. k # 0
      BY <1>6, <2>2
    <2>5. k - 1 \in 0..(m - 1) /\ (k - 1) + 1 = k /\ ~(k <= k - 1)
      BY <1>1, <2>3, <2>4
    <2>6. k - 1 \notin Bad
      BY <2>2, <2>5
    <2> QED
      BY <1>7, <2>2, <2>5, <2>6
  <1>9. m \in 0..m
    BY <1>1
  <1> QED
    BY <1>5, <1>8, <1>9 DEF m

-----------------------------------------------------------------------------
(* The inductive invariant.                                                  *)

Seed == SubSeq(child, 1, inherited)

\* List l of before is a prefix of the same list of after.
Prefixed(before, after, l) ==
  /\ Len(before[l]) <= Len(after[l])
  /\ \A i \in 1..Len(before[l]) : after[l][i] = before[l][i]

\* Until the repair the child holds its seed, each message where it was, and its own.
Unrepaired ==
  /\ answered = {} /\ own \cap Pending(Seed) = {}
  /\ Pending(child) = Pending(Seed) \cup own
  /\ \A l \in Lists : Prefixed(Replay(Seed), Replay(child), l)

RepairInv ==
  /\ RepairTypeOK
  /\ Sound(source, minted) /\ Sound(child, minted)
  /\ Len(source) <= MaxEvents /\ inherited <= Len(child)
  /\ own \cup owed \cup answered \subseteq 1..minted
  /\ purpose = "none" => own = {} /\ ~repaired
  /\ ~repaired => Unrepaired
  /\ repaired => Pending(child) \cup answered = own \cup owed /\ Pending(child) \cap answered = {}

LEMMA PendingIs ==
  ASSUME NEW log, NEW x
  PROVE  x \in Pending(log) <=>
           \E l \in Lists : \E i \in DOMAIN Replay(log)[l] : x = Replay(log)[l][i]
  <1>1. Pending(log) = Held(Replay(log))
    BY DEF Pending, Held
  <1> QED
    BY <1>1, HeldIs

LEMMA PendingMinted ==
  ASSUME NEW n \in Nat, NEW log, Sound(log, n)
  PROVE  Pending(log) \subseteq 1..n
  <1>1. Replay(log) \in [Lists -> Seq(1..n)]
    BY SoundNow DEF Sane
  <1>2. \A l \in Lists : \A i \in DOMAIN Replay(log)[l] : Replay(log)[l][i] \in 1..n
    BY <1>1
  <1> QED
    BY <1>2, PendingIs

\* The places of a list of the seed whose messages are not kept.
LEMMA PlacesAre ==
  ASSUME NEW n \in Nat, Sane(Replay(Seed), n), NEW l \in Lists, NEW keep,
         NEW s, s = Replay(Seed)[l], NEW S, S = Indexes(l, Drops(keep))
  PROVE  /\ S \in SUBSET Nat /\ IsFiniteSet(S)
         /\ \A x \in S : x + 1 \in DOMAIN s /\ s[x + 1] \notin keep
         /\ \A i \in DOMAIN s : s[i] \notin keep => i - 1 \in S
  <1>1. s \in Seq(1..n) /\ Len(s) \in Nat /\ DOMAIN s = 1..Len(s)
    BY DEF Sane
  <1>2. \A e : e \in seedPendingInbox <=>
          \E k \in Lists : \E i \in DOMAIN Replay(Seed)[k] :
            e = [target |-> k, index |-> i - 1, id |-> Replay(Seed)[k][i]]
    BY DEF seedPendingInbox, Seed
  <1>3. \A x : x \in S <=> \E e \in seedPendingInbox :
                             e.id \notin keep /\ e.target = l /\ x = e.index
    BY DEF Indexes, Drops
  <1>4. ASSUME NEW x \in S PROVE \E i \in DOMAIN s : x = i - 1 /\ s[i] \notin keep
    <2>1. PICK e \in seedPendingInbox : e.id \notin keep /\ e.target = l /\ x = e.index
      BY <1>3
    <2>2. PICK k \in Lists : \E i \in DOMAIN Replay(Seed)[k] :
            e = [target |-> k, index |-> i - 1, id |-> Replay(Seed)[k][i]]
      BY <1>2
    <2>3. PICK i \in DOMAIN Replay(Seed)[k] :
            e = [target |-> k, index |-> i - 1, id |-> Replay(Seed)[k][i]]
      BY <2>2
    <2>4. e.target = k /\ e.index = i - 1 /\ e.id = Replay(Seed)[k][i]
      BY <2>3
    <2> QED
      BY <2>1, <2>3, <2>4
  <1>5. \A x \in S : x \in 0..Len(s) /\ x + 1 \in DOMAIN s /\ s[x + 1] \notin keep
    <2> SUFFICES ASSUME NEW x \in S
                 PROVE  x \in 0..Len(s) /\ x + 1 \in DOMAIN s /\ s[x + 1] \notin keep
      OBVIOUS
    <2>1. PICK i \in DOMAIN s : x = i - 1 /\ s[i] \notin keep
      BY <1>4
    <2>2. x + 1 = i /\ x \in 0..Len(s)
      BY <1>1, <2>1
    <2> QED
      BY <2>1, <2>2
  <1>6. IsFiniteSet(S)
    <2>1. S \subseteq 0..Len(s)
      BY <1>5
    <2>2. 0 \in Int /\ Len(s) \in Int
      BY <1>1
    <2>3. IsFiniteSet(0..Len(s))
      BY <2>2, FS_Interval
    <2> QED
      BY <2>1, <2>3, FS_Subset
  <1>7. ASSUME NEW i \in DOMAIN s, s[i] \notin keep PROVE i - 1 \in S
    <2>1. PICK e : e = [target |-> l, index |-> i - 1, id |-> s[i]]
      OBVIOUS
    <2>2. e \in seedPendingInbox
      BY <1>2, <2>1
    <2>3. e.id = s[i] /\ e.target = l /\ e.index = i - 1
      BY <2>1
    <2> QED
      BY <1>3, <1>7, <2>2, <2>3
  <1>8. S \subseteq Nat
    BY <1>1, <1>5
  <1> QED
    BY <1>5, <1>6, <1>7, <1>8

\* The removals of one list take its seed messages that are not kept, nothing else.
Repairs(log, after, n, l, keep) ==
  /\ Sound(after, n) /\ Len(log) <= Len(after)
  /\ \A other \in Lists \ {l} : Replay(after)[other] = Replay(log)[other]
  /\ \A x : x \in Pending(after) <=>
       /\ x \in Pending(log)
       /\ ~\E i \in DOMAIN Replay(Seed)[l] : Replay(Seed)[l][i] = x /\ x \notin keep

LEMMA ListRepaired ==
  ASSUME NEW n \in Nat, Sane(Replay(Seed), n), NEW l \in Lists, NEW keep,
         NEW log, Sound(log, n), Prefixed(Replay(Seed), Replay(log), l),
         NEW after, after = log \o Removals(l, Drops(keep))
  PROVE  Repairs(log, after, n, l, keep)
  <1> DEFINE s == Replay(Seed)[l]
             S == Indexes(l, Drops(keep))
             d == Descending(S)
  <1>1. /\ S \in SUBSET Nat /\ IsFiniteSet(S)
        /\ \A x \in S : x + 1 \in DOMAIN s /\ s[x + 1] \notin keep
        /\ \A i \in DOMAIN s : s[i] \notin keep => i - 1 \in S
    BY PlacesAre
  <1>2. after = log \o CutsAt(l, d)
    BY DEF Removals, CutsAt
  <1> HIDE DEF S
  <1>3. /\ d \in Seq(S) /\ \A i, j \in DOMAIN d : i < j => d[i] > d[j]
        /\ \A x \in S : \E i \in DOMAIN d : d[i] = x
    BY <1>1, DescendingIs
  <1> HIDE DEF d
  <1>4. /\ d \in Seq(Nat) /\ Len(d) \in Nat /\ DOMAIN d = 1..Len(d)
        /\ \A i \in 1..Len(d) : d[i] \in S
    <2>1. Len(d) \in Nat /\ DOMAIN d = 1..Len(d) /\ \A i \in 1..Len(d) : d[i] \in S
      BY <1>3
    <2>2. \A i \in 1..Len(d) : d[i] \in Nat
      BY <1>1, <2>1
    <2>3. d \in Seq(Nat)
      BY <1>3, <2>1, <2>2
    <2> QED
      BY <2>1, <2>3
  <1>5. s \in Seq(1..n) /\ Len(s) \in Nat /\ DOMAIN s = 1..Len(s)
    BY DEF Sane
  <1>6. Replay(log) \in [Lists -> Seq(1..n)] /\ Len(Replay(log)[l]) \in Nat
    BY SoundNow DEF Sane
  <1>7. Len(s) <= Len(Replay(log)[l]) /\ \A i \in 1..Len(s) : Replay(log)[l][i] = s[i]
    BY DEF Prefixed
  <1> HIDE DEF s
  <1>8. \A i \in 1..Len(d) : /\ d[i] < Len(Replay(log)[l]) /\ d[i] + 1 \in DOMAIN s
                           /\ Replay(log)[l][d[i] + 1] = s[d[i] + 1]
                           /\ s[d[i] + 1] \notin keep
    <2> SUFFICES ASSUME NEW i \in 1..Len(d)
                 PROVE  /\ d[i] < Len(Replay(log)[l]) /\ d[i] + 1 \in DOMAIN s
                        /\ Replay(log)[l][d[i] + 1] = s[d[i] + 1]
                        /\ s[d[i] + 1] \notin keep
      OBVIOUS
    <2>1. d[i] \in Nat /\ d[i] + 1 \in DOMAIN s /\ s[d[i] + 1] \notin keep
      BY <1>1, <1>4
    <2> QED
      BY <1>5, <1>6, <1>7, <2>1
  <1>9. \A i, j \in 1..Len(d) : i < j => d[i] > d[j]
    BY <1>3, <1>4
  <1>10. Sound(after, n) /\ Cleared(log, after, l, d, Len(d))
    BY <1>2, <1>4, <1>8, <1>9, ClearedAll
  <1>11. /\ Len(after) = Len(log) + Len(d)
         /\ \A other \in Lists \ {l} : Replay(after)[other] = Replay(log)[other]
         /\ \A x : x \in Pending(after) <=>
              /\ x \in Pending(log)
              /\ \A i \in 1..Len(d) : x # Replay(log)[l][d[i] + 1]
    BY <1>10 DEF Cleared
  <1>12. Len(log) <= Len(after)
    <2>1. Len(log) \in Nat
      BY DEF Sound
    <2> QED
      BY <1>4, <1>11, <2>1
  <1>13. ASSUME NEW x
         PROVE  (\A i \in 1..Len(d) : x # Replay(log)[l][d[i] + 1])
                  <=> ~\E i \in DOMAIN s : s[i] = x /\ x \notin keep
    <2>1. ASSUME NEW i \in 1..Len(d), x = Replay(log)[l][d[i] + 1]
          PROVE  \E j \in DOMAIN s : s[j] = x /\ x \notin keep
      BY <1>8, <2>1
    <2>2. ASSUME NEW i \in DOMAIN s, s[i] = x, x \notin keep
          PROVE  \E j \in 1..Len(d) : x = Replay(log)[l][d[j] + 1]
      <3>1. PICK j \in DOMAIN d : d[j] = i - 1
        BY <1>1, <1>3, <2>2
      <3>2. d[j] + 1 = i /\ j \in 1..Len(d)
        BY <1>4, <1>5, <3>1
      <3> QED
        BY <1>8, <2>2, <3>2
    <2> QED
      BY <2>1, <2>2
  <1> QED
    BY <1>10, <1>11, <1>12, <1>13 DEF Repairs, s

LEMMA SourceStep ==
  ASSUME RepairAssumption, RepairInv, NEW list \in Lists, NEW k \in Messages,
         Deliver(list) \/ ClaimFront(list, k) \/ TakeBack(list, k)
  PROVE  RepairInv'
  <1> USE DEF SourceWrites
  <1>1. minted \in Nat /\ source \in Seq(Splices) /\ Len(source) \in Nat
    BY DEF RepairInv, RepairTypeOK, RepairAssumption
  <1>2. Sane(Replay(source), minted)
    BY <1>1, SoundNow DEF RepairInv
  <1>3. Len(Replay(source)[list]) \in Nat
    BY <1>2 DEF Sane
  <1>4. /\ Sound(source', minted') /\ minted' \in 0..MaxMessages
        /\ minted <= minted' /\ Len(source') <= MaxEvents
    <2>1. CASE Deliver(list)
      <3>1. /\ minted < MaxMessages /\ minted' = minted + 1 /\ Len(source) < MaxEvents
            /\ source' = Append(source, Splice(list, Len(Replay(source)[list]), 0, <<minted + 1>>))
        BY <2>1 DEF Deliver
      <3>2. Lengthens(source', source, minted + 1)
        BY <1>1, <3>1, SoundPut DEF RepairInv
      <3> QED
        BY <1>1, <3>1, <3>2 DEF Lengthens, RepairAssumption
    <2>2. CASE ClaimFront(list, k)
      <3>1. /\ k \in 1..Len(Replay(source)[list]) /\ minted' = minted /\ Len(source) < MaxEvents
            /\ source' = Append(source, Splice(list, 0, k, <<>>))
        BY <2>2 DEF ClaimFront
      <3>2. k \in Nat /\ 0 \in Nat /\ 0 + k <= Len(Replay(source)[list])
        BY <1>3, <3>1
      <3>3. Shortens(source', source, minted, list, 0, k)
        BY <1>1, <3>1, <3>2, SoundTake DEF RepairInv
      <3> QED
        BY <1>1, <3>1, <3>3 DEF Shortens, RepairAssumption, RepairInv, RepairTypeOK
    <2>3. CASE TakeBack(list, k)
      <3>1. /\ k \in 1..Len(Replay(source)[list]) /\ minted' = minted /\ Len(source) < MaxEvents
            /\ source' = Append(source, Splice(list, k - 1, 1, <<>>))
        BY <2>3 DEF TakeBack, Removal
      <3>2. k - 1 \in Nat /\ 1 \in Nat /\ (k - 1) + 1 <= Len(Replay(source)[list])
        BY <1>3, <3>1
      <3>3. Shortens(source', source, minted, list, k - 1, 1)
        BY <1>1, <3>1, <3>2, SoundTake DEF RepairInv
      <3> QED
        BY <1>1, <3>1, <3>3 DEF Shortens, RepairAssumption, RepairInv, RepairTypeOK
    <2> QED
      BY <2>1, <2>2, <2>3
  <1>5. UNCHANGED <<child, inherited, purpose, repaired, own, owed, answered>>
    BY DEF Deliver, ClaimFront, TakeBack
  <1>6. Sound(child', minted')
    BY <1>1, <1>4, <1>5, SoundMore DEF RepairInv
  <1>7. own' \cup owed' \cup answered' \subseteq 1..minted'
    BY <1>1, <1>4, <1>5 DEF RepairInv
  <1>8. source' \in Seq(Splices)
    BY <1>4 DEF Sound
  <1>9. RepairTypeOK'
    BY <1>4, <1>5, <1>8 DEF RepairInv, RepairTypeOK
  <1>10. /\ (Pending(child))' = Pending(child) /\ (Pending(Seed))' = Pending(Seed)
         /\ (Replay(child))' = Replay(child) /\ (Replay(Seed))' = Replay(Seed)
    BY <1>5 DEF Seed
  <1>11. Unrepaired => Unrepaired'
    BY <1>5, <1>10 DEF Unrepaired, Prefixed
  <1> QED
    BY <1>4, <1>5, <1>6, <1>7, <1>9, <1>10, <1>11 DEF RepairInv

LEMMA ForkStep ==
  ASSUME RepairAssumption, RepairInv, NEW why \in {"load", "tail"}, NEW cut \in 0..Len(source),
         Fork(why, cut)
  PROVE  RepairInv'
  <1>1. /\ purpose = "none" /\ purpose' = why /\ child' = SubSeq(source, 1, cut)
        /\ inherited' = cut
        /\ UNCHANGED <<source, repaired, minted, own, owed, answered>>
    BY DEF Fork
  <1>2. minted \in Nat /\ own = {} /\ ~repaired /\ answered = {}
    BY <1>1 DEF RepairInv, RepairTypeOK, RepairAssumption, Unrepaired
  <1>3. /\ Sound(child', minted) /\ Len(child') = cut
        /\ SubSeq(child', 1, cut) = child'
    BY <1>1, <1>2, SoundPrefix DEF RepairInv
  <1>4. cut \in 0..MaxEvents
    BY DEF RepairInv, RepairTypeOK, RepairAssumption
  <1>5. child' \in Seq(Splices)
    BY <1>3 DEF Sound
  <1>6. RepairTypeOK'
    BY <1>1, <1>4, <1>5 DEF RepairInv, RepairTypeOK
  <1>7. Seed' = child'
    BY <1>1, <1>3 DEF Seed
  <1>8. Unrepaired'
    <2>1. \A l \in Lists : Len(Replay(child')[l]) \in Nat
      BY <1>2, <1>3, SoundNow DEF Sane
    <2> QED
      BY <1>1, <1>2, <1>7, <2>1 DEF Unrepaired, Prefixed
  <1>9. cut <= Len(child')
    BY <1>3
  <1> QED
    BY <1>1, <1>2, <1>3, <1>6, <1>8, <1>9 DEF RepairInv

LEMMA SeedKept ==
  ASSUME RepairInv,
         \A k \in 0..Len(child) : SubSeq(child', 1, k) = SubSeq(child, 1, k),
         UNCHANGED inherited
  PROVE  Seed' = Seed
  <1>1. inherited \in 0..Len(child)
    BY DEF RepairInv, RepairTypeOK, Sound
  <1> QED
    BY <1>1 DEF Seed

LEMMA ReceiveStep ==
  ASSUME RepairAssumption, RepairInv, NEW list \in Lists, ChildReceives(list)
  PROVE  RepairInv'
  <1>1. /\ purpose # "none" /\ minted < MaxMessages /\ minted' = minted + 1
        /\ own' = own \cup {minted + 1}
        /\ child' = Append(child, Splice(list, Len(Replay(child)[list]), 0, <<minted + 1>>))
        /\ UNCHANGED <<source, inherited, purpose, repaired, owed, answered>>
    BY DEF ChildReceives
  <1>2. /\ minted \in Nat /\ minted + 1 \in Nat /\ minted <= minted + 1
        /\ minted + 1 \in 0..MaxMessages /\ minted + 1 \in Messages
    BY <1>1 DEF RepairInv, RepairTypeOK, RepairAssumption, Messages
  <1>3. Lengthens(child', child, minted + 1)
    BY <1>1, <1>2, SoundPut DEF RepairInv
  <1>4. Sound(source', minted') /\ Sound(child', minted')
    BY <1>1, <1>2, <1>3, SoundMore DEF Lengthens, RepairInv
  <1>5. inherited' <= Len(child')
    BY <1>1, <1>3 DEF Lengthens, RepairInv, RepairTypeOK, Sound
  <1>6. /\ own' \cup owed' \cup answered' \subseteq 1..minted'
        /\ minted + 1 \notin answered /\ minted + 1 \notin Pending(child)
    <2>1. \A x : x \in 1..(minted + 1) <=> x \in 1..minted \/ x = minted + 1
      BY <1>2
    <2>2. minted + 1 \notin 1..minted
      BY <1>2
    <2>3. Pending(child) \subseteq 1..minted
      BY <1>2, PendingMinted DEF RepairInv
    <2> QED
      BY <1>1, <2>1, <2>2, <2>3 DEF RepairInv
  <1>7. RepairTypeOK'
    <2>1. child' \in Seq(Splices)
      BY <1>4 DEF Sound
    <2> QED
      BY <1>1, <1>2, <2>1 DEF RepairInv, RepairTypeOK
  <1>8. Pending(child') = Pending(child) \cup {minted + 1}
    BY <1>3 DEF Lengthens
  <1>9. Seed' = Seed
    BY <1>1, <1>3, SeedKept DEF Lengthens
  <1>10. ASSUME ~repaired PROVE Unrepaired'
    <2>1. Unrepaired
      BY <1>10 DEF RepairInv
    <2>2. Pending(Seed) \subseteq Pending(child)
      BY <2>1 DEF Unrepaired
    <2>3. own' \cap Pending(Seed) = {} /\ Pending(child') = Pending(Seed) \cup own'
      BY <1>1, <1>6, <1>8, <2>1, <2>2 DEF Unrepaired
    <2>4. \A l \in Lists : Prefixed(Replay(Seed), Replay(child'), l)
      <3> SUFFICES ASSUME NEW l \in Lists PROVE Prefixed(Replay(Seed), Replay(child'), l)
        OBVIOUS
      <3>1. /\ Len(Replay(Seed)[l]) \in Nat /\ Len(Replay(child)[l]) \in Nat
            /\ Len(Replay(child')[l]) \in Nat
        <4>1. inherited \in 0..Len(child) /\ Sound(child, minted)
          BY DEF RepairInv, RepairTypeOK, Sound
        <4>2. Sound(Seed, minted)
          BY <1>2, <4>1, SoundPrefix DEF Seed
        <4>3. Sane(Replay(Seed), minted) /\ Sane(Replay(child), minted)
          BY <1>2, <4>1, <4>2, SoundNow
        <4>4. Sane(Replay(child'), minted + 1)
          BY <1>1, <1>2, <1>4, SoundNow
        <4> QED
          BY <4>3, <4>4 DEF Sane
      <3>2. /\ Len(Replay(child)[l]) <= Len(Replay(child')[l])
            /\ \A j \in 1..Len(Replay(child)[l]) : Replay(child')[l][j] = Replay(child)[l][j]
        BY <1>3 DEF Lengthens
      <3>3. /\ Len(Replay(Seed)[l]) <= Len(Replay(child)[l])
            /\ \A j \in 1..Len(Replay(Seed)[l]) : Replay(child)[l][j] = Replay(Seed)[l][j]
        BY <2>1 DEF Unrepaired, Prefixed
      <3> QED
        BY <3>1, <3>2, <3>3 DEF Prefixed
    <2> QED
      BY <1>1, <1>9, <2>1, <2>3, <2>4 DEF Unrepaired
  <1>11. ASSUME repaired
         PROVE  /\ Pending(child') \cup answered' = own' \cup owed'
                /\ Pending(child') \cap answered' = {}
    BY <1>1, <1>6, <1>8, <1>11 DEF RepairInv
  <1> QED
    BY <1>1, <1>4, <1>5, <1>6, <1>7, <1>10, <1>11 DEF RepairInv

LEMMA ClaimStep ==
  ASSUME RepairAssumption, RepairInv, NEW list \in Lists, NEW k \in Messages,
         ChildClaims(list, k)
  PROVE  RepairInv'
  <1>1. /\ repaired /\ k \in 1..Len(Replay(child)[list])
        /\ answered' = answered \cup ToSet(SubSeq(Replay(child)[list], 1, k))
        /\ child' = Append(child, Splice(list, 0, k, <<>>))
        /\ UNCHANGED <<source, inherited, purpose, repaired, minted, own, owed>>
    BY DEF ChildClaims
  <1>2. minted \in Nat
    BY DEF RepairInv, RepairTypeOK, RepairAssumption
  <1>3. Replay(child)[list] \in Seq(1..minted) /\ Len(Replay(child)[list]) \in Nat
    BY <1>2, SoundNow DEF RepairInv, Sane
  <1>4. k \in Nat /\ 0 \in Nat /\ 0 + k <= Len(Replay(child)[list])
    BY <1>1, <1>3
  <1>5. Shortens(child', child, minted, list, 0, k)
    BY <1>1, <1>2, <1>4, SoundTake DEF RepairInv
  <1>6. \A x : x \in Pending(child') <=>
          x \in Pending(child) /\ \A j \in 1..k : x # Replay(child)[list][j]
    <2>1. Pending(child') = Held(Replay(child')) /\ Pending(child) = Held(Replay(child))
      BY DEF Pending, Held
    <2>2. 0 + 1 = 1 /\ 0 + k = k
      BY <1>4
    <2> QED
      BY <1>5, <2>1, <2>2 DEF Shortens, IsTaken
  <1>7. \A x : x \in answered' <=>
          x \in answered \/ \E j \in 1..k : x = Replay(child)[list][j]
    <2> DEFINE s == SubSeq(Replay(child)[list], 1, k)
    <2>1. s \in Seq(1..minted) /\ Len(s) = k /\ \A j \in 1..k : s[j] = Replay(child)[list][j]
      <3>1. PICK q, T : q = Replay(child)[list] /\ T = 1..minted
        OBVIOUS
      <3>2. q \in Seq(T) /\ 1 \in Int /\ k \in Int /\ \A i \in 1..k : q[i] \in T
        <4>1. q \in Seq(T) /\ Len(q) \in Nat /\ k <= Len(q)
          BY <1>3, <1>4, <3>1
        <4>2. \A i \in 1..k : i \in 1..Len(q)
          BY <1>4, <4>1
        <4> QED
          BY <1>4, <4>1, <4>2
      <3>3. /\ SubSeq(q, 1, k) \in Seq(T) /\ Len(SubSeq(q, 1, k)) = k
            /\ \A j \in 1..k : SubSeq(q, 1, k)[j] = q[j]
        BY <1>4, <3>2, SubSeqProperties
      <3> QED
        BY <3>1, <3>3
    <2> HIDE DEF s
    <2>2. DOMAIN s = 1..k
      BY <2>1
    <2>3. answered' = answered \cup ToSet(s)
      BY <1>1 DEF s
    <2>4. \A x : x \in ToSet(s) <=> \E j \in 1..k : x = s[j]
      BY <2>2 DEF ToSet
    <2> QED
      BY <2>1, <2>3, <2>4
  <1>8. \A j \in 1..k : Replay(child)[list][j] \in Pending(child)
    <2>1. \A j \in 1..k : j \in DOMAIN Replay(child)[list]
      BY <1>3, <1>4
    <2> QED
      BY <2>1, PendingIs
  <1>9. Pending(child) \cup answered = own \cup owed /\ Pending(child) \cap answered = {}
    BY <1>1 DEF RepairInv
  <1>10. /\ Pending(child') \cup answered' = own' \cup owed'
         /\ Pending(child') \cap answered' = {}
    BY <1>1, <1>6, <1>7, <1>8, <1>9
  <1>11. own' \cup owed' \cup answered' \subseteq 1..minted' /\ 1..minted \subseteq Messages
    <2>1. Pending(child) \subseteq 1..minted
      BY <1>2, PendingMinted DEF RepairInv
    <2>2. 1..minted \subseteq Messages
      BY DEF RepairInv, RepairTypeOK, Messages, RepairAssumption
    <2> QED
      BY <1>1, <1>7, <1>8, <2>1, <2>2 DEF RepairInv
  <1>12. Sound(child', minted') /\ Len(child') = Len(child) + 1 /\ child' \in Seq(Splices)
    BY <1>1, <1>5 DEF Shortens, Sound
  <1>13. inherited' <= Len(child')
    BY <1>1, <1>12 DEF RepairInv, RepairTypeOK, Sound
  <1>14. RepairTypeOK'
    BY <1>1, <1>11, <1>12 DEF RepairInv, RepairTypeOK
  <1> QED
    BY <1>1, <1>10, <1>11, <1>12, <1>13, <1>14 DEF RepairInv

LEMMA RepairStep ==
  ASSUME RepairAssumption, RepairInv, repairSeedInbox
  PROVE  RepairInv'
  <1>1. /\ purpose # "none" /\ ~repaired /\ repaired'
        /\ UNCHANGED <<source, inherited, purpose, minted, own, answered>>
    BY DEF repairSeedInbox
  <1>2. PICK keep \in Keeps :
          /\ child' = child \o Removals("next-turn", Drops(keep))
                          \o Removals("next-step", Drops(keep))
          /\ owed' = Pending(Seed) \cap keep
    BY DEF repairSeedInbox, Seed
  <1>3. PICK mid : mid = child \o Removals("next-turn", Drops(keep))
    OBVIOUS
  <1>4. child' = mid \o Removals("next-step", Drops(keep))
    BY <1>2, <1>3
  <1>5. /\ minted \in Nat /\ Sound(child, minted) /\ inherited \in 0..Len(child)
        /\ Len(child) \in Nat
    BY DEF RepairInv, RepairTypeOK, RepairAssumption, Sound
  <1>6. Unrepaired
    BY <1>1 DEF RepairInv
  <1>7. Sound(Seed, minted) /\ Sane(Replay(Seed), minted)
    BY <1>5, SoundPrefix, SoundNow DEF Seed
  <1>8. \A l \in Lists : Prefixed(Replay(Seed), Replay(child), l)
    BY <1>6 DEF Unrepaired
  <1>9. "next-turn" \in Lists /\ "next-step" \in Lists \ {"next-turn"}
    BY DEF Lists
  <1>10. Repairs(child, mid, minted, "next-turn", keep)
    BY <1>3, <1>5, <1>7, <1>8, <1>9, ListRepaired
  <1>11. Sound(mid, minted) /\ Prefixed(Replay(Seed), Replay(mid), "next-step")
    BY <1>8, <1>9, <1>10 DEF Repairs, Prefixed
  <1>12. Repairs(mid, child', minted, "next-step", keep)
    BY <1>4, <1>5, <1>7, <1>9, <1>11, ListRepaired
  <1>13. \A x : x \in Pending(child') <=>
           x \in Pending(child) /\ ~(x \in Pending(Seed) /\ x \notin keep)
    <2>1. \A l : l \in Lists <=> l = "next-turn" \/ l = "next-step"
      BY DEF Lists
    <2>2. \A x : x \in Pending(Seed) <=>
            \/ \E i \in DOMAIN Replay(Seed)["next-turn"] : Replay(Seed)["next-turn"][i] = x
            \/ \E i \in DOMAIN Replay(Seed)["next-step"] : Replay(Seed)["next-step"][i] = x
      BY <2>1, PendingIs
    <2> QED
      BY <1>10, <1>12, <2>2 DEF Repairs
  <1>14. /\ Pending(child') \cup answered' = own' \cup owed'
         /\ Pending(child') \cap answered' = {}
    BY <1>1, <1>2, <1>6, <1>13 DEF Unrepaired
  <1>15. Pending(child) \subseteq 1..minted /\ 1..minted \subseteq Messages
    <2>1. 1..minted \subseteq Messages
      BY DEF RepairInv, RepairTypeOK, Messages, RepairAssumption
    <2> QED
      BY <1>5, <2>1, PendingMinted
  <1>16. own' \cup owed' \cup answered' \subseteq 1..minted' /\ owed' \subseteq Messages
    BY <1>1, <1>2, <1>6, <1>15 DEF RepairInv, Unrepaired
  <1>17. Sound(child', minted') /\ child' \in Seq(Splices) /\ inherited' <= Len(child')
    <2>1. Len(child) <= Len(mid) /\ Len(mid) <= Len(child')
      BY <1>10, <1>12 DEF Repairs
    <2>2. Sound(child', minted) /\ Len(mid) \in Nat /\ Len(child') \in Nat
      BY <1>11, <1>12 DEF Repairs, Sound
    <2> QED
      BY <1>1, <1>5, <2>1, <2>2 DEF Sound
  <1>18. RepairTypeOK'
    BY <1>1, <1>16, <1>17 DEF RepairInv, RepairTypeOK
  <1> QED
    BY <1>1, <1>14, <1>16, <1>17, <1>18 DEF RepairInv

LEMMA RepairStart == ASSUME RepairAssumption, RepairInit PROVE RepairInv
  <1>1. Sound(<<>>, 0) /\ Len(<<>>) = 0 /\ <<>> \in Seq(Splices)
    BY SoundEmpty DEF Sound
  <1>2. Seed = child
    BY <1>1 DEF RepairInit, Seed
  <1>3. Pending(child) = {}
    <2>1. 1..0 = {} /\ 0 \in Nat
      OBVIOUS
    <2> QED
      BY <1>1, <2>1, PendingMinted DEF RepairInit
  <1>4. \A l \in Lists : Prefixed(Replay(Seed), Replay(child), l)
    <2>1. \A l \in Lists : Len(Replay(child)[l]) \in Nat
      BY <1>1, SoundNow DEF RepairInit, Sane
    <2> QED
      BY <1>2, <2>1 DEF Prefixed
  <1>5. Unrepaired
    BY <1>2, <1>3, <1>4 DEF Unrepaired, RepairInit
  <1>6. RepairTypeOK
    <2>1. /\ source \in Seq(Splices) /\ child \in Seq(Splices)
          /\ inherited \in 0..MaxEvents /\ minted \in 0..MaxMessages
      BY <1>1 DEF RepairInit, RepairAssumption
    <2>2. /\ purpose \in {"none", "load", "tail"}
          /\ own \subseteq Messages /\ owed \subseteq Messages /\ answered \subseteq Messages
      BY DEF RepairInit
    <2>3. repaired \in BOOLEAN
      BY Zenon DEF RepairInit
    <2> QED
      BY <2>1, <2>2, <2>3 DEF RepairTypeOK
  <1>7. /\ Sound(source, minted) /\ Sound(child, minted)
        /\ Len(source) <= MaxEvents /\ inherited <= Len(child)
    BY <1>1 DEF RepairInit, RepairAssumption
  <1>8. /\ own \cup owed \cup answered \subseteq 1..minted
        /\ purpose = "none" => own = {} /\ ~repaired
        /\ ~repaired
    BY DEF RepairInit
  <1> QED
    BY <1>5, <1>6, <1>7, <1>8 DEF RepairInv

LEMMA RepairInvStep ==
  ASSUME RepairAssumption, RepairInv, [RepairNext]_repairVars
  PROVE  RepairInv'
  <1>1. CASE UNCHANGED repairVars
    BY <1>1 DEF RepairInv, repairVars, RepairTypeOK, Unrepaired, Seed, Prefixed
  <1>2. ASSUME NEW list \in Lists, Deliver(list) PROVE RepairInv'
    <2>1. 1 \in Messages
      BY <1>2 DEF Deliver, Messages, RepairInv, RepairTypeOK, RepairAssumption
    <2> QED
      BY <1>2, <2>1, SourceStep
  <1>3. ASSUME NEW list \in Lists, NEW k \in Messages, ClaimFront(list, k) \/ TakeBack(list, k)
        PROVE  RepairInv'
    BY <1>3, SourceStep
  <1> QED
    BY <1>1, <1>2, <1>3, ForkStep, ReceiveStep, ClaimStep, RepairStep DEF RepairNext

LEMMA RepairInvAlways == RepairSpec => []RepairInv
  <1>1. RepairInit => RepairInv
    BY RepairStart, RepairAssumption
  <1>2. RepairInv /\ [RepairNext]_repairVars => RepairInv'
    BY RepairInvStep, RepairAssumption
  <1> QED
    BY <1>1, <1>2, PTL DEF RepairSpec

\* Both ledgers stay sequences of splices of delivered messages.
THEOREM RepairTypeCorrect == RepairSpec => []RepairTypeOK
  <1>1. RepairInv => RepairTypeOK
    BY DEF RepairInv
  <1> QED
    BY <1>1, RepairInvAlways, PTL

\* Wherever the fork was cut and whatever load passes as still owed, repairSeedInbox
\* leaves the child what it must answer: its own messages and the kept ones of its
\* seed, none of them twice, in a ledger whose every event a replay accepts.
THEOREM ForkOwesItsMessages == RepairSpec => []ForkOwesWhatIsPending
  <1>1. RepairInv => ForkOwesWhatIsPending
    <2> SUFFICES ASSUME RepairInv, repaired PROVE ForkOwesWhatIsPending
      BY DEF ForkOwesWhatIsPending
    <2>1. DOMAIN child = 1..Len(child)
      BY DEF RepairInv, RepairTypeOK
    <2>2. \A k \in DOMAIN child : Accepts(Replay(SubSeq(child, 1, k - 1)), child[k])
      BY <2>1 DEF RepairInv, Sound
    <2> QED
      BY <2>2 DEF RepairInv, ForkOwesWhatIsPending
  <1> QED
    BY <1>1, RepairInvAlways, PTL
=============================================================================
