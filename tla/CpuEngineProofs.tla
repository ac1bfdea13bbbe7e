-------------------------- MODULE CpuEngineProofs --------------------------
(***************************************************************************)
(* What holds of the CPU engine (CpuEngine) over its prefix cache          *)
(* (PrefixKv) for every page size, pool, prompt and limit.                 *)
(*                                                                         *)
(* The LRU order is reasoned about through one relation, Before(s, a, b):  *)
(* each operation on the index has a lemma that says what it does to       *)
(* Before and to the set of entries.  Over it come the pages of a prompt   *)
(* (KeyFacts, HitFacts), the planner (NoFitFacts, FitFacts), the eviction  *)
(* (EvictFacts) and serve (ServeFacts), then the events of the state       *)
(* machine and the slots, and last the inductive invariant IInv: the       *)
(* queues within their limits, every admitted request waiting or decoding  *)
(* from its own tokens, the cache's books balanced, and every verdict      *)
(* given rightly.                                                          *)
(*                                                                         *)
(* The last section adds the order of the index (Orderly): the keys that a *)
(* hole in their chain puts out of serve's reach are one chain, the        *)
(* coldest, and serve's loop evicts them before it could meet one.         *)
(***************************************************************************)
EXTENDS CpuEngine, SequenceTheorems, FiniteSetTheorems, WellFoundedInduction, TLAPS

(***************************************************************************)
(* Sequences and the order of their entries                                *)
(***************************************************************************)

(* A non-empty set of naturals has a least element, which Min returns.     *)
LEMMA LeastOf ==
  ASSUME NEW S \in SUBSET Nat, S # {}
  PROVE  Min(S) \in S /\ \A n \in S : Min(S) <= n
<1>1. PICK m \in S : \A n \in S : ~(<<n, m>> \in OpToRel(<, Nat))
  <2>1. IsWellFoundedOn(OpToRel(<, Nat), Nat)
    BY NatLessThanWellFounded
  <2> QED BY <2>1, WFMin, Zenon
<1>2. ASSUME NEW n \in S PROVE m <= n
  <2>1. SUFFICES ASSUME n < m PROVE FALSE
    OBVIOUS
  <2>2. <<n, m>> \in OpToRel(<, Nat)
    BY <2>1 DEF OpToRel
  <2> QED BY <1>1, <2>2
<1> QED BY <1>2 DEF Min

(* A bounded one has a greatest, which Max returns.                        *)
LEMMA GreatestOf ==
  ASSUME NEW b \in Nat, NEW S \in SUBSET (0 .. b), S # {}
  PROVE  Max(S) \in S /\ \A n \in S : n <= Max(S)
<1> DEFINE D == {b - n : n \in S}
<1>1. D \in SUBSET Nat /\ D # {}
  <2>1. \A n \in S : b - n \in Nat
    OBVIOUS
  <2>2. D # {}
    OBVIOUS
  <2> QED BY <2>1, <2>2
<1>2. PICK d \in D : \A n \in D : d <= n
  BY <1>1, LeastOf
<1>3. PICK m \in S : d = b - m
  BY <1>2
<1>4. \A n \in S : b - n \in D
  OBVIOUS
<1> HIDE DEF D
<1>5. \A n \in S : n <= m
  BY <1>2, <1>3, <1>4
<1> QED BY <1>5 DEF Max

(* Induction over 0 .. n by sets: one that holds 0 and each successor.     *)
LEMMA UpTo ==
  ASSUME NEW n \in Nat, NEW S, 0 \in S,
         \A i \in 0 .. n - 1 : i \in S => i + 1 \in S
  PROVE  0 .. n \subseteq S
<1> DEFINE bad == (0 .. n) \ S
<1> SUFFICES ASSUME bad # {} PROVE FALSE
  OBVIOUS
<1>1. bad \in SUBSET Nat
  OBVIOUS
<1>2. PICK m \in bad : \A k \in bad : m <= k
  BY <1>1, LeastOf
<1>3. m \in 0 .. n /\ m \notin S /\ m # 0
  BY <1>2
<1>4. m - 1 \in 0 .. n - 1 /\ (m - 1) + 1 = m /\ m - 1 \in 0 .. n
  BY <1>3
<1>5. m - 1 \notin bad
  BY <1>2, <1>3, <1>4
<1> QED BY <1>3, <1>4, <1>5

(* a has an entry in s before one of b's.                                  *)
Before(s, a, b) == \E i, j \in 1 .. Len(s) : i < j /\ s[i] = a /\ s[j] = b

(* No entry occurs twice.                                                  *)
Distinct(s) == \A a : ~Before(s, a, a)

LEMMA DistinctIsInjective ==
  ASSUME NEW T, NEW s \in Seq(T)
  PROVE  Distinct(s) <=> \A i, j \in 1 .. Len(s) : s[i] = s[j] => i = j
<1> DEFINE n == Len(s)
<1>1. n \in Nat
  OBVIOUS
<1>2. Distinct(s) <=> \A i, j \in 1 .. n : i < j => s[i] # s[j]
  BY Zenon DEF Distinct, Before
<1> HIDE DEF n
<1>3. (\A i, j \in 1 .. n : i < j => s[i] # s[j]) <=> \A i, j \in 1 .. n : s[i] = s[j] => i = j
  <2>1. ASSUME \A i, j \in 1 .. n : i < j => s[i] # s[j],
               NEW i \in 1 .. n, NEW j \in 1 .. n, s[i] = s[j]
        PROVE  i = j
    <3>1. ~(i < j) /\ ~(j < i)
      BY <2>1
    <3> QED BY <3>1, <1>1
  <2>2. ASSUME \A i, j \in 1 .. n : s[i] = s[j] => i = j,
               NEW i \in 1 .. n, NEW j \in 1 .. n, i < j
        PROVE  s[i] # s[j]
    <3>1. i # j
      BY <2>2, <1>1
    <3> QED BY <2>2, <3>1
  <2> QED BY <2>1, <2>2
<1> QED BY <1>2, <1>3 DEF n

LEMMA BeforeIn ==
  ASSUME NEW T, NEW s \in Seq(T), NEW a, NEW b, Before(s, a, b)
  PROVE  a \in ToSet(s) /\ b \in ToSet(s)
<1>1. DOMAIN s = 1 .. Len(s)
  OBVIOUS
<1> QED BY <1>1 DEF Before, ToSet

LEMMA ToSetIn ==
  ASSUME NEW T, NEW s \in Seq(T)
  PROVE  /\ ToSet(s) = {s[i] : i \in 1 .. Len(s)}
         /\ ToSet(s) \subseteq T
         /\ Len(s) \in Nat
<1>1. DOMAIN s = 1 .. Len(s) /\ Len(s) \in Nat
  OBVIOUS
<1>2. \A i \in 1 .. Len(s) : s[i] \in T
  OBVIOUS
<1> QED BY <1>1, <1>2 DEF ToSet

LEMMA EmptyEntries ==
  ToSet(<<>>) = {} /\ \A a, b : ~Before(<<>>, a, b)
BY DEF ToSet, Before

LEMMA NoEntries ==
  ASSUME NEW T, NEW s \in Seq(T), ToSet(s) = {}
  PROVE  Len(s) = 0
<1>1. ToSet(s) = {s[i] : i \in 1 .. Len(s)} /\ Len(s) \in Nat
  BY ToSetIn
<1>2. 1 \notin 1 .. Len(s)
  BY <1>1
<1> QED BY <1>1, <1>2

LEMMA AppendEntries ==
  ASSUME NEW T, NEW s \in Seq(T), NEW e \in T
  PROVE  /\ Append(s, e) \in Seq(T) /\ Len(Append(s, e)) = Len(s) + 1
         /\ ToSet(Append(s, e)) = ToSet(s) \cup {e}
         /\ \A a, b : Before(Append(s, e), a, b) <=>
              Before(s, a, b) \/ (b = e /\ a \in ToSet(s))
<1> DEFINE t == Append(s, e)
           n == Len(s)
<1>1. n \in Nat /\ t \in Seq(T) /\ Len(t) = n + 1 /\ t[n + 1] = e
      /\ \A i \in 1 .. n : t[i] = s[i]
  OBVIOUS
<1>2. ToSet(s) = {s[i] : i \in 1 .. n} /\ ToSet(t) = {t[i] : i \in 1 .. n + 1}
  BY <1>1, ToSetIn
<1> HIDE DEF t
<1>3. ToSet(t) = ToSet(s) \cup {e}
  <2>1. ASSUME NEW x \in ToSet(t) PROVE x \in ToSet(s) \cup {e}
    BY <1>1, <1>2
  <2>2. ToSet(s) \subseteq ToSet(t)
    <3>1. \A i \in 1 .. n : s[i] = t[i] /\ i \in 1 .. n + 1
      BY <1>1
    <3> QED BY <3>1, <1>2
  <2>3. e \in ToSet(t)
    <3>1. n + 1 \in 1 .. n + 1
      BY <1>1
    <3> QED BY <3>1, <1>1, <1>2
  <2> QED BY <2>1, <2>2, <2>3
<1>4. ASSUME NEW a, NEW b, Before(t, a, b) PROVE Before(s, a, b) \/ (b = e /\ a \in ToSet(s))
  <2>1. PICK i \in 1 .. n + 1, j \in 1 .. n + 1 : i < j /\ t[i] = a /\ t[j] = b
    BY <1>4, <1>1 DEF Before
  <2>2. i \in 1 .. n /\ s[i] = a
    BY <2>1, <1>1
  <2>3. CASE j = n + 1
    BY <2>1, <2>2, <2>3, <1>1, <1>2
  <2>4. CASE j # n + 1
    <3>1. j \in 1 .. n /\ s[j] = b
      BY <2>1, <2>4, <1>1
    <3> QED BY <2>1, <2>2, <3>1 DEF Before
  <2> QED BY <2>3, <2>4
<1>5. ASSUME NEW a, NEW b, Before(s, a, b) PROVE Before(t, a, b)
  <2>1. PICK i \in 1 .. n, j \in 1 .. n : i < j /\ s[i] = a /\ s[j] = b
    BY <1>5 DEF Before
  <2>2. i \in 1 .. n + 1 /\ j \in 1 .. n + 1 /\ t[i] = a /\ t[j] = b
    BY <2>1, <1>1
  <2> QED BY <2>1, <2>2, <1>1 DEF Before
<1>6. ASSUME NEW a \in ToSet(s) PROVE Before(t, a, e)
  <2>1. PICK i \in 1 .. n : s[i] = a
    BY <1>2
  <2>2. i \in 1 .. n + 1 /\ n + 1 \in 1 .. n + 1 /\ i < n + 1 /\ t[i] = a
    BY <2>1, <1>1
  <2> QED BY <2>2, <1>1 DEF Before
<1>7. \A a, b : Before(t, a, b) <=> Before(s, a, b) \/ (b = e /\ a \in ToSet(s))
  BY <1>4, <1>5, <1>6
<1> QED BY <1>1, <1>3, <1>7 DEF t

LEMMA ConcatEntries ==
  ASSUME NEW T, NEW s \in Seq(T), NEW u \in Seq(T)
  PROVE  /\ s \o u \in Seq(T) /\ Len(s \o u) = Len(s) + Len(u)
         /\ ToSet(s \o u) = ToSet(s) \cup ToSet(u)
         /\ \A a, b : Before(s \o u, a, b) <=>
              Before(s, a, b) \/ Before(u, a, b) \/ (a \in ToSet(s) /\ b \in ToSet(u))
<1> DEFINE t == s \o u
           n == Len(s)
           m == Len(u)
<1>1. n \in Nat /\ m \in Nat /\ t \in Seq(T) /\ Len(t) = n + m
      /\ (\A i \in 1 .. n : t[i] = s[i]) /\ (\A i \in 1 .. m : t[n + i] = u[i])
  OBVIOUS
<1>2. /\ ToSet(s) = {s[i] : i \in 1 .. n} /\ ToSet(u) = {u[i] : i \in 1 .. m}
      /\ ToSet(t) = {t[i] : i \in 1 .. n + m}
  BY <1>1, ToSetIn
<1> HIDE DEF t, n, m
<1>0. \A i \in 1 .. n + m : i \in 1 .. n \/ (i - n \in 1 .. m /\ n + (i - n) = i)
  BY <1>1
<1>a. \A i \in 1 .. n : i \in 1 .. n + m
  BY <1>1
<1>b. \A i \in 1 .. m : n + i \in 1 .. n + m
  BY <1>1
<1>3. ToSet(t) = ToSet(s) \cup ToSet(u)
  <2>1. ASSUME NEW i \in 1 .. n + m PROVE t[i] \in ToSet(s) \cup ToSet(u)
    <3>1. CASE i \in 1 .. n
      BY <3>1, <1>1, <1>2
    <3>2. CASE i - n \in 1 .. m /\ n + (i - n) = i
      <4>1. t[i] = u[i - n]
        BY <3>2, <1>1
      <4> QED BY <4>1, <3>2, <1>2
    <3> QED BY <3>1, <3>2, <1>0
  <2>2. ToSet(s) \subseteq ToSet(t)
    BY <1>a, <1>1, <1>2
  <2>3. ToSet(u) \subseteq ToSet(t)
    BY <1>b, <1>1, <1>2
  <2> QED BY <2>1, <2>2, <2>3, <1>2
<1>4. ASSUME NEW a, NEW b, Before(t, a, b)
      PROVE  Before(s, a, b) \/ Before(u, a, b) \/ (a \in ToSet(s) /\ b \in ToSet(u))
  <2>1. PICK i \in 1 .. n + m, j \in 1 .. n + m : i < j /\ t[i] = a /\ t[j] = b
    BY <1>4, <1>1 DEF Before
  <2>2. CASE j \in 1 .. n
    <3>1. i \in 1 .. n /\ s[i] = a /\ s[j] = b
      BY <2>1, <2>2, <1>1
    <3> QED BY <2>1, <2>2, <3>1 DEF Before, n
  <2>3. CASE i \in 1 .. n /\ j \notin 1 .. n
    <3>1. j - n \in 1 .. m /\ n + (j - n) = j
      BY <2>1, <2>3, <1>0
    <3>2. a = s[i] /\ b = u[j - n]
      BY <2>1, <2>3, <3>1, <1>1
    <3> QED BY <2>3, <3>1, <3>2, <1>2
  <2>4. CASE i \notin 1 .. n /\ j \notin 1 .. n
    <3>1. i - n \in 1 .. m /\ n + (i - n) = i /\ j - n \in 1 .. m /\ n + (j - n) = j
      BY <2>1, <2>4, <1>0
    <3>2. a = u[i - n] /\ b = u[j - n]
      BY <2>1, <3>1, <1>1
    <3>3. i - n < j - n
      BY <2>1, <1>1
    <3> QED BY <3>1, <3>2, <3>3 DEF Before, m
  <2> QED BY <2>2, <2>3, <2>4
<1>5. ASSUME NEW a, NEW b, Before(s, a, b) PROVE Before(t, a, b)
  <2>1. PICK i \in 1 .. n, j \in 1 .. n : i < j /\ s[i] = a /\ s[j] = b
    BY <1>5 DEF Before, n
  <2>2. i \in 1 .. n + m /\ j \in 1 .. n + m /\ t[i] = a /\ t[j] = b
    BY <2>1, <1>1, <1>a
  <2> QED BY <2>1, <2>2, <1>1 DEF Before
<1>6. ASSUME NEW a, NEW b, Before(u, a, b) PROVE Before(t, a, b)
  <2>1. PICK i \in 1 .. m, j \in 1 .. m : i < j /\ u[i] = a /\ u[j] = b
    BY <1>6 DEF Before, m
  <2>2. n + i \in 1 .. n + m /\ n + j \in 1 .. n + m /\ t[n + i] = a /\ t[n + j] = b /\ n + i < n + j
    BY <2>1, <1>1, <1>b
  <2> QED BY <2>2, <1>1 DEF Before
<1>7. ASSUME NEW a \in ToSet(s), NEW b \in ToSet(u) PROVE Before(t, a, b)
  <2>1. PICK i \in 1 .. n : s[i] = a
    BY <1>2
  <2>2. PICK j \in 1 .. m : u[j] = b
    BY <1>2
  <2>3. i \in 1 .. n + m /\ n + j \in 1 .. n + m /\ t[i] = a /\ t[n + j] = b /\ i < n + j
    BY <2>1, <2>2, <1>1, <1>a, <1>b
  <2> QED BY <2>3, <1>1 DEF Before
<1>8. \A a, b : Before(t, a, b) <=> Before(s, a, b) \/ Before(u, a, b) \/ (a \in ToSet(s) /\ b \in ToSet(u))
  BY <1>4, <1>5, <1>6, <1>7
<1> QED BY <1>1, <1>3, <1>8 DEF t, n, m

LEMMA TailEntries ==
  ASSUME NEW T, NEW s \in Seq(T), s # <<>>
  PROVE  /\ Head(s) \in T /\ Tail(s) \in Seq(T) /\ Len(Tail(s)) = Len(s) - 1
         /\ ToSet(s) = {Head(s)} \cup ToSet(Tail(s))
         /\ \A a, b : Before(s, a, b) <=>
              Before(Tail(s), a, b) \/ (a = Head(s) /\ b \in ToSet(Tail(s)))
<1>1. Head(s) \in T /\ Tail(s) \in Seq(T) /\ Len(Tail(s)) = Len(s) - 1
      /\ <<Head(s)>> \in Seq(T) /\ s = <<Head(s)>> \o Tail(s)
  <2>1. Head(s) \in T /\ Tail(s) \in Seq(T) /\ Len(Tail(s)) = Len(s) - 1
    OBVIOUS
  <2>2. <<Head(s)>> \in Seq(T)
    BY <2>1
  <2>3. s = <<Head(s)>> \o Tail(s)
    OBVIOUS
  <2> QED BY <2>1, <2>2, <2>3
<1>2. ToSet(<<Head(s)>>) = {Head(s)} /\ \A a, b : ~Before(<<Head(s)>>, a, b)
  <2>1. Len(<<Head(s)>>) = 1 /\ DOMAIN <<Head(s)>> = 1 .. 1 /\ <<Head(s)>>[1] = Head(s)
    OBVIOUS
  <2> QED BY <2>1 DEF ToSet, Before
<1>3. /\ ToSet(<<Head(s)>> \o Tail(s)) = ToSet(<<Head(s)>>) \cup ToSet(Tail(s))
      /\ \A a, b : Before(<<Head(s)>> \o Tail(s), a, b) <=>
           \/ Before(<<Head(s)>>, a, b) \/ Before(Tail(s), a, b)
           \/ a \in ToSet(<<Head(s)>>) /\ b \in ToSet(Tail(s))
  BY <1>1, ConcatEntries
<1>4. ToSet(s) = {Head(s)} \cup ToSet(Tail(s))
  BY <1>1, <1>2, <1>3
<1>5. \A a, b : Before(s, a, b) <=> Before(Tail(s), a, b) \/ (a = Head(s) /\ b \in ToSet(Tail(s)))
  BY <1>1, <1>2, <1>3
<1> QED BY <1>1, <1>4, <1>5

(* A sequence without repetitions is as long as its set of entries.        *)
LEMMA DistinctLength ==
  ASSUME NEW T, NEW s \in Seq(T), Distinct(s)
  PROVE  IsFiniteSet(ToSet(s)) /\ Cardinality(ToSet(s)) = Len(s)
<1>1. Len(s) \in Nat /\ s \in [1 .. Len(s) -> ToSet(s)]
  <2>1. Len(s) \in Nat /\ s \in [1 .. Len(s) -> T] /\ ToSet(s) = {s[i] : i \in 1 .. Len(s)}
    BY ToSetIn
  <2> QED BY <2>1
<1>2. s \in Bijection(1 .. Len(s), ToSet(s))
  <2>1. \A i, j \in 1 .. Len(s) : s[i] = s[j] => i = j
    BY DistinctIsInjective
  <2>2. \A x \in ToSet(s) : \E i \in 1 .. Len(s) : s[i] = x
    BY ToSetIn
  <2> QED BY <1>1, <2>1, <2>2 DEF Bijection, Injection, Surjection, IsInjective
<1>3. ExistsBijection(1 .. Len(s), ToSet(s))
  BY <1>2 DEF ExistsBijection
<1> QED BY <1>1, <1>3, FS_CountingElements, FS_NatBijection

(***************************************************************************)
(* Without, one entry at a time                                            *)
(***************************************************************************)
Keeping(s, S, n, kept) ==
  kept = [m \in 0 .. n |-> IF m = 0 THEN <<>>
                           ELSE IF s[m] \in S THEN kept[m - 1] ELSE Append(kept[m - 1], s[m])]

(* What Without chooses exists.                                            *)
LEMMA KeepingExists ==
  ASSUME NEW s, NEW S, NEW n \in Nat
  PROVE  \E kept : Keeping(s, S, n, kept)
<1> DEFINE good == {i \in 0 .. n : \E kept : Keeping(s, S, i, kept)}
<1>1. 0 \in good
  <2> DEFINE g == [m \in 0 .. 0 |-> <<>>]
  <2>1. g = [m \in 0 .. 0 |-> IF m = 0 THEN <<>>
                              ELSE IF s[m] \in S THEN g[m - 1] ELSE Append(g[m - 1], s[m])]
    <3>1. \A m \in 0 .. 0 : m = 0
      OBVIOUS
    <3> QED BY <3>1
  <2> HIDE DEF g
  <2>2. Keeping(s, S, 0, g)
    BY <2>1 DEF Keeping
  <2> QED BY <2>2
<1>2. ASSUME NEW i \in 0 .. n - 1, i \in good PROVE i + 1 \in good
  <2>1. PICK g : Keeping(s, S, i, g)
    BY <1>2
  <2> DEFINE next(m) == IF s[m] \in S THEN g[m - 1] ELSE Append(g[m - 1], s[m])
             h == [m \in 0 .. i + 1 |-> IF m = i + 1 THEN next(i + 1) ELSE g[m]]
  <2>2. h = [m \in 0 .. i + 1 |-> IF m = 0 THEN <<>>
                                  ELSE IF s[m] \in S THEN h[m - 1] ELSE Append(h[m - 1], s[m])]
    <3> SUFFICES ASSUME NEW m \in 0 .. i + 1
                 PROVE  h[m] = IF m = 0 THEN <<>>
                               ELSE IF s[m] \in S THEN h[m - 1] ELSE Append(h[m - 1], s[m])
      OBVIOUS
    <3>1. CASE m = i + 1
      <4>1. m # 0 /\ m - 1 = i /\ i \in 0 .. i + 1 /\ i # i + 1
        BY <3>1
      <4>2. h[m] = next(m) /\ h[m - 1] = g[m - 1]
        BY <3>1, <4>1
      <4> QED BY <4>1, <4>2
    <3>2. CASE m # i + 1
      <4>1. m \in 0 .. i /\ (m # 0 => m - 1 \in 0 .. i /\ m - 1 # i + 1 /\ m - 1 \in 0 .. i + 1)
        BY <3>2
      <4>2. g[m] = IF m = 0 THEN <<>>
                   ELSE IF s[m] \in S THEN g[m - 1] ELSE Append(g[m - 1], s[m])
        BY <2>1, <4>1 DEF Keeping
      <4>3. h[m] = g[m] /\ (m # 0 => h[m - 1] = g[m - 1])
        BY <3>2, <4>1
      <4> QED BY <4>2, <4>3
    <3> QED BY <3>1, <3>2
  <2> HIDE DEF h
  <2>3. Keeping(s, S, i + 1, h)
    BY <2>2 DEF Keeping
  <2> QED BY <2>3
<1> HIDE DEF good
<1>3. 0 .. n \subseteq good
  BY <1>1, <1>2, UpTo
<1> QED BY <1>3 DEF good

(* Without keeps the entries not in S, in their order.                     *)
LEMMA WithoutEntries ==
  ASSUME NEW T, NEW s \in Seq(T), NEW S
  PROVE  /\ Without(s, S) \in Seq(T)
         /\ ToSet(Without(s, S)) = ToSet(s) \ S
         /\ \A a, b : Before(Without(s, S), a, b) <=> Before(s, a, b) /\ a \notin S /\ b \notin S
<1> DEFINE n == Len(s)
           f == CHOOSE kept : Keeping(s, S, n, kept)
           Early(m) == {s[i] : i \in 1 .. m}
           Pair(m, a, b) == \E i, j \in 1 .. m : i < j /\ s[i] = a /\ s[j] = b
<1>1. n \in Nat /\ \A i \in 1 .. n : s[i] \in T
  OBVIOUS
<1>2. Without(s, S) = f[n]
  BY DEF Without, Keeping
<1>3. Keeping(s, S, n, f)
  BY <1>1, KeepingExists
<1> HIDE DEF f, n
<1>4. f[0] = <<>> /\ \A m \in 1 .. n : f[m] = IF s[m] \in S THEN f[m - 1] ELSE Append(f[m - 1], s[m])
  <2>1. \A m \in 0 .. n : f[m] = IF m = 0 THEN <<>>
                                 ELSE IF s[m] \in S THEN f[m - 1] ELSE Append(f[m - 1], s[m])
    BY <1>3 DEF Keeping
  <2>2. 0 \in 0 .. n /\ \A m \in 1 .. n : m \in 0 .. n /\ m # 0
    BY <1>1
  <2> QED BY <2>1, <2>2
<1> DEFINE Ok(m) == /\ f[m] \in Seq(T) /\ ToSet(f[m]) = Early(m) \ S
                    /\ \A a, b : Before(f[m], a, b) <=> Pair(m, a, b) /\ a \notin S /\ b \notin S
           good == {m \in 0 .. n : Ok(m)}
<1>5. 0 \in good
  <2>1. Early(0) = {} /\ \A a, b : ~Pair(0, a, b)
    OBVIOUS
  <2>2. f[0] = <<>> /\ <<>> \in Seq(T)
    BY <1>4
  <2> HIDE DEF Early, Pair
  <2>3. Ok(0)
    BY <2>1, <2>2, EmptyEntries
  <2> QED BY <1>1, <2>3
<1>6. ASSUME NEW m \in 0 .. n - 1, m \in good PROVE m + 1 \in good
  <2> DEFINE e == s[m + 1]
  <2>1. m + 1 \in 1 .. n /\ (m + 1) - 1 = m /\ e \in T /\ m + 1 \in 0 .. n /\ m \in Nat
    BY <1>1
  <2>2. f[m + 1] = IF e \in S THEN f[m] ELSE Append(f[m], e)
    BY <1>4, <2>1
  <2>3. \A i \in 1 .. m + 1 : i \in 1 .. m \/ i = m + 1
    BY <2>1
  <2>4. \A i \in 1 .. m : i \in 1 .. m + 1
    BY <2>1
  <2>5. m + 1 \in 1 .. m + 1
    BY <2>1
  <2>6. Early(m + 1) = Early(m) \cup {e}
    BY <2>3, <2>4, <2>5
  <2>7. \A a, b : Pair(m + 1, a, b) <=> Pair(m, a, b) \/ (b = e /\ a \in Early(m))
    <3>1. ASSUME NEW a, NEW b, Pair(m + 1, a, b) PROVE Pair(m, a, b) \/ (b = e /\ a \in Early(m))
      <4>1. PICK i \in 1 .. m + 1, j \in 1 .. m + 1 : i < j /\ s[i] = a /\ s[j] = b
        BY <3>1
      <4>2. i \in 1 .. m
        BY <4>1, <2>1
      <4> QED BY <4>1, <4>2, <2>3
    <3>2. ASSUME NEW a, NEW b, Pair(m, a, b) PROVE Pair(m + 1, a, b)
      BY <3>2, <2>4
    <3>3. ASSUME NEW a \in Early(m) PROVE Pair(m + 1, a, e)
      <4>1. PICK i \in 1 .. m : s[i] = a
        OBVIOUS
      <4>2. i < m + 1
        BY <2>1
      <4> QED BY <4>1, <4>2, <2>4, <2>5
    <3> QED BY <3>1, <3>2, <3>3
  <2>8. Ok(m)
    BY <1>6
  <2> HIDE DEF e, Early, Pair
  <2>9. ASSUME e \in S PROVE Ok(m + 1)
    <3>1. f[m + 1] = f[m]
      BY <2>2, <2>9
    <3>2. Early(m + 1) \ S = Early(m) \ S
      BY <2>6, <2>9
    <3>3. \A a, b : Pair(m + 1, a, b) /\ a \notin S /\ b \notin S
                      <=> Pair(m, a, b) /\ a \notin S /\ b \notin S
      BY <2>7, <2>9
    <3>4. Ok(m + 1)
      BY <2>8, <3>1, <3>2, <3>3
    <3> QED BY <3>4
  <2>10. ASSUME e \notin S PROVE Ok(m + 1)
    <3>1. f[m + 1] = Append(f[m], e)
      BY <2>2, <2>10
    <3>2. Early(m + 1) \ S = (Early(m) \ S) \cup {e}
      BY <2>6, <2>10
    <3>3. \A a, b : Pair(m + 1, a, b) /\ a \notin S /\ b \notin S
                      <=> (Pair(m, a, b) /\ a \notin S /\ b \notin S)
                          \/ (b = e /\ a \in Early(m) \ S)
      BY <2>7, <2>10
    <3>4. /\ Append(f[m], e) \in Seq(T)
          /\ ToSet(Append(f[m], e)) = ToSet(f[m]) \cup {e}
          /\ \A a, b : Before(Append(f[m], e), a, b) <=>
               Before(f[m], a, b) \/ (b = e /\ a \in ToSet(f[m]))
      BY <2>1, <2>8, AppendEntries
    <3>5. ToSet(f[m + 1]) = Early(m + 1) \ S
      BY <2>8, <3>1, <3>2, <3>4
    <3>6. \A a, b : Before(f[m + 1], a, b) <=> Pair(m + 1, a, b) /\ a \notin S /\ b \notin S
      BY <2>8, <3>1, <3>3, <3>4
    <3> QED BY <3>1, <3>4, <3>5, <3>6
  <2>11. Ok(m + 1)
    BY <2>9, <2>10
  <2> QED BY <2>1, <2>11
<1>7. n \in good
  <2> HIDE DEF good
  <2>1. 0 .. n \subseteq good
    BY <1>1, <1>5, <1>6, UpTo
  <2> QED BY <1>1, <2>1
<1>8. Ok(n)
  BY <1>7
<1>9. Early(n) = ToSet(s) /\ \A a, b : Pair(n, a, b) <=> Before(s, a, b)
  BY ToSetIn DEF Before, n
<1> QED BY <1>2, <1>8, <1>9

(***************************************************************************)
(* Keys                                                                    *)
(***************************************************************************)
Prompt == Seq(Nat) \ {<<>>}
Key    == UNION {ToSet(Keys(r.prompt)) : r \in Request}

LEMMA DivMul ==
  ASSUME NEW a \in Nat, NEW t \in Nat \ {0}
  PROVE  /\ a \div t \in Nat
         /\ (a \div t) * t <= a
         /\ a < (a \div t) * t + t
BY SMTT(60)

LEMMA MulMono ==
  ASSUME NEW i \in Nat, NEW j \in Nat, NEW t \in Nat, i <= j
  PROVE  i * t <= j * t /\ i * t \in Nat /\ j * t \in Nat
BY SMTT(60)

LEMMA MulNext ==
  ASSUME NEW i \in Int, NEW t \in Nat
  PROVE  (i + 1) * t = i * t + t /\ (i - 1) * t = i * t - t /\ i * t \in Int
BY SMTT(60)

(* The last page of a prompt is not empty and may be partial.              *)
LEMMA PageCount ==
  ASSUME NEW p \in Prompt
  PROVE  /\ Len(p) \in Nat \ {0}
         /\ NumPages(p) \in Nat \ {0}
         /\ (NumPages(p) - 1) * TokensPerPage < Len(p)
         /\ Len(p) <= NumPages(p) * TokensPerPage
<1> DEFINE t == TokensPerPage
           l == Len(p)
           n == NumPages(p)
<1>1. t \in Nat \ {0} /\ l \in Nat \ {0}
  BY PrefixKvAssumption DEF Prompt
<1>2. n = (l + t - 1) \div t
  BY DEF NumPages
<1> HIDE DEF t, l, n
<1>3. l + t - 1 \in Nat
  BY <1>1
<1>4. n \in Nat /\ n * t <= l + t - 1 /\ l + t - 1 < n * t + t
  BY <1>1, <1>2, <1>3, DivMul
<1>5. n * t \in Int /\ (n - 1) * t = n * t - t
  BY <1>1, <1>4, MulNext
<1>6. (n - 1) * t < l /\ l <= n * t
  BY <1>1, <1>4, <1>5
<1>7. n # 0
  <2>1. SUFFICES ASSUME n = 0 PROVE FALSE
    OBVIOUS
  <2>2. n * t = 0
    BY <2>1, <1>1
  <2> QED BY <2>2, <1>1, <1>6
<1>8. l \in Nat \ {0} /\ n \in Nat \ {0} /\ (n - 1) * t < l /\ l <= n * t
  BY <1>1, <1>4, <1>6, <1>7
<1> QED BY <1>8 DEF t, l, n

(* Page ends ascend to the prompt's length; all but the last are full.     *)
LEMMA PageEnds ==
  ASSUME NEW p \in Prompt, NEW i \in 0 .. NumPages(p)
  PROVE  /\ PageEnd(p, i) \in 0 .. Len(p)
         /\ PageEnd(p, 0) = 0
         /\ PageEnd(p, NumPages(p)) = Len(p)
         /\ i # 0 => PageEnd(p, i) # 0
         /\ i < NumPages(p) => PageEnd(p, i) = i * TokensPerPage /\ PageEnd(p, i) < Len(p)
         /\ \A j \in 0 .. i - 1 : PageEnd(p, j) < PageEnd(p, i)
         /\ PageEnd(p, i) = Smaller(i * TokensPerPage, Len(p))
<1> DEFINE t == TokensPerPage
           l == Len(p)
           n == NumPages(p)
<1>0. t \in Nat \ {0} /\ l \in Nat \ {0} /\ n \in Nat \ {0} /\ (n - 1) * t < l /\ l <= n * t
      /\ i \in 0 .. n
  BY PageCount, PrefixKvAssumption
<1>1. \A j : PageEnd(p, j) = IF j * t < l THEN j * t ELSE l
  BY DEF PageEnd, Smaller
<1>a. PageEnd(p, i) = Smaller(i * TokensPerPage, Len(p))
  BY DEF PageEnd
<1> HIDE DEF t, l, n
<1>2. \A j \in 0 .. n : j < n => j * t < l
  <2>1. ASSUME NEW j \in 0 .. n, j < n PROVE j * t < l
    <3>1. j <= n - 1 /\ j \in Nat /\ n - 1 \in Nat
      BY <2>1, <1>0
    <3>2. j * t <= (n - 1) * t /\ j * t \in Nat /\ (n - 1) * t \in Nat
      BY <3>1, <1>0, MulMono
    <3> QED BY <3>2, <1>0
  <2> QED BY <2>1
<1>3. \A j \in 0 .. n : j * t \in Nat
  <2>1. ASSUME NEW j \in 0 .. n PROVE j * t \in Nat
    BY <1>0, MulMono
  <2> QED BY <2>1
<1>4. PageEnd(p, n) = l
  <2>1. ~(n * t < l)
    BY <1>0, <1>3
  <2> QED BY <2>1, <1>1
<1>5. \A j \in 0 .. n : j < n => PageEnd(p, j) = j * t /\ PageEnd(p, j) < l
  BY <1>1, <1>2
<1>6. PageEnd(p, 0) = 0
  <2>1. 0 * t = 0 /\ 0 \in 0 .. n /\ 0 < n
    BY <1>0
  <2> QED BY <2>1, <1>5
<1>7. PageEnd(p, i) \in 0 .. l
  <2>1. i < n \/ i = n
    BY <1>0
  <2> QED BY <2>1, <1>0, <1>3, <1>4, <1>5
<1>8. ASSUME NEW j \in 0 .. i - 1 PROVE PageEnd(p, j) < PageEnd(p, i)
  <2>1. j \in 0 .. n /\ j < n /\ j + 1 <= i /\ j \in Nat /\ j + 1 \in Nat /\ i \in Nat
    BY <1>0, <1>8
  <2>2. CASE i = n
    BY <2>1, <2>2, <1>4, <1>5
  <2>3. CASE i # n
    <3>1. (j + 1) * t <= i * t /\ (j + 1) * t = j * t + t /\ j * t \in Nat /\ i * t \in Nat
      BY <2>1, <1>0, <1>3, MulMono, MulNext
    <3>2. j * t < i * t
      BY <3>1, <1>0
    <3> QED BY <2>1, <2>3, <3>2, <1>0, <1>5
  <2> QED BY <2>2, <2>3
<1>9. i # 0 => PageEnd(p, i) # 0
  <2>1. SUFFICES ASSUME i # 0, PageEnd(p, i) = 0 PROVE FALSE
    OBVIOUS
  <2>2. 0 \in 0 .. i - 1
    BY <2>1, <1>0
  <2> QED BY <2>1, <2>2, <1>6, <1>8
<1>10. i < n => PageEnd(p, i) = i * t /\ PageEnd(p, i) < l
  BY <1>0, <1>5
<1> QED BY <1>a, <1>4, <1>6, <1>7, <1>8, <1>9, <1>10 DEF t, l, n

(* A prompt's keys: its prefixes up to each page's end, all different.     *)
LEMMA KeyFacts ==
  ASSUME NEW p \in Prompt
  PROVE  /\ Keys(p) \in Seq(Prompt) /\ Len(Keys(p)) = NumPages(p)
         /\ \A i \in 1 .. NumPages(p) : /\ Keys(p)[i] = SubSeq(p, 1, PageEnd(p, i))
                                        /\ Len(Keys(p)[i]) = PageEnd(p, i)
         /\ \A i, j \in 1 .. NumPages(p) : Keys(p)[i] = Keys(p)[j] => i = j
         /\ Distinct(Keys(p))
<1> DEFINE n == NumPages(p)
           k == Keys(p)
<1>1. n \in Nat \ {0} /\ Len(p) \in Nat \ {0} /\ p \in Seq(Nat)
  BY PageCount DEF Prompt
<1>2. k = [i \in 1 .. n |-> SubSeq(p, 1, PageEnd(p, i))]
  BY DEF Keys
<1>3. ASSUME NEW i \in 1 .. n
      PROVE  /\ PageEnd(p, i) \in 1 .. Len(p)
             /\ \A j \in 0 .. i - 1 : PageEnd(p, j) < PageEnd(p, i)
             /\ k[i] = SubSeq(p, 1, PageEnd(p, i))
             /\ k[i] \in Prompt /\ Len(k[i]) = PageEnd(p, i)
  <2>1. /\ PageEnd(p, i) \in 0 .. Len(p) /\ PageEnd(p, i) # 0
        /\ \A j \in 0 .. i - 1 : PageEnd(p, j) < PageEnd(p, i)
    <3>1. i \in 0 .. NumPages(p) /\ i # 0
      BY <1>1
    <3> QED BY <3>1, PageEnds
  <2>2. PageEnd(p, i) \in 1 .. Len(p)
    BY <2>1, <1>1
  <2>3. k[i] = SubSeq(p, 1, PageEnd(p, i))
    BY <1>2
  <2> HIDE DEF k
  <2>4. SubSeq(p, 1, PageEnd(p, i)) \in Seq(Nat) /\ Len(SubSeq(p, 1, PageEnd(p, i))) = PageEnd(p, i)
    BY <2>2, <1>1
  <2>5. k[i] # <<>>
    BY <2>2, <2>3, <2>4
  <2> QED BY <2>1, <2>2, <2>3, <2>4, <2>5 DEF Prompt
<1> HIDE DEF k, n
<1>4. k \in Seq(Prompt) /\ Len(k) = n
  BY <1>1, <1>2, <1>3
<1>5. ASSUME NEW i \in 1 .. n, NEW j \in 1 .. n, k[i] = k[j] PROVE i = j
  <2>1. PageEnd(p, i) = PageEnd(p, j) /\ PageEnd(p, i) \in Nat
    BY <1>3, <1>5
  <2>2. i < j => PageEnd(p, i) < PageEnd(p, j)
    BY <1>1, <1>3
  <2>3. j < i => PageEnd(p, j) < PageEnd(p, i)
    BY <1>1, <1>3
  <2> QED BY <1>1, <2>1, <2>2, <2>3
<1>6. Distinct(k)
  BY <1>4, <1>5, DistinctIsInjective
<1> QED BY <1>3, <1>4, <1>5, <1>6 DEF k, n

LEMMA RequestFacts ==
  ASSUME NEW r \in Request
  PROVE  r.prompt \in Prompt /\ r.maxNew \in Nat /\ Keys(r.prompt) \in Seq(Key)
<1>1. r.prompt \in Prompt /\ r.maxNew \in Nat
  BY CpuEngineAssumption DEF Prompt
<1>2. Keys(r.prompt) \in Seq(Prompt) /\ ToSet(Keys(r.prompt)) \subseteq Key
  BY <1>1, KeyFacts DEF Key
<1>3. \A i \in 1 .. Len(Keys(r.prompt)) : Keys(r.prompt)[i] \in Key
  BY <1>2, ToSetIn
<1>4. Keys(r.prompt) \in Seq(Key)
  BY <1>2, <1>3
<1> QED BY <1>1, <1>4

(* The keys before page h + 1.                                             *)
LEMMA LeadingKeys ==
  ASSUME NEW p \in Prompt, NEW h \in 0 .. NumPages(p), NEW T, Keys(p) \in Seq(T)
  PROVE  /\ SubSeq(Keys(p), 1, h) \in Seq(T) /\ Len(SubSeq(Keys(p), 1, h)) = h
         /\ ToSet(SubSeq(Keys(p), 1, h)) = {Keys(p)[i] : i \in 1 .. h}
         /\ Distinct(SubSeq(Keys(p), 1, h))
         /\ \A i \in 1 .. h : SubSeq(Keys(p), 1, h)[i] = Keys(p)[i]
<1> DEFINE k == Keys(p)
           q == SubSeq(k, 1, h)
           n == NumPages(p)
<1>1. Len(k) = n /\ n \in Nat /\ \A i, j \in 1 .. n : k[i] = k[j] => i = j
  BY KeyFacts, PageCount
<1> HIDE DEF k, n
<1>2. q \in Seq(T) /\ Len(q) = h /\ \A i \in 1 .. h : q[i] = k[i]
  BY <1>1 DEF k, n
<1> HIDE DEF q
<1>3. ToSet(q) = {k[i] : i \in 1 .. h}
  BY <1>2, ToSetIn
<1>4. Distinct(q)
  <2>1. \A i \in 1 .. h : i \in 1 .. n
    BY <1>1 DEF n
  <2> QED BY <1>1, <1>2, <2>1, DistinctIsInjective
<1> QED BY <1>2, <1>3, <1>4 DEF k, q

(* hits is the number of leading keys that are indexed.                    *)
LEMMA HitFacts ==
  ASSUME NEW p \in Prompt, NEW c
  PROVE  /\ Hits(c, Keys(p)) \in 0 .. NumPages(p)
         /\ \A i \in 1 .. Hits(c, Keys(p)) : Keys(p)[i] \in Indexed(c)
         /\ Hits(c, Keys(p)) < NumPages(p) => Keys(p)[Hits(c, Keys(p)) + 1] \notin Indexed(c)
<1> DEFINE k == Keys(p)
           n == NumPages(p)
           Good(m) == \A i \in 1 .. m : k[i] \in Indexed(c)
           S == {m \in 0 .. n : Good(m)}
<1>1. n \in Nat /\ Len(k) = n
  BY KeyFacts, PageCount
<1>2. Hits(c, k) = Max(S)
  BY <1>1 DEF Hits
<1> HIDE DEF k, n
<1>3. 0 \in S
  BY <1>1
<1>4. S \in SUBSET (0 .. n) /\ S # {}
  BY <1>3
<1>5. Max(S) \in S /\ \A m \in S : m <= Max(S)
  <2> HIDE DEF S
  <2> QED BY <1>1, <1>4, GreatestOf
<1> DEFINE h == Hits(c, k)
<1>6. h \in 0 .. n /\ Good(h)
  BY <1>2, <1>5
<1>7. ASSUME h < n PROVE k[h + 1] \notin Indexed(c)
  <2>1. SUFFICES ASSUME k[h + 1] \in Indexed(c) PROVE FALSE
    OBVIOUS
  <2> HIDE DEF h
  <2>2. h + 1 \in 0 .. n /\ h \in Nat
    BY <1>1, <1>6, <1>7
  <2>3. \A i \in 1 .. h + 1 : i \in 1 .. h \/ i = h + 1
    BY <2>2
  <2>4. Good(h + 1)
    BY <2>1, <2>3, <1>6
  <2>5. h + 1 \in S
    BY <2>2, <2>4
  <2>6. h = Max(S)
    BY <1>2 DEF h
  <2>7. h + 1 <= h
    BY <2>5, <2>6, <1>5
  <2> QED BY <2>2, <2>7
<1> HIDE DEF h
<1> QED BY <1>6, <1>7 DEF k, n, h

(***************************************************************************)
(* The cache                                                               *)
(***************************************************************************)

(* The prompt of some request.                                             *)
Sent(p) == \E r \in Request : p = r.prompt

(* The cache's books: what CacheAccounts says of a cache, with the types   *)
(* it needs and that no key is indexed twice.                              *)
Accounts(c) ==
  /\ c = [lru |-> c.lru, block |-> c.block, free |-> c.free, pages |-> c.pages]
  /\ c.lru \in Seq(Key) /\ Distinct(c.lru)
  /\ c.free \in Seq(1 .. PoolBlocks)
  /\ DOMAIN c.block = Indexed(c) /\ DOMAIN c.pages = Indexed(c)
  /\ Len(c.lru) + Len(c.free) = PoolBlocks
  /\ ToSet(c.free) \cup {c.block[k] : k \in Indexed(c)} = 1 .. PoolBlocks

(* A page's data is the state after its key's tokens.                      *)
Own(c) == \A k \in Indexed(c) : c.pages[k] = k

LEMMA SentFacts ==
  ASSUME NEW p, Sent(p)
  PROVE  p \in Prompt /\ Keys(p) \in Seq(Key)
BY RequestFacts DEF Sent

LEMMA TouchFacts ==
  ASSUME NEW lru \in Seq(Key), NEW keys \in Seq(Key), Distinct(lru), Distinct(keys)
  PROVE  /\ Touch(lru, keys) \in Seq(Key) /\ Distinct(Touch(lru, keys))
         /\ ToSet(Touch(lru, keys)) = ToSet(lru) \cup ToSet(keys)
         /\ \A a, b : Before(Touch(lru, keys), a, b) <=>
              \/ Before(lru, a, b) /\ a \notin ToSet(keys) /\ b \notin ToSet(keys)
              \/ Before(keys, a, b)
              \/ a \in ToSet(lru) \ ToSet(keys) /\ b \in ToSet(keys)
<1> DEFINE w == Without(lru, ToSet(keys))
<1>1. /\ w \in Seq(Key) /\ ToSet(w) = ToSet(lru) \ ToSet(keys)
      /\ \A a, b : Before(w, a, b) <=> Before(lru, a, b) /\ a \notin ToSet(keys) /\ b \notin ToSet(keys)
  BY WithoutEntries
<1> HIDE DEF w
<1>2. Touch(lru, keys) = w \o keys
  BY DEF Touch, w
<1>3. /\ w \o keys \in Seq(Key) /\ ToSet(w \o keys) = ToSet(w) \cup ToSet(keys)
      /\ \A a, b : Before(w \o keys, a, b) <=>
           Before(w, a, b) \/ Before(keys, a, b) \/ (a \in ToSet(w) /\ b \in ToSet(keys))
  BY <1>1, ConcatEntries
<1>4. \A a, b : Before(w \o keys, a, b) <=>
        \/ Before(lru, a, b) /\ a \notin ToSet(keys) /\ b \notin ToSet(keys)
        \/ Before(keys, a, b)
        \/ a \in ToSet(lru) \ ToSet(keys) /\ b \in ToSet(keys)
  BY <1>1, <1>3
<1>5. Distinct(w \o keys)
  BY <1>4 DEF Distinct
<1> QED BY <1>1, <1>2, <1>3, <1>4, <1>5

(* A plan that does not fit only touches what it would have reused.        *)
Unfitted(c, p, h, hit, d) ==
  /\ NumPages(p) - h > Len(c.free)
  /\ d = [c EXCEPT !.lru = Touch(c.lru, hit)]
  /\ d.lru = Touch(c.lru, hit)
  /\ Accounts(d) /\ Indexed(d) = Indexed(c)
  /\ d.free = c.free /\ d.pages = c.pages
  /\ hit \in Seq(Key) /\ Distinct(hit)
  /\ ToSet(hit) = {Keys(p)[i] : i \in 1 .. h}
  /\ ToSet(hit) \subseteq Indexed(c)

LEMMA NoFitFacts ==
  ASSUME NEW c, NEW p, Accounts(c), Sent(p), ~Plan(c, p).fits
  PROVE  Unfitted(c, p, Hits(c, Keys(p)), SubSeq(Keys(p), 1, Hits(c, Keys(p))), Plan(c, p).cache)
<1> DEFINE k == Keys(p)
           h == Hits(c, k)
           hit == SubSeq(k, 1, h)
           lru == Touch(c.lru, hit)
           d == Plan(c, p).cache
<1>1. p \in Prompt /\ k \in Seq(Key) /\ Len(k) = NumPages(p)
  BY SentFacts, KeyFacts
<1>2. h \in 0 .. NumPages(p) /\ \A i \in 1 .. h : k[i] \in Indexed(c)
  BY <1>1, HitFacts
<1>3. hit \in Seq(Key) /\ ToSet(hit) = {k[i] : i \in 1 .. h} /\ Distinct(hit)
  BY <1>1, <1>2, LeadingKeys
<1>4. c.lru \in Seq(Key) /\ Distinct(c.lru) /\ Indexed(c) = ToSet(c.lru)
  BY DEF Accounts, Indexed
<1>5. Len(k) - h > Len(c.free) /\ d = [c EXCEPT !.lru = lru]
  BY DEF Plan
<1>6. ToSet(hit) \subseteq Indexed(c)
  BY <1>2, <1>3
<1> HIDE DEF k, h, hit
<1>7. lru \in Seq(Key) /\ Distinct(lru) /\ ToSet(lru) = Indexed(c)
  <2>1. lru \in Seq(Key) /\ Distinct(lru) /\ ToSet(lru) = ToSet(c.lru) \cup ToSet(hit)
    BY <1>3, <1>4, TouchFacts
  <2> QED BY <2>1, <1>4, <1>6
<1> HIDE DEF lru, d
<1>8. d = [lru |-> lru, block |-> c.block, free |-> c.free, pages |-> c.pages]
  BY <1>5 DEF Accounts
<1>9. d.lru = lru /\ d.block = c.block /\ d.free = c.free /\ d.pages = c.pages
  BY <1>8
<1>10. Indexed(d) = Indexed(c)
  BY <1>7, <1>9 DEF Indexed
<1>11. Len(lru) = Len(c.lru)
  BY <1>4, <1>7, DistinctLength
<1>12. Accounts(d)
  <2>1. d = [lru |-> d.lru, block |-> d.block, free |-> d.free, pages |-> d.pages]
    BY <1>8, <1>9
  <2> QED BY <2>1, <1>7, <1>9, <1>10, <1>11 DEF Accounts
<1>13. Len(k) = NumPages(p)
  BY <1>1
<1>14. Unfitted(c, p, h, hit, d)
  BY <1>3, <1>5, <1>6, <1>9, <1>10, <1>12, <1>13 DEF Unfitted, k, lru
<1> QED BY <1>14 DEF k, h, hit, d

(* An eviction returns the block of the coldest key and drops its data.    *)
LEMMA EvictFacts ==
  ASSUME NEW c, Accounts(c), c.lru # <<>>
  PROVE  /\ Accounts(Evict(c))
         /\ Evict(c).lru = Tail(c.lru)
         /\ Indexed(Evict(c)) = Indexed(c) \ {Head(c.lru)} /\ Head(c.lru) \in Indexed(c)
         /\ Len(Evict(c).free) = Len(c.free) + 1
         /\ \A k \in Indexed(Evict(c)) : Evict(c).pages[k] = c.pages[k]
<1> DEFINE h == Head(c.lru)
           d == Evict(c)
           rest == Indexed(c) \ {h}
<1>1. /\ c.lru \in Seq(Key) /\ Distinct(c.lru) /\ Indexed(c) = ToSet(c.lru)
      /\ c.free \in Seq(1 .. PoolBlocks)
      /\ DOMAIN c.block = Indexed(c) /\ DOMAIN c.pages = Indexed(c)
      /\ Len(c.lru) + Len(c.free) = PoolBlocks
      /\ ToSet(c.free) \cup {c.block[k] : k \in Indexed(c)} = 1 .. PoolBlocks
  BY DEF Accounts, Indexed
<1>2. /\ h \in Key /\ Tail(c.lru) \in Seq(Key) /\ Len(Tail(c.lru)) = Len(c.lru) - 1
      /\ ToSet(c.lru) = {h} \cup ToSet(Tail(c.lru))
      /\ \A a, b : Before(c.lru, a, b) <=>
           Before(Tail(c.lru), a, b) \/ (a = h /\ b \in ToSet(Tail(c.lru)))
  BY <1>1, TailEntries
<1>3. d.lru = Tail(c.lru) /\ d.free = Append(c.free, c.block[h])
      /\ d.block = [x \in DOMAIN c.block \cap rest |-> c.block[x]]
      /\ d.pages = [x \in DOMAIN c.pages \cap rest |-> c.pages[x]]
      /\ d = [lru |-> d.lru, block |-> d.block, free |-> d.free, pages |-> d.pages]
  BY DEF Evict, RestrictTo
<1> HIDE DEF h, d
<1>4. Distinct(Tail(c.lru)) /\ h \notin ToSet(Tail(c.lru))
  BY <1>1, <1>2 DEF Distinct
<1>5. ToSet(Tail(c.lru)) = rest /\ h \in Indexed(c)
  BY <1>1, <1>2, <1>4
<1>6. c.block[h] \in 1 .. PoolBlocks
  BY <1>1, <1>5
<1>7. /\ d.free \in Seq(1 .. PoolBlocks) /\ Len(d.free) = Len(c.free) + 1
      /\ ToSet(d.free) = ToSet(c.free) \cup {c.block[h]}
  <2> DEFINE B == 1 .. PoolBlocks
             e == c.block[h]
  <2>1. c.free \in Seq(B) /\ e \in B
    BY <1>1, <1>6
  <2> HIDE DEF B, e
  <2>2. /\ Append(c.free, e) \in Seq(B) /\ Len(Append(c.free, e)) = Len(c.free) + 1
        /\ ToSet(Append(c.free, e)) = ToSet(c.free) \cup {e}
    BY <2>1, AppendEntries
  <2> QED BY <2>2, <1>3 DEF B, e
<1>8. Indexed(d) = rest
  BY <1>3, <1>5 DEF Indexed
<1>9. /\ DOMAIN d.block = rest /\ DOMAIN d.pages = rest
      /\ \A k \in rest : d.block[k] = c.block[k] /\ d.pages[k] = c.pages[k]
  <2>1. DOMAIN c.block \cap rest = rest /\ DOMAIN c.pages \cap rest = rest
    BY <1>1
  <2> QED BY <2>1, <1>3
<1>10. {d.block[k] : k \in rest} \cup {c.block[h]} = {c.block[k] : k \in Indexed(c)}
  BY <1>5, <1>9
<1>11. Len(d.lru) + Len(d.free) = PoolBlocks
  <2> DEFINE a == Len(c.lru)
             b == Len(c.free)
  <2>1. a \in Nat /\ b \in Nat /\ a + b = PoolBlocks
    BY <1>1, ToSetIn
  <2>2. Len(d.lru) = a - 1 /\ Len(d.free) = b + 1
    BY <1>2, <1>3, <1>7
  <2> HIDE DEF a, b
  <2> QED BY <2>1, <2>2
<1>12. ToSet(d.free) \cup {d.block[k] : k \in Indexed(d)} = 1 .. PoolBlocks
  BY <1>1, <1>7, <1>8, <1>10
<1>13. d.lru \in Seq(Key) /\ Distinct(d.lru)
  BY <1>2, <1>3, <1>4
<1>14. Accounts(d)
  BY <1>3, <1>7, <1>8, <1>9, <1>11, <1>12, <1>13 DEF Accounts
<1> QED BY <1>3, <1>5, <1>7, <1>8, <1>9, <1>14 DEF h, d

(* A sequence cut in two.                                                  *)
LEMMA SplitAt ==
  ASSUME NEW T, NEW s \in Seq(T), NEW n \in 0 .. Len(s)
  PROVE  /\ SubSeq(s, 1, n) \in Seq(T) /\ Len(SubSeq(s, 1, n)) = n
         /\ SubSeq(s, n + 1, Len(s)) \in Seq(T) /\ Len(SubSeq(s, n + 1, Len(s))) = Len(s) - n
         /\ SubSeq(s, 1, n) \o SubSeq(s, n + 1, Len(s)) = s
<1> DEFINE a == SubSeq(s, 1, n)
           b == SubSeq(s, n + 1, Len(s))
<1>1. Len(s) \in Nat /\ n \in Nat /\ n <= Len(s)
  OBVIOUS
<1>2. a \in Seq(T) /\ Len(a) = n /\ \A i \in 1 .. n : a[i] = s[i]
  BY <1>1
<1>3. b \in Seq(T) /\ Len(b) = Len(s) - n /\ \A i \in 1 .. Len(s) - n : b[i] = s[n + i]
  BY <1>1
<1> HIDE DEF a, b
<1>4. a \o b \in Seq(T) /\ Len(a \o b) = Len(s)
  BY <1>1, <1>2, <1>3
<1>5. ASSUME NEW i \in 1 .. Len(s) PROVE (a \o b)[i] = s[i]
  <2>1. CASE i <= n
    BY <1>1, <1>2, <1>3, <2>1
  <2>2. CASE ~(i <= n)
    <3>1. i - n \in 1 .. Len(s) - n /\ n + (i - n) = i
      BY <1>1, <2>2
    <3>2. (a \o b)[i] = b[i - n]
      BY <1>1, <1>2, <1>3, <2>2
    <3> QED BY <1>3, <3>1, <3>2
  <2> QED BY <2>1, <2>2
<1>6. a \o b = s
  BY <1>4, <1>5, SeqEqual
<1> QED BY <1>2, <1>3, <1>6 DEF a, b

(* Ascending lists as many numbers as there are.                           *)
LEMMA AscendingEmpty ==
  ASSUME NEW n \in Nat, NEW S \in SUBSET (1 .. n)
  PROVE  Ascending(S) = <<>> <=> S = {}
<1>1. IsFiniteSet(1 .. n)
  BY FS_Interval
<1>2. IsFiniteSet(S) /\ Cardinality(S) \in Nat /\ (Cardinality(S) = 0 <=> S = {})
  BY <1>1, FS_Subset, FS_CardinalityType, FS_EmptySet
<1>3. DOMAIN Ascending(S) = 1 .. Cardinality(S)
  BY DEF Ascending
<1>4. ASSUME Ascending(S) = <<>> PROVE S = {}
  <2>1. DOMAIN Ascending(S) = {}
    BY <1>4
  <2>2. Cardinality(S) = 0
    <3>1. SUFFICES ASSUME Cardinality(S) # 0 PROVE FALSE
      OBVIOUS
    <3>2. 1 \in 1 .. Cardinality(S)
      BY <3>1, <1>2
    <3> QED BY <3>2, <2>1, <1>3
  <2> QED BY <2>2, <1>2
<1>5. ASSUME S = {} PROVE Ascending(S) = <<>>
  <2>1. Cardinality(S) = 0
    BY <1>2, <1>5
  <2>2. Ascending(S) = [i \in 1 .. 0 |-> CHOOSE s \in S : Cardinality({t \in S : t <= s}) = i]
    BY <2>1 DEF Ascending
  <2> QED BY <2>2
<1> QED BY <1>4, <1>5

(* A plan that fits takes a free block for each page that is not reused,   *)
(* and strands none exactly if none of those pages is indexed.             *)
Fitted(c, p, plan, hits, d) ==
  /\ plan.hits = hits /\ plan.keys = Keys(p)
  /\ NumPages(p) - hits <= Len(c.free)
  /\ d.lru = Touch(c.lru, Keys(p)) /\ d.pages = c.pages
  /\ d = [lru |-> d.lru, block |-> d.block, free |-> d.free, pages |-> d.pages]
  /\ Indexed(d) = Indexed(c) \cup ToSet(Keys(p)) /\ d.lru \in Seq(Key)
  /\ plan.duplicates = <<>> <=>
       \A i \in hits + 1 .. NumPages(p) : Keys(p)[i] \notin Indexed(c)
  /\ plan.duplicates = <<>> =>
       /\ d.free = SubSeq(c.free, NumPages(p) - hits + 1, Len(c.free))
       /\ DOMAIN d.block = Indexed(d)
       /\ Len(d.lru) + Len(d.free) = PoolBlocks
       /\ Distinct(d.lru)
       /\ d.free \in Seq(1 .. PoolBlocks)
       /\ Len(d.free) = Len(c.free) - (NumPages(p) - hits)
       /\ ToSet(d.free) \cup {d.block[k] : k \in Indexed(d)} = 1 .. PoolBlocks

LEMMA FitFacts ==
  ASSUME NEW c, NEW p, Accounts(c), Sent(p), Plan(c, p).fits
  PROVE  Fitted(c, p, Plan(c, p), Hits(c, Keys(p)), Plan(c, p).cache)
<1> DEFINE k == Keys(p)
           n == NumPages(p)
           h == Hits(c, k)
           need == Len(k) - h
           tail == [i \in 1 .. need |-> k[h + i]]
           taken == SubSeq(c.free, 1, need)
           left == SubSeq(c.free, need + 1, Len(c.free))
           fresh == {i \in 1 .. need : tail[i] \notin Indexed(c)}
           dup == Ascending((1 .. need) \ fresh)
           block == [x \in Indexed(c) \cup ToSet(tail) |->
                       IF x \in Indexed(c) THEN c.block[x]
                       ELSE taken[CHOOSE i \in fresh : tail[i] = x]]
           free == left \o [i \in 1 .. Len(dup) |-> taken[dup[i]]]
           lru == Touch(c.lru, k)
           plan == Plan(c, p)
           d == plan.cache
<1>1. p \in Prompt /\ k \in Seq(Key) /\ Len(k) = n /\ n \in Nat \ {0}
      /\ Distinct(k) /\ \A i, j \in 1 .. n : k[i] = k[j] => i = j
  BY SentFacts, KeyFacts, PageCount
<1>2. h \in 0 .. n /\ \A i \in 1 .. h : k[i] \in Indexed(c)
  BY <1>1, HitFacts
<1>3. /\ c.lru \in Seq(Key) /\ Distinct(c.lru) /\ Indexed(c) = ToSet(c.lru)
      /\ c.free \in Seq(1 .. PoolBlocks)
      /\ DOMAIN c.block = Indexed(c) /\ DOMAIN c.pages = Indexed(c)
      /\ Len(c.lru) + Len(c.free) = PoolBlocks
      /\ ToSet(c.free) \cup {c.block[x] : x \in Indexed(c)} = 1 .. PoolBlocks
      /\ c = [lru |-> c.lru, block |-> c.block, free |-> c.free, pages |-> c.pages]
  BY DEF Accounts, Indexed
<1>4. ~(need > Len(c.free))
  BY DEF Plan
<1>5. plan = [fits |-> TRUE, hits |-> h, keys |-> k, duplicates |-> dup,
              cache |-> [c EXCEPT !.lru = lru, !.block = block, !.free = free]]
  BY <1>4 DEF Plan
<1> HIDE DEF plan, k, n, h, dup, block, free, lru
<1>6. plan.hits = h /\ plan.keys = k /\ plan.duplicates = dup
      /\ d = [c EXCEPT !.lru = lru, !.block = block, !.free = free]
  BY <1>5
<1>7. d = [lru |-> lru, block |-> block, free |-> free, pages |-> c.pages]
  BY <1>3, <1>6
<1> HIDE DEF d
<1>8. d.lru = lru /\ d.block = block /\ d.free = free /\ d.pages = c.pages
  BY <1>7
<1>9. need \in Nat /\ need = n - h /\ need <= Len(c.free) /\ Len(c.free) \in Nat
      /\ Len(c.lru) \in Nat
  BY <1>1, <1>2, <1>3, <1>4, ToSetIn
<1> HIDE DEF need
<1>10. lru \in Seq(Key) /\ Distinct(lru) /\ ToSet(lru) = ToSet(c.lru) \cup ToSet(k)
  BY <1>1, <1>3, TouchFacts DEF lru
<1>11. ToSet(k) = {k[i] : i \in 1 .. n} /\ ToSet(tail) = {tail[i] : i \in 1 .. need}
       /\ tail \in Seq(Key)
  <2>1. \A i \in 1 .. need : h + i \in 1 .. n
    BY <1>1, <1>2, <1>9
  <2>2. tail \in Seq(Key)
    BY <1>1, <1>9, <2>1
  <2> QED BY <1>1, <2>2, ToSetIn DEF ToSet
<1>12. ToSet(k) \cup Indexed(c) = Indexed(c) \cup ToSet(tail)
  <2>1. \A i \in 1 .. n : i \in 1 .. h \/ (i - h \in 1 .. need /\ h + (i - h) = i)
    BY <1>1, <1>2, <1>9
  <2>2. \A i \in 1 .. need : h + i \in 1 .. n
    BY <1>1, <1>2, <1>9
  <2>3. ToSet(tail) \subseteq ToSet(k)
    BY <1>11, <2>2
  <2>4. ASSUME NEW i \in 1 .. n PROVE k[i] \in Indexed(c) \cup ToSet(tail)
    <3>1. CASE i \in 1 .. h
      BY <3>1, <1>2
    <3>2. CASE i - h \in 1 .. need /\ h + (i - h) = i
      <4>1. tail[i - h] = k[i]
        BY <3>2
      <4> QED BY <4>1, <3>2, <1>11
    <3> QED BY <3>1, <3>2, <2>1
  <2> QED BY <1>11, <2>3, <2>4
<1>13. Indexed(d) = Indexed(c) \cup ToSet(k)
  BY <1>3, <1>8, <1>10 DEF Indexed
<1>14. dup = <<>> <=> fresh = 1 .. need
  <2>1. (1 .. need) \ fresh \in SUBSET (1 .. need)
    OBVIOUS
  <2>2. dup = <<>> <=> (1 .. need) \ fresh = {}
    BY <1>9, <2>1, AscendingEmpty DEF dup
  <2> QED BY <2>2
<1>15. fresh = 1 .. need <=> \A i \in h + 1 .. n : k[i] \notin Indexed(c)
  <2>1. ASSUME fresh = 1 .. need, NEW i \in h + 1 .. n PROVE k[i] \notin Indexed(c)
    <3>1. i - h \in 1 .. need /\ h + (i - h) = i
      BY <1>1, <1>2, <1>9
    <3>2. tail[i - h] = k[i] /\ i - h \in fresh
      BY <3>1, <2>1
    <3> QED BY <3>2
  <2>2. ASSUME \A i \in h + 1 .. n : k[i] \notin Indexed(c), NEW i \in 1 .. need PROVE i \in fresh
    <3>1. h + i \in h + 1 .. n
      BY <1>1, <1>2, <1>9
    <3> QED BY <3>1, <2>2
  <2> QED BY <2>1, <2>2
<1>16. ASSUME dup = <<>>
       PROVE  /\ free = left /\ DOMAIN block = Indexed(d)
              /\ Len(lru) + Len(free) = PoolBlocks
              /\ free \in Seq(1 .. PoolBlocks) /\ Len(free) = Len(c.free) - need
              /\ ToSet(free) \cup {block[x] : x \in Indexed(d)} = 1 .. PoolBlocks
  <2>1. fresh = 1 .. need /\ \A i \in 1 .. need : tail[i] \notin Indexed(c)
    BY <1>14, <1>16
  <2>2. /\ left \in Seq(1 .. PoolBlocks) /\ Len(left) = Len(c.free) - need
        /\ taken \in Seq(1 .. PoolBlocks) /\ Len(taken) = need
        /\ taken \o left = c.free
    <3> DEFINE B == 1 .. PoolBlocks
    <3>1. c.free \in Seq(B) /\ need \in 0 .. Len(c.free)
      BY <1>3, <1>9
    <3> HIDE DEF B
    <3>2. /\ left \in Seq(B) /\ Len(left) = Len(c.free) - need
          /\ taken \in Seq(B) /\ Len(taken) = need
          /\ taken \o left = c.free
      BY <3>1, SplitAt
    <3> QED BY <3>2 DEF B
  <2>3. free = left
    <3>1. Len(dup) = 0
      BY <1>16
    <3>2. [i \in 1 .. Len(dup) |-> taken[dup[i]]] = <<>>
      BY <3>1
    <3> HIDE DEF left, taken
    <3>3. left \o <<>> = left
      BY <2>2
    <3> QED BY <3>2, <3>3 DEF free
  <2>4. \A i, j \in 1 .. need : tail[i] = tail[j] => i = j
    <3> SUFFICES ASSUME NEW i \in 1 .. need, NEW j \in 1 .. need, tail[i] = tail[j] PROVE i = j
      OBVIOUS
    <3>1. h + i \in 1 .. n /\ h + j \in 1 .. n /\ k[h + i] = k[h + j]
      BY <1>1, <1>2, <1>9
    <3>2. h + i = h + j
      BY <3>1, <1>1
    <3> QED BY <3>2, <1>2
  <2>5. DOMAIN block = Indexed(c) \cup ToSet(tail)
    BY DEF block
  <2>6. \A x \in Indexed(c) : block[x] = c.block[x]
    BY DEF block
  <2>7. \A i \in 1 .. need : block[tail[i]] = taken[i]
    <3> SUFFICES ASSUME NEW i \in 1 .. need PROVE block[tail[i]] = taken[i]
      OBVIOUS
    <3>1. tail[i] \notin Indexed(c) /\ tail[i] \in ToSet(tail) /\ i \in fresh
      BY <2>1, <1>11
    <3>2. (CHOOSE j \in fresh : tail[j] = tail[i]) = i
      BY <2>1, <2>4, <3>1
    <3> HIDE DEF tail, taken, fresh
    <3> QED BY <3>1, <3>2 DEF block
  <2>8. {block[x] : x \in Indexed(d)} = {c.block[x] : x \in Indexed(c)} \cup {taken[i] : i \in 1 .. need}
    <3>1. Indexed(d) = Indexed(c) \cup {tail[i] : i \in 1 .. need}
      BY <1>11, <1>12, <1>13
    <3> HIDE DEF tail, taken
    <3>2. {block[x] : x \in Indexed(d)}
            = {block[x] : x \in Indexed(c)} \cup {block[tail[i]] : i \in 1 .. need}
      BY <3>1
    <3>3. {block[x] : x \in Indexed(c)} = {c.block[x] : x \in Indexed(c)}
      BY <2>6
    <3>4. {block[tail[i]] : i \in 1 .. need} = {taken[i] : i \in 1 .. need}
      BY <2>7
    <3> QED BY <3>2, <3>3, <3>4
  <2>9. ToSet(c.free) = ToSet(left) \cup {taken[i] : i \in 1 .. need}
    <3>1. taken \o left = c.free
      BY <2>2
    <3> DEFINE B == 1 .. PoolBlocks
    <3>2. taken \in Seq(B) /\ left \in Seq(B)
      BY <2>2
    <3> HIDE DEF taken, left, B
    <3>3. ToSet(taken \o left) = ToSet(taken) \cup ToSet(left)
      BY <3>2, ConcatEntries
    <3>4. ToSet(taken) = {taken[i] : i \in 1 .. need}
      BY <2>2, <3>2, ToSetIn
    <3> QED BY <3>1, <3>3, <3>4
  <2>10. ToSet(left) \cup {block[x] : x \in Indexed(d)} = 1 .. PoolBlocks
    BY <1>3, <2>8, <2>9
  <2>11. Len(lru) = Len(c.lru) + need
    <3>1. IsFiniteSet(ToSet(c.lru)) /\ Cardinality(ToSet(c.lru)) = Len(c.lru)
      BY <1>3, DistinctLength
    <3>2. Distinct(tail) /\ Len(tail) = need
      <4>1. Len(tail) = need
        BY <1>9
      <4> QED BY <4>1, <2>4, <1>11, DistinctIsInjective
    <3>3. IsFiniteSet(ToSet(tail)) /\ Cardinality(ToSet(tail)) = need
      BY <3>2, <1>11, DistinctLength
    <3>4. ToSet(c.lru) \cap ToSet(tail) = {}
      BY <1>3, <1>11, <2>1
    <3>5. ToSet(lru) = ToSet(c.lru) \cup ToSet(tail)
      BY <1>3, <1>10, <1>12
    <3> HIDE DEF tail
    <3>6. Cardinality(ToSet(c.lru) \cup ToSet(tail))
            = Cardinality(ToSet(c.lru)) + Cardinality(ToSet(tail)) - Cardinality({})
      BY <3>1, <3>3, <3>4, FS_Union
    <3>7. Cardinality(ToSet(lru)) = Len(lru)
      BY <1>10, DistinctLength
    <3> QED BY <3>1, <3>3, <3>5, <3>6, <3>7, <1>9, FS_EmptySet
  <2>12. DOMAIN block = Indexed(d)
    BY <1>12, <1>13, <2>5
  <2>13. Len(lru) + Len(free) = PoolBlocks
    BY <1>3, <1>9, <2>2, <2>3, <2>11
  <2> HIDE DEF left, taken
  <2> QED BY <2>2, <2>3, <2>10, <2>12, <2>13
<1>17. d = [lru |-> d.lru, block |-> d.block, free |-> d.free, pages |-> d.pages]
  BY <1>7, <1>8
<1>18. dup = <<>> => /\ d.free = SubSeq(c.free, n - h + 1, Len(c.free))
                    /\ DOMAIN d.block = Indexed(d)
                    /\ Len(d.lru) + Len(d.free) = PoolBlocks
                    /\ d.lru \in Seq(Key) /\ Distinct(d.lru)
                    /\ d.free \in Seq(1 .. PoolBlocks)
                    /\ Len(d.free) = Len(c.free) - (n - h)
                    /\ ToSet(d.free) \cup {d.block[x] : x \in Indexed(d)} = 1 .. PoolBlocks
  BY <1>8, <1>9, <1>10, <1>16
<1>19. n - h <= Len(c.free)
  BY <1>9
<1>20. dup = <<>> <=> \A i \in h + 1 .. n : k[i] \notin Indexed(c)
  BY <1>14, <1>15
<1> HIDE DEF tail, taken, left, fresh
<1>21. Fitted(c, p, plan, h, d)
  BY <1>6, <1>8, <1>10, <1>13, <1>17, <1>18, <1>19, <1>20 DEF Fitted, k, n, lru
<1> QED BY <1>21 DEF k, h, plan, d

(* Prefixes of a prompt: a prefix of a prefix, the whole, a prefix and     *)
(* what follows it.                                                        *)
LEMMA PrefixFacts ==
  ASSUME NEW T, NEW p \in Seq(T), NEW b \in 0 .. Len(p), NEW a \in 0 .. b
  PROVE  /\ SubSeq(p, 1, b) \in Seq(T) /\ Len(SubSeq(p, 1, b)) = b
         /\ SubSeq(SubSeq(p, 1, b), 1, a) = SubSeq(p, 1, a)
         /\ SubSeq(p, 1, a) \o SubSeq(p, a + 1, b) = SubSeq(p, 1, b)
         /\ SubSeq(p, 1, Len(p)) = p
<1> DEFINE q == SubSeq(p, 1, b)
           u == SubSeq(p, 1, a)
           v == SubSeq(p, a + 1, b)
           w == SubSeq(p, 1, Len(p))
<1>1. Len(p) \in Nat /\ b \in Nat /\ a \in Nat /\ a <= b /\ b <= Len(p)
      /\ \A i \in 1 .. Len(p) : p[i] \in T
  OBVIOUS
<1>2. q \in Seq(T) /\ Len(q) = b /\ \A i \in 1 .. b : q[i] = p[i]
  BY <1>1
<1>3. u \in Seq(T) /\ Len(u) = a /\ \A i \in 1 .. a : u[i] = p[i]
  BY <1>1
<1>4. v \in Seq(T) /\ Len(v) = b - a /\ \A i \in 1 .. b - a : v[i] = p[a + i]
  BY <1>1
<1>5. w \in Seq(T) /\ Len(w) = Len(p) /\ \A i \in 1 .. Len(p) : w[i] = p[i]
  BY <1>1
<1>6. w = p
  <2> HIDE DEF w
  <2> QED BY <1>5, SeqEqual
<1>7. SubSeq(q, 1, a) = u
  <2> HIDE DEF q, u
  <2>1. SubSeq(q, 1, a) \in Seq(T) /\ Len(SubSeq(q, 1, a)) = a
        /\ \A i \in 1 .. a : SubSeq(q, 1, a)[i] = p[i]
    BY <1>1, <1>2
  <2> QED BY <2>1, <1>3, SeqEqual
<1>8. u \o v = q
  <2> HIDE DEF u, v, q
  <2>0. Len(u) = a /\ Len(v) = b - a /\ b - a \in Nat
    BY <1>1, <1>3, <1>4
  <2>1. u \o v \in Seq(T) /\ Len(u \o v) = b
    <3>1. u \o v \in Seq(T) /\ Len(u \o v) = Len(u) + Len(v)
      BY <1>3, <1>4, ConcatProperties
    <3> QED BY <3>1, <2>0, <1>1
  <2>2. ASSUME NEW i \in 1 .. b PROVE (u \o v)[i] = q[i]
    <3>1. CASE i <= a
      BY <1>1, <1>2, <1>3, <1>4, <3>1, <2>0
    <3>2. CASE ~(i <= a)
      <4>1. i - a \in 1 .. b - a /\ a + (i - a) = i
        BY <1>1, <3>2
      <4>2. (u \o v)[i] = v[i - a]
        BY <1>1, <1>3, <1>4, <3>2, <2>0
      <4> QED BY <4>1, <4>2, <1>2, <1>4
    <3> QED BY <3>1, <3>2
  <2> QED BY <2>1, <2>2, <1>2, SeqEqual
<1> QED BY <1>2, <1>6, <1>7, <1>8

LEMMA NoGarbage ==
  ASSUME NEW p \in Seq(Nat)
  PROVE  p # Garbage
<1>1. SUFFICES ASSUME p = <<-1>> PROVE FALSE
  BY DEF Garbage
<1>2. 1 \in 1 .. Len(p) /\ p[1] = -1
  BY <1>1
<1>3. p[1] \in Nat
  BY <1>2
<1> QED BY <1>2, <1>3

(* The anchor of h leading pages that hold their own data is the state     *)
(* after those pages' tokens.                                              *)
LEMMA RestoredFacts ==
  ASSUME NEW p \in Prompt, NEW h \in 0 .. NumPages(p), NEW pages, ~Hybrid,
         \A i \in 1 .. h : pages[Keys(p)[i]] = Keys(p)[i]
  PROVE  Restored(pages, Keys(p), h) = SubSeq(p, 1, PageEnd(p, h))
<1> DEFINE k == Keys(p)
           n == NumPages(p)
           context == pages[k[h]]
<1>1. p \in Seq(Nat) /\ n \in Nat \ {0} /\ Len(p) \in Nat \ {0}
      /\ \A i \in 1 .. n : k[i] = SubSeq(p, 1, PageEnd(p, i))
  BY KeyFacts, PageCount DEF Prompt
<1>2. CASE h = 0
  <2>1. PageEnd(p, 0) = 0
    BY <1>1, PageEnds
  <2>2. SubSeq(p, 1, 0) = <<>>
    BY <1>1
  <2> QED BY <1>2, <2>1, <2>2 DEF Restored
<1>3. CASE h # 0
  <2>1. h \in 1 .. n /\ context = SubSeq(p, 1, PageEnd(p, h))
    BY <1>1, <1>3
  <2>2. PageEnd(p, h) \in 0 .. Len(p) /\ PageEnd(p, h) = Smaller(h * TokensPerPage, Len(p))
        /\ \A j \in 0 .. h - 1 : PageEnd(p, j) < PageEnd(p, h)
    BY PageEnds
  <2>3. Len(context) = PageEnd(p, h)
    <3>1. Len(SubSeq(p, 1, PageEnd(p, h))) = PageEnd(p, h)
      BY <1>1, <2>2, PrefixFacts
    <3> QED BY <2>1, <3>1
  <2>4. ASSUME NEW i \in 1 .. h
        PROVE  pages[k[i]] = SubSeq(context, 1, PageEnd(context, i))
    <3>1. PageEnd(context, i) = PageEnd(p, i)
      <4>1. PageEnd(context, i) = Smaller(i * TokensPerPage, PageEnd(p, h))
        BY <2>3 DEF PageEnd
      <4>2. CASE i = h
        <5>1. h * TokensPerPage \in Nat
          BY PrefixKvAssumption, MulMono
        <5> QED BY <2>2, <4>1, <4>2, <5>1, <1>1 DEF Smaller
      <4>3. CASE i # h
        <5>1. i \in 0 .. h - 1 /\ i \in 0 .. n /\ i < n
          BY <4>3, <2>1, <1>1
        <5>2. PageEnd(p, i) = i * TokensPerPage /\ PageEnd(p, i) < PageEnd(p, h)
          BY <5>1, <2>2, PageEnds
        <5> QED BY <4>1, <5>2 DEF Smaller
      <4> QED BY <4>2, <4>3
    <3>2. PageEnd(p, i) \in 0 .. PageEnd(p, h)
      <4>1. i \in 0 .. n /\ (i = h \/ i \in 0 .. h - 1)
        BY <2>1, <1>1
      <4>2. PageEnd(p, i) \in 0 .. Len(p)
        BY <4>1, PageEnds
      <4> QED BY <4>1, <4>2, <2>2
    <3>3. SubSeq(context, 1, PageEnd(p, i)) = SubSeq(p, 1, PageEnd(p, i))
      BY <1>1, <2>1, <2>2, <3>2, PrefixFacts
    <3>4. i \in 1 .. n
      BY <2>1, <1>1
    <3> QED BY <3>1, <3>3, <3>4, <1>1
  <2> HIDE DEF context
  <2>5. Restored(pages, k, h) = context
    BY <1>3, <2>4 DEF Restored, context
  <2> QED BY <2>1, <2>5
<1> QED BY <1>2, <1>3

(* What serve computes from there is the state after whole pages.          *)
LEMMA ComputedFacts ==
  ASSUME NEW p \in Prompt, NEW i \in 0 .. NumPages(p), NEW h \in 0 .. i
  PROVE  Computed(SubSeq(p, 1, PageEnd(p, h)), SubSeq(p, PageEnd(p, h) + 1, PageEnd(p, i)))
           = SubSeq(p, 1, PageEnd(p, i))
<1> DEFINE a == PageEnd(p, h)
           b == PageEnd(p, i)
<1>1. NumPages(p) \in Nat /\ p \in Seq(Nat)
  BY PageCount DEF Prompt
<1>2. b \in 0 .. Len(p) /\ \A j \in 0 .. i - 1 : PageEnd(p, j) < b
  BY PageEnds
<1>3. a \in 0 .. Len(p)
  <2>1. h \in 0 .. NumPages(p)
    BY <1>1
  <2> QED BY <2>1, PageEnds
<1>4. a \in 0 .. b
  <2>1. h = i \/ h \in 0 .. i - 1
    BY <1>1
  <2> QED BY <2>1, <1>2, <1>3
<1> HIDE DEF a, b
<1>5. SubSeq(p, 1, a) \o SubSeq(p, a + 1, b) = SubSeq(p, 1, b) /\ SubSeq(p, 1, a) \in Seq(Nat)
  <2>1. a \in 0 .. a /\ b \in 0 .. Len(p) /\ a \in 0 .. Len(p)
    BY <1>2, <1>3, <1>4
  <2> QED BY <1>1, <1>4, <2>1, PrefixFacts
<1>7. SubSeq(p, 1, a) # Garbage
  BY <1>5, NoGarbage
<1>6. Computed(SubSeq(p, 1, a), SubSeq(p, a + 1, b)) = SubSeq(p, 1, b)
  BY <1>5, <1>7 DEF Computed
<1> QED BY <1>6 DEF a, b

(* serve, once its eviction loop has ended.                                *)
Answered(c, p, plan, r) ==
  /\ r.result \in {"too_small", "stranded", "too_long", "served"}
  /\ r.result = "too_small" <=> ~plan.fits
  /\ r.cache.lru \in Seq(Key)
  /\ r.result = "too_small" => r.cache = plan.cache
  /\ r.result = "stranded" => plan.duplicates # <<>>
  /\ r.result = "served" =>
       /\ plan.duplicates = <<>>
       /\ Accounts(r.cache)
       /\ r.cache.lru = plan.cache.lru /\ r.cache.free = plan.cache.free
       /\ r.reused + r.computed = Len(p)
       /\ ~Hybrid /\ Own(c) => Own(r.cache) /\ r.context = p /\ r.logits = p

LEMMA ServeFacts ==
  ASSUME NEW c, NEW p, Accounts(c), Sent(p)
  PROVE  Answered(c, p, Plan(c, p), Serve(Plan(c, p), p))
<1> DEFINE plan == Plan(c, p)
           r == Serve(plan, p)
           k == Keys(p)
           n == NumPages(p)
           h == Hits(c, k)
           pages == c.pages
           reused == Smaller(h * TokensPerPage, Len(p))
           State(i) == Computed(Restored(pages, k, h), SubSeq(p, reused + 1, PageEnd(p, i)))
           fresh == ToSet(k) \ ToSet(SubSeq(k, 1, h))
           stored == [x \in DOMAIN pages \cup fresh |->
                        IF x \in fresh THEN State(CHOOSE i \in 1 .. Len(k) : k[i] = x) ELSE pages[x]]
           Ends(result) == [result |-> result, cache |-> plan.cache]
           served == [result |-> "served", cache |-> [plan.cache EXCEPT !.pages = stored],
                      context |-> State(Len(k)),
                      logits |-> IF reused = Len(p) THEN pages[k[h]] ELSE State(Len(k)),
                      reused |-> reused, computed |-> Len(p) - reused]
<1> SUFFICES Answered(c, p, plan, r)
  OBVIOUS
<1>1. CASE ~plan.fits
  <2>1. r = Ends("too_small")
    BY <1>1 DEF Serve
  <2>2. Unfitted(c, p, h, SubSeq(k, 1, h), plan.cache)
    BY <1>1, NoFitFacts
  <2> HIDE DEF r, plan
  <2>3. r.result = "too_small" /\ r.cache = plan.cache
    BY <2>1
  <2>4. plan.cache.lru \in Seq(Key)
    BY <2>2 DEF Unfitted, Accounts
  <2> QED BY <2>3, <2>4, <1>1 DEF Answered
<1>2. CASE plan.fits
  <2> DEFINE d == plan.cache
  <2>0. h = Hits(c, Keys(p)) /\ k = Keys(p) /\ d = plan.cache /\ pages = c.pages
    OBVIOUS
  <2> HIDE DEF k, n, h, pages, d
  <2>1. /\ plan.hits = h /\ plan.keys = k /\ d.pages = pages
        /\ d = [lru |-> d.lru, block |-> d.block, free |-> d.free, pages |-> d.pages]
        /\ Indexed(d) = Indexed(c) \cup ToSet(k) /\ d.lru \in Seq(Key)
        /\ plan.duplicates = <<>> =>
             /\ DOMAIN d.block = Indexed(d)
             /\ Len(d.lru) + Len(d.free) = PoolBlocks
             /\ Distinct(d.lru)
             /\ d.free \in Seq(1 .. PoolBlocks)
             /\ ToSet(d.free) \cup {d.block[x] : x \in Indexed(d)} = 1 .. PoolBlocks
    <3>1. Fitted(c, p, plan, h, d)
      BY <1>2, FitFacts DEF k, h, d
    <3> HIDE DEF plan
    <3> QED BY <3>1, <2>0 DEF Fitted
  <2>2. p \in Prompt /\ Len(k) = n /\ n \in Nat \ {0} /\ Len(p) \in Nat \ {0}
        /\ (\A i \in 1 .. n : k[i] = SubSeq(p, 1, PageEnd(p, i)))
        /\ (\A i, j \in 1 .. n : k[i] = k[j] => i = j) /\ k \in Seq(Key)
    BY SentFacts, KeyFacts, PageCount DEF k, n
  <2>3. h \in 0 .. n /\ \A i \in 1 .. h : k[i] \in Indexed(c)
    BY <2>2, HitFacts DEF k, n, h
  <2>4. DOMAIN pages = Indexed(c)
    BY <2>0 DEF Accounts
  <2>5. ~\E i \in 1 .. h : k[i] \notin DOMAIN pages
    BY <2>3, <2>4
  <2>6. r = IF plan.duplicates # <<>> THEN Ends("stranded")
            ELSE IF reused < Len(p) /\ Len(p) > MaxSeq THEN Ends("too_long")
            ELSE served
    BY <1>2, <2>0, <2>1, <2>5 DEF Serve
  <2> HIDE DEF plan, r
  <2>7. CASE plan.duplicates # <<>>
    <3>1. r.result = "stranded" /\ r.cache.lru \in Seq(Key)
      BY <2>0, <2>1, <2>6, <2>7
    <3> QED BY <3>1, <1>2, <2>7 DEF Answered
  <2>8. CASE plan.duplicates = <<>> /\ reused < Len(p) /\ Len(p) > MaxSeq
    <3>1. r.result = "too_long" /\ r.cache.lru \in Seq(Key)
      BY <2>0, <2>1, <2>6, <2>8
    <3> QED BY <3>1, <1>2 DEF Answered
  <2>9. CASE plan.duplicates = <<>> /\ ~(reused < Len(p) /\ Len(p) > MaxSeq)
    <3>1. r = served
      BY <2>6, <2>9
    <3>2. fresh = {k[i] : i \in h + 1 .. n}
      <4>0. ToSet(SubSeq(k, 1, h)) = {k[i] : i \in 1 .. h}
        <5>1. h \in 0 .. NumPages(p) /\ Keys(p) \in Seq(Key)
          BY <2>2, <2>3 DEF k, n
        <5> QED BY <5>1, <2>2, LeadingKeys DEF k
      <4>1. ToSet(k) = {k[i] : i \in 1 .. n} /\ ToSet(SubSeq(k, 1, h)) = {k[i] : i \in 1 .. h}
        BY <2>2, <4>0, ToSetIn
      <4>2. \A i \in 1 .. n : i \in 1 .. h \/ i \in h + 1 .. n
        BY <2>2, <2>3
      <4>3. \A i \in h + 1 .. n : i \in 1 .. n /\ i \notin 1 .. h
        BY <2>2, <2>3
      <4>4. \A i \in 1 .. h : i \in 1 .. n
        BY <2>2, <2>3
      <4>5. ASSUME NEW x \in fresh PROVE x \in {k[i] : i \in h + 1 .. n}
        BY <4>1, <4>2
      <4>6. ASSUME NEW i \in h + 1 .. n PROVE k[i] \in fresh
        <5>1. ASSUME NEW j \in 1 .. h PROVE k[i] # k[j]
          BY <2>2, <4>3, <4>4
        <5> QED BY <4>1, <4>3, <5>1
      <4> QED BY <4>5, <4>6
    <3>3. DOMAIN stored = Indexed(d)
      <4>1. DOMAIN stored = Indexed(c) \cup fresh
        BY <2>4
      <4>2. ToSet(SubSeq(k, 1, h)) \subseteq Indexed(c)
        <5>1. ToSet(SubSeq(k, 1, h)) = {k[i] : i \in 1 .. h}
          BY <2>2, <2>3, LeadingKeys DEF k, n
        <5> QED BY <5>1, <2>3
      <4> QED BY <4>1, <4>2, <2>1
    <3>4. ASSUME NEW x \in fresh
          PROVE  \E i \in h + 1 .. n : x = k[i] /\ stored[x] = State(i)
      <4>1. PICK i \in h + 1 .. n : x = k[i]
        BY <3>2
      <4>2. i \in 1 .. Len(k) /\ (CHOOSE j \in 1 .. Len(k) : k[j] = x) = i
        BY <4>1, <2>2, <2>3
      <4>3. stored[x] = State(CHOOSE j \in 1 .. Len(k) : k[j] = x)
        BY Zenon
      <4> HIDE DEF State, stored
      <4>4. stored[x] = State(i)
        BY <4>2, <4>3
      <4> QED BY <4>1, <4>4
    <3>5. \A x \in Indexed(c) \ fresh : stored[x] = pages[x]
      BY <2>4
    <3> HIDE DEF stored, fresh
    <3> DEFINE e == [d EXCEPT !.pages = stored]
    <3>6. r.result = "served" /\ r.cache = e /\ r.context = State(Len(k))
          /\ r.logits = (IF reused = Len(p) THEN pages[k[h]] ELSE State(Len(k)))
          /\ r.reused = reused /\ r.computed = Len(p) - reused
      BY <3>1 DEF d
    <3>7. e.lru = d.lru /\ e.block = d.block /\ e.free = d.free /\ e.pages = stored
          /\ e = [lru |-> e.lru, block |-> e.block, free |-> e.free, pages |-> e.pages]
      BY <2>1
    <3>8. Indexed(e) = Indexed(d)
      BY <3>7 DEF Indexed
    <3> HIDE DEF e
    <3>9. Accounts(e)
      BY <2>1, <2>9, <3>3, <3>7, <3>8 DEF Accounts
    <3>10. reused = PageEnd(p, h) /\ reused \in 0 .. Len(p)
      BY <2>2, <2>3, PageEnds DEF n
    <3>11. reused + (Len(p) - reused) = Len(p)
      BY <3>10, <2>2
    <3>12. ASSUME ~Hybrid, Own(c) PROVE Own(e) /\ r.context = p /\ r.logits = p
      <4>1. \A i \in 1 .. h : pages[k[i]] = k[i]
        BY <3>12, <2>3 DEF Own, pages
      <4>2. Restored(pages, k, h) = SubSeq(p, 1, PageEnd(p, h))
        BY <4>1, <3>12, <2>2, <2>3, RestoredFacts DEF k, n
      <4>3. \A i \in h .. n : State(i) = SubSeq(p, 1, PageEnd(p, i))
        <5> SUFFICES ASSUME NEW i \in h .. n PROVE State(i) = SubSeq(p, 1, PageEnd(p, i))
          OBVIOUS
        <5>1. i \in 0 .. n /\ h \in 0 .. i
          BY <2>2, <2>3
        <5>2. Computed(SubSeq(p, 1, PageEnd(p, h)), SubSeq(p, PageEnd(p, h) + 1, PageEnd(p, i)))
                = SubSeq(p, 1, PageEnd(p, i))
          BY <5>1, <2>2, ComputedFacts DEF n
        <5> QED BY <5>2, <4>2, <3>10
      <4> HIDE DEF State
      <4>4. PageEnd(p, n) = Len(p)
        BY <2>2, PageEnds DEF n
      <4>5. SubSeq(p, 1, Len(p)) = p
        BY <2>2, PrefixFacts DEF Prompt
      <4>6. State(Len(k)) = p
        <5>1. n \in h .. n
          BY <2>2, <2>3
        <5> QED BY <5>1, <4>3, <4>4, <4>5, <2>2
      <4>7. ASSUME reused = Len(p) PROVE pages[k[h]] = p
        <5>1. h # 0
          <6>1. PageEnd(p, 0) = 0
            BY <2>2, PageEnds DEF n
          <6> QED BY <6>1, <4>7, <3>10, <2>2
        <5>2. h \in 1 .. h /\ h \in 1 .. n
          BY <5>1, <2>2, <2>3
        <5>3. pages[k[h]] = SubSeq(p, 1, PageEnd(p, h))
          BY <5>2, <4>1, <2>2
        <5> QED BY <5>3, <4>7, <3>10, <4>5
      <4>8. ASSUME NEW x \in Indexed(d) PROVE e.pages[x] = x
        <5>1. CASE x \in fresh
          <6>1. PICK i \in h + 1 .. n : x = k[i] /\ stored[x] = State(i)
            BY <5>1, <3>4
          <6>2. i \in h .. n /\ i \in 1 .. n
            BY <2>2, <2>3
          <6> QED BY <6>1, <6>2, <4>3, <3>7, <2>2
        <5>2. CASE x \notin fresh
          <6>1. x \in Indexed(c)
            <7>1. \A i \in 1 .. n : i \in 1 .. h \/ i \in h + 1 .. n
              BY <2>2, <2>3
            <7>2. ToSet(k) = {k[i] : i \in 1 .. n}
              BY <2>2, ToSetIn
            <7> QED BY <7>1, <7>2, <5>2, <3>2, <2>1, <2>3
          <6> QED BY <6>1, <5>2, <3>5, <3>7, <3>12 DEF Own, pages
        <5> QED BY <5>1, <5>2
      <4>9. Own(e)
        BY <4>8, <3>8 DEF Own
      <4> QED BY <4>6, <4>7, <4>9, <3>6
    <3> HIDE DEF State, reused
    <3>13. /\ Accounts(r.cache) /\ r.cache.lru \in Seq(Key) /\ r.cache.lru = plan.cache.lru /\ r.cache.free = plan.cache.free
           /\ r.reused + r.computed = Len(p)
      BY <2>1, <3>6, <3>7, <3>9, <3>11 DEF d
    <3>14. ~Hybrid /\ Own(c) => Own(r.cache) /\ r.context = p /\ r.logits = p
      BY <3>6, <3>12
    <3> QED BY <1>2, <2>9, <3>6, <3>13, <3>14 DEF Answered
  <2> QED BY <2>7, <2>8, <2>9
<1> QED BY <1>1, <1>2

(***************************************************************************)
(* The state machine and the slots                                         *)
(***************************************************************************)

(* A request's state in the machine, the Finished one excepted.            *)
In(name, tokens, decoded, maxNew) ==
  [name |-> name, tokens |-> tokens, decoded |-> decoded, maxNew |-> maxNew]

(* The events the engine applies, in the states it applies them in.        *)
LEMMA Bootstrapped ==
  Apply("Bootstrapped", 0, Bootstrapping) = In("Submitted", 0, 0, 0)
BY DEF Apply, Allowed, Bootstrapping, Submitted, In

LEMMA FirstChunk ==
  ASSUME NEW n \in Nat, NEW d, NEW m
  PROVE  Apply("FirstChunk", n, In("Submitted", n, d, m)) = In("PrefillDone", n, d, m)
BY DEF Apply, Allowed, Prefilled, Enter, In

LEMMA ScheduleDecode ==
  ASSUME NEW n, NEW d, NEW m
  PROVE  Apply("ScheduleDecode", 0, In("PrefillDone", n, d, m)) = In("Decoding", n, d, m)
BY DEF Apply, Allowed, Enter, In

LEMMA ExtendResult ==
  ASSUME NEW n \in Nat, NEW d \in Nat, NEW m
  PROVE  Apply("ExtendResult", 1, In("Decoding", n, d, m)) = In("Decoding", n + 1, d + 1, m)
BY DEF Apply, Allowed, Extended, In

LEMMA Succeeded ==
  ASSUME NEW n, NEW d, NEW m
  PROVE  Apply("Succeeded", 0, In("Decoding", n, d, m)) = Finished
BY DEF Apply, Allowed, In

(* The prompt of a slot's request and what it has generated.               *)
Tokens(request, generated) == request.prompt \o [i \in 1 .. generated |-> 0]

(* A slot that waits for its prefill, or decodes from its own state.       *)
IsSlot(slot) ==
  /\ slot = [free |-> FALSE, request |-> slot.request, generated |-> slot.generated,
             context |-> slot.context, logits |-> slot.logits, reused |-> slot.reused,
             computed |-> slot.computed, state |-> slot.state]
  /\ slot.request \in Request /\ slot.generated \in Nat

Waiting(slot) ==
  /\ IsSlot(slot) /\ slot.generated = 0
  /\ slot.state = In("Submitted", Len(slot.request.prompt), 0, slot.request.maxNew)

Running(slot) ==
  /\ IsSlot(slot) /\ slot.generated <= slot.request.maxNew
  /\ slot.state = In("Decoding", Len(slot.request.prompt) + slot.generated, slot.generated,
                     slot.request.maxNew)
  /\ slot.reused + slot.computed = Len(slot.request.prompt)
  /\ ~Hybrid => slot.logits = Tokens(slot.request, slot.generated)
                  /\ slot.context = Tokens(slot.request, slot.generated)

LEMMA AdmittedFacts ==
  ASSUME NEW r \in Request
  PROVE  Waiting(Admitted(r)) /\ Admitted(r).request = r
<1>1. Admitted(r) = [free |-> FALSE, request |-> r, generated |-> 0, context |-> <<>>,
                     logits |-> <<>>, reused |-> 0, computed |-> 0,
                     state |-> [In("Submitted", 0, 0, 0) EXCEPT !.tokens = Len(r.prompt),
                                                                !.maxNew = r.maxNew]]
  BY Bootstrapped DEF Admitted
<1> DEFINE n == Len(r.prompt)
           m == r.maxNew
           state == [In("Submitted", 0, 0, 0) EXCEPT !.tokens = n, !.maxNew = m]
<1>a. Admitted(r).state = state
  BY <1>1
<1> HIDE DEF n, m
<1>b. state = In("Submitted", n, 0, m)
  <2>1. state = [In("Submitted", 0, 0, 0) EXCEPT !.tokens = n, !.maxNew = m]
    OBVIOUS
  <2> HIDE DEF state
  <2> QED BY <2>1 DEF In
<1>3. Admitted(r).state = In("Submitted", Len(r.prompt), 0, r.maxNew)
  BY <1>a, <1>b DEF n, m
<1> DEFINE e == Admitted(r)
<1>4. e = [free |-> FALSE, request |-> r, generated |-> 0, context |-> <<>>, logits |-> <<>>,
           reused |-> 0, computed |-> 0, state |-> e.state]
  BY <1>1
<1> HIDE DEF e
<1>5. IsSlot(e) /\ e.request = r /\ e.generated = 0
  BY <1>4 DEF IsSlot
<1> QED BY <1>3, <1>5 DEF Waiting, e

(* The fields of a slot that its prefill replaces, and those that a token  *)
(* does.                                                                   *)
WithPrefill(slot, context, logits, reused, computed, state) ==
  [slot EXCEPT !.context = context, !.logits = logits, !.reused = reused,
               !.computed = computed, !.state = state]

LEMMA SlotPrefilled ==
  ASSUME NEW slot, IsSlot(slot), NEW context, NEW logits, NEW reused, NEW computed,
         NEW state
  PROVE  LET e == WithPrefill(slot, context, logits, reused, computed, state) IN
         /\ IsSlot(e) /\ e.request = slot.request /\ e.generated = slot.generated
         /\ e.context = context /\ e.logits = logits /\ e.reused = reused
         /\ e.computed = computed /\ e.state = state
<1> DEFINE e == WithPrefill(slot, context, logits, reused, computed, state)
           request == slot.request
           slotGenerated == slot.generated
           slotReused == slot.reused
           slotComputed == slot.computed
           slotContext == slot.context
           slotLogits == slot.logits
           slotState == slot.state
<1>1. slot = [free |-> FALSE, request |-> request, generated |-> slotGenerated,
              context |-> slotContext, logits |-> slotLogits, reused |-> slotReused,
              computed |-> slotComputed, state |-> slotState]
      /\ request \in Request /\ slotGenerated \in Nat
  BY DEF IsSlot
<1>a. e = [slot EXCEPT !.context = context, !.logits = logits, !.reused = reused,
                        !.computed = computed, !.state = state]
  BY DEF WithPrefill
<1> HIDE DEF e, request, slotGenerated, slotReused, slotComputed, slotContext, slotLogits, slotState
<1>2. e = [free |-> FALSE, request |-> request, generated |-> slotGenerated,
           context |-> context, logits |-> logits, reused |-> reused,
           computed |-> computed, state |-> state]
  BY <1>a, <1>1
<1> QED BY <1>1, <1>2 DEF e, IsSlot, request, slotGenerated, slotReused, slotComputed

WithToken(slot, generated, context, logits, state) ==
  [slot EXCEPT !.generated = generated, !.context = context, !.logits = logits,
               !.state = state]

LEMMA SlotExtended ==
  ASSUME NEW slot, IsSlot(slot), NEW generated \in Nat, NEW context, NEW logits,
         NEW state
  PROVE  LET e == WithToken(slot, generated, context, logits, state) IN
         /\ IsSlot(e) /\ e.request = slot.request /\ e.generated = generated
         /\ e.context = context /\ e.logits = logits /\ e.reused = slot.reused
         /\ e.computed = slot.computed /\ e.state = state
<1> DEFINE e == WithToken(slot, generated, context, logits, state)
           request == slot.request
           slotGenerated == slot.generated
           slotReused == slot.reused
           slotComputed == slot.computed
           slotContext == slot.context
           slotLogits == slot.logits
           slotState == slot.state
<1>1. slot = [free |-> FALSE, request |-> request, generated |-> slotGenerated,
              context |-> slotContext, logits |-> slotLogits, reused |-> slotReused,
              computed |-> slotComputed, state |-> slotState]
      /\ request \in Request /\ slotGenerated \in Nat
  BY DEF IsSlot
<1>a. e = [slot EXCEPT !.generated = generated, !.context = context, !.logits = logits,
                        !.state = state]
  BY DEF WithToken
<1> HIDE DEF e, request, slotGenerated, slotReused, slotComputed, slotContext, slotLogits, slotState
<1>2. e = [free |-> FALSE, request |-> request, generated |-> generated,
           context |-> context, logits |-> logits, reused |-> slotReused,
           computed |-> slotComputed, state |-> state]
  BY <1>a, <1>1
<1> QED BY <1>1, <1>2 DEF e, IsSlot, request, slotGenerated, slotReused, slotComputed

LEMMA TokensFacts ==
  ASSUME NEW r \in Request, NEW g \in Nat
  PROVE  /\ Tokens(r, g) \in Seq(Nat) /\ Len(Tokens(r, g)) = Len(r.prompt) + g
         /\ Tokens(r, 0) = r.prompt
         /\ Computed(Tokens(r, g), <<0>>) = Tokens(r, g + 1)
<1> DEFINE p == r.prompt
           zeros(n) == [i \in 1 .. n |-> 0]
<1>1. p \in Seq(Nat) /\ Len(p) \in Nat
  BY RequestFacts DEF Prompt
<1>2. \A n \in Nat : Tokens(r, n) = p \o zeros(n)
  BY DEF Tokens
<1> HIDE DEF p
<1>3. ASSUME NEW n \in Nat
      PROVE  /\ p \o zeros(n) \in Seq(Nat) /\ Len(p \o zeros(n)) = Len(p) + n
             /\ \A i \in 1 .. Len(p) + n :
                  (p \o zeros(n))[i] = IF i <= Len(p) THEN p[i] ELSE 0
  <2>1. zeros(n) \in Seq(Nat) /\ Len(zeros(n)) = n /\ \A i \in 1 .. n : zeros(n)[i] = 0
    OBVIOUS
  <2> DEFINE z == zeros(n)
  <2> HIDE DEF z
  <2>2. z \in Seq(Nat) /\ Len(z) = n /\ \A i \in 1 .. n : z[i] = 0
    BY <2>1 DEF z
  <2>3. p \o z \in Seq(Nat) /\ Len(p \o z) = Len(p) + n
    BY <1>1, <2>2, ConcatProperties
  <2>4. ASSUME NEW i \in 1 .. Len(p) + n
        PROVE  (p \o z)[i] = IF i <= Len(p) THEN p[i] ELSE 0
    <3>1. (p \o z)[i] = IF i <= Len(p) THEN p[i] ELSE z[i - Len(p)]
      BY <1>1, <2>2, ConcatProperties
    <3>2. ~(i <= Len(p)) => i - Len(p) \in 1 .. n
      BY <1>1
    <3> QED BY <3>1, <3>2, <2>2
  <2> QED BY <2>3, <2>4 DEF z
<1> DEFINE own(n) == p \o zeros(n)
<1> HIDE DEF zeros
<1>4. \A n \in Nat : own(n) \in Seq(Nat) /\ Len(own(n)) = Len(p) + n
  BY <1>3
<1>5. own(0) = p
  <2>1. own(0) \in Seq(Nat) /\ Len(own(0)) = Len(p)
    BY <1>1, <1>4
  <2>2. \A i \in 1 .. Len(p) : own(0)[i] = p[i]
    BY <1>1, <1>3
  <2> HIDE DEF own
  <2> QED BY <1>1, <2>1, <2>2, SeqEqual
<1>6. own(g) \o <<0>> = own(g + 1)
  <2>1. g + 1 \in Nat
    OBVIOUS
  <2>2. /\ own(g) \in Seq(Nat) /\ Len(own(g)) = Len(p) + g
        /\ \A i \in 1 .. Len(p) + g : own(g)[i] = IF i <= Len(p) THEN p[i] ELSE 0
    BY <1>3
  <2>3. /\ own(g + 1) \in Seq(Nat) /\ Len(own(g + 1)) = (Len(p) + g) + 1
        /\ \A i \in 1 .. (Len(p) + g) + 1 : own(g + 1)[i] = IF i <= Len(p) THEN p[i] ELSE 0
    <3>1. Len(p) + (g + 1) = (Len(p) + g) + 1
      BY <1>1
    <3> QED BY <2>1, <3>1, <1>3
  <2> HIDE DEF own
  <2> DEFINE a == own(g)
             l == Len(p) + g
  <2>4. l \in Nat /\ a \in Seq(Nat) /\ Len(a) = l
    BY <1>1, <2>2
  <2> HIDE DEF a, l
  <2>5. /\ Append(a, 0) \in Seq(Nat) /\ Len(Append(a, 0)) = l + 1
        /\ \A i \in 1 .. l : Append(a, 0)[i] = a[i]
        /\ Append(a, 0)[l + 1] = 0
    BY <2>4
  <2>6. a \o <<0>> = Append(a, 0)
    BY <2>4
  <2>7. ASSUME NEW i \in 1 .. l + 1 PROVE Append(a, 0)[i] = own(g + 1)[i]
    <3>1. CASE i = l + 1
      <4>1. ~(i <= Len(p))
        BY <3>1, <1>1 DEF l
      <4> QED BY <4>1, <3>1, <2>3, <2>5 DEF l
    <3>2. CASE i # l + 1
      <4>1. i \in 1 .. l
        BY <3>2, <2>4
      <4> QED BY <4>1, <2>2, <2>3, <2>5 DEF a, l
    <3> QED BY <3>1, <3>2
  <2>8. Append(a, 0) = own(g + 1)
    BY <2>3, <2>5, <2>7, SeqEqual DEF l
  <2> QED BY <2>6, <2>8 DEF a
<1>7. Computed(own(g), <<0>>) = own(g + 1)
  <2>1. own(g) # Garbage
    BY <1>4, NoGarbage
  <2> HIDE DEF own
  <2> QED BY <2>1, <1>6 DEF Computed
<1>8. Tokens(r, g) = own(g) /\ Tokens(r, 0) = own(0) /\ Tokens(r, g + 1) = own(g + 1)
  <2>1. 0 \in Nat /\ g + 1 \in Nat
    OBVIOUS
  <2> QED BY <2>1, <1>2, Zenon
<1> HIDE DEF own
<1> QED BY <1>4, <1>5, <1>7, <1>8 DEF p

(* serve's answer takes a request through its prefill.                     *)
LEMMA PrefilledFacts ==
  ASSUME NEW slot, Waiting(slot), NEW served, served.reused + served.computed = Len(slot.request.prompt),
         ~Hybrid => served.context = slot.request.prompt /\ served.logits = slot.request.prompt
  PROVE  Running(PrefilledSlot(slot, served))
<1> DEFINE r == slot.request
           n == Len(r.prompt)
           e == PrefilledSlot(slot, served)
<1>1. r \in Request /\ r.maxNew \in Nat /\ n \in Nat /\ slot.generated = 0
      /\ slot.state = In("Submitted", n, 0, r.maxNew)
  BY RequestFacts DEF Waiting, IsSlot, Prompt
<1>2. Apply("ScheduleDecode", 0, Apply("FirstChunk", n, slot.state)) = In("Decoding", n, 0, r.maxNew)
  BY <1>1, FirstChunk, ScheduleDecode
<1> DEFINE state == In("Decoding", n, 0, r.maxNew)
<1>3. e = [slot EXCEPT !.context = served.context, !.logits = served.logits,
                       !.reused = served.reused, !.computed = served.computed,
                       !.state = state]
  BY <1>2 DEF PrefilledSlot
<1>4. IsSlot(slot) /\ slot.generated \in Nat
  BY DEF Waiting, IsSlot
<1>5. n + 0 = n /\ 0 <= r.maxNew
  BY <1>1
<1>6. Tokens(r, 0) = r.prompt
  BY <1>1, TokensFacts
<1> HIDE DEF e, state
<1>7. IsSlot(e) /\ e.request = r /\ e.generated = slot.generated /\ e.state = state
      /\ e.reused = served.reused /\ e.computed = served.computed
      /\ e.context = served.context /\ e.logits = served.logits
  <2>1. e = WithPrefill(slot, served.context, served.logits, served.reused, served.computed, state)
    BY <1>3 DEF WithPrefill
  <2> QED BY <2>1, <1>4, SlotPrefilled
<1> QED BY <1>1, <1>5, <1>6, <1>7 DEF Running, e, state

(* One turn of the decode loop: a slot that decodes generates one token of *)
(* its own or finishes.                                                    *)
LEMMA DecodedFacts ==
  ASSUME NEW slot, Waiting(slot) \/ Running(slot)
  PROVE  Waiting(Decoded(slot)) \/ Running(Decoded(slot)) \/ Decoded(slot).state = Finished
<1>1. CASE Waiting(slot)
  <2>1. slot.state.name # "Decoding"
    BY <1>1 DEF Waiting, In
  <2> QED BY <1>1, <2>1 DEF Decoded
<1>2. CASE Running(slot)
  <2> DEFINE r == slot.request
             g == slot.generated
             l == Len(r.prompt)
             m == r.maxNew
  <2>1. r \in Request /\ m \in Nat /\ l \in Nat /\ g \in Nat /\ g <= m
        /\ slot.state = In("Decoding", l + g, g, m) /\ slot.state.name = "Decoding"
    BY <1>2, RequestFacts DEF Running, IsSlot, Prompt, In
  <2>2. CASE g >= m
    <3>1. Decoded(slot) = [slot EXCEPT !.state = Finished]
      BY <2>1, <2>2, Succeeded DEF Decoded, Exhausted
    <3> QED BY <3>1, <1>2 DEF Running, IsSlot
  <2>3. CASE ~(g >= m)
    <3> DEFINE context == Computed(slot.context, <<0>>)
               e == [slot EXCEPT !.generated = @ + 1, !.context = context, !.logits = context,
                                 !.state = Apply("ExtendResult", 1, slot.state)]
    <3>1. Decoded(slot) = Exhausted(e)
      BY <2>1, <2>3 DEF Decoded
    <3>2. Apply("ExtendResult", 1, slot.state) = In("Decoding", (l + g) + 1, g + 1, m)
      <4>1. l + g \in Nat
        BY <2>1
      <4> QED BY <4>1, <2>1, ExtendResult
    <3> DEFINE state == In("Decoding", (l + g) + 1, g + 1, m)
               g2 == g + 1
    <3>3. e = [slot EXCEPT !.generated = g2, !.context = context, !.logits = context,
                           !.state = state]
      BY <3>2
    <3>a. IsSlot(slot) /\ g2 \in Nat
      BY <1>2, <2>1 DEF Running
    <3>4. ~Hybrid => context = Tokens(r, g + 1)
      BY <2>1, <1>2, TokensFacts DEF Running
    <3> HIDE DEF context, e, state, g2
    <3>b. IsSlot(e) /\ e.request = r /\ e.generated = g2 /\ e.context = context
          /\ e.logits = context /\ e.reused = slot.reused /\ e.computed = slot.computed
          /\ e.state = state
      <4>1. e = WithToken(slot, g2, context, context, state)
        BY <3>3 DEF WithToken
      <4> QED BY <4>1, <3>a, SlotExtended
    <3>5. IsSlot(e) /\ e.request = r /\ e.generated = g + 1 /\ e.context = context
          /\ e.logits = context /\ e.reused = slot.reused /\ e.computed = slot.computed
          /\ e.state = In("Decoding", (l + g) + 1, g + 1, m)
      BY <3>b DEF state, g2
    <3>6. (l + g) + 1 = l + (g + 1) /\ g + 1 <= m
      BY <2>1, <2>3
    <3>7. slot.reused + slot.computed = l
      BY <1>2 DEF Running
    <3>8. Running(e)
      BY <3>4, <3>5, <3>6, <3>7 DEF Running
    <3>9. Exhausted(e) = e \/ Exhausted(e).state = Finished
      <4>1. CASE e.state.name = "Decoding" /\ e.generated >= e.request.maxNew
        <5>1. Exhausted(e) = [e EXCEPT !.state = Finished]
          BY <4>1, <3>5, Succeeded DEF Exhausted
        <5> QED BY <5>1, <3>5 DEF IsSlot
      <4>2. CASE ~(e.state.name = "Decoding" /\ e.generated >= e.request.maxNew)
        BY <4>2 DEF Exhausted
      <4> QED BY <4>1, <4>2
    <3> QED BY <3>1, <3>8, <3>9
  <2> QED BY <2>2, <2>3
<1> QED BY <1>1, <1>2

(* Every number of a set is listed by Ascending.                           *)
LEMMA AscendingCovers ==
  ASSUME NEW n \in Nat, NEW S \in SUBSET (1 .. n), NEW s \in S
  PROVE  s \in ToSet(Ascending(S))
<1> DEFINE AtMost(x) == {t \in S : t <= x}
           i == Cardinality(AtMost(s))
<1>1. IsFiniteSet(S) /\ Cardinality(S) \in Nat
  <2>1. IsFiniteSet(1 .. n)
    BY FS_Interval
  <2> QED BY <2>1, FS_Subset, FS_CardinalityType
<1>2. ASSUME NEW x \in S
      PROVE  /\ IsFiniteSet(AtMost(x)) /\ Cardinality(AtMost(x)) \in Nat
             /\ Cardinality(AtMost(x)) <= Cardinality(S)
  <2>1. AtMost(x) \subseteq S
    OBVIOUS
  <2> HIDE DEF AtMost
  <2> QED BY <1>1, <2>1, FS_Subset, FS_CardinalityType
<1>3. i # 0
  <2>1. s \in AtMost(s)
    OBVIOUS
  <2> HIDE DEF AtMost
  <2> QED BY <1>2, <2>1, FS_EmptySet
<1>4. ASSUME NEW x \in S, NEW y \in S, x < y
      PROVE  Cardinality(AtMost(x)) # Cardinality(AtMost(y))
  <2>0. \A t \in S : t \in Nat
    OBVIOUS
  <2>1. AtMost(x) \subseteq AtMost(y) /\ y \in AtMost(y) /\ y \notin AtMost(x)
    <3>1. \A t \in S : t <= x => t <= y
      BY <1>4, <2>0
    <3>2. ~(y <= x) /\ y <= y
      BY <1>4, <2>0
    <3> QED BY <3>1, <3>2
  <2> HIDE DEF AtMost
  <2>2. IsFiniteSet(AtMost(y)) /\ AtMost(x) # AtMost(y)
    BY <1>2, <2>1
  <2> QED BY <2>1, <2>2, FS_Subset
<1>5. ASSUME NEW x \in S, Cardinality(AtMost(x)) = i PROVE x = s
  <2>1. ~(x < s) /\ ~(s < x)
    BY <1>4, <1>5
  <2> QED BY <2>1
<1>6. i \in 1 .. Cardinality(S)
  <2> HIDE DEF AtMost
  <2>1. i \in Nat /\ i <= Cardinality(S)
    BY <1>2
  <2> HIDE DEF i
  <2> QED BY <2>1, <1>1, <1>3
<1>7. Ascending(S) = [j \in 1 .. Cardinality(S) |-> CHOOSE x \in S : Cardinality(AtMost(x)) = j]
  BY DEF Ascending
<1> HIDE DEF AtMost
<1>8. (CHOOSE x \in S : Cardinality(AtMost(x)) = i) = s
  BY <1>5
<1> HIDE DEF i
<1>9. Ascending(S)[i] = s /\ i \in DOMAIN Ascending(S)
  BY <1>6, <1>7, <1>8
<1> HIDE DEF Ascending
<1> QED BY <1>9 DEF ToSet

(***************************************************************************)
(* The engine                                                              *)
(***************************************************************************)

(* Every admitted request waits for its prefill or decodes from its own    *)
(* state, and the one a step prefills waits.                               *)
Occupies(slot) == slot = NoSlot \/ Waiting(slot) \/ Running(slot)

Queues ==
  /\ pending \in Seq(Request) /\ Len(pending) <= MaxPending
  /\ (\E T : finished \in Seq(T)) /\ Len(finished) <= MaxFinished

Service ==
  /\ \E T : slots \in [Slots -> T]
  /\ \A s \in Slots : Occupies(slots[s])
  /\ serving \in Slots \cup {0}
  /\ serving # 0 => Waiting(slots[serving])

Books ==
  /\ cache.lru \in Seq(Key)
  /\ panicked = "none" => Accounts(cache) /\ (~Hybrid => Own(cache))

Verdicts ==
  /\ draining \in BOOLEAN
  /\ panicked \in {"none", "stranded", "too_long"}
  /\ FailsOnlyWhenTooBig

IInv == Queues /\ Service /\ Books /\ Verdicts

LEMMA KindsDiffer ==
  ASSUME NEW slot, Waiting(slot) \/ Running(slot)
  PROVE  /\ slot # NoSlot /\ slot.request \in Request /\ slot.state # Finished
         /\ Waiting(slot) => slot.state.name = "Submitted"
         /\ Running(slot) => slot.state.name = "Decoding"
<1>1. slot.free = FALSE /\ slot.request \in Request
  BY DEF Waiting, Running, IsSlot
<1>2. slot # NoSlot
  BY <1>1 DEF NoSlot
<1>3. (Waiting(slot) => slot.state.name = "Submitted") /\ (Running(slot) => slot.state.name = "Decoding")
  BY DEF Waiting, Running, In
<1>4. slot.state # Finished
  BY <1>3 DEF Finished
<1> QED BY <1>1, <1>2, <1>3, <1>4

(* Admission puts queued requests in free slots and leaves the others.     *)
LEMMA AdmitFacts ==
  ASSUME Queues, Service
  PROVE  /\ \E T : Admit \in [Slots -> T]
         /\ \A s \in Slots : Occupies(Admit[s])
         /\ LeftPending \in Seq(Request) /\ Len(LeftPending) <= MaxPending
<1> DEFINE open == {s \in Slots : slots[s] = NoSlot}
           Place(s) == Cardinality({o \in open : o <= s})
<1>1. IsFiniteSet(open) /\ open \subseteq Slots /\ Cardinality(open) \in Nat
  <2>1. IsFiniteSet(1 .. Capacity)
    BY CpuEngineAssumption, FS_Interval
  <2>2. open \subseteq 1 .. Capacity
    BY DEF Slots
  <2> HIDE DEF open
  <2> QED BY <2>1, <2>2, FS_Subset, FS_CardinalityType DEF Slots
<1>2. ASSUME NEW s \in open PROVE Place(s) \in Nat \ {0}
  <2> DEFINE S == {o \in open : o <= s}
  <2>1. s \in S /\ S \subseteq open
    BY <1>1, CpuEngineAssumption DEF Slots
  <2> HIDE DEF S, open
  <2>2. IsFiniteSet(S) /\ Cardinality(S) \in Nat /\ Cardinality(S) # 0
    BY <2>1, <1>1, FS_Subset, FS_CardinalityType, FS_EmptySet
  <2> QED BY <2>2 DEF S
<1>3. Admit = [s \in Slots |-> IF s \in open /\ Place(s) <= Len(pending)
                              THEN Admitted(pending[Place(s)]) ELSE slots[s]]
  BY DEF Admit
<1>4. pending \in Seq(Request) /\ Len(pending) \in Nat /\ Len(pending) <= MaxPending
  BY DEF Queues
<1> HIDE DEF open, Place
<1>5. ASSUME NEW s \in Slots PROVE Occupies(Admit[s])
  <2>1. CASE s \in open /\ Place(s) <= Len(pending)
    <3>1. Admit[s] = Admitted(pending[Place(s)])
      BY <1>3, <2>1
    <3>2. Place(s) \in 1 .. Len(pending)
      BY <1>2, <1>4, <2>1
    <3>3. pending[Place(s)] \in Request
      BY <3>2, <1>4
    <3> QED BY <3>1, <3>3, AdmittedFacts DEF Occupies
  <2>2. CASE ~(s \in open /\ Place(s) <= Len(pending))
    BY <1>3, <2>2 DEF Service
  <2> QED BY <2>1, <2>2
<1>6. \E T : Admit \in [Slots -> T]
  <2>1. Admit \in [Slots -> {Admit[s] : s \in Slots}]
    BY <1>3
  <2> QED BY <2>1
<1>7. LeftPending \in Seq(Request) /\ Len(LeftPending) <= MaxPending
  <2> DEFINE n == Cardinality(open)
  <2>1. LeftPending = SubSeq(pending, n + 1, Len(pending))
    BY DEF LeftPending, open
  <2> HIDE DEF n
  <2>2. n \in Nat
    BY <1>1 DEF n
  <2>3. SubSeq(pending, n + 1, Len(pending)) \in Seq(Request)
        /\ Len(SubSeq(pending, n + 1, Len(pending))) <= Len(pending)
    BY <2>2, <1>4
  <2> QED BY <2>1, <2>3, <1>4, CpuEngineAssumption
<1> QED BY <1>5, <1>6, <1>7

(* The decode loop ends in an assertion or keeps every slot well formed.   *)
LEMMA DecodeFacts ==
  ASSUME NEW ss, \E T : ss \in [Slots -> T], \A s \in Slots : Occupies(ss[s]),
         Queues, Service, Verdicts, serving' = 0, Decode(ss)
  PROVE  /\ Service'
         /\ (\E T : finished' \in Seq(T)) /\ Len(finished') <= MaxFinished
         /\ draining' \in BOOLEAN /\ panicked' \in {"none", "stranded", "too_long"}
         /\ panicked' = "none" => panicked = "none"
<1>1. CASE \E s \in Occupied(ss) : Overflows(ss[s])
  <2>1. panicked' = "too_long" /\ UNCHANGED <<slots, finished, draining>>
    BY <1>1 DEF Decode, Panic
  <2> QED BY <2>1 DEF Queues, Service, Verdicts
<1>2. CASE ~\E s \in Occupied(ss) : Overflows(ss[s])
  <2> DEFINE decoded == [s \in Slots |-> IF ss[s] = NoSlot THEN NoSlot ELSE Decoded(ss[s])]
             S == {s \in Occupied(ss) : decoded[s].state = Finished}
             ended == Ascending(S)
             record == [i \in 1 .. Len(ended) |-> FinishedRecord(decoded[ended[i]])]
             records == finished \o record
             kept == Smaller(MaxFinished, Len(records))
  <2>1. /\ slots' = [s \in Slots |-> IF s \in ToSet(ended) THEN NoSlot ELSE decoded[s]]
        /\ finished' = SubSeq(records, Len(records) - kept + 1, Len(records))
        /\ UNCHANGED <<draining, panicked>>
    BY <1>2 DEF Decode, DecodeAll
  <2>2. ASSUME NEW s \in Slots PROVE Occupies(slots'[s])
    <3>1. CASE s \in ToSet(ended)
      BY <2>1, <3>1 DEF Occupies
    <3>2. CASE s \notin ToSet(ended)
      <4>1. slots'[s] = decoded[s] /\ (ss[s] = NoSlot => decoded[s] = NoSlot)
            /\ (ss[s] # NoSlot => decoded[s] = Decoded(ss[s]))
        BY <2>1, <3>2
      <4>2. CASE ss[s] = NoSlot
        BY <4>1, <4>2 DEF Occupies
      <4>3. CASE ss[s] # NoSlot
        <5>1. Waiting(ss[s]) \/ Running(ss[s])
          BY <4>3 DEF Occupies
        <5>2. decoded[s].state # Finished
          <6>1. SUFFICES ASSUME decoded[s].state = Finished PROVE FALSE
            OBVIOUS
          <6>2. s \in S
            BY <6>1, <4>3 DEF Occupied
          <6>3. S \in SUBSET (1 .. Capacity) /\ Capacity \in Nat
            BY CpuEngineAssumption DEF Occupied, Slots
          <6> HIDE DEF S
          <6> QED BY <6>2, <6>3, <3>2, AscendingCovers
        <5> HIDE DEF decoded
        <5> QED BY <4>1, <4>3, <5>1, <5>2, DecodedFacts DEF Occupies
      <4> QED BY <4>2, <4>3
    <3> QED BY <3>1, <3>2
  <2>3. \E T : slots' \in [Slots -> T]
    <3>1. slots' \in [Slots -> {slots'[s] : s \in Slots}]
      BY <2>1
    <3> QED BY <3>1
  <2>4. (\E T : finished' \in Seq(T)) /\ Len(finished') <= MaxFinished
    <3>1. PICK T : finished \in Seq(T)
      BY DEF Queues
    <3> DEFINE U == T \cup {record[i] : i \in 1 .. Len(ended)}
    <3>2. Len(ended) \in Nat
      <4>1. IsFiniteSet(S)
        <5>1. IsFiniteSet(1 .. Capacity)
          BY CpuEngineAssumption, FS_Interval
        <5>2. S \subseteq 1 .. Capacity
          BY DEF Occupied, Slots
        <5> HIDE DEF S
        <5> QED BY <5>1, <5>2, FS_Subset
      <4> HIDE DEF S
      <4>2. Cardinality(S) \in Nat
        BY <4>1, FS_CardinalityType
      <4>3. Ascending(S) = [j \in 1 .. Cardinality(S) |-> CHOOSE x \in S : Cardinality({t \in S : t <= x}) = j]
        BY DEF Ascending
      <4>4. Len(Ascending(S)) = Cardinality(S)
        BY <4>2, <4>3
      <4> QED BY <4>2, <4>4
    <3> DEFINE m == Len(ended)
    <3> HIDE DEF m
    <3>3. record \in Seq(U)
      <4>1. record = [i \in 1 .. m |-> FinishedRecord(decoded[ended[i]])] /\ m \in Nat
        BY <3>2 DEF m
      <4>2. \A i \in 1 .. m : record[i] \in U
        BY DEF m
      <4> HIDE DEF record, U, ended
      <4> QED BY <4>1, <4>2
    <3>4. finished \in Seq(U)
      <4>1. T \subseteq U
        OBVIOUS
      <4>2. \A i \in 1 .. Len(finished) : finished[i] \in U
        <5> HIDE DEF U
        <5> QED BY <3>1, <4>1
      <4> HIDE DEF U
      <4> QED BY <3>1, <4>2
    <3> HIDE DEF record, U, decoded, ended
    <3>5. records \in Seq(U)
      BY <3>3, <3>4, ConcatProperties
    <3> DEFINE l == Len(records)
    <3>6. l \in Nat /\ kept = Smaller(MaxFinished, l)
      BY <3>5
    <3>7. finished' = SubSeq(records, l - kept + 1, l)
      BY <2>1
    <3> HIDE DEF records, l, kept
    <3>8. kept \in 0 .. l /\ kept <= MaxFinished
      BY <3>6, CpuEngineAssumption DEF Smaller
    <3>9. finished' \in Seq(U) /\ Len(finished') = kept
      BY <3>5, <3>6, <3>7, <3>8 DEF l
    <3> QED BY <3>8, <3>9
  <2> QED BY <2>1, <2>2, <2>3, <2>4 DEF Service, Verdicts
<1> QED BY <1>1, <1>2

(***************************************************************************)
(* The inductive invariant                                                 *)
(***************************************************************************)

LEMMA InitOK ==
  Init => IInv
<1> SUFFICES ASSUME Init PROVE IInv
  OBVIOUS
<1> USE PrefixKvAssumption, CpuEngineAssumption
<1>1. Queues
  <2>1. pending = <<>> /\ finished = <<>>
    BY DEF Init
  <2> QED BY <2>1 DEF Queues
<1>2. Service
  <2>1. slots = [s \in Slots |-> NoSlot] /\ serving = 0
    BY DEF Init
  <2>2. slots \in [Slots -> {NoSlot}]
    BY <2>1
  <2> QED BY <2>1, <2>2 DEF Service, Occupies
<1>3. Books
  <2> DEFINE b == [i \in 1 .. PoolBlocks |-> i]
  <2>1. cache = [lru |-> <<>>, block |-> <<>>, free |-> b, pages |-> <<>>]
    BY DEF Init, EmptyCache
  <2>2. b \in Seq(1 .. PoolBlocks) /\ Len(b) = PoolBlocks /\ ToSet(b) = 1 .. PoolBlocks
    <3>1. b \in Seq(1 .. PoolBlocks) /\ Len(b) = PoolBlocks /\ \A i \in 1 .. PoolBlocks : b[i] = i
      OBVIOUS
    <3>2. ToSet(b) = {b[i] : i \in 1 .. PoolBlocks}
      BY DEF ToSet
    <3> HIDE DEF b
    <3> QED BY <3>1, <3>2
  <2> HIDE DEF b
  <2>3. cache.lru = <<>> /\ cache.block = <<>> /\ cache.free = b /\ cache.pages = <<>>
    BY <2>1
  <2>4. cache.lru \in Seq(Key) /\ Distinct(cache.lru) /\ Len(cache.lru) = 0
    BY <2>3, EmptyEntries DEF Distinct
  <2>5. Indexed(cache) = {}
    BY <2>3, EmptyEntries DEF Indexed
  <2>6. DOMAIN cache.block = {} /\ DOMAIN cache.pages = {}
    BY <2>3
  <2>7. {cache.block[k] : k \in Indexed(cache)} = {}
    BY <2>5
  <2>8. Len(cache.lru) + Len(cache.free) = PoolBlocks
    BY <2>2, <2>3, <2>4
  <2>9. Accounts(cache)
    BY <2>1, <2>2, <2>3, <2>4, <2>5, <2>6, <2>7, <2>8 DEF Accounts
  <2>10. Own(cache)
    BY <2>5 DEF Own
  <2> QED BY <2>4, <2>9, <2>10 DEF Books
<1>4. Verdicts
  BY DEF Init, Verdicts, FailsOnlyWhenTooBig
<1> QED BY <1>1, <1>2, <1>3, <1>4 DEF IInv

(* What a slot that waits for its prefill asks serve for.                  *)
LEMMA Asked ==
  ASSUME IInv, serving # 0
  PROVE  /\ serving \in Slots /\ Waiting(slots[serving])
         /\ slots[serving].request \in Request
         /\ Sent(slots[serving].request.prompt)
<1>1. serving \in Slots /\ Waiting(slots[serving])
  BY DEF IInv, Service
<1>2. slots[serving].request \in Request
  BY <1>1 DEF Waiting, IsSlot
<1> QED BY <1>1, <1>2 DEF Sent

LEMMA BeginKeeps ==
  ASSUME IInv, StepBegin
  PROVE  IInv'
<1>1. /\ \E T : Admit \in [Slots -> T]
      /\ \A s \in Slots : Occupies(Admit[s])
      /\ LeftPending \in Seq(Request) /\ Len(LeftPending) <= MaxPending
  BY AdmitFacts DEF IInv
<1>2. pending' = LeftPending /\ failed' = NoRequest /\ cache' = cache /\ panicked = "none"
  BY DEF StepBegin
<1>3. Books' /\ FailsOnlyWhenTooBig'
  <2>1. cache.lru \in Seq(Key) /\ Accounts(cache) /\ (~Hybrid => Own(cache))
    BY <1>2 DEF IInv, Books
  <2> QED BY <1>2, <2>1 DEF Books, FailsOnlyWhenTooBig
<1>4. CASE Unprefilled(Admit) = {}
  <2>1. serving' = 0 /\ Decode(Admit)
    BY <1>4 DEF StepBegin
  <2>2. /\ Service' /\ (\E T : finished' \in Seq(T)) /\ Len(finished') <= MaxFinished
        /\ draining' \in BOOLEAN /\ panicked' \in {"none", "stranded", "too_long"}
    BY <1>1, <2>1, DecodeFacts DEF IInv
  <2> QED BY <1>1, <1>2, <1>3, <2>2 DEF IInv, Queues, Verdicts
<1>5. CASE Unprefilled(Admit) # {}
  <2> DEFINE m == Min(Unprefilled(Admit))
  <2>1. serving' = m /\ slots' = Admit /\ UNCHANGED <<finished, draining, panicked>>
    BY <1>5 DEF StepBegin
  <2>2. m \in Unprefilled(Admit)
    <3>1. Unprefilled(Admit) \in SUBSET Nat
      BY CpuEngineAssumption DEF Unprefilled, Occupied, Slots
    <3> QED BY <3>1, <1>5, LeastOf
  <2>3. m \in Slots /\ Admit[m] # NoSlot /\ Admit[m].state.name \notin {"PrefillDone", "Decoding"}
    BY <2>2 DEF Unprefilled, Occupied
  <2>4. Waiting(Admit[m])
    BY <1>1, <2>3, KindsDiffer DEF Occupies
  <2>5. Service'
    BY <1>1, <2>1, <2>3, <2>4 DEF Service
  <2> QED BY <1>1, <1>2, <1>3, <2>1, <2>5 DEF IInv, Queues, Verdicts
<1> QED BY <1>4, <1>5

LEMMA EvictKeeps ==
  ASSUME IInv, EvictColdest
  PROVE  IInv'
<1> DEFINE p == slots[serving].request.prompt
           d == Plan(cache, p).cache
<1>1. panicked = "none" /\ serving # 0
      /\ ~Plan(cache, p).fits /\ d.lru # <<>> /\ cache' = Evict(d)
      /\ UNCHANGED <<slots, serving, pending, finished, draining, failed, panicked>>
  BY DEF EvictColdest
<1>2. Sent(p) /\ Accounts(cache) /\ (~Hybrid => Own(cache))
  BY <1>1, Asked DEF IInv, Books
<1> HIDE DEF p
<1>3. Unfitted(cache, p, Hits(cache, Keys(p)), SubSeq(Keys(p), 1, Hits(cache, Keys(p))), d)
  BY <1>1, <1>2, NoFitFacts
<1>4. Accounts(d) /\ Indexed(d) = Indexed(cache) /\ d.pages = cache.pages
  BY <1>3 DEF Unfitted
<1> HIDE DEF d
<1>5. Accounts(cache') /\ Indexed(cache') \subseteq Indexed(d)
      /\ \A k \in Indexed(cache') : cache'.pages[k] = d.pages[k]
  BY <1>1, <1>4, EvictFacts
<1>6. ~Hybrid => Own(cache')
  BY <1>2, <1>4, <1>5 DEF Own
<1>7. cache'.lru \in Seq(Key)
  BY <1>5 DEF Accounts
<1>8. Books'
  <2>1. Accounts(cache)'
    BY <1>5 DEF Accounts, Indexed
  <2>2. ~Hybrid => Own(cache)'
    BY <1>6 DEF Own, Indexed
  <2> QED BY <1>7, <2>1, <2>2 DEF Books
<1> QED BY <1>1, <1>8 DEF IInv, Queues, Service, Verdicts, FailsOnlyWhenTooBig

(* A request that fails finds the pool empty: it needs more than all of it.*)
LEMMA TooBig ==
  ASSUME NEW c, NEW p, Accounts(c), Sent(p), ~Plan(c, p).fits, Plan(c, p).cache.lru = <<>>
  PROVE  NumPages(p) > PoolBlocks
<1> DEFINE h == Hits(c, Keys(p))
           d == Plan(c, p).cache
           n == NumPages(p)
<1>1. Unfitted(c, p, h, SubSeq(Keys(p), 1, h), d)
  BY NoFitFacts
<1>2. n - h > Len(c.free) /\ Indexed(c) = {}
  BY <1>1, EmptyEntries DEF Unfitted, Indexed
<1>3. p \in Prompt
  BY SentFacts
<1>4. h \in 0 .. n /\ \A i \in 1 .. h : Keys(p)[i] \in Indexed(c)
  BY <1>3, HitFacts
<1>5. n \in Nat
  BY <1>3, PageCount
<1> HIDE DEF h, n
<1>6. h = 0
  <2>1. SUFFICES ASSUME h # 0 PROVE FALSE
    OBVIOUS
  <2>2. 1 \in 1 .. h
    BY <2>1, <1>4, <1>5
  <2> QED BY <2>2, <1>2, <1>4
<1>7. Len(c.lru) = 0 /\ Len(c.free) = PoolBlocks
  <2>1. c.lru \in Seq(Key) /\ ToSet(c.lru) = {} /\ Len(c.lru) + Len(c.free) = PoolBlocks
        /\ Len(c.free) \in Nat
    BY <1>2 DEF Accounts, Indexed
  <2>2. Len(c.lru) = 0
    BY <2>1, NoEntries
  <2> QED BY <2>1, <2>2
<1>8. n > PoolBlocks
  BY <1>2, <1>5, <1>6, <1>7
<1> QED BY <1>8 DEF n

LEMMA PrefillKeeps ==
  ASSUME IInv, Prefill
  PROVE  IInv'
<1> DEFINE slot == slots[serving]
           p == slot.request.prompt
           plan == Plan(cache, p)
           r == Serve(plan, p)
<1>1. panicked = "none" /\ serving # 0 /\ (plan.fits \/ plan.cache.lru = <<>>)
      /\ PrefillEnds(slot, r)
  BY DEF Prefill
<1>2. serving \in Slots /\ Waiting(slot) /\ Sent(p) /\ slot.request \in Request
      /\ Accounts(cache) /\ (~Hybrid => Own(cache))
  BY <1>1, Asked DEF IInv, Books
<1>3. Answered(cache, p, plan, r)
  BY <1>2, ServeFacts
<1>4. plan.fits \/ NumPages(p) > PoolBlocks
  BY <1>1, <1>2, TooBig
<1>a. p = slot.request.prompt /\ slot = slots[serving]
  OBVIOUS
<1> HIDE DEF slot, p, plan, r
<1>5. cache' = r.cache /\ serving' = 0 /\ pending' = pending /\ r.cache.lru \in Seq(Key)
  BY <1>1, <1>3 DEF PrefillEnds, Answered
<1>6. CASE r.result = "served"
  <2> DEFINE e == PrefilledSlot(slot, r)
             ss == [slots EXCEPT ![serving] = e]
  <2>1. Decode(ss) /\ failed' = failed
    BY <1>1, <1>6 DEF PrefillEnds
  <2>2. /\ Accounts(r.cache) /\ r.reused + r.computed = Len(p)
        /\ ~Hybrid => Own(r.cache) /\ r.context = p /\ r.logits = p
    BY <1>2, <1>3, <1>6 DEF Answered
  <2>3. Running(e)
    BY <1>2, <1>a, <2>2, PrefilledFacts
  <2> HIDE DEF e
  <2>4. (\E T : ss \in [Slots -> T]) /\ \A s \in Slots : Occupies(ss[s])
    <3>1. PICK T : slots \in [Slots -> T]
      BY DEF IInv, Service
    <3>2. ss \in [Slots -> T \cup {e}]
      BY <3>1
    <3>3. ASSUME NEW s \in Slots PROVE Occupies(ss[s])
      <4>1. ss[s] = IF s = serving THEN e ELSE slots[s]
        BY <3>1
      <4>2. Occupies(slots[s])
        BY DEF IInv, Service
      <4> HIDE DEF ss
      <4> QED BY <2>3, <4>1, <4>2 DEF Occupies
    <3> QED BY <3>2, <3>3
  <2> HIDE DEF ss
  <2>5. /\ Service' /\ (\E T : finished' \in Seq(T)) /\ Len(finished') <= MaxFinished
        /\ draining' \in BOOLEAN /\ panicked' \in {"none", "stranded", "too_long"}
    BY <1>5, <2>1, <2>4, DecodeFacts DEF IInv
  <2>6. Accounts(cache)' /\ (~Hybrid => Own(cache)')
    <3> DEFINE q == r.cache
    <3>1. cache' = q /\ Accounts(q) /\ (~Hybrid => Own(q))
      BY <1>5, <2>2
    <3> HIDE DEF q
    <3> QED BY <3>1 DEF Accounts, Own, Indexed
  <2> QED BY <1>5, <2>1, <2>5, <2>6 DEF IInv, Queues, Books, Verdicts, FailsOnlyWhenTooBig
<1>7. CASE r.result \in {"stranded", "too_long"}
  <2>1. panicked' = r.result /\ UNCHANGED <<slots, finished, draining, failed>>
    BY <1>1, <1>7 DEF PrefillEnds, Panic
  <2> QED BY <1>5, <1>7, <2>1 DEF IInv, Queues, Service, Books, Verdicts, FailsOnlyWhenTooBig
<1>8. CASE r.result = "too_small"
  <2>1. /\ slots' = [slots EXCEPT ![serving] = NoSlot] /\ failed' = slot.request
        /\ draining' = FALSE /\ UNCHANGED <<finished, panicked>>
    BY <1>1, <1>8 DEF PrefillEnds
  <2>2. ~plan.fits /\ r.cache = plan.cache
    BY <1>3, <1>8 DEF Answered
  <2>3. NumPages(p) > PoolBlocks
    BY <1>4, <2>2
  <2>4. Unfitted(cache, p, Hits(cache, Keys(p)), SubSeq(Keys(p), 1, Hits(cache, Keys(p))), plan.cache)
    BY <1>2, <2>2, NoFitFacts DEF plan
  <2>5. Accounts(r.cache) /\ (~Hybrid => Own(r.cache))
    BY <1>2, <2>2, <2>4 DEF Unfitted, Own
  <2>6. Accounts(cache)' /\ (~Hybrid => Own(cache)')
    <3> DEFINE q == r.cache
    <3>1. cache' = q /\ Accounts(q) /\ (~Hybrid => Own(q))
      BY <1>5, <2>5
    <3> HIDE DEF q
    <3> QED BY <3>1 DEF Accounts, Own, Indexed
  <2>7. Service'
    <3>1. PICK T : slots \in [Slots -> T]
      BY DEF IInv, Service
    <3>2. slots' \in [Slots -> T \cup {NoSlot}]
      BY <3>1, <2>1
    <3>3. \A s \in Slots : slots'[s] = IF s = serving THEN NoSlot ELSE slots[s]
      BY <3>1, <2>1
    <3>4. \A s \in Slots : Occupies(slots[s])
      BY DEF IInv, Service
    <3> QED BY <1>5, <3>2, <3>3, <3>4 DEF Service, Occupies
  <2>8. FailsOnlyWhenTooBig'
    BY <1>a, <2>1, <2>3 DEF FailsOnlyWhenTooBig
  <2> QED BY <1>5, <2>1, <2>6, <2>7, <2>8 DEF IInv, Queues, Books, Verdicts
<1>9. r.result \in {"too_small", "stranded", "too_long", "served"}
  BY <1>3 DEF Answered
<1> QED BY <1>6, <1>7, <1>8, <1>9

LEMMA NextOK ==
  IInv /\ [Next]_vars => IInv'
<1> SUFFICES ASSUME IInv, [Next]_vars PROVE IInv'
  OBVIOUS
<1>1. ASSUME NEW r \in Request, Add(r) PROVE IInv'
  <2>1. pending' = Append(pending, r) /\ Len(pending) < MaxPending
        /\ UNCHANGED <<cache, slots, serving, finished, draining, failed, panicked>>
    BY <1>1 DEF Add
  <2>2. pending' \in Seq(Request) /\ Len(pending') <= MaxPending
    BY <2>1, CpuEngineAssumption DEF IInv, Queues
  <2> QED BY <2>1, <2>2 DEF IInv, Queues, Service, Books, Verdicts, FailsOnlyWhenTooBig
<1>2. CASE DrainFinished
  <2>1. finished' = <<>> /\ UNCHANGED <<cache, slots, serving, pending, draining, failed, panicked>>
    BY <1>2 DEF DrainFinished
  <2>2. finished' \in Seq({}) /\ Len(finished') <= MaxFinished
    BY <2>1, CpuEngineAssumption
  <2> QED BY <2>1, <2>2 DEF IInv, Queues, Service, Books, Verdicts, FailsOnlyWhenTooBig
<1>3. CASE StepBegin
  BY <1>3, BeginKeeps
<1>4. CASE EvictColdest
  BY <1>4, EvictKeeps
<1>5. CASE Prefill
  BY <1>5, PrefillKeeps
<1>6. CASE StepIdle
  BY <1>6 DEF StepIdle, IInv, Queues, Service, Books, Verdicts, FailsOnlyWhenTooBig
<1>7. CASE StepUntilDone
  BY <1>7 DEF StepUntilDone, IInv, Queues, Service, Books, Verdicts, FailsOnlyWhenTooBig
<1>8. CASE UNCHANGED vars
  BY <1>8 DEF vars, IInv, Queues, Service, Books, Verdicts, FailsOnlyWhenTooBig
<1> QED BY <1>1, <1>2, <1>3, <1>4, <1>5, <1>6, <1>7, <1>8 DEF Next, Step

(* The inductive invariant holds throughout.                               *)
THEOREM CpuEngineKeeps ==
  Spec => []IInv
BY InitOK, NextOK, PTL DEF Spec

(* No event meets a request in a state the machine does not allow it in,   *)
(* which would panic (scheduler_fsm.rs), the queues stay within their      *)
(* limits, and the index holds keys of prompts that were sent.             *)
THEOREM CpuTypeCorrect ==
  Spec => []TypeOK
<1>1. ASSUME IInv PROVE TypeOK
  <2>1. cache.lru \in Seq(UNION {ToSet(Keys(r.prompt)) : r \in Request})
    BY <1>1 DEF IInv, Books, Key
  <2>2. ASSUME NEW s \in Occupied(slots)
        PROVE  slots[s].state.name \in {"Submitted", "Decoding"}
    <3>1. Waiting(slots[s]) \/ Running(slots[s])
      BY <1>1 DEF Occupied, IInv, Service, Occupies
    <3> QED BY <3>1, KindsDiffer
  <2> QED BY <1>1, <2>1, <2>2 DEF TypeOK, IInv, Queues, Verdicts
<1> QED BY <1>1, CpuEngineKeeps, PTL

(* On a model without recurrent layers a request decodes from its own      *)
(* tokens, whatever its prefill reused (prefix_kv.rs:7-8).                 *)
THEOREM CpuLogitsAreOwn ==
  Spec => [](~Hybrid => LogitsAreOwn)
<1>1. IInv => (~Hybrid => LogitsAreOwn)
  <2> SUFFICES ASSUME IInv, ~Hybrid PROVE LogitsAreOwn
    OBVIOUS
  <2> SUFFICES ASSUME NEW s \in Occupied(slots), slots[s].state.name = "Decoding"
               PROVE  LET slot == slots[s]
                          own  == slot.request.prompt \o [i \in 1 .. slot.generated |-> 0]
                      IN  /\ slot.logits = own /\ slot.context = own
                          /\ slot.state.decoded = slot.generated /\ slot.state.tokens = Len(own)
                          /\ slot.reused + slot.computed = Len(slot.request.prompt)
    BY DEF LogitsAreOwn
  <2> DEFINE slot == slots[s]
             own == Tokens(slot.request, slot.generated)
  <2>1. Running(slot)
    BY KindsDiffer DEF Occupied, IInv, Service, Occupies
  <2> HIDE DEF slot
  <2>2. slot.logits = own /\ slot.context = own
        /\ slot.reused + slot.computed = Len(slot.request.prompt)
    BY <2>1 DEF Running
  <2>3. Len(own) = Len(slot.request.prompt) + slot.generated
    BY <2>1, TokensFacts DEF Running, IsSlot
  <2>4. slot.state.decoded = slot.generated
        /\ slot.state.tokens = Len(slot.request.prompt) + slot.generated
    BY <2>1 DEF Running, In
  <2> HIDE DEF own
  <2>5. /\ slot.logits = own /\ slot.context = own
        /\ slot.state.decoded = slot.generated /\ slot.state.tokens = Len(own)
        /\ slot.reused + slot.computed = Len(slot.request.prompt)
    BY <2>2, <2>3, <2>4
  <2> QED BY <2>5 DEF own, Tokens, slot
<1> QED BY <1>1, CpuEngineKeeps, PTL

(* The index, the page data and the block pool agree between any two turns *)
(* of serve's loop (kv_block_pool.rs:205).                                 *)
THEOREM CpuCacheAccounts ==
  Spec => [](~Hybrid => CacheAccounts)
<1>1. IInv => (~Hybrid => CacheAccounts)
  BY DEF IInv, Books, CacheAccounts, Accounts, Own
<1> QED BY <1>1, CpuEngineKeeps, PTL

(* A step fails a request only when the whole pool could not hold it       *)
(* (prefix_kv.rs:19-20), with recurrent layers or without.                 *)
THEOREM CpuFailsOnlyWhenTooBig ==
  Spec => []FailsOnlyWhenTooBig
BY CpuEngineKeeps, PTL DEF IInv, Verdicts

(***************************************************************************)
(* Holes in the chains of the index                                        *)
(***************************************************************************)

(* Key a stands for whole leading pages of key k.                          *)
Ext(a, k) == \E n \in 1 .. Len(k) - 1 : n % TokensPerPage = 0 /\ a = SubSeq(k, 1, n)

(* An indexed key with a hole before it: serve cannot reach its page.      *)
Holed(s, y) == y \in ToSet(s) /\ \E a : Ext(a, y) /\ a \notin ToSet(s)

(* What lies between a key and one that extends it belongs to that chain.  *)
Contiguous(s) ==
  \A a, x, k : Ext(a, k) /\ Before(s, a, x) /\ Before(s, x, k) => Ext(a, x) /\ Ext(x, k)

(* The keys with a hole are the coldest, form one chain, and have the same *)
(* holes.                                                                  *)
Coldest(s)   == \A x, y : Holed(s, y) /\ x \in ToSet(s) /\ ~Holed(s, x) => Before(s, y, x)
OneChain(s)  == \A x, y : Holed(s, x) /\ Holed(s, y) /\ Before(s, x, y) => Ext(x, y)
SameHoles(s) ==
  \A a, x, y : Holed(s, x) /\ Holed(s, y) /\ Ext(a, x) /\ a \notin ToSet(s) => Ext(a, y)

Tidy(s) == Contiguous(s) /\ Coldest(s) /\ OneChain(s) /\ SameHoles(s)

(* The keys of s are a prompt's leading pages in order.                    *)
Chained(s) == \A k \in ToSet(s) : \A a : Ext(a, k) <=> Before(s, a, k)

LEMMA HolesAlike ==
  ASSUME NEW s, NEW x, NEW y, NEW K, SameHoles(s), Holed(s, x), Holed(s, y),
         \E a : Ext(a, y) /\ a \notin ToSet(s) /\ a \notin K
  PROVE  \E a : Ext(a, x) /\ a \notin ToSet(s) /\ a \notin K
<1>1. PICK a : Ext(a, y) /\ a \notin ToSet(s) /\ a \notin K
  OBVIOUS
<1>2. Ext(a, x)
  BY <1>1, Zenon DEF SameHoles
<1> QED BY <1>1, <1>2

LEMMA TidyTouch ==
  ASSUME NEW s \in Seq(Key), NEW K \in Seq(Key), Distinct(s), Distinct(K), Tidy(s), Chained(K)
  PROVE  /\ Tidy(Touch(s, K))
         /\ \A y : Holed(Touch(s, K), y) => Holed(s, y) /\ y \notin ToSet(K)
<1> DEFINE t == Touch(s, K)
<1>1. /\ ToSet(t) = ToSet(s) \cup ToSet(K)
      /\ \A a, b : Before(t, a, b) <=>
           \/ Before(s, a, b) /\ a \notin ToSet(K) /\ b \notin ToSet(K)
           \/ Before(K, a, b)
           \/ a \in ToSet(s) \ ToSet(K) /\ b \in ToSet(K)
  BY TouchFacts
<1>2. \A a, b : Before(K, a, b) => a \in ToSet(K) /\ b \in ToSet(K)
  BY BeforeIn
<1> HIDE DEF t
<1>3. ASSUME NEW y, Holed(t, y) PROVE Holed(s, y) /\ y \notin ToSet(K)
  <2>1. PICK a : Ext(a, y) /\ a \notin ToSet(t)
    BY <1>3 DEF Holed
  <2>2. y \notin ToSet(K)
    <3>1. SUFFICES ASSUME y \in ToSet(K) PROVE FALSE
      OBVIOUS
    <3>2. Before(K, a, y)
      BY <2>1, <3>1 DEF Chained
    <3> QED BY <1>1, <1>2, <2>1, <3>2
  <2> QED BY <1>1, <1>3, <2>1, <2>2 DEF Holed
<1>4. Contiguous(t)
  <2>1. SUFFICES ASSUME NEW a, NEW x, NEW k, Ext(a, k), Before(t, a, x), Before(t, x, k)
                 PROVE  Ext(a, x) /\ Ext(x, k)
    BY DEF Contiguous
  <2>2. CASE k \in ToSet(K)
    <3>1. Before(K, a, k)
      BY <2>1, <2>2 DEF Chained
    <3>2. Before(K, a, x)
      BY <1>1, <1>2, <2>1, <3>1
    <3>3. Before(K, x, k)
      BY <1>1, <1>2, <2>1, <3>2
    <3> QED BY <1>2, <2>2, <3>2, <3>3 DEF Chained
  <2>3. CASE k \notin ToSet(K)
    <3>1. Before(s, x, k) /\ x \notin ToSet(K)
      BY <1>1, <1>2, <2>1, <2>3
    <3>2. Before(s, a, x)
      BY <1>1, <1>2, <2>1, <3>1
    <3> QED BY <2>1, <3>1, <3>2 DEF Tidy, Contiguous
  <2> QED BY <2>2, <2>3
<1>5. Coldest(t)
  <2>1. SUFFICES ASSUME NEW x, NEW y, Holed(t, y), x \in ToSet(t), ~Holed(t, x)
                 PROVE  Before(t, y, x)
    BY DEF Coldest
  <2>2. Holed(s, y) /\ y \notin ToSet(K) /\ y \in ToSet(s)
    BY <1>3, <2>1 DEF Holed
  <2>3. CASE x \in ToSet(K)
    BY <1>1, <2>2, <2>3
  <2>4. CASE x \notin ToSet(K)
    <3>1. x \in ToSet(s)
      BY <1>1, <2>1, <2>4
    <3>2. ~Holed(s, x)
      <4>1. SUFFICES ASSUME Holed(s, x) PROVE FALSE
        OBVIOUS
      <4>2. \E a : Ext(a, y) /\ a \notin ToSet(s) /\ a \notin ToSet(K)
        BY <1>1, <2>1 DEF Holed
      <4>3. \E a : Ext(a, x) /\ a \notin ToSet(s) /\ a \notin ToSet(K)
        BY <2>2, <4>1, <4>2, HolesAlike DEF Tidy
      <4> QED BY <1>1, <2>1, <4>3 DEF Holed
    <3>3. Before(s, y, x)
      BY <2>2, <3>1, <3>2 DEF Tidy, Coldest
    <3> QED BY <1>1, <2>2, <2>4, <3>3
  <2> QED BY <2>3, <2>4
<1>6. OneChain(t)
  <2>1. SUFFICES ASSUME NEW x, NEW y, Holed(t, x), Holed(t, y), Before(t, x, y)
                 PROVE  Ext(x, y)
    BY DEF OneChain
  <2>2. Holed(s, x) /\ Holed(s, y) /\ x \notin ToSet(K) /\ y \notin ToSet(K)
    BY <1>3, <2>1
  <2>3. Before(s, x, y)
    BY <1>1, <1>2, <2>1, <2>2
  <2> QED BY <2>2, <2>3 DEF Tidy, OneChain
<1>7. SameHoles(t)
  <2>1. SUFFICES ASSUME NEW a, NEW x, NEW y, Holed(t, x), Holed(t, y),
                        Ext(a, x), a \notin ToSet(t)
                 PROVE  Ext(a, y)
    BY DEF SameHoles
  <2>2. Holed(s, x) /\ Holed(s, y) /\ a \notin ToSet(s)
    BY <1>1, <1>3, <2>1
  <2> QED BY <2>1, <2>2, Zenon DEF Tidy, SameHoles
<1> QED BY <1>3, <1>4, <1>5, <1>6, <1>7 DEF Tidy, t

(* Two entries of a sequence are in one order or the other.                *)
LEMMA InOrder ==
  ASSUME NEW T, NEW s \in Seq(T), NEW x \in ToSet(s), NEW y \in ToSet(s), x # y
  PROVE  Before(s, x, y) \/ Before(s, y, x)
<1>1. PICK i \in 1 .. Len(s), j \in 1 .. Len(s) : s[i] = x /\ s[j] = y
  BY ToSetIn
<1>2. i < j \/ j < i
  BY <1>1
<1> QED BY <1>1, <1>2 DEF Before

LEMMA ExtTrans ==
  ASSUME NEW c \in Seq(Nat), NEW a, NEW b, Ext(a, b), Ext(b, c)
  PROVE  Ext(a, c)
<1>1. PICK m \in 1 .. Len(c) - 1 : m % TokensPerPage = 0 /\ b = SubSeq(c, 1, m)
  BY DEF Ext
<1>2. PICK n \in 1 .. Len(b) - 1 : n % TokensPerPage = 0 /\ a = SubSeq(b, 1, n)
  BY DEF Ext
<1>3. m \in 0 .. Len(c) /\ Len(c) \in Nat
  BY <1>1
<1>4. Len(b) = m
  BY <1>1, <1>3, PrefixFacts
<1>5. n \in 0 .. m /\ n \in 1 .. Len(c) - 1
  BY <1>1, <1>2, <1>3, <1>4
<1>6. a = SubSeq(c, 1, n)
  BY <1>1, <1>2, <1>3, <1>5, PrefixFacts
<1> QED BY <1>2, <1>5, <1>6 DEF Ext

LEMMA KeysArePrompts == Key \subseteq Prompt
<1>1. ASSUME NEW r \in Request PROVE ToSet(Keys(r.prompt)) \subseteq Prompt
  <2>1. Keys(r.prompt) \in Seq(Prompt)
    BY RequestFacts, KeyFacts
  <2> HIDE DEF Prompt
  <2> QED BY <2>1, ToSetIn
<1> QED BY <1>1 DEF Key

LEMMA TidyTail ==
  ASSUME NEW s \in Seq(Key), s # <<>>, Distinct(s), Tidy(s)
  PROVE  /\ Tidy(Tail(s))
         /\ ToSet(Tail(s)) = ToSet(s) \ {Head(s)}
         /\ \A y : Holed(s, y) => Holed(s, Head(s)) /\ (y # Head(s) => Ext(Head(s), y))
<1> DEFINE h == Head(s)
           r == Tail(s)
<1>1. /\ h \in Key /\ r \in Seq(Key) /\ ToSet(s) = {h} \cup ToSet(r)
      /\ \A a, b : Before(s, a, b) <=> Before(r, a, b) \/ (a = h /\ b \in ToSet(r))
  BY TailEntries
<1> HIDE DEF h, r
<1>2. h \notin ToSet(r)
  BY <1>1 DEF Distinct
<1>3. ToSet(r) = ToSet(s) \ {h}
  BY <1>1, <1>2
<1>4. \A a, b : Before(r, a, b) => a \in ToSet(r) /\ b \in ToSet(r)
  BY <1>1, BeforeIn
<1>5. Contiguous(r)
  <2>1. \A a, b : Before(r, a, b) => Before(s, a, b)
    BY <1>1
  <2> QED BY <2>1 DEF Tidy, Contiguous
<1>6. ASSUME NEW y, Holed(s, y) PROVE Holed(s, h)
  <2>1. SUFFICES ASSUME ~Holed(s, h) PROVE FALSE
    OBVIOUS
  <2>2. Before(s, y, h)
    BY <1>1, <1>6, <2>1 DEF Tidy, Coldest
  <2> QED BY <1>1, <1>2, <1>4, <2>2
<1>7. ASSUME NEW y, Holed(s, y), y # h PROVE Ext(h, y)
  <2>1. Holed(s, h) /\ y \in ToSet(r)
    BY <1>1, <1>6, <1>7 DEF Holed
  <2>2. Before(s, h, y)
    BY <1>1, <2>1
  <2> QED BY <1>7, <2>1, <2>2 DEF Tidy, OneChain
<1>8. \A y \in ToSet(r) : y \in Seq(Nat)
  <2>1. ToSet(r) \subseteq Key
    BY <1>1, ToSetIn
  <2> QED BY <2>1, KeysArePrompts DEF Prompt
<1>9. \A y : Holed(r, y) <=> y \in ToSet(r) /\ (Holed(s, y) \/ Ext(h, y))
  BY <1>3, <1>2 DEF Holed
<1>10. CASE \E z : Holed(s, z)
  <2>1. Holed(s, h)
    BY <1>6, <1>10
  <2>2. ASSUME NEW y, y \in ToSet(r), Ext(h, y) PROVE Holed(s, y)
    <3>1. PICK a : Ext(a, h) /\ a \notin ToSet(s)
      BY <2>1 DEF Holed
    <3>2. Ext(a, y)
      BY <1>8, <2>2, <3>1, ExtTrans
    <3> QED BY <1>1, <2>2, <3>1, <3>2 DEF Holed
  <2>3. \A y : Holed(r, y) <=> y \in ToSet(r) /\ Holed(s, y)
    BY <1>9, <2>2
  <2>4. Coldest(r)
    <3>1. SUFFICES ASSUME NEW x, NEW y, Holed(r, y), x \in ToSet(r), ~Holed(r, x)
                   PROVE  Before(r, y, x)
      BY DEF Coldest
    <3>2. Before(s, y, x)
      BY <1>1, <2>3, <3>1 DEF Tidy, Coldest
    <3> QED BY <1>1, <1>2, <2>3, <3>1, <3>2
  <2>5. OneChain(r)
    BY <1>1, <2>3 DEF Tidy, OneChain
  <2>6. SameHoles(r)
    <3>1. SUFFICES ASSUME NEW a, NEW x, NEW y, Holed(r, x), Holed(r, y),
                          Ext(a, x), a \notin ToSet(r)
                   PROVE  Ext(a, y)
      BY DEF SameHoles
    <3>2. Holed(s, x) /\ Holed(s, y) /\ y # h
      BY <1>2, <2>3, <3>1
    <3>3. CASE a = h
      BY <1>7, <3>2, <3>3
    <3>4. CASE a # h
      <4>1. a \notin ToSet(s)
        BY <1>1, <3>1, <3>4
      <4> QED BY <3>1, <3>2, <4>1, Zenon DEF Tidy, SameHoles
    <3> QED BY <3>3, <3>4
  <2> QED BY <1>3, <1>5, <1>6, <1>7, <2>4, <2>5, <2>6 DEF Tidy, h, r
<1>11. CASE ~\E z : Holed(s, z)
  <2>1. \A y : Holed(r, y) <=> y \in ToSet(r) /\ Ext(h, y)
    BY <1>9, <1>11
  <2>2. ASSUME NEW x \in ToSet(r), NEW y \in ToSet(r), Before(r, x, y), Ext(h, y)
        PROVE  Ext(h, x) /\ Ext(x, y)
    <3>1. Before(s, h, x) /\ Before(s, x, y)
      BY <1>1, <2>2
    <3> QED BY <2>2, <3>1 DEF Tidy, Contiguous
  <2>3. Coldest(r)
    <3>1. SUFFICES ASSUME NEW x, NEW y, Holed(r, y), x \in ToSet(r), ~Holed(r, x)
                   PROVE  Before(r, y, x)
      BY DEF Coldest
    <3>2. Ext(h, y) /\ ~Ext(h, x) /\ y \in ToSet(r) /\ x # y
      BY <2>1, <3>1
    <3>3. Before(r, x, y) \/ Before(r, y, x)
      BY <1>1, <3>1, <3>2, InOrder
    <3> QED BY <2>2, <3>1, <3>2, <3>3
  <2>4. OneChain(r)
    BY <2>1, <2>2 DEF OneChain
  <2>5. SameHoles(r)
    <3>1. SUFFICES ASSUME NEW a, NEW x, NEW y, Holed(r, x), Holed(r, y),
                          Ext(a, x), a \notin ToSet(r)
                   PROVE  Ext(a, y)
      BY DEF SameHoles
    <3>2. x \in ToSet(s)
      BY <1>1, <2>1, <3>1
    <3>3. a \in ToSet(s)
      BY <1>11, <3>1, <3>2 DEF Holed
    <3>4. a = h
      BY <1>1, <3>1, <3>3
    <3> QED BY <2>1, <3>1, <3>4
  <2> QED BY <1>3, <1>5, <1>6, <1>7, <2>3, <2>4, <2>5 DEF Tidy, h, r
<1> QED BY <1>10, <1>11

(* A multiple of t is t times its quotient.                                *)
LEMMA Multiple ==
  ASSUME NEW m \in Nat, NEW t \in Nat \ {0}, m % t = 0
  PROVE  m \div t \in Nat /\ m = (m \div t) * t
<1> DEFINE q == m \div t
<1>1. q \in Nat /\ m = t * q + (m % t)
  BY SMTT(60)
<1> HIDE DEF q
<1>2. t * q = q * t /\ q * t \in Nat
  BY <1>1, SMTT(60)
<1>3. m = q * t
  BY <1>1, <1>2
<1> QED BY <1>1, <1>3 DEF q

(* The keys of a prompt that stand for whole pages of its i-th.            *)
LEMMA ExtKeys ==
  ASSUME NEW p \in Prompt, NEW i \in 1 .. NumPages(p), NEW a
  PROVE  Ext(a, Keys(p)[i]) <=> \E j \in 1 .. i - 1 : a = Keys(p)[j]
<1> DEFINE t == TokensPerPage
           n == NumPages(p)
           e == PageEnd(p, i)
<1>1. t \in Nat \ {0} /\ n \in Nat \ {0} /\ p \in Seq(Nat) /\ i \in 1 .. n /\ i \in 0 .. n
  BY PrefixKvAssumption, PageCount DEF Prompt
<1>2. e \in 0 .. Len(p) /\ Keys(p)[i] = SubSeq(p, 1, e) /\ Len(Keys(p)[i]) = e
      /\ \A j \in 0 .. i - 1 : PageEnd(p, j) < e
  BY <1>1, KeyFacts, PageEnds
<1>3. \A j \in 1 .. i - 1 : j \in 1 .. n /\ j \in 0 .. n /\ j < n /\ j \in 0 .. i - 1 /\ j \in Nat
  BY <1>1
<1>4. ASSUME NEW j \in 1 .. i - 1
      PROVE  PageEnd(p, j) = j * t /\ Keys(p)[j] = SubSeq(p, 1, j * t)
  <2>1. PageEnd(p, j) = j * t
    BY <1>3, PageEnds
  <2>2. Keys(p)[j] = SubSeq(p, 1, PageEnd(p, j))
    BY <1>3, KeyFacts
  <2> QED BY <2>1, <2>2
<1>5. e <= i * t
  <2>1. e = Smaller(i * t, Len(p)) /\ i * t \in Nat
    BY <1>1, PageEnds, MulMono
  <2> HIDE DEF e
  <2>2. Len(p) \in Nat
    BY <1>1
  <2> QED BY <2>1, <2>2 DEF Smaller
<1> HIDE DEF e, n, t
<1>6. ASSUME NEW m \in 1 .. e - 1, m % t = 0, a = SubSeq(Keys(p)[i], 1, m)
      PROVE  \E j \in 1 .. i - 1 : a = Keys(p)[j]
  <2> DEFINE j == m \div t
  <2>1. m \in Nat \ {0} /\ m < e /\ e \in Nat
    BY <1>1, <1>2
  <2>2. j \in Nat /\ j * t = m
    <3>1. m \div t \in Nat /\ m = (m \div t) * t
      BY <1>1, <1>6, <2>1, Multiple
    <3> QED BY <3>1
  <2> HIDE DEF j
  <2>3. j # 0
    BY <1>1, <2>1, <2>2
  <2>4. j < i
    <3>1. SUFFICES ASSUME i <= j PROVE FALSE
      BY <1>1, <2>2
    <3>2. i * t <= j * t
      BY <1>1, <2>2, <3>1, MulMono
    <3>3. i * t \in Nat
      BY <1>1, MulMono
    <3> QED BY <1>5, <2>1, <2>2, <3>2, <3>3
  <2>5. j \in 1 .. i - 1
    BY <1>1, <2>2, <2>3, <2>4
  <2>6. a = SubSeq(p, 1, m)
    <3>1. m \in 0 .. e
      BY <2>1
    <3> QED BY <1>1, <1>2, <1>6, <3>1, PrefixFacts
  <2> QED BY <1>4, <2>2, <2>5, <2>6
<1>7. ASSUME NEW j \in 1 .. i - 1, a = Keys(p)[j] PROVE Ext(a, Keys(p)[i])
  <2> DEFINE m == j * t
  <2>1. m \in Nat /\ m # 0 /\ m % t = 0
    <3>1. j \in Nat \ {0}
      BY <1>1
    <3> QED BY <1>1, <3>1, SMTT(60)
  <2>2. m < e /\ a = SubSeq(p, 1, m)
    BY <1>2, <1>3, <1>4, <1>7
  <2> HIDE DEF m
  <2>3. m \in 1 .. e - 1 /\ m \in 0 .. e
    BY <1>2, <2>1, <2>2
  <2>4. a = SubSeq(Keys(p)[i], 1, m)
    BY <1>1, <1>2, <2>2, <2>3, PrefixFacts
  <2> QED BY <1>2, <2>1, <2>3, <2>4 DEF Ext, t
<1>8. Ext(a, Keys(p)[i]) <=> \E m \in 1 .. e - 1 : m % t = 0 /\ a = SubSeq(Keys(p)[i], 1, m)
  BY <1>2 DEF Ext, t
<1> QED BY <1>6, <1>7, <1>8

(* A key that stands for more whole pages has more pages.                  *)
LEMMA ExtPages ==
  ASSUME NEW a \in Prompt, NEW b \in Prompt, Ext(a, b)
  PROVE  NumPages(a) < NumPages(b)
<1> DEFINE t == TokensPerPage
           j == NumPages(a)
           m == NumPages(b)
           l == Len(b)
<1>1. PICK n \in 1 .. Len(b) - 1 : n % t = 0 /\ a = SubSeq(b, 1, n)
  BY DEF Ext
<1>2. /\ t \in Nat \ {0} /\ j \in Nat \ {0} /\ m \in Nat \ {0} /\ l \in Nat
      /\ (j - 1) * t < Len(a) /\ l <= m * t
  BY PageCount, PrefixKvAssumption
<1>3. n \in Nat /\ n < l
  BY <1>2
<1>4. Len(a) = n
  <2>1. n \in 0 .. Len(b) /\ b \in Seq(Nat)
    BY <1>2, <1>3 DEF Prompt
  <2> QED BY <1>1, <2>1, PrefixFacts
<1> HIDE DEF t, j, m, l
<1>5. PICK k \in Nat : n = k * t
  <2>1. n \div t \in Nat /\ n = (n \div t) * t
    BY <1>1, <1>2, <1>3, Multiple
  <2> QED BY <2>1
<1>6. j <= k
  <2>1. SUFFICES ASSUME k <= j - 1 PROVE FALSE
    BY <1>2
  <2>2. j - 1 \in Nat
    BY <1>2
  <2>3. k * t <= (j - 1) * t /\ (j - 1) * t \in Nat
    BY <1>2, <2>1, <2>2, MulMono
  <2> QED BY <1>2, <1>3, <1>4, <1>5, <2>3
<1>7. k < m
  <2>1. SUFFICES ASSUME m <= k PROVE FALSE
    BY <1>2
  <2>2. m * t <= k * t /\ m * t \in Nat
    BY <1>2, <2>1, MulMono
  <2> QED BY <1>2, <1>3, <1>5, <2>2
<1> QED BY <1>2, <1>6, <1>7 DEF j, m

(* The i-th key of a prompt has i pages.                                   *)
LEMMA KeyPages ==
  ASSUME NEW p \in Prompt, NEW i \in 1 .. NumPages(p)
  PROVE  Keys(p)[i] \in Prompt /\ NumPages(Keys(p)[i]) = i
<1> DEFINE t == TokensPerPage
           k == Keys(p)[i]
           m == NumPages(k)
           e == PageEnd(p, i)
<1>1. t \in Nat \ {0} /\ i \in Nat \ {0} /\ i \in 0 .. NumPages(p) /\ Len(p) \in Nat
  BY PrefixKvAssumption, PageCount
<1>2. k \in Prompt /\ Len(k) = e
  <2>1. Keys(p) \in Seq(Prompt) /\ Len(Keys(p)) = NumPages(p)
    BY KeyFacts
  <2> HIDE DEF Prompt
  <2>2. k \in Prompt
    BY <2>1
  <2> QED BY <2>2, KeyFacts
<1>3. m \in Nat \ {0} /\ (m - 1) * t < e /\ e <= m * t
  BY <1>2, PageCount
<1>4. e \in Nat /\ e <= i * t /\ (i - 1) * t < e
  <2>1. e = Smaller(i * t, Len(p)) /\ i * t \in Nat /\ e \in Nat
    BY <1>1, PageEnds, MulMono
  <2>2. i - 1 \in 0 .. NumPages(p) /\ i - 1 < NumPages(p) /\ i - 1 \in 0 .. i - 1
    BY <1>1, PageCount
  <2>3. PageEnd(p, i - 1) = (i - 1) * t
    BY <2>2, PageEnds
  <2>4. PageEnd(p, i - 1) < e
    BY <1>1, <2>2, PageEnds
  <2>5. e <= i * t
    <3> HIDE DEF e
    <3> QED BY <1>1, <2>1 DEF Smaller
  <2> QED BY <2>1, <2>3, <2>4, <2>5
<1> HIDE DEF t, e, m, k
<1>5. ~(m <= i - 1)
  <2>1. SUFFICES ASSUME m <= i - 1 PROVE FALSE
    OBVIOUS
  <2>2. i - 1 \in Nat
    BY <1>1
  <2>3. m * t <= (i - 1) * t /\ m * t \in Nat /\ (i - 1) * t \in Nat
    BY <1>1, <1>3, <2>1, <2>2, MulMono
  <2> QED BY <1>3, <1>4, <2>3
<1>6. ~(i <= m - 1)
  <2>1. SUFFICES ASSUME i <= m - 1 PROVE FALSE
    OBVIOUS
  <2>2. m - 1 \in Nat
    BY <1>3
  <2>3. i * t <= (m - 1) * t /\ i * t \in Nat /\ (m - 1) * t \in Nat
    BY <1>1, <1>3, <2>1, <2>2, MulMono
  <2> QED BY <1>3, <1>4, <2>3
<1>7. m = i
  BY <1>1, <1>3, <1>5, <1>6
<1> QED BY <1>2, <1>7 DEF m, k

(* A prompt's leading keys are a chain.                                    *)
LEMMA LeadingChained ==
  ASSUME NEW p, Sent(p), NEW h \in 0 .. NumPages(p)
  PROVE  Chained(SubSeq(Keys(p), 1, h))
<1> DEFINE q == SubSeq(Keys(p), 1, h)
           k == Keys(p)
           n == NumPages(p)
<1>1. p \in Prompt /\ k \in Seq(Key)
  BY SentFacts
<1>2. /\ Len(q) = h /\ ToSet(q) = {k[i] : i \in 1 .. h} /\ \A i \in 1 .. h : q[i] = k[i]
      /\ h \in 0 .. n /\ n \in Nat
      /\ \A i, j \in 1 .. n : k[i] = k[j] => i = j
  BY <1>1, LeadingKeys, KeyFacts, PageCount
<1>3. \A i \in 1 .. n : \A a : Ext(a, k[i]) <=> \E j \in 1 .. i - 1 : a = k[j]
  BY <1>1, ExtKeys
<1> HIDE DEF q, k, n
<1>4. ASSUME NEW i \in 1 .. h, NEW a PROVE Ext(a, k[i]) <=> Before(q, a, k[i])
  <2>1. i \in 1 .. n /\ i \in Nat
    BY <1>2
  <2>2. ASSUME Before(q, a, k[i]) PROVE \E j \in 1 .. i - 1 : a = k[j]
    <3>1. PICK j \in 1 .. h, l \in 1 .. h : j < l /\ q[j] = a /\ q[l] = k[i]
      BY <1>2, <2>2 DEF Before
    <3>2. a = k[j] /\ k[l] = k[i] /\ l \in 1 .. n
      BY <1>2, <3>1
    <3>3. l = i
      BY <1>2, <2>1, <3>2
    <3>4. j \in 1 .. i - 1
      BY <3>1, <3>3, <2>1
    <3> QED BY <3>2, <3>4
  <2>3. ASSUME NEW j \in 1 .. i - 1, a = k[j] PROVE Before(q, a, k[i])
    <3>1. j \in 1 .. h /\ j < i
      BY <1>2, <2>1
    <3> QED BY <1>2, <2>3, <3>1 DEF Before
  <2> QED BY <1>3, <2>1, <2>2, <2>3
<1> QED BY <1>2, <1>4 DEF Chained, q

LEMMA AllChained ==
  ASSUME NEW p, Sent(p)
  PROVE  Chained(Keys(p)) /\ Distinct(Keys(p)) /\ Keys(p) \in Seq(Key)
<1>1. p \in Prompt /\ Keys(p) \in Seq(Key) /\ Len(Keys(p)) = NumPages(p) /\ NumPages(p) \in 0 .. NumPages(p)
      /\ Distinct(Keys(p))
  BY SentFacts, KeyFacts, PageCount
<1>2. SubSeq(Keys(p), 1, Len(Keys(p))) = Keys(p)
  <2> DEFINE k == Keys(p)
  <2>1. k \in Seq(Key)
    BY <1>1
  <2> HIDE DEF k
  <2>2. Len(k) \in 0 .. Len(k)
    BY <2>1
  <2> QED BY <2>1, <2>2, PrefixFacts DEF k
<1> QED BY <1>1, <1>2, LeadingChained

(* While serve's loop frees blocks for prompt p and some key is holed, the *)
(* loop will end with no block to spare.  A key beyond p's own first hole  *)
(* is deeper than the blocks freed so far: by the time they suffice, it is *)
(* deeper than all of p's pages.                                           *)
Loop(c, p) ==
  LET h == Hits(c, Keys(p))
      n == NumPages(p)
  IN  \A y : Holed(c.lru, y) =>
        /\ Len(c.free) <= n - h
        /\ n <= PoolBlocks /\ h < n /\ Ext(Keys(p)[h + 1], y) =>
             NumPages(y) - (h + 1) > Len(c.free)

(* Between two steps a hole leaves no block free.                          *)
Full(c) == (\E y : Holed(c.lru, y)) => Len(c.free) = 0

Orderly ==
  /\ panicked # "stranded"
  /\ panicked = "none" =>
       /\ Tidy(cache.lru)
       /\ serving = 0 => Full(cache)
       /\ serving # 0 => Loop(cache, slots[serving].request.prompt)

LEMMA PageKinds ==
  ASSUME NEW c, NEW y, Accounts(c), Holed(c.lru, y)
  PROVE  y \in Prompt /\ NumPages(y) \in Nat
<1>1. c.lru \in Seq(Key) /\ y \in ToSet(c.lru)
  BY DEF Accounts, Holed
<1>2. y \in Prompt
  BY <1>1, ToSetIn, KeysArePrompts
<1> QED BY <1>2, PageCount

(* The pages a plan would reuse are so many entries of the index.          *)
LEMMA HitsIndexed ==
  ASSUME NEW c, NEW p, Accounts(c), Sent(p)
  PROVE  /\ Hits(c, Keys(p)) \in Nat /\ Len(c.lru) \in Nat /\ Len(c.free) \in Nat
         /\ Hits(c, Keys(p)) <= Len(c.lru)
         /\ Len(c.lru) + Len(c.free) = PoolBlocks
         /\ (\A k \in Indexed(c) : \E i \in 1 .. Hits(c, Keys(p)) : k = Keys(p)[i])
              => Len(c.lru) = Hits(c, Keys(p))
<1> DEFINE h == Hits(c, Keys(p))
           q == SubSeq(Keys(p), 1, h)
<1>1. p \in Prompt /\ Keys(p) \in Seq(Key)
  BY SentFacts
<1>2. h \in 0 .. NumPages(p) /\ \A i \in 1 .. h : Keys(p)[i] \in Indexed(c)
  BY <1>1, HitFacts
<1>3. q \in Seq(Key) /\ Len(q) = h /\ Distinct(q) /\ ToSet(q) = {Keys(p)[i] : i \in 1 .. h}
  BY <1>1, <1>2, LeadingKeys
<1>4. c.lru \in Seq(Key) /\ Distinct(c.lru) /\ Indexed(c) = ToSet(c.lru)
      /\ c.free \in Seq(1 .. PoolBlocks) /\ Len(c.lru) + Len(c.free) = PoolBlocks
  BY DEF Accounts, Indexed
<1>5. Len(c.lru) \in Nat /\ Len(c.free) \in Nat /\ h \in Nat
  BY <1>1, <1>2, <1>4, PageCount
<1> HIDE DEF h, q
<1>6. ToSet(q) \subseteq ToSet(c.lru)
  BY <1>2, <1>3, <1>4
<1>7. /\ IsFiniteSet(ToSet(c.lru)) /\ Cardinality(ToSet(c.lru)) = Len(c.lru)
      /\ IsFiniteSet(ToSet(q)) /\ Cardinality(ToSet(q)) = h
  BY <1>3, <1>4, DistinctLength
<1>8. h <= Len(c.lru)
  BY <1>6, <1>7, FS_Subset
<1>9. ASSUME \A k \in Indexed(c) : \E i \in 1 .. h : k = Keys(p)[i]
      PROVE  Len(c.lru) = h
  <2>1. ToSet(c.lru) = ToSet(q)
    BY <1>3, <1>4, <1>6, <1>9
  <2> QED BY <1>7, <2>1
<1> QED BY <1>4, <1>5, <1>8, <1>9 DEF h

(* A step that begins to serve a prompt starts with a full pool, or with   *)
(* no hole.                                                                *)
LEMMA LoopBegins ==
  ASSUME NEW c, NEW p, Accounts(c), Sent(p), Full(c)
  PROVE  Loop(c, p)
<1> DEFINE h == Hits(c, Keys(p))
           n == NumPages(p)
<1>1. p \in Prompt
  BY SentFacts
<1>2. h \in 0 .. n /\ n \in Nat
  BY <1>1, HitFacts, PageCount
<1>3. ASSUME NEW y, Holed(c.lru, y)
      PROVE  /\ Len(c.free) <= n - h
             /\ n <= PoolBlocks /\ h < n /\ Ext(Keys(p)[h + 1], y) =>
                  NumPages(y) - (h + 1) > Len(c.free)
  <2>1. Len(c.free) = 0
    BY <1>3 DEF Full
  <2>2. ASSUME h < n, Ext(Keys(p)[h + 1], y) PROVE NumPages(y) - (h + 1) > 0
    <3>1. h + 1 \in 1 .. NumPages(p)
      BY <1>2, <2>2
    <3>2. Keys(p)[h + 1] \in Prompt /\ NumPages(Keys(p)[h + 1]) = h + 1
      BY <1>1, <3>1, KeyPages
    <3>3. y \in Prompt /\ NumPages(y) \in Nat
      BY <1>3, PageKinds
    <3>4. h + 1 < NumPages(y)
      BY <2>2, <3>2, <3>3, ExtPages
    <3> HIDE DEF h
    <3> QED BY <1>2, <3>3, <3>4
  <2> HIDE DEF h, n
  <2> QED BY <1>2, <2>1, <2>2
<1> QED BY <1>3 DEF Loop

(* One turn of the loop: the coldest page goes, and its block comes.       *)
LEMMA LoopGoesOn ==
  ASSUME NEW c, NEW p, Accounts(c), Sent(p), Tidy(c.lru), Loop(c, p),
         ~Plan(c, p).fits, Plan(c, p).cache.lru # <<>>
  PROVE  Tidy(Evict(Plan(c, p).cache).lru) /\ Loop(Evict(Plan(c, p).cache), p)
<1> DEFINE k == Keys(p)
           h == Hits(c, k)
           n == NumPages(p)
           hit == SubSeq(k, 1, h)
           d == Plan(c, p).cache
           e == Evict(d)
           g == Hits(e, k)
           hd == Head(d.lru)
           f == Len(c.free)
<1>0. p \in Prompt /\ k \in Seq(Key)
  BY SentFacts
<1>1. /\ h \in 0 .. n /\ n \in Nat
      /\ \A i \in 1 .. h : k[i] \in Indexed(c)
      /\ h < n => k[h + 1] \notin Indexed(c)
  BY <1>0, HitFacts, PageCount
<1>2. /\ g \in 0 .. n
      /\ \A i \in 1 .. g : k[i] \in Indexed(e)
      /\ g < n => k[g + 1] \notin Indexed(e)
  BY <1>0, HitFacts
<1>3. Unfitted(c, p, h, hit, d)
  BY NoFitFacts
<1>4. /\ n - h > f /\ d.lru = Touch(c.lru, hit) /\ Accounts(d) /\ Indexed(d) = Indexed(c)
      /\ Len(d.free) = f /\ hit \in Seq(Key) /\ Distinct(hit)
      /\ ToSet(hit) = {k[i] : i \in 1 .. h}
  BY <1>3 DEF Unfitted
<1>5. Chained(hit)
  BY <1>1, LeadingChained
<1>6. d.lru # <<>> /\ f \in Nat
  BY HitsIndexed
<1>7. /\ Hits(d, k) = h /\ Len(d.lru) \in Nat /\ Len(d.lru) + f = PoolBlocks
      /\ (\A x \in Indexed(d) : \E i \in 1 .. h : x = k[i]) => Len(d.lru) = h
  <2>1. Hits(d, k) = h
    BY <1>4 DEF Hits
  <2>2. /\ Len(d.lru) \in Nat /\ Len(d.lru) + Len(d.free) = PoolBlocks
        /\ (\A x \in Indexed(d) : \E i \in 1 .. Hits(d, k) : x = k[i]) => Len(d.lru) = Hits(d, k)
    BY <1>4, HitsIndexed
  <2> HIDE DEF h, d, k
  <2> QED BY <1>4, <2>1, <2>2
<1>a. Loop(c, p)
  OBVIOUS
<1>8. ASSUME NEW y, Holed(c.lru, y)
      PROVE  /\ f <= n - h
             /\ n <= PoolBlocks /\ h < n /\ Ext(k[h + 1], y) => NumPages(y) - (h + 1) > f
             /\ y \in Prompt /\ NumPages(y) \in Nat
  BY <1>a, <1>8, PageKinds DEF Loop
<1> HIDE DEF d, k, h, n, hit
<1>9. /\ e.lru = Tail(d.lru) /\ Indexed(e) = Indexed(d) \ {hd} /\ hd \in Indexed(d)
      /\ Len(e.free) = f + 1 /\ Accounts(e)
  BY <1>4, <1>6, EvictFacts
<1> HIDE DEF e, f
<1>10. c.lru \in Seq(Key) /\ Distinct(c.lru) /\ d.lru \in Seq(Key) /\ Distinct(d.lru)
       /\ Indexed(d) = ToSet(d.lru)
  BY <1>4 DEF Accounts, Indexed
<1>11. /\ Tidy(d.lru)
       /\ \A y : Holed(d.lru, y) => Holed(c.lru, y) /\ y \notin ToSet(hit)
  BY <1>4, <1>5, <1>10, TidyTouch
<1>12. /\ Tidy(e.lru)
       /\ \A y : Holed(d.lru, y) => Holed(d.lru, hd) /\ (y # hd => Ext(hd, y))
  BY <1>6, <1>9, <1>10, <1>11, TidyTail
<1>13. g <= h
  <2>1. SUFFICES ASSUME g > h PROVE FALSE
    BY <1>1, <1>2
  <2>2. h + 1 \in 1 .. g /\ h < n
    BY <1>1, <1>2, <2>1
  <2> QED BY <1>1, <1>2, <1>4, <1>9, <2>2
<1>14. CASE hd \in ToSet(hit)
  <2>1. \A x \in Indexed(d) : x \in ToSet(hit)
    <3>1. SUFFICES ASSUME NEW x \in Indexed(d), x \notin ToSet(hit) PROVE FALSE
      OBVIOUS
    <3>2. x \in ToSet(c.lru)
      BY <1>4, <3>1 DEF Indexed
    <3>3. Before(d.lru, x, hd)
      BY <1>4, <1>10, <1>14, <3>1, <3>2, TouchFacts
    <3>4. ~Before(d.lru, x, hd)
      <4>1. /\ ToSet(d.lru) = {hd} \cup ToSet(Tail(d.lru)) /\ Tail(d.lru) \in Seq(Key)
            /\ \A a, b : Before(d.lru, a, b) <=>
                 Before(Tail(d.lru), a, b) \/ (a = hd /\ b \in ToSet(Tail(d.lru)))
        BY <1>6, <1>10, TailEntries
      <4>2. hd \notin ToSet(Tail(d.lru))
        BY <1>10, <4>1 DEF Distinct
      <4> QED BY <4>1, <4>2, BeforeIn
    <3> QED BY <3>3, <3>4
  <2>2. Len(d.lru) = h
    BY <1>4, <1>7, <2>1
  <2>3. n > PoolBlocks
    BY <1>1, <1>4, <1>6, <1>7, <2>2
  <2>4. Len(e.free) <= n - g
    BY <1>1, <1>2, <1>4, <1>6, <1>9, <1>13
  <2>5. ~(n <= PoolBlocks)
    BY <1>1, <2>3, PrefixKvAssumption
  <2>6. Loop(e, p)
    BY <2>4, <2>5 DEF Loop, g, n, k
  <2> QED BY <1>12, <2>6 DEF e, d
<1>15. CASE hd \notin ToSet(hit)
  <2>1. g = h
    <3>1. SUFFICES ASSUME g < h PROVE FALSE
      BY <1>1, <1>2, <1>13
    <3>2. g + 1 \in 1 .. h /\ g < n
      BY <1>1, <1>2, <3>1
    <3>3. k[g + 1] \in ToSet(hit) /\ k[g + 1] \in Indexed(d)
      BY <1>1, <1>4, <3>2
    <3> QED BY <1>2, <1>9, <1>15, <3>2, <3>3
  <2>2. ASSUME NEW y, Holed(e.lru, y)
        PROVE  /\ Len(e.free) <= n - g
               /\ n <= PoolBlocks /\ g < n /\ Ext(k[g + 1], y) =>
                    NumPages(y) - (g + 1) > Len(e.free)
    <3>1. Len(e.free) <= n - g
      BY <1>1, <1>4, <1>6, <1>9, <2>1
    <3>2. ASSUME n <= PoolBlocks, g < n, Ext(k[g + 1], y) PROVE NumPages(y) - (g + 1) > Len(e.free)
      <4>1. y \in Indexed(d) /\ y # hd
        BY <1>9, <2>2 DEF Holed, Indexed
      <4>2. k[h + 1] \notin ToSet(d.lru) /\ Ext(k[h + 1], y)
        BY <1>1, <1>4, <1>10, <2>1, <3>2
      <4>3. Holed(d.lru, y)
        BY <1>10, <4>1, <4>2 DEF Holed
      <4>4. Holed(d.lru, hd) /\ Ext(hd, y)
        BY <1>12, <4>1, <4>3
      <4>5. Ext(k[h + 1], hd)
        BY <1>11, <4>2, <4>3, <4>4, Zenon DEF Tidy, SameHoles
      <4>6. Holed(c.lru, hd) /\ Holed(c.lru, y)
        BY <1>11, <4>3, <4>4
      <4>7. NumPages(hd) - (h + 1) > f /\ hd \in Prompt /\ NumPages(hd) \in Nat
            /\ y \in Prompt /\ NumPages(y) \in Nat
        BY <1>8, <2>1, <3>2, <4>5, <4>6
      <4>8. NumPages(hd) < NumPages(y)
        BY <4>4, <4>7, ExtPages
      <4> HIDE DEF hd, g
      <4> QED BY <1>1, <1>6, <1>9, <2>1, <4>7, <4>8
    <3> QED BY <3>1, <3>2
  <2>3. Loop(e, p)
    BY <2>2 DEF Loop, g, n, k
  <2> QED BY <1>12, <2>3 DEF e, d
<1> QED BY <1>14, <1>15

(* A plan that fits finds no page of the prompt beyond a hole, and takes   *)
(* every free block if there is one.                                       *)
LEMMA LoopEnds ==
  ASSUME NEW c, NEW p, Accounts(c), Sent(p), Tidy(c.lru), Loop(c, p), Plan(c, p).fits
  PROVE  /\ Plan(c, p).duplicates = <<>>
         /\ Tidy(Plan(c, p).cache.lru)
         /\ Full(Plan(c, p).cache)
<1> DEFINE k == Keys(p)
           h == Hits(c, k)
           n == NumPages(p)
           plan == Plan(c, p)
           d == plan.cache
           f == Len(c.free)
<1>0. p \in Prompt
  BY SentFacts
<1>1. /\ h \in 0 .. n /\ n \in Nat /\ f \in Nat
      /\ h < n => k[h + 1] \notin Indexed(c)
      /\ h <= Len(c.lru) /\ Len(c.lru) \in Nat /\ Len(c.lru) + f = PoolBlocks
  BY <1>0, HitFacts, PageCount, HitsIndexed
<1>2. Fitted(c, p, plan, h, d)
  BY FitFacts
<1>3. n - h <= f /\ d.lru = Touch(c.lru, k)
      /\ (plan.duplicates = <<>> <=> \A i \in h + 1 .. n : k[i] \notin Indexed(c))
      /\ (plan.duplicates = <<>> => Len(d.free) = f - (n - h))
  BY <1>2 DEF Fitted
<1>4. ASSUME NEW y, Holed(c.lru, y)
      PROVE  /\ f <= n - h
             /\ n <= PoolBlocks /\ h < n /\ Ext(k[h + 1], y) => NumPages(y) - (h + 1) > f
  BY <1>4 DEF Loop
<1>5. ASSUME NEW i \in 1 .. n
      PROVE  NumPages(k[i]) = i /\ \A j \in 1 .. i - 1 : Ext(k[j], k[i])
  <2>1. NumPages(Keys(p)[i]) = i
    BY <1>0, KeyPages
  <2>2. \A j \in 1 .. i - 1 : Ext(Keys(p)[j], Keys(p)[i])
    BY <1>0, ExtKeys
  <2> QED BY <2>1, <2>2
<1>6. Chained(k) /\ Distinct(k) /\ k \in Seq(Key)
  BY AllChained
<1>7. c.lru \in Seq(Key) /\ Distinct(c.lru) /\ Indexed(c) = ToSet(c.lru)
  BY DEF Accounts, Indexed
<1> HIDE DEF k, h, n, plan, d, f
<1>8. ASSUME NEW i \in h + 1 .. n PROVE k[i] \notin Indexed(c)
  <2>1. SUFFICES ASSUME k[i] \in Indexed(c) PROVE FALSE
    OBVIOUS
  <2>2. h < n /\ i \in 1 .. n /\ i \in Nat
    BY <1>1
  <2>3. i # h + 1 /\ k[h + 1] \notin ToSet(c.lru)
    BY <1>1, <1>7, <2>1, <2>2
  <2>4. h + 1 \in 1 .. i - 1
    BY <1>1, <2>2, <2>3
  <2>5. Ext(k[h + 1], k[i]) /\ NumPages(k[i]) = i
    BY <1>5, <2>2, <2>4
  <2>6. Holed(c.lru, k[i])
    BY <1>7, <2>1, <2>3, <2>5 DEF Holed
  <2>7. f <= n - h
    BY <1>4, <2>6
  <2>8. n <= PoolBlocks
    BY <1>1, <1>3, <2>7, PrefixKvAssumption
  <2>9. i - (h + 1) > f
    BY <1>4, <2>2, <2>5, <2>6, <2>8
  <2> QED BY <1>1, <1>3, <2>2, <2>7, <2>9
<1>9. plan.duplicates = <<>> /\ Len(d.free) = f - (n - h)
  BY <1>3, <1>8
<1>10. Tidy(d.lru) /\ \A y : Holed(d.lru, y) => Holed(c.lru, y)
  BY <1>3, <1>6, <1>7, TidyTouch
<1>11. Full(d)
  <2>1. SUFFICES ASSUME NEW y, Holed(d.lru, y) PROVE Len(d.free) = 0
    BY DEF Full
  <2>2. f <= n - h
    BY <1>4, <1>10, <2>1
  <2> QED BY <1>1, <1>3, <1>9, <2>2
<1> QED BY <1>9, <1>10, <1>11 DEF plan, d

(* The empty index has no holes.                                           *)
LEMMA EmptyTidy ==
  ASSUME NEW c, c.lru = <<>>
  PROVE  Tidy(c.lru) /\ Full(c)
<1>1. \A y : ~Holed(c.lru, y)
  BY EmptyEntries DEF Holed
<1>2. \A a, b : ~Before(c.lru, a, b)
  BY EmptyEntries
<1>3. Contiguous(c.lru)
  BY <1>2 DEF Contiguous
<1>4. Coldest(c.lru) /\ OneChain(c.lru) /\ SameHoles(c.lru)
  BY <1>1 DEF Coldest, OneChain, SameHoles
<1> QED BY <1>1, <1>3, <1>4 DEF Tidy, Full

LEMMA OrderlyInit == Init => Orderly
<1> SUFFICES ASSUME Init PROVE Orderly
  OBVIOUS
<1>1. cache.lru = <<>> /\ serving = 0 /\ panicked = "none"
  BY DEF Init, EmptyCache
<1> QED BY <1>1, EmptyTidy DEF Orderly

LEMMA OrderlyNext == IInv /\ IInv' /\ Orderly /\ [Next]_vars => Orderly'
<1> SUFFICES ASSUME IInv, IInv', Orderly, [Next]_vars PROVE Orderly'
  OBVIOUS
<1> DEFINE p == slots[serving].request.prompt
<1>1. ASSUME UNCHANGED <<cache, slots, serving, panicked>> PROVE Orderly'
  BY <1>1 DEF Orderly, Full, Loop, Tidy, Contiguous, Coldest, OneChain, SameHoles, Holed
<1>2. CASE StepBegin
  <2>1. panicked = "none" /\ serving = 0 /\ cache' = cache /\ Tidy(cache.lru) /\ Full(cache)
    BY <1>2 DEF StepBegin, Orderly
  <2>2. panicked' \in {"none", "too_long"}
    BY <1>2, <2>1 DEF StepBegin, Decode, DecodeAll, Panic
  <2>3. ASSUME panicked' = "none", serving' # 0
        PROVE  Loop(cache', slots'[serving'].request.prompt)
    <3> DEFINE q == slots'[serving'].request.prompt
    <3>1. Sent(q)
      <4>1. serving' \in Slots /\ Waiting(slots'[serving'])
        BY <2>3 DEF IInv, Service
      <4>2. slots'[serving'].request \in Request
        BY <4>1 DEF Waiting, IsSlot
      <4> QED BY <4>2 DEF Sent
    <3>2. Accounts(cache)
      BY <2>1 DEF IInv, Books
    <3> HIDE DEF q
    <3>3. Loop(cache, q)
      BY <2>1, <3>1, <3>2, LoopBegins
    <3>4. Loop(cache', q)
      BY <2>1, <3>3
    <3> QED BY <3>4 DEF q
  <2>4. Tidy(cache'.lru) /\ Full(cache')
    BY <2>1
  <2> QED
    BY <2>2, <2>3, <2>4
       DEF Orderly, Full, Loop, Tidy, Contiguous, Coldest, OneChain, SameHoles, Holed
<1>3. CASE EvictColdest
  <2>1. /\ panicked = "none" /\ serving # 0
        /\ ~Plan(cache, p).fits /\ Plan(cache, p).cache.lru # <<>>
        /\ cache' = Evict(Plan(cache, p).cache)
        /\ UNCHANGED <<slots, serving, panicked>>
    BY <1>3 DEF EvictColdest
  <2>2. Sent(p) /\ Accounts(cache) /\ Tidy(cache.lru) /\ Loop(cache, p)
    BY <2>1, Asked DEF IInv, Books, Orderly
  <2> HIDE DEF p
  <2>3. Tidy(cache'.lru) /\ Loop(cache', p)
    BY <2>1, <2>2, LoopGoesOn
  <2>4. slots'[serving'].request.prompt = p
    BY <2>1 DEF p
  <2>5. Loop(cache', slots'[serving'].request.prompt)
    BY <2>3, <2>4
  <2> QED
    BY <2>1, <2>3, <2>5
       DEF Orderly, Full, Loop, Tidy, Contiguous, Coldest, OneChain, SameHoles, Holed
<1>4. CASE Prefill
  <2> DEFINE plan == Plan(cache, p)
             r == Serve(plan, p)
  <2>1. panicked = "none" /\ serving # 0 /\ (plan.fits \/ plan.cache.lru = <<>>)
        /\ PrefillEnds(slots[serving], r)
    BY <1>4 DEF Prefill
  <2>2. Sent(p) /\ Accounts(cache) /\ Tidy(cache.lru) /\ Loop(cache, p)
    BY <2>1, Asked DEF IInv, Books, Orderly
  <2> HIDE DEF p
  <2>3. Answered(cache, p, plan, r)
    BY <2>2, ServeFacts
  <2>4. plan.fits => plan.duplicates = <<>> /\ Tidy(plan.cache.lru) /\ Full(plan.cache)
    BY <2>2, LoopEnds
  <2> HIDE DEF plan, r
  <2>5. ~plan.fits => Tidy(plan.cache.lru) /\ Full(plan.cache)
    BY <2>1, EmptyTidy
  <2>6. r.result \in {"too_small", "too_long", "served"}
    BY <2>3, <2>4 DEF Answered
  <2>7. r.result \in {"too_small", "served"} => Tidy(r.cache.lru) /\ Full(r.cache)
    <3>1. r.result = "too_small" => r.cache = plan.cache
      BY <2>3 DEF Answered
    <3>2. r.result = "served" => r.cache.lru = plan.cache.lru /\ r.cache.free = plan.cache.free
      BY <2>3 DEF Answered
    <3> QED BY <2>4, <2>5, <3>1, <3>2 DEF Full
  <2>8. cache' = r.cache /\ serving' = 0
    BY <2>1 DEF PrefillEnds
  <2>9. panicked' # "stranded" /\ (r.result = "too_long" => panicked' # "none")
    BY <2>1, <2>6 DEF PrefillEnds, Decode, DecodeAll, Panic
  <2>10. panicked' = "none" => Tidy(cache'.lru) /\ Full(cache')
    BY <2>6, <2>7, <2>8, <2>9
  <2> QED
    BY <2>8, <2>9, <2>10
       DEF Orderly, Full, Tidy, Contiguous, Coldest, OneChain, SameHoles, Holed
<1>5. CASE StepIdle
  BY <1>1, <1>5 DEF StepIdle
<1>6. ASSUME NEW q \in Request, Add(q) PROVE Orderly'
  BY <1>1, <1>6 DEF Add
<1>7. CASE DrainFinished
  BY <1>1, <1>7 DEF DrainFinished
<1>8. CASE StepUntilDone
  BY <1>1, <1>8 DEF StepUntilDone
<1>9. CASE UNCHANGED vars
  BY <1>1, <1>9 DEF vars
<1> QED BY <1>2, <1>3, <1>4, <1>5, <1>6, <1>7, <1>8, <1>9 DEF Next, Step

LEMMA OrderlyAlways == Spec => [](IInv /\ Orderly)
<1>1. Init => IInv /\ Orderly
  BY InitOK, OrderlyInit
<1>2. IInv /\ Orderly /\ [Next]_vars => (IInv /\ Orderly)'
  BY NextOK, OrderlyNext
<1> QED BY <1>1, <1>2, PTL DEF Spec

(* serve never meets a cached page beyond a hole (the assertion of         *)
(* prefix_kv.rs:143), because a hole leaves no block free between two      *)
(* steps and what is left of its chain is evicted first.                   *)
THEOREM CpuHolesAreColdest == Spec => []HolesAreColdest
<1>1. IInv /\ Orderly => HolesAreColdest
  <2> SUFFICES ASSUME IInv, Orderly PROVE HolesAreColdest
    OBVIOUS
  <2> DEFINE s == cache.lru
  <2>1. panicked # "stranded"
    BY DEF Orderly
  <2>2. ASSUME panicked = "none", serving = 0, NEW i \in 1 .. Len(s), NEW j \in 1 .. Len(s),
               ~Whole(s[j])
        PROVE  cache.free = <<>> /\ (Whole(s[i]) => j < i)
    <3>1. Tidy(s) /\ Full(cache) /\ Accounts(cache)
      BY <2>2 DEF IInv, Books, Orderly
    <3>2. s \in Seq(Key) /\ Distinct(s) /\ Indexed(cache) = ToSet(s)
          /\ cache.free \in Seq(1 .. PoolBlocks)
      BY <3>1 DEF Accounts, Indexed
    <3>3. s[i] \in ToSet(s) /\ s[j] \in ToSet(s)
      BY <3>2, ToSetIn
    <3>4. \A x \in ToSet(s) : Whole(x) <=> ~Holed(s, x)
      <4>1. \A x : Whole(x) <=> \A a : Ext(a, x) => a \in ToSet(s)
        BY <3>2 DEF Whole, Ext
      <4> HIDE DEF s
      <4> QED BY <4>1 DEF Holed
    <3>5. Holed(s, s[j])
      BY <2>2, <3>3, <3>4
    <3>6. cache.free = <<>>
      <4>1. Len(cache.free) = 0
        BY <3>1, <3>5 DEF Full
      <4> QED BY <3>2, <4>1
    <3>7. ASSUME Whole(s[i]) PROVE j < i
      <4>1. Before(s, s[j], s[i])
        BY <3>1, <3>3, <3>4, <3>5, <3>7 DEF Tidy, Coldest
      <4>2. \A l, m \in 1 .. Len(s) : s[l] = s[m] => l = m
        BY <3>2, DistinctIsInjective
      <4>3. PICK l \in 1 .. Len(s), m \in 1 .. Len(s) : l < m /\ s[l] = s[j] /\ s[m] = s[i]
        BY <4>1 DEF Before
      <4> HIDE DEF s
      <4>4. l = j /\ m = i
        BY <4>2, <4>3
      <4> QED BY <4>3, <4>4
    <3> QED BY <3>6, <3>7
  <2> QED BY <2>1, <2>2 DEF HolesAreColdest
<1> QED BY <1>1, OrderlyAlways, PTL
=============================================================================
