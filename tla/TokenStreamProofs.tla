-------------------------- MODULE TokenStreamProofs --------------------------
(***************************************************************************)
(* A streamed response for every number of tokens and every channel,       *)
(* backlog and body capacity.  SInv is inductive: NothingLost follows the  *)
(* tokens from one place to the next, and FinishIsWhole rests on it at the *)
(* one step that writes a finish chunk, when the channel is found empty    *)
(* and closed after the completion was seen.                               *)
(***************************************************************************)
EXTENDS TokenStream, SequenceTheorems, WellFoundedInduction, TLAPS

(***************************************************************************)
(* The text of a sequence of frames                                        *)
(***************************************************************************)

(* Induction over positions: a set that holds 1 and each successor.        *)
LEMMA Positions ==
  ASSUME NEW n \in Nat, NEW S, n > 0 => 1 \in S,
         \A i \in 1 .. n - 1 : i \in S => i + 1 \in S
  PROVE  1 .. n \subseteq S
<1> DEFINE bad == (1 .. n) \ S
<1> SUFFICES ASSUME bad # {} PROVE FALSE
  OBVIOUS
<1>1. IsWellFoundedOn(OpToRel(<, Nat), Nat)
  BY NatLessThanWellFounded
<1>2. bad \subseteq Nat
  OBVIOUS
<1> HIDE DEF bad
<1>3. PICK m \in bad : \A k \in bad : ~(<<k, m>> \in OpToRel(<, Nat))
  BY <1>1, <1>2, WFMin, Zenon
<1>4. m \in 1 .. n /\ m \notin S
  BY DEF bad
<1>5. m # 1 /\ m - 1 \in 1 .. n - 1 /\ m = (m - 1) + 1
  BY <1>4
<1>6. m - 1 \in bad
  BY <1>4, <1>5 DEF bad
<1>7. <<m - 1, m>> \in OpToRel(<, Nat)
  BY <1>4, <1>5 DEF OpToRel
<1>8. QED
  BY <1>3, <1>6, <1>7

(* The concatenations of the first i elements of s.                        *)
Flattening(s, n, g) == g = [i \in 1 .. n |-> IF i = 1 THEN s[i] ELSE g[i - 1] \o s[i]]

Flattened(s) == CHOOSE g : Flattening(s, Len(s), g)

(* What FlattenSeq chooses exists.                                         *)
LEMMA FlatteningExists ==
  ASSUME NEW s, NEW n \in Nat
  PROVE  \E g : Flattening(s, n, g)
<1> DEFINE good == {i \in 1 .. n : \E g : Flattening(s, i, g)}
<1>1. n > 0 => 1 \in good
  <2>1. Flattening(s, 1, [i \in 1 .. 1 |-> s[i]])
    BY DEF Flattening
  <2>2. QED
    BY <2>1
<1>2. ASSUME NEW m \in 1 .. n - 1, m \in good PROVE m + 1 \in good
  <2>1. PICK g : Flattening(s, m, g)
    BY <1>2
  <2> DEFINE h == [i \in 1 .. m + 1 |-> IF i = m + 1 THEN g[m] \o s[m + 1] ELSE g[i]]
  <2>2. h = [i \in 1 .. m + 1 |-> IF i = 1 THEN s[i] ELSE h[i - 1] \o s[i]]
    <3> SUFFICES ASSUME NEW i \in 1 .. m + 1
                 PROVE  h[i] = IF i = 1 THEN s[i] ELSE h[i - 1] \o s[i]
      OBVIOUS
    <3>1. CASE i = m + 1
      <4>1. i # 1 /\ i - 1 = m /\ m \in 1 .. m + 1 /\ m # m + 1
        BY <3>1
      <4>2. h[i] = g[m] \o s[m + 1] /\ h[m] = g[m]
        BY <3>1, <4>1
      <4>3. QED
        BY <3>1, <4>1, <4>2
    <3>2. CASE i # m + 1
      <4>1. i \in 1 .. m /\ (i # 1 => i - 1 \in 1 .. m /\ i - 1 # m + 1 /\ i - 1 \in 1 .. m + 1)
        BY <3>2
      <4>2. g[i] = IF i = 1 THEN s[i] ELSE g[i - 1] \o s[i]
        BY <2>1, <4>1 DEF Flattening
      <4>3. h[i] = g[i] /\ (i # 1 => h[i - 1] = g[i - 1])
        BY <3>2, <4>1
      <4>4. QED
        BY <4>2, <4>3
    <3>3. QED
      BY <3>1, <3>2
  <2> HIDE DEF h
  <2>3. Flattening(s, m + 1, h)
    BY <2>2 DEF Flattening
  <2>4. QED
    BY <2>3
<1> HIDE DEF good
<1>3. 1 .. n \subseteq good
  BY <1>1, <1>2, Positions
<1>4. CASE n = 0
  <2>1. Flattening(s, 0, [i \in 1 .. 0 |-> s[i]])
    BY DEF Flattening
  <2>2. QED
    BY <1>4, <2>1
<1>5. CASE n # 0
  BY <1>3, <1>5 DEF good
<1>6. QED
  BY <1>4, <1>5

(* FlattenSeq, one element at a time.                                      *)
LEMMA FlattenedFacts ==
  ASSUME NEW T, NEW s \in Seq(Seq(T)), s # <<>>
  PROVE  /\ FlattenSeq(s) = Flattened(s)[Len(s)]
         /\ Flattened(s)[1] = s[1]
         /\ \A i \in 1 .. Len(s) - 1 : Flattened(s)[i + 1] = Flattened(s)[i] \o s[i + 1]
         /\ \A i \in 1 .. Len(s) : Flattened(s)[i] \in Seq(T)
<1> DEFINE f == Flattened(s)
           n == Len(s)
<1>1. n \in Nat /\ n # 0 /\ \A i \in 1 .. n : s[i] \in Seq(T)
  BY LenProperties, ElementOfSeq
<1>2. FlattenSeq(s) = f[n]
  BY <1>1 DEF FlattenSeq, Flattened, Flattening
<1>3. Flattening(s, n, f)
  BY <1>1, FlatteningExists DEF Flattened
<1> HIDE DEF f, n
<1>4. \A i \in 1 .. n : f[i] = IF i = 1 THEN s[i] ELSE f[i - 1] \o s[i]
  BY <1>3 DEF Flattening
<1>5. f[1] = s[1]
  BY <1>1, <1>4
<1>6. \A i \in 1 .. n - 1 : f[i + 1] = f[i] \o s[i + 1]
  <2>1. ASSUME NEW i \in 1 .. n - 1 PROVE f[i + 1] = f[i] \o s[i + 1]
    <3>1. i + 1 \in 1 .. n /\ i + 1 # 1 /\ (i + 1) - 1 = i
      BY <1>1
    <3>2. QED
      BY <1>4, <3>1
  <2>2. QED
    BY <2>1
<1> DEFINE good == {i \in 1 .. n : f[i] \in Seq(T)}
<1>7. n > 0 => 1 \in good
  BY <1>1, <1>5
<1>8. ASSUME NEW i \in 1 .. n - 1, i \in good PROVE i + 1 \in good
  <2>1. i + 1 \in 1 .. n
    BY <1>1
  <2>2. f[i] \in Seq(T) /\ s[i + 1] \in Seq(T)
    BY <1>1, <1>8, <2>1
  <2>3. f[i] \o s[i + 1] \in Seq(T)
    BY <2>2, ConcatProperties
  <2>4. QED
    BY <1>6, <2>1, <2>3
<1> HIDE DEF good
<1>9. 1 .. n \subseteq good
  BY <1>1, <1>7, <1>8, Positions
<1>10. \A i \in 1 .. n : f[i] \in Seq(T)
  BY <1>9 DEF good
<1>11. QED
  BY <1>2, <1>5, <1>6, <1>10 DEF f, n

(* Flattening one more element appends it.                                 *)
LEMMA FlattenAppend ==
  ASSUME NEW T, NEW s \in Seq(Seq(T)), NEW e \in Seq(T), s # <<>>
  PROVE  FlattenSeq(Append(s, e)) = FlattenSeq(s) \o e
<1> DEFINE n == Len(s)
           a == Flattened(s)
           t == Append(s, e)
           b == Flattened(t)
<1>1. /\ n \in Nat /\ n > 0
      /\ t \in Seq(Seq(T)) /\ t # <<>> /\ Len(t) = n + 1
      /\ t[n + 1] = e /\ \A i \in 1 .. n : t[i] = s[i]
  BY LenProperties, AppendProperties
<1>2. /\ FlattenSeq(s) = a[n] /\ a[1] = s[1]
      /\ \A i \in 1 .. n - 1 : a[i + 1] = a[i] \o s[i + 1]
  BY FlattenedFacts
<1> HIDE DEF t, a, n
<1>3. /\ FlattenSeq(t) = b[Len(t)] /\ b[1] = t[1]
      /\ \A i \in 1 .. Len(t) - 1 : b[i + 1] = b[i] \o t[i + 1]
  BY <1>1, FlattenedFacts
<1> HIDE DEF b
<1> DEFINE good == {i \in 1 .. n : b[i] = a[i]}
<1>4. n > 0 => 1 \in good
  BY <1>1, <1>2, <1>3
<1>5. ASSUME NEW i \in 1 .. n - 1, i \in good PROVE i + 1 \in good
  <2>1. i + 1 \in 1 .. n /\ i \in 1 .. Len(t) - 1
    BY <1>1
  <2>2. b[i + 1] = b[i] \o t[i + 1] /\ t[i + 1] = s[i + 1] /\ b[i] = a[i]
    BY <1>1, <1>3, <1>5, <2>1
  <2>3. QED
    BY <1>2, <2>1, <2>2
<1> HIDE DEF good
<1>6. 1 .. n \subseteq good
  BY <1>1, <1>4, <1>5, Positions
<1>7. b[n] = a[n]
  BY <1>1, <1>6 DEF good
<1>8. b[n + 1] = b[n] \o t[n + 1]
  <2>1. n \in 1 .. Len(t) - 1
    BY <1>1
  <2>2. QED
    BY <1>3, <2>1
<1>9. QED
  BY <1>1, <1>2, <1>3, <1>7, <1>8 DEF t

Frame == [kind : {"text", "finish", "error"}, text : Seq(Nat)]

(* The texts that TextOf flattens.                                         *)
Texts(fs) == [i \in 1 .. Len(fs) |-> fs[i].text]

(* Frames have texts.                                                      *)
LEMMA TextsFacts ==
  ASSUME NEW fs \in Seq(Frame)
  PROVE  Texts(fs) \in Seq(Seq(Nat)) /\ Len(Texts(fs)) = Len(fs)
<1> DEFINE n == Len(fs)
<1>1. n \in Nat /\ \A i \in 1 .. n : fs[i].text \in Seq(Nat)
  <2>1. \A i \in 1 .. n : fs[i] \in Frame
    BY ElementOfSeq
  <2>2. QED
    BY <2>1, LenProperties DEF Frame
<1>2. Texts(fs) = [i \in 1 .. n |-> fs[i].text]
  BY DEF Texts
<1> HIDE DEF n
<1>3. QED
  BY <1>1, <1>2 DEF n

(* No frame, no text.                                                      *)
LEMMA NoText == TextOf(<<>>) = <<>>
<1>1. Texts(<<>>) = <<>>
  BY DEF Texts
<1>2. FlattenSeq(<<>>) = <<>>
  BY DEF FlattenSeq
<1>3. QED
  BY <1>1, <1>2 DEF TextOf, Texts

(* The text of frames is a text.                                           *)
LEMMA TextOfType ==
  ASSUME NEW fs \in Seq(Frame)
  PROVE  TextOf(fs) \in Seq(Nat)
<1>1. Texts(fs) \in Seq(Seq(Nat)) /\ TextOf(fs) = FlattenSeq(Texts(fs))
  BY TextsFacts DEF TextOf, Texts
<1>2. CASE Texts(fs) = <<>>
  <2>1. FlattenSeq(<<>>) = <<>> /\ <<>> \in Seq(Nat)
    BY EmptySeq DEF FlattenSeq
  <2>2. QED
    BY <1>1, <1>2, <2>1
<1>3. CASE Texts(fs) # <<>>
  <2> DEFINE t == Texts(fs)
  <2>1. t \in Seq(Seq(Nat)) /\ t # <<>>
    BY <1>1, <1>3
  <2> HIDE DEF t
  <2>2. /\ FlattenSeq(t) = Flattened(t)[Len(t)]
        /\ \A i \in 1 .. Len(t) : Flattened(t)[i] \in Seq(Nat)
    BY <2>1, FlattenedFacts
  <2>3. Len(t) \in 1 .. Len(t)
    <3>1. Len(t) \in Nat /\ Len(t) # 0
      BY <2>1, LenProperties
    <3>2. QED
      BY <3>1
  <2>4. FlattenSeq(t) \in Seq(Nat)
    BY <2>2, <2>3
  <2>5. QED
    BY <1>1, <2>4 DEF t
<1>4. QED
  BY <1>2, <1>3

(* One more frame appends its text.                                        *)
LEMMA TextOfAppend ==
  ASSUME NEW fs \in Seq(Frame), NEW f \in Frame
  PROVE  TextOf(Append(fs, f)) = TextOf(fs) \o f.text
<1> DEFINE t == Texts(fs)
           x == f.text
           n == Len(fs)
<1>1. t \in Seq(Seq(Nat)) /\ Len(t) = n /\ x \in Seq(Nat) /\ n \in Nat
  BY TextsFacts, LenProperties DEF Frame
<1>2. Texts(Append(fs, f)) = Append(t, x)
  <2>1. /\ Len(Append(fs, f)) = n + 1
        /\ Append(fs, f)[n + 1] = f
        /\ \A i \in 1 .. n : Append(fs, f)[i] = fs[i]
    BY AppendProperties
  <2> DEFINE h == Append(fs, f)
             u == Append(t, x)
  <2>2. /\ u \in Seq(Seq(Nat)) /\ Len(u) = n + 1
        /\ u[n + 1] = x
        /\ \A i \in 1 .. n : u[i] = t[i]
    <3> HIDE DEF t, x, n
    <3>1. QED
      BY <1>1, AppendProperties
  <2>3. \A i \in 1 .. n : t[i] = fs[i].text
    BY DEF Texts
  <2>4. Texts(h) = [i \in 1 .. n + 1 |-> h[i].text]
    BY <2>1 DEF Texts
  <2>5. DOMAIN u = 1 .. n + 1
    BY <2>2, LenProperties
  <2>6. ASSUME NEW i \in 1 .. n + 1 PROVE u[i] = h[i].text
    <3>1. i \in 1 .. n \/ i = n + 1
      BY <1>1
    <3> HIDE DEF h, u, t, n
    <3>2. CASE i \in 1 .. n
      BY <2>1, <2>2, <2>3, <3>2 DEF h
    <3>3. CASE i = n + 1
      BY <2>1, <2>2, <3>3 DEF h
    <3>4. QED
      BY <3>1, <3>2, <3>3
  <2>7. u = [i \in 1 .. n + 1 |-> u[i]]
    BY <2>2, <2>5, LenProperties
  <2> HIDE DEF h, u, t, x, n
  <2>8. Texts(h) = u
    BY <2>4, <2>6, <2>7
  <2>9. QED
    BY <2>8 DEF h, u
<1>3. TextOf(fs) = FlattenSeq(t) /\ TextOf(Append(fs, f)) = FlattenSeq(Append(t, x))
  BY <1>2 DEF TextOf, Texts
<1> HIDE DEF t, x
<1>4. CASE t = <<>>
  <2>1. FlattenSeq(<<>>) = <<>>
    BY DEF FlattenSeq
  <2>2. Append(t, x) = <<x>>
    BY <1>4
  <2>3. <<x>> \in Seq(Seq(Nat)) /\ <<x>> # <<>> /\ Len(<<x>>) = 1 /\ <<x>>[1] = x
    BY <1>1
  <2>4. FlattenSeq(<<x>>) = x
    BY <2>3, FlattenedFacts
  <2>5. <<>> \o x = x
    BY <1>1, ConcatEmptySeq
  <2>6. QED
    BY <1>3, <1>4, <2>1, <2>2, <2>4, <2>5 DEF x
<1>5. CASE t # <<>>
  BY <1>1, <1>3, <1>5, FlattenAppend DEF x
<1>6. QED
  BY <1>4, <1>5

(***************************************************************************)
(* Sequences that change hands                                             *)
(***************************************************************************)

(* The next token number follows the earlier ones.                         *)
LEMMA UptoNext ==
  ASSUME NEW n \in Nat
  PROVE  /\ Upto(n) \in Seq(Nat) /\ Upto(n + 1) \in Seq(Nat)
         /\ Upto(n) \o <<n + 1>> = Upto(n + 1)
<1>1. /\ Upto(n) \in Seq(Nat) /\ Len(Upto(n)) = n
      /\ Upto(n + 1) \in Seq(Nat) /\ Len(Upto(n + 1)) = n + 1
      /\ \A i \in 1 .. n : Upto(n)[i] = i
      /\ \A i \in 1 .. n + 1 : Upto(n + 1)[i] = i
  BY DEF Upto
<1> DEFINE u == Upto(n)
           v == Upto(n + 1)
           w == u \o <<n + 1>>
<1>2. <<n + 1>> \in Seq(Nat) /\ Len(<<n + 1>>) = 1 /\ <<n + 1>>[1] = n + 1
  OBVIOUS
<1> HIDE DEF u, v
<1>3. /\ w \in Seq(Nat) /\ Len(w) = n + 1
      /\ \A i \in 1 .. n + 1 : w[i] = IF i <= n THEN u[i] ELSE <<n + 1>>[i - n]
  BY <1>1, <1>2, ConcatProperties DEF u
<1>4. ASSUME NEW i \in 1 .. n + 1 PROVE w[i] = v[i]
  <2>1. i \in 1 .. n \/ (i = n + 1 /\ ~(i <= n) /\ i - n = 1)
    OBVIOUS
  <2> HIDE DEF w
  <2>2. QED
    BY <1>1, <1>2, <1>3, <2>1 DEF u, v
<1> HIDE DEF w
<1>5. w = v
  BY <1>1, <1>3, <1>4, SeqEqual DEF u, v
<1>6. QED
  BY <1>1, <1>5 DEF u, v, w

(* Moving an element from the head of one queue to the end of the one      *)
(* before it keeps their concatenation.                                    *)
LEMMA HandOver ==
  ASSUME NEW T, NEW p \in Seq(T), NEW q \in Seq(T), q # <<>>
  PROVE  /\ Head(q) \in T /\ Tail(q) \in Seq(T) /\ Len(Tail(q)) = Len(q) - 1
         /\ Append(p, Head(q)) \in Seq(T) /\ Len(Append(p, Head(q))) = Len(p) + 1
         /\ Append(p, Head(q)) \o Tail(q) = p \o q
<1>1. /\ Head(q) \in T /\ Tail(q) \in Seq(T) /\ Len(Tail(q)) = Len(q) - 1
      /\ Append(p, Head(q)) \in Seq(T) /\ Len(Append(p, Head(q))) = Len(p) + 1
  BY HeadTailProperties, AppendProperties
<1>2. q = <<Head(q)>> \o Tail(q)
  <2>1. Len(q) \in Nat /\ Len(q) # 0
    BY LenProperties
  <2>2. 1 \in 1 .. Len(q) /\ Len(q) \in 1 .. Len(q)
    BY <2>1
  <2>3. SubSeq(q, 1, Len(q)) = <<q[1]>> \o SubSeq(q, 1 + 1, Len(q))
    BY <2>2, SubSeqRecursiveFirst
  <2>4. SubSeq(q, 1, Len(q)) = q /\ SubSeq(q, 2, Len(q)) = Tail(q) /\ 1 + 1 = 2
    BY SubSeqFull, TailIsSubSeq
  <2>5. q[1] = Head(q)
    OBVIOUS
  <2>6. QED
    BY <2>3, <2>4, <2>5
<1>3. Append(p, Head(q)) = p \o <<Head(q)>> /\ <<Head(q)>> \in Seq(T)
  BY <1>1, AppendIsConcat
<1>4. (p \o <<Head(q)>>) \o Tail(q) = p \o (<<Head(q)>> \o Tail(q))
  BY <1>1, <1>3, ConcatAssociative
<1>5. QED
  BY <1>1, <1>2, <1>3, <1>4

(* Appending to the last of two queues appends to both.                    *)
LEMMA AppendOut ==
  ASSUME NEW T, NEW p \in Seq(T), NEW q \in Seq(T), NEW e \in T
  PROVE  p \o Append(q, e) = Append(p \o q, e)
<1>1. p \o q \in Seq(T) /\ <<e>> \in Seq(T)
  BY ConcatProperties
<1>2. Append(q, e) = q \o <<e>>
  BY AppendIsConcat
<1>3. Append(p \o q, e) = (p \o q) \o <<e>>
  BY <1>1, AppendIsConcat
<1>4. (p \o q) \o <<e>> = p \o (q \o <<e>>)
  BY <1>1, ConcatAssociative
<1>5. QED
  BY <1>2, <1>3, <1>4

(* Texts in a row may be read in any grouping.                             *)
LEMMA TextAssociative ==
  \A x, y, z \in Seq(Nat) : (x \o y) \o z = x \o (y \o z)
<1> TAKE x, y, z \in Seq(Nat)
<1> DEFINE N == Nat
<1>1. x \in Seq(N) /\ y \in Seq(N) /\ z \in Seq(N)
  OBVIOUS
<1> HIDE DEF N
<1>2. QED
  BY <1>1, ConcatAssociative

(* A prefix of a text and the rest of it.                                  *)
LEMMA TextSplit ==
  ASSUME NEW T, NEW s \in Seq(T), NEW n \in 0 .. Len(s)
  PROVE  /\ SubSeq(s, 1, n) \in Seq(T) /\ SubSeq(s, n + 1, Len(s)) \in Seq(T)
         /\ SubSeq(s, 1, n) \o SubSeq(s, n + 1, Len(s)) = s
         /\ n = 0 => SubSeq(s, n + 1, Len(s)) = s
<1>1. Len(s) \in Nat /\ \A i \in 1 .. Len(s) : s[i] \in T
  BY LenProperties, ElementOfSeq
<1>2. SubSeq(s, 1, n) \in Seq(T) /\ SubSeq(s, n + 1, Len(s)) \in Seq(T)
  <2>1. /\ \A i \in 1 .. n : s[i] \in T
        /\ \A i \in n + 1 .. Len(s) : s[i] \in T
        /\ n \in Int /\ n + 1 \in Int /\ Len(s) \in Int
    BY <1>1
  <2>2. QED
    BY <2>1, SubSeqProperties
<1>3. SubSeq(s, 1, n) \o SubSeq(s, n + 1, Len(s)) = s
  <2>1. /\ 1 \in 1 .. Len(s) + 1 /\ n \in 1 - 1 .. Len(s) /\ Len(s) \in n .. Len(s)
    BY <1>1
  <2>2. SubSeq(s, 1, n) \o SubSeq(s, n + 1, Len(s)) = SubSeq(s, 1, Len(s))
    BY <2>1, ConcatAdjacentSubSeq
  <2>3. QED
    BY <2>2, SubSeqFull
<1>4. n = 0 => SubSeq(s, n + 1, Len(s)) = s
  BY SubSeqFull
<1>5. QED
  BY <1>2, <1>3, <1>4

(***************************************************************************)
(* The invariant                                                           *)
(***************************************************************************)

(* The frames made so far, wherever they are.                              *)
AllFrames == (received \o body) \o frames

NoFinish(fs) == \A i \in 1 .. Len(fs) : fs[i].kind # "finish"

Typed ==
  TypeOK /\ received \in Seq(Frame) /\ body \in Seq(Frame) /\ frames \in Seq(Frame)

(* What the engine thread has reported, and what the task has made of it.  *)
Reports ==
  /\ report # "none" => sequence \in {"closing", "gone"}
  /\ dropped => sequence \in {"stalled", "closing", "gone"} /\ report # "complete"
  /\ reasonSet => report = "complete"
  /\ task = "flush" => frames # <<>>

(* No finish chunk while tokens may still come or the stream is failed; if *)
(* there is one it comes last, after the whole text.                       *)
Finished ==
  /\ task \in {"done", "rx", "tx", "error"} => NoFinish(AllFrames)
  /\ \A i \in 1 .. Len(AllFrames) : AllFrames[i].kind = "finish" =>
       i = Len(AllFrames) /\ report = "complete" /\ TextOf(AllFrames) = Upto(generated)

SInv == Typed /\ Reports /\ NothingLost /\ Finished

(* The places between the engine and the client are sequences.             *)
LEMMA PlacesFacts ==
  ASSUME Typed
  PROVE  /\ AllFrames \in Seq(Frame) /\ TextOf(AllFrames) \in Seq(Nat)
         /\ received \o body \in Seq(Frame)
         /\ acc \in Seq(Nat) /\ chan \in Seq(Nat)
         /\ TextOf(AllFrames) \o acc \in Seq(Nat)
         /\ generated \in Nat
<1>1. received \o body \in Seq(Frame)
  BY ConcatProperties DEF Typed
<1>2. AllFrames \in Seq(Frame)
  BY <1>1, ConcatProperties DEF Typed, AllFrames
<1>3. acc \in Seq(Nat) /\ chan \in Seq(Nat)
  <2>1. 1 .. MaxNew \subseteq Nat /\ acc \in Seq(1 .. MaxNew) /\ chan \in Seq(1 .. MaxNew)
    BY StreamAssumption DEF Typed, TypeOK
  <2>2. QED
    BY <2>1, SeqMonotonic
<1>4. TextOf(AllFrames) \in Seq(Nat)
  BY <1>2, TextOfType
<1>5. TextOf(AllFrames) \o acc \in Seq(Nat)
  BY <1>3, <1>4, ConcatProperties
<1>6. generated \in Nat
  BY StreamAssumption DEF Typed, TypeOK
<1>7. QED
  BY <1>1, <1>2, <1>3, <1>4, <1>5, <1>6

(* NothingLost, of AllFrames.                                              *)
LEMMA LostIs ==
  NothingLost <=>
    (task \in {"done", "rx", "tx", "flush"} =>
       (TextOf(AllFrames) \o acc) \o chan = Upto(IF dropped THEN generated - 1 ELSE generated))
BY DEF NothingLost, AllFrames

(* A stream starts empty.                                                  *)
LEMMA StreamInit == Init => SInv
<1> SUFFICES ASSUME Init PROVE SInv
  OBVIOUS
<1>1. \A T : <<>> \in Seq(T) /\ Len(<<>>) = 0
  BY EmptySeq
<1>2. Typed
  <2>1. /\ sequence = "running" /\ generated = 0 /\ dropped = FALSE
        /\ chan = <<>> /\ report = "none" /\ closed = FALSE
        /\ task = "done" /\ acc = <<>> /\ frames = <<>>
        /\ reasonSet = FALSE /\ failure = "none"
        /\ body = <<>> /\ received = <<>> /\ connected = TRUE
    BY DEF Init
  <2>2. /\ <<>> \in Seq(1 .. MaxNew) /\ <<>> \in Seq(Frame) /\ Len(<<>>) = 0
        /\ MaxNew \in Nat /\ ChannelCap \in Nat /\ BodyCap \in Nat /\ Backlog \in Nat
    BY <1>1, StreamAssumption
  <2>3. /\ 0 \in 0 .. MaxNew /\ 0 <= ChannelCap /\ 0 <= BodyCap
        /\ 0 <= Backlog /\ 0 <= Backlog + 2
    BY <2>2
  <2>4. /\ chan \in Seq(1 .. MaxNew) /\ Len(chan) <= ChannelCap /\ acc \in Seq(1 .. MaxNew)
        /\ Len(frames) <= Backlog + 2 /\ Len(frames) <= Backlog /\ Len(body) <= BodyCap
        /\ generated \in 0 .. MaxNew
    BY <2>1, <2>2, <2>3
  <2>5. /\ sequence \in {"running", "complete", "stalled", "failed", "closing", "gone"}
        /\ dropped \in BOOLEAN
        /\ report \in {"none", "complete", "stalled", "failed"}
        /\ closed \in BOOLEAN
        /\ task \in {"done", "rx", "tx", "flush", "error", "ended"}
        /\ reasonSet \in BOOLEAN
        /\ failure \in {"none", "engine", "backlog", "closed_early"}
        /\ connected \in BOOLEAN
    BY <2>1
  <2>6. TypeOK
    BY <2>4, <2>5 DEF TypeOK
  <2>7. QED
    BY <2>1, <2>2, <2>6 DEF Typed
<1>3. AllFrames = <<>>
  BY DEF Init, AllFrames
<1>4. Reports /\ Finished
  BY <1>3 DEF Init, Reports, Finished, NoFinish
<1>5. NothingLost
  <2>1. TextOf(AllFrames) = <<>> /\ acc = <<>> /\ chan = <<>> /\ generated = 0 /\ ~dropped
    BY <1>3, NoText DEF Init
  <2>2. Upto(0) = <<>> /\ (<<>> \o <<>>) \o <<>> = <<>>
    BY DEF Upto
  <2>3. QED
    BY <2>1, <2>2, LostIs
<1>6. QED
  BY <1>2, <1>4, <1>5 DEF SInv

(* A step that moves neither a token nor a frame.                          *)
LEMMA StreamQuiet ==
  ASSUME SInv, Typed', Reports',
         AllFrames' = AllFrames, UNCHANGED <<acc, chan, generated, dropped>>,
         report = "complete" => report' = "complete",
         task' \in {"done", "rx", "tx", "error", "flush", "ended"},
         task' \in {"done", "rx", "tx", "error"} => task \in {"done", "rx", "tx", "error"},
         task' \in {"done", "rx", "tx", "flush"} => task \in {"done", "rx", "tx", "flush"}
  PROVE  SInv'
<1>1. Finished'
  BY DEF SInv, Finished, NoFinish
<1>2. NothingLost'
  <2>1. (TextOf(AllFrames) \o acc) \o chan = Upto(IF dropped THEN generated - 1 ELSE generated)
          \/ task \notin {"done", "rx", "tx", "flush"}
    BY LostIs DEF SInv
  <2>2. (TextOf(AllFrames))' = TextOf(AllFrames)
    BY DEF TextOf
  <2>3. (task \in {"done", "rx", "tx", "flush"} =>
          (TextOf(AllFrames) \o acc) \o chan = Upto(IF dropped THEN generated - 1 ELSE generated))'
    BY <2>1, <2>2
  <2>4. (NothingLost <=>
         (task \in {"done", "rx", "tx", "flush"} =>
           (TextOf(AllFrames) \o acc) \o chan = Upto(IF dropped THEN generated - 1 ELSE generated)))'
    BY LostIs, PTL
  <2>5. QED
    BY <2>3, <2>4
<1>3. QED
  BY <1>1, <1>2 DEF SInv

(* The engine thread: a token is sent or dropped, a failed or finished     *)
(* sequence is reported, the channel is closed.                            *)
LEMMA StreamEngine ==
  ASSUME SInv, Engine
  PROVE  SInv'
<1>1. Typed /\ Reports /\ NothingLost /\ Finished /\ TypeOK
  BY DEF SInv, Typed
<1>2. ASSUME NEW last \in BOOLEAN, Generate(last) PROVE SInv'
  <2> DEFINE stalled == Len(chan) >= ChannelCap \/ task = "ended"
  <2>1. /\ sequence = "running" /\ generated < MaxNew
        /\ generated' = generated + 1
        /\ dropped' = stalled
        /\ chan' = IF stalled THEN chan ELSE Append(chan, generated + 1)
        /\ sequence' = IF stalled THEN "stalled" ELSE IF last THEN "complete" ELSE "running"
        /\ UNCHANGED <<report, closed, received, connected, task, acc, frames, reasonSet,
                       failure, body>>
    BY <1>2 DEF Generate, clientVars
  <2>2. ~dropped /\ report = "none"
    BY <1>1, <2>1 DEF Reports, TypeOK
  <2>3. generated \in Nat /\ generated + 1 \in 1 .. MaxNew /\ MaxNew \in Nat /\ ChannelCap \in Nat
    BY <1>1, <2>1, StreamAssumption DEF TypeOK
  <2>4. chan' \in Seq(1 .. MaxNew) /\ Len(chan') <= ChannelCap
    <3>1. CASE stalled
      BY <1>1, <2>1, <3>1 DEF TypeOK
    <3>2. CASE ~stalled
      <4>1. chan' = Append(chan, generated + 1) /\ Len(chan) < ChannelCap /\ chan \in Seq(1 .. MaxNew)
            /\ Len(chan) \in Nat
        BY <1>1, <2>1, <2>3, <3>2, LenProperties DEF TypeOK
      <4>2. chan' \in Seq(1 .. MaxNew) /\ Len(chan') = Len(chan) + 1
        BY <2>3, <4>1, AppendProperties
      <4>3. QED
        BY <2>3, <4>1, <4>2
    <3>3. QED
      BY <3>1, <3>2
  <2>5. dropped' \in BOOLEAN
    BY <2>1
  <2> HIDE DEF stalled
  <2>6. Typed'
    BY <1>1, <2>1, <2>3, <2>4, <2>5 DEF Typed, TypeOK
  <2>7. Reports'
    BY <1>1, <2>1, <2>2 DEF Reports
  <2>8. AllFrames' = AllFrames
    BY <2>1 DEF AllFrames
  <2>9. Finished'
    BY <1>1, <2>1, <2>2, <2>8 DEF Finished, NoFinish
  <2>10. NothingLost'
    <3> DEFINE t == TextOf(AllFrames) \o acc
               u == Upto(generated)
    <3>1. t \in Seq(Nat) /\ chan \in Seq(Nat)
      BY <1>1, PlacesFacts
    <3>2. task \in {"done", "rx", "tx", "flush"} => t \o chan = u
      BY <1>1, <2>2, LostIs
    <3>3. u \o <<generated + 1>> = Upto(generated + 1)
      BY <2>3, UptoNext
    <3>4. (TextOf(AllFrames) \o acc)' = t
      BY <2>1, <2>8 DEF TextOf
    <3>5. Upto(IF dropped' THEN generated' - 1 ELSE generated') =
            IF stalled THEN u ELSE Upto(generated + 1)
      <4>1. (generated + 1) - 1 = generated
        BY <2>3
      <4>2. QED
        BY <2>1, <4>1
    <3> HIDE DEF t, u
    <3>6. task \in {"done", "rx", "tx", "flush"} =>
            t \o chan' = IF stalled THEN u ELSE Upto(generated + 1)
      <4>1. CASE stalled
        BY <2>1, <3>2, <4>1
      <4>2. CASE ~stalled
        <5>1. chan' = Append(chan, generated + 1)
          BY <2>1, <4>2
        <5>2. Append(chan, generated + 1) = chan \o <<generated + 1>> /\ <<generated + 1>> \in Seq(Nat)
          BY <2>3, <3>1, AppendIsConcat
        <5>3. (t \o chan) \o <<generated + 1>> = t \o (chan \o <<generated + 1>>)
          BY <3>1, <5>2, ConcatAssociative
        <5>4. QED
          BY <3>2, <3>3, <4>2, <5>1, <5>2, <5>3
      <4>3. QED
        BY <4>1, <4>2
    <3>7. (task \in {"done", "rx", "tx", "flush"} =>
            (TextOf(AllFrames) \o acc) \o chan = Upto(IF dropped THEN generated - 1 ELSE generated))'
      BY <2>1, <3>4, <3>5, <3>6
    <3>8. (NothingLost <=>
           (task \in {"done", "rx", "tx", "flush"} =>
             (TextOf(AllFrames) \o acc) \o chan = Upto(IF dropped THEN generated - 1 ELSE generated)))'
      BY LostIs, PTL
    <3>9. QED
      BY <3>7, <3>8
  <2>11. QED
    BY <2>6, <2>7, <2>9, <2>10 DEF SInv
<1>3. CASE StepFails \/ Report \/ Close
  <2>1. /\ UNCHANGED <<received, body, frames, acc, chan, generated, dropped, task, reasonSet,
                       connected, failure>>
        /\ sequence' \in {"failed", "closing", "gone"}
        /\ report' \in {report, sequence} /\ closed' \in BOOLEAN
    BY <1>1, <1>3 DEF StepFails, Report, Close, clientVars, TypeOK
  <2>2. Typed'
    BY <1>1, <1>3, <2>1 DEF Typed, TypeOK, StepFails, Report, Close
  <2>3. Reports' /\ (report = "complete" => report' = "complete")
    BY <1>1, <1>3, <2>1 DEF Reports, TypeOK, StepFails, Report, Close
  <2>4. AllFrames' = AllFrames
    BY <2>1 DEF AllFrames
  <2>5. task' \in {"done", "rx", "tx", "error", "flush", "ended"} /\ task' = task
    BY <1>1, <2>1 DEF TypeOK
  <2>6. QED
    BY <2>1, <2>2, <2>3, <2>4, <2>5, StreamQuiet
<1>4. QED
  BY <1>2, <1>3 DEF Engine

(* The task takes a token: what it decodes leaves as a frame, the rest     *)
(* waits for the character to end.                                         *)
LEMMA StreamDecode ==
  ASSUME SInv, task = "rx", chan # <<>>, NEW n \in 0 .. Len(acc) + 1,
         Decode(Append(acc, Head(chan)), n), chan' = Tail(chan),
         UNCHANGED <<engineVars, clientVars, reasonSet, body>>
  PROVE  SInv'
<1>1. Typed /\ Reports /\ NothingLost /\ Finished /\ TypeOK
  BY DEF SInv, Typed
<1> DEFINE text == Append(acc, Head(chan))
           out == SubSeq(text, 1, n)
           rest == SubSeq(text, n + 1, Len(text))
<1>2. /\ acc \in Seq(1 .. MaxNew) /\ chan \in Seq(1 .. MaxNew) /\ Len(chan) <= ChannelCap
      /\ Len(frames) <= Backlog /\ Backlog \in Nat /\ ChannelCap \in Nat
  BY <1>1, StreamAssumption DEF TypeOK
<1>3. /\ text \in Seq(1 .. MaxNew) /\ Len(text) = Len(acc) + 1
      /\ Tail(chan) \in Seq(1 .. MaxNew) /\ Len(Tail(chan)) = Len(chan) - 1
      /\ text \o Tail(chan) = acc \o chan
  BY <1>2, HandOver
<1>4. n \in 0 .. Len(text)
  BY <1>3
<1> HIDE DEF text
<1>5. /\ out \in Seq(1 .. MaxNew) /\ rest \in Seq(1 .. MaxNew)
      /\ out \o rest = text
      /\ n = 0 => rest = text
  BY <1>3, <1>4, TextSplit
<1>6. /\ acc' = rest
      /\ IF n > 0 /\ Len(frames) >= Backlog
         THEN task' = "error" /\ failure' = "backlog" /\ UNCHANGED frames
         ELSE /\ task' = "done"
              /\ frames' = IF n > 0 THEN Append(frames, Text(out)) ELSE frames
              /\ UNCHANGED failure
  BY DEF Decode, text
<1> HIDE DEF out, rest
<1>7. out \in Seq(Nat) /\ rest \in Seq(Nat) /\ text \in Seq(Nat) /\ Tail(chan) \in Seq(Nat)
  <2>1. 1 .. MaxNew \subseteq Nat
    OBVIOUS
  <2>2. QED
    BY <1>3, <1>5, <2>1, SeqMonotonic
<1>8. Text(out) \in Frame /\ Text(out).kind # "finish" /\ Text(out).text = out
  BY <1>7 DEF Text, Frame
<1>9. Len(chan) \in Nat /\ Len(frames) \in Nat /\ frames \in Seq(Frame)
  BY <1>1, <1>2, LenProperties DEF Typed
<1>10. Len(Tail(chan)) <= ChannelCap
  BY <1>2, <1>3, <1>9
<1>11. /\ task' \in {"done", "error"} /\ failure' \in {"backlog", failure}
       /\ task' = "done" => ~(n > 0 /\ Len(frames) >= Backlog)
       /\ frames' = frames \/ (frames' = Append(frames, Text(out)) /\ Len(frames) < Backlog)
       /\ task' = "done" => frames' = IF n > 0 THEN Append(frames, Text(out)) ELSE frames
  BY <1>2, <1>6, <1>9
<1>12. Typed'
  <2>1. frames' \in Seq(Frame) /\ Len(frames') <= Backlog
    <3>1. CASE frames' = frames
      BY <1>2, <1>9, <3>1
    <3>2. CASE frames' = Append(frames, Text(out)) /\ Len(frames) < Backlog
      <4>1. frames' \in Seq(Frame) /\ Len(frames') = Len(frames) + 1
        BY <1>8, <1>9, <3>2, AppendProperties
      <4>2. QED
        BY <1>2, <1>9, <3>2, <4>1
    <3>3. QED
      BY <1>11, <3>1, <3>2
  <2>2. Len(frames') \in Nat
    BY <2>1, LenProperties
  <2>3. Len(frames') <= Backlog + 2
    BY <1>2, <2>1, <2>2
  <2>4. QED
    BY <1>1, <1>3, <1>5, <1>6, <1>10, <1>11, <2>1, <2>3 DEF Typed, TypeOK, engineVars, clientVars
<1>13. Reports'
  BY <1>1, <1>11 DEF Reports, engineVars
<1>14. NoFinish(AllFrames) /\ AllFrames \in Seq(Frame)
  BY <1>1, PlacesFacts DEF Finished
<1>15. /\ frames' = frames => AllFrames' = AllFrames
       /\ frames' = Append(frames, Text(out)) => AllFrames' = Append(AllFrames, Text(out))
  <2> DEFINE sent == received \o body
             f == Text(out)
  <2>1. AllFrames' = sent \o frames' /\ AllFrames = sent \o frames
    BY DEF AllFrames, clientVars
  <2>2. sent \in Seq(Frame) /\ frames \in Seq(Frame) /\ f \in Frame
    BY <1>1, <1>8, <1>9, PlacesFacts
  <2> HIDE DEF sent, f
  <2>3. sent \o Append(frames, f) = Append(sent \o frames, f)
    BY <2>2, AppendOut
  <2>4. QED
    BY <2>1, <2>3 DEF f
<1>16. Finished'
  <2>1. NoFinish(AllFrames')
    <3>1. CASE AllFrames' = AllFrames
      BY <1>14, <3>1
    <3>2. CASE AllFrames' = Append(AllFrames, Text(out))
      <4> DEFINE a == AllFrames
                 f == Text(out)
      <4>1. /\ Len(Append(a, f)) = Len(a) + 1 /\ Append(a, f)[Len(a) + 1] = f
            /\ \A i \in 1 .. Len(a) : Append(a, f)[i] = a[i]
            /\ Len(a) \in Nat
        BY <1>8, <1>14, AppendProperties, LenProperties
      <4>2. f.kind # "finish" /\ NoFinish(a)
        BY <1>8, <1>14
      <4> HIDE DEF a, f
      <4>3. \A i \in 1 .. Len(a) + 1 : i \in 1 .. Len(a) \/ i = Len(a) + 1
        BY <4>1
      <4>4. NoFinish(Append(a, f))
        BY <4>1, <4>2, <4>3 DEF NoFinish
      <4>5. QED
        BY <3>2, <4>4 DEF a, f
    <3>3. QED
      BY <1>11, <1>15, <3>1, <3>2
  <2>2. QED
    BY <2>1 DEF Finished, NoFinish
<1>17. NothingLost'
  <2> DEFINE t == TextOf(AllFrames)
             u == Upto(IF dropped THEN generated - 1 ELSE generated)
  <2>1. (t \o acc) \o chan = u
    BY <1>1, LostIs
  <2>2. t \in Seq(Nat) /\ acc \in Seq(Nat) /\ chan \in Seq(Nat)
    BY <1>1, PlacesFacts
  <2>3. task' = "done" => AllFrames' = IF n > 0 THEN Append(AllFrames, Text(out)) ELSE AllFrames
    BY <1>11, <1>15
  <2>4. task' = "done" => TextOf(AllFrames') \o rest = t \o text
    <3>1. CASE n > 0
      <4>1. TextOf(Append(AllFrames, Text(out))) = t \o out
        BY <1>8, <1>14, TextOfAppend
      <4> HIDE DEF t
      <4>2. (t \o out) \o rest = t \o (out \o rest)
        <5>1. t \in Seq(Nat)
          BY <2>2
        <5>2. out \in Seq(Nat) /\ rest \in Seq(Nat)
          BY <1>7
        <5>3. QED
          BY <5>1, <5>2, TextAssociative
      <4>3. QED
        BY <1>5, <2>3, <3>1, <4>1, <4>2
    <3>2. CASE ~(n > 0)
      <4>1. n = 0
        BY <3>2
      <4>2. QED
        BY <1>5, <2>3, <4>1
    <3>3. QED
      BY <3>1, <3>2
  <2>5. (t \o text) \o Tail(chan) = u
    <3> HIDE DEF t, u
    <3>1. (t \o text) \o Tail(chan) = t \o (text \o Tail(chan))
      <4>1. t \in Seq(Nat)
        BY <2>2
      <4>2. text \in Seq(Nat) /\ Tail(chan) \in Seq(Nat)
        BY <1>7
      <4>3. QED
        BY <4>1, <4>2, TextAssociative
    <3>2. (t \o acc) \o chan = t \o (acc \o chan)
      BY <2>2, TextAssociative
    <3>3. QED
      BY <1>3, <2>1, <3>1, <3>2
  <2>6. (TextOf(AllFrames))' = TextOf(AllFrames')
    BY DEF TextOf
  <2>7. u' = u
    BY DEF engineVars
  <2> HIDE DEF t, u
  <2>8. task' = "done" => (TextOf(AllFrames') \o acc') \o chan' = u
    BY <1>6, <2>4, <2>5
  <2>9. (task \in {"done", "rx", "tx", "flush"} =>
          (TextOf(AllFrames) \o acc) \o chan = Upto(IF dropped THEN generated - 1 ELSE generated))'
    BY <1>11, <2>6, <2>7, <2>8 DEF u
  <2>10. (NothingLost <=>
          (task \in {"done", "rx", "tx", "flush"} =>
            (TextOf(AllFrames) \o acc) \o chan = Upto(IF dropped THEN generated - 1 ELSE generated)))'
    BY LostIs, PTL
  <2>11. QED
    BY <2>9, <2>10
<1>18. QED
  BY <1>12, <1>13, <1>16, <1>17 DEF SInv

(* The channel is found empty and closed: the rest of the response and a   *)
(* finish chunk, or an error.                                              *)
LEMMA StreamClosed ==
  ASSUME SInv, task = "rx", chan = <<>>, closed, ChannelClosed,
         UNCHANGED <<engineVars, clientVars, chan, reasonSet, body>>
  PROVE  SInv'
<1>1. Typed /\ Reports /\ NothingLost /\ Finished /\ TypeOK
  BY DEF SInv, Typed
<1>2. CASE ~reasonSet
  <2>1. task' = "error" /\ failure' = "closed_early" /\ UNCHANGED <<acc, frames>>
    BY <1>2 DEF ChannelClosed
  <2>2. Typed' /\ Reports'
    BY <1>1, <2>1 DEF Typed, TypeOK, Reports, engineVars, clientVars
  <2>3. AllFrames' = AllFrames
    BY <2>1 DEF AllFrames, clientVars
  <2>4. QED
    BY <2>1, <2>2, <2>3, StreamQuiet DEF engineVars
<1>3. CASE reasonSet
  <2> DEFINE mid == IF acc = <<>> THEN frames ELSE Append(frames, Text(acc))
             sent == received \o body
             all == sent \o mid
             f == FinishChunk
  <2>1. task' = "flush" /\ frames' = Epilogue /\ acc' = <<>> /\ failure' = failure
    BY <1>3 DEF ChannelClosed
  <2>2. report = "complete" /\ ~dropped
    BY <1>1, <1>3 DEF Reports, TypeOK
  <2>3. /\ frames \in Seq(Frame) /\ Len(frames) \in Nat /\ Len(frames) <= Backlog
        /\ acc \in Seq(Nat) /\ sent \in Seq(Frame) /\ AllFrames \in Seq(Frame)
        /\ Backlog \in Nat
    BY <1>1, PlacesFacts, LenProperties, StreamAssumption DEF Typed, TypeOK
  <2>4. Text(acc) \in Frame /\ Text(acc).text = acc /\ Text(acc).kind # "finish"
    BY <2>3 DEF Text, Frame
  <2>5. f \in Frame /\ f.text = <<>> /\ f.kind = "finish"
    BY EmptySeq DEF FinishChunk, Frame
  <2>6. mid \in Seq(Frame) /\ Len(mid) \in Nat /\ Len(mid) <= Backlog + 1
    <3>1. CASE acc = <<>>
      BY <2>3, <3>1
    <3>2. CASE acc # <<>>
      <4>1. mid \in Seq(Frame) /\ Len(mid) = Len(frames) + 1
        BY <2>3, <2>4, <3>2, AppendProperties
      <4>2. QED
        BY <2>3, <4>1
    <3>3. QED
      BY <3>1, <3>2
  <2>7. frames' = Append(mid, f)
    <3>1. CASE acc = <<>>
      <4>1. Epilogue = (frames \o <<>>) \o <<f>>
        BY <3>1 DEF Epilogue
      <4>2. frames \o <<>> = frames
        BY <2>3, ConcatEmptySeq
      <4>3. Append(frames, f) = frames \o <<f>>
        BY <2>3, <2>5, AppendIsConcat
      <4>4. QED
        BY <2>1, <3>1, <4>1, <4>2, <4>3
    <3>2. CASE acc # <<>>
      <4>1. Epilogue = (frames \o <<Text(acc)>>) \o <<f>>
        BY <3>2 DEF Epilogue
      <4>2. frames \o <<Text(acc)>> = Append(frames, Text(acc))
        BY <2>3, <2>4, AppendIsConcat
      <4>3. mid = Append(frames, Text(acc))
        BY <3>2
      <4> HIDE DEF mid, f
      <4>4. Append(mid, f) = mid \o <<f>>
        BY <2>5, <2>6, AppendIsConcat
      <4>5. QED
        BY <2>1, <4>1, <4>2, <4>3, <4>4 DEF f
    <3>3. QED
      BY <3>1, <3>2
  <2>8. sent' = sent /\ AllFrames = sent \o frames /\ AllFrames' = sent \o frames'
    BY DEF AllFrames, clientVars
  <2>9. all = IF acc = <<>> THEN AllFrames ELSE Append(AllFrames, Text(acc))
    <3>1. CASE acc = <<>>
      BY <2>8, <3>1
    <3>2. CASE acc # <<>>
      <4> DEFINE x == Text(acc)
      <4>1. x \in Frame /\ mid = Append(frames, x)
        BY <2>4, <3>2
      <4> HIDE DEF mid, sent, x
      <4>2. sent \o Append(frames, x) = Append(sent \o frames, x)
        BY <2>3, <4>1, AppendOut
      <4>3. QED
        BY <2>8, <3>2, <4>1, <4>2 DEF x
    <3>3. QED
      BY <3>1, <3>2
  <2>10. AllFrames' = Append(all, f)
    <3> HIDE DEF mid, sent, f
    <3>1. sent \o Append(mid, f) = Append(sent \o mid, f)
      BY <2>3, <2>5, <2>6, AppendOut
    <3>2. QED
      BY <2>7, <2>8, <3>1
  <2>11. all \in Seq(Frame) /\ NoFinish(all)
    <3>1. NoFinish(AllFrames)
      BY <1>1 DEF Finished
    <3>2. CASE acc = <<>>
      BY <2>3, <2>9, <3>1, <3>2
    <3>3. CASE acc # <<>>
      <4> DEFINE a == AllFrames
                 x == Text(acc)
      <4>1. /\ Append(a, x) \in Seq(Frame)
            /\ Len(Append(a, x)) = Len(a) + 1 /\ Append(a, x)[Len(a) + 1] = x
            /\ \A i \in 1 .. Len(a) : Append(a, x)[i] = a[i]
            /\ Len(a) \in Nat
        BY <2>3, <2>4, AppendProperties, LenProperties
      <4>2. x.kind # "finish" /\ NoFinish(a) /\ all = Append(a, x)
        BY <2>4, <2>9, <3>1, <3>3
      <4> HIDE DEF a, x, all
      <4>3. \A i \in 1 .. Len(a) + 1 : i \in 1 .. Len(a) \/ i = Len(a) + 1
        BY <4>1
      <4>4. NoFinish(Append(a, x))
        BY <4>1, <4>2, <4>3 DEF NoFinish
      <4>5. QED
        BY <4>1, <4>2, <4>4
    <3>4. QED
      BY <3>2, <3>3
  <2>12. TextOf(all) = Upto(generated)
    <3>1. (TextOf(AllFrames) \o acc) \o chan = Upto(generated)
      BY <1>1, <2>2, LostIs
    <3>2. TextOf(AllFrames) \o acc \in Seq(Nat) /\ TextOf(AllFrames) \in Seq(Nat)
      BY <1>1, PlacesFacts
    <3>3. TextOf(AllFrames) \o acc = Upto(generated)
      BY <3>1, <3>2, ConcatEmptySeq
    <3>4. CASE acc = <<>>
      BY <2>9, <3>2, <3>3, <3>4, ConcatEmptySeq
    <3>5. CASE acc # <<>>
      <4>1. TextOf(Append(AllFrames, Text(acc))) = TextOf(AllFrames) \o acc
        BY <2>3, <2>4, TextOfAppend
      <4>2. QED
        BY <2>9, <3>3, <3>5, <4>1
    <3>6. QED
      BY <3>4, <3>5
  <2>13. TextOf(AllFrames') = Upto(generated)
    <3> DEFINE a == all
    <3>1. a \in Seq(Frame)
      BY <2>11
    <3> HIDE DEF all, f
    <3>2. TextOf(Append(a, f)) = TextOf(a) \o <<>>
      BY <2>5, <3>1, TextOfAppend
    <3>3. TextOf(a) \o <<>> = TextOf(a)
      <4>1. TextOf(a) \in Seq(Nat)
        BY <3>1, TextOfType
      <4>2. QED
        BY <4>1, ConcatEmptySeq
    <3>4. QED
      BY <2>10, <2>12, <3>2, <3>3
  <2> HIDE DEF mid, sent
  <2>14. Typed'
    <3>1. frames' \in Seq(Frame) /\ Len(frames') = Len(mid) + 1
      BY <2>5, <2>6, <2>7, AppendProperties
    <3>2. Len(frames') <= Backlog + 2
      BY <2>3, <2>6, <3>1
    <3>3. acc' \in Seq(1 .. MaxNew)
      BY <2>1, EmptySeq
    <3>4. QED
      BY <1>1, <2>1, <3>1, <3>2, <3>3 DEF Typed, TypeOK, engineVars, clientVars
  <2>15. Reports'
    <3>1. frames' # <<>>
      BY <2>5, <2>6, <2>7, AppendProperties
    <3>2. QED
      BY <1>1, <2>1, <3>1 DEF Reports, engineVars
  <2>16. Finished'
    <3> DEFINE a == all
    <3>1. /\ Len(Append(a, f)) = Len(a) + 1
          /\ \A i \in 1 .. Len(a) : Append(a, f)[i] = a[i]
          /\ Len(a) \in Nat
      <4>1. a \in Seq(Frame)
        BY <2>11
      <4> HIDE DEF all, f
      <4>2. QED
        BY <2>5, <4>1, AppendProperties, LenProperties
    <3>2. NoFinish(a)
      BY <2>11
    <3> HIDE DEF all, f
    <3>3. \A i \in 1 .. Len(a) + 1 : i \in 1 .. Len(a) \/ i = Len(a) + 1
      BY <3>1
    <3>4. \A i \in 1 .. Len(Append(a, f)) : Append(a, f)[i].kind = "finish" => i = Len(Append(a, f))
      BY <3>1, <3>2, <3>3 DEF NoFinish
    <3>5. report' = "complete" /\ generated' = generated /\ task' = "flush"
      BY <2>1, <2>2 DEF engineVars
    <3>6. QED
      BY <2>10, <2>13, <3>4, <3>5 DEF Finished
  <2>17. NothingLost'
    <3>1. TextOf(AllFrames') \in Seq(Nat)
      BY <2>13, <1>1, PlacesFacts, UptoNext
    <3>2. (TextOf(AllFrames') \o <<>>) \o <<>> = TextOf(AllFrames')
      BY <3>1, ConcatEmptySeq
    <3>3. (TextOf(AllFrames))' = TextOf(AllFrames')
      BY DEF TextOf
    <3>4. acc' = <<>> /\ chan' = <<>> /\ ~dropped' /\ generated' = generated
      BY <2>1, <2>2 DEF engineVars
    <3>5. (task \in {"done", "rx", "tx", "flush"} =>
            (TextOf(AllFrames) \o acc) \o chan = Upto(IF dropped THEN generated - 1 ELSE generated))'
      BY <2>13, <3>2, <3>3, <3>4
    <3>6. (NothingLost <=>
           (task \in {"done", "rx", "tx", "flush"} =>
             (TextOf(AllFrames) \o acc) \o chan = Upto(IF dropped THEN generated - 1 ELSE generated)))'
      BY LostIs, PTL
    <3>7. QED
      BY <3>5, <3>6
  <2>18. QED
    BY <2>14, <2>15, <2>16, <2>17 DEF SInv
<1>4. QED
  BY <1>2, <1>3

(* One poll of the token channel.                                          *)
LEMMA StreamPollRx == SInv /\ PollRx => SInv'
<1> SUFFICES ASSUME SInv, PollRx PROVE SInv'
  OBVIOUS
<1>1. task = "rx" /\ UNCHANGED <<engineVars, clientVars, reasonSet, body>>
  BY DEF PollRx
<1>2. CASE chan # <<>>
  <2>1. chan' = Tail(chan) /\ \E n \in 0 .. Len(acc) + 1 : Decode(Append(acc, Head(chan)), n)
    BY <1>2 DEF PollRx
  <2>2. QED
    BY <1>1, <1>2, <2>1, StreamDecode
<1>3. CASE chan = <<>> /\ closed
  <2>1. ChannelClosed /\ chan' = chan
    BY <1>3 DEF PollRx
  <2>2. QED
    BY <1>1, <1>3, <2>1, StreamClosed
<1>4. CASE chan = <<>> /\ ~closed
  <2>1. task' = "tx" /\ UNCHANGED <<acc, frames, failure, chan>>
    BY <1>4 DEF PollRx
  <2>2. Typed' /\ Reports'
    BY <1>1, <2>1 DEF SInv, Typed, TypeOK, Reports, engineVars, clientVars
  <2>3. AllFrames' = AllFrames
    BY <1>1, <2>1 DEF AllFrames, clientVars
  <2>4. QED
    BY <1>1, <2>1, <2>2, <2>3, StreamQuiet DEF engineVars
<1>5. QED
  BY <1>2, <1>3, <1>4

(* One poll of the completion.                                             *)
LEMMA StreamPollDone == SInv /\ PollDone => SInv'
<1> SUFFICES ASSUME SInv, PollDone PROVE SInv'
  OBVIOUS
<1>1. /\ task = "done" /\ task' \in {"done", "rx", "error"}
      /\ failure' \in {"engine", failure} /\ reasonSet' \in BOOLEAN
      /\ reasonSet' => reasonSet \/ report = "complete"
      /\ UNCHANGED <<engineVars, clientVars, chan, acc, frames, body>>
  BY DEF PollDone, SInv, Typed, TypeOK
<1>2. Typed' /\ Reports'
  BY <1>1 DEF SInv, Typed, TypeOK, Reports, engineVars, clientVars
<1>3. AllFrames' = AllFrames
  BY <1>1 DEF AllFrames, clientVars
<1>4. QED
  BY <1>1, <1>2, <1>3, StreamQuiet DEF engineVars

(* A frame goes from the task to the body: no frame changes its place      *)
(* among all.                                                              *)
LEMMA FrameSent ==
  ASSUME Typed, frames # <<>>, Len(body) < BodyCap,
         body' = Append(body, Head(frames)), frames' = Tail(frames), received' = received
  PROVE  /\ AllFrames' = AllFrames
         /\ body' \in Seq(Frame) /\ frames' \in Seq(Frame)
         /\ Len(body') <= BodyCap /\ Len(frames') = Len(frames) - 1 /\ Len(frames) \in Nat
<1>1. /\ body \in Seq(Frame) /\ frames \in Seq(Frame) /\ received \in Seq(Frame)
      /\ Len(body) \in Nat /\ Len(frames) \in Nat /\ BodyCap \in Nat
  BY LenProperties, StreamAssumption DEF Typed
<1>2. /\ frames' \in Seq(Frame) /\ Len(frames') = Len(frames) - 1
      /\ body' \in Seq(Frame) /\ Len(body') = Len(body) + 1
      /\ body' \o frames' = body \o frames
  BY <1>1, HandOver
<1>3. Len(body') <= BodyCap
  BY <1>1, <1>2
<1>4. AllFrames' = AllFrames
  <2>1. AllFrames' = (received \o body') \o frames'
    BY DEF AllFrames
  <2>2. (received \o body') \o frames' = received \o (body' \o frames')
    <3> DEFINE x == received
               y == body'
               z == frames'
    <3>1. x \in Seq(Frame) /\ y \in Seq(Frame) /\ z \in Seq(Frame)
      BY <1>1, <1>2
    <3> HIDE DEF x, y, z
    <3>2. (x \o y) \o z = x \o (y \o z)
      BY <3>1, ConcatAssociative
    <3>3. QED
      BY <3>2 DEF x, y, z
  <2>3. (received \o body) \o frames = received \o (body \o frames)
    BY <1>1, ConcatAssociative
  <2>4. QED
    BY <1>2, <2>1, <2>2, <2>3 DEF AllFrames
<1>5. QED
  BY <1>1, <1>2, <1>3, <1>4

(* One poll of the body.                                                   *)
LEMMA StreamPollTx == SInv /\ PollTx => SInv'
<1> SUFFICES ASSUME SInv, PollTx PROVE SInv'
  OBVIOUS
<1>1. /\ task = "tx" /\ Typed /\ Reports
      /\ task' \in {"ended", "done"}
      /\ UNCHANGED <<engineVars, clientVars, chan, acc, reasonSet, failure>>
  BY DEF PollTx, SInv
<1>2. CASE UNCHANGED <<frames, body>>
  <2>1. Typed' /\ Reports'
    BY <1>1, <1>2 DEF Typed, TypeOK, Reports, engineVars, clientVars
  <2>2. AllFrames' = AllFrames
    BY <1>1, <1>2 DEF AllFrames, clientVars
  <2>3. QED
    BY <1>1, <2>1, <2>2, StreamQuiet DEF engineVars
<1>3. CASE ~UNCHANGED <<frames, body>>
  <2>1. /\ frames # <<>> /\ Len(body) < BodyCap
        /\ body' = Append(body, Head(frames)) /\ frames' = Tail(frames)
    BY <1>3 DEF PollTx
  <2>2. /\ AllFrames' = AllFrames
        /\ body' \in Seq(Frame) /\ frames' \in Seq(Frame)
        /\ Len(body') <= BodyCap /\ Len(frames') = Len(frames) - 1 /\ Len(frames) \in Nat
    BY <1>1, <2>1, FrameSent DEF clientVars
  <2>3. Len(frames) <= Backlog /\ Backlog \in Nat
    BY <1>1, StreamAssumption DEF Typed, TypeOK
  <2>4. Len(frames') <= Backlog /\ Len(frames') <= Backlog + 2
    BY <2>2, <2>3
  <2>5. Typed' /\ Reports'
    BY <1>1, <2>2, <2>4 DEF Typed, TypeOK, Reports, engineVars, clientVars
  <2>6. QED
    BY <1>1, <2>2, <2>5, StreamQuiet DEF engineVars
<1>4. QED
  BY <1>2, <1>3

(* The epilogue hands over one of the frames that are left.                *)
LEMMA StreamFlush == SInv /\ Flush => SInv'
<1> SUFFICES ASSUME SInv, Flush PROVE SInv'
  OBVIOUS
<1>1. /\ task = "flush" /\ Typed /\ Reports
      /\ Len(body) < BodyCap
      /\ body' = Append(body, Head(frames)) /\ frames' = Tail(frames)
      /\ task' \in {"ended", "flush"}
      /\ UNCHANGED <<engineVars, clientVars, chan, acc, reasonSet, failure>>
  BY DEF Flush, SInv
<1>2. CASE frames # <<>>
  <2>1. /\ AllFrames' = AllFrames
        /\ body' \in Seq(Frame) /\ frames' \in Seq(Frame)
        /\ Len(body') <= BodyCap /\ Len(frames') = Len(frames) - 1 /\ Len(frames) \in Nat
    BY <1>1, <1>2, FrameSent DEF clientVars
  <2>2. Len(frames) <= Backlog + 2 /\ Backlog \in Nat
    BY <1>1, StreamAssumption DEF Typed, TypeOK
  <2>3. Len(frames') <= Backlog + 2
    BY <2>1, <2>2
  <2>4. task' = "flush" => frames' # <<>>
    BY DEF Flush
  <2>5. Typed' /\ Reports'
    BY <1>1, <2>1, <2>3, <2>4 DEF Typed, TypeOK, Reports, engineVars, clientVars
  <2>6. QED
    BY <1>1, <2>1, <2>5, StreamQuiet DEF engineVars
<1>3. QED
  BY <1>1, <1>2 DEF Reports

(* A failed stream ends with an error frame, and no finish chunk.          *)
LEMMA StreamError == SInv /\ SendError => SInv'
<1> SUFFICES ASSUME SInv, SendError PROVE SInv'
  OBVIOUS
<1> DEFINE e == ErrorFrame
<1>1. /\ task = "error" /\ Typed /\ Reports /\ Finished
      /\ Len(body) < BodyCap
      /\ body' = Append(body, e)
      /\ task' = "ended"
      /\ UNCHANGED <<engineVars, clientVars, chan, acc, frames, reasonSet, failure>>
  BY DEF SendError, SInv
<1>2. /\ body \in Seq(Frame) /\ frames \in Seq(Frame) /\ received \in Seq(Frame)
      /\ Len(body) \in Nat /\ Len(frames) \in Nat /\ Len(received) \in Nat /\ BodyCap \in Nat
  BY <1>1, LenProperties, StreamAssumption DEF Typed
<1>3. e \in Frame /\ e.kind # "finish"
  BY EmptySeq DEF ErrorFrame, Frame
<1> HIDE DEF e
<1>4. body' \in Seq(Frame) /\ Len(body') = Len(body) + 1
  BY <1>1, <1>2, <1>3, AppendProperties
<1>5. Len(body') <= BodyCap
  BY <1>1, <1>2, <1>4
<1>6. Typed' /\ Reports'
  BY <1>1, <1>4, <1>5 DEF Typed, TypeOK, Reports, engineVars, clientVars
<1> DEFINE p == received \o body
           q == frames
<1>7. p \in Seq(Frame) /\ q \in Seq(Frame) /\ NoFinish(p \o q)
  BY <1>1, PlacesFacts DEF Finished, AllFrames, Typed
<1>8. AllFrames' = Append(p, e) \o q
  BY <1>1, <1>2, <1>3, AppendOut DEF AllFrames, clientVars
<1> HIDE DEF p, q
<1>9. NoFinish(p) /\ NoFinish(q)
  <2>1. /\ Len(p) \in Nat /\ Len(q) \in Nat /\ Len(p \o q) = Len(p) + Len(q)
        /\ \A i \in 1 .. Len(p) + Len(q) : (p \o q)[i] = IF i <= Len(p) THEN p[i] ELSE q[i - Len(p)]
    BY <1>7, ConcatProperties, LenProperties
  <2>2. ASSUME NEW i \in 1 .. Len(p) PROVE p[i].kind # "finish"
    <3>1. i \in 1 .. Len(p) + Len(q) /\ i <= Len(p)
      BY <2>1
    <3>2. QED
      BY <1>7, <2>1, <3>1 DEF NoFinish
  <2>3. ASSUME NEW i \in 1 .. Len(q) PROVE q[i].kind # "finish"
    <3>1. /\ i + Len(p) \in 1 .. Len(p) + Len(q) /\ ~(i + Len(p) <= Len(p))
          /\ (i + Len(p)) - Len(p) = i
      BY <2>1
    <3>2. QED
      BY <1>7, <2>1, <3>1 DEF NoFinish
  <2>4. QED
    BY <2>2, <2>3 DEF NoFinish
<1>10. NoFinish(Append(p, e) \o q)
  <2> DEFINE r == Append(p, e)
  <2>1. /\ r \in Seq(Frame) /\ Len(r) = Len(p) + 1 /\ r[Len(p) + 1] = e
        /\ \A i \in 1 .. Len(p) : r[i] = p[i]
        /\ Len(p) \in Nat /\ Len(q) \in Nat
    BY <1>3, <1>7, AppendProperties, LenProperties
  <2> HIDE DEF r
  <2>2. /\ Len(r \o q) = Len(r) + Len(q)
        /\ \A i \in 1 .. Len(r) + Len(q) : (r \o q)[i] = IF i <= Len(r) THEN r[i] ELSE q[i - Len(r)]
    BY <1>7, <2>1, ConcatProperties
  <2>3. ASSUME NEW i \in 1 .. Len(r) + Len(q) PROVE (r \o q)[i].kind # "finish"
    <3>1. i \in 1 .. Len(p) \/ i = Len(p) + 1 \/ (~(i <= Len(r)) /\ i - Len(r) \in 1 .. Len(q))
      BY <2>1
    <3>2. CASE i \in 1 .. Len(p)
      <4>1. i <= Len(r)
        BY <2>1, <3>2
      <4>2. QED
        BY <1>9, <2>1, <2>2, <3>2, <4>1 DEF NoFinish
    <3>3. CASE i = Len(p) + 1
      <4>1. i <= Len(r)
        BY <2>1, <3>3
      <4>2. QED
        BY <1>3, <2>1, <2>2, <3>3, <4>1
    <3>4. CASE ~(i <= Len(r)) /\ i - Len(r) \in 1 .. Len(q)
      BY <1>9, <2>2, <3>4 DEF NoFinish
    <3>5. QED
      BY <3>1, <3>2, <3>3, <3>4
  <2>4. QED
    BY <2>2, <2>3 DEF NoFinish, r
<1>11. NoFinish(AllFrames')
  BY <1>8, <1>10
<1>12. Finished'
  BY <1>1, <1>11 DEF Finished, NoFinish
<1>13. NothingLost'
  BY <1>1 DEF NothingLost
<1>14. QED
  BY <1>6, <1>12, <1>13 DEF SInv

(* A deadline, or the client, ends the task where it is.                   *)
LEMMA StreamGiveUp == SInv /\ GiveUp => SInv'
<1> SUFFICES ASSUME SInv, GiveUp PROVE SInv'
  OBVIOUS
<1>1. /\ task' = "ended"
      /\ UNCHANGED <<engineVars, clientVars, chan, acc, frames, reasonSet, failure, body>>
  BY DEF GiveUp
<1>2. Typed' /\ Reports'
  BY <1>1 DEF SInv, Typed, TypeOK, Reports, engineVars, clientVars
<1>3. AllFrames' = AllFrames
  BY <1>1 DEF AllFrames, clientVars
<1>4. QED
  BY <1>1, <1>2, <1>3, StreamQuiet DEF engineVars

(* The client reads a frame or hangs up.                                   *)
LEMMA StreamClient == SInv /\ (Read \/ Hangup) => SInv'
<1> SUFFICES ASSUME SInv, Read \/ Hangup PROVE SInv'
  OBVIOUS
<1>1. Typed /\ Reports /\ TypeOK
  BY DEF SInv, Typed
<1>2. CASE Read
  <2>1. /\ body # <<>> /\ received' = Append(received, Head(body)) /\ body' = Tail(body)
        /\ UNCHANGED <<engineVars, connected, chan, task, acc, frames, reasonSet, failure>>
    BY <1>2 DEF Read
  <2>2. /\ received \in Seq(Frame) /\ body \in Seq(Frame) /\ Len(body) \in Nat
        /\ Len(body) <= BodyCap /\ BodyCap \in Nat
    BY <1>1, LenProperties, StreamAssumption DEF Typed, TypeOK
  <2>3. /\ body' \in Seq(Frame) /\ Len(body') = Len(body) - 1 /\ received' \in Seq(Frame)
        /\ received' \o body' = received \o body
    BY <2>1, <2>2, HandOver
  <2>4. Len(body') <= BodyCap
    BY <2>2, <2>3
  <2>5. Typed' /\ Reports'
    BY <1>1, <2>1, <2>3, <2>4 DEF Typed, TypeOK, Reports, engineVars
  <2>6. AllFrames' = AllFrames
    BY <2>1, <2>3 DEF AllFrames
  <2>7. task \in {"done", "rx", "tx", "error", "flush", "ended"}
    BY <1>1 DEF TypeOK
  <2>8. QED
    BY <2>1, <2>5, <2>6, <2>7, StreamQuiet DEF engineVars
<1>3. CASE Hangup
  <2>1. /\ connected' = FALSE
        /\ UNCHANGED <<engineVars, received, chan, task, acc, frames, reasonSet, failure, body>>
    BY <1>3 DEF Hangup
  <2>2. Typed' /\ Reports'
    BY <1>1, <2>1 DEF Typed, TypeOK, Reports, engineVars
  <2>3. AllFrames' = AllFrames
    BY <2>1 DEF AllFrames
  <2>4. task \in {"done", "rx", "tx", "error", "flush", "ended"}
    BY <1>1 DEF TypeOK
  <2>5. QED
    BY <2>1, <2>2, <2>3, <2>4, StreamQuiet DEF engineVars
<1>4. QED
  BY <1>2, <1>3

(* Every step of the engine thread, the task and the client keeps it.      *)
LEMMA StreamNext == SInv /\ [Next]_vars => SInv'
<1> SUFFICES ASSUME SInv, [Next]_vars PROVE SInv'
  OBVIOUS
<1>1. CASE Engine
  BY <1>1, StreamEngine
<1>2. CASE Task
  BY <1>2, StreamPollDone, StreamPollRx, StreamPollTx, StreamFlush, StreamError, StreamGiveUp
     DEF Task
<1>3. CASE Read \/ Hangup
  BY <1>3, StreamClient
<1>4. CASE UNCHANGED vars
  <2>1. UNCHANGED <<engineVars, clientVars, chan, task, acc, frames, reasonSet, failure, body>>
    BY <1>4 DEF vars
  <2>2. Typed' /\ Reports'
    BY <2>1 DEF SInv, Typed, TypeOK, Reports, engineVars, clientVars
  <2>3. AllFrames' = AllFrames
    BY <2>1 DEF AllFrames, clientVars
  <2>4. task \in {"done", "rx", "tx", "error", "flush", "ended"}
    BY DEF SInv, Typed, TypeOK
  <2>5. QED
    BY <2>1, <2>2, <2>3, <2>4, StreamQuiet DEF engineVars
<1>5. QED
  BY <1>1, <1>2, <1>3, <1>4 DEF Next

LEMMA StreamAlways == Spec => []SInv
BY StreamInit, StreamNext, PTL DEF Spec

(* Whatever the limits, no channel, body or backlog ever holds more than   *)
(* its bound, the two frames of an epilogue aside.                         *)
THEOREM StreamTypeCorrect == Spec => []TypeOK
<1>1. SInv => TypeOK
  BY DEF SInv, Typed
<1>2. QED
  BY <1>1, StreamAlways, PTL

(* Until the stream is failed, every token that was not dropped is between *)
(* the engine and the client exactly once and in order, whatever the       *)
(* channel, the backlog and the place a UTF-8 character is cut at.         *)
THEOREM NoTokenIsLost == Spec => []NothingLost
<1>1. SInv => NothingLost
  BY DEF SInv
<1>2. QED
  BY <1>1, StreamAlways, PTL

(* A finish chunk is sent once, last, after the whole text of a response   *)
(* that the engine reported complete.                                      *)
THEOREM FinishMeansWhole == Spec => []FinishIsWhole
<1>1. SInv => FinishIsWhole
  <2> SUFFICES ASSUME SInv, NEW i \in 1 .. Len(received \o body),
                      (received \o body)[i] = FinishChunk
               PROVE  /\ report = "complete" /\ i = Len(received \o body)
                      /\ TextOf(received \o body) = Upto(generated)
    BY DEF FinishIsWhole
  <2> DEFINE sent == received \o body
  <2>1. /\ sent \in Seq(Frame) /\ frames \in Seq(Frame)
        /\ Len(sent) \in Nat /\ Len(frames) \in Nat /\ AllFrames = sent \o frames
    BY PlacesFacts, LenProperties DEF SInv, Typed, AllFrames
  <2>2. sent[i].kind = "finish" /\ i \in 1 .. Len(sent)
    BY DEF FinishChunk
  <2> HIDE DEF sent
  <2>3. /\ Len(AllFrames) = Len(sent) + Len(frames)
        /\ i \in 1 .. Len(sent) + Len(frames)
        /\ AllFrames[i] = sent[i]
    <3>1. i \in 1 .. Len(sent) + Len(frames) /\ i <= Len(sent)
      BY <2>1, <2>2
    <3>2. QED
      BY <2>1, <3>1, ConcatProperties
  <2>4. i = Len(AllFrames) /\ report = "complete" /\ TextOf(AllFrames) = Upto(generated)
    BY <2>2, <2>3 DEF SInv, Finished
  <2>5. Len(frames) = 0 /\ i = Len(sent)
    BY <2>1, <2>2, <2>3, <2>4
  <2>6. AllFrames = sent
    <3>1. frames = <<>>
      BY <2>1, <2>5
    <3>2. QED
      BY <2>1, <3>1, ConcatEmptySeq
  <2>7. QED
    BY <2>4, <2>5, <2>6 DEF sent
<1>2. QED
  BY <1>1, StreamAlways, PTL
==============================================================================
